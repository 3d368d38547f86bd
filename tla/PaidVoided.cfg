CONSTANTS
    Invoices = {i1}
    Payments = {p1}
    Clerks = {c1}
    None = None
SPECIFICATION InvoiceSpec
PROPERTIES
    PaidIsNotVoided
CHECK_DEADLOCK FALSE
