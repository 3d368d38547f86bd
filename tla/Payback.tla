------------------------------- MODULE Payback -------------------------------
(***************************************************************************)
(* What LynxPay promises of giving money back, told by what is true and    *)
(* not by what the database has heard: a new request waits until no other  *)
(* of its payment is open, under way or executed, a request is sent to     *)
(* Daraja once and only while it is approved, what was sent comes to one   *)
(* end, and the books follow the money.  The leases, sweeps, callbacks and *)
(* status queries of Reversals implement this module.                      *)
(***************************************************************************)
CONSTANTS Payments, Reversals, PaymentOf

VARIABLES
    stage,      \* how far each request really is
    books       \* what the database says of each payment

Stages == {"absent", "asked", "approved", "withdrawn", "sent", "returned", "lost"}

TypeOK ==
    /\ stage \in [Reversals -> Stages]
    /\ books \in [Payments -> {"success", "reversed"}]

Init ==
    /\ stage = [r \in Reversals |-> "absent"]
    /\ books = [p \in Payments |-> "success"]

Goes(r, from, to) ==
    /\ stage[r] \in from
    /\ stage' = [stage EXCEPT ![r] = to]
    /\ UNCHANGED books

\* The other requests for the payment of r are in none of these stages.
NoOther(r, stages) ==
    \A q \in Reversals \ {r} : PaymentOf[q] = PaymentOf[r] => stage[q] \notin stages

Ask(r) ==
    /\ books[PaymentOf[r]] = "success"
    /\ NoOther(r, {"asked", "approved", "sent", "returned"})
    /\ Goes(r, {"absent"}, "asked")

Approve(r) ==
    /\ books[PaymentOf[r]] = "success"
    /\ Goes(r, {"asked"}, "approved")

Withdraw(r) == Goes(r, {"asked", "approved"}, "withdrawn")

Send(r) ==
    /\ books[PaymentOf[r]] = "success"
    /\ NoOther(r, {"asked", "approved", "sent", "returned"})
    /\ Goes(r, {"approved"}, "sent")

\* Daraja executes it, or it will never be executed.
Settle(r) == \E end \in {"returned", "lost"} : Goes(r, {"sent"}, end)

\* The books may be late, but they are not ahead of the money.
Book(p) ==
    /\ books[p] = "success"
    /\ \E r \in Reversals : PaymentOf[r] = p /\ stage[r] = "returned"
    /\ books' = [books EXCEPT ![p] = "reversed"]
    /\ UNCHANGED stage

Next ==
    \/ \E r \in Reversals : Ask(r) \/ Approve(r) \/ Withdraw(r) \/ Send(r) \/ Settle(r)
    \/ \E p \in Payments : Book(p)

Spec == Init /\ [][Next]_<<stage, books>>

=============================================================================
