-------------------------------- MODULE Null --------------------------------
\* The value that stands for SQL NULL and for Python's None.
CONSTANT None
=============================================================================
