--------------------------- MODULE MCModuleCalls ---------------------------
EXTENDS CallsSafety

\* Children print up to four chunks.
Printed == UNION {[1..n -> Stream] : n \in 0..4}

\* Chunks are numbered downwards: a first line has up to two of them.
Ends == {1, 3}
=============================================================================
