----------------------------- MODULE MCGitSend -----------------------------
(***************************************************************************)
(* TLC instances of GitSend.                                               *)
(***************************************************************************)
EXTENDS SendSafety

CONSTANT Outside  \* the edits that are not below the working directories

\* The runs work in a subdirectory of the clone.
InSubdirectory == [p \in Proc |-> Edit \ Outside]

\* All runs work in the root.
AllInRoot == [p \in Proc |-> Edit]
=============================================================================
