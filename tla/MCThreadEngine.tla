--------------------------- MODULE MCThreadEngine ---------------------------
(* Test cases for ThreadEngine.                                            *)
EXTENDS ThreadEngine, SequencesExt

CONSTANT MaxLength  \* bound: entries of a test case before its last BARRIER

(* Every sequence of entries, ended by a BARRIER.                          *)
AllCases == {Append(c, [op |-> BARRIER]) : c \in BoundedSeq(Entries, MaxLength)}
=============================================================================
