----------------------------- MODULE MC_Process -----------------------------
(* Two messages, which share a lock.                                         *)
EXTENDS Process

CONSTANTS m1, m2

MCKind == [u \in Updates |-> "message"]
=============================================================================
