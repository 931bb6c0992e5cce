-------------------------- MODULE MC_ArchiveRelay --------------------------
(* Three calls, which may be in flight together when a refusal comes; a pause  *)
(* of three ticks is long enough for a second refusal in the middle of it.     *)
EXTENDS ArchiveRelay

CONSTANTS f1, f2, f3

MCFetches == {f1, f2, f3}
=============================================================================
