--------------------------- MODULE MC_UrlHandler ---------------------------
(* Three updates of one user and two articles, one of them behind a login. *)
EXTENDS UrlHandler, TLC

CONSTANTS t1, t2, t3, free, locked

MCTasks == {t1, t2, t3}
MCUrls == {free, locked}
MCAuthUrls == {locked}

TaskSymmetry == Permutations(MCTasks)
=============================================================================
