------------------------------- MODULE MC_Bot -------------------------------
(* Two updates of one user, an article at each of two addresses and one that *)
(* fits neither.                                                             *)
EXTENDS Bot

CONSTANTS free, locked, elsewhere

MCArticles == {free, locked, elsewhere}

MCFits(a, u) == a = u
=============================================================================
