-------------------------- MODULE MC_AccountStore --------------------------
(* Two calls, of two users, and the accounts of one site.                    *)
EXTENDS AccountStore

CONSTANTS c1, c2, ann, bob, mail

MCTasks == {c1, c2}
MCUsers == {ann, bob}
MCEmails == {mail}
MCDomain == [e \in MCEmails |-> "spiegel.de"]
=============================================================================
