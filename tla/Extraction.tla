----------------------------- MODULE Extraction -----------------------------
(***************************************************************************)
(* What Orchestrator.process_url promises, whatever methods, platforms and   *)
(* cache it uses: a request is answered at most once, for good, and an       *)
(* article that answers it was extracted for a page that fits its URL, by    *)
(* this request or by an earlier one.                                        *)
(***************************************************************************)
CONSTANTS
    Requests, Urls, Articles,
    None,           \* no URL asked yet
    Fits(_, _)      \* Fits(article, url)

VARIABLES
    asked,          \* [Requests -> Urls \cup {None}]
    reply,          \* how each request stands: pending, or ended with what
    extracted       \* every article extracted so far

vars == <<asked, reply, extracted>>

Pending == [kind |-> "pending"]
Refused == [kind |-> "refused"]
Cancelled == [kind |-> "cancelled"]
With(a) == [kind |-> "article", article |-> a]

Init ==
    /\ asked = [r \in Requests |-> None]
    /\ reply = [r \in Requests |-> Pending]
    /\ extracted = {}

Open(r) == asked[r] # None /\ reply[r] = Pending

Ask(r, u) ==
    /\ asked[r] = None
    /\ asked' = [asked EXCEPT ![r] = u]
    /\ UNCHANGED <<reply, extracted>>

\* Extracting an article and answering with it may be two steps (the article is
\* cached in between) or one.
Extract(r) ==
    /\ Open(r)
    /\ extracted' \subseteq Articles
    /\ \E a \in extracted' :
          /\ Fits(a, asked[r])
          /\ extracted' = extracted \cup {a}
          /\ reply' \in {reply, [reply EXCEPT ![r] = With(a)]}
    /\ UNCHANGED asked

Answer(r) ==
    /\ Open(r)
    /\ \E a \in extracted :
          /\ Fits(a, asked[r])
          /\ reply' = [reply EXCEPT ![r] = With(a)]
    /\ UNCHANGED <<asked, extracted>>

GiveUp(r) ==
    /\ Open(r)
    /\ \E end \in {Refused, Cancelled} : reply' = [reply EXCEPT ![r] = end]
    /\ UNCHANGED <<asked, extracted>>

Next ==
    \E r \in Requests :
        \/ \E u \in Urls : Ask(r, u)
        \/ Extract(r) \/ Answer(r) \/ GiveUp(r)

Spec == Init /\ [][Next]_vars
=============================================================================
