---------------------------- MODULE ArchiveRelay ----------------------------
(***************************************************************************)
(* fetch_via_archive (src/bot/services/methods/archive_relay.py): concurrent *)
(* calls read archive.ph and, failing that, the Wayback Machine.  They share *)
(* one module variable, _blocked_until: once archive.ph has refused a        *)
(* request, no new one is sent there for Cooldown ticks.                     *)
(*                                                                           *)
(* The bot only calls it with normalized URLs, so the early return for an    *)
(* empty one is left out.  The clock is time.monotonic, in ticks.            *)
(***************************************************************************)
EXTENDS Integers

CONSTANTS
    Fetches,        \* concurrent calls of fetch_via_archive
    Cooldown,       \* _RATE_LIMIT_COOLDOWN_SECONDS
    MaxRedirects    \* _WAYBACK_MAX_REDIRECTS

ASSUME RelayAssumption ==
    /\ Cooldown \in Nat \ {0}
    /\ MaxRedirects \in Nat

VARIABLES
    pause,      \* _cooldown_remaining()
    pc,         \* the request each call awaits
    hops,       \* redirects of the snapshot each call has followed
    outcome,
    asked,      \* history: the calls that have turned to Wayback
    quiet       \* history: ticks since this process was last refused, at most Cooldown

vars == <<pause, pc, hops, outcome, asked, quiet>>

Awaiting == {"archive_ph", "available", "snapshot"}
Outcomes == {"pending", "article", "none", "broken"}

TypeOK ==
    /\ pause \in 0..Cooldown
    /\ pc \in [Fetches -> Awaiting \cup {"idle", "done"}]
    /\ hops \in [Fetches -> 0..MaxRedirects]
    /\ outcome \in [Fetches -> Outcomes]
    /\ asked \subseteq Fetches
    /\ quiet \in 0..Cooldown

Init ==
    /\ pause = 0
    /\ pc = [f \in Fetches |-> "idle"]
    /\ hops = [f \in Fetches |-> 0]
    /\ outcome = [f \in Fetches |-> "pending"]
    /\ asked = {}
    /\ quiet = Cooldown

Go(f, stage) == pc' = [pc EXCEPT ![f] = stage]
clock == <<pause, quiet>>

End(f, what) ==
    /\ Go(f, "done")
    /\ outcome' = [outcome EXCEPT ![f] = what]
    /\ UNCHANGED <<hops, asked>>

\* fetch_via_wayback: ask archive.org for the closest snapshot.
ToWayback(f) ==
    /\ Go(f, "available")
    /\ asked' = asked \cup {f}
    /\ UNCHANGED <<hops, outcome>>

-----------------------------------------------------------------------------
(* archive.ph *)

AskArchivePh(f) ==
    /\ pc[f] = "idle"
    /\ pause = 0
    /\ Go(f, "archive_ph")
    /\ UNCHANGED <<clock, hops, outcome, asked>>

SkipProlongs(f) ==
    /\ pc[f] = "idle"
    /\ pause > 0
    /\ ToWayback(f)
    /\ pause' = Cooldown
    /\ UNCHANGED quiet

SkipArchivePh(f) ==
    /\ pc[f] = "idle"
    /\ pause > 0
    /\ ToWayback(f)
    /\ UNCHANGED clock

RefusedOnce(f) ==
    /\ pc[f] = "archive_ph"
    /\ pause' = IF pause = 0 THEN Cooldown ELSE pause
    /\ quiet' = 0
    /\ ToWayback(f)

RefusedForGood(f) ==
    /\ pc[f] = "archive_ph"
    /\ pause' = Cooldown
    /\ quiet' = 0
    /\ End(f, "none")

\* HTTP 429 or a captcha: _start_cooldown, whoever started it before.
Refused(f) ==
    /\ pc[f] = "archive_ph"
    /\ pause' = Cooldown
    /\ quiet' = 0
    /\ ToWayback(f)

\* An HTTP error, another status, a waiting page, or no text in the snapshot.
NothingThere(f) ==
    /\ pc[f] = "archive_ph"
    /\ ToWayback(f)
    /\ UNCHANGED clock

Found(f) ==
    /\ pc[f] \in {"archive_ph", "snapshot"}
    /\ End(f, "article")
    /\ UNCHANGED clock

-----------------------------------------------------------------------------
(* The Wayback Machine *)

\* _wayback_timestamp validates the answer; the replay address is built from it.
Available(f) ==
    /\ pc[f] = "available"
    /\ Go(f, "snapshot")
    /\ UNCHANGED <<clock, hops, outcome, asked>>

RedirectForEver(f) ==
    /\ pc[f] = "snapshot"
    /\ hops' = [hops EXCEPT ![f] = (@ + 1) % (MaxRedirects + 1)]
    /\ UNCHANGED <<clock, pc, outcome, asked>>

\* A redirect that stays on web.archive.org is followed while the loop lasts.
Redirect(f) ==
    /\ pc[f] = "snapshot"
    /\ IF hops[f] < MaxRedirects
       THEN /\ hops' = [hops EXCEPT ![f] = @ + 1]
            /\ UNCHANGED <<pc, outcome, asked>>
       ELSE End(f, "none")
    /\ UNCHANGED clock

\* An HTTP error, no snapshot, a redirect that leaves the archive, a page that is
\* not HTML or says the archive is offline, or no text in it.
NoSnapshot(f) ==
    /\ pc[f] \in {"available", "snapshot"}
    /\ End(f, "none")
    /\ UNCHANGED clock

-----------------------------------------------------------------------------
\* The extractor raises, or the caller's timeout cancels the call.
Break(f) ==
    /\ pc[f] \in Awaiting
    /\ End(f, "broken")
    /\ UNCHANGED clock

\* Another article: fetch_via_archive is called again.
Again(f) ==
    /\ pc[f] = "done"
    /\ Go(f, "idle")
    /\ hops' = [hops EXCEPT ![f] = 0]
    /\ outcome' = [outcome EXCEPT ![f] = "pending"]
    /\ asked' = asked \ {f}
    /\ UNCHANGED clock

\* Time passes.
Tick ==
    /\ pause' = IF pause > 0 THEN pause - 1 ELSE 0
    /\ quiet' = IF quiet < Cooldown THEN quiet + 1 ELSE Cooldown
    /\ UNCHANGED <<pc, hops, outcome, asked>>

\* _blocked_until lives in the process: a restart forgets the refusal.
Restart ==
    /\ pc' = [f \in Fetches |-> "idle"]
    /\ hops' = [f \in Fetches |-> 0]
    /\ outcome' = [f \in Fetches |-> "pending"]
    /\ asked' = {}
    /\ pause' = 0
    /\ quiet' = Cooldown

\* What a call does once its answer, an error or its httpx timeout has come.
Answer(f) ==
    \/ Refused(f) \/ NothingThere(f) \/ Found(f)
    \/ Available(f) \/ Redirect(f) \/ NoSnapshot(f)

Next ==
    \/ \E f \in Fetches :
          AskArchivePh(f) \/ SkipArchivePh(f) \/ Answer(f) \/ Break(f) \/ Again(f)
    \/ Tick \/ Restart

\* Every request is answered or runs into a limit of its client (httpx timeouts,
\* MAX_HTTP_RESPONSE_BYTES); time passes.
Fairness == WF_vars(Tick) /\ \A f \in Fetches : WF_vars(Answer(f))

Spec == Init /\ [][Next]_vars
FairSpec == Spec /\ Fairness

-----------------------------------------------------------------------------
(* Properties *)

\* archive_relay.py:40-43: no request to archive.ph begins within Cooldown of the
\* last refusal, although several may be under way when the first refusal comes.
PauseIsKept ==
    [][\A f \in Fetches :
          pc[f] # "archive_ph" /\ pc'[f] = "archive_ph" => quiet = Cooldown]_vars

\* archive_relay.py:116: no call gives up before Wayback was asked, whether
\* archive.ph was skipped, refused, failed or had nothing.
WaybackBeforeGivingUp == \A f \in Fetches : outcome[f] = "none" => f \in asked

\* The calls made during a pause do not prolong it: archive.ph gets another chance
\* however many there are.
PauseEnds == []<>(pause = 0)

\* Redirects that lead round in a circle end.
EveryFetchEnds == \A f \in Fetches : pc[f] \in Awaiting ~> pc[f] \notin Awaiting
=============================================================================
