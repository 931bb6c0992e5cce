------------------------ MODULE ArchiveRelayProofs ------------------------
(***************************************************************************)
(* What holds of fetch_via_archive for any number of concurrent calls, any   *)
(* length of the pause and any limit of redirects.                           *)
(*                                                                           *)
(* PauseIsKept is about a step, so it rests on an invariant that ties the    *)
(* pause to the refusal it answers: however many calls are refused one after *)
(* the other, the pause has run exactly as long as it has been quiet.        *)
(***************************************************************************)
EXTENDS ArchiveRelay, TLAPS

PauseFollowsRefusal == pause + quiet = Cooldown

\* Whoever awaits an answer of the Wayback Machine has turned to it.
AskedByNow == \A f \in Fetches : pc[f] \in {"available", "snapshot"} => f \in asked

RelayInv == TypeOK /\ PauseFollowsRefusal /\ AskedByNow /\ WaybackBeforeGivingUp

\* The pause and the record of what was asked at the start.
LEMMA RelayInit == Init => RelayInv
  BY RelayAssumption DEF Init, RelayInv, TypeOK, PauseFollowsRefusal,
                         AskedByNow, WaybackBeforeGivingUp, Awaiting, Outcomes

\* The steps of one call: only a refusal touches the clock, and only a call that
\* has turned to Wayback ends with nothing.
LEMMA CallStep ==
    ASSUME RelayInv, NEW f \in Fetches,
           \/ AskArchivePh(f) \/ SkipArchivePh(f)
           \/ Answer(f) \/ Break(f) \/ Again(f)
    PROVE  RelayInv'
<1> USE RelayAssumption
    DEF RelayInv, TypeOK, PauseFollowsRefusal, AskedByNow,
        WaybackBeforeGivingUp,
        Go, End, ToWayback, clock, Awaiting, Outcomes
<1>1. CASE AskArchivePh(f)
  BY <1>1 DEF AskArchivePh
<1>2. CASE SkipArchivePh(f)
  BY <1>2 DEF SkipArchivePh
<1>3. CASE Refused(f)
  BY <1>3 DEF Refused
<1>4. CASE NothingThere(f)
  BY <1>4 DEF NothingThere
<1>5. CASE Found(f)
  BY <1>5 DEF Found
<1>6. CASE Available(f)
  BY <1>6 DEF Available
<1>7. CASE Redirect(f)
  BY <1>7 DEF Redirect
<1>8. CASE NoSnapshot(f)
  BY <1>8 DEF NoSnapshot
<1>9. CASE Break(f)
  BY <1>9 DEF Break
<1>10. CASE Again(f)
  BY <1>10 DEF Again
<1> QED
  BY <1>1, <1>2, <1>3, <1>4, <1>5, <1>6, <1>7, <1>8, <1>9, <1>10 DEF Answer

\* Time moves the pause and the silence in step.
LEMMA TickStep == RelayInv /\ Tick => RelayInv'
  BY RelayAssumption DEF RelayInv, TypeOK, PauseFollowsRefusal, AskedByNow,
                         WaybackBeforeGivingUp, Tick

\* A restart forgets both.
LEMMA RestartStep == RelayInv /\ Restart => RelayInv'
  BY RelayAssumption DEF RelayInv, TypeOK, PauseFollowsRefusal, AskedByNow,
                         WaybackBeforeGivingUp, Restart, Awaiting, Outcomes

\* The invariant of fetch_via_archive, for all constants.
THEOREM RelayInvariant == Spec => []RelayInv
<1>1. RelayInv /\ [Next]_vars => RelayInv'
  <2> SUFFICES ASSUME RelayInv, [Next]_vars PROVE RelayInv'
    OBVIOUS
  <2>1. CASE UNCHANGED vars
    BY <2>1 DEF vars, RelayInv, TypeOK, PauseFollowsRefusal, AskedByNow,
                WaybackBeforeGivingUp
  <2> QED
    BY <2>1, CallStep, TickStep, RestartStep DEF Next
<1> QED
  BY <1>1, RelayInit, PTL DEF Spec

\* The types of the state.
THEOREM TypeCorrect == Spec => []TypeOK
<1>1. RelayInv => TypeOK
  BY DEF RelayInv
<1> QED
  BY <1>1, RelayInvariant, PTL

\* No call gives up before Wayback was asked.
THEOREM WaybackAsked == Spec => []WaybackBeforeGivingUp
<1>1. RelayInv => WaybackBeforeGivingUp
  BY DEF RelayInv
<1> QED
  BY <1>1, RelayInvariant, PTL

\* Nothing is sent to archive.ph within Cooldown ticks of its last refusal.
THEOREM PauseKept == Spec => PauseIsKept
<1>1. RelayInv /\ [Next]_vars =>
         [\A f \in Fetches :
            pc[f] # "archive_ph" /\ pc'[f] = "archive_ph" => quiet = Cooldown]_vars
  <2> SUFFICES ASSUME RelayInv, Next, NEW f \in Fetches,
                      pc[f] # "archive_ph", pc'[f] = "archive_ph"
               PROVE  quiet = Cooldown
    BY DEF vars
  <2>1. pause = 0
    <3>1. PICK g \in Fetches :
             AskArchivePh(g) \/ SkipArchivePh(g) \/ Answer(g) \/ Break(g) \/ Again(g)
      BY DEF Next, RelayInv, TypeOK, Tick, Restart
    <3>2. AskArchivePh(g)
      BY <3>1 DEF RelayInv, TypeOK, SkipArchivePh, Answer, Refused, NothingThere, Found,
                  Available, Redirect, NoSnapshot, Break, Again, Go, End, ToWayback
    <3> QED
      BY <3>2 DEF AskArchivePh
  <2> QED
    BY <2>1 DEF RelayInv, TypeOK, PauseFollowsRefusal
<1> QED
  BY <1>1, RelayInvariant, PTL DEF Spec, PauseIsKept
=============================================================================
