---------------------------- MODULE ProcessProofs ----------------------------
(***************************************************************************)
(* The access log and the shutdown for any updates, days and retries.        *)
(* What is in the log does not depend on the order of the queues (Logged);   *)
(* that the locks do their work is a matter of its own (Turns).              *)
(***************************************************************************)
EXTENDS Process, SequenceTheorems, TLAPS

LineOf(u, line) == line.update = u /\ line.status = Status(fate[u])

\* How far an update and its thread have got: a line appears in one step of the
\* thread, after the handler's end, in a file chosen after that end.
Update(u) ==
    /\ at[u] \notin {"write", "done"} => thread[u] = "none"
    /\ at[u] \in {"log", "write"} \/ thread[u] # "none" => fate[u] \in Fates
    /\ thread[u] \in {"none", "queued", "started", "open"} =>
          \A line \in lines : line.update # u
    /\ thread[u] = "written" => \E line \in lines : LineOf(u, line)
    /\ result[u] = "returned" => /\ at[u] = "done" /\ fate[u] = "success"
                                 /\ \E line \in lines : LineOf(u, line)

\* The days of an update never run backwards.
Dated(u) ==
    /\ endDay[u] <= today
    /\ thread[u] \in {"queued", "started"} => endDay[u] <= fileDay[Kind[u]]
    /\ thread[u] = "open" =>
          opened[u] \in Days /\ endDay[u] <= opened[u] /\ opened[u] <= today

LineOK(line) == /\ line.status = Status(fate[line.update])
                /\ endDay[line.update] <= line.day /\ line.day <= today

Logged ==
    /\ \A u \in Updates : Update(u)
    /\ \A u \in Updates : Dated(u)
    /\ \A k \in Kinds : fileDay[k] <= today
    /\ \A line \in lines : LineOK(line)
    /\ \A line, other \in lines : line.update = other.update => line = other

\* Every step of the process, as far as the log is concerned.
LogStep ==
    \/ \E u \in Updates :
          \/ Arrive(u) \/ Limit(u) \/ Refuse(u) \/ Save(u) \/ Return(u)
          \/ \E how \in Fates : Finish(u, how)
          \/ Start(u) \/ Open(u) \/ AppendLine(u)
    \/ CancelAll \/ Midnight \/ UNCHANGED logVars

LEMMA StepsOfTheLog == [Next]_vars => LogStep
BY DEF Next, Main, Connect, Backoff, SetCommands, StopLogging, CancelTasks, Exit,
       CloseResource, Interrupt, Stop, Pass, Receive, Run, Proceed, Use, LogStep, vars,
       logVars

-----------------------------------------------------------------------------
\* An update that is left alone keeps its facts, though other lines are added.
Idle(u) ==
    /\ at'[u] = at[u] /\ fate'[u] = fate[u] /\ result'[u] = result[u]
    /\ thread'[u] = thread[u] /\ opened'[u] = opened[u] /\ endDay'[u] = endDay[u]

LEMMA IdleUpdate ==
    ASSUME NEW u \in Updates, Update(u), Idle(u), lines \subseteq lines',
           \A line \in lines' \ lines : line.update # u
    PROVE  Update(u)'
BY DEF Update, Idle, LineOf

\* A step that writes no line: what it may do to one update u.
Moved(u) ==
    /\ at'[u] \notin {"write", "done"} => thread'[u] = "none"
    /\ at'[u] \in {"log", "write"} \/ thread'[u] # "none" => fate'[u] \in Fates
    /\ fate'[u] = fate[u] \/ thread[u] = "none"
    /\ thread'[u] \in {"none", "queued", "started", "open"} =>
          thread[u] \in {"none", "queued", "started", "open"}
    /\ thread'[u] = "written" => thread[u] = "written" /\ fate'[u] = fate[u]
    /\ result'[u] = "returned" =>
          /\ at'[u] = "done" /\ fate'[u] = "success" /\ fate[u] = "success"
          /\ thread[u] = "written" \/ result[u] = "returned"

LEMMA MovedUpdate ==
    ASSUME Logged, NEW u \in Updates, Moved(u), lines' = lines
    PROVE  Update(u)'
BY DEF Logged, Update, Moved, LineOf

-----------------------------------------------------------------------------
(* The locks *)

\* Whoever is in the queue of a lock is waiting for it or writing, and is there
\* once; whoever writes is at its head; a thread works for a task that writes, or
\* for one that was cancelled.
Turns ==
    /\ \A k \in Kinds : \A i \in 1..Len(queue[k]) :
          /\ Kind[queue[k][i]] = k /\ at[queue[k][i]] \in {"log", "write"}
          /\ \A j \in 1..Len(queue[k]) : queue[k][i] = queue[k][j] => i = j
    /\ \A u \in Updates : at[u] = "write" => HoldsLock(u)
    /\ \A u \in Updates : Working(u) => at[u] = "write" \/ result[u] = "cancelled"

\* A step that leaves the queues alone, and whoever is in them where it is, unless
\* the head starts to write.
LEMMA SameQueues ==
    ASSUME TypeOK, Turns, queue' = queue,
           \A u \in Updates : at[u] \in {"log", "write"} =>
               at'[u] = at[u] \/ (HoldsLock(u) /\ at'[u] = "write"),
           \A u \in Updates : at'[u] = "write" => at[u] = "write" \/ HoldsLock(u),
           \A u \in Updates : Working(u)' =>
               \/ at'[u] = "write"
               \/ Working(u) /\ at'[u] = at[u] /\ result'[u] = result[u]
    PROVE  Turns'
<1>1. \A k \in Kinds : \A i \in 1..Len(queue[k]) : queue[k][i] \in Updates
  BY ElementOfSeq DEF TypeOK
<1>2. \A k \in Kinds : \A i \in 1..Len(queue[k]) : at'[queue[k][i]] \in {"log", "write"}
  BY <1>1 DEF Turns
<1>3. \A u \in Updates : at'[u] = "write" => HoldsLock(u)'
  BY DEF Turns, HoldsLock
<1>4. \A u \in Updates : Working(u)' => at'[u] = "write" \/ result'[u] = "cancelled"
  BY DEF Turns
<1> QED
  BY <1>2, <1>3, <1>4 DEF Turns

LEMMA FinishKeepsTurns ==
    ASSUME TypeOK, Logged, Turns, NEW u \in Updates, NEW how \in Fates, Finish(u, how)
    PROVE  Turns'
<1> DEFINE k == Kind[u]
<1>1. /\ at[u] \in {"handle", "unwind"} /\ at' = [at EXCEPT ![u] = "log"]
      /\ queue' = [queue EXCEPT ![k] = Append(queue[k], u)]
      /\ thread' = thread /\ result' = result
  BY DEF Finish, Go, worker
<1>2. k \in Kinds /\ queue[k] \in Seq(Updates) /\ \A j \in Kinds : queue[j] \in Seq(Updates)
  BY LogAssumption DEF TypeOK
<1>3. /\ Len(queue'[k]) = Len(queue[k]) + 1 /\ Len(queue[k]) \in Nat
      /\ queue'[k][Len(queue[k]) + 1] = u
      /\ \A i \in 1..Len(queue[k]) : queue'[k][i] = queue[k][i]
      /\ \A j \in Kinds \ {k} : queue'[j] = queue[j]
  BY <1>1, <1>2, AppendProperties, LenProperties DEF TypeOK
<1>4. \A j \in Kinds : \A i \in 1..Len(queue[j]) :
          queue[j][i] \in Updates /\ queue[j][i] # u
  BY <1>1, <1>2, ElementOfSeq DEF Turns
<1>5. \A v \in Updates \ {u} : at'[v] = at[v]
  BY <1>1 DEF TypeOK
<1>6. at'[u] = "log"
  BY <1>1 DEF TypeOK
<1>7. \A j \in Kinds : \A i \in 1..Len(queue'[j]) :
          /\ Kind[queue'[j][i]] = j /\ at'[queue'[j][i]] \in {"log", "write"}
          /\ \A h \in 1..Len(queue'[j]) : queue'[j][i] = queue'[j][h] => i = h
  <2>1. ASSUME NEW j \in Kinds \ {k}, NEW i \in 1..Len(queue'[j])
        PROVE  /\ Kind[queue'[j][i]] = j /\ at'[queue'[j][i]] \in {"log", "write"}
               /\ \A h \in 1..Len(queue'[j]) : queue'[j][i] = queue'[j][h] => i = h
    BY <1>3, <1>4, <1>5, <2>1 DEF Turns
  <2>2. ASSUME NEW i \in 1..Len(queue'[k])
        PROVE  /\ Kind[queue'[k][i]] = k /\ at'[queue'[k][i]] \in {"log", "write"}
               /\ \A h \in 1..Len(queue'[k]) : queue'[k][i] = queue'[k][h] => i = h
    <3>1. \A h \in 1..Len(queue'[k]) : h \in 1..Len(queue[k]) \/ h = Len(queue[k]) + 1
      BY <1>3
    <3>2. CASE i = Len(queue[k]) + 1
      <4>1. queue'[k][i] = u
        BY <1>3, <3>2
      <4>2. \A h \in 1..Len(queue[k]) : queue'[k][h] # u
        BY <1>2, <1>3, <1>4
      <4>3. \A h \in 1..Len(queue'[k]) : queue'[k][i] = queue'[k][h] => i = h
        BY <3>1, <3>2, <4>1, <4>2
      <4> QED
        BY <1>6, <4>1, <4>3
    <3>3. CASE i \in 1..Len(queue[k])
      <4>1. queue'[k][i] = queue[k][i] /\ queue[k][i] \in Updates \ {u}
        BY <1>2, <1>3, <1>4, <3>3
      <4>2. Kind[queue[k][i]] = k /\ at'[queue[k][i]] \in {"log", "write"}
        BY <1>2, <1>5, <3>3, <4>1 DEF Turns
      <4>3. ASSUME NEW h \in 1..Len(queue'[k]), queue'[k][i] = queue'[k][h]
            PROVE  i = h
        <5>1. h # Len(queue[k]) + 1
          BY <1>3, <4>1, <4>3
        <5>2. h \in 1..Len(queue[k]) /\ queue[k][i] = queue[k][h]
          BY <1>3, <3>1, <4>1, <4>3, <5>1
        <5> QED
          BY <1>2, <3>3, <5>2 DEF Turns
      <4> QED
        BY <4>1, <4>2, <4>3
    <3> QED
      BY <3>1, <3>2, <3>3
  <2> QED
    BY <2>1, <2>2
<1>8. \A v \in Updates : at'[v] = "write" => HoldsLock(v)'
  <2> SUFFICES ASSUME NEW v \in Updates, at'[v] = "write" PROVE HoldsLock(v)'
    OBVIOUS
  <2>1. v # u /\ at[v] = "write" /\ HoldsLock(v) /\ Kind[v] \in Kinds
    BY <1>5, <1>6, LogAssumption DEF Turns
  <2>2. CASE Kind[v] = k
    <3>1. queue[k] # <<>> /\ Head(queue[k]) = v
      BY <2>1, <2>2 DEF HoldsLock
    <3>2. queue'[k] # <<>> /\ Head(queue'[k]) = v
      BY <1>1, <1>2, <3>1, AppendProperties, HeadTailAppend DEF TypeOK
    <3> QED
      BY <2>2, <3>2 DEF HoldsLock
  <2>3. CASE Kind[v] # k
    BY <1>3, <2>1, <2>3 DEF HoldsLock
  <2> QED
    BY <2>2, <2>3
<1>9. \A v \in Updates : Working(v)' => at'[v] = "write" \/ result'[v] = "cancelled"
  <2>1. ~Working(u)
    BY <1>1 DEF Logged, Update, Working
  <2> QED
    BY <1>1, <1>5, <2>1 DEF Turns, Working
<1> QED
  BY <1>7, <1>8, <1>9 DEF Turns

LEMMA ReturnKeepsTurns ==
    ASSUME TypeOK, Turns, NEW u \in Updates, Return(u)
    PROVE  Turns'
<1> DEFINE k == Kind[u]
<1>1. /\ at[u] = "write" /\ Ended(u) /\ at' = [at EXCEPT ![u] = "done"]
      /\ queue' = [queue EXCEPT ![k] = Tail(queue[k])]
      /\ thread' = thread /\ \A v \in Updates \ {u} : result'[v] = result[v]
  BY DEF Return, Go, Release, Report, worker, TypeOK
<1>2. k \in Kinds /\ queue[k] \in Seq(Updates) /\ \A j \in Kinds : queue[j] \in Seq(Updates)
  BY LogAssumption DEF TypeOK
<1>3. queue[k] # <<>> /\ Head(queue[k]) = u /\ queue[k][1] = u
  BY <1>1, <1>2 DEF Turns, HoldsLock
<1>4. /\ Len(queue'[k]) = Len(queue[k]) - 1 /\ Len(queue[k]) \in Nat
      /\ \A i \in 1..Len(queue'[k]) : queue'[k][i] = queue[k][i + 1]
      /\ \A j \in Kinds \ {k} : queue'[j] = queue[j]
  BY <1>1, <1>2, <1>3, HeadTailProperties, LenProperties DEF TypeOK
<1>5. \A j \in Kinds : \A i \in 1..Len(queue[j]) : queue[j][i] \in Updates
  BY <1>2, ElementOfSeq
<1>6. \A v \in Updates \ {u} : at'[v] = at[v]
  BY <1>1 DEF TypeOK
<1>7. \A j \in Kinds : \A i \in 1..Len(queue'[j]) :
          /\ Kind[queue'[j][i]] = j /\ at'[queue'[j][i]] \in {"log", "write"}
          /\ \A h \in 1..Len(queue'[j]) : queue'[j][i] = queue'[j][h] => i = h
  <2>1. ASSUME NEW j \in Kinds \ {k}, NEW i \in 1..Len(queue'[j])
        PROVE  /\ Kind[queue'[j][i]] = j /\ at'[queue'[j][i]] \in {"log", "write"}
               /\ \A h \in 1..Len(queue'[j]) : queue'[j][i] = queue'[j][h] => i = h
    <3>1. Kind[queue[j][i]] = j /\ queue[j][i] # u
      BY <1>4, <2>1 DEF Turns
    <3> QED
      BY <1>4, <1>5, <1>6, <2>1, <3>1 DEF Turns
  <2>2. ASSUME NEW i \in 1..Len(queue'[k])
        PROVE  /\ Kind[queue'[k][i]] = k /\ at'[queue'[k][i]] \in {"log", "write"}
               /\ \A h \in 1..Len(queue'[k]) : queue'[k][i] = queue'[k][h] => i = h
    <3>1. /\ i + 1 \in 1..Len(queue[k]) /\ 1 \in 1..Len(queue[k]) /\ i + 1 # 1
          /\ \A h \in 1..Len(queue'[k]) : h + 1 \in 1..Len(queue[k])
      BY <1>4
    <3>2. queue[k][i + 1] # u /\ queue[k][i + 1] \in Updates
      BY <1>2, <1>3, <1>5, <3>1 DEF Turns
    <3>3. queue'[k][i] = queue[k][i + 1]
      BY <1>4
    <3>4. /\ Kind[queue[k][i + 1]] = k
          /\ at'[queue[k][i + 1]] \in {"log", "write"}
      BY <1>2, <1>6, <3>1, <3>2 DEF Turns
    <3>5. ASSUME NEW h \in 1..Len(queue'[k]), queue'[k][i] = queue'[k][h]
          PROVE  i = h
      <4>1. queue[k][i + 1] = queue[k][h + 1]
        BY <1>4, <3>3, <3>5
      <4>2. i + 1 = h + 1
        BY <1>2, <3>1, <4>1 DEF Turns
      <4> QED
        BY <1>4, <4>2
    <3> QED
      BY <3>3, <3>4, <3>5
  <2> QED
    BY <2>1, <2>2
<1>8. \A v \in Updates : at'[v] = "write" => HoldsLock(v)'
  <2> SUFFICES ASSUME NEW v \in Updates, at'[v] = "write" PROVE HoldsLock(v)'
    OBVIOUS
  <2>1. v # u /\ at[v] = "write" /\ HoldsLock(v) /\ Kind[v] \in Kinds
    <3>1. at'[u] = "done"
      BY <1>1 DEF TypeOK
    <3> QED
      BY <1>6, <3>1, LogAssumption DEF Turns
  <2>2. Kind[v] # k
    BY <1>3, <2>1 DEF HoldsLock
  <2> QED
    BY <1>4, <2>1, <2>2 DEF HoldsLock
<1>9. \A v \in Updates : Working(v)' => at'[v] = "write" \/ result'[v] = "cancelled"
  <2>1. ~Working(u)
    BY <1>1 DEF Ended, Working
  <2> QED
    BY <1>1, <1>6, <2>1 DEF Turns, Working
<1> QED
  BY <1>7, <1>8, <1>9 DEF Turns

LEMMA QueuesStayTyped ==
    ASSUME TypeOK, Turns, LogStep PROVE queue' \in [Kinds -> Seq(Updates)]
<1>1. queue \in [Kinds -> Seq(Updates)] /\ \A u \in Updates : Kind[u] \in Kinds
  BY LogAssumption DEF TypeOK
<1>2. ASSUME NEW u \in Updates, NEW how \in Fates, Finish(u, how)
      PROVE  queue' \in [Kinds -> Seq(Updates)]
  <2>1. Append(queue[Kind[u]], u) \in Seq(Updates)
    BY <1>1, AppendProperties
  <2> QED
    BY <1>1, <1>2, <2>1 DEF Finish
<1>3. ASSUME NEW u \in Updates, Return(u)
      PROVE  queue' \in [Kinds -> Seq(Updates)]
  <2>1. queue[Kind[u]] # <<>>
    BY <1>3 DEF Return, Turns, HoldsLock
  <2>2. Tail(queue[Kind[u]]) \in Seq(Updates)
    BY <1>1, <2>1, HeadTailProperties
  <2> QED
    BY <1>1, <1>3, <2>2 DEF Return, Release
<1>4. CASE CancelAll
  <2>1. <<>> \in Seq(Updates)
    OBVIOUS
  <2> QED
    BY <1>4, <2>1 DEF CancelAll
<1> QED
  BY <1>1, <1>2, <1>3, <1>4 DEF LogStep, Arrive, Limit, Refuse, Save, Start, Open, AppendLine,
     Midnight, logVars

LEMMA TurnsStep == TypeOK /\ Logged /\ Turns /\ LogStep => Turns'
<1> SUFFICES ASSUME TypeOK, Logged, Turns, LogStep PROVE Turns'
  OBVIOUS
<1> USE DEF told, worker, clock, Go
<1>u. \A u \in Updates : at[u] \notin {"write", "done"} => ~Working(u)
  BY DEF Logged, Update, Working
<1>1. ASSUME NEW u \in Updates, Arrive(u) \/ Limit(u) \/ Refuse(u) PROVE Turns'
  <2>1. /\ queue' = queue /\ thread' = thread /\ at[u] \in {"idle", "limit", "refuse"}
        /\ at'[u] \in {"limit", "refuse", "handle", "done"}
        /\ \A v \in Updates \ {u} : at'[v] = at[v] /\ result'[v] = result[v]
    BY <1>1 DEF Arrive, Limit, Refuse, Report, TypeOK
  <2> QED
    BY <1>u, <2>1, SameQueues DEF Working
<1>2. ASSUME NEW u \in Updates, NEW how \in Fates, Finish(u, how) PROVE Turns'
  BY <1>2, FinishKeepsTurns
<1>3. ASSUME NEW u \in Updates, Save(u) PROVE Turns'
  <2>1. /\ queue' = queue /\ result' = result /\ HoldsLock(u) /\ at'[u] = "write"
        /\ \A v \in Updates \ {u} : at'[v] = at[v] /\ thread'[v] = thread[v]
    BY <1>3 DEF Save, TypeOK
  <2> QED
    BY <2>1, SameQueues DEF Working
<1>4. ASSUME NEW u \in Updates, Return(u) PROVE Turns'
  BY <1>4, ReturnKeepsTurns
<1>5. ASSUME NEW u \in Updates, Start(u) \/ Open(u) \/ AppendLine(u) PROVE Turns'
  <2>1. /\ queue' = queue /\ at' = at /\ result' = result
        /\ \A v \in Updates \ {u} : thread'[v] = thread[v]
        /\ Working(u)
    BY <1>5 DEF Start, Open, AppendLine, TypeOK, Working
  <2> QED
    BY <2>1, SameQueues DEF Working
<1>6. CASE CancelAll
  <2>1. /\ \A k \in Kinds : queue'[k] = <<>>
        /\ \A u \in Updates : at'[u] # "write"
        /\ \A u \in Updates : at[u] = "write" => result'[u] = "cancelled"
        /\ \A u \in Updates : result'[u] \in {result[u], "cancelled"}
        /\ \A u \in Updates : Working(u)' => Working(u)
    BY <1>6 DEF CancelAll, Working
  <2> QED
    BY <2>1 DEF Turns
<1>7. CASE Midnight \/ UNCHANGED logVars
  BY <1>7, SameQueues DEF Midnight, logVars, Working
<1> QED
  BY <1>1, <1>2, <1>3, <1>4, <1>5, <1>6, <1>7 DEF LogStep

-----------------------------------------------------------------------------
(* The log *)

LEMMA TypesStep == TypeOK /\ Logged /\ Turns /\ LogStep => TypeOK'
<1> SUFFICES ASSUME TypeOK, Logged, Turns, LogStep PROVE TypeOK'
  OBVIOUS
<1>q. queue' \in [Kinds -> Seq(Updates)]
  BY QueuesStayTyped
<1>l. LastDay \in Nat \ {0} /\ Kind \in [Updates -> Kinds]
  BY LogAssumption
<1> USE DEF TypeOK, told, worker, clock, Go
<1>1. ASSUME NEW u \in Updates, Arrive(u) \/ Limit(u) \/ Refuse(u) PROVE TypeOK'
  <2>1. at' \in [Updates -> {"idle", "limit", "refuse", "handle", "unwind", "log", "write",
                            "done"}]
    <3>1. PICK stage \in {"limit", "refuse", "handle", "done"} : at' = [at EXCEPT ![u] = stage]
      BY <1>1 DEF Arrive, Limit, Refuse
    <3> QED
      BY <3>1
  <2>2. result' \in [Updates -> {"none", "refused", "returned", "raised", "cancelled"}]
    BY <1>1 DEF Arrive, Limit, Refuse, Report
  <2>3. UNCHANGED <<fate, fileDay, worker, clock>>
    BY <1>1 DEF Arrive, Limit, Refuse
  <2> QED
    BY <1>q, <2>1, <2>2, <2>3
<1>2. ASSUME NEW u \in Updates, NEW how \in Fates, Finish(u, how) PROVE TypeOK'
  BY <1>q, <1>2 DEF Finish
<1>3. ASSUME NEW u \in Updates, Save(u) PROVE TypeOK'
  BY <1>q, <1>l, <1>3 DEF Save
<1>4. ASSUME NEW u \in Updates, Return(u) PROVE TypeOK'
  <2>1. fate[u] \in Fates
    BY <1>4 DEF Return, Logged, Update
  <2>2. result' \in [Updates -> {"none", "refused", "returned", "raised", "cancelled"}]
    BY <1>4, <2>1 DEF Return, Report, Fates
  <2> QED
    BY <1>q, <1>4, <2>2 DEF Return
<1>5. ASSUME NEW u \in Updates, Start(u) PROVE TypeOK'
  BY <1>q, <1>5 DEF Start
<1>6. ASSUME NEW u \in Updates, Open(u) PROVE TypeOK'
  <2>1. thread' \in [Updates -> {"none", "queued", "started", "open", "written", "failed",
                                "dropped"}]
    BY <1>6 DEF Open
  <2>2. opened' \in [Updates -> Days \cup {0}]
    <3>1. fileDay[Kind[u]] \in Days /\ opened \in [Updates -> Days \cup {0}]
      BY <1>l
    <3>2. opened' = opened \/ opened' = [opened EXCEPT ![u] = fileDay[Kind[u]]]
      BY <1>6 DEF Open
    <3> QED
      BY <3>1, <3>2
  <2>3. UNCHANGED <<at, told, fileDay, lines, clock>>
    BY <1>6 DEF Open
  <2> QED
    BY <1>q, <2>1, <2>2, <2>3
<1>7. ASSUME NEW u \in Updates, AppendLine(u) PROVE TypeOK'
  <2>1. fate[u] \in Fates /\ opened[u] \in Days
    BY <1>7 DEF AppendLine, Logged, Update, Dated
  <2>2. thread' \in [Updates -> {"none", "queued", "started", "open", "written", "failed",
                                "dropped"}]
    BY <1>7 DEF AppendLine
  <2>3. lines' \subseteq [update : Updates, status : {"success", "error", "none"}, day : Days]
    BY <1>7, <2>1 DEF AppendLine, Status, Fates
  <2>4. UNCHANGED <<at, told, fileDay, opened, clock>>
    BY <1>7 DEF AppendLine
  <2> QED
    BY <1>q, <2>2, <2>3, <2>4
<1>8. CASE CancelAll
  BY <1>q, <1>8 DEF CancelAll
<1>9. CASE Midnight
  BY <1>q, <1>l, <1>9 DEF Midnight, Days
<1>10. CASE UNCHANGED logVars
  BY <1>q, <1>10 DEF logVars
<1> QED
  BY <1>1, <1>2, <1>3, <1>4, <1>5, <1>6, <1>7, <1>8, <1>9, <1>10 DEF LogStep

\* The steps that write no line.
Quiet ==
    \/ \E u \in Updates :
          \/ Arrive(u) \/ Limit(u) \/ Refuse(u) \/ Save(u) \/ Return(u)
          \/ \E how \in Fates : Finish(u, how)
          \/ Start(u) \/ Open(u)
    \/ CancelAll \/ Midnight \/ UNCHANGED logVars

LEMMA QuietMoves ==
    TypeOK /\ Logged /\ Quiet => lines' = lines /\ \A u \in Updates : Moved(u)
<1> SUFFICES ASSUME TypeOK, Logged, Quiet PROVE lines' = lines /\ \A u \in Updates : Moved(u)
  OBVIOUS
<1>u. \A v \in Updates : Update(v)
  BY DEF Logged
<1> USE DEF TypeOK, told, worker, clock, Go
<1>1. ASSUME NEW u \in Updates, Arrive(u) \/ Limit(u) \/ Refuse(u)
      PROVE  lines' = lines /\ \A v \in Updates : Moved(v)
  BY <1>u, <1>1 DEF Arrive, Limit, Refuse, Report, Update, Moved
<1>2. ASSUME NEW u \in Updates, NEW how \in Fates, Finish(u, how)
      PROVE  lines' = lines /\ \A v \in Updates : Moved(v)
  BY <1>u, <1>2 DEF Finish, Update, Moved
<1>3. ASSUME NEW u \in Updates, Save(u)
      PROVE  lines' = lines /\ \A v \in Updates : Moved(v)
  BY <1>u, <1>3 DEF Save, Update, Moved
<1>4. ASSUME NEW u \in Updates, Return(u)
      PROVE  lines' = lines /\ \A v \in Updates : Moved(v)
  <2>1. /\ lines' = lines /\ thread' = thread /\ fate' = fate
        /\ at[u] = "write" /\ thread[u] \in {"written", "failed"} /\ fate[u] \in Fates
        /\ at' = [at EXCEPT ![u] = "done"]
    BY <1>u, <1>4 DEF Return, Ended, Update
  <2>2. /\ \A v \in Updates \ {u} : result'[v] = result[v]
        /\ result'[u] = "returned" => thread[u] = "written" /\ fate[u] = "success"
    BY <1>4, <2>1 DEF Return, Report, Fates
  <2> QED
    BY <1>u, <2>1, <2>2 DEF Update, Moved
<1>5. ASSUME NEW u \in Updates, Start(u) \/ Open(u)
      PROVE  lines' = lines /\ \A v \in Updates : Moved(v)
  BY <1>u, <1>5 DEF Start, Open, Update, Moved
<1>6. CASE CancelAll
  <2>1. /\ lines' = lines /\ fate' = fate
        /\ \A v \in Updates :
              /\ thread'[v] = thread[v] \/ (thread[v] = "queued" /\ thread'[v] = "dropped")
              /\ result'[v] \in {result[v], "cancelled"}
              /\ at'[v] = at[v] \/ (at'[v] = "done" /\ at[v] # "done")
                 \/ (at[v] = "handle" /\ at'[v] = "unwind")
    BY <1>6 DEF CancelAll
  <2>2. \A v \in Updates : at'[v] \notin {"write", "done"} => at[v] \notin {"write", "done"}
    BY <2>1
  <2>3. \A v \in Updates : at'[v] \in {"log", "write"} => at[v] = at'[v]
    BY <2>1
  <2>4. ASSUME NEW v \in Updates PROVE Moved(v)
    BY <1>u, <2>1, <2>2, <2>3 DEF Update, Moved
  <2> QED
    BY <2>1, <2>4
<1>7. CASE Midnight \/ UNCHANGED logVars
  BY <1>u, <1>7 DEF Midnight, logVars, Update, Moved
<1> QED
  BY <1>1, <1>2, <1>3, <1>4, <1>5, <1>6, <1>7 DEF Quiet

\* The days: a file is chosen for today, and a line goes to the file chosen last.
LEMMA DatesStep ==
    TypeOK /\ Logged /\ LogStep =>
        /\ \A u \in Updates : Dated(u)'
        /\ \A k \in Kinds : fileDay'[k] <= today'
        /\ today <= today'
        /\ \A u \in Updates : thread[u] # "none" => endDay'[u] = endDay[u]
<1> DEFINE Goal == /\ \A u \in Updates : Dated(u)'
                   /\ \A k \in Kinds : fileDay'[k] <= today'
                   /\ today <= today'
                   /\ \A u \in Updates : thread[u] # "none" => endDay'[u] = endDay[u]
<1> SUFFICES ASSUME TypeOK, Logged, LogStep PROVE Goal
  OBVIOUS
<1>l. /\ LastDay \in Nat \ {0} /\ \A u \in Updates : Kind[u] \in Kinds
      /\ today \in Nat /\ \A u \in Updates : endDay[u] \in Nat /\ opened[u] \in Nat
      /\ \A k \in Kinds : fileDay[k] \in Days /\ fileDay[k] \in Nat
  BY LogAssumption DEF TypeOK, Days
<1>u. /\ \A v \in Updates : Dated(v)
      /\ \A v \in Updates : at[v] \notin {"write", "done"} => thread[v] = "none"
      /\ \A k \in Kinds : fileDay[k] <= today
  BY DEF Logged, Update
<1> USE DEF told, worker, clock, Go, Dated
<1>1. ASSUME NEW u \in Updates, Arrive(u) \/ Limit(u) \/ Refuse(u) \/ Return(u) PROVE Goal
  <2>1. /\ thread' = thread /\ opened' = opened /\ fileDay' = fileDay
        /\ today' = today /\ endDay' = endDay
    BY <1>1 DEF Arrive, Limit, Refuse, Return
  <2> QED
    BY <1>l, <1>u, <2>1
<1>2. ASSUME NEW u \in Updates, NEW how \in Fates, Finish(u, how) PROVE Goal
  <2>1. /\ thread' = thread /\ opened' = opened /\ fileDay' = fileDay /\ today' = today
        /\ endDay' = [endDay EXCEPT ![u] = today] /\ endDay \in [Updates -> Days \cup {0}]
        /\ thread[u] = "none"
    BY <1>u, <1>2 DEF Finish, TypeOK
  <2>2. endDay'[u] = today /\ \A v \in Updates \ {u} : endDay'[v] = endDay[v]
    BY <2>1
  <2>3. \A v \in Updates : Dated(v)'
    BY <1>l, <1>u, <2>1, <2>2
  <2> QED
    BY <1>l, <1>u, <2>1, <2>2, <2>3
<1>3. ASSUME NEW u \in Updates, Save(u) PROVE Goal
  BY <1>l, <1>u, <1>3 DEF Save, TypeOK
<1>4. ASSUME NEW u \in Updates, Start(u) PROVE Goal
  BY <1>l, <1>u, <1>4 DEF Start, TypeOK
<1>5. ASSUME NEW u \in Updates, Open(u) PROVE Goal
  BY <1>l, <1>u, <1>5 DEF Open, TypeOK
<1>6. ASSUME NEW u \in Updates, AppendLine(u) PROVE Goal
  BY <1>l, <1>u, <1>6 DEF AppendLine, TypeOK
<1>7. CASE CancelAll
  BY <1>l, <1>u, <1>7 DEF CancelAll, TypeOK
<1>8. CASE Midnight \/ UNCHANGED logVars
  BY <1>l, <1>u, <1>8 DEF Midnight, logVars
<1> QED
  BY <1>1, <1>2, <1>3, <1>4, <1>5, <1>6, <1>7, <1>8 DEF LogStep

LEMMA LogStepOK == TypeOK /\ Logged /\ Turns /\ LogStep => TypeOK' /\ Logged' /\ Turns'
<1> SUFFICES ASSUME TypeOK, Logged, Turns, LogStep PROVE TypeOK' /\ Logged' /\ Turns'
  OBVIOUS
<1>1. TypeOK'
  BY TypesStep
<1>2. /\ \A u \in Updates : Dated(u)'
      /\ \A k \in Kinds : fileDay'[k] <= today'
      /\ today <= today' /\ today \in Nat /\ today' \in Nat
      /\ \A u \in Updates : thread[u] # "none" => endDay'[u] = endDay[u]
  BY <1>1, DatesStep, LogAssumption DEF TypeOK, Days
<1>3. \A line \in lines : line.update \in Updates /\ line.day \in Nat
                         /\ thread[line.update] # "none"
  BY LogAssumption DEF TypeOK, Logged, Update, Days
<1>t. Turns'
  BY TurnsStep
<1>4. CASE Quiet
  <2>1. lines' = lines /\ \A u \in Updates : Moved(u)
    BY <1>4, QuietMoves
  <2>2. \A u \in Updates : Update(u)'
    BY <2>1, MovedUpdate
  <2>3. \A line \in lines' : LineOK(line)'
    BY <1>2, <1>3, <2>1 DEF Logged, LineOK, Moved
  <2> QED
    BY <1>1, <1>2, <1>t, <2>1, <2>2, <2>3 DEF Logged
<1>5. ASSUME NEW u \in Updates, AppendLine(u)
      PROVE  Logged'
  <2> DEFINE new == [update |-> u, status |-> Status(fate[u]), day |-> opened[u]]
  <2>1. /\ thread[u] = "open" /\ thread' = [thread EXCEPT ![u] = thread'[u]]
        /\ thread'[u] \in {"written", "failed"}
        /\ lines' = lines \cup {new} \/ (lines' = lines /\ thread'[u] = "failed")
        /\ UNCHANGED <<at, fate, result, fileDay, opened, today, endDay>>
    BY <1>5 DEF AppendLine, told, clock, TypeOK
  <2>2. /\ \A line \in lines : line.update # u
        /\ \A v \in Updates \ {u} : Idle(v) /\ Update(v)
        /\ Update(u) /\ Dated(u) /\ fate[u] \in Fates
    BY <2>1 DEF Logged, Idle, TypeOK, Update
  <2>3. new.update = u /\ new.status = Status(fate[u]) /\ new.day = opened[u]
    OBVIOUS
  <2>4. \A v \in Updates \ {u} : Update(v)'
    BY <2>1, <2>2, <2>3, IdleUpdate
  <2>5. Update(u)'
    BY <2>1, <2>2, <2>3 DEF Update, LineOf
  <2>6. \A line \in lines' : LineOK(line)'
    BY <2>1, <2>2, <2>3 DEF Logged, LineOK, Dated
  <2>7. \A line, other \in lines' : line.update = other.update => line = other
    BY <2>1, <2>2, <2>3 DEF Logged
  <2> QED
    BY <1>2, <2>4, <2>5, <2>6, <2>7 DEF Logged
<1> QED
  BY <1>1, <1>t, <1>4, <1>5 DEF LogStep, Quiet

LEMMA LogInvariant == Spec => [](TypeOK /\ Logged /\ Turns)
<1>1. Init => TypeOK /\ Logged
  BY LogAssumption DEF Init, LogInit, TypeOK, Logged, Update, Dated, Days
<1>2. Init => Turns
  BY LogAssumption DEF Init, LogInit, Turns, Working
<1> QED
  BY <1>1, <1>2, StepsOfTheLog, LogStepOK, PTL DEF Spec

\* The state of the process is well typed; main() never makes more attempts to
\* connect than it may.
THEOREM TypeCorrect == Spec => []ProcessTypeOK
<1> DEFINE Rest ==
        /\ phase \in Phases /\ attempt \in 0..MaxRetry
        /\ phase \in {"connect", "backoff"} => attempt >= 1
        /\ phase = "backoff" => attempt < MaxRetry
        /\ state \in [Resources -> {"none", "open", "closed", "stuck", "again", "cut"}]
    Flag == listening \in BOOLEAN /\ handlers \in BOOLEAN
<1>1. Init => Rest /\ Flag
  <2>1. Init => Rest
    BY ProcessAssumption DEF Init, Phases
  <2>2. Init => Flag
    BY DEF Init
  <2> QED
    BY <2>1, <2>2
<1>2. Rest /\ [Next]_vars => Rest'
  <2> SUFFICES ASSUME Rest, [Next]_vars PROVE Rest'
    OBVIOUS
  <2> USE ProcessAssumption DEF Phases, Set
  <2>1. CASE Connect
    BY <2>1 DEF Connect
  <2>2. CASE Backoff
    BY <2>2 DEF Backoff
  <2>3. CASE SetCommands \/ Stop
    BY <2>3 DEF SetCommands, Stop
  <2>4. CASE StopLogging \/ CancelTasks \/ Exit
    BY <2>4 DEF StopLogging, CancelTasks, Exit
  <2>5. ASSUME NEW r \in Resources, CloseResource(r) \/ Interrupt(r) PROVE Rest'
    BY <2>5 DEF CloseResource, Interrupt, After, Resources
  <2>6. ASSUME NEW u \in Updates, NEW r \in Resources, Receive(u) \/ Run(u) \/ Use(u, r)
        PROVE  Rest'
    BY <2>6 DEF Receive, Run, Use
  <2>7. CASE Pass \/ UNCHANGED vars
    BY <2>7 DEF Pass, vars
  <2> QED
    BY <2>1, <2>2, <2>3, <2>4, <2>5, <2>6, <2>7 DEF Next, Main, Resources
<1>3. Flag /\ [Next]_vars => Flag'
  BY DEF Next, Main, Connect, Backoff, SetCommands, StopLogging, CancelTasks, Exit,
     CloseResource, Interrupt, Stop, Pass, Receive, Run, Use, vars
<1>4. TypeOK /\ Rest /\ Flag => ProcessTypeOK
  BY DEF ProcessTypeOK
<1> QED
  BY <1>1, <1>2, <1>3, <1>4, LogInvariant, PTL DEF Spec

\* For any number of updates: an update the dispatcher is told was handled has its
\* line, the line tells how the handler ended, if it was not cancelled, and there
\* is no second one.
THEOREM Persisted == Spec => []HandledMeansLogged
<1>1. TypeOK /\ Logged => HandledMeansLogged
  BY DEF TypeOK, Logged, Update, LineOf, LineOK, Status, HandledMeansLogged
<1> QED
  BY <1>1, LogInvariant, PTL

\* Lines stand in the file of the day of their handler's end, or a later one.
THEOREM DatedRight == Spec => []LinesAreDated
<1>1. TypeOK /\ Logged => LinesAreDated
  BY LogAssumption DEF TypeOK, Days, Logged, LineOK, LinesAreDated
<1> QED
  BY <1>1, LogInvariant, PTL

\* For any number of updates: two threads of one middleware are at work together
\* only after a cancellation took the lock from the first.
THEOREM LocksTakeTurns == Spec => []WritesTakeTurns
<1>1. Turns => WritesTakeTurns
  BY DEF Turns, HoldsLock, WritesTakeTurns
<1> QED
  BY <1>1, LogInvariant, PTL

-----------------------------------------------------------------------------
(* The shutdown *)

\* How far main() has got with closing what it opened.
Closing ==
    /\ state \in [Resources -> {"none", "open", "closed", "stuck", "again", "cut"}]
    /\ phase \in {"connect", "backoff"} => state["storage"] = "none"
    /\ phase \in {"session", "redis", "logging"} => state["storage"] # "open"
    /\ phase \in {"redis", "logging"} => state["session"] # "open"
    /\ phase = "logging" => state["redis"] # "open"
    /\ phase \in MainEnded /\ state["storage"] # "none" =>
          \/ (\A r \in Resources : state[r] # "open") /\ listening = FALSE
          \/ handlers = FALSE /\ \E r \in Resources : state[r] = "cut"

\* For any number of updates in flight and whichever closes raise, main() has
\* tried to close everything it opened inside its try when it ends, unless Ctrl+C
\* interrupts a close and polling never began.
THEOREM ClosesEverything == Spec => []ShutdownIsComplete
<1>1. Init => Closing
  BY DEF Init, Closing, Resources, MainEnded
<1>2. Closing /\ [Next]_vars => Closing'
  <2> SUFFICES ASSUME Closing, [Next]_vars PROVE Closing'
    OBVIOUS
  <2> USE DEF Closing, Resources, MainEnded, Set
  <2>1. CASE Connect \/ Backoff
    BY <2>1 DEF Connect, Backoff
  <2>2. CASE SetCommands \/ Stop
    BY <2>2 DEF SetCommands, Stop
  <2>3. CASE StopLogging
    BY <2>3 DEF StopLogging
  <2>4. CASE CancelTasks \/ Exit
    BY <2>4 DEF CancelTasks, Exit
  <2>5. ASSUME NEW r \in Resources, CloseResource(r) PROVE Closing'
    BY <2>5 DEF CloseResource, After
  <2>9. ASSUME NEW r \in Resources, Interrupt(r) PROVE Closing'
    BY <2>9 DEF Interrupt
  <2>6. ASSUME NEW u \in Updates, Receive(u) \/ Run(u) PROVE Closing'
    BY <2>6 DEF Receive, Run
  <2>7. ASSUME NEW u \in Updates, Use(u, "session") \/ Use(u, "storage") PROVE Closing'
    BY <2>7 DEF Use
  <2>8. CASE Pass \/ UNCHANGED vars
    BY <2>8 DEF Pass, vars
  <2> QED
    BY <2>1, <2>2, <2>3, <2>4, <2>5, <2>6, <2>7, <2>8, <2>9 DEF Next, Main
<1>3. Closing => ShutdownIsComplete
  BY DEF Closing, ShutdownIsComplete
<1> QED
  BY <1>1, <1>2, <1>3, PTL DEF Spec
=============================================================================
