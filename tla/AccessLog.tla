----------------------------- MODULE AccessLog -----------------------------
(***************************************************************************)
(* The way of an update through the middlewares to its line in the access    *)
(* log: whitelist.py, rate_limiter.py (as far as it lets pass or refuses)    *)
(* and access_log.py, in the order of build_dispatcher.  Messages and        *)
(* button presses have a middleware, and so a lock, each, but share the      *)
(* files.  A line is written by a worker thread, which reads self.log_file   *)
(* when it opens the file and goes on when the coroutine that waits for it   *)
(* is cancelled.                                                             *)
(***************************************************************************)
EXTENDS Integers, Sequences

CONSTANTS
    Updates,        \* updates Telegram delivers
    Kind,           \* [Updates -> Kinds]
    LastDay         \* bound: days that pass

Kinds == {"message", "callback"}
Days == 1..LastDay

ASSUME LogAssumption ==
    /\ Kind \in [Updates -> Kinds]
    /\ LastDay \in Nat \ {0}

VARIABLES
    at,         \* where the task of each update stands
    fate,       \* how its handler ended
    result,     \* how its chain of middlewares ended, for the dispatcher
    queue,      \* [Kinds -> Seq(Updates)]: each lock's holder, then who waits in turn
    fileDay,    \* each middleware's current_date and log_file
    thread,     \* each worker thread
    opened,     \* the day of the file it has open; 0 = none
    lines,      \* what the files of data/logs contain
    today,
    endDay      \* history: the day on which each handler ended; 0 = not yet

logVars == <<at, fate, result, queue, fileDay, thread, opened, lines, today, endDay>>

\* Groups that the steps below leave alone together.
told == <<fate, result>>
worker == <<thread, opened, lines>>
clock == <<today, endDay>>

Fates == {"success", "error", "cancelled"}

TypeOK ==
    /\ at \in [Updates -> {"idle", "limit", "refuse", "handle", "unwind", "log", "write",
                           "done"}]
    /\ fate \in [Updates -> Fates \cup {"none"}]
    /\ result \in [Updates -> {"none", "refused", "returned", "raised", "cancelled"}]
    /\ queue \in [Kinds -> Seq(Updates)]
    /\ fileDay \in [Kinds -> Days]
    /\ thread \in [Updates -> {"none", "queued", "started", "open", "written", "failed",
                               "dropped"}]
    /\ opened \in [Updates -> Days \cup {0}]
    /\ lines \subseteq [update : Updates, status : {"success", "error", "none"}, day : Days]
    /\ today \in Days
    /\ endDay \in [Updates -> Days \cup {0}]

LogInit ==
    /\ at = [u \in Updates |-> "idle"]
    /\ fate = [u \in Updates |-> "none"]
    /\ result = [u \in Updates |-> "none"]
    /\ queue = [k \in Kinds |-> <<>>]
    /\ fileDay = [k \in Kinds |-> 1]
    /\ thread = [u \in Updates |-> "none"]
    /\ opened = [u \in Updates |-> 0]
    /\ lines = {}
    /\ today = 1
    /\ endDay = [u \in Updates |-> 0]

Go(u, stage) == at' = [at EXCEPT ![u] = stage]
Report(u, what) == result' = [result EXCEPT ![u] = what]
HoldsLock(u) == queue[Kind[u]] # <<>> /\ Head(queue[Kind[u]]) = u

-----------------------------------------------------------------------------
(* The event loop. *)

\* The whitelist knows the user and the script of the limiter is sent, or not.
Arrive(u) ==
    /\ at[u] = "idle"
    /\ \E stage \in {"limit", "refuse"} : Go(u, stage)
    /\ UNCHANGED <<told, queue, fileDay, worker, clock>>

\* Redis answers, or fails: then the update is refused as well.
Limit(u) ==
    /\ at[u] = "limit"
    /\ \E stage \in {"handle", "refuse"} : Go(u, stage)
    /\ UNCHANGED <<told, queue, fileDay, worker, clock>>

\* The user is told, or Telegram fails and the middleware raises.
Refuse(u) ==
    /\ at[u] = "refuse"
    /\ Go(u, "done")
    /\ \E what \in {"refused", "raised"} : Report(u, what)
    /\ UNCHANGED <<fate, queue, fileDay, worker, clock>>

\* log_entry['status']: CancelledError passes the except clause, which sets it for
\* an Exception only, and the finally clause writes the entry without one.
Status(how) == IF how = "cancelled" THEN "none" ELSE how

\* The handler ends and the finally clause asks for the lock.  One that was
\* cancelled cannot succeed, but its own cleanup may raise.
Finish(u, how) ==
    /\ \/ at[u] = "handle" /\ how \in {"success", "error"}
       \/ at[u] = "unwind" /\ how \in {"cancelled", "error"}
    /\ Go(u, "log")
    /\ fate' = [fate EXCEPT ![u] = how]
    /\ queue' = [queue EXCEPT ![Kind[u]] = Append(@, u)]
    /\ endDay' = [endDay EXCEPT ![u] = today]
    /\ UNCHANGED <<result, fileDay, worker, today>>

SaveUnlocked(u) ==
    /\ at[u] = "log"
    /\ fileDay' = [fileDay EXCEPT ![Kind[u]] = today]
    /\ thread' = [thread EXCEPT ![u] = "queued"]
    /\ Go(u, "write")
    /\ UNCHANGED <<told, queue, opened, lines, clock>>

SaveToFirstFile(u) ==
    /\ at[u] = "log" /\ HoldsLock(u)
    /\ thread' = [thread EXCEPT ![u] = "queued"]
    /\ Go(u, "write")
    /\ UNCHANGED <<told, queue, fileDay, opened, lines, clock>>

\* _save_log: with the lock, choose the file of the day and hire a thread.
Save(u) ==
    /\ at[u] = "log" /\ HoldsLock(u)
    /\ fileDay' = [fileDay EXCEPT ![Kind[u]] = today]
    /\ thread' = [thread EXCEPT ![u] = "queued"]
    /\ Go(u, "write")
    /\ UNCHANGED <<told, queue, opened, lines, clock>>

\* The holder, u, leaves; whoever is behind it has the lock now.
Release(u) == queue' = [queue EXCEPT ![Kind[u]] = Tail(@)]

Ended(u) == thread[u] \in {"written", "failed"}

ReturnAnyway(u) ==
    /\ at[u] = "write" /\ Ended(u)
    /\ Go(u, "done")
    /\ Release(u)
    /\ Report(u, CASE fate[u] = "success" -> "returned"
                   [] fate[u] = "error" -> "raised"
                   [] fate[u] = "cancelled" -> "cancelled")
    /\ UNCHANGED <<fate, fileDay, worker, clock>>

ReturnLocked(u) ==
    /\ at[u] = "write" /\ Ended(u)
    /\ Go(u, "done")
    /\ IF thread[u] = "failed" THEN UNCHANGED queue ELSE Release(u)
    /\ Report(u, CASE thread[u] = "failed" \/ fate[u] = "error" -> "raised"
                   [] thread[u] # "failed" /\ fate[u] = "success" -> "returned"
                   [] thread[u] # "failed" /\ fate[u] = "cancelled" -> "cancelled")
    /\ UNCHANGED <<fate, fileDay, worker, clock>>

\* The thread is over; an OSError of it takes the place of the handler's result,
\* of its exception and of its cancellation.
Return(u) ==
    /\ at[u] = "write" /\ Ended(u)
    /\ Go(u, "done")
    /\ Release(u)
    /\ Report(u, CASE thread[u] = "failed" \/ fate[u] = "error" -> "raised"
                   [] thread[u] # "failed" /\ fate[u] = "success" -> "returned"
                   [] thread[u] # "failed" /\ fate[u] = "cancelled" -> "cancelled")
    /\ UNCHANGED <<fate, fileDay, worker, clock>>

\* Every task is cancelled at the await it stands at.  A handler unwinds; whoever
\* waits for the lock or for a thread leaves without a line of its own doing, and
\* a thread that has not started yet never will.  So every lock is left at once.
CancelAll ==
    LET gone == {u \in Updates : at[u] \in {"limit", "refuse", "log", "write"}}
    IN /\ at' = [u \in Updates |-> CASE u \in gone -> "done"
                                     [] at[u] = "handle" -> "unwind"
                                     [] OTHER -> at[u]]
       /\ result' = [u \in Updates |-> IF u \in gone THEN "cancelled" ELSE result[u]]
       /\ queue' = [k \in Kinds |-> <<>>]
       /\ thread' = [u \in Updates |-> IF u \in gone /\ thread[u] = "queued"
                                       THEN "dropped" ELSE thread[u]]
       /\ UNCHANGED <<fate, fileDay, opened, lines, clock>>

-----------------------------------------------------------------------------
(* The worker threads: _write_sync. *)

Start(u) ==
    /\ thread[u] = "queued"
    /\ thread' = [thread EXCEPT ![u] = "started"]
    /\ UNCHANGED <<at, told, queue, fileDay, opened, lines, clock>>

\* os.open of self.log_file as it is now
Open(u) ==
    /\ thread[u] = "started"
    /\ \/ /\ thread' = [thread EXCEPT ![u] = "open"]
          /\ opened' = [opened EXCEPT ![u] = fileDay[Kind[u]]]
       \/ /\ thread' = [thread EXCEPT ![u] = "failed"]
          /\ UNCHANGED opened
    /\ UNCHANGED <<at, told, queue, fileDay, lines, clock>>

\* One append of the whole line; it may fail, and chmod may fail after it.
AppendLine(u) ==
    LET line == [update |-> u, status |-> Status(fate[u]), day |-> opened[u]]
    IN /\ thread[u] = "open"
       /\ \/ lines' = lines \cup {line} /\ thread' = [thread EXCEPT ![u] = "written"]
          \/ lines' = lines \cup {line} /\ thread' = [thread EXCEPT ![u] = "failed"]
          \/ lines' = lines /\ thread' = [thread EXCEPT ![u] = "failed"]
       /\ UNCHANGED <<at, told, queue, fileDay, opened, clock>>

Midnight ==
    /\ today < LastDay
    /\ today' = today + 1
    /\ UNCHANGED <<at, told, queue, fileDay, worker, endDay>>

Working(u) == thread[u] \in {"queued", "started", "open"}

\* What the event loop and the threads do by themselves for one update.
Proceed(u) ==
    \/ Limit(u) \/ Refuse(u) \/ Save(u) \/ Return(u)
    \/ \E how \in Fates : Finish(u, how)
    \/ Start(u) \/ Open(u) \/ AppendLine(u)

-----------------------------------------------------------------------------
(* Properties *)

\* "Process an update and persist an audit record": the dispatcher is told of a
\* success only if the handler succeeded and its line is in a file; no update
\* has two lines, and a line tells how the handler ended; one without a status
\* belongs to a handler that was cancelled.
HandledMeansLogged ==
    /\ \A u \in Updates : result[u] = "returned" =>
          \E line \in lines : line.update = u /\ line.status = "success"
    /\ \A line \in lines : line.status = Status(fate[line.update])
    /\ \A line, other \in lines : line.update = other.update => line = other

\* A line stands in the file of the day on which its handler ended, or of a later
\* one if it had to wait for the lock or was overtaken after a cancellation.
LinesAreDated == \A line \in lines : line.day \in endDay[line.update]..today

\* Two threads of one middleware are at work at the same time only after a
\* cancellation gave the lock away from under the first.
WritesTakeTurns ==
    \A u, v \in Updates :
        u # v /\ Kind[u] = Kind[v] /\ Working(u) /\ Working(v) =>
            result[u] = "cancelled" \/ result[v] = "cancelled"
=============================================================================
