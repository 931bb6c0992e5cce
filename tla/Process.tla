------------------------------ MODULE Process ------------------------------
(***************************************************************************)
(* The life of the bot's process: src/bot/main.py, the connection of         *)
(* src/bot/storage/redis_client.py, the log listener of utils/logger.py and  *)
(* what asyncio.run does after main(), with the updates of AccessLog in      *)
(* flight.  Polling and its signal handlers are aiogram's: it starts a task  *)
(* per update and does not wait for the tasks when it stops.                 *)
(***************************************************************************)
EXTENDS AccessLog

CONSTANT MaxRetry       \* MAX_RETRY_COUNT

ASSUME ProcessAssumption == MaxRetry \in Nat \ {0}

Resources == {"redis", "storage", "session"}

VARIABLES
    phase,      \* where main() stands
    attempt,    \* attempts of RedisClient.connect; 0 when it is over
    state,      \* each resource; "stuck": its close() raised; "again": opened by a
                \* handler after it was closed; "cut": its close() was interrupted
    listening,  \* the log listener runs
    handlers    \* aiogram's signal handlers are installed; they stay

vars == <<logVars, phase, attempt, state, listening, handlers>>

Phases == {"connect", "backoff", "commands", "polling", "storage", "session", "redis",
           "logging", "cancel", "gather", "exited"}
MainEnded == {"cancel", "gather", "exited"}

ProcessTypeOK ==
    /\ TypeOK
    /\ phase \in Phases
    /\ attempt \in 0..MaxRetry
    /\ state \in [Resources -> {"none", "open", "closed", "stuck", "again", "cut"}]
    /\ listening \in BOOLEAN
    /\ handlers \in BOOLEAN

Init ==
    /\ LogInit
    /\ phase = "connect"
    /\ attempt = 1
    /\ state = [r \in Resources |-> "none"]
    /\ listening = TRUE
    /\ handlers = FALSE

Set(r, how) == state' = [state EXCEPT ![r] = how]

-----------------------------------------------------------------------------
(* main() *)

\* A call of ping on a new pool.  Only redis.exceptions.ConnectionError is tried
\* again; its last occurrence and any other exception leave main() before its try.
Connect ==
    /\ phase = "connect"
    /\ \/ /\ phase' = "commands" /\ attempt' = 0
          /\ state' = [state EXCEPT !["redis"] = "open", !["storage"] = "open"]
       \/ /\ phase' = "backoff" /\ attempt < MaxRetry /\ UNCHANGED attempt
          /\ Set("redis", "open")
       \/ /\ phase' = "cancel" /\ attempt' = 0
          /\ Set("redis", "open")
    /\ UNCHANGED <<logVars, listening, handlers>>

\* asyncio.sleep, which Ctrl+C may interrupt
Backoff ==
    /\ phase = "backoff"
    /\ \/ phase' = "connect" /\ attempt' = attempt + 1
       \/ phase' = "cancel" /\ attempt' = 0
    /\ UNCHANGED <<logVars, state, listening, handlers>>

\* The first call to Telegram; it may raise, and Ctrl+C may interrupt it.
SetCommands ==
    /\ phase = "commands"
    /\ \E next \in {"polling", "storage"} : phase' = next
    /\ handlers' = (phase' = "polling")
    /\ Set("session", "open")
    /\ UNCHANGED <<logVars, attempt, listening>>

\* A signal, or an error that start_polling does not survive.
Stop ==
    /\ phase = "polling"
    /\ phase' = "storage"
    /\ UNCHANGED <<logVars, attempt, state, listening, handlers>>

After(r) == CASE r = "storage" -> "session"
              [] r = "session" -> "redis"
              [] r = "redis" -> "logging"

CloseOrRaise(r) ==
    /\ phase = r
    /\ \/ Set(r, "closed") /\ phase' = After(r)
       \/ Set(r, "stuck") /\ phase' = "cancel"
    /\ UNCHANGED <<logVars, attempt, listening, handlers>>

\* shutdown(): each close has a try of its own, whose except clause only logs.
CloseResource(r) ==
    /\ phase = r
    /\ phase' = After(r)
    /\ \E how \in {"closed", "stuck"} : Set(r, how)
    /\ UNCHANGED <<logVars, attempt, listening, handlers>>

\* Ctrl+C during a close: CancelledError is not an Exception, so it leaves
\* shutdown() there.  Once polling has begun, aiogram's handlers take the signal,
\* and after its end they ignore it.
Interrupt(r) ==
    /\ phase = r
    /\ ~handlers
    /\ phase' = "cancel"
    /\ Set(r, "cut")
    /\ UNCHANGED <<logVars, attempt, listening, handlers>>

\* shutdown_logging: the handler is removed and the queue is drained.
StopLogging ==
    /\ phase = "logging"
    /\ phase' = "cancel"
    /\ listening' = FALSE
    /\ UNCHANGED <<logVars, attempt, state, handlers>>

\* asyncio.run, whatever main() ended with: first every task is cancelled,
CancelTasks ==
    /\ phase = "cancel"
    /\ phase' = "gather"
    /\ CancelAll
    /\ UNCHANGED <<attempt, state, listening, handlers>>

\* then the tasks and the threads are waited for.
Exit ==
    /\ phase = "gather"
    /\ \A u \in Updates : at[u] \in {"idle", "done"} /\ ~Working(u)
    /\ phase' = "exited"
    /\ UNCHANGED <<logVars, attempt, state, listening, handlers>>

-----------------------------------------------------------------------------
(* The updates *)

Receive(u) ==
    /\ phase = "polling"
    /\ Arrive(u)
    /\ UNCHANGED <<phase, attempt, state, listening, handlers>>

Run(u) ==
    /\ phase # "exited"
    /\ Proceed(u)
    /\ UNCHANGED <<phase, attempt, state, listening, handlers>>

\* A call to Telegram or to the FSM storage from a handler or a refusal: both
\* clients connect again after they have been closed.
Use(u, r) ==
    /\ phase # "exited"
    /\ at[u] \in {"refuse", "handle", "unwind"}
    /\ state[r] = "closed"
    /\ Set(r, "again")
    /\ UNCHANGED <<logVars, phase, attempt, listening, handlers>>

Pass ==
    /\ phase # "exited"
    /\ Midnight
    /\ UNCHANGED <<phase, attempt, state, listening, handlers>>

Main ==
    \/ Connect \/ Backoff \/ SetCommands \/ StopLogging \/ CancelTasks \/ Exit
    \/ \E r \in Resources : CloseResource(r)

Next ==
    \/ Main \/ Stop \/ Pass
    \/ \E r \in Resources : Interrupt(r)
    \/ \E u \in Updates : Receive(u) \/ Run(u) \/ Use(u, "session") \/ Use(u, "storage")

\* Calls of main() to Redis and Telegram end, with a result or an error; so do
\* the handlers (EveryUpdateEnds of the dialogue) and the threads.
Fairness == WF_vars(Main) /\ \A u \in Updates : WF_vars(Run(u))

Spec == Init /\ [][Next]_vars
FairSpec == Spec /\ Fairness

-----------------------------------------------------------------------------
(* Properties *)

\* "Close all open resources": once main() has got as far as its try and is over,
\* no resource is left that nobody tried to close, whichever of the closes
\* raised, and the log has been drained.  Only Ctrl+C during a close, and only if
\* polling never began, cuts that short.  (What in-flight handlers open again
\* after its close is not closed a second time.)
ShutdownIsComplete ==
    phase \in MainEnded /\ state["storage"] # "none" =>
        \/ (\A r \in Resources : state[r] # "open") /\ ~listening
        \/ ~handlers /\ \E r \in Resources : state[r] = "cut"

\* Stopping ends the process, though tasks that are cancelled go on to wait for
\* the lock of the access log; and while it runs, the lock reaches everyone.
NobodyWaitsForEver ==
    /\ phase = "storage" ~> phase = "exited"
    /\ \A u \in Updates : at[u] = "log" ~> at[u] = "done"
=============================================================================
