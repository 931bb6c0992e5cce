----------------------------- MODULE UrlHandler -----------------------------
(***************************************************************************)
(* One user's dialogue with the bot: src/bot/handlers/url_handler.py and    *)
(* callbacks.py.  aiogram starts a task per Telegram update, and nothing    *)
(* isolates the updates of one user, so handlers interleave at every await. *)
(* They share the FSM datum 'url', which lives in Redis and survives a      *)
(* restart of the bot; everything else is local to a task or shown in the   *)
(* chat.                                                                    *)
(*                                                                          *)
(* A task is an update: a text with a link, or a press of a button that an  *)
(* earlier task left under its answer.  Any call to Telegram or Redis may   *)
(* fail, before or after it took effect (a lost reply): the handler then    *)
(* raises and aiogram logs the exception.  The                              *)
(* branch for a message without a sender (url_handler.py:270-275) is left   *)
(* out: aiogram builds no FSM context without a user, so the handler would  *)
(* not be called.                                                           *)
(***************************************************************************)
EXTENDS FiniteSets

CONSTANTS
    Tasks,      \* the updates Telegram delivers
    Urls,       \* normalized article URLs
    AuthUrls,   \* those whose paywall_info.requires_auth holds
    NoUrl,      \* the FSM data holds no url
    NoTask

ASSUME HandlerAssumption ==
    /\ AuthUrls \subseteq Urls
    /\ NoUrl \notin Urls
    /\ NoTask \notin Tasks

VARIABLES
    session,    \* the 'url' of the FSM data in Redis
    pc,         \* where each handler stands
    url,        \* each handler's local url
    outcome,    \* how each handler's call of the orchestrator ended
    verdict,    \* the last thing each handler told the user
    status,     \* each handler's "analysing" message
    keyboard,   \* the buttons under each handler's answer
    source,     \* for a callback: the task whose button was pressed
    killed,     \* handlers that died with the process
    lastWriter  \* history: the handler that wrote session last

vars == <<session, pc, url, outcome, verdict, status, keyboard, source,
          killed, lastWriter>>

\* Groups that the steps below leave alone together.
store == <<session, lastWriter>>
local == <<url, outcome, source, killed>>
chat  == <<verdict, status, keyboard>>

\* After the URL was accepted for processing.
Processing == {"begin", "announce", "process", "apologise", "cleanup", "fail",
               "clear", "publish", "link", "header", "chunks"}
Stages == Processing \cup
          {"idle", "store", "offer", "read", "stale", "ack",
           "cancel", "cancel_note", "done"}
\* Stages at which a handler has an accepted URL in hand.
HasUrl == Processing \cup {"store", "offer", "ack"}
\* Stages whose next step awaits a call that may raise.
Fallible == {"store", "offer", "begin", "announce", "apologise",
             "fail", "clear", "link", "header", "chunks", "read", "stale",
             "ack", "cancel", "cancel_note"}
Apologies == {"timeout", "error"}
Outcomes == Apologies \cup {"none", "failure", "article"}
\* A lost message is in the chat, but its handler never learned of it.
Statuses == {"none", "lost", "shown", "deleted", "stuck"}
Verdicts == Outcomes \cup {"rejected", "choice", "stale", "header", "cancelled"}

TypeOK ==
    /\ session \in Urls \cup {NoUrl}
    /\ pc \in [Tasks -> Stages]
    /\ url \in [Tasks -> Urls \cup {NoUrl}]
    /\ outcome \in [Tasks -> Outcomes]
    /\ verdict \in [Tasks -> Verdicts]
    /\ status \in [Tasks -> Statuses]
    /\ keyboard \in [Tasks -> {"none", "choice", "retry"}]
    /\ source \in [Tasks -> Tasks \cup {NoTask}]
    /\ killed \subseteq Tasks
    /\ lastWriter \in Tasks \cup {NoTask}
    /\ \A t \in Tasks : pc[t] \in HasUrl => url[t] \in Urls

Init ==
    /\ session = NoUrl
    /\ pc = [t \in Tasks |-> "idle"]
    /\ url = [t \in Tasks |-> NoUrl]
    /\ outcome = [t \in Tasks |-> "none"]
    /\ verdict = [t \in Tasks |-> "none"]
    /\ status = [t \in Tasks |-> "none"]
    /\ keyboard = [t \in Tasks |-> "none"]
    /\ source = [t \in Tasks |-> NoTask]
    /\ killed = {}
    /\ lastWriter = NoTask

At(t, stage) == t \notin killed /\ pc[t] = stage
Go(t, stage) == pc' = [pc EXCEPT ![t] = stage]
Tell(t, what) == verdict' = [verdict EXCEPT ![t] = what]

WriteSession(t, u) ==
    /\ session' = u
    /\ lastWriter' = t

-----------------------------------------------------------------------------
(* handle_message: a text message. *)

\* No link in the text, or is_valid_url refuses it: the user is told so.
RejectText(t) ==
    /\ At(t, "idle")
    /\ Go(t, "done")
    /\ Tell(t, "rejected")
    /\ UNCHANGED <<store, local, status, keyboard>>

\* extract_url, is_valid_url and normalize_url run without an await.
ReceiveLink(t, u) ==
    /\ At(t, "idle")
    /\ url' = [url EXCEPT ![t] = u]
    /\ Go(t, "store")
    /\ UNCHANGED <<store, chat, outcome, source, killed>>

\* state.update_data(url=...): 'url' is the only key ever stored, so the read
\* and the write of update_data amount to the write.  classify() follows
\* without giving up control.
StoreUrl(t) ==
    /\ At(t, "store")
    /\ WriteSession(t, url[t])
    /\ Go(t, IF url[t] \in AuthUrls THEN "offer" ELSE "begin")
    /\ UNCHANGED <<local, chat>>

\* The article needs a subscription: ask before processing it.
Offer(t) ==
    /\ At(t, "offer")
    /\ Go(t, "done")
    /\ Tell(t, "choice")
    /\ keyboard' = [keyboard EXCEPT ![t] = "choice"]
    /\ UNCHANGED <<store, local, status>>

-----------------------------------------------------------------------------
(* process_url_message. *)

\* state.set_data({'url': url})
Begin(t) ==
    /\ At(t, "begin")
    /\ WriteSession(t, url[t])
    /\ Go(t, "announce")
    /\ UNCHANGED <<local, chat>>

Announce(t) ==
    /\ At(t, "announce")
    /\ Go(t, "process")
    /\ status' = [status EXCEPT ![t] = "shown"]
    /\ UNCHANGED <<store, local, verdict, keyboard>>

\* The orchestrator returned a completed request, with an article or without.
Answered(t) ==
    /\ At(t, "process")
    /\ Go(t, "cleanup")
    /\ \E result \in {"failure", "article"} :
          outcome' = [outcome EXCEPT ![t] = result]
    /\ UNCHANGED <<store, chat, url, source, killed>>

Raised(t) ==
    /\ At(t, "process")
    /\ Go(t, "apologise")
    /\ outcome' = [outcome EXCEPT ![t] = "error"]
    /\ UNCHANGED <<store, chat, url, source, killed>>

TimeoutAroundStatus(t) ==
    /\ At(t, "announce")
    /\ Go(t, "apologise")
    /\ outcome' = [outcome EXCEPT ![t] = "timeout"]
    /\ UNCHANGED <<store, chat, url, source, killed>>

\* asyncio.timeout(settings.request_timeout_seconds) expires.
Timeout(t) ==
    /\ At(t, "process")
    /\ Go(t, "apologise")
    /\ outcome' = [outcome EXCEPT ![t] = "timeout"]
    /\ UNCHANGED <<store, chat, url, source, killed>>

ApologiseNoFinally(t) ==
    /\ At(t, "apologise")
    /\ Tell(t, outcome[t])
    /\ Go(t, "done")
    /\ UNCHANGED <<store, local, status, keyboard>>

\* The apology is sent inside the except clause, so before the finally.
Apologise(t) ==
    /\ At(t, "apologise")
    /\ Tell(t, outcome[t])
    /\ Go(t, "cleanup")
    /\ UNCHANGED <<store, local, status, keyboard>>

CleanupThenClear(t) ==
    /\ At(t, "cleanup")
    /\ \E left \in {"deleted", "stuck"} : status' = [status EXCEPT ![t] = left]
    /\ Go(t, IF outcome[t] = "failure" THEN "fail" ELSE "done")
    /\ WriteSession(t, NoUrl)
    /\ UNCHANGED <<local, verdict, keyboard>>

\* The finally clause: _delete_status_message swallows its own failure.
Cleanup(t) ==
    /\ At(t, "cleanup")
    /\ \E left \in {"deleted", "stuck"} : status' = [status EXCEPT ![t] = left]
    /\ Go(t, CASE outcome[t] = "article" -> "clear"
               [] outcome[t] = "failure" -> "fail"
               [] OTHER -> "done")
    /\ UNCHANGED <<store, local, verdict, keyboard>>

\* No accessible text: offer the retry button.
Fail(t) ==
    /\ At(t, "fail")
    /\ Go(t, "done")
    /\ Tell(t, "failure")
    /\ keyboard' = [keyboard EXCEPT ![t] = "retry"]
    /\ UNCHANGED <<store, local, status>>

\* state.clear(), before anything is delivered.
Clear(t) ==
    /\ At(t, "clear")
    /\ WriteSession(t, NoUrl)
    /\ Go(t, "publish")
    /\ UNCHANGED <<local, chat>>

\* Telegraph is off, unused, failed (publish returns None) or gave a page.
Publish(t) ==
    /\ At(t, "publish")
    /\ \E stage \in {"link", "header"} : Go(t, stage)
    /\ UNCHANGED <<store, local, chat>>

\* One message with the link to the page, or the last chunk of the text.
Deliver(t) ==
    /\ At(t, "link") \/ At(t, "chunks")
    /\ Go(t, "done")
    /\ Tell(t, "article")
    /\ UNCHANGED <<store, local, status, keyboard>>

SendHeader(t) ==
    /\ At(t, "header")
    /\ Go(t, "chunks")
    /\ Tell(t, "header")
    /\ UNCHANGED <<store, local, status, keyboard>>

-----------------------------------------------------------------------------
(* callbacks.py: task t is a press of a button under the answer of task s. *)

\* try_anyway or retry_archives
Press(t, s) ==
    /\ At(t, "idle")
    /\ keyboard[s] # "none"
    /\ source' = [source EXCEPT ![t] = s]
    /\ Go(t, "read")
    /\ UNCHANGED <<store, chat, url, outcome, killed>>

ReadSessionUnchecked(t) ==
    /\ At(t, "read")
    /\ url' = [url EXCEPT ![t] = session]
    /\ Go(t, "ack")
    /\ UNCHANGED <<store, chat, outcome, source, killed>>

\* The callback finds its URL in the FSM data, not in the button.
ReadSession(t) ==
    /\ At(t, "read")
    /\ url' = [url EXCEPT ![t] = session]
    /\ Go(t, IF session = NoUrl THEN "stale" ELSE "ack")
    /\ UNCHANGED <<store, chat, outcome, source, killed>>

TellStale(t) ==
    /\ At(t, "stale")
    /\ Go(t, "done")
    /\ Tell(t, "stale")
    /\ UNCHANGED <<store, local, status, keyboard>>

\* callback.answer(), then process_url_message with the url read before.
Acknowledge(t) ==
    /\ At(t, "ack")
    /\ Go(t, "begin")
    /\ UNCHANGED <<store, local, chat>>

PressCancel(t, s) ==
    /\ At(t, "idle")
    /\ keyboard[s] = "choice"
    /\ source' = [source EXCEPT ![t] = s]
    /\ Go(t, "cancel")
    /\ UNCHANGED <<store, chat, url, outcome, killed>>

CancelClear(t) ==
    /\ At(t, "cancel")
    /\ WriteSession(t, NoUrl)
    /\ Go(t, "cancel_note")
    /\ UNCHANGED <<local, chat>>

\* edit_text without reply_markup takes the buttons off the message.
CancelNote(t) ==
    /\ At(t, "cancel_note")
    /\ Go(t, "done")
    /\ Tell(t, "cancelled")
    /\ keyboard' = [keyboard EXCEPT ![source[t]] = "none"]
    /\ UNCHANGED <<store, local, status>>

-----------------------------------------------------------------------------
\* An awaited call raises: only the apology stands inside a try with a finally.
Abort(t) ==
    /\ t \notin killed
    /\ pc[t] \in Fallible
    /\ Go(t, IF pc[t] = "apologise" THEN "cleanup" ELSE "done")
    /\ UNCHANGED <<store, local, chat>>

\* The call did what it was asked to, but its reply is lost and it raises all the
\* same.  The other calls stand at the end of a handler, where this is their
\* success, or have no effect.
AbortLate(t) ==
    /\ t \notin killed
    /\ Go(t, "done")
    /\ \/ /\ pc[t] \in {"store", "begin"}
          /\ WriteSession(t, url[t])
          /\ UNCHANGED chat
       \/ /\ pc[t] \in {"clear", "cancel"}
          /\ WriteSession(t, NoUrl)
          /\ UNCHANGED chat
       \/ /\ pc[t] = "announce"
          /\ status' = [status EXCEPT ![t] = "lost"]
          /\ UNCHANGED <<store, verdict, keyboard>>
       \/ /\ pc[t] = "header"
          /\ Tell(t, "header")
          /\ UNCHANGED <<store, status, keyboard>>
    /\ UNCHANGED local

\* The process dies: its handlers are gone, Redis and the chat remain.
Crash ==
    /\ \E t \in Tasks : t \notin killed /\ pc[t] \notin {"idle", "done"}
    /\ killed' = killed \cup {t \in Tasks : pc[t] \notin {"idle", "done"}}
    /\ UNCHANGED <<store, pc, url, outcome, source, chat>>

Receive(t) ==
    \/ RejectText(t)
    \/ \E u \in Urls : ReceiveLink(t, u)
    \/ \E s \in Tasks : Press(t, s) \/ PressCancel(t, s)

\* What the event loop runs once the awaited call has returned.
Step(t) ==
    \/ StoreUrl(t) \/ Offer(t) \/ Begin(t) \/ Announce(t)
    \/ Apologise(t) \/ Cleanup(t) \/ Fail(t) \/ Clear(t) \/ Publish(t)
    \/ Deliver(t) \/ SendHeader(t) \/ ReadSession(t) \/ TellStale(t)
    \/ Acknowledge(t) \/ CancelClear(t) \/ CancelNote(t)
    \/ Abort(t) \/ AbortLate(t)

Next ==
    \/ \E t \in Tasks : Receive(t) \/ Step(t) \/ Answered(t) \/ Raised(t) \/ Timeout(t)
    \/ Crash

\* Telegram and Redis calls end, with a result or an error; the call of the
\* orchestrator may never end, but its timeout fires.
Fairness == \A t \in Tasks : WF_vars(Step(t)) /\ WF_vars(Timeout(t))

Spec == Init /\ [][Next]_vars
FairSpec == Spec /\ Fairness

-----------------------------------------------------------------------------
(* Properties *)

\* The FSM datum always is what its last writer owes the user: after a failure,
\* a timeout, an internal error or a question, the URL that handler worked on,
\* so that the user can go on without sending it again (url_handler.py:111);
\* after a delivery or a cancellation, nothing.
LastWriterDecides ==
    \A t \in Tasks : lastWriter = t =>
        /\ verdict[t] \in {"failure", "timeout", "error", "choice"} =>
              session = url[t] /\ url[t] \in Urls
        /\ verdict[t] \in {"header", "article", "cancelled"} => session = NoUrl

\* However processing ends, a handler that is over and had asked the orchestrator
\* has deleted its "analysing" message or tried to (the finally clause), though
\* the apology before it may raise.  One that never asked has no such message, or
\* one it never learned of: Telegram posted it, and the reply of message.answer
\* (url_handler.py:114), which stands before the try, was lost.
StatusMessageGone ==
    \A t \in Tasks : pc[t] = "done" =>
        \/ status[t] \in {"deleted", "stuck"}
        \/ outcome[t] = "none" /\ status[t] \in {"none", "lost"}

\* Only an address some text message brought is ever processed: a button whose
\* address is gone from Redis is answered "session is stale" instead.
ProcessedUrlsWereSent ==
    \A t \in Tasks : pc[t] \in Processing =>
        \E s \in Tasks : source[s] = NoTask /\ url[s] = url[t] /\ url[s] \in Urls

\* Every update is handled to its end, though the orchestrator may hang for ever
\* (asyncio.timeout), unless the process dies.
EveryUpdateEnds ==
    \A t \in Tasks : pc[t] # "idle" ~> (pc[t] = "done" \/ t \in killed)

\* README.md:167: the retry button retains the original request context.
RetryProcessesItsRequest ==
    \A t \in Tasks :
        pc[t] \in Processing /\ source[t] # NoTask /\ keyboard[source[t]] = "retry"
        => url[t] = url[source[t]]

=============================================================================
