-------------------------------- MODULE Bot --------------------------------
(***************************************************************************)
(* The dialogue of one user together with the extraction it waits for.  The  *)
(* handlers are those of UrlHandler; in place of the orchestrator stands its *)
(* promise, Extraction, which the module Orchestrator is shown to keep: each *)
(* handler is a request of its own.  Handler and orchestrator meet in        *)
(* process_url_message: the call, its return and its cancellation.           *)
(***************************************************************************)
EXTENDS UrlHandler

CONSTANTS Articles, Fits(_, _)

VARIABLES
    asked,      \* Extraction: the URL each handler asked for
    reply,      \* Extraction: what it has to say to each handler
    extracted   \* Extraction: every article so far

Extractor == INSTANCE Extraction WITH Requests <- Tasks, None <- NoUrl

extraction == <<asked, reply, extracted>>
botVars == <<vars, extraction>>

BotInit == Init /\ Extractor!Init

Waiting(t) == At(t, "process")

-----------------------------------------------------------------------------
AskForSession(t) ==
    IF pc[t] = "announce" /\ pc'[t] = "process"
    THEN Extractor!Ask(t, IF session = NoUrl THEN url[t] ELSE session)
    ELSE UNCHANGED extraction

\* orchestrator.process_url(url, ...) with the handler's own url
AskForUrl(t) ==
    IF pc[t] = "announce" /\ pc'[t] = "process"
    THEN Extractor!Ask(t, url[t])
    ELSE UNCHANGED extraction

\* A step of a handler; announcing it is followed by the call.
Handle(t) == Step(t) /\ AskForUrl(t)

\* The orchestrator works on a request, and the handler waits.
Extract(t) ==
    /\ Waiting(t)
    /\ \/ \E a \in Articles :
             extracted' = extracted \cup {a} /\ Extractor!Extract(t)
       \/ Extractor!Answer(t)
       \/ Extractor!GiveUp(t) /\ reply'[t] = Extractor!Refused
    /\ UNCHANGED vars

\* request.article, or a request without one
Return(t) ==
    /\ Waiting(t) /\ reply[t] # Extractor!Pending
    /\ Answered(t)
    /\ outcome'[t] = "article" <=> reply[t].kind = "article"
    /\ UNCHANGED extraction

\* An exception that process_url does not turn into a request.
Raise(t) ==
    /\ Raised(t)
    /\ Extractor!GiveUp(t) /\ reply'[t] = Extractor!Refused

\* asyncio.timeout cancels the call; an answer that came at the same time is lost.
CancelCall(t) ==
    /\ Timeout(t)
    /\ IF Extractor!Open(t)
       THEN Extractor!GiveUp(t) /\ reply'[t] = Extractor!Cancelled
       ELSE UNCHANGED extraction

BotNext ==
    \/ \E t \in Tasks :
          \/ Receive(t) /\ UNCHANGED extraction
          \/ Handle(t) \/ Extract(t) \/ Return(t) \/ Raise(t) \/ CancelCall(t)
    \/ Crash /\ UNCHANGED extraction

\* As in UrlHandler: nothing makes the extraction end but the timeout.
BotFairness == \A t \in Tasks : WF_botVars(Handle(t)) /\ WF_botVars(CancelCall(t))

BotSpec == BotInit /\ [][BotNext]_botVars
FairBotSpec == BotSpec /\ BotFairness

-----------------------------------------------------------------------------
(* Properties *)

\* What a user is given for an address was extracted for a page that fits it,
\* although other handlers of the same user change the address in the FSM data
\* in the meantime.
DeliveredTextFits ==
    \A t \in Tasks : outcome[t] = "article" =>
        reply[t].kind = "article" /\ Fits(reply[t].article, url[t])
=============================================================================
