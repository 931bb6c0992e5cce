------------------------------ MODULE BotProofs ------------------------------
(***************************************************************************)
(* What holds of the dialogue for any number of updates, addresses and       *)
(* articles: first of UrlHandler alone, whatever the orchestrator answers,   *)
(* then of its composition with the extraction, Bot.  The composition is a   *)
(* dialogue, so that the theorems of the first part hold of it too; its own  *)
(* two invariants relate the state of a handler to that of its call.         *)
(*                                                                           *)
(* LastWriterDecides is not inductive: what a handler told the user says     *)
(* nothing about the handler that has not told anything yet.  Its            *)
(* strengthening ties the FSM datum to the stage of its last writer          *)
(* (Writer), and the stage of a handler to what it has told (Told).          *)
(***************************************************************************)
EXTENDS Bot, TLAPS

-----------------------------------------------------------------------------
(* The dialogue alone *)

\* From set_data to the decision about the outcome the datum is the URL ...
Holding == {"offer", "announce", "process", "apologise", "cleanup", "fail", "clear"}
\* ... and after state.clear() it is empty.
Emptied == {"publish", "link", "header", "chunks", "cancel_note"}

Told ==
    \A t \in Tasks :
        /\ pc[t] \notin {"cleanup", "chunks", "done"} => verdict[t] = "none"
        /\ pc[t] = "chunks" => verdict[t] = "header"
        /\ pc[t] = "apologise" => outcome[t] \in Apologies
        /\ pc[t] = "cleanup" =>
              \/ verdict[t] = "none"
              \/ verdict[t] \in Apologies /\ outcome[t] \in Apologies

Writer ==
    \A t \in Tasks : lastWriter = t =>
        /\ pc[t] \in Holding => session = url[t]
        /\ pc[t] \in Emptied => session = NoUrl

DialogueInv == TypeOK /\ Told /\ Writer /\ LastWriterDecides

\* A text message has brought u.
Sent(u) == \E s \in Tasks : pc[s] # "idle" /\ source[s] = NoTask /\ url[s] = u

\* Whatever address the FSM datum or a handler holds was sent.
AllSent ==
    /\ session \in Urls => Sent(session)
    /\ \A t \in Tasks : url[t] \in Urls => Sent(url[t])
    /\ \A t \in Tasks : pc[t] = "read" => source[t] # NoTask
    /\ \A t \in Tasks : pc[t] = "idle" => source[t] = NoTask

\* Where the "analysing" message is in sight of its handler, and only there, the
\* finally clause is still to come; and who has an outcome had the message.
StatusInv ==
    \A t \in Tasks :
        /\ status[t] = "shown" <=> pc[t] \in {"process", "apologise", "cleanup"}
        /\ pc[t] \in {"fail", "clear", "publish", "link", "header", "chunks"} =>
              status[t] \in {"deleted", "stuck"}
        /\ outcome[t] # "none" =>
              /\ pc[t] \in {"apologise", "cleanup", "fail", "clear", "publish", "link",
                            "header", "chunks", "done"}
              /\ status[t] \notin {"none", "lost"}

\* Every step keeps the types.
LEMMA TypeStep ==
    TypeOK /\ [Next]_vars => TypeOK'
<1> SUFFICES ASSUME TypeOK, [Next]_vars PROVE TypeOK'
  OBVIOUS
<1> USE HandlerAssumption
    DEF TypeOK, Stages, Processing, HasUrl, Fallible, Apologies, Outcomes, Verdicts, Statuses,
        At, Go, Tell, WriteSession, store, local, chat
<1>1. ASSUME NEW t \in Tasks, NEW u \in Urls, ReceiveLink(t, u)
      PROVE  TypeOK'
  BY <1>1 DEF ReceiveLink
<1>2. ASSUME NEW t \in Tasks, NEW s \in Tasks, Press(t, s)
      PROVE  TypeOK'
  BY <1>2 DEF Press
<1>3. ASSUME NEW t \in Tasks, NEW s \in Tasks, PressCancel(t, s)
      PROVE  TypeOK'
  BY <1>3 DEF PressCancel
<1>4. ASSUME NEW t \in Tasks, RejectText(t) PROVE TypeOK'
  BY <1>4 DEF RejectText
<1>5. ASSUME NEW t \in Tasks, StoreUrl(t) PROVE TypeOK'
  BY <1>5 DEF StoreUrl
<1>6. ASSUME NEW t \in Tasks, Offer(t) PROVE TypeOK'
  BY <1>6 DEF Offer
<1>7. ASSUME NEW t \in Tasks, Begin(t) PROVE TypeOK'
  BY <1>7 DEF Begin
<1>8. ASSUME NEW t \in Tasks, Announce(t) PROVE TypeOK'
  BY <1>8 DEF Announce
<1>9. ASSUME NEW t \in Tasks, Answered(t) PROVE TypeOK'
  BY <1>9 DEF Answered
<1>10. ASSUME NEW t \in Tasks, Raised(t) PROVE TypeOK'
  BY <1>10 DEF Raised
<1>11. ASSUME NEW t \in Tasks, Timeout(t) PROVE TypeOK'
  BY <1>11 DEF Timeout
<1>12. ASSUME NEW t \in Tasks, Apologise(t) PROVE TypeOK'
  BY <1>12 DEF Apologise
<1>13. ASSUME NEW t \in Tasks, Cleanup(t) PROVE TypeOK'
  BY <1>13 DEF Cleanup
<1>14. ASSUME NEW t \in Tasks, Fail(t) PROVE TypeOK'
  BY <1>14 DEF Fail
<1>15. ASSUME NEW t \in Tasks, Clear(t) PROVE TypeOK'
  BY <1>15 DEF Clear
<1>16. ASSUME NEW t \in Tasks, Publish(t) PROVE TypeOK'
  BY <1>16 DEF Publish
<1>17. ASSUME NEW t \in Tasks, Deliver(t) PROVE TypeOK'
  BY <1>17 DEF Deliver
<1>18. ASSUME NEW t \in Tasks, SendHeader(t) PROVE TypeOK'
  BY <1>18 DEF SendHeader
<1>19. ASSUME NEW t \in Tasks, ReadSession(t) PROVE TypeOK'
  BY <1>19 DEF ReadSession
<1>20. ASSUME NEW t \in Tasks, TellStale(t) PROVE TypeOK'
  BY <1>20 DEF TellStale
<1>21. ASSUME NEW t \in Tasks, Acknowledge(t) PROVE TypeOK'
  BY <1>21 DEF Acknowledge
<1>22. ASSUME NEW t \in Tasks, CancelClear(t) PROVE TypeOK'
  BY <1>22 DEF CancelClear
<1>23. ASSUME NEW t \in Tasks, CancelNote(t) PROVE TypeOK'
  BY <1>23 DEF CancelNote
<1>24. ASSUME NEW t \in Tasks, Abort(t) PROVE TypeOK'
  BY <1>24 DEF Abort
<1>25. ASSUME NEW t \in Tasks, AbortLate(t) PROVE TypeOK'
  BY <1>25 DEF AbortLate
<1>26. CASE Crash
  BY <1>26 DEF Crash
<1>27. CASE UNCHANGED vars
  BY <1>27 DEF vars
<1> QED
  BY <1>1, <1>2, <1>3, <1>4, <1>5, <1>6, <1>7, <1>8, <1>9, <1>10, <1>11,
     <1>12, <1>13, <1>14, <1>15, <1>16, <1>17, <1>18, <1>19, <1>20, <1>21,
     <1>22, <1>23, <1>24, <1>25, <1>26, <1>27 DEF Next, Receive, Step

\* Every step keeps what a stage says of the user's knowledge.
LEMMA ToldStep ==
    TypeOK /\ Told /\ [Next]_vars => Told'
<1> SUFFICES ASSUME TypeOK /\ Told, [Next]_vars PROVE Told'
  OBVIOUS
<1> USE HandlerAssumption
    DEF TypeOK, Told, Stages, Processing, HasUrl, Fallible, Apologies, Outcomes, Verdicts,
        Statuses, At, Go, Tell, WriteSession, store, local, chat
<1>1. ASSUME NEW t \in Tasks, NEW u \in Urls, ReceiveLink(t, u)
      PROVE  Told'
  BY <1>1 DEF ReceiveLink
<1>2. ASSUME NEW t \in Tasks, NEW s \in Tasks, Press(t, s)
      PROVE  Told'
  BY <1>2 DEF Press
<1>3. ASSUME NEW t \in Tasks, NEW s \in Tasks, PressCancel(t, s)
      PROVE  Told'
  BY <1>3 DEF PressCancel
<1>4. ASSUME NEW t \in Tasks, RejectText(t) PROVE Told'
  BY <1>4 DEF RejectText
<1>5. ASSUME NEW t \in Tasks, StoreUrl(t) PROVE Told'
  BY <1>5 DEF StoreUrl
<1>6. ASSUME NEW t \in Tasks, Offer(t) PROVE Told'
  BY <1>6 DEF Offer
<1>7. ASSUME NEW t \in Tasks, Begin(t) PROVE Told'
  BY <1>7 DEF Begin
<1>8. ASSUME NEW t \in Tasks, Announce(t) PROVE Told'
  BY <1>8 DEF Announce
<1>9. ASSUME NEW t \in Tasks, Answered(t) PROVE Told'
  BY <1>9 DEF Answered
<1>10. ASSUME NEW t \in Tasks, Raised(t) PROVE Told'
  BY <1>10 DEF Raised
<1>11. ASSUME NEW t \in Tasks, Timeout(t) PROVE Told'
  BY <1>11 DEF Timeout
<1>12. ASSUME NEW t \in Tasks, Apologise(t) PROVE Told'
  BY <1>12 DEF Apologise
<1>13. ASSUME NEW t \in Tasks, Cleanup(t) PROVE Told'
  BY <1>13 DEF Cleanup
<1>14. ASSUME NEW t \in Tasks, Fail(t) PROVE Told'
  BY <1>14 DEF Fail
<1>15. ASSUME NEW t \in Tasks, Clear(t) PROVE Told'
  BY <1>15 DEF Clear
<1>16. ASSUME NEW t \in Tasks, Publish(t) PROVE Told'
  BY <1>16 DEF Publish
<1>17. ASSUME NEW t \in Tasks, Deliver(t) PROVE Told'
  BY <1>17 DEF Deliver
<1>18. ASSUME NEW t \in Tasks, SendHeader(t) PROVE Told'
  BY <1>18 DEF SendHeader
<1>19. ASSUME NEW t \in Tasks, ReadSession(t) PROVE Told'
  BY <1>19 DEF ReadSession
<1>20. ASSUME NEW t \in Tasks, TellStale(t) PROVE Told'
  BY <1>20 DEF TellStale
<1>21. ASSUME NEW t \in Tasks, Acknowledge(t) PROVE Told'
  BY <1>21 DEF Acknowledge
<1>22. ASSUME NEW t \in Tasks, CancelClear(t) PROVE Told'
  BY <1>22 DEF CancelClear
<1>23. ASSUME NEW t \in Tasks, CancelNote(t) PROVE Told'
  BY <1>23 DEF CancelNote
<1>24. ASSUME NEW t \in Tasks, Abort(t) PROVE Told'
  BY <1>24 DEF Abort
<1>25. ASSUME NEW t \in Tasks, AbortLate(t) PROVE Told'
  BY <1>25 DEF AbortLate
<1>26. CASE Crash
  BY <1>26 DEF Crash
<1>27. CASE UNCHANGED vars
  BY <1>27 DEF vars
<1> QED
  BY <1>1, <1>2, <1>3, <1>4, <1>5, <1>6, <1>7, <1>8, <1>9, <1>10, <1>11,
     <1>12, <1>13, <1>14, <1>15, <1>16, <1>17, <1>18, <1>19, <1>20, <1>21,
     <1>22, <1>23, <1>24, <1>25, <1>26, <1>27 DEF Next, Receive, Step

\* Every step keeps the datum what its last writer owes the user.
LEMMA OwedStep ==
    DialogueInv /\ [Next]_vars => (Writer /\ LastWriterDecides)'
<1> SUFFICES ASSUME DialogueInv, [Next]_vars PROVE (Writer /\ LastWriterDecides)'
  OBVIOUS
<1> USE HandlerAssumption
    DEF DialogueInv, TypeOK, Told, Writer, LastWriterDecides, Holding, Emptied, Stages,
        Processing, HasUrl, Fallible, Apologies, Outcomes, Verdicts, Statuses, At, Go, Tell,
        WriteSession, store, local, chat
<1>1. ASSUME NEW t \in Tasks, NEW u \in Urls, ReceiveLink(t, u)
      PROVE  (Writer /\ LastWriterDecides)'
  BY <1>1 DEF ReceiveLink
<1>2. ASSUME NEW t \in Tasks, NEW s \in Tasks, Press(t, s)
      PROVE  (Writer /\ LastWriterDecides)'
  BY <1>2 DEF Press
<1>3. ASSUME NEW t \in Tasks, NEW s \in Tasks, PressCancel(t, s)
      PROVE  (Writer /\ LastWriterDecides)'
  BY <1>3 DEF PressCancel
<1>4. ASSUME NEW t \in Tasks, RejectText(t) PROVE (Writer /\ LastWriterDecides)'
  BY <1>4 DEF RejectText
<1>5. ASSUME NEW t \in Tasks, StoreUrl(t) PROVE (Writer /\ LastWriterDecides)'
  BY <1>5 DEF StoreUrl
<1>6. ASSUME NEW t \in Tasks, Offer(t) PROVE (Writer /\ LastWriterDecides)'
  BY <1>6 DEF Offer
<1>7. ASSUME NEW t \in Tasks, Begin(t) PROVE (Writer /\ LastWriterDecides)'
  BY <1>7 DEF Begin
<1>8. ASSUME NEW t \in Tasks, Announce(t) PROVE (Writer /\ LastWriterDecides)'
  BY <1>8 DEF Announce
<1>9. ASSUME NEW t \in Tasks, Answered(t) PROVE (Writer /\ LastWriterDecides)'
  BY <1>9 DEF Answered
<1>10. ASSUME NEW t \in Tasks, Raised(t) PROVE (Writer /\ LastWriterDecides)'
  BY <1>10 DEF Raised
<1>11. ASSUME NEW t \in Tasks, Timeout(t) PROVE (Writer /\ LastWriterDecides)'
  BY <1>11 DEF Timeout
<1>12. ASSUME NEW t \in Tasks, Apologise(t) PROVE (Writer /\ LastWriterDecides)'
  BY <1>12 DEF Apologise
<1>13. ASSUME NEW t \in Tasks, Cleanup(t) PROVE (Writer /\ LastWriterDecides)'
  BY <1>13 DEF Cleanup
<1>14. ASSUME NEW t \in Tasks, Fail(t) PROVE (Writer /\ LastWriterDecides)'
  BY <1>14 DEF Fail
<1>15. ASSUME NEW t \in Tasks, Clear(t) PROVE (Writer /\ LastWriterDecides)'
  BY <1>15 DEF Clear
<1>16. ASSUME NEW t \in Tasks, Publish(t) PROVE (Writer /\ LastWriterDecides)'
  BY <1>16 DEF Publish
<1>17. ASSUME NEW t \in Tasks, Deliver(t) PROVE (Writer /\ LastWriterDecides)'
  BY <1>17 DEF Deliver
<1>18. ASSUME NEW t \in Tasks, SendHeader(t) PROVE (Writer /\ LastWriterDecides)'
  BY <1>18 DEF SendHeader
<1>19. ASSUME NEW t \in Tasks, ReadSession(t) PROVE (Writer /\ LastWriterDecides)'
  BY <1>19 DEF ReadSession
<1>20. ASSUME NEW t \in Tasks, TellStale(t) PROVE (Writer /\ LastWriterDecides)'
  BY <1>20 DEF TellStale
<1>21. ASSUME NEW t \in Tasks, Acknowledge(t) PROVE (Writer /\ LastWriterDecides)'
  BY <1>21 DEF Acknowledge
<1>22. ASSUME NEW t \in Tasks, CancelClear(t) PROVE (Writer /\ LastWriterDecides)'
  BY <1>22 DEF CancelClear
<1>23. ASSUME NEW t \in Tasks, CancelNote(t) PROVE (Writer /\ LastWriterDecides)'
  BY <1>23 DEF CancelNote
<1>24. ASSUME NEW t \in Tasks, Abort(t) PROVE (Writer /\ LastWriterDecides)'
  BY <1>24 DEF Abort
<1>25. ASSUME NEW t \in Tasks, AbortLate(t) PROVE (Writer /\ LastWriterDecides)'
  BY <1>25 DEF AbortLate
<1>26. CASE Crash
  BY <1>26 DEF Crash
<1>27. CASE UNCHANGED vars
  BY <1>27 DEF vars
<1> QED
  BY <1>1, <1>2, <1>3, <1>4, <1>5, <1>6, <1>7, <1>8, <1>9, <1>10, <1>11,
     <1>12, <1>13, <1>14, <1>15, <1>16, <1>17, <1>18, <1>19, <1>20, <1>21,
     <1>22, <1>23, <1>24, <1>25, <1>26, <1>27 DEF Next, Receive, Step

\* Every step keeps the finally clause ahead of a visible status message.
LEMMA StatusStep ==
    TypeOK /\ StatusInv /\ [Next]_vars => StatusInv'
<1> SUFFICES ASSUME TypeOK /\ StatusInv, [Next]_vars PROVE StatusInv'
  OBVIOUS
<1> USE HandlerAssumption
    DEF TypeOK, StatusInv, Stages, Processing, HasUrl, Fallible, Apologies, Outcomes, Verdicts,
        Statuses, At, Go, Tell, WriteSession, store, local, chat
<1>1. ASSUME NEW t \in Tasks, NEW u \in Urls, ReceiveLink(t, u)
      PROVE  StatusInv'
  BY <1>1 DEF ReceiveLink
<1>2. ASSUME NEW t \in Tasks, NEW s \in Tasks, Press(t, s)
      PROVE  StatusInv'
  BY <1>2 DEF Press
<1>3. ASSUME NEW t \in Tasks, NEW s \in Tasks, PressCancel(t, s)
      PROVE  StatusInv'
  BY <1>3 DEF PressCancel
<1>4. ASSUME NEW t \in Tasks, RejectText(t) PROVE StatusInv'
  BY <1>4 DEF RejectText
<1>5. ASSUME NEW t \in Tasks, StoreUrl(t) PROVE StatusInv'
  BY <1>5 DEF StoreUrl
<1>6. ASSUME NEW t \in Tasks, Offer(t) PROVE StatusInv'
  BY <1>6 DEF Offer
<1>7. ASSUME NEW t \in Tasks, Begin(t) PROVE StatusInv'
  BY <1>7 DEF Begin
<1>8. ASSUME NEW t \in Tasks, Announce(t) PROVE StatusInv'
  BY <1>8 DEF Announce
<1>9. ASSUME NEW t \in Tasks, Answered(t) PROVE StatusInv'
  BY <1>9 DEF Answered
<1>10. ASSUME NEW t \in Tasks, Raised(t) PROVE StatusInv'
  BY <1>10 DEF Raised
<1>11. ASSUME NEW t \in Tasks, Timeout(t) PROVE StatusInv'
  BY <1>11 DEF Timeout
<1>12. ASSUME NEW t \in Tasks, Apologise(t) PROVE StatusInv'
  BY <1>12 DEF Apologise
<1>13. ASSUME NEW t \in Tasks, Cleanup(t) PROVE StatusInv'
  BY <1>13 DEF Cleanup
<1>14. ASSUME NEW t \in Tasks, Fail(t) PROVE StatusInv'
  BY <1>14 DEF Fail
<1>15. ASSUME NEW t \in Tasks, Clear(t) PROVE StatusInv'
  BY <1>15 DEF Clear
<1>16. ASSUME NEW t \in Tasks, Publish(t) PROVE StatusInv'
  BY <1>16 DEF Publish
<1>17. ASSUME NEW t \in Tasks, Deliver(t) PROVE StatusInv'
  BY <1>17 DEF Deliver
<1>18. ASSUME NEW t \in Tasks, SendHeader(t) PROVE StatusInv'
  BY <1>18 DEF SendHeader
<1>19. ASSUME NEW t \in Tasks, ReadSession(t) PROVE StatusInv'
  BY <1>19 DEF ReadSession
<1>20. ASSUME NEW t \in Tasks, TellStale(t) PROVE StatusInv'
  BY <1>20 DEF TellStale
<1>21. ASSUME NEW t \in Tasks, Acknowledge(t) PROVE StatusInv'
  BY <1>21 DEF Acknowledge
<1>22. ASSUME NEW t \in Tasks, CancelClear(t) PROVE StatusInv'
  BY <1>22 DEF CancelClear
<1>23. ASSUME NEW t \in Tasks, CancelNote(t) PROVE StatusInv'
  BY <1>23 DEF CancelNote
<1>24. ASSUME NEW t \in Tasks, Abort(t) PROVE StatusInv'
  BY <1>24 DEF Abort
<1>25. ASSUME NEW t \in Tasks, AbortLate(t) PROVE StatusInv'
  BY <1>25 DEF AbortLate
<1>26. CASE Crash
  BY <1>26 DEF Crash
<1>27. CASE UNCHANGED vars
  BY <1>27 DEF vars
<1> QED
  BY <1>1, <1>2, <1>3, <1>4, <1>5, <1>6, <1>7, <1>8, <1>9, <1>10, <1>11,
     <1>12, <1>13, <1>14, <1>15, <1>16, <1>17, <1>18, <1>19, <1>20, <1>21,
     <1>22, <1>23, <1>24, <1>25, <1>26, <1>27 DEF Next, Receive, Step

\* A URL that was sent stays sent: only an idle handler and a callback that reads
\* the datum change their url, and a callback never stood for the message.
LEMMA SentKept ==
    TypeOK /\ AllSent /\ [Next]_vars => (\A v \in Urls : Sent(v) => Sent(v)')
<1> SUFFICES ASSUME TypeOK /\ AllSent, [Next]_vars PROVE (\A v \in Urls : Sent(v) => Sent(v)')
  OBVIOUS
<1> USE HandlerAssumption
    DEF TypeOK, AllSent, Sent, Stages, Processing, HasUrl, Fallible, Apologies, Outcomes,
        Verdicts, Statuses, At, Go, Tell, WriteSession, store, local, chat
<1>1. ASSUME NEW t \in Tasks, NEW u \in Urls, ReceiveLink(t, u)
      PROVE  (\A v \in Urls : Sent(v) => Sent(v)')
  BY <1>1 DEF ReceiveLink
<1>2. ASSUME NEW t \in Tasks, NEW s \in Tasks, Press(t, s)
      PROVE  (\A v \in Urls : Sent(v) => Sent(v)')
  BY <1>2 DEF Press
<1>3. ASSUME NEW t \in Tasks, NEW s \in Tasks, PressCancel(t, s)
      PROVE  (\A v \in Urls : Sent(v) => Sent(v)')
  BY <1>3 DEF PressCancel
<1>4. ASSUME NEW t \in Tasks, RejectText(t) PROVE (\A v \in Urls : Sent(v) => Sent(v)')
  BY <1>4 DEF RejectText
<1>5. ASSUME NEW t \in Tasks, StoreUrl(t) PROVE (\A v \in Urls : Sent(v) => Sent(v)')
  BY <1>5 DEF StoreUrl
<1>6. ASSUME NEW t \in Tasks, Offer(t) PROVE (\A v \in Urls : Sent(v) => Sent(v)')
  BY <1>6 DEF Offer
<1>7. ASSUME NEW t \in Tasks, Begin(t) PROVE (\A v \in Urls : Sent(v) => Sent(v)')
  BY <1>7 DEF Begin
<1>8. ASSUME NEW t \in Tasks, Announce(t) PROVE (\A v \in Urls : Sent(v) => Sent(v)')
  BY <1>8 DEF Announce
<1>9. ASSUME NEW t \in Tasks, Answered(t) PROVE (\A v \in Urls : Sent(v) => Sent(v)')
  BY <1>9 DEF Answered
<1>10. ASSUME NEW t \in Tasks, Raised(t) PROVE (\A v \in Urls : Sent(v) => Sent(v)')
  BY <1>10 DEF Raised
<1>11. ASSUME NEW t \in Tasks, Timeout(t) PROVE (\A v \in Urls : Sent(v) => Sent(v)')
  BY <1>11 DEF Timeout
<1>12. ASSUME NEW t \in Tasks, Apologise(t) PROVE (\A v \in Urls : Sent(v) => Sent(v)')
  BY <1>12 DEF Apologise
<1>13. ASSUME NEW t \in Tasks, Cleanup(t) PROVE (\A v \in Urls : Sent(v) => Sent(v)')
  BY <1>13 DEF Cleanup
<1>14. ASSUME NEW t \in Tasks, Fail(t) PROVE (\A v \in Urls : Sent(v) => Sent(v)')
  BY <1>14 DEF Fail
<1>15. ASSUME NEW t \in Tasks, Clear(t) PROVE (\A v \in Urls : Sent(v) => Sent(v)')
  BY <1>15 DEF Clear
<1>16. ASSUME NEW t \in Tasks, Publish(t) PROVE (\A v \in Urls : Sent(v) => Sent(v)')
  BY <1>16 DEF Publish
<1>17. ASSUME NEW t \in Tasks, Deliver(t) PROVE (\A v \in Urls : Sent(v) => Sent(v)')
  BY <1>17 DEF Deliver
<1>18. ASSUME NEW t \in Tasks, SendHeader(t) PROVE (\A v \in Urls : Sent(v) => Sent(v)')
  BY <1>18 DEF SendHeader
<1>19. ASSUME NEW t \in Tasks, ReadSession(t) PROVE (\A v \in Urls : Sent(v) => Sent(v)')
  BY <1>19 DEF ReadSession
<1>20. ASSUME NEW t \in Tasks, TellStale(t) PROVE (\A v \in Urls : Sent(v) => Sent(v)')
  BY <1>20 DEF TellStale
<1>21. ASSUME NEW t \in Tasks, Acknowledge(t) PROVE (\A v \in Urls : Sent(v) => Sent(v)')
  BY <1>21 DEF Acknowledge
<1>22. ASSUME NEW t \in Tasks, CancelClear(t) PROVE (\A v \in Urls : Sent(v) => Sent(v)')
  BY <1>22 DEF CancelClear
<1>23. ASSUME NEW t \in Tasks, CancelNote(t) PROVE (\A v \in Urls : Sent(v) => Sent(v)')
  BY <1>23 DEF CancelNote
<1>24. ASSUME NEW t \in Tasks, Abort(t) PROVE (\A v \in Urls : Sent(v) => Sent(v)')
  BY <1>24 DEF Abort
<1>25. ASSUME NEW t \in Tasks, AbortLate(t) PROVE (\A v \in Urls : Sent(v) => Sent(v)')
  BY <1>25 DEF AbortLate
<1>26. CASE Crash
  BY <1>26 DEF Crash
<1>27. CASE UNCHANGED vars
  BY <1>27 DEF vars
<1> QED
  BY <1>1, <1>2, <1>3, <1>4, <1>5, <1>6, <1>7, <1>8, <1>9, <1>10, <1>11,
     <1>12, <1>13, <1>14, <1>15, <1>16, <1>17, <1>18, <1>19, <1>20, <1>21,
     <1>22, <1>23, <1>24, <1>25, <1>26, <1>27 DEF Next, Receive, Step

\* Every step keeps every address in use one that was sent.
LEMMA SentStep ==
    TypeOK /\ AllSent /\ [Next]_vars => AllSent'
<1> SUFFICES ASSUME TypeOK /\ AllSent, [Next]_vars PROVE AllSent'
  OBVIOUS
<1>0. \A v \in Urls : Sent(v) => Sent(v)'
  BY SentKept
<1> USE <1>0, HandlerAssumption
    DEF TypeOK, AllSent, Stages, Processing, HasUrl, Fallible, Apologies, Outcomes, Verdicts,
        Statuses, At, Go, Tell, WriteSession, store, local, chat
<1>1. ASSUME NEW t \in Tasks, NEW u \in Urls, ReceiveLink(t, u)
      PROVE  AllSent'
  <2>1. Sent(u)'
    BY <1>1 DEF ReceiveLink, Sent
  <2> QED
    BY <1>1, <2>1 DEF ReceiveLink
<1>2. ASSUME NEW t \in Tasks, NEW s \in Tasks, Press(t, s)
      PROVE  AllSent'
  BY <1>2 DEF Press
<1>3. ASSUME NEW t \in Tasks, NEW s \in Tasks, PressCancel(t, s)
      PROVE  AllSent'
  BY <1>3 DEF PressCancel
<1>4. ASSUME NEW t \in Tasks, RejectText(t) PROVE AllSent'
  BY <1>4 DEF RejectText
<1>5. ASSUME NEW t \in Tasks, StoreUrl(t) PROVE AllSent'
  BY <1>5 DEF StoreUrl
<1>6. ASSUME NEW t \in Tasks, Offer(t) PROVE AllSent'
  BY <1>6 DEF Offer
<1>7. ASSUME NEW t \in Tasks, Begin(t) PROVE AllSent'
  BY <1>7 DEF Begin
<1>8. ASSUME NEW t \in Tasks, Announce(t) PROVE AllSent'
  BY <1>8 DEF Announce
<1>9. ASSUME NEW t \in Tasks, Answered(t) PROVE AllSent'
  BY <1>9 DEF Answered
<1>10. ASSUME NEW t \in Tasks, Raised(t) PROVE AllSent'
  BY <1>10 DEF Raised
<1>11. ASSUME NEW t \in Tasks, Timeout(t) PROVE AllSent'
  BY <1>11 DEF Timeout
<1>12. ASSUME NEW t \in Tasks, Apologise(t) PROVE AllSent'
  BY <1>12 DEF Apologise
<1>13. ASSUME NEW t \in Tasks, Cleanup(t) PROVE AllSent'
  BY <1>13 DEF Cleanup
<1>14. ASSUME NEW t \in Tasks, Fail(t) PROVE AllSent'
  BY <1>14 DEF Fail
<1>15. ASSUME NEW t \in Tasks, Clear(t) PROVE AllSent'
  BY <1>15 DEF Clear
<1>16. ASSUME NEW t \in Tasks, Publish(t) PROVE AllSent'
  BY <1>16 DEF Publish
<1>17. ASSUME NEW t \in Tasks, Deliver(t) PROVE AllSent'
  BY <1>17 DEF Deliver
<1>18. ASSUME NEW t \in Tasks, SendHeader(t) PROVE AllSent'
  BY <1>18 DEF SendHeader
<1>19. ASSUME NEW t \in Tasks, ReadSession(t) PROVE AllSent'
  BY <1>19 DEF ReadSession
<1>20. ASSUME NEW t \in Tasks, TellStale(t) PROVE AllSent'
  BY <1>20 DEF TellStale
<1>21. ASSUME NEW t \in Tasks, Acknowledge(t) PROVE AllSent'
  BY <1>21 DEF Acknowledge
<1>22. ASSUME NEW t \in Tasks, CancelClear(t) PROVE AllSent'
  BY <1>22 DEF CancelClear
<1>23. ASSUME NEW t \in Tasks, CancelNote(t) PROVE AllSent'
  BY <1>23 DEF CancelNote
<1>24. ASSUME NEW t \in Tasks, Abort(t) PROVE AllSent'
  BY <1>24 DEF Abort
<1>25. ASSUME NEW t \in Tasks, AbortLate(t) PROVE AllSent'
  BY <1>25 DEF AbortLate
<1>26. CASE Crash
  BY <1>26 DEF Crash
<1>27. CASE UNCHANGED vars
  BY <1>27 DEF vars
<1> QED
  BY <1>1, <1>2, <1>3, <1>4, <1>5, <1>6, <1>7, <1>8, <1>9, <1>10, <1>11,
     <1>12, <1>13, <1>14, <1>15, <1>16, <1>17, <1>18, <1>19, <1>20, <1>21,
     <1>22, <1>23, <1>24, <1>25, <1>26, <1>27 DEF Next, Receive, Step

\* Init and the steps together: the strengthened invariant always holds.
THEOREM DialogueInvariant == Spec => []DialogueInv
<1>1. Init => DialogueInv
  BY HandlerAssumption DEF Init, DialogueInv, TypeOK, Told, Writer, LastWriterDecides,
     Stages, Processing, HasUrl, Apologies, Outcomes, Verdicts, Statuses
<1>2. DialogueInv /\ [Next]_vars => DialogueInv'
  BY TypeStep, ToldStep, OwedStep DEF DialogueInv
<1> QED
  BY <1>1, <1>2, PTL DEF Spec

\* The types of the state, for every number of updates and URLs.
THEOREM TypeCorrect == Spec => []TypeOK
<1>1. DialogueInv => TypeOK
  BY DEF DialogueInv
<1> QED
  BY <1>1, DialogueInvariant, PTL

\* The FSM datum is what its last writer owes the user: handle_message,
\* process_url_message and the callbacks, interleaved in any way.
THEOREM LastWriterInvariant == Spec => []LastWriterDecides
<1>1. DialogueInv => LastWriterDecides
  BY DEF DialogueInv
<1> QED
  BY <1>1, DialogueInvariant, PTL

\* No handler that asked the orchestrator ends with its "analysing" message shown
\* and untouched: the finally clause of process_url_message.
THEOREM StatusGone == Spec => []StatusMessageGone
<1>1. Init => StatusInv
  BY DEF Init, StatusInv
<1>2. TypeOK /\ StatusInv /\ [Next]_vars => StatusInv'
  BY StatusStep
<1>3. TypeOK /\ StatusInv => StatusMessageGone
  BY DEF TypeOK, Statuses, StatusInv, StatusMessageGone
<1> QED
  BY <1>1, <1>2, <1>3, TypeCorrect, PTL DEF Spec

\* Whatever is processed was sent in a text message, though callbacks take it
\* from a datum that every handler of the user may write.
THEOREM OnlySentUrls == Spec => []ProcessedUrlsWereSent
<1>1. Init => AllSent
  BY HandlerAssumption DEF Init, AllSent
<1>2. TypeOK /\ AllSent /\ [Next]_vars => AllSent'
  BY SentStep
<1>3. TypeOK /\ AllSent => ProcessedUrlsWereSent
  BY HandlerAssumption DEF TypeOK, AllSent, Sent, ProcessedUrlsWereSent, HasUrl
<1> QED
  BY <1>1, <1>2, <1>3, TypeCorrect, PTL DEF Spec

-----------------------------------------------------------------------------
(* The composition *)

\* Stages before the call of the orchestrator, and of handlers that make none.
Early == {"idle", "store", "offer", "begin", "announce", "read", "stale", "ack",
          "cancel", "cancel_note"}

Replies == {Extractor!Pending, Extractor!Refused, Extractor!Cancelled}
           \cup {Extractor!With(a) : a \in Articles}

ExtractionTypes ==
    /\ asked \in [Tasks -> Urls \cup {NoUrl}]
    /\ reply \in [Tasks -> Replies]
    /\ extracted \subseteq Articles

\* A call is made with the address the handler has and keeps; its reply fits.
CallOf(t) ==
    /\ pc[t] \in Early => asked[t] = NoUrl
    /\ asked[t] # NoUrl => asked[t] = url[t]
    /\ pc[t] = "process" => asked[t] # NoUrl
    /\ reply[t].kind = "article" => asked[t] # NoUrl /\ Fits(reply[t].article, asked[t])
    /\ outcome[t] = "article" => reply[t].kind = "article"

CallInv == ExtractionTypes /\ \A t \in Tasks : CallOf(t)

\* What a step of a handler may do to its stage and to its locals.
LEMMA HandlerStep ==
    ASSUME TypeOK, NEW t \in Tasks, Receive(t) \/ Step(t)
    PROVE  /\ killed' = killed /\ outcome' = outcome
           /\ \A s \in Tasks \ {t} : pc'[s] = pc[s] /\ url'[s] = url[s]
           /\ url'[t] # url[t] => pc[t] \in {"idle", "read"}
           /\ pc[t] # "process" /\ t \notin killed
           /\ pc'[t] = "process" => pc[t] = "announce"
           /\ pc'[t] \in Early => pc[t] \in Early
           /\ url'[t] # url[t] => pc'[t] \in Early
<1> DEFINE Facts == /\ killed' = killed /\ outcome' = outcome
                    /\ \A s \in Tasks \ {t} : pc'[s] = pc[s] /\ url'[s] = url[s]
                    /\ url'[t] # url[t] => pc[t] \in {"idle", "read"}
                    /\ pc[t] # "process" /\ t \notin killed
                    /\ pc'[t] = "process" => pc[t] = "announce"
                    /\ pc'[t] \in Early => pc[t] \in Early
                    /\ url'[t] # url[t] => pc'[t] \in Early
<1> USE DEF TypeOK, At, Go, Tell, WriteSession, store, local, chat, Early
<1>1. ASSUME Receive(t) PROVE Facts
  BY <1>1 DEF Receive, RejectText, ReceiveLink, Press, PressCancel
<1>2. ASSUME StoreUrl(t) \/ Offer(t) \/ Begin(t) \/ Announce(t) \/ Apologise(t) PROVE Facts
  BY <1>2 DEF StoreUrl, Offer, Begin, Announce, Apologise
<1>3. ASSUME Cleanup(t) \/ Fail(t) \/ Clear(t) \/ Publish(t) PROVE Facts
  BY <1>3 DEF Cleanup, Fail, Clear, Publish
<1>4. ASSUME Deliver(t) \/ SendHeader(t) \/ ReadSession(t) \/ TellStale(t) PROVE Facts
  BY <1>4 DEF Deliver, SendHeader, ReadSession, TellStale
<1>5. ASSUME Acknowledge(t) \/ CancelClear(t) \/ CancelNote(t) PROVE Facts
  BY <1>5 DEF Acknowledge, CancelClear, CancelNote
<1>6. ASSUME Abort(t) \/ AbortLate(t) PROVE Facts
  BY <1>6 DEF Abort, AbortLate, Fallible
<1> QED
  BY <1>1, <1>2, <1>3, <1>4, <1>5, <1>6 DEF Step

\* Each step of the composition is one of the dialogue, or leaves it alone.
LEMMA DialogueSteps == [BotNext]_botVars => [Next]_vars
<1>1. BotNext => [Next]_vars
  BY DEF BotNext, Handle, Extract, Return, Raise, CancelCall, Next
<1> QED
  BY <1>1 DEF botVars

\* The composition is a dialogue: the theorems above hold of it.
THEOREM BotIsADialogue == BotSpec => Spec
<1>1. BotInit => Init
  BY DEF BotInit
<1> QED
  BY <1>1, DialogueSteps, PTL DEF BotSpec, Spec

\* Handlers ask, extraction answers, one or the other cancels: nothing happens to
\* a request that Extraction does not allow.
THEOREM BotUsesExtraction == BotSpec => Extractor!Spec
<1>1. BotInit => Extractor!Init
  BY DEF BotInit
<1>2. TypeOK /\ [BotNext]_botVars => [Extractor!Next]_(Extractor!vars)
  <2> SUFFICES ASSUME TypeOK, [BotNext]_botVars
               PROVE  [Extractor!Next]_(Extractor!vars)
    OBVIOUS
  <2> USE DEF Extractor!Next, Extractor!vars, extraction
  <2>1. ASSUME NEW t \in Tasks, Handle(t)
        PROVE  [Extractor!Next]_(Extractor!vars)
    <3>1. CASE pc[t] = "announce" /\ pc'[t] = "process"
      <4>1. Extractor!Ask(t, url[t]) /\ url[t] \in Urls
        BY <2>1, <3>1 DEF Handle, AskForUrl, TypeOK, HasUrl, Processing
      <4> QED
        BY <4>1
    <3>2. CASE ~(pc[t] = "announce" /\ pc'[t] = "process")
      BY <2>1, <3>2 DEF Handle, AskForUrl
    <3> QED
      BY <3>1, <3>2
  <2>2. ASSUME NEW t \in Tasks, Extract(t)
        PROVE  [Extractor!Next]_(Extractor!vars)
    BY <2>2 DEF Extract
  <2>3. ASSUME NEW t \in Tasks, Raise(t) \/ CancelCall(t)
        PROVE  [Extractor!Next]_(Extractor!vars)
    BY <2>3 DEF Raise, CancelCall
  <2>4. ASSUME UNCHANGED extraction
        PROVE  [Extractor!Next]_(Extractor!vars)
    BY <2>4
  <2> QED
    BY <2>1, <2>2, <2>3, <2>4 DEF BotNext, Return, botVars
<1> QED
  BY <1>1, <1>2, BotIsADialogue, TypeCorrect, PTL DEF BotSpec, Extractor!Spec

\* A task whose handler and call are left alone keeps its facts.
Same(s) ==
    /\ pc'[s] = pc[s] /\ url'[s] = url[s] /\ outcome'[s] = outcome[s]
    /\ asked'[s] = asked[s] /\ reply'[s] = reply[s]
    /\ s \in killed => s \in killed'

LEMMA SameCall == ASSUME NEW s \in Tasks, CallOf(s), Same(s) PROVE CallOf(s)'
BY DEF CallOf, Same, Extractor!Open, Extractor!Pending

\* A step of a handler, with the call unless it is the step that makes it.
LEMMA HandleKeepsCalls ==
    ASSUME TypeOK, CallInv, NEW t \in Tasks, Receive(t) \/ Step(t),
           pc'[t] = "process" => asked' = [asked EXCEPT ![t] = url[t]] /\ url[t] \in Urls,
           pc'[t] # "process" => UNCHANGED asked,
           UNCHANGED <<reply, extracted>>
    PROVE  CallInv'
<1>1. /\ killed' = killed /\ outcome' = outcome
      /\ \A s \in Tasks \ {t} : pc'[s] = pc[s] /\ url'[s] = url[s]
      /\ url'[t] # url[t] => pc[t] \in {"idle", "read"}
      /\ pc[t] # "process" /\ t \notin killed
      /\ pc'[t] = "process" => pc[t] = "announce"
      /\ pc'[t] \in Early => pc[t] \in Early
  BY HandlerStep
<1>2. asked \in [Tasks -> Urls \cup {NoUrl}] /\ CallOf(t) /\ ExtractionTypes
  BY DEF CallInv, ExtractionTypes
<1>3. ExtractionTypes'
  BY <1>2 DEF ExtractionTypes, Replies, Extractor!Pending, Extractor!Refused,
     Extractor!Cancelled, Extractor!With
<1>4. \A s \in Tasks \ {t} : CallOf(s)'
  <2> SUFFICES ASSUME NEW s \in Tasks \ {t} PROVE CallOf(s)'
    OBVIOUS
  <2>1. asked'[s] = asked[s]
    BY <1>2
  <2>2. Same(s)
    BY <1>1, <2>1 DEF Same
  <2> QED
    BY <2>2, SameCall DEF CallInv
<1>5. CallOf(t)'
  <2>1. CASE pc'[t] = "process"
    <3>1. asked[t] = NoUrl /\ url'[t] = url[t]
      BY <1>1, <1>2, <2>1 DEF CallOf, Early
    <3>2. asked'[t] = url[t] /\ url[t] # NoUrl
      BY <1>2, <2>1, HandlerAssumption
    <3> QED
      BY <1>1, <1>2, <2>1, <3>1, <3>2 DEF CallOf, Early
  <2>2. CASE pc'[t] # "process"
    <3>1. asked'[t] = asked[t]
      BY <2>2
    <3>2. asked[t] # NoUrl => url'[t] = url[t]
      BY <1>1, <1>2 DEF CallOf, Early
    <3> QED
      BY <1>1, <1>2, <2>2, <3>1, <3>2 DEF CallOf, Extractor!Open
  <2> QED
    BY <2>1, <2>2
<1> QED
  BY <1>3, <1>4, <1>5 DEF CallInv

\* A step of a call, or of the handler that waits for it.
LEMMA CallKeepsOthers ==
    ASSUME TypeOK, CallInv, NEW t \in Tasks, NEW r \in Replies,
           NEW stage, NEW result,
           pc' = [pc EXCEPT ![t] = stage], outcome' = [outcome EXCEPT ![t] = result],
           reply' = [reply EXCEPT ![t] = r],
           UNCHANGED <<url, killed, asked>>, extracted' \subseteq Articles,
           stage \notin Early, asked[t] # NoUrl,
           r.kind = "article" => Fits(r.article, asked[t]),
           result = "article" => r.kind = "article"
    PROVE  CallInv'
<1>1. CallOf(t) /\ ExtractionTypes
  BY DEF CallInv
<1>2. ExtractionTypes'
  BY <1>1 DEF ExtractionTypes
<1>3. \A s \in Tasks \ {t} : CallOf(s)'
  <2> SUFFICES ASSUME NEW s \in Tasks \ {t} PROVE CallOf(s)'
    OBVIOUS
  <2>1. Same(s)
    BY <1>1 DEF Same, TypeOK, ExtractionTypes
  <2> QED
    BY <2>1, SameCall DEF CallInv
<1>4. pc'[t] = stage /\ outcome'[t] = result /\ reply'[t] = r
  BY <1>1 DEF TypeOK, ExtractionTypes
<1>5. CallOf(t)'
  BY <1>1, <1>4 DEF CallOf, Extractor!Open
<1> QED
  BY <1>2, <1>3, <1>5 DEF CallInv

\* A step of one handler or of its call keeps the facts about all calls.
LEMMA CallStep == TypeOK /\ CallInv /\ [BotNext]_botVars => CallInv'
<1> SUFFICES ASSUME TypeOK, CallInv, [BotNext]_botVars PROVE CallInv'
  OBVIOUS
<1> DEFINE Kind == /\ Extractor!Refused \in Replies /\ Extractor!Cancelled \in Replies
                   /\ Extractor!Refused.kind = "refused"
                   /\ Extractor!Cancelled.kind = "cancelled"
                   /\ Extractor!Refused # Extractor!Pending
                   /\ Extractor!Cancelled # Extractor!Pending
<1>0. Kind
  BY DEF Replies, Extractor!Pending, Extractor!Refused, Extractor!Cancelled
<1>1. ASSUME NEW t \in Tasks, Receive(t), UNCHANGED extraction
      PROVE  CallInv'
  <2>1. pc'[t] # "process"
    BY <1>1 DEF Receive, RejectText, ReceiveLink, Press, PressCancel, At, Go, TypeOK
  <2> QED
    BY <1>1, <2>1, HandleKeepsCalls DEF extraction
<1>2. ASSUME NEW t \in Tasks, Handle(t)
      PROVE  CallInv'
  <2>1. Step(t)
    BY <1>2 DEF Handle
  <2>2. pc'[t] = "process" => pc[t] = "announce"
    BY <2>1, HandlerStep
  <2>3. CASE pc'[t] = "process"
    <3>1. Extractor!Ask(t, url[t]) /\ url[t] \in Urls
      BY <1>2, <2>2, <2>3 DEF Handle, AskForUrl, TypeOK, HasUrl, Processing
    <3> QED
      BY <2>1, <2>3, <3>1, HandleKeepsCalls DEF Extractor!Ask
  <2>4. CASE pc'[t] # "process"
    BY <1>2, <2>1, <2>4, HandleKeepsCalls DEF Handle, AskForUrl, extraction
  <2> QED
    BY <2>3, <2>4
<1>3. ASSUME NEW t \in Tasks, Extract(t)
      PROVE  CallInv'
  <2>1. /\ UNCHANGED vars /\ asked' = asked /\ pc[t] = "process" /\ Extractor!Open(t)
    BY <1>3 DEF Extract, Waiting, At, Extractor!Extract, Extractor!Answer, Extractor!GiveUp
  <2>2. /\ pc' = [pc EXCEPT ![t] = pc[t]] /\ outcome' = [outcome EXCEPT ![t] = outcome[t]]
        /\ asked[t] # NoUrl /\ outcome[t] # "article" /\ pc[t] \notin Early
        /\ UNCHANGED <<url, killed, asked>>
    BY <2>1 DEF vars, CallInv, CallOf, TypeOK, Early, Extractor!Open, Extractor!Pending
  <2>3. \E r \in Replies : /\ reply' = [reply EXCEPT ![t] = r]
                           /\ r.kind = "article" => Fits(r.article, asked[t])
                           /\ extracted' \subseteq Articles
    <3>1. reply = [reply EXCEPT ![t] = reply[t]] /\ reply[t] \in Replies
          /\ reply[t].kind # "article" /\ extracted \subseteq Articles
      BY <2>1 DEF CallInv, ExtractionTypes, Extractor!Open, Extractor!Pending
    <3>2. \A a \in Articles : Extractor!With(a) \in Replies
                              /\ Extractor!With(a).article = a
      BY DEF Replies, Extractor!With
    <3>3. CASE Extractor!Extract(t)
      BY <3>1, <3>2, <3>3 DEF Extractor!Extract
    <3>4. CASE Extractor!Answer(t)
      BY <3>1, <3>2, <3>4 DEF Extractor!Answer
    <3>5. CASE Extractor!GiveUp(t)
      BY <1>0, <3>1, <3>5 DEF Extractor!GiveUp
    <3> QED
      BY <1>3, <3>3, <3>4, <3>5 DEF Extract
  <2> QED
    BY <2>1, <2>2, <2>3, CallKeepsOthers
<1>4. ASSUME NEW t \in Tasks, Return(t)
      PROVE  CallInv'
  <2>1. /\ pc[t] = "process" /\ reply[t] # Extractor!Pending
        /\ pc' = [pc EXCEPT ![t] = "cleanup"]
        /\ UNCHANGED <<url, killed>> /\ UNCHANGED <<asked, reply, extracted>>
    BY <1>4 DEF Return, Waiting, Answered, At, Go, store, chat, extraction
  <2>2. PICK result \in {"failure", "article"} :
              outcome' = [outcome EXCEPT ![t] = result]
    BY <1>4 DEF Return, Answered
  <2>3. result = "article" => reply[t].kind = "article"
    BY <1>4, <2>2 DEF Return, TypeOK
  <2>4. /\ reply' = [reply EXCEPT ![t] = reply[t]] /\ reply[t] \in Replies
        /\ asked[t] # NoUrl /\ extracted' \subseteq Articles
        /\ reply[t].kind = "article" => Fits(reply[t].article, asked[t])
    BY <2>1 DEF CallInv, CallOf, ExtractionTypes
  <2> QED
    BY <2>1, <2>2, <2>3, <2>4, CallKeepsOthers DEF Early
<1>5. ASSUME NEW t \in Tasks, Raise(t)
      PROVE  CallInv'
  <2>1. /\ pc[t] = "process" /\ pc' = [pc EXCEPT ![t] = "apologise"]
        /\ outcome' = [outcome EXCEPT ![t] = "error"]
        /\ UNCHANGED <<url, killed>> /\ UNCHANGED <<asked, extracted>>
        /\ asked[t] # NoUrl
    BY <1>5 DEF Raise, Raised, At, Go, store, chat, Extractor!GiveUp, Extractor!Open
  <2>2. /\ reply' = [reply EXCEPT ![t] = Extractor!Refused]
        /\ extracted' \subseteq Articles
    BY <1>0, <1>5, <2>1 DEF Raise, Extractor!GiveUp, CallInv, ExtractionTypes
  <2> QED
    BY <1>0, <2>1, <2>2, CallKeepsOthers DEF Early
<1>6. ASSUME NEW t \in Tasks, CancelCall(t)
      PROVE  CallInv'
  <2>1. /\ pc[t] = "process" /\ pc' = [pc EXCEPT ![t] = "apologise"]
        /\ outcome' = [outcome EXCEPT ![t] = "timeout"]
        /\ UNCHANGED <<url, killed>>
    BY <1>6 DEF CancelCall, Timeout, At, Go, store, chat
  <2>2. asked[t] # NoUrl /\ asked' = asked /\ extracted' \subseteq Articles
    BY <1>6, <2>1 DEF CancelCall, Extractor!GiveUp, CallInv, CallOf, ExtractionTypes,
       extraction
  <2>3. CASE Extractor!Open(t)
    <3>1. reply' = [reply EXCEPT ![t] = Extractor!Cancelled]
      BY <1>0, <1>6, <2>3 DEF CancelCall, Extractor!GiveUp, CallInv, ExtractionTypes
    <3> QED
      BY <1>0, <2>1, <2>2, <3>1, CallKeepsOthers DEF Early
  <2>4. CASE ~Extractor!Open(t)
    <3>1. /\ reply' = [reply EXCEPT ![t] = reply[t]] /\ reply[t] \in Replies
          /\ reply[t] # Extractor!Pending
          /\ reply[t].kind = "article" => Fits(reply[t].article, asked[t])
      BY <1>6, <2>2, <2>4 DEF CancelCall, CallInv, CallOf, ExtractionTypes, extraction,
         Extractor!Open
    <3> QED
      BY <2>1, <2>2, <3>1, CallKeepsOthers DEF Early
  <2> QED
    BY <2>3, <2>4
<1>7. ASSUME Crash \/ UNCHANGED vars, UNCHANGED extraction
      PROVE  CallInv'
  <2>1. \A s \in Tasks : Same(s)
    BY <1>7 DEF Crash, store, chat, vars, extraction, Same
  <2>2. ExtractionTypes'
    BY <1>7 DEF extraction, CallInv, ExtractionTypes
  <2> QED
    BY <2>1, <2>2, SameCall DEF CallInv
<1> QED
  BY <1>1, <1>2, <1>3, <1>4, <1>5, <1>6, <1>7 DEF BotNext, botVars

LEMMA CallInvariant == BotSpec => []CallInv
<1>1. BotInit => CallInv
  BY DEF BotInit, Init, Extractor!Init, CallInv, CallOf, ExtractionTypes, Replies,
     Extractor!Pending, Extractor!Open, Early
<1> QED
  BY <1>1, CallStep, BotIsADialogue, TypeCorrect, PTL DEF BotSpec

\* The article a user gets was extracted for a page that fits the address its
\* handler works on, for any number of handlers that change the FSM datum.
THEOREM DeliveredFits == BotSpec => []DeliveredTextFits
<1>1. CallInv => DeliveredTextFits
  BY DEF CallInv, CallOf, DeliveredTextFits
<1> QED
  BY <1>1, CallInvariant, PTL
=============================================================================
