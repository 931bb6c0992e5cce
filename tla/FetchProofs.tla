----------------------------- MODULE FetchProofs -----------------------------
(***************************************************************************)
(* Fetch for any site, any number of attempts, redirects and bytes: what a   *)
(* method ends with, that its client is closed, that the pages it reads were *)
(* checked, and how often it asks; then, for any links and pages, what       *)
(* normalization, classification and extraction compute.                     *)
(***************************************************************************)
EXTENDS Fetch, SequenceTheorems, FiniteSetTheorems, WellFoundedInduction, TLAPS

-----------------------------------------------------------------------------
(* One call of a method *)

Active == {"check", "send", "body", "pause"}

\* What is true of a call beyond its types: it knows its link and method; while
\* it asks it has no outcome, no text and an open client, and is not refused.
Course ==
    /\ pc = "idle" => client = "none" /\ sent = 0 /\ answered # "refused"
    /\ pc \in Active \cup {"idle"} => outcome = "pending" /\ page = None /\ text = None
    /\ pc \in Active \cup {"close"} =>
          /\ link \in Links /\ method \in SiteMethods /\ client = "open"
          /\ attempt >= 1 /\ attempt <= Attempts(method, link)
    /\ pc \in {"send", "body"} => hops <= MaxRedirects /\ address = "checked"
    /\ page # None => address = "checked"
    /\ method = "googlebot_spoof" /\ pc \in {"check", "send", "body"} => answered # "refused"
    /\ pc = "done" => client # "open" /\ link \in Links
    /\ text # None => link \in Links /\ page \in Served(link) /\ text = Extract(page)

\* How a call may end, before its finally clause and after it.
Ends ==
    /\ pc = "close" => \/ outcome \in Results(method) \cup {"cancelled"}
                       \/ outcome = "again" /\ method = "wsj_bypass"
    /\ pc = "done" => \/ outcome \in {"rejected", "cancelled"}
                      \/ outcome \in Results(method)

\* The requests n attempts may send: each follows MaxRedirects redirects.
Budget(n) == n * (MaxRedirects + 1)

Spent ==
    /\ pc \in {"check", "send"} => sent <= Budget(attempt - 1) + hops
    /\ pc = "body" => sent <= Budget(attempt - 1) + hops + 1
    /\ pc = "pause" => sent <= Budget(attempt - 1)
    /\ pc = "close" => sent <= Budget(attempt)
    /\ pc \in {"idle", "done"} => sent <= MostRequests

LEMMA MaxAttemptsIsNatural == MaxAttempts \in Nat /\ MaxAttempts >= 3 /\ MaxAttempts >= MaxRetry
BY FetchAssumption DEF MaxAttempts

\* No method makes more attempts than the longest list has.
LEMMA AttemptsBounded ==
    \A m \in SiteMethods : \A l : Attempts(m, l) \in Nat /\ Attempts(m, l) >= 1
                                    /\ Attempts(m, l) <= MaxAttempts
BY FetchAssumption, MaxAttemptsIsNatural DEF Attempts, SiteMethods

LEMMA BudgetGrows ==
    /\ \A n \in Nat : /\ Budget(n) \in Nat
                      /\ Budget(n + 1) = Budget(n) + MaxRedirects + 1
    /\ \A n \in 0..MaxAttempts : Budget(n) <= MostRequests
    /\ MostRequests \in Nat
<1>1. \A n, k \in Nat : n * k \in Nat
  OBVIOUS
<1>2. \A m, n, k \in Nat : n <= m => n * k <= m * k
  <2> SUFFICES ASSUME NEW m \in Nat, NEW n \in Nat, NEW k \in Nat, n <= m
               PROVE  n * k <= m * k
    OBVIOUS
  <2>1. (m - n) * k \in Nat
    BY <1>1
  <2>2. (m - n) * k = m * k - n * k
    OBVIOUS
  <2> QED
    BY <1>1, <2>1, <2>2
<1>3. MaxRedirects + 1 \in Nat
  BY FetchAssumption
<1>4. \A n, k \in Nat : (n + 1) * k = n * k + k
  OBVIOUS
<1> QED
  BY <1>1, <1>2, <1>3, <1>4, MaxAttemptsIsNatural, FetchAssumption DEF Budget, MostRequests

\* A text is blank, short or long, and no text is none.
LEMMA SizeIsOneOfFour ==
    \A content : Size(content) \in {"none", "blank", "teaser", "full"}
BY DEF Size

LEMMA InitOK == Init => TypeOK /\ Course /\ Ends /\ Spent
<1>1. Init => TypeOK
  BY FetchAssumption, MaxAttemptsIsNatural, BudgetGrows DEF Init, TypeOK
<1>2. Init => Course /\ Ends
  BY DEF Init, Course, Ends, Active
<1>3. Init => Spent
  BY BudgetGrows DEF Init, Spent
<1> QED
  BY <1>1, <1>2, <1>3

\* An error raised by the client ends the attempt.
LEMMA RaiseEnds ==
    ASSUME TypeOK, Course, Spent, NEW error \in Errors, Raise(error),
           pc \in {"check", "send", "body"},
           sent' \in 0..MostRequests + 1,
           sent' <= Budget(attempt - 1) + MaxRedirects + 1,
           UNCHANGED <<link, method, client, answered, page, text>>
    PROVE  TypeOK' /\ Course' /\ Ends' /\ Spent'
<1>1. /\ pc' = "close" /\ UNCHANGED <<attempt, hops, address, body>>
      /\ outcome' = (IF method = "wsj_bypass" /\ error = "net" THEN "again" ELSE error)
  BY DEF Raise, End, request
<1>2. /\ attempt \in Nat /\ attempt >= 1
      /\ Budget(attempt) = Budget(attempt - 1) + MaxRedirects + 1
  BY BudgetGrows, MaxAttemptsIsNatural DEF TypeOK, Course, Active
<1>3. TypeOK' /\ Course' /\ Spent'
  BY <1>1, <1>2 DEF TypeOK, Course, Spent, Active, Errors, Texts
<1>4. Ends'
  BY <1>1 DEF Ends, Results, Course, Active, SiteMethods, Errors, FetchViaJsDisable,
     FetchViaGooglebot, FetchViaWsj
<1> QED
  BY <1>3, <1>4

LEMMA RespondKeeps ==
    ASSUME TypeOK, Course, Spent,
           NEW status \in Statuses, NEW html \in BOOLEAN, NEW p \in Served(link),
           Respond(status, html, p)
    PROVE  TypeOK' /\ Course' /\ Ends' /\ Spent'
<1> DEFINE content == IF html THEN Extract(p) ELSE None
           Over == /\ pc' = "close" /\ UNCHANGED <<attempt, hops, address, body>>
                   /\ \/ outcome' \in Results(method)
                      \/ outcome' = "again" /\ method = "wsj_bypass"
                   /\ outcome' \in Texts => html
           Again == /\ pc' \in {"pause", "check"} /\ attempt' = attempt + 1
                    /\ attempt < Attempts(method, link)
                    /\ hops' = 0 /\ address' = "new" /\ body' = 0
                    /\ UNCHANGED outcome
                    /\ method = "googlebot_spoof" /\ pc' = "check" => status # "refused"
<1>1. /\ pc = "body" /\ UNCHANGED <<link, method, client, sent>>
      /\ answered' = status
      /\ page' = IF outcome' \in Texts THEN p ELSE None
      /\ text' = IF outcome' \in Texts THEN content ELSE None
  BY DEF Respond, asked
<1>2. method \in SiteMethods /\ attempt \in Nat /\ attempt >= 1
      /\ attempt <= MaxAttempts /\ attempt <= Attempts(method, link)
      /\ Budget(attempt) = Budget(attempt - 1) + MaxRedirects + 1
      /\ Budget(attempt) \in Nat /\ Budget(attempt - 1) \in Nat
      /\ hops \in Nat /\ hops <= MaxRedirects /\ sent \in Nat /\ MaxRedirects \in Nat
  BY <1>1, BudgetGrows, MaxAttemptsIsNatural, FetchAssumption DEF TypeOK, Course, Active
<1>3. Size(None) = "none"
  BY DEF Size
<1>4. Over \/ Again
  <2>1. CASE method = "js_disable"
    <3>1. JudgeJsDisable(status, html, content)
      BY <2>1 DEF Respond
    <3> QED
      BY <2>1, <3>1, SizeIsOneOfFour DEF JudgeJsDisable, End, request, Results,
         FetchViaJsDisable, Texts
  <2>2. CASE method = "wsj_bypass"
    <3>1. JudgeWsj(status, html, content)
      BY <2>2 DEF Respond
    <3> QED
      BY <2>2, <3>1 DEF JudgeWsj, End, request, Results, FetchViaWsj, Texts
  <2>3. CASE method = "googlebot_spoof"
    <3>1. JudgeGooglebot(status, html, content)
      BY <2>3 DEF Respond
    <3>2. ASSUME NEW stage \in {"pause", "check"}, AskAgain(stage),
                 stage = "check" => status # "refused"
          PROVE  Over \/ Again
      <4>1. CASE attempt = Attempts(method, link)
        BY <2>3, <3>2, <4>1 DEF AskAgain, End, request, Results, FetchViaGooglebot, Texts
      <4>2. CASE attempt # Attempts(method, link)
        BY <1>2, <2>3, <3>2, <4>2, AttemptsBounded DEF AskAgain
      <4> QED
        BY <4>1, <4>2
    <3>3. ASSUME End(Size(content)), html, Size(content) \in {"full", "teaser"}
          PROVE  Over
      BY <2>3, <3>3 DEF End, request, Results, FetchViaGooglebot
    <3>4. ASSUME End("net") PROVE Over
      BY <2>3, <3>4 DEF End, request, Results, FetchViaGooglebot, Texts, Errors
    <3>5. \/ End(Size(content)) /\ html /\ Size(content) \in {"full", "teaser"}
          \/ AskAgain("pause")
          \/ End("net")
          \/ AskAgain("check") /\ status # "refused"
      BY <3>1 DEF JudgeGooglebot
    <3> QED
      BY <3>2, <3>3, <3>4, <3>5
  <2> QED
    BY <1>2, <2>1, <2>2, <2>3 DEF SiteMethods
<1>5. CASE Over
  <2>1. outcome' \in Texts \cup Errors \cup {"none", "again"}
    <3>1. ASSUME outcome' \in Results(method) PROVE outcome' \in Texts \cup Errors \cup {"none"}
      BY <1>2, <3>1 DEF Results, SiteMethods, Texts, FetchViaJsDisable, FetchViaGooglebot,
         FetchViaWsj
    <3> QED
      BY <1>5, <3>1
  <2>2. Course'
    BY <1>1, <1>5 DEF Course, Active
  <2>3. Ends' /\ Spent'
    <3>1. sent <= Budget(attempt)
      BY <1>1, <1>2 DEF Spent
    <3> QED
      BY <1>1, <1>5, <3>1 DEF Ends, Spent
  <2>4. TypeOK'
    BY <1>1, <1>5, <2>1 DEF TypeOK, Texts, Errors
  <2> QED
    BY <2>2, <2>3, <2>4
<1>6. CASE Again
  <2>1. page' = None /\ text' = None /\ outcome' = "pending"
    BY <1>1, <1>6 DEF Course, Active, Texts
  <2>2. attempt' \in 0..MaxAttempts /\ attempt' - 1 = attempt
    BY <1>2, <1>6, AttemptsBounded, MaxAttemptsIsNatural
  <2>3. Course'
    BY <1>1, <1>2, <1>6, <2>1, AttemptsBounded DEF Course, Active
  <2>4. Ends' /\ Spent'
    <3>1. sent <= Budget(attempt)
      BY <1>1, <1>2 DEF Spent
    <3> QED
      BY <1>1, <1>2, <1>6, <2>2, <3>1 DEF Ends, Spent
  <2>5. TypeOK'
    BY <1>1, <1>6, <2>1, <2>2, FetchAssumption DEF TypeOK
  <2> QED
    BY <2>3, <2>4, <2>5
<1> QED
  BY <1>4, <1>5, <1>6

LEMMA StepOK ==
    TypeOK /\ Course /\ Ends /\ Spent /\ [Next]_vars => TypeOK' /\ Course' /\ Ends' /\ Spent'
<1> SUFFICES ASSUME TypeOK, Course, Ends, Spent, [Next]_vars
             PROVE  TypeOK' /\ Course' /\ Ends' /\ Spent'
  OBVIOUS
<1>0. /\ attempt \in 0..MaxAttempts /\ attempt \in Nat /\ MaxAttempts \in Nat
      /\ MaxAttempts >= 1 /\ MaxRedirects \in Nat /\ hops \in Nat /\ sent \in Nat
  BY MaxAttemptsIsNatural, BudgetGrows, FetchAssumption DEF TypeOK
<1>b. attempt >= 1 => /\ Budget(attempt) = Budget(attempt - 1) + MaxRedirects + 1
                      /\ Budget(attempt) \in Nat /\ Budget(attempt - 1) \in Nat
                      /\ Budget(attempt) <= MostRequests
  BY <1>0, BudgetGrows
<1>1. ASSUME NEW l \in Links, NEW m \in SiteMethods, Handle(l, m)
      PROVE  TypeOK' /\ Course' /\ Ends' /\ Spent'
  <2>1. CASE IsValid(l) /\ Target(l) # NoUrl
    <3>1. TypeOK' /\ Course' /\ Ends'
      BY <1>0, <1>1, <2>1, AttemptsBounded
         DEF Handle, TypeOK, Course, Ends, Active, request, result
    <3>2. sent' = 0 /\ hops' = hops /\ attempt' = 1 /\ pc' = "check"
      BY <1>1, <2>1 DEF Handle, Course, request
    <3>3. Spent'
      BY <1>0, <3>2, BudgetGrows DEF Spent
    <3> QED
      BY <3>1, <3>3
  <2>2. CASE ~(IsValid(l) /\ Target(l) # NoUrl)
    <3>1. /\ pc = "idle" /\ pc' = "done" /\ link' = l /\ method' = m
          /\ outcome' \in {"none", "rejected"}
          /\ UNCHANGED <<client, attempt, hops, address, body, answered, sent, page, text>>
      BY <1>1, <2>2 DEF Handle, request, result
    <3>2. "none" \in Results(m)
      BY DEF SiteMethods, Results, FetchViaJsDisable, FetchViaGooglebot, FetchViaWsj
    <3> QED
      BY <3>1, <3>2 DEF TypeOK, Course, Ends, Spent, Active
  <2> QED
    BY <2>1, <2>2
<1>2. ASSUME Check
      PROVE  TypeOK' /\ Course' /\ Ends' /\ Spent'
  <2>1. /\ pc = "check" /\ UNCHANGED <<link, method, client, answered, sent, page, text>>
        /\ hops <= MaxRedirects + 1
    BY <1>2 DEF Check, asked, result, TypeOK
  <2>2. ASSUME NEW error \in {"net", "other"}, Raise(error)
        PROVE  TypeOK' /\ Course' /\ Ends' /\ Spent'
    <3>1. sent' \in 0..MostRequests + 1 /\ sent' <= Budget(attempt - 1) + MaxRedirects + 1
      BY <1>0, <1>b, <2>1 DEF TypeOK, Spent, Course, Active
    <3> QED
      BY <2>1, <2>2, <3>1, RaiseEnds DEF Errors
  <2>3. CASE /\ hops <= MaxRedirects /\ pc' = "send" /\ address' = "checked"
             /\ UNCHANGED <<attempt, hops, body, outcome>>
    BY <2>1, <2>3 DEF TypeOK, Course, Ends, Spent, Active
  <2> QED
    BY <1>2, <2>2, <2>3 DEF Check
<1>3. ASSUME Send
      PROVE  TypeOK' /\ Course' /\ Ends' /\ Spent'
  <2>1. /\ pc = "send" /\ UNCHANGED <<link, method, client, answered, page, text>>
        /\ attempt >= 1 /\ hops <= MaxRedirects
    BY <1>3 DEF Send, asked, result, Course, Active
  <2>2. sent' \in 0..MostRequests + 1 /\ sent' <= sent + 1
    BY <1>0, <1>3, BudgetGrows DEF Send, TypeOK
  <2>3. CASE Raise("net")
    <3>1. sent' <= Budget(attempt - 1) + MaxRedirects + 1
      BY <1>0, <1>b, <2>1, <2>2 DEF Spent
    <3> QED
      BY <2>1, <2>2, <2>3, <3>1, RaiseEnds DEF Errors
  <2>4. CASE pc' = "body" /\ body' = 0 /\ UNCHANGED <<attempt, hops, address, outcome>>
    <3>1. TypeOK' /\ Course' /\ Ends'
      BY <2>1, <2>2, <2>4, FetchAssumption DEF TypeOK, Course, Ends, Active
    <3>2. Spent'
      BY <1>0, <1>b, <2>1, <2>2, <2>4 DEF Spent
    <3> QED
      BY <3>1, <3>2
  <2> QED
    BY <1>3, <2>3, <2>4 DEF Send
<1>4. ASSUME NEW n \in 1..2, Receive(n)
      PROVE  TypeOK' /\ Course' /\ Ends' /\ Spent'
  <2>1. /\ pc = "body" /\ UNCHANGED <<link, method, client, answered, sent, page, text>>
        /\ hops <= MaxRedirects /\ attempt >= 1
    BY <1>4 DEF Receive, asked, result, Course, Active
  <2>2. CASE body + n > MaxBytes
    <3>1. sent' \in 0..MostRequests + 1 /\ sent' <= Budget(attempt - 1) + MaxRedirects + 1
      BY <1>0, <1>b, <2>1 DEF TypeOK, Spent
    <3> QED
      BY <1>4, <2>1, <2>2, <3>1, RaiseEnds DEF Receive, Errors
  <2>3. CASE ~(body + n > MaxBytes)
    BY <1>4, <2>1, <2>3, FetchAssumption DEF Receive, TypeOK, Course, Ends, Spent, Active
  <2> QED
    BY <2>2, <2>3
<1>5. ASSUME Redirect
      PROVE  TypeOK' /\ Course' /\ Ends' /\ Spent'
  <2>1. /\ pc = "body" /\ pc' = "check" /\ hops' = hops + 1 /\ address' = "new" /\ body' = 0
        /\ hops <= MaxRedirects /\ attempt >= 1
        /\ UNCHANGED <<link, method, attempt, client, answered, sent, page, text, outcome>>
    BY <1>5 DEF Redirect, asked, result, Course, Active
  <2>2. TypeOK' /\ Course' /\ Ends'
    BY <1>0, <2>1, FetchAssumption DEF TypeOK, Course, Ends, Active
  <2>3. Spent'
    BY <1>0, <1>b, <2>1 DEF Spent
  <2> QED
    BY <2>2, <2>3
<1>6. ASSUME NEW status \in Statuses, NEW html \in BOOLEAN, NEW p \in Served(link),
             Respond(status, html, p)
      PROVE  TypeOK' /\ Course' /\ Ends' /\ Spent'
  BY <1>6, RespondKeeps
<1>7. ASSUME Pause
      PROVE  TypeOK' /\ Course' /\ Ends' /\ Spent'
  <2>1. /\ pc = "pause" /\ pc' = "check" /\ answered' = "none"
        /\ UNCHANGED <<link, method, attempt, hops, address, body, client, sent, page, text,
                       outcome>>
    BY <1>7 DEF Pause, asked, request, result
  <2>2. TypeOK' /\ Course' /\ Ends'
    BY <2>1 DEF TypeOK, Course, Ends, Active
  <2>3. Spent'
    BY <1>0, <1>b, <2>1 DEF Spent, Course, Active
  <2> QED
    BY <2>2, <2>3
<1>8. ASSUME Close
      PROVE  TypeOK' /\ Course' /\ Ends' /\ Spent'
  <2>1. /\ pc = "close" /\ UNCHANGED <<link, method, answered, sent>>
        /\ method \in SiteMethods /\ attempt >= 1
    BY <1>8 DEF Close, asked, Course, Active
  <2>2. CASE outcome = "again" /\ attempt < Attempts(method, link)
    <3>1. /\ pc' = "check" /\ client' = "open" /\ attempt' = attempt + 1
          /\ hops' = 0 /\ address' = "new" /\ body' = 0 /\ outcome' = "pending"
          /\ page' = None /\ text' = None
      BY <1>8, <2>2 DEF Close
    <3>2. attempt' \in 0..MaxAttempts
      BY <1>0, <2>1, <2>2, <3>1, AttemptsBounded
    <3>3. method = "wsj_bypass"
      BY <2>1, <2>2 DEF Ends, Results, SiteMethods, Texts, Errors, FetchViaJsDisable,
         FetchViaGooglebot, FetchViaWsj
    <3>4. TypeOK' /\ Course' /\ Ends'
      BY <1>0, <2>1, <2>2, <3>1, <3>2, <3>3, AttemptsBounded, FetchAssumption
         DEF TypeOK, Course, Ends, Active
    <3>5. Spent'
      BY <1>0, <1>b, <2>1, <3>1 DEF Spent
    <3> QED
      BY <3>4, <3>5
  <2>3. CASE ~(outcome = "again" /\ attempt < Attempts(method, link))
    <3>1. /\ pc' = "done" /\ client' = "closed"
          /\ outcome' = IF outcome = "again" THEN "none" ELSE outcome
          /\ UNCHANGED <<attempt, hops, address, body, page, text>>
      BY <1>8, <2>3 DEF Close, request, result
    <3>2. "none" \in Results(method)
      BY <2>1 DEF SiteMethods, Results, FetchViaJsDisable, FetchViaGooglebot, FetchViaWsj
    <3>3. TypeOK' /\ Course'
      BY <2>1, <3>1 DEF TypeOK, Course, Active
    <3>4. Ends'
      BY <2>1, <3>1, <3>2 DEF Ends
    <3>5. Spent'
      BY <1>0, <1>b, <2>1, <3>1, BudgetGrows DEF Spent
    <3> QED
      BY <3>3, <3>4, <3>5
  <2> QED
    BY <2>2, <2>3
<1>9. ASSUME Cancel
      PROVE  TypeOK' /\ Course' /\ Ends' /\ Spent'
  <2>1. /\ pc \in Active \cup {"close"} /\ outcome' = "cancelled"
        /\ page' = None /\ text' = None
        /\ UNCHANGED <<link, method, attempt, hops, address, body, answered, sent>>
        /\ IF pc = "close" THEN pc' = "done" /\ client' = "closed"
           ELSE pc' = "close" /\ client' = client
    BY <1>9 DEF Cancel, asked, request, TypeOK, Active
  <2>2. TypeOK' /\ Course' /\ Ends'
    BY <2>1 DEF TypeOK, Course, Ends, Active
  <2>3. Spent'
    BY <1>0, <1>b, <2>1, BudgetGrows DEF Spent, Course, Active, TypeOK
  <2> QED
    BY <2>2, <2>3
<1>10. ASSUME NEW status \in Statuses, NEW error \in {"runtime", "other"},
              ExtractionRaises(status, error)
       PROVE  TypeOK' /\ Course' /\ Ends' /\ Spent'
  <2>1. /\ pc = "body" /\ pc' = "close" /\ outcome' = error /\ answered' = status
        /\ UNCHANGED <<link, method, attempt, hops, address, body, client, sent, page, text>>
    BY <1>10 DEF ExtractionRaises, End, asked, request, result
  <2>2. TypeOK' /\ Course'
    BY <2>1 DEF TypeOK, Course, Active, Errors, Texts
  <2>3. Ends'
    BY <2>1 DEF Ends, Results, Course, Active, SiteMethods, Errors, FetchViaJsDisable,
       FetchViaGooglebot, FetchViaWsj
  <2>4. Spent'
    BY <1>0, <1>b, <2>1 DEF Spent, Course, Active
  <2> QED
    BY <2>2, <2>3, <2>4
<1>11. CASE UNCHANGED vars
  BY <1>11 DEF vars, TypeOK, Course, Ends, Spent
<1> QED
  BY <1>1, <1>2, <1>3, <1>4, <1>5, <1>6, <1>7, <1>8, <1>9, <1>10, <1>11 DEF Next, Work

LEMMA Inductive == Spec => [](TypeOK /\ Course /\ Ends /\ Spent)
BY InitOK, StepOK, PTL DEF Spec

\* The state of a call is well typed; above all, a response never holds more than
\* MaxBytes and no call follows more redirects than it may.
THEOREM TypeCorrect == Spec => []TypeOK
BY Inductive, PTL

\* The methods that read the site end only as FetchResults says, whatever the site
\* answers: the orchestrator's except clauses are complete for them.
THEOREM EndsAsExpected == Spec => []ResultsAsExpected
<1>1. Ends => ResultsAsExpected
  BY DEF Ends, ResultsAsExpected
<1> QED
  BY <1>1, Inductive, PTL

\* A call that is over has closed its client, also when it was cancelled.
THEOREM ClosesItsClient == Spec => []ClientIsClosed
<1>1. Course => ClientIsClosed
  BY DEF Course, ClientIsClosed
<1> QED
  BY <1>1, Inductive, PTL

\* For any number of attempts and redirects a call sends at most as many requests
\* as both allow together, and the crawler never asks right after a refusal.
THEOREM SparesTheSite == Spec => []SiteIsSpared
<1>1. TypeOK /\ Course /\ Spent => SiteIsSpared
  <2> SUFFICES ASSUME TypeOK, Course, Spent PROVE SiteIsSpared
    OBVIOUS
  <2>1. CASE pc \in {"idle", "done"}
    BY <2>1 DEF SiteIsSpared, Spent
  <2>2. CASE pc \in Active \cup {"close"}
    <3>1. /\ attempt \in 1..MaxAttempts /\ attempt - 1 \in Nat
          /\ hops <= MaxRedirects + 1 /\ hops \in Nat /\ sent \in Nat
          /\ pc = "body" => hops <= MaxRedirects
      BY <2>2, FetchAssumption, MaxAttemptsIsNatural, BudgetGrows DEF TypeOK, Course, Active
    <3>2. /\ Budget(attempt) = Budget(attempt - 1) + MaxRedirects + 1
          /\ Budget(attempt - 1) \in Nat /\ Budget(attempt) <= MostRequests
          /\ MostRequests \in Nat
      BY <3>1, BudgetGrows, MaxAttemptsIsNatural
    <3> QED
      BY <2>2, <3>1, <3>2, FetchAssumption DEF SiteIsSpared, Spent, Course, Active
  <2> QED
    BY <2>1, <2>2 DEF TypeOK, Active
<1> QED
  BY <1>1, Inductive, PTL

\* No text comes from a response whose address was not checked after its last
\* redirect.
THEOREM ReadsCheckedPages == Spec => []OnlyCheckedPagesAreRead
<1>1. TypeOK /\ Course => OnlyCheckedPagesAreRead
  BY FetchAssumption DEF TypeOK, Course, OnlyCheckedPagesAreRead
<1> QED
  BY <1>1, Inductive, PTL

-----------------------------------------------------------------------------
(* Least and greatest elements *)

LEMMA LeastElement ==
    ASSUME NEW T \in SUBSET Nat, T # {}
    PROVE  \E x \in T : \A y \in T : x <= y
<1>1. IsWellFoundedOn(OpToRel(<, Nat), Nat)
  BY NatLessThanWellFounded
<1>2. PICK x \in T : \A y \in T : <<y, x>> \notin OpToRel(<, Nat)
  BY <1>1, WFMin
<1>3. \A y \in T : y < x => <<y, x>> \in OpToRel(<, Nat)
  BY DEF OpToRel
<1>4. \A y \in T : ~(y < x)
  BY <1>2, <1>3
<1> QED
  BY <1>4

LEMMA GreatestElement ==
    ASSUME NEW n \in Nat, NEW T \in SUBSET (0..n), T # {}
    PROVE  \E x \in T : \A y \in T : y <= x
<1> DEFINE R == {m \in 0..n : n - m \in T}
<1>1. PICK t \in T : TRUE
  OBVIOUS
<1>2. n - t \in 0..n /\ n - (n - t) = t
  OBVIOUS
<1>3. R \in SUBSET Nat /\ R # {}
  BY <1>2
<1>4. PICK m \in R : \A k \in R : m <= k
  BY <1>3, LeastElement
<1>5. ASSUME NEW y \in T PROVE n - m >= y
  <2>1. n - y \in R /\ y \in Nat /\ m \in Nat
    OBVIOUS
  <2>2. m <= n - y
    BY <1>4, <2>1
  <2> QED
    BY <2>1, <2>2
<1>6. n - m \in T
  OBVIOUS
<1> QED
  BY <1>5, <1>6

-----------------------------------------------------------------------------
(* Links *)

LEMMA EntriesTyped ==
    ASSUME NEW e \in Entries
    PROVE  e \in Seq(Labels) /\ Len(e) \in Nat /\ Len(e) >= 2 /\ e[1] # "www"
<1>1. e \in Seq(Labels) /\ Len(e) >= 2 /\ Head(e) # "www"
  BY EntriesAssumption
<1> QED
  BY <1>1

LEMMA WwwGoes ==
    ASSUME NEW host \in Seq(Labels)
    PROVE  WithoutWww(host) \in Seq(Labels)
BY DEF WithoutWww

\* A part of a host from label i to the end, seen without its first label.
LEMMA SuffixOfTail ==
    ASSUME NEW host \in Seq(Labels), Len(host) >= 1, NEW i \in 1..Len(host), i > 1
    PROVE  SubSeq(Tail(host), i - 1, Len(Tail(host))) = SubSeq(host, i, Len(host))
<1> DEFINE t == Tail(host)
           n == Len(host)
<1>1. t \in Seq(Labels) /\ Len(t) = n - 1 /\ n \in Nat /\ i \in Nat /\ i <= n
      /\ \A k \in 1..n - 1 : t[k] = host[k + 1]
  OBVIOUS
<1> HIDE DEF t, n
<1>2. /\ Len(SubSeq(t, i - 1, Len(t))) = n - i + 1
      /\ \A k \in 1..n - i + 1 : SubSeq(t, i - 1, Len(t))[k] = t[i - 1 + k - 1]
      /\ SubSeq(t, i - 1, Len(t)) \in Seq(Labels)
  <2> DEFINE m == i - 1
             l == n - 1
  <2>1. /\ m \in Int /\ l \in Int /\ m <= l /\ l - m + 1 = n - i + 1
        /\ \A k \in m..l : t[k] \in Labels
    BY <1>1
  <2> HIDE DEF m, l
  <2>2. /\ SubSeq(t, m, l) \in Seq(Labels) /\ Len(SubSeq(t, m, l)) = l - m + 1
        /\ \A k \in 1..l - m + 1 : SubSeq(t, m, l)[k] = t[m + k - 1]
    BY <2>1, SubSeqProperties
  <2> QED
    BY <1>1, <2>1, <2>2 DEF m, l
<1>3. /\ Len(SubSeq(host, i, n)) = n - i + 1
      /\ \A k \in 1..n - i + 1 : SubSeq(host, i, n)[k] = host[i + k - 1]
      /\ SubSeq(host, i, n) \in Seq(Labels)
  BY <1>1, SubSeqProperties DEF n
<1>4. \A k \in 1..n - i + 1 : t[i - 1 + k - 1] = host[i + k - 1]
  <2> SUFFICES ASSUME NEW k \in 1..n - i + 1 PROVE t[i - 1 + k - 1] = host[i + k - 1]
    OBVIOUS
  <2>1. i - 1 + k - 1 \in 1..n - 1 /\ i - 1 + k - 1 + 1 = i + k - 1
    BY <1>1
  <2> QED
    BY <1>1, <2>1
<1>5. SubSeq(t, i - 1, Len(t)) = SubSeq(host, i, n)
  BY <1>2, <1>3, <1>4, SeqEqual
<1> QED
  BY <1>5 DEF t, n

\* The nearest parent in the map is the longest entry the host ends with.
LEMMA MatchIsEntry ==
    ASSUME NEW host \in Seq(Labels)
    PROVE  MatchDomain(host) = EntryOf(host)
<1> DEFINE from(i) == SubSeq(host, i, Len(host))
           hits == {i \in DOMAIN host : (i = 1 \/ i < Len(host)) /\ from(i) \in Entries}
           end(e) == Len(host) - Len(e) + 1
           suffixes == {e \in Entries : /\ Len(e) <= Len(host)
                                        /\ e = SubSeq(host, Len(host) - Len(e) + 1, Len(host))}
<1>1. \A i \in 1..Len(host) : Len(from(i)) = Len(host) - i + 1
  BY SubSeqProperties
<1>2. ASSUME NEW i \in hits PROVE from(i) \in suffixes /\ end(from(i)) = i
  <2>1. i \in 1..Len(host) /\ from(i) \in Entries
    OBVIOUS
  <2>2. Len(from(i)) = Len(host) - i + 1
    BY <1>1, <2>1
  <2> HIDE DEF from
  <2>3. end(from(i)) = i /\ Len(from(i)) <= Len(host)
    BY <2>1, <2>2
  <2>4. from(i) = SubSeq(host, end(from(i)), Len(host))
    BY <2>3 DEF from
  <2> QED
    BY <2>1, <2>3, <2>4
<1>3. ASSUME NEW e \in suffixes
      PROVE  /\ Len(e) \in Nat /\ Len(e) >= 2
             /\ end(e) \in hits /\ from(end(e)) = e
  <2>1. e \in Entries /\ Len(e) <= Len(host) /\ from(end(e)) = e
    OBVIOUS
  <2>2. Len(e) \in Nat /\ Len(e) >= 2
    BY <2>1, EntriesTyped
  <2>3. end(e) \in 1..Len(host) /\ end(e) < Len(host)
    BY <2>1, <2>2
  <2>4. DOMAIN host = 1..Len(host)
    OBVIOUS
  <2> HIDE DEF end, from
  <2> QED
    BY <2>1, <2>2, <2>3, <2>4
<1>4. MatchDomain(host) = IF hits = {} THEN <<>>
                          ELSE from(CHOOSE i \in hits : \A j \in hits : i <= j)
  BY DEF MatchDomain
<1>5. EntryOf(host) = IF suffixes = {} THEN <<>>
                      ELSE CHOOSE e \in suffixes : \A f \in suffixes : Len(f) <= Len(e)
  BY DEF EntryOf
<1>6. hits \in SUBSET Nat /\ Len(host) \in Nat /\ hits \subseteq 1..Len(host)
  OBVIOUS
<1> HIDE DEF hits, suffixes, from, end
<1>7. CASE hits = {}
  BY <1>3, <1>4, <1>5, <1>7
<1>8. CASE hits # {}
  <2> DEFINE i == CHOOSE x \in hits : \A j \in hits : x <= j
  <2>1. i \in hits /\ \A j \in hits : i <= j
    BY <1>6, <1>8, LeastElement
  <2>2. from(i) \in suffixes /\ MatchDomain(host) = from(i)
    BY <1>2, <1>4, <1>8, <2>1
  <2> HIDE DEF i
  <2>3. \A f \in suffixes : Len(f) <= Len(from(i))
    <3> SUFFICES ASSUME NEW f \in suffixes PROVE Len(f) <= Len(from(i))
      OBVIOUS
    <3>1. i <= end(f) /\ Len(f) \in Nat /\ i \in Nat /\ i \in 1..Len(host)
      BY <1>3, <1>6, <2>1
    <3> QED
      BY <1>1, <1>6, <3>1 DEF end
  <2>4. \A e, f \in suffixes : Len(e) = Len(f) => e = f
    BY <1>3 DEF end
  <2>5. (CHOOSE e \in suffixes : \A f \in suffixes : Len(f) <= Len(e)) = from(i)
    <3> DEFINE c == CHOOSE e \in suffixes : \A f \in suffixes : Len(f) <= Len(e)
    <3>1. c \in suffixes /\ \A f \in suffixes : Len(f) <= Len(c)
      BY <2>2, <2>3
    <3> HIDE DEF c
    <3>2. Len(c) <= Len(from(i)) /\ Len(from(i)) <= Len(c) /\ Len(c) \in Nat
          /\ Len(from(i)) \in Nat
      BY <1>3, <2>2, <2>3, <3>1
    <3>3. c = from(i)
      BY <2>2, <2>4, <3>1, <3>2
    <3> QED
      BY <3>3 DEF c
  <2> QED
    BY <1>5, <2>2, <2>5
<1> QED
  BY <1>7, <1>8

\* No entry begins with www, so that one label of it more or less is no matter.
LEMMA EntryWithoutWww ==
    ASSUME NEW host \in Seq(Labels)
    PROVE  EntryOf(WithoutWww(host)) = EntryOf(host)
<1>1. CASE ~(Len(host) >= 2 /\ Head(host) = "www")
  BY <1>1 DEF WithoutWww
<1>2. CASE Len(host) >= 2 /\ Head(host) = "www"
  <2> DEFINE t == Tail(host)
             ends(e, h) == Len(e) <= Len(h) /\ e = SubSeq(h, Len(h) - Len(e) + 1, Len(h))
  <2>1. /\ WithoutWww(host) = t /\ Len(t) = Len(host) - 1 /\ Len(host) \in Nat
        /\ host[1] = "www"
    BY <1>2 DEF WithoutWww
  <2> HIDE DEF t
  <2>2. ASSUME NEW e \in Entries PROVE ends(e, t) <=> ends(e, host)
    <3> DEFINE i == Len(host) - Len(e) + 1
    <3>1. e \in Seq(Labels) /\ Len(e) \in Nat /\ Len(e) >= 2 /\ e[1] # "www"
      BY EntriesTyped
    <3>2. CASE Len(e) < Len(host)
      <4>1. i \in 1..Len(host) /\ i > 1 /\ i - 1 = Len(t) - Len(e) + 1 /\ Len(e) <= Len(t)
        BY <2>1, <3>1, <3>2
      <4> HIDE DEF i
      <4>2. SubSeq(t, i - 1, Len(t)) = SubSeq(host, i, Len(host))
        BY <1>2, <4>1, SuffixOfTail DEF t
      <4>3. ends(e, t) <=> e = SubSeq(t, i - 1, Len(t))
        BY <4>1
      <4>4. ends(e, host) <=> e = SubSeq(host, i, Len(host))
        BY <2>1, <3>1, <3>2 DEF i
      <4> QED
        BY <4>2, <4>3, <4>4
    <3>3. CASE Len(e) >= Len(host)
      <4>1. ~ends(e, t)
        BY <2>1, <3>1, <3>3
      <4>2. ASSUME ends(e, host) PROVE FALSE
        <5>1. i = 1 /\ e = SubSeq(host, i, Len(host))
          BY <2>1, <3>1, <3>3, <4>2
        <5>2. SubSeq(host, 1, Len(host)) = host
          OBVIOUS
        <5>3. e = host
          BY <5>1, <5>2
        <5> QED
          BY <2>1, <3>1, <5>3
      <4> QED
        BY <4>1, <4>2
    <3>4. Len(e) < Len(host) \/ Len(e) >= Len(host)
      BY <2>1, <3>1
    <3> QED
      BY <3>2, <3>3, <3>4
  <2>3. {e \in Entries : ends(e, t)} = {e \in Entries : ends(e, host)}
    BY <2>2
  <2> DEFINE longest(S) == IF S = {} THEN <<>>
                           ELSE CHOOSE e \in S : \A f \in S : Len(f) <= Len(e)
             suffixes(h) == {e \in Entries : ends(e, h)}
  <2>4. EntryOf(t) = longest(suffixes(t)) /\ EntryOf(host) = longest(suffixes(host))
    BY DEF EntryOf
  <2>5. suffixes(t) = suffixes(host)
    BY <2>3
  <2> HIDE DEF longest, suffixes
  <2> QED
    BY <2>1, <2>4, <2>5
<1> QED
  BY <1>1, <1>2

\* www before a host is nothing a reader calls another site.
LEMMA BareWithoutWww ==
    ASSUME NEW host \in Seq(Labels)
    PROVE  Bare(WithoutWww(host)) = Bare(host)
<1>1. CASE ~(Len(host) >= 2 /\ Head(host) = "www")
  BY <1>1 DEF WithoutWww
<1>2. CASE Len(host) >= 2 /\ Head(host) = "www"
  <2> DEFINE t == Tail(host)
             n == Len(host)
             kept(h) == {i \in DOMAIN h : i = Len(h) \/ h[i] # "www"}
             first(S) == CHOOSE i \in S : \A j \in S : i <= j
  <2>1. /\ WithoutWww(host) = t /\ Len(t) = n - 1 /\ n \in Nat /\ n >= 2
        /\ host[1] = "www" /\ t \in Seq(Labels)
        /\ DOMAIN t = 1..n - 1 /\ DOMAIN host = 1..n
        /\ \A k \in 1..n - 1 : t[k] = host[k + 1]
    BY <1>2 DEF WithoutWww
  <2>2. \A h : Bare(h) = IF kept(h) = {} THEN <<>> ELSE SubSeq(h, first(kept(h)), Len(h))
    BY DEF Bare
  <2> HIDE DEF t, n
  <2>3. /\ kept(t) \subseteq 1..n - 1 /\ n - 1 \in kept(t)
        /\ kept(host) \subseteq 1..n /\ n \in kept(host) /\ 1 \notin kept(host)
    BY <2>1 DEF n
  <2>4. \A i \in 1..n - 1 : i \in kept(t) <=> i + 1 \in kept(host)
    <3> SUFFICES ASSUME NEW i \in 1..n - 1 PROVE i \in kept(t) <=> i + 1 \in kept(host)
      OBVIOUS
    <3>1. i + 1 \in 1..n /\ t[i] = host[i + 1] /\ (i = n - 1 <=> i + 1 = n)
      BY <2>1
    <3>2. i \in kept(t) <=> i = n - 1 \/ t[i] # "www"
      BY <2>1
    <3>3. i + 1 \in kept(host) <=> i + 1 = n \/ host[i + 1] # "www"
      BY <2>1, <3>1 DEF n
    <3> QED
      BY <3>1, <3>2, <3>3
  <2> HIDE DEF kept
  <2>5. PICK i \in kept(t) : \A j \in kept(t) : i <= j
    <3>1. kept(t) \in SUBSET Nat /\ kept(t) # {}
      BY <2>1, <2>3
    <3> QED
      BY <3>1, LeastElement
  <2>6. i \in 1..n - 1 /\ i + 1 \in kept(host)
    BY <2>3, <2>4, <2>5
  <2>7. \A j \in kept(host) : i + 1 <= j
    <3> SUFFICES ASSUME NEW j \in kept(host) PROVE i + 1 <= j
      OBVIOUS
    <3>1. j \in 1..n /\ j # 1
      BY <2>3
    <3>2. j - 1 \in 1..n - 1 /\ j - 1 + 1 = j
      BY <2>1, <3>1
    <3>3. j - 1 \in kept(t)
      BY <2>4, <3>2
    <3> QED
      BY <2>1, <2>5, <2>6, <3>1, <3>3
  <2>8. first(kept(t)) = i
    <3>1. \A j \in kept(t) : (\A k \in kept(t) : j <= k) => j = i
      BY <2>1, <2>3, <2>5
    <3> QED
      BY <2>5, <3>1
  <2>9. first(kept(host)) = i + 1
    <3>1. \A j \in kept(host) : (\A k \in kept(host) : j <= k) => j = i + 1
      BY <2>1, <2>3, <2>6, <2>7
    <3> QED
      BY <2>6, <2>7, <3>1
  <2> HIDE DEF first
  <2>10. SubSeq(t, i, Len(t)) = SubSeq(host, i + 1, Len(host))
    <3>1. i + 1 \in 1..Len(host) /\ i + 1 > 1 /\ i + 1 - 1 = i /\ Len(host) >= 1
      BY <2>1, <2>6 DEF n
    <3> DEFINE k == i + 1
    <3>2. k \in 1..Len(host) /\ k > 1 /\ Len(host) >= 1 /\ k - 1 = i
      BY <2>1, <2>6, <3>1
    <3> HIDE DEF k
    <3>3. SubSeq(t, k - 1, Len(t)) = SubSeq(host, k, Len(host))
      BY <3>2, SuffixOfTail DEF t
    <3> QED
      BY <3>2, <3>3 DEF k
  <2> QED
    BY <2>1, <2>2, <2>3, <2>8, <2>9, <2>10
<1> QED
  BY <1>1, <1>2

NoParams(path) == \A i \in DOMAIN path : path[i] # ";"

LEMMA PrefixProperties ==
    ASSUME NEW S, NEW s \in Seq(S), NEW n \in 0..Len(s)
    PROVE  LET p == SubSeq(s, 1, n)
           IN /\ p \in Seq(S) /\ Len(p) = n /\ DOMAIN p = 1..n
              /\ \A i \in 1..n : p[i] = s[i]
<1>1. CASE n = 0
  BY <1>1
<1>2. CASE n >= 1
  <2>1. 1 \in 1..Len(s) /\ n \in 1..Len(s) + 1 /\ n - 1 + 1 = n
    BY <1>2
  <2>2. \A i \in 1..n : 1 + i - 1 = i /\ i \in 1..Len(s)
    OBVIOUS
  <2> QED
    BY <2>1, <2>2, SubSeqProperties
<1> QED
  BY <1>1, <1>2

LEMMA ParamsGo ==
    ASSUME NEW path \in Seq(Segments)
    PROVE  /\ WithoutParams(path) \in Seq(Segments)
           /\ NoParams(path) => WithoutParams(path) = path
<1> DEFINE Cut(i) == path[i] = ";" /\ \A j \in DOMAIN path : j > i => path[j] # "/"
           cuts == {i \in DOMAIN path : Cut(i)}
           c == CHOOSE i \in cuts : \A j \in cuts : i <= j
<1>1. WithoutParams(path) = IF cuts = {} THEN path ELSE SubSeq(path, 1, c - 1)
  BY DEF WithoutParams
<1>2. NoParams(path) => cuts = {}
  BY DEF NoParams
<1> HIDE DEF Cut
<1>3. cuts \subseteq 1..Len(path) /\ cuts \in SUBSET Nat
  OBVIOUS
<1> HIDE DEF cuts
<1>4. cuts # {} => c \in cuts
  <2>1. ASSUME cuts # {} PROVE \E i \in cuts : \A j \in cuts : i <= j
    BY <1>3, <2>1, LeastElement
  <2> QED
    BY <2>1
<1> HIDE DEF c
<1>5. cuts # {} => c - 1 \in 0..Len(path)
  <2>1. cuts # {} => c \in 1..Len(path)
    BY <1>3, <1>4
  <2>2. Len(path) \in Nat
    OBVIOUS
  <2> QED
    BY <2>1, <2>2
<1>6. cuts # {} => SubSeq(path, 1, c - 1) \in Seq(Segments)
  BY <1>5, PrefixProperties
<1> QED
  BY <1>1, <1>2, <1>6

LEMMA SlashesGo ==
    ASSUME NEW path \in Seq(Segments)
    PROVE  /\ WithoutSlashes(path) \in Seq(Segments)
           /\ WithoutSlashes(WithoutSlashes(path)) = WithoutSlashes(path)
           /\ NoParams(path) => NoParams(WithoutSlashes(path))
<1> DEFINE kept(p) == {i \in DOMAIN p : p[i] # "/"}
           last(S) == CHOOSE i \in S : \A j \in S : j <= i
           s == SubSeq(path, 1, last(kept(path)))
<1>1. \A p : WithoutSlashes(p) = IF kept(p) = {} THEN <<>> ELSE SubSeq(p, 1, last(kept(p)))
  BY DEF WithoutSlashes
<1>2. DOMAIN path = 1..Len(path) /\ Len(path) \in Nat
  OBVIOUS
<1>3. CASE kept(path) = {}
  <2>1. WithoutSlashes(path) = <<>>
    BY <1>1, <1>3
  <2>2. kept(<<>>) = {}
    OBVIOUS
  <2>3. WithoutSlashes(<<>>) = <<>>
    BY <1>1, <2>2
  <2> QED
    BY <2>1, <2>3 DEF NoParams
<1>4. CASE kept(path) # {}
  <2>1. PICK m \in kept(path) : \A j \in kept(path) : j <= m
    <3>1. kept(path) \in SUBSET (0..Len(path))
      BY <1>2
    <3> HIDE DEF kept
    <3> QED
      BY <1>2, <1>4, <3>1, GreatestElement
  <2>2. m \in 1..Len(path) /\ path[m] # "/" /\ \A j \in 1..Len(path) : path[j] # "/" => j <= m
    BY <1>2, <2>1
  <2>3. last(kept(path)) = m
    <3>1. \A j \in kept(path) : (\A k \in kept(path) : k <= j) => j = m
      BY <1>2, <2>1, <2>2
    <3> HIDE DEF kept
    <3> QED
      BY <2>1, <3>1
  <2>4. /\ WithoutSlashes(path) = s /\ s = SubSeq(path, 1, m)
    BY <1>1, <1>4, <2>3
  <2> HIDE DEF s, last
  <2>5. s \in Seq(Segments) /\ Len(s) = m /\ DOMAIN s = 1..m /\ \A i \in 1..m : s[i] = path[i]
    <3>1. m \in 0..Len(path)
      BY <1>2, <2>2
    <3> QED
      BY <2>4, <3>1, PrefixProperties
  <2>6. m \in kept(s) /\ \A j \in kept(s) : j <= m /\ j \in Nat
    BY <1>2, <2>2, <2>5
  <2> HIDE DEF kept
  <2>7. last(kept(s)) = m
    <3>1. \A j \in kept(s) : (\A k \in kept(s) : k <= j) => j = m
      BY <1>2, <2>2, <2>6
    <3> QED
      BY <2>6, <3>1 DEF last
  <2>8. WithoutSlashes(s) = SubSeq(s, 1, Len(s))
    BY <1>1, <2>5, <2>6, <2>7
  <2>9. SubSeq(s, 1, Len(s)) = s
    BY <2>5
  <2>10. NoParams(path) => NoParams(s)
    <3>1. \A i \in 1..m : i \in DOMAIN path
      BY <1>2, <2>2
    <3>2. NoParams(path) => \A i \in 1..m : path[i] # ";"
      BY <3>1 DEF NoParams
    <3> QED
      BY <2>5, <3>2 DEF NoParams
  <2> QED
    BY <2>4, <2>5, <2>8, <2>9, <2>10
<1> QED
  BY <1>3, <1>4

\* What normalization makes of a valid link.
LEMMA NormalizedLink ==
    ASSUME NEW u \in Addresses, IsValid(u)
    PROVE  LET v == Normalize(u)
           IN /\ v \in Addresses /\ v # NoUrl /\ ~v.refused
              /\ v.host = WithoutWww(u.host)
              /\ v.path = WithoutSlashes(WithoutParams(u.path))
              /\ v.query = u.query
<1> DEFINE v == [host |-> WithoutWww(u.host), refused |-> FALSE,
                 path |-> WithoutSlashes(WithoutParams(u.path)), query |-> u.query]
<1>1. u.host \in Seq(Labels) /\ u.path \in Seq(Segments) /\ u.query \in Queries
  BY DEF Addresses
<1>2. WithoutWww(u.host) \in Seq(Labels) /\ WithoutSlashes(WithoutParams(u.path)) \in Seq(Segments)
  BY <1>1, WwwGoes, ParamsGo, SlashesGo
<1>3. v \in Addresses
  BY <1>1, <1>2 DEF Addresses
<1>4. v # NoUrl
  BY <1>3, EntriesAssumption
<1>5. Normalize(u) = v
  BY DEF Normalize
<1> QED
  BY <1>3, <1>4, <1>5

\* The handler classifies the normalized link, whose host has lost one www; the
\* classifier takes off another one.
LEMMA LinkIsRecognised ==
    ASSUME NEW l \in Addresses, IsValid(l)
    PROVE  Classify(Asked(l)) = EntryOf(l.host)
<1> DEFINE a == Asked(l)
<1>1. a \in Addresses /\ a # NoUrl /\ ~a.refused /\ a.host = WithoutWww(l.host)
  BY NormalizedLink DEF Asked
<1>2. l.host \in Seq(Labels) /\ Len(l.host) >= 2 /\ Len(l.host) \in Nat
  BY DEF Addresses, IsValid
<1>3. a.host \in Seq(Labels) /\ EntryOf(a.host) = EntryOf(l.host)
  BY <1>1, <1>2, EntryWithoutWww DEF Addresses
<1> HIDE DEF a
<1>4. CASE IsValid(a)
  <2>1. Classify(a) = MatchDomain(WithoutWww(a.host))
    BY <1>4 DEF Classify, ExtractDomain
  <2>2. WithoutWww(a.host) \in Seq(Labels)
    BY <1>3, WwwGoes
  <2>3. MatchDomain(WithoutWww(a.host)) = EntryOf(WithoutWww(a.host))
    BY <2>2, MatchIsEntry
  <2>4. EntryOf(WithoutWww(a.host)) = EntryOf(a.host)
    BY <1>3, EntryWithoutWww
  <2> QED
    BY <1>3, <2>1, <2>3, <2>4 DEF a
<1>5. CASE ~IsValid(a)
  <2>1. Classify(a) = MatchDomain(<<>>)
    BY <1>5 DEF Classify, ExtractDomain
  <2>2. <<>> \in Seq(Labels) /\ Len(<<>>) = 0
    OBVIOUS
  <2>3. MatchDomain(<<>>) = EntryOf(<<>>)
    BY <2>2, MatchIsEntry
  <2>4. \A h \in Seq(Labels) : Len(h) < 2 => EntryOf(h) = <<>>
    <3> SUFFICES ASSUME NEW h \in Seq(Labels), Len(h) < 2 PROVE EntryOf(h) = <<>>
      OBVIOUS
    <3>1. \A e \in Entries : ~(Len(e) <= Len(h))
      BY EntriesTyped
    <3> QED
      BY <3>1 DEF EntryOf
  <2>5. Len(a.host) < 2
    BY <1>1, <1>3, <1>5 DEF IsValid
  <2>6. EntryOf(<<>>) = <<>>
    <3>1. \A e \in Entries : ~(Len(e) <= Len(<<>>))
      BY <2>2, EntriesTyped
    <3> QED
      BY <3>1, Zenon DEF EntryOf
  <2>7. EntryOf(a.host) = <<>>
    BY <1>3, <2>4, <2>5
  <2> QED
    BY <1>3, <2>1, <2>3, <2>6, <2>7 DEF a
<1> QED
  BY <1>4, <1>5

\* Normalization keeps the page, unless it runs out of labels.
LEMMA NormalizedNamesThePage ==
    ASSUME NEW u \in Addresses \cup {NoUrl}, Normalize(u) # NoUrl, NoParams(u.path)
    PROVE  /\ u \in Addresses /\ Normalize(u) \in Addresses
           /\ NoParams(Normalize(u).path) /\ SamePage(Normalize(u), u)
<1>1. IsValid(u) /\ u \in Addresses
  BY DEF Normalize, IsValid
<1> DEFINE v == Normalize(u)
<1>2. u.host \in Seq(Labels) /\ u.path \in Seq(Segments)
  BY <1>1 DEF Addresses
<1>3. /\ v \in Addresses /\ v.host = WithoutWww(u.host) /\ v.query = u.query
      /\ v.path = WithoutSlashes(WithoutParams(u.path))
  BY <1>1, NormalizedLink
<1>4. v.path = WithoutSlashes(u.path)
  BY <1>2, <1>3, ParamsGo
<1>5. Bare(v.host) = Bare(u.host)
  BY <1>2, <1>3, BareWithoutWww
<1>6. WithoutSlashes(v.path) = WithoutSlashes(u.path) /\ NoParams(v.path)
  BY <1>2, <1>4, SlashesGo
<1> HIDE DEF v
<1>7. SamePage(v, u)
  BY <1>3, <1>5, <1>6 DEF SamePage
<1> QED
  BY <1>1, <1>3, <1>6, <1>7 DEF v

LEMMA HashNamesThePage ==
    ASSUME NEW l \in Addresses, ~HasParams(l), UrlHash(Asked(l)) # NoUrl
    PROVE  SamePage(UrlHash(Asked(l)), l)
<1>1. NoParams(l.path)
  BY DEF HasParams, NoParams
<1>2. Normalize(NoUrl) = NoUrl
  BY DEF Normalize, IsValid
<1> DEFINE a == Normalize(l)
           b == Normalize(a)
<1>3. UrlHash(Asked(l)) = b
  BY DEF UrlHash, Asked
<1> HIDE DEF a, b
<1>4. b # NoUrl /\ a # NoUrl
  BY <1>2, <1>3 DEF b
<1>5. a \in Addresses /\ NoParams(a.path) /\ SamePage(a, l)
  BY <1>1, <1>4, NormalizedNamesThePage DEF a
<1>6. SamePage(b, a)
  BY <1>4, <1>5, NormalizedNamesThePage DEF b
<1> QED
  BY <1>3, <1>5, <1>6 DEF SamePage

LEMMA FiledNamesThePage ==
    ASSUME NEW l \in Addresses, ~HasParams(l), UrlHash(Normalize(Target(l))) # NoUrl
    PROVE  SamePage(UrlHash(Normalize(Target(l))), l)
<1>1. NoParams(l.path)
  BY DEF HasParams, NoParams
<1>2. Normalize(NoUrl) = NoUrl
  BY DEF Normalize, IsValid
<1> DEFINE a == Normalize(l)
           b == Normalize(a)
           c == Normalize(b)
           d == Normalize(c)
<1>3. UrlHash(Normalize(Target(l))) = d
  BY DEF UrlHash, Asked, Target
<1> HIDE DEF a, b, c, d
<1>4. d # NoUrl /\ c # NoUrl /\ b # NoUrl /\ a # NoUrl
  BY <1>2, <1>3 DEF b, c, d
<1>5. a \in Addresses /\ NoParams(a.path) /\ SamePage(a, l)
  BY <1>1, <1>4, NormalizedNamesThePage DEF a
<1>6. b \in Addresses /\ NoParams(b.path) /\ SamePage(b, a)
  BY <1>4, <1>5, NormalizedNamesThePage DEF b
<1>7. c \in Addresses /\ NoParams(c.path) /\ SamePage(c, b)
  BY <1>4, <1>6, NormalizedNamesThePage DEF c
<1>8. SamePage(d, c)
  BY <1>4, <1>7, NormalizedNamesThePage DEF d
<1> QED
  BY <1>3, <1>5, <1>6, <1>7, <1>8 DEF SamePage

-----------------------------------------------------------------------------
(* Pages *)

\* The paragraphs _normalize_paragraphs keeps: the k-th of them exists for every k.
LEMMA NormalizedIsText ==
    ASSUME NEW t \in Seq(Fragments)
    PROVE  Normalized(t) \in Seq(Fragments)
<1> DEFINE n == Len(t)
           kept == {i \in DOMAIN t : IsBody(t[i])}
           upTo(i) == {j \in kept : j <= i}
           rank(i) == Cardinality(upTo(i))
           count == Cardinality(kept)
<1>1. n \in Nat /\ kept \subseteq 1..n /\ \A i \in kept : t[i] \in Fragments
  OBVIOUS
<1>2. Normalized(t) = [k \in 1..count |-> t[CHOOSE i \in kept : rank(i) = k]]
  BY DEF Normalized
<1> HIDE DEF n, kept
<1>3. IsFiniteSet(kept) /\ \A i \in 0..n : IsFiniteSet(upTo(i))
  <2>1. IsFiniteSet(1..n)
    BY <1>1, FS_Interval
  <2>2. \A i \in 0..n : upTo(i) \subseteq 1..n
    BY <1>1
  <2> QED
    BY <1>1, <2>1, <2>2, FS_Subset
<1>4. count \in Nat /\ \A i \in 0..n : rank(i) \in Nat
  BY <1>3, FS_CardinalityType
<1>5. rank(0) = 0 /\ rank(n) = count
  <2>1. \A j \in kept : ~(j <= 0) /\ j <= n
    BY <1>1
  <2>2. upTo(0) = {} /\ upTo(n) = kept
    BY <2>1, Zenon
  <2> QED
    BY <2>2, FS_EmptySet
<1>6. ASSUME NEW i \in 0..n, i # n
      PROVE  \/ i + 1 \in kept /\ rank(i + 1) = rank(i) + 1
             \/ rank(i + 1) = rank(i)
  <2>0. \A j \in kept : j <= i + 1 <=> j <= i \/ j = i + 1
    BY <1>1
  <2>1. CASE i + 1 \in kept
    <3>1. upTo(i + 1) = upTo(i) \cup {i + 1} /\ i + 1 \notin upTo(i)
      <4>1. ~(i + 1 <= i)
        BY <1>1
      <4> QED
        BY <2>0, <2>1, <4>1, Zenon
    <3> HIDE DEF upTo
    <3> QED
      BY <1>3, <2>1, <3>1, FS_AddElement
  <2>2. CASE i + 1 \notin kept
    <3>1. upTo(i + 1) = upTo(i)
      BY <2>0, <2>2
    <3> QED
      BY <3>1
  <2> QED
    BY <2>1, <2>2
<1> HIDE DEF rank, count
<1>7. ASSUME NEW k \in 1..count PROVE \E i \in kept : rank(i) = k
  <2> DEFINE T == {i \in 0..n : rank(i) >= k}
  <2>1. T \in SUBSET Nat /\ n \in T
    BY <1>1, <1>4, <1>5
  <2>2. PICK x \in T : \A y \in T : x <= y
    BY <2>1, LeastElement
  <2>3. x \in 1..n /\ rank(x) >= k
    BY <1>1, <1>5, <2>2
  <2>4. x - 1 \in 0..n /\ x - 1 # n /\ x - 1 + 1 = x /\ x - 1 \notin T
    BY <1>1, <2>2, <2>3
  <2>5. rank(x - 1) < k
    BY <1>4, <2>4
  <2>6. \/ x \in kept /\ rank(x) = rank(x - 1) + 1
        \/ rank(x) = rank(x - 1)
    BY <1>6, <2>4
  <2>7. rank(x - 1) \in Nat /\ rank(x) \in Nat
    BY <1>4, <2>3, <2>4
  <2> HIDE DEF T
  <2> QED
    BY <2>3, <2>5, <2>6, <2>7
<1>8. \A k \in 1..count : t[CHOOSE i \in kept : rank(i) = k] \in Fragments
  BY <1>1, <1>7
<1>9. Normalized(t) \in [1..count -> Fragments]
  BY <1>2, <1>8
<1> QED
  BY <1>4, <1>9, SeqDef

LEMMA FoundBodyIsText ==
    ASSUME NEW bodies \in Seq(Seq(Fragments))
    PROVE  FindArticleBody(bodies) \in Seq(Fragments)
<1> DEFINE C == Seq(Fragments)
           found == {i \in DOMAIN bodies : bodies[i] # <<>>}
           b == bodies[CHOOSE i \in found : \A j \in found : i <= j]
<1>1. <<>> \in C
  OBVIOUS
<1>2. FindArticleBody(bodies) = IF found = {} THEN <<>> ELSE b
  BY DEF FindArticleBody
<1> HIDE DEF C
<1>3. found \in SUBSET Nat /\ \A i \in found : bodies[i] \in C
  BY DEF C
<1>4. ASSUME found # {} PROVE b \in C
  <2>1. \E i \in found : \A j \in found : i <= j
    BY <1>3, <1>4, LeastElement
  <2> HIDE DEF found
  <2> QED
    BY <1>3, <2>1
<1> QED
  BY <1>1, <1>2, <1>4 DEF C

LEMMA CandidatesAreTexts ==
    ASSUME NEW p \in Pages, NEW i \in 1..3
    PROVE  Candidates(p)[i] \in MaybeText
<1> DEFINE B == Seq(Seq(Fragments))
<1>1. p.readability \in MaybeText /\ p.scripts \in Seq(B) /\ p.article \in MaybeText
  BY DEF Pages
<1>2. \A t \in Seq(Fragments) : LongEnough(t) \in MaybeText
  BY DEF LongEnough, MaybeText
<1>3. TryReadability(p) \in MaybeText /\ TryArticleTag(p) \in MaybeText
  <2>1. \A t \in MaybeText : t # None => Normalized(t) \in Seq(Fragments)
    BY NormalizedIsText DEF MaybeText
  <2>2. None \in MaybeText
    BY DEF MaybeText
  <2> QED
    BY <1>1, <1>2, <2>1, <2>2 DEF TryReadability, TryArticleTag
<1>4. TryJsonLd(p) \in MaybeText
  <2> DEFINE found == {k \in DOMAIN p.scripts : LongEnough(FindArticleBody(p.scripts[k])) # None}
             s == p.scripts[CHOOSE k \in found : \A j \in found : k <= j]
  <2>1. TryJsonLd(p) = IF found = {} THEN None ELSE FindArticleBody(s)
    BY DEF TryJsonLd
  <2> HIDE DEF B
  <2>2. found \in SUBSET Nat /\ \A k \in found : p.scripts[k] \in B
    BY <1>1
  <2>3. ASSUME found # {} PROVE s \in B
    <3>1. \E k \in found : \A j \in found : k <= j
      BY <2>2, <2>3, LeastElement
    <3> HIDE DEF found
    <3> QED
      BY <2>2, <3>1
  <2> HIDE DEF s
  <2>4. ASSUME found # {} PROVE FindArticleBody(s) \in Seq(Fragments)
    BY <2>3, <2>4, FoundBodyIsText DEF B
  <2> QED
    BY <2>1, <2>4 DEF MaybeText
<1> QED
  BY <1>3, <1>4 DEF Candidates

LEMMA LongestIsACandidate ==
    ASSUME NEW p \in Pages, LongestCandidate(p) # None
    PROVE  \E i \in 1..3 :
              /\ LongestCandidate(p) = Candidates(p)[i]
              /\ Candidates(p)[i] # None
              /\ \A j \in 1..3 : Candidates(p)[j] # None =>
                                   Len(Candidates(p)[j]) <= Len(Candidates(p)[i])
<1> DEFINE c == Candidates(p)
           Best(i) == /\ c[i] # None
                      /\ \A j \in 1..3 : c[j] # None => Len(c[j]) <= Len(c[i])
           longest == {i \in 1..3 : Best(i)}
           k == CHOOSE i \in longest : \A j \in longest : i <= j
<1>1. LongestCandidate(p) = IF longest = {} THEN None ELSE c[k]
  BY DEF LongestCandidate
<1> HIDE DEF c, Best
<1>2. longest \in SUBSET Nat /\ longest # {}
  BY <1>1
<1>3. \E i \in longest : \A j \in longest : i <= j
  BY <1>2, LeastElement
<1>4. k \in longest
  BY <1>3
<1> QED
  BY <1>1, <1>2, <1>4 DEF c, Best

LEMMA NoticeIsNoFragment == "notice" \notin Fragments /\ "more" \in Fragments
BY ExtractorAssumption DEF Fragments

\* What is left of a truncated text is a beginning of it, before the first marker.
LEMMA TailIsStripped ==
    ASSUME NEW t \in Seq(Fragments), IsTruncated(t)
    PROVE  LET s == StripTruncationTail(t)
           IN /\ s \in Seq(Fragments) /\ s = SubSeq(t, 1, Len(s))
              /\ "more" \notin FragmentsOf(s)
<1> DEFINE marks == {i \in DOMAIN t : t[i] = "more"}
           m == CHOOSE i \in marks : \A j \in marks : i <= j
           u == SubSeq(t, 1, m - 1)
           kept == {i \in DOMAIN u : u[i] # "space"}
           l == CHOOSE i \in kept : \A j \in kept : j <= i
           s == StripTruncationTail(t)
<1>1. marks # {} /\ DOMAIN t = 1..Len(t) /\ Len(t) \in Nat
  BY DEF IsTruncated, FragmentsOf
<1>2. m \in marks /\ \A j \in marks : m <= j
  <2>1. marks \in SUBSET Nat
    BY <1>1
  <2>2. \E i \in marks : \A j \in marks : i <= j
    BY <1>1, <2>1, LeastElement
  <2> HIDE DEF marks
  <2> QED
    BY <2>2
<1>3. s = IF kept = {} THEN <<>> ELSE SubSeq(u, 1, l)
  BY <1>1 DEF StripTruncationTail, RightStripped
<1> HIDE DEF m
<1>4. m - 1 \in 0..Len(t) /\ \A i \in 1..m - 1 : i \in 1..Len(t) /\ t[i] # "more"
  BY <1>1, <1>2
<1>5. /\ u \in Seq(Fragments) /\ Len(u) = m - 1 /\ DOMAIN u = 1..m - 1
      /\ \A i \in 1..m - 1 : u[i] = t[i]
  BY <1>4, PrefixProperties
<1> HIDE DEF u, s
<1>6. CASE kept = {}
  <2>1. s = <<>> /\ Len(s) = 0
    BY <1>3, <1>6
  <2> QED
    BY <2>1 DEF FragmentsOf, s
<1>7. CASE kept # {}
  <2>1. l \in kept
    <3>1. kept \in SUBSET (0..m - 1) /\ m - 1 \in Nat
      BY <1>4, <1>5
    <3>2. \E i \in kept : \A j \in kept : j <= i
      BY <1>7, <3>1, GreatestElement
    <3> HIDE DEF kept
    <3> QED
      BY <3>2
  <2> HIDE DEF l
  <2>2. l \in 1..m - 1 /\ l \in 0..Len(u) /\ l \in 0..Len(t) /\ s = SubSeq(u, 1, l)
    BY <1>3, <1>4, <1>5, <1>7, <2>1
  <2>3. /\ s \in Seq(Fragments) /\ Len(s) = l /\ DOMAIN s = 1..l
        /\ \A i \in 1..l : s[i] = u[i]
    BY <1>5, <2>2, PrefixProperties
  <2>4. /\ SubSeq(t, 1, l) \in Seq(Fragments) /\ Len(SubSeq(t, 1, l)) = l
        /\ \A i \in 1..l : SubSeq(t, 1, l)[i] = t[i]
    BY <2>2, PrefixProperties
  <2>5. \A i \in 1..l : i \in 1..m - 1 /\ s[i] = t[i] /\ s[i] # "more"
    BY <1>4, <1>5, <2>2, <2>3
  <2>6. s = SubSeq(t, 1, l)
    BY <2>3, <2>4, <2>5, SeqEqual
  <2>7. "more" \notin FragmentsOf(s)
    BY <2>3, <2>5 DEF FragmentsOf
  <2> QED
    BY <2>3, <2>6, <2>7 DEF s
<1> QED
  BY <1>6, <1>7

\* What a reader gets of a page.
LEMMA ExtractedTextIsMarked ==
    ASSUME NEW p \in Pages, Extract(p) # None
    PROVE  \E i \in 1..3 :
              LET whole == Candidates(p)[i]
                  shown == SubSeq(Extract(p), 1, Len(Extract(p)) - 1)
              IN /\ whole # None
                 /\ \A j \in 1..3 : Candidates(p)[j] # None =>
                                       Len(Candidates(p)[j]) <= Len(whole)
                 /\ "more" \notin FragmentsOf(Extract(p))
                 /\ \/ Extract(p) = whole /\ "notice" \notin FragmentsOf(Extract(p))
                    \/ /\ Extract(p) = Append(shown, "notice")
                       /\ "more" \in FragmentsOf(whole)
                       /\ shown = SubSeq(whole, 1, Len(shown))
<1> DEFINE w == LongestCandidate(p)
           t == Extract(p)
           s == StripTruncationTail(w)
           shown == SubSeq(t, 1, Len(t) - 1)
<1>1. w # None /\ t = IF IsTruncated(w) THEN Append(s, "notice") ELSE w
  BY DEF Extract
<1>2. PICK i \in 1..3 : /\ w = Candidates(p)[i] /\ Candidates(p)[i] # None
                        /\ \A j \in 1..3 : Candidates(p)[j] # None =>
                                   Len(Candidates(p)[j]) <= Len(Candidates(p)[i])
  BY <1>1, LongestIsACandidate
<1>3. w \in Seq(Fragments)
  BY <1>1, <1>2, CandidatesAreTexts DEF MaybeText
<1> HIDE DEF w
<1>4. "more" \notin FragmentsOf(t)
      /\ \/ t = w /\ "notice" \notin FragmentsOf(t)
         \/ /\ t = Append(shown, "notice")
            /\ "more" \in FragmentsOf(w)
            /\ shown = SubSeq(w, 1, Len(shown))
  <2>1. CASE ~IsTruncated(w)
    <3>1. t = w
      BY <1>1, <2>1
    <3>2. \A x \in FragmentsOf(w) : x \in Fragments
      BY <1>3 DEF FragmentsOf
    <3> QED
      BY <2>1, <3>1, <3>2, NoticeIsNoFragment DEF IsTruncated
  <2>2. CASE IsTruncated(w)
    <3>1. /\ s \in Seq(Fragments) /\ s = SubSeq(w, 1, Len(s))
          /\ "more" \notin FragmentsOf(s)
      BY <1>3, <2>2, TailIsStripped
    <3>2. t = Append(s, "notice")
      BY <1>1, <2>2
    <3> DEFINE F == Fragments \cup {"notice"}
    <3> HIDE DEF s, t
    <3>3. s \in Seq(F) /\ Len(s) \in Nat
      BY <3>1
    <3>4. /\ t \in Seq(F) /\ Len(t) = Len(s) + 1 /\ t[Len(s) + 1] = "notice"
          /\ \A k \in 1..Len(s) : t[k] = s[k]
      BY <3>2, <3>3, AppendProperties
    <3>5. Len(s) \in 0..Len(t) /\ Len(t) - 1 = Len(s)
      BY <3>3, <3>4
    <3>6. /\ shown \in Seq(F) /\ Len(shown) = Len(s)
          /\ \A k \in 1..Len(s) : shown[k] = t[k]
      BY <3>4, <3>5, PrefixProperties
    <3> HIDE DEF shown
    <3>7. shown = s
      BY <3>3, <3>4, <3>6, SeqEqual
    <3>8. "more" \notin FragmentsOf(t)
      <4>1. \A k \in 1..Len(s) : t[k] # "more"
        BY <3>1, <3>3, <3>4 DEF FragmentsOf
      <4>2. \A k \in DOMAIN t : k \in 1..Len(s) \/ k = Len(s) + 1
        BY <3>3, <3>4
      <4> QED
        BY <3>4, <4>1, <4>2 DEF FragmentsOf
    <3> QED
      BY <2>2, <3>1, <3>2, <3>7, <3>8 DEF IsTruncated
  <2> QED
    BY <2>1, <2>2
<1> QED
  BY <1>2, <1>4

-----------------------------------------------------------------------------
\* Whatever pages a site serves, the reader gets the longest text a strategy found,
\* whole, or its beginning with the notice that it was cut.
THEOREM MarksCutText == Spec => []CutTextIsMarked
<1>1. Course => CutTextIsMarked
  <2> SUFFICES ASSUME Course, text # None PROVE CutTextIsMarked
    BY DEF CutTextIsMarked
  <2>1. page \in Pages /\ text = Extract(page)
    BY FetchAssumption DEF Course
  <2> QED
    BY <2>1, ExtractedTextIsMarked DEF CutTextIsMarked
<1> QED
  BY <1>1, Inductive, PTL

\* Whatever entries the map has, a link is classified by the most specific one.
THEOREM RecognisesLinks == Spec => []RecognisedByItsEntry
<1>1. TypeOK => RecognisedByItsEntry
  <2> SUFFICES ASSUME TypeOK, link # NoUrl, IsValid(link)
               PROVE  Classify(Asked(link)) = EntryOf(link.host)
    BY DEF RecognisedByItsEntry
  <2>1. link \in Addresses
    BY FetchAssumption DEF TypeOK
  <2> QED
    BY <2>1, LinkIsRecognised
<1> QED
  BY <1>1, Inductive, PTL

\* An article is found again only under links to the page it was read from.
THEOREM SeparatesPages == Spec => []CacheKeySeparatesPages
<1>1. Course => CacheKeySeparatesPages
  <2> SUFFICES ASSUME Course, pc = "done", ~HasParams(link),
                      UrlHash(Normalize(Target(link))) # NoUrl,
                      NEW l \in Links, ~HasParams(l),
                      UrlHash(Asked(l)) = UrlHash(Normalize(Target(link)))
               PROVE  SamePage(l, link)
    BY DEF CacheKeySeparatesPages
  <2>1. l \in Addresses /\ link \in Addresses
    BY FetchAssumption DEF Course
  <2>2. SamePage(UrlHash(Asked(l)), l)
    BY <2>1, HashNamesThePage
  <2>3. SamePage(UrlHash(Normalize(Target(link))), link)
    BY <2>1, FiledNamesThePage
  <2> QED
    BY <2>2, <2>3 DEF SamePage
<1> QED
  BY <1>1, Inductive, PTL
=============================================================================
