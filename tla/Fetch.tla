------------------------------- MODULE Fetch -------------------------------
(***************************************************************************)
(* The way from a link in a message to the text of an article, by one of the *)
(* methods that read the site itself: handle_message's checks, fetch_via_... *)
(* of js_disable.py, googlebot_spoof.py and wsj.py, the HTTP client of       *)
(* http_client.py with the address check of url_guard.py on every hop, and   *)
(* the extraction.  Sites, DNS and the network answer anything; the caller   *)
(* may be cancelled at any await.                                            *)
(***************************************************************************)
EXTENDS Urls, ContentExtractor, FetchResults

CONSTANTS
    Links,          \* links users send
    Served(_),      \* the pages a site may serve for a link
    MaxRetry,       \* MAX_RETRY_COUNT
    MaxRedirects,   \* MAX_REDIRECTS
    MaxBytes,       \* MAX_HTTP_RESPONSE_BYTES
    PartialLength   \* PARTIAL_CONTENT_THRESHOLD

ASSUME FetchAssumption ==
    /\ Links \subseteq Addresses
    /\ \A l \in Links : Served(l) \subseteq Pages
    /\ MaxRetry \in Nat \ {0} /\ MaxRedirects \in Nat
    /\ MaxBytes \in Nat \ {0} /\ PartialLength \in Nat

\* The longest list of attempts: of the crawler, or the three variants of wsj.
MaxAttempts == IF MaxRetry > 3 THEN MaxRetry ELSE 3

\* A method sends no more than this (SiteIsSpared); beyond it, sent stops counting.
MostRequests == MaxAttempts * (MaxRedirects + 1)

Statuses == {"ok", "no_content", "unchanged", "refused", "failed"}
SiteMethods == {"js_disable", "googlebot_spoof", "wsj_bypass"}

VARIABLES
    link, method,
    pc,
    attempt,        \* number of the request of the method, from 1
    hops,           \* redirects followed by this request
    address,        \* of this hop: new, or it has passed ensure_public_url
    body,           \* bytes of the response kept so far
    client,         \* the AsyncClient the method made
    answered,       \* status of the last response; a pause forgets it
    sent,           \* history: requests that left the bot
    page,           \* history: the page the text was taken from
    text,           \* Article.content
    outcome

vars == <<link, method, pc, attempt, hops, address, body, client, answered, sent,
          page, text, outcome>>

\* Groups that the steps below leave alone together.
asked == <<link, method>>
result == <<page, text>>
request == <<hops, address, body>>

TypeOK ==
    /\ link \in Links \cup {NoUrl} /\ method \in SiteMethods \cup {None}
    /\ pc \in {"idle", "check", "send", "body", "pause", "close", "done"}
    /\ attempt \in 0..MaxAttempts /\ hops \in 0..MaxRedirects + 1
    /\ address \in {"new", "checked"} /\ body \in 0..MaxBytes
    /\ client \in {"none", "open", "closed"}
    /\ answered \in Statuses \cup {"none"} /\ sent \in 0..MostRequests + 1
    /\ page # None => page \in Served(link) /\ text = Extract(page)
    /\ outcome \in Texts \cup Errors \cup {"pending", "none", "again", "rejected", "cancelled"}

Init ==
    /\ link = NoUrl /\ method = None
    /\ pc = "idle"
    /\ attempt = 0 /\ hops = 0 /\ address = "new" /\ body = 0
    /\ client = "none" /\ answered = "none" /\ sent = 0
    /\ page = None /\ text = None /\ outcome = "pending"

\* What the handler stores and asks the orchestrator for; what the method reads.
Asked(l) == Normalize(l)
Target(l) == Normalize(Asked(l))

\* _build_amp_url: only addresses of wsj.com with a path have an amp variant.
HasAmp(u) ==
    /\ u.path # <<>> /\ Len(u.host) >= 2
    /\ SubSeq(u.host, Len(u.host) - 1, Len(u.host)) = <<"wsj", "com">>

Attempts(m, l) ==
    CASE m = "js_disable" -> 1
      [] m = "googlebot_spoof" -> MaxRetry
      [] m = "wsj_bypass" -> IF HasAmp(Target(l)) THEN 3 ELSE 2

\* is_valid_url guards the handler, norm_url the method.
Handle(l, m) ==
    /\ pc = "idle"
    /\ link' = l /\ method' = m
    /\ IF IsValid(l) /\ Target(l) # NoUrl
       THEN pc' = "check" /\ client' = "open" /\ attempt' = 1 /\ UNCHANGED outcome
       ELSE /\ pc' = "done"
            /\ outcome' = IF IsValid(l) THEN "none" ELSE "rejected"
            /\ UNCHANGED <<client, attempt>>
    /\ UNCHANGED <<request, answered, sent, result>>

\* The method ends: its finally clause is next.
End(end) ==
    /\ pc' = "close"
    /\ outcome' = end
    /\ UNCHANGED <<attempt, request>>

\* An exception in client.get: only _try_fetch of wsj.py catches HTTP errors.
Raise(error) ==
    End(IF method = "wsj_bypass" /\ error = "net" THEN "again" ELSE error)

\* _validate_request, before the first hop and after every redirect.
Check ==
    /\ pc = "check"
    /\ \/ hops > MaxRedirects /\ Raise("net")       \* TooManyRedirects
       \/ hops <= MaxRedirects /\ Raise("net")      \* UnsafeUrlError
       \/ hops <= MaxRedirects /\ Raise("other")    \* the resolver rejects the name
       \/ /\ hops <= MaxRedirects
          /\ pc' = "send"
          /\ address' = "checked"
          /\ UNCHANGED <<attempt, hops, body, outcome>>
    /\ UNCHANGED <<asked, client, answered, sent, result>>

\* The network fails, or content-length is too large, or the body may be read.
Send ==
    /\ pc = "send"
    /\ sent' = IF sent > MostRequests THEN sent ELSE sent + 1
    /\ \/ Raise("net")
       \/ /\ pc' = "body"
          /\ body' = 0
          /\ UNCHANGED <<attempt, hops, address, outcome>>
    /\ UNCHANGED <<asked, client, answered, result>>

\* _buffer_limited_response: a chunk of n decoded bytes, whatever was declared.
Receive(n) ==
    /\ pc = "body"
    /\ IF body + n > MaxBytes THEN Raise("net")
       ELSE /\ body' = body + n
            /\ UNCHANGED <<pc, attempt, hops, address, outcome>>
    /\ UNCHANGED <<asked, client, answered, sent, result>>

RedirectUnchecked ==
    /\ pc = "body"
    /\ hops <= MaxRedirects
    /\ pc' = "send"
    /\ hops' = hops + 1 /\ address' = "new" /\ body' = 0
    /\ UNCHANGED <<asked, attempt, client, answered, sent, result, outcome>>

RedirectForEver ==
    /\ pc = "body"
    /\ pc' = "check"
    /\ address' = "new" /\ body' = 0
    /\ UNCHANGED <<asked, attempt, hops, client, answered, sent, result, outcome>>

\* The response was a redirect; follow_redirects.
Redirect ==
    /\ pc = "body"
    /\ pc' = "check"
    /\ hops' = hops + 1 /\ address' = "new" /\ body' = 0
    /\ UNCHANGED <<asked, attempt, client, answered, sent, result, outcome>>

\* How long a text the reader would get.
Size(content) ==
    CASE content = None -> "none"
      [] content # None /\ IsBlank(content) -> "blank"
      [] content # None /\ ~IsBlank(content) /\ Len(content) < PartialLength -> "teaser"
      [] OTHER -> "full"

\* The loop of fetch_via_googlebot_spoof: the same client asks again.
AskAgain(stage) ==
    IF attempt = Attempts(method, link) THEN End("none")
    ELSE /\ pc' = stage
         /\ attempt' = attempt + 1
         /\ hops' = 0 /\ address' = "new" /\ body' = 0
         /\ UNCHANGED outcome

JudgeGooglebotHtmlOnly(status, readable, content) ==
    CASE status = "ok" /\ readable -> End(Size(content))
      [] status = "refused" -> AskAgain("pause")
      [] status \in {"unchanged", "failed"} -> End("net")
      [] OTHER -> AskAgain("check")

JudgeGooglebotAtOnce(status, readable, content) ==
    CASE status = "ok" /\ readable /\ Size(content) \in {"full", "teaser"} -> End(Size(content))
      [] status \in {"unchanged", "failed"} -> End("net")
      [] OTHER -> AskAgain("check")

\* raise_for_status turns everything but 2xx, 403 and 429 into an HTTP error; a
\* page without a usable text is asked for again at once.
JudgeGooglebot(status, readable, content) ==
    CASE status = "ok" /\ readable /\ Size(content) \in {"full", "teaser"} -> End(Size(content))
      [] status = "refused" -> AskAgain("pause")
      [] status \in {"unchanged", "failed"} -> End("net")
      [] OTHER -> AskAgain("check")

JudgeJsDisable(status, readable, content) ==
    End(IF status \notin {"refused", "failed"} /\ readable THEN Size(content) ELSE "none")

JudgeWsj(status, readable, content) ==
    End(IF status = "ok" /\ readable /\ Size(content) \in {"full", "teaser"}
        THEN Size(content) ELSE "again")

\* The response is complete: 200, another 2xx, a 3xx that leads nowhere, 403 or
\* 429, another error; as text/html or not.
Respond(status, html, p) ==
    /\ pc = "body"
    /\ LET content == IF html THEN Extract(p) ELSE None
       IN /\ CASE method = "js_disable" -> JudgeJsDisable(status, html, content)
               [] method = "googlebot_spoof" -> JudgeGooglebot(status, html, content)
               [] method = "wsj_bypass" -> JudgeWsj(status, html, content)
          /\ page' = IF outcome' \in Texts THEN p ELSE None
          /\ text' = IF outcome' \in Texts THEN content ELSE None
    /\ answered' = status
    /\ UNCHANGED <<asked, client, sent>>

\* Whether the method hands a page with this status to the extractor.
IsExtracted(status) ==
    IF method = "js_disable" THEN status \notin {"refused", "failed"} ELSE status = "ok"

\* extractor.extract raises: a RecursionError of json.loads in _try_json_ld, or
\* whatever the libraries raise beyond what it expects.  No method catches it.
ExtractionRaises(status, error) ==
    /\ pc = "body"
    /\ IsExtracted(status)
    /\ End(error)
    /\ answered' = status
    /\ UNCHANGED <<asked, client, sent, result>>

\* asyncio.sleep(RETRY_BACKOFF_FACTOR ** attempt)
Pause ==
    /\ pc = "pause"
    /\ pc' = "check"
    /\ answered' = "none"
    /\ UNCHANGED <<asked, attempt, request, client, sent, result, outcome>>

\* finally: client.aclose().  _try_fetch makes a client for each variant.
Close ==
    /\ pc = "close"
    /\ IF outcome = "again" /\ attempt < Attempts(method, link)
       THEN /\ pc' = "check"
            /\ client' = "open"
            /\ attempt' = attempt + 1
            /\ hops' = 0 /\ address' = "new" /\ body' = 0
            /\ outcome' = "pending"
            /\ page' = None /\ text' = None
       ELSE /\ pc' = "done"
            /\ client' = "closed"
            /\ outcome' = IF outcome = "again" THEN "none" ELSE outcome
            /\ UNCHANGED <<attempt, request, result>>
    /\ UNCHANGED <<asked, answered, sent>>

CancelAtOnce ==
    /\ pc \notin {"idle", "done"}
    /\ pc' = IF pc \in {"pause", "close"} THEN "done" ELSE "close"
    /\ client' = IF pc = "close" THEN "closed" ELSE client
    /\ outcome' = "cancelled"
    /\ page' = None /\ text' = None
    /\ UNCHANGED <<asked, attempt, request, answered, sent>>

\* asyncio.timeout of the handler: CancelledError at whichever await it is.  Inside
\* aclose() it ends the method: httpx has marked the client closed by then.
Cancel ==
    /\ pc \notin {"idle", "done"}
    /\ IF pc = "close" THEN pc' = "done" /\ client' = "closed"
       ELSE pc' = "close" /\ UNCHANGED client
    /\ outcome' = "cancelled"
    /\ page' = None /\ text' = None
    /\ UNCHANGED <<asked, attempt, request, answered, sent>>

Work ==
    \/ Check \/ Send \/ Redirect \/ Pause \/ Close
    \/ \E n \in 1..2 : Receive(n)
    \/ \E status \in Statuses, html \in BOOLEAN, p \in Served(link) : Respond(status, html, p)
    \/ \E status \in Statuses, error \in {"runtime", "other"} : ExtractionRaises(status, error)

Next ==
    \/ \E l \in Links, m \in SiteMethods : Handle(l, m)
    \/ Work
    \/ Cancel

\* The client has timeouts for connecting, reading and writing.
Fairness == WF_vars(Work)

Spec == Init /\ [][Next]_vars
FairSpec == Spec /\ Fairness

-----------------------------------------------------------------------------
(* Properties *)

\* What Orchestrator assumes of the methods (FetchResults) is what they do: each
\* ends in a text, in None or in an error of one of the three classes the except
\* clauses of its callers tell apart, and the crawler and the variants of wsj never
\* pass a blank text on as the article.
ResultsAsExpected ==
    pc = "done" /\ outcome \notin {"rejected", "cancelled"} => outcome \in Results(method)

\* Whatever raises and whenever the caller is cancelled, the method has closed
\* the client it made.
ClientIsClosed == pc = "done" => client # "open"

\* Redirects and retries multiply, but never beyond this; and the crawler asks a
\* site that refused it again only after a pause (googlebot_spoof.py:107).
SiteIsSpared ==
    /\ sent <= MostRequests
    /\ method = "googlebot_spoof" /\ pc \in {"check", "send"} => answered # "refused"

\* A text is only taken from a response whose address was checked after the last
\* redirect, and never more of it is kept than the limit allows.
OnlyCheckedPagesAreRead ==
    /\ pc = "body" \/ page # None => address = "checked"
    /\ body <= MaxBytes

\* The reader gets the longest text any strategy found, whole, or up to the first
\* truncation marker and then with the notice that it was cut.
CutTextIsMarked ==
    text # None =>
        \E i \in 1..3 :
            LET whole == Candidates(page)[i]
                shown == SubSeq(text, 1, Len(text) - 1)
            IN /\ whole # None
               /\ \A j \in 1..3 : Candidates(page)[j] # None =>
                                     Len(Candidates(page)[j]) <= Len(whole)
               /\ "more" \notin FragmentsOf(text)
               /\ \/ text = whole /\ "notice" \notin FragmentsOf(text)
                  \/ /\ text = Append(shown, "notice")
                     /\ "more" \in FragmentsOf(whole)
                     /\ shown = SubSeq(whole, 1, Len(shown))

\* A link to a publication of paywall_map.yaml is treated by its entry, the most
\* specific one, whatever subdomain or www it has, although the handler
\* classifies the normalized link and the orchestrator that one again.
RecognisedByItsEntry ==
    link # NoUrl /\ IsValid(link) => Classify(Asked(link)) = EntryOf(link.host)

\* Two links find each other's article in the cache only if they name one page:
\* the text is filed under Article.url, normalized once more by extract and by
\* get_url_hash, and looked up under the normalized link; without a hash nothing is
\* filed or found (cache.py:94, 134).  (Path parameters are excepted: normalize_url
\* drops them.)
CacheKeySeparatesPages ==
    pc = "done" /\ outcome \in {"full", "teaser"} /\ method # "wsj_bypass" /\ ~HasParams(link)
    => LET filed == UrlHash(Normalize(Target(link))) IN
       filed # NoUrl =>
       \A l \in Links :
          IsValid(l) /\ ~HasParams(l) /\ UrlHash(Asked(l)) = filed => SamePage(l, link)

\* Retries, redirects and bodies that never stop growing all come to an end.
EveryFetchEnds == pc # "idle" ~> pc = "done"
=============================================================================
