---------------------------- MODULE Orchestrator ----------------------------
(***************************************************************************)
(* Orchestrator.process_url (src/bot/services/orchestrator.py) over the      *)
(* platforms, the fetch methods and the article cache of                     *)
(* src/bot/storage/cache.py.  Requests run concurrently, nothing makes two   *)
(* requests for one URL share a fetch, and each may be cancelled by the      *)
(* handler's asyncio.timeout at any await.                                   *)
(*                                                                           *)
(* What the fetch methods may end with is stated in FetchResults.            *)
(***************************************************************************)
EXTENDS Integers, Sequences, FetchResults

CONSTANTS
    Requests,
    Urls,           \* normalized URLs users ask for
    Pages,          \* URLs pages are read at
    Class,          \* how paywall_map.yaml and the platforms treat each URL
    Variant,        \* the URL SZ premium (?reduced=true) and WSJ really read
    WithAccounts,   \* requests with a user id, given to an orchestrator that has
                    \* an account_manager
    None

Platforms == {"conde_nast", "german_free", "german_premium", "sz_premium",
              "republic"}

\* "unknown": not in paywall_map.yaml, or there without a method and a platform.
Classes == Methods \cup Platforms \cup {"unknown"}
Known(u) == Class[u] # "unknown"

ASSUME OrchestratorAssumption ==
    /\ Urls \subseteq Pages
    /\ Class \in [Urls -> Classes]
    /\ Variant \in [Urls -> Pages]
    /\ WithAccounts \subseteq Requests
    /\ \A u \in Urls : Variant[u] \in Urls => (Known(Variant[u]) <=> Known(u))

\* page: where the text was read, Article.url.  partial: Article.is_partial.
Articles == [page : Pages, text : Texts, partial : BOOLEAN]

ASSUME NoneAssumption == None \notin Urls \cup Articles

VARIABLES
    url,        \* [Requests -> Urls \cup {None}]: original_url
    pc,
    plan,       \* the attempts a request still has
    rescued,    \* it is inside _run_platform's except clause
    answer,     \* request.article
    failed,     \* the error behind request.error_type, "no" if that is None
    tried,      \* history: the methods a request has called
    cache,      \* the unexpired entries of Redis, by page
    extracted   \* history: every article completed so far

vars == <<url, pc, plan, rescued, answer, failed, tried, cache, extracted>>

Attempts == [method : Methods, page : Pages, catches : SUBSET Errors]

TypeOK ==
    /\ url \in [Requests -> Urls \cup {None}]
    /\ pc \in [Requests -> {"idle", "lookup", "fetch", "save", "done", "cancelled"}]
    /\ plan \in [Requests -> Seq(Attempts)]
    /\ \A r \in Requests : pc[r] = "fetch" => plan[r] # <<>>
    /\ rescued \in [Requests -> BOOLEAN]
    /\ answer \in [Requests -> Articles \cup {None}]
    /\ failed \in [Requests -> Errors \cup {"no"}]
    /\ tried \in [Requests -> SUBSET Methods]
    /\ cache \in [Pages -> Articles \cup {None}]
    /\ extracted \subseteq Articles

Init ==
    /\ url = [r \in Requests |-> None]
    /\ pc = [r \in Requests |-> "idle"]
    /\ plan = [r \in Requests |-> <<>>]
    /\ rescued = [r \in Requests |-> FALSE]
    /\ answer = [r \in Requests |-> None]
    /\ failed = [r \in Requests |-> "no"]
    /\ tried = [r \in Requests |-> {}]
    /\ cache = [p \in Pages |-> None]
    /\ extracted = {}

-----------------------------------------------------------------------------
(* What is tried for a URL, in order.  An attempt that gives nothing, or an   *)
(* error it catches, leads to the next one.                                   *)

Attempt(method, page, catches) ==
    [method |-> method, page |-> page, catches |-> catches]

Archive(u) == <<Attempt("archive_relay", u, {"net"})>>

\* fetch_via_wsj reads the rsswn link or the amp page instead of u.
PageFor(u, method) == IF method = "wsj_bypass" THEN Variant[u] ELSE u

HandleUnknown(u) ==
    <<Attempt("js_disable", u, {"net"}),
      Attempt("googlebot_spoof", u, {"net"})>> \o Archive(u)

SuggestedMethodOnly(r, u, method) ==
    IF method = "headless_auth" THEN <<>>
    ELSE <<Attempt(method, PageFor(u, method), {"net", "runtime"})>>

\* _fetch_with_method turns its failures into None; then _fallback.
SuggestedMethod(r, u, method) ==
    (IF method = "headless_auth" /\ r \notin WithAccounts
     THEN <<>>
     ELSE <<Attempt(method, PageFor(u, method), {"net", "runtime"})>>)
    \o Archive(u)

CondeNast(u) ==
    <<Attempt("googlebot_spoof", u, {}), Attempt("js_disable", u, {})>>

GermanFree(u) == <<Attempt("js_disable", u, {"net"})>> \o Archive(u)

GermanPremium(r, u) ==
    (IF Class[u] = "sz_premium"
     THEN <<Attempt("js_disable", Variant[u], {"net"})>> ELSE <<>>)
    \o (IF r \in WithAccounts THEN <<Attempt("headless_auth", u, {"runtime"})>> ELSE <<>>)
    \o GermanFree(u)

\* Without accounts the handler raises RuntimeError at once: Rescue.
Republic(r, u) ==
    IF r \in WithAccounts THEN <<Attempt("headless_auth", u, {})>> ELSE Archive(u)

Plan(r, u) ==
    CASE Class[u] = "unknown" -> HandleUnknown(u)
      [] Class[u] \in Methods -> SuggestedMethod(r, u, Class[u])
      [] Class[u] = "conde_nast" -> CondeNast(u)
      [] Class[u] = "german_free" -> GermanFree(u)
      [] Class[u] \in {"german_premium", "sz_premium"} -> GermanPremium(r, u)
      [] Class[u] = "republic" -> Republic(r, u)

-----------------------------------------------------------------------------
\* No paywall_type: the text passes as complete whatever its length.
IsPartial(u, text) == Known(u) /\ text # "full"

\* _complete
Completed(u, step, text) ==
    [page |-> step.page, text |-> text, partial |-> IsPartial(u, text)]

Submit(r, u) ==
    /\ pc[r] = "idle"
    /\ url' = [url EXCEPT ![r] = u]
    /\ pc' = [pc EXCEPT ![r] = "lookup"]
    /\ UNCHANGED <<plan, rescued, answer, failed, tried, cache, extracted>>

CacheHitUnflagged(r) ==
    /\ pc[r] = "lookup"
    /\ cache[url[r]] # None
    /\ answer' = [answer EXCEPT ![r] = [cache[url[r]] EXCEPT !.partial = FALSE]]
    /\ pc' = [pc EXCEPT ![r] = "done"]
    /\ UNCHANGED <<url, plan, rescued, failed, tried, cache, extracted>>

CacheHit(r) ==
    /\ pc[r] = "lookup"
    /\ cache[url[r]] # None
    /\ answer' = [answer EXCEPT ![r] = cache[url[r]]]
    /\ pc' = [pc EXCEPT ![r] = "done"]
    /\ UNCHANGED <<url, plan, rescued, failed, tried, cache, extracted>>

\* No entry, or Redis does not answer: get_cached_article returns None.
CacheMiss(r) ==
    /\ pc[r] = "lookup"
    /\ plan' = [plan EXCEPT ![r] = Plan(r, url[r])]
    /\ rescued' = [rescued EXCEPT ![r] = Class[url[r]] = "republic"
                                              /\ r \notin WithAccounts]
    /\ pc' = [pc EXCEPT ![r] = "fetch"]
    /\ UNCHANGED <<url, answer, failed, tried, cache, extracted>>

Finish(r, error) ==
    /\ pc' = [pc EXCEPT ![r] = "done"]
    /\ plan' = [plan EXCEPT ![r] = <<>>]
    /\ failed' = [failed EXCEPT ![r] = error]
    /\ UNCHANGED <<rescued, answer, cache, extracted>>

DeliverUnchecked(r, text) ==
    LET article == Completed(url[r], Head(plan[r]), text) IN
    /\ answer' = [answer EXCEPT ![r] = article]
    /\ extracted' = extracted \cup {article}
    /\ plan' = [plan EXCEPT ![r] = <<>>]
    /\ pc' = [pc EXCEPT ![r] = "save"]
    /\ UNCHANGED <<rescued, failed, cache>>

Deliver(r, text) ==
    LET article == Completed(url[r], Head(plan[r]), text) IN
    /\ answer' = [answer EXCEPT ![r] = article]
    /\ extracted' = extracted \cup {article}
    /\ plan' = [plan EXCEPT ![r] = <<>>]
    /\ pc' = [pc EXCEPT ![r] = IF text = "blank" THEN "done" ELSE "save"]
    /\ UNCHANGED <<rescued, failed, cache>>

TryInTurns(r) ==
    /\ plan' = [plan EXCEPT ![r] = Append(Tail(@), Head(@))]
    /\ UNCHANGED <<pc, rescued, answer, failed, cache, extracted>>

TryNext(r) ==
    /\ plan' = [plan EXCEPT ![r] = Tail(@)]
    /\ UNCHANGED <<pc, rescued, answer, failed, cache, extracted>>

\* _run_platform: an error its handler let through leads to the archive.
Rescue(r) ==
    /\ plan' = [plan EXCEPT ![r] = Archive(url[r])]
    /\ rescued' = [rescued EXCEPT ![r] = TRUE]
    /\ UNCHANGED <<pc, answer, failed, cache, extracted>>

RescuableFromNet(r, error) ==
    Class[url[r]] \in Platforms /\ ~rescued[r] /\ error = "net"

\* except _RECOVERABLE_ERRORS
Rescuable(r, error) ==
    Class[url[r]] \in Platforms /\ ~rescued[r] /\ error \in {"net", "runtime"}

\* One awaited call of a fetch method and what the code does with its end.
Fetch(r) ==
    /\ pc[r] = "fetch"
    /\ LET step == Head(plan[r])
           last == Len(plan[r]) = 1
       IN /\ tried' = [tried EXCEPT ![r] = @ \cup {step.method}]
          /\ \E end \in Results(step.method) :
                \/ end \in {"full", "teaser"} /\ Deliver(r, end)
                \/ end = "blank" /\ last /\ Deliver(r, end)
                \/ end \in {"none", "blank"} \cup step.catches /\ ~last /\ TryNext(r)
                \/ end \in {"none"} \cup step.catches /\ last /\ Finish(r, "no")
                \/ end \in Errors \ step.catches /\ Rescuable(r, end) /\ Rescue(r)
                \/ end \in Errors \ step.catches /\ ~Rescuable(r, end) /\ Finish(r, end)
    /\ UNCHANGED url

SaveNoQuery(r) ==
    /\ pc[r] = "save"
    /\ cache' = [p \in Pages |->
                    IF answer[r].page = p \/ (p \in Urls /\ answer[r].page \in Urls
                                             /\ Variant[p] = Variant[answer[r].page])
                    THEN answer[r] ELSE cache[p]]
    /\ pc' = [pc EXCEPT ![r] = "done"]
    /\ UNCHANGED <<url, plan, rescued, answer, failed, tried, extracted>>

\* save_article_to_cache swallows the errors of Redis.
Save(r) ==
    /\ pc[r] = "save"
    /\ cache' \in {cache, [cache EXCEPT ![answer[r].page] = answer[r]]}
    /\ pc' = [pc EXCEPT ![r] = "done"]
    /\ UNCHANGED <<url, plan, rescued, answer, failed, tried, extracted>>

\* asyncio.timeout cancels the request; a write under way may still happen.
Cancel(r) ==
    /\ pc[r] \in {"lookup", "fetch", "save"}
    /\ pc' = [pc EXCEPT ![r] = "cancelled"]
    /\ \/ UNCHANGED cache
       \/ pc[r] = "save" /\ cache' = [cache EXCEPT ![answer[r].page] = answer[r]]
    /\ answer' = [answer EXCEPT ![r] = None]
    /\ plan' = [plan EXCEPT ![r] = <<>>]
    /\ UNCHANGED <<url, rescued, failed, tried, extracted>>

\* CACHE_TTL_LONG is over.
Expire(p) ==
    /\ cache[p] # None
    /\ cache' = [cache EXCEPT ![p] = None]
    /\ UNCHANGED <<url, pc, plan, rescued, answer, failed, tried, extracted>>

Work(r) == CacheHit(r) \/ CacheMiss(r) \/ Fetch(r) \/ Save(r)

Next ==
    \/ \E r \in Requests :
          \/ \E u \in Urls : Submit(r, u)
          \/ Work(r)
          \/ Cancel(r)
    \/ \E p \in Pages : Expire(p)

\* Every awaited call ends: the HTTP clients and Redis have timeouts.
Fairness == \A r \in Requests : WF_vars(Work(r))

Spec == Init /\ [][Next]_vars
FairSpec == Spec /\ Fairness

-----------------------------------------------------------------------------
(* Properties *)

Delivered(r) == pc[r] = "done" /\ answer[r] # None

\* A shortened text from a publication with a known paywall is never passed off
\* as the article: it carries is_partial whichever method found it, and still
\* does when a later request gets it from the cache (orchestrator.py:240-254).
PartialIsFlagged ==
    \A r \in Requests : Delivered(r) =>
        (answer[r].partial <=> Known(url[r]) /\ answer[r].text # "full")

\* A request that ends without an article and without an internal error has
\* asked the archives, except where the handler of the platform answered None
\* itself, which _run_platform passes on.
ArchiveBeforeGivingUp ==
    \A r \in Requests :
        pc[r] = "done" /\ answer[r] = None /\ failed[r] = "no"
        => \/ "archive_relay" \in tried[r]
           \/ Class[url[r]] \in {"conde_nast", "republic"} /\ ~rescued[r]

\* After a network error or a RuntimeError it makes sense to try another source
\* rather than to report a failure (orchestrator.py:41-47): neither ends a request
\* in an internal error before the archives were asked, whichever method, handler
\* or rescue it came from.  Except that the handler of unknown sites expects
\* network errors alone (orchestrator.py:206).
RecoverableErrorsAreRecovered ==
    \A r \in Requests : failed[r] \in {"net", "runtime"} =>
        \/ "archive_relay" \in tried[r]
        \/ failed[r] = "runtime" /\ ~Known(url[r])

\* The cache only ever serves texts a reader can use, read at the page they are
\* filed under, even if the request that wrote them was cancelled.
CacheHoldsUsableTexts ==
    \A p \in Pages : cache[p] # None =>
        cache[p].text # "blank" /\ cache[p].page = p /\ cache[p] \in extracted

\* Fallbacks follow one another only finitely often: every request ends, with an
\* article, without one or by its timeout.
EveryRequestEnds ==
    \A r \in Requests : pc[r] = "lookup" ~> pc[r] \in {"done", "cancelled"}

\* An article answers a URL if it was read there or at the variant of the URL
\* its method reads, and says itself whether it is only a fragment.
Fits(a, u) ==
    /\ a.page \in {u, Variant[u]}
    /\ a.partial <=> Known(u) /\ a.text # "full"

Reply(r) ==
    CASE Delivered(r) -> [kind |-> "article", article |-> answer[r]]
      [] pc[r] = "done" /\ answer[r] = None -> [kind |-> "refused"]
      [] pc[r] = "cancelled" -> [kind |-> "cancelled"]
      [] OTHER -> [kind |-> "pending"]

Replies == [r \in Requests |-> Reply(r)]

Promise == INSTANCE Extraction WITH
    asked <- url, reply <- Replies, extracted <- extracted

\* The orchestrator keeps the promise of Extraction: one answer for good, which
\* fits the URL, was really extracted, and is not taken from another page.
ImplementsExtraction == Promise!Spec
=============================================================================
