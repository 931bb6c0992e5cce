-------------------------- MODULE OrchestratorProofs --------------------------
(***************************************************************************)
(* Orchestrator for any requests, URLs and classes: its invariants, and that *)
(* it implements Extraction.                                                 *)
(***************************************************************************)
EXTENDS Orchestrator, SequenceTheorems, TLAPS

\* The attempts a plan for u is made of.
AttemptsFor(u) == [method : Methods, page : {u, Variant[u]}, catches : SUBSET Errors]

\* What is true of one request.
Request(r) ==
    /\ pc[r] = "idle" <=> url[r] = None
    /\ pc[r] = "fetch" => plan[r] \in Seq(AttemptsFor(url[r]))
    /\ answer[r] # None => /\ pc[r] \in {"save", "done"}
                           /\ answer[r] \in extracted
                           /\ Fits(answer[r], url[r])
    /\ pc[r] = "save" => answer[r] # None /\ answer[r].text # "blank"

\* What is true of one entry of the cache; some request it was read for.
Entry(p) ==
    cache[p] # None =>
        /\ cache[p].page = p /\ cache[p] \in extracted /\ cache[p].text # "blank"
        /\ \E u \in Urls : Fits(cache[p], u)

Sound == (\A r \in Requests : Request(r)) /\ \A p \in Pages : Entry(p)

-----------------------------------------------------------------------------
(* Plans and articles *)

LEMMA PageForFits == \A u, m : PageFor(u, m) \in {u, Variant[u]}
BY DEF PageFor

LEMMA OneAttempt ==
    ASSUME NEW u \in Urls, NEW m \in Methods, NEW p \in {u, Variant[u]},
           NEW c \in SUBSET Errors
    PROVE  <<Attempt(m, p, c)>> \in Seq(AttemptsFor(u)) \ {<<>>}
<1>1. Attempt(m, p, c) \in AttemptsFor(u)
  BY DEF Attempt, AttemptsFor
<1> QED
  BY <1>1

\* Whatever its class, a URL has something to be tried, at the URL or its variant.
LEMMA PlanIsForItsUrl ==
    ASSUME NEW r \in Requests, NEW u \in Urls
    PROVE  Plan(r, u) \in Seq(AttemptsFor(u)) \ {<<>>}
<1> DEFINE S == Seq(AttemptsFor(u))
<1>1. \A s, t \in S : s \o t \in S
  BY ConcatProperties
<1>2. \A s, t \in S : t # <<>> => s \o t # <<>>
  BY ConcatProperties, EmptySeq
<1>3. <<>> \in S
  OBVIOUS
<1> HIDE DEF S
<1>4. Archive(u) \in S \ {<<>>}
  BY OneAttempt DEF Archive, S, Methods, Errors
<1>5. HandleUnknown(u) \in S \ {<<>>}
  <2>1. /\ <<Attempt("js_disable", u, {"net"}), Attempt("googlebot_spoof", u, {"net"})>>
           = <<Attempt("js_disable", u, {"net"})>> \o <<Attempt("googlebot_spoof", u, {"net"})>>
    OBVIOUS
  <2>2. /\ <<Attempt("js_disable", u, {"net"})>> \in S
        /\ <<Attempt("googlebot_spoof", u, {"net"})>> \in S
    BY OneAttempt DEF S, Methods, Errors
  <2> QED
    BY <1>1, <1>2, <1>4, <2>1, <2>2 DEF HandleUnknown
<1>6. ASSUME NEW m \in Methods PROVE SuggestedMethod(r, u, m) \in S \ {<<>>}
  <2>1. <<Attempt(m, PageFor(u, m), {"net", "runtime"})>> \in S
    BY OneAttempt, PageForFits DEF S, Errors
  <2> QED
    BY <1>1, <1>2, <1>3, <1>4, <2>1 DEF SuggestedMethod
<1>7. CondeNast(u) \in S \ {<<>>}
  <2>1. CondeNast(u) = <<Attempt("googlebot_spoof", u, {})>> \o <<Attempt("js_disable", u, {})>>
    BY DEF CondeNast
  <2>2. /\ <<Attempt("googlebot_spoof", u, {})>> \in S \ {<<>>}
        /\ <<Attempt("js_disable", u, {})>> \in S \ {<<>>}
    BY OneAttempt DEF S, Methods, Errors
  <2> QED
    BY <1>1, <1>2, <2>1, <2>2
<1>8. GermanFree(u) \in S \ {<<>>}
  <2>1. <<Attempt("js_disable", u, {"net"})>> \in S
    BY OneAttempt DEF S, Methods, Errors
  <2> QED
    BY <1>1, <1>2, <1>4, <2>1 DEF GermanFree
<1>9. GermanPremium(r, u) \in S \ {<<>>}
  <2>1. /\ <<Attempt("js_disable", Variant[u], {"net"})>> \in S
        /\ <<Attempt("headless_auth", u, {"runtime"})>> \in S
    BY OneAttempt DEF S, Methods, Errors
  <2>2. ASSUME NEW a \in S, NEW b \in S PROVE (a \o b) \o GermanFree(u) \in S \ {<<>>}
    BY <1>1, <1>2, <1>8
  <2> QED
    BY <1>3, <2>1, <2>2 DEF GermanPremium
<1>10. Republic(r, u) \in S \ {<<>>}
  <2>1. <<Attempt("headless_auth", u, {})>> \in S \ {<<>>}
    BY OneAttempt DEF S, Methods, Errors
  <2> QED
    BY <1>4, <2>1 DEF Republic
<1>11. Class[u] \in Classes
  BY OrchestratorAssumption
<1> QED
  BY <1>5, <1>6, <1>7, <1>8, <1>9, <1>10, <1>11 DEF Plan, Classes, Platforms, S

\* An article made of an attempt for u fits u.
LEMMA CompletedFits ==
    ASSUME NEW u \in Urls, NEW step \in AttemptsFor(u), NEW text \in Texts
    PROVE  LET a == Completed(u, step, text) IN
           /\ a \in Articles /\ Fits(a, u) /\ a.text = text
<1>1. step.method \in Methods /\ step.page \in {u, Variant[u]} /\ step.page \in Pages
  BY OrchestratorAssumption DEF AttemptsFor
<1>2. IsPartial(u, text) \in BOOLEAN
  BY DEF IsPartial
<1>3. Completed(u, step, text) \in Articles
  BY <1>1, <1>2 DEF Completed, Articles
<1>4. Fits(Completed(u, step, text), u)
  BY <1>1 DEF Completed, Fits, IsPartial
<1>5. Completed(u, step, text).text = text
  BY DEF Completed
<1> QED
  BY <1>3, <1>4, <1>5

\* What was read at u for another URL fits u as well: only a URL and its variant
\* share a page, and paywall_map.yaml knows either both of them or none.
LEMMA CachedFits ==
    ASSUME NEW u \in Urls, NEW v \in Urls, NEW a \in Articles, a.page = u, Fits(a, v)
    PROVE  Fits(a, u)
<1>1. Known(u) <=> Known(v)
  BY OrchestratorAssumption DEF Fits
<1> QED
  BY <1>1 DEF Fits

-----------------------------------------------------------------------------
(* Types and soundness *)

\* A request that is left alone keeps its facts while articles are added.
Same(r) == /\ url'[r] = url[r] /\ pc'[r] = pc[r] /\ plan'[r] = plan[r]
           /\ answer'[r] = answer[r] /\ extracted \subseteq extracted'

LEMMA SameRequest == ASSUME NEW r \in Requests, Request(r), Same(r) PROVE Request(r)'
BY DEF Request, Same, Fits

LEMMA SameEntry ==
    ASSUME NEW p \in Pages, Entry(p), cache'[p] = cache[p], extracted \subseteq extracted'
    PROVE  Entry(p)'
BY DEF Entry

LEMMA AttemptsAreTyped ==
    ASSUME NEW u \in Urls, NEW s \in Seq(AttemptsFor(u)) PROVE s \in Seq(Attempts)
<1>1. AttemptsFor(u) \subseteq Attempts
  BY OrchestratorAssumption DEF AttemptsFor, Attempts
<1> QED
  BY <1>1

\* What one step may do to the request it belongs to.
Alter(r, u, stage, steps, a) ==
    /\ url' = [url EXCEPT ![r] = u]
    /\ pc' = [pc EXCEPT ![r] = stage]
    /\ plan' = [plan EXCEPT ![r] = steps]
    /\ answer' = [answer EXCEPT ![r] = a]
    /\ rescued' \in [Requests -> BOOLEAN] /\ failed' \in [Requests -> Errors \cup {"no"}]
    /\ tried' \in [Requests -> SUBSET Methods]

Stages == {"idle", "lookup", "fetch", "save", "done", "cancelled"}

LEMMA AlterKeeps ==
    ASSUME TypeOK, Sound, NEW r \in Requests, NEW u \in Urls, NEW stage \in Stages \ {"idle"},
           NEW steps, NEW a \in Articles \cup {None}, Alter(r, u, stage, steps, a),
           steps \in Seq(AttemptsFor(u)),
           stage = "fetch" => steps # <<>>,
           a # None => /\ stage \in {"save", "done"} /\ a \in extracted'
                       /\ Fits(a, u),
           stage = "save" => a # None /\ a.text # "blank",
           extracted' \in SUBSET Articles, extracted \subseteq extracted',
           cache' \in [Pages -> Articles \cup {None}],
           \A p \in Pages : cache'[p] = cache[p] \/ Entry(p)'
    PROVE  TypeOK' /\ Sound'
<1>1. /\ url'[r] = u /\ pc'[r] = stage /\ plan'[r] = steps /\ answer'[r] = a
      /\ \A s \in Requests \ {r} : Same(s)
  BY DEF Alter, TypeOK, Same
<1>2. steps \in Seq(Attempts)
  BY AttemptsAreTyped
<1>3. TypeOK'
  <2>1. /\ url' \in [Requests -> Urls \cup {None}] /\ pc' \in [Requests -> Stages]
        /\ plan' \in [Requests -> Seq(Attempts)]
        /\ answer' \in [Requests -> Articles \cup {None}]
    BY <1>2 DEF Alter, TypeOK, Stages
  <2>2. \A s \in Requests : pc'[s] = "fetch" => plan'[s] # <<>>
    BY <1>1 DEF TypeOK, Same
  <2> QED
    BY <2>1, <2>2 DEF TypeOK, Alter, Stages
<1>4. Request(r)'
  BY <1>1, NoneAssumption DEF Request
<1>5. \A s \in Requests : Request(s)'
  BY <1>1, <1>4, SameRequest DEF Sound
<1>6. \A p \in Pages : Entry(p)'
  BY SameEntry DEF Sound
<1> QED
  BY <1>3, <1>5, <1>6 DEF Sound

\* The step a request in "fetch" takes next is one for its URL.
LEMMA NextAttempt ==
    ASSUME TypeOK, Sound, NEW r \in Requests, pc[r] = "fetch"
    PROVE  /\ url[r] \in Urls /\ answer[r] = None
           /\ plan[r] \in Seq(AttemptsFor(url[r])) /\ plan[r] # <<>>
           /\ Head(plan[r]) \in AttemptsFor(url[r])
           /\ Tail(plan[r]) \in Seq(AttemptsFor(url[r]))
           /\ Len(plan[r]) # 1 => Tail(plan[r]) # <<>>
<1>1. url[r] \in Urls /\ answer[r] = None /\ plan[r] \in Seq(AttemptsFor(url[r]))
      /\ plan[r] # <<>>
  BY DEF TypeOK, Sound, Request
<1>2. /\ Head(plan[r]) \in AttemptsFor(url[r])
      /\ Tail(plan[r]) \in Seq(AttemptsFor(url[r]))
      /\ Len(Tail(plan[r])) = Len(plan[r]) - 1
  BY <1>1, HeadTailProperties
<1>3. Len(plan[r]) # 1 => Tail(plan[r]) # <<>>
  <2>1. Len(plan[r]) \in Nat /\ Len(<<>>) = 0
    BY <1>1, LenProperties
  <2>2. Tail(plan[r]) = <<>> => Len(Tail(plan[r])) = 0
    BY <2>1
  <2> QED
    BY <1>2, <2>1, <2>2
<1> QED
  BY <1>1, <1>2, <1>3

\* What a call of a fetch method leads to; Deliver is the only way to an article.
LEMMA FetchShape ==
    ASSUME TypeOK, Sound, NEW r \in Requests, Fetch(r)
    PROVE  /\ pc[r] = "fetch" /\ UNCHANGED url /\ tried' \in [Requests -> SUBSET Methods]
           /\ \/ \E text \in Texts : Deliver(r, text)
              \/ Len(plan[r]) # 1 /\ TryNext(r)
              \/ \E e \in Errors \cup {"no"} : Finish(r, e)
              \/ Rescue(r)
<1>1. Head(plan[r]).method \in Methods
  BY NextAttempt DEF Fetch, AttemptsFor
<1>2. tried' \in [Requests -> SUBSET Methods]
  BY <1>1 DEF Fetch, TypeOK
<1> QED
  BY <1>2 DEF Fetch, Texts

LEMMA FetchKeeps ==
    ASSUME TypeOK, Sound, NEW r \in Requests, Fetch(r)
    PROVE  TypeOK' /\ Sound'
<1> DEFINE S == AttemptsFor(url[r])
<1>1. pc[r] = "fetch" /\ UNCHANGED url /\ tried' \in [Requests -> SUBSET Methods]
  BY FetchShape
<1>2. /\ url[r] \in Urls /\ answer[r] = None /\ Head(plan[r]) \in S /\ Tail(plan[r]) \in Seq(S)
      /\ plan[r] \in Seq(S) /\ plan[r] # <<>> /\ (Len(plan[r]) # 1 => Tail(plan[r]) # <<>>)
      /\ extracted \in SUBSET Articles /\ cache \in [Pages -> Articles \cup {None}]
      /\ rescued \in [Requests -> BOOLEAN] /\ failed \in [Requests -> Errors \cup {"no"}]
  BY <1>1, NextAttempt DEF TypeOK
<1>e. \A u : <<>> \in Seq(AttemptsFor(u))
  OBVIOUS
<1>0. /\ url = [url EXCEPT ![r] = url[r]] /\ pc = [pc EXCEPT ![r] = pc[r]]
      /\ answer = [answer EXCEPT ![r] = None]
  BY <1>2 DEF TypeOK
<1>3. ASSUME NEW text \in Texts, Deliver(r, text) PROVE TypeOK' /\ Sound'
  <2> DEFINE a == Completed(url[r], Head(plan[r]), text)
             stage == IF text = "blank" THEN "done" ELSE "save"
  <2>1. a \in Articles /\ Fits(a, url[r]) /\ a.text = text
    BY <1>2, CompletedFits
  <2>2. /\ Alter(r, url[r], stage, <<>>, a) /\ extracted' = extracted \cup {a}
        /\ cache' = cache
    BY <1>0, <1>1, <1>2, <1>3 DEF Deliver, Alter
  <2>3. a # None
    BY <2>1, NoneAssumption
  <2> HIDE DEF a
  <2> QED
    BY <1>2, <1>e, <2>1, <2>2, <2>3, AlterKeeps DEF Stages
<1>4. ASSUME TryNext(r), Len(plan[r]) # 1 PROVE TypeOK' /\ Sound'
  <2>1. /\ Alter(r, url[r], "fetch", Tail(plan[r]), None)
        /\ extracted' = extracted /\ cache' = cache
    BY <1>0, <1>1, <1>2, <1>4 DEF TryNext, Alter, TypeOK
  <2> QED
    BY <1>2, <1>4, <2>1, AlterKeeps DEF Stages
<1>5. ASSUME NEW e \in Errors \cup {"no"}, Finish(r, e) PROVE TypeOK' /\ Sound'
  <2>1. /\ Alter(r, url[r], "done", <<>>, None)
        /\ extracted' = extracted /\ cache' = cache
    BY <1>0, <1>1, <1>2, <1>5 DEF Finish, Alter, TypeOK
  <2>2. /\ extracted' \in SUBSET Articles /\ extracted \subseteq extracted'
        /\ cache' \in [Pages -> Articles \cup {None}]
        /\ \A p \in Pages : cache'[p] = cache[p] \/ Entry(p)'
    BY <1>2, <2>1
  <2>3. "done" \in Stages \ {"idle"} /\ <<>> \in Seq(AttemptsFor(url[r]))
    BY <1>e DEF Stages
  <2> QED
    BY <1>2, <2>1, <2>2, <2>3, AlterKeeps
<1>6. ASSUME Rescue(r) PROVE TypeOK' /\ Sound'
  <2>1. /\ Alter(r, url[r], "fetch", Archive(url[r]), None)
        /\ extracted' = extracted /\ cache' = cache
    BY <1>0, <1>1, <1>2, <1>6 DEF Rescue, Alter, TypeOK
  <2>2. Archive(url[r]) \in Seq(S) \ {<<>>}
    BY <1>2, OneAttempt DEF Archive, Methods, Errors
  <2> QED
    BY <1>2, <2>1, <2>2, AlterKeeps DEF Stages
<1> QED
  BY <1>3, <1>4, <1>5, <1>6, FetchShape

\* Writing the answer of a request to the cache keeps the entries sound.
LEMMA SavedEntry ==
    ASSUME TypeOK, Sound, NEW r \in Requests, pc[r] = "save",
           cache' = [cache EXCEPT ![answer[r].page] = answer[r]], extracted' = extracted
    PROVE  /\ cache' \in [Pages -> Articles \cup {None}]
           /\ \A p \in Pages : cache'[p] = cache[p] \/ Entry(p)'
<1>1. /\ answer[r] \in Articles /\ answer[r] \in extracted /\ answer[r].text # "blank"
      /\ Fits(answer[r], url[r]) /\ url[r] \in Urls
  BY DEF TypeOK, Sound, Request
<1>2. answer[r].page \in Pages
  BY <1>1 DEF Articles, Fits, OrchestratorAssumption
<1>3. cache' \in [Pages -> Articles \cup {None}]
  BY <1>1 DEF TypeOK
<1>4. \A p \in Pages :
         IF p = answer[r].page THEN cache'[p] = answer[r] ELSE cache'[p] = cache[p]
  BY DEF TypeOK
<1>5. ASSUME NEW p \in Pages, p = answer[r].page PROVE Entry(p)'
  <2>1. cache'[p] = answer[r] /\ \E u \in Urls : Fits(cache'[p], u)
    BY <1>1, <1>4, <1>5
  <2> QED
    BY <1>1, <1>5, <2>1 DEF Entry
<1> QED
  BY <1>3, <1>4, <1>5

LEMMA StepOK == TypeOK /\ Sound /\ [Next]_vars => TypeOK' /\ Sound'
<1> SUFFICES ASSUME TypeOK, Sound, [Next]_vars PROVE TypeOK' /\ Sound'
  OBVIOUS
<1>0. /\ extracted \in SUBSET Articles /\ cache \in [Pages -> Articles \cup {None}]
      /\ rescued \in [Requests -> BOOLEAN] /\ failed \in [Requests -> Errors \cup {"no"}]
      /\ tried \in [Requests -> SUBSET Methods]
  BY DEF TypeOK
<1>e. \A u : <<>> \in Seq(AttemptsFor(u))
  OBVIOUS
<1>1. ASSUME NEW r \in Requests, NEW u \in Urls, Submit(r, u) PROVE TypeOK' /\ Sound'
  <2>1. answer[r] = None
    BY <1>1 DEF Submit, Sound, Request
  <2>2. TypeOK'
    BY <1>1 DEF Submit, TypeOK
  <2>3. Request(r)'
    BY <1>1, <2>1, NoneAssumption DEF Submit, TypeOK, Request
  <2>4. \A s \in Requests \ {r} : Same(s)
    BY <1>1 DEF Submit, TypeOK, Same
  <2>5. \A p \in Pages : Entry(p)'
    BY <1>1, SameEntry DEF Submit, Sound
  <2> QED
    BY <2>2, <2>3, <2>4, <2>5, SameRequest DEF Sound
<1>2. ASSUME NEW r \in Requests, CacheHit(r) PROVE TypeOK' /\ Sound'
  <2> DEFINE a == cache[url[r]]
  <2>1. /\ pc[r] = "lookup" /\ a # None /\ url[r] \in Urls
        /\ url' = url /\ pc' = [pc EXCEPT ![r] = "done"] /\ plan' = plan
        /\ answer' = [answer EXCEPT ![r] = a]
        /\ UNCHANGED <<rescued, failed, tried, cache, extracted>>
    BY <1>2 DEF CacheHit, TypeOK, Sound, Request
  <2>2. a \in Articles /\ a \in extracted /\ Fits(a, url[r])
    BY <2>1, CachedFits, OrchestratorAssumption DEF TypeOK, Sound, Entry
  <2>3. TypeOK'
    BY <2>1, <2>2 DEF TypeOK
  <2>4. Request(r)'
    BY <2>1, <2>2, NoneAssumption DEF TypeOK, Request
  <2>5. \A s \in Requests \ {r} : Same(s)
    BY <2>1 DEF TypeOK, Same
  <2>6. \A p \in Pages : Entry(p)'
    BY <2>1, SameEntry DEF Sound
  <2> QED
    BY <2>3, <2>4, <2>5, <2>6, SameRequest DEF Sound
<1>3. ASSUME NEW r \in Requests, CacheMiss(r) PROVE TypeOK' /\ Sound'
  <2>1. /\ url[r] \in Urls /\ answer[r] = None
        /\ url = [url EXCEPT ![r] = url[r]] /\ answer = [answer EXCEPT ![r] = answer[r]]
    BY <1>3 DEF CacheMiss, TypeOK, Sound, Request
  <2>2. Plan(r, url[r]) \in Seq(AttemptsFor(url[r])) \ {<<>>}
    BY <2>1, PlanIsForItsUrl
  <2>3. /\ Alter(r, url[r], "fetch", Plan(r, url[r]), None)
        /\ extracted' = extracted /\ cache' = cache
    BY <1>0, <1>3, <2>1 DEF CacheMiss, Alter
  <2> QED
    BY <1>0, <2>1, <2>2, <2>3, AlterKeeps DEF Stages
<1>4. ASSUME NEW r \in Requests, Fetch(r) PROVE TypeOK' /\ Sound'
  BY <1>4, FetchKeeps
<1>5. ASSUME NEW r \in Requests, Save(r) PROVE TypeOK' /\ Sound'
  <2>1. /\ pc[r] = "save" /\ extracted' = extracted /\ url[r] \in Urls
        /\ answer[r] \in Articles /\ answer[r] \in extracted /\ answer[r] # None
        /\ Fits(answer[r], url[r])
    BY <1>5 DEF Save, Sound, Request, TypeOK
  <2>2. /\ cache' \in [Pages -> Articles \cup {None}]
        /\ \A p \in Pages : cache'[p] = cache[p] \/ Entry(p)'
    BY <1>0, <1>5, <2>1, SavedEntry DEF Save
  <2>3. TypeOK'
    BY <1>5, <2>2 DEF Save, TypeOK
  <2>4. Request(r)'
    BY <1>5, <2>1, NoneAssumption DEF Save, TypeOK, Request
  <2>5. \A s \in Requests \ {r} : Same(s)
    BY <1>5 DEF Save, TypeOK, Same
  <2>6. \A p \in Pages : Entry(p)'
    BY <2>1, <2>2, SameEntry DEF Sound
  <2> QED
    BY <2>3, <2>4, <2>5, <2>6, SameRequest DEF Sound
<1>6. ASSUME NEW r \in Requests, Cancel(r) PROVE TypeOK' /\ Sound'
  <2>1. url[r] \in Urls /\ url = [url EXCEPT ![r] = url[r]]
    BY <1>6 DEF Cancel, TypeOK, Sound, Request
  <2>2. /\ Alter(r, url[r], "cancelled", <<>>, None) /\ extracted' = extracted
    BY <1>0, <1>6, <2>1 DEF Cancel, Alter
  <2>3. /\ cache' \in [Pages -> Articles \cup {None}]
        /\ \A p \in Pages : cache'[p] = cache[p] \/ Entry(p)'
    BY <1>0, <1>6, <2>2, SavedEntry DEF Cancel
  <2> QED
    BY <1>0, <1>e, <2>1, <2>2, <2>3, AlterKeeps DEF Stages
<1>7. ASSUME NEW p \in Pages, Expire(p) PROVE TypeOK' /\ Sound'
  <2>1. TypeOK' /\ \A r \in Requests : Same(r)
    BY <1>7 DEF Expire, TypeOK, Same
  <2>2. \A q \in Pages : cache'[q] = None \/ cache'[q] = cache[q]
    BY <1>7 DEF Expire, TypeOK
  <2>3. \A q \in Pages : Entry(q)'
    BY <1>7, <2>2, SameEntry DEF Expire, Sound, Entry
  <2> QED
    BY <2>1, <2>3, SameRequest DEF Sound
<1>8. CASE UNCHANGED vars
  <2>1. TypeOK' /\ \A r \in Requests : Same(r)
    BY <1>8 DEF vars, TypeOK, Same
  <2>2. \A q \in Pages : Entry(q)'
    BY <1>8, SameEntry DEF vars, Sound
  <2> QED
    BY <2>1, <2>2, SameRequest DEF Sound
<1> QED
  BY <1>1, <1>2, <1>3, <1>4, <1>5, <1>6, <1>7, <1>8 DEF Next, Work

LEMMA Inductive == Spec => [](TypeOK /\ Sound)
<1>1. Init => TypeOK /\ Sound
  BY DEF Init, TypeOK, Sound, Request, Entry
<1> QED
  BY <1>1, StepOK, PTL DEF Spec

\* The state of the orchestrator is well typed; above all, a request that is to
\* fetch always has an attempt left, whichever errors and rescues came before.
THEOREM TypeCorrect == Spec => []TypeOK
BY Inductive, PTL

\* Shortened texts are flagged as fragments for every class of URL, every order of
\* fallbacks and every entry of the cache.
THEOREM FragmentsAreFlagged == Spec => []PartialIsFlagged
<1>1. TypeOK /\ Sound => PartialIsFlagged
  <2> SUFFICES ASSUME Sound, NEW r \in Requests, Delivered(r)
               PROVE  answer[r].partial <=> Known(url[r]) /\ answer[r].text # "full"
    BY DEF PartialIsFlagged
  <2>1. Fits(answer[r], url[r])
    BY DEF Sound, Request, Delivered
  <2> QED
    BY <2>1 DEF Fits
<1> QED
  BY <1>1, Inductive, PTL

\* The cache holds readable texts only, each under the page it was read at.
THEOREM CacheIsUsable == Spec => []CacheHoldsUsableTexts
<1>1. TypeOK /\ Sound => CacheHoldsUsableTexts
  BY DEF Sound, Entry, CacheHoldsUsableTexts
<1> QED
  BY <1>1, Inductive, PTL

-----------------------------------------------------------------------------
(* The archive before giving up *)

\* Handlers of platforms that answer None themselves, outside the except clause.
Spared(r) == Class[url[r]] \in {"conde_nast", "republic"} /\ ~rescued[r]

EndsInArchive(steps) == steps[Len(steps)].method = "archive_relay"

\* While a request looks for a text the archive is behind it or ahead of it; once
\* it has given up, it is behind it.
Insistent(r) ==
    /\ pc[r] = "fetch" => \/ "archive_relay" \in tried[r] \/ Spared(r)
                          \/ EndsInArchive(plan[r])
    /\ pc[r] = "done" /\ answer[r] = None /\ failed[r] = "no"
       => "archive_relay" \in tried[r] \/ Spared(r)

LEMMA AppendedArchive ==
    ASSUME NEW u \in Urls, NEW s \in Seq(AttemptsFor(u))
    PROVE  EndsInArchive(s \o Archive(u))
<1>1. Archive(u) \in Seq(AttemptsFor(u)) /\ Len(Archive(u)) = 1
  BY OneAttempt DEF Archive, Methods, Errors
<1>2. Archive(u)[1].method = "archive_relay"
  BY DEF Archive, Attempt
<1>3. Len(s) \in Nat
  BY LenProperties
<1>4. /\ Len(s \o Archive(u)) = Len(s) + 1
      /\ (s \o Archive(u))[Len(s) + 1] = Archive(u)[1]
  BY <1>1, <1>3, ConcatProperties
<1> QED
  BY <1>2, <1>4 DEF EndsInArchive

\* Every plan but those of the platforms that answer None themselves.
LEMMA PlanEndsInArchive ==
    ASSUME NEW r \in Requests, NEW u \in Urls,
           Class[u] = "conde_nast" \/ Class[u] = "republic" => r \notin WithAccounts,
           Class[u] # "conde_nast"
    PROVE  EndsInArchive(Plan(r, u))
<1> DEFINE S == Seq(AttemptsFor(u))
<1>1. \A s, t \in S : s \o t \in S
  BY ConcatProperties
<1>0. \A s, t, w \in S : s \o (t \o w) = (s \o t) \o w
  BY ConcatAssociative
<1>2. <<>> \in S
  OBVIOUS
<1>3. \A s \in S : EndsInArchive(s \o Archive(u))
  BY AppendedArchive
<1>4. Archive(u) \in S
  BY OneAttempt DEF Archive, Methods, Errors
<1> HIDE DEF S
<1>5. EndsInArchive(Archive(u))
  BY DEF EndsInArchive, Archive, Attempt
<1>6. EndsInArchive(HandleUnknown(u))
  <2>1. <<Attempt("js_disable", u, {"net"}), Attempt("googlebot_spoof", u, {"net"})>>
           = <<Attempt("js_disable", u, {"net"})>> \o <<Attempt("googlebot_spoof", u, {"net"})>>
    OBVIOUS
  <2>2. /\ <<Attempt("js_disable", u, {"net"})>> \in S
        /\ <<Attempt("googlebot_spoof", u, {"net"})>> \in S
    BY OneAttempt DEF S, Methods, Errors
  <2> QED
    BY <1>1, <1>3, <2>1, <2>2 DEF HandleUnknown
<1>7. ASSUME NEW m \in Methods PROVE EndsInArchive(SuggestedMethod(r, u, m))
  <2>1. <<Attempt(m, PageFor(u, m), {"net", "runtime"})>> \in S
    BY OneAttempt, PageForFits DEF S, Errors
  <2> QED
    BY <1>2, <1>3, <2>1 DEF SuggestedMethod
<1>8. <<Attempt("js_disable", u, {"net"})>> \in S
  BY OneAttempt DEF S, Methods, Errors
<1>9. EndsInArchive(GermanFree(u))
  BY <1>3, <1>8 DEF GermanFree
<1>10. EndsInArchive(GermanPremium(r, u))
  <2> DEFINE js == <<Attempt("js_disable", u, {"net"})>>
  <2>1. /\ <<Attempt("js_disable", Variant[u], {"net"})>> \in S
        /\ <<Attempt("headless_auth", u, {"runtime"})>> \in S
    BY OneAttempt DEF S, Methods, Errors
  <2>2. ASSUME NEW a \in S, NEW b \in S PROVE EndsInArchive((a \o b) \o GermanFree(u))
    <3>0. a \o b \in S /\ js \in S
      BY <1>1, <1>8
    <3> HIDE DEF js
    <3>1. (a \o b) \o (js \o Archive(u)) = ((a \o b) \o js) \o Archive(u)
      BY <1>0, <1>4, <3>0
    <3>2. (a \o b) \o js \in S
      BY <1>1, <3>0
    <3> USE DEF js
    <3> QED
      BY <1>3, <3>1, <3>2 DEF GermanFree
  <2> QED
    BY <1>2, <2>1, <2>2 DEF GermanPremium
<1>11. Class[u] \in Classes
  BY OrchestratorAssumption
<1> QED
  BY <1>5, <1>6, <1>7, <1>9, <1>10, <1>11 DEF Plan, Classes, Platforms, Republic

LEMMA TailEndsInArchive ==
    ASSUME NEW u \in Urls, NEW s \in Seq(AttemptsFor(u)), s # <<>>, Tail(s) # <<>>,
           EndsInArchive(s)
    PROVE  EndsInArchive(Tail(s))
<1>1. /\ Tail(s) \in Seq(AttemptsFor(u)) /\ Len(Tail(s)) = Len(s) - 1
      /\ \A i \in 1 .. Len(Tail(s)) : Tail(s)[i] = s[i + 1]
  BY HeadTailProperties
<1>2. Len(Tail(s)) \in Nat \ {0} /\ Len(s) \in Nat
  BY <1>1, EmptySeq, LenProperties
<1>3. Tail(s)[Len(Tail(s))] = s[Len(s)]
  BY <1>1, <1>2
<1> QED
  BY <1>3 DEF EndsInArchive

\* A request whose own variables a step leaves alone.
Untouched(r) ==
    /\ url'[r] = url[r] /\ pc'[r] = pc[r] /\ plan'[r] = plan[r] /\ answer'[r] = answer[r]
    /\ rescued'[r] = rescued[r] /\ failed'[r] = failed[r] /\ tried'[r] = tried[r]

\* A call of a fetch method only concerns the request that makes it.
LEMMA FetchTouchesOne ==
    ASSUME TypeOK, Sound, NEW r \in Requests, Fetch(r)
    PROVE  \A s \in Requests \ {r} : Untouched(s)
<1>1. \A s \in Requests \ {r} : tried'[s] = tried[s]
  BY DEF Fetch, TypeOK
<1>2. UNCHANGED url
  BY FetchShape
<1>3. ASSUME NEW text \in Texts, Deliver(r, text) PROVE \A s \in Requests \ {r} : Untouched(s)
  BY <1>1, <1>2, <1>3 DEF Deliver, TypeOK, Untouched
<1>4. TryNext(r) => \A s \in Requests \ {r} : Untouched(s)
  BY <1>1, <1>2 DEF TryNext, TypeOK, Untouched
<1>5. ASSUME NEW e \in Errors \cup {"no"}, Finish(r, e)
      PROVE  \A s \in Requests \ {r} : Untouched(s)
  BY <1>1, <1>2, <1>5 DEF Finish, TypeOK, Untouched
<1>6. Rescue(r) => \A s \in Requests \ {r} : Untouched(s)
  BY <1>1, <1>2 DEF Rescue, TypeOK, Untouched
<1> QED
  BY <1>3, <1>4, <1>5, <1>6, FetchShape

LEMMA UntouchedStaysInsistent ==
    ASSUME NEW r \in Requests, Insistent(r), Untouched(r) PROVE Insistent(r)'
BY DEF Insistent, Untouched, Spared, EndsInArchive

LEMMA MissStartsInsistent ==
    ASSUME TypeOK, Sound, NEW r \in Requests, CacheMiss(r) PROVE Insistent(r)'
<1>1. /\ url[r] \in Urls /\ url'[r] = url[r] /\ pc'[r] = "fetch"
      /\ plan'[r] = Plan(r, url[r])
      /\ rescued'[r] = (Class[url[r]] = "republic" /\ r \notin WithAccounts)
  BY DEF CacheMiss, TypeOK, Sound, Request
<1>2. Spared(r)' \/ EndsInArchive(plan'[r])
  BY <1>1, PlanEndsInArchive DEF Spared
<1> QED
  BY <1>1, <1>2 DEF Insistent

\* The call that ends a request without an article is that of the archive, or the
\* archive was asked before.
LEMMA FetchStaysInsistent ==
    ASSUME TypeOK, Sound, NEW r \in Requests, Insistent(r), Fetch(r) PROVE Insistent(r)'
<1> DEFINE step == Head(plan[r])
<1>1. /\ pc[r] = "fetch" /\ url'[r] = url[r] /\ url[r] \in Urls
      /\ tried'[r] = tried[r] \cup {step.method}
      /\ plan[r] \in Seq(AttemptsFor(url[r])) /\ plan[r] # <<>>
      /\ Len(plan[r]) # 1 => Tail(plan[r]) # <<>>
  BY NextAttempt DEF Fetch, TypeOK
<1>2. "archive_relay" \in tried[r] \/ Spared(r) \/ EndsInArchive(plan[r])
  BY <1>1 DEF Insistent
<1>3. \/ \E text \in Texts : Deliver(r, text)
      \/ Len(plan[r]) # 1 /\ TryNext(r)
      \/ Len(plan[r]) = 1 /\ Finish(r, "no")
      \/ \E e \in Errors : Finish(r, e)
      \/ Rescue(r)
  BY DEF Fetch, Texts
<1>4. ASSUME NEW text \in Texts, Deliver(r, text) PROVE Insistent(r)'
  <2>1. pc'[r] \in {"done", "save"} /\ answer'[r] \in Articles
    BY <1>1, <1>4, NextAttempt, CompletedFits DEF Deliver, TypeOK
  <2> QED
    BY <2>1, NoneAssumption DEF Insistent
<1>5. ASSUME TryNext(r), Len(plan[r]) # 1 PROVE Insistent(r)'
  <2>1. pc'[r] = "fetch" /\ plan'[r] = Tail(plan[r]) /\ rescued'[r] = rescued[r]
    BY <1>1, <1>5 DEF TryNext, TypeOK
  <2>2. EndsInArchive(plan[r]) => EndsInArchive(plan'[r])
    BY <1>1, <1>5, <2>1, TailEndsInArchive
  <2> QED
    BY <1>1, <1>2, <2>1, <2>2 DEF Insistent, Spared
<1>6. ASSUME Finish(r, "no"), Len(plan[r]) = 1 PROVE Insistent(r)'
  <2>1. pc'[r] = "done" /\ rescued'[r] = rescued[r]
    BY <1>6 DEF Finish, TypeOK
  <2>2. EndsInArchive(plan[r]) => step.method = "archive_relay"
    BY <1>1, <1>6 DEF EndsInArchive
  <2> QED
    BY <1>1, <1>2, <2>1, <2>2 DEF Insistent, Spared
<1>7. ASSUME NEW e \in Errors, Finish(r, e) PROVE Insistent(r)'
  <2>1. pc'[r] = "done" /\ failed'[r] # "no"
    BY <1>7 DEF Finish, TypeOK, Errors
  <2> QED
    BY <2>1 DEF Insistent
<1>8. ASSUME Rescue(r) PROVE Insistent(r)'
  <2>1. pc'[r] = "fetch" /\ plan'[r] = Archive(url[r])
    BY <1>1, <1>8 DEF Rescue, TypeOK
  <2>2. EndsInArchive(Archive(url[r]))
    BY DEF EndsInArchive, Archive, Attempt
  <2> QED
    BY <2>1, <2>2 DEF Insistent
<1> QED
  BY <1>3, <1>4, <1>5, <1>6, <1>7, <1>8

LEMMA StepStaysInsistent ==
    ASSUME TypeOK, Sound, \A r \in Requests : Insistent(r), [Next]_vars
    PROVE  \A r \in Requests : Insistent(r)'
<1>1. ASSUME NEW r \in Requests, NEW u \in Urls, Submit(r, u)
      PROVE  \A s \in Requests : Insistent(s)'
  <2>1. pc'[r] = "lookup" /\ \A s \in Requests \ {r} : Untouched(s)
    BY <1>1 DEF Submit, TypeOK, Untouched
  <2> QED
    BY <2>1, UntouchedStaysInsistent DEF Insistent
<1>2. ASSUME NEW r \in Requests, CacheHit(r)
      PROVE  \A s \in Requests : Insistent(s)'
  <2>1. /\ pc'[r] = "done" /\ answer'[r] # None
        /\ \A s \in Requests \ {r} : Untouched(s)
    BY <1>2 DEF CacheHit, TypeOK, Untouched
  <2> QED
    BY <2>1, UntouchedStaysInsistent DEF Insistent
<1>3. ASSUME NEW r \in Requests, CacheMiss(r)
      PROVE  \A s \in Requests : Insistent(s)'
  <2>1. \A s \in Requests \ {r} : Untouched(s)
    BY <1>3 DEF CacheMiss, TypeOK, Untouched
  <2> QED
    BY <1>3, <2>1, MissStartsInsistent, UntouchedStaysInsistent
<1>4. ASSUME NEW r \in Requests, Fetch(r)
      PROVE  \A s \in Requests : Insistent(s)'
  <2>1. \A s \in Requests \ {r} : Untouched(s)
    BY <1>4, FetchTouchesOne
  <2> QED
    BY <1>4, <2>1, FetchStaysInsistent, UntouchedStaysInsistent
<1>5. ASSUME NEW r \in Requests, Save(r)
      PROVE  \A s \in Requests : Insistent(s)'
  <2>1. /\ pc'[r] = "done" /\ answer'[r] # None
        /\ \A s \in Requests \ {r} : Untouched(s)
    BY <1>5 DEF Save, TypeOK, Untouched, Sound, Request
  <2> QED
    BY <2>1, UntouchedStaysInsistent DEF Insistent
<1>6. ASSUME NEW r \in Requests, Cancel(r)
      PROVE  \A s \in Requests : Insistent(s)'
  <2>1. pc'[r] = "cancelled" /\ \A s \in Requests \ {r} : Untouched(s)
    BY <1>6 DEF Cancel, TypeOK, Untouched
  <2> QED
    BY <2>1, UntouchedStaysInsistent DEF Insistent
<1>7. ASSUME UNCHANGED <<url, pc, plan, rescued, answer, failed, tried>>
      PROVE  \A s \in Requests : Insistent(s)'
  BY <1>7, UntouchedStaysInsistent DEF Untouched
<1> QED
  BY <1>1, <1>2, <1>3, <1>4, <1>5, <1>6, <1>7 DEF Next, Work, Expire, vars

\* Whatever a URL's class, its fallbacks and the errors on the way, a request that
\* gives up in order has asked the archives before.
THEOREM ArchiveAsked == Spec => []ArchiveBeforeGivingUp
<1> DEFINE I == \A r \in Requests : Insistent(r)
<1>1. Init => I
  BY DEF Init, Insistent
<1>2. TypeOK /\ Sound /\ I /\ [Next]_vars => I'
  BY StepStaysInsistent
<1>3. I => ArchiveBeforeGivingUp
  BY DEF Insistent, ArchiveBeforeGivingUp, Spared
<1> HIDE DEF I
<1> QED
  BY <1>1, <1>2, <1>3, Inductive, PTL DEF Spec

-----------------------------------------------------------------------------
(* The archive before an internal error *)

\* An attempt whose recoverable errors do not end the request too early: they are
\* caught, or will be by _run_platform, or it is the archive's turn anyway.
Careful(u, saved) ==
    {a \in AttemptsFor(u) :
        \/ a.method = "archive_relay"
        \/ Class[u] \in Methods /\ {"net", "runtime"} \subseteq a.catches
        \/ Class[u] = "unknown" /\ "net" \in a.catches
        \/ Class[u] \in Platforms /\ ~saved}

Recovering(r) ==
    /\ pc[r] = "fetch" => plan[r] \in Seq(Careful(url[r], rescued[r]))
    /\ failed[r] # "no" => pc[r] = "done"
    /\ failed[r] \in {"net", "runtime"} =>
          \/ "archive_relay" \in tried[r]
          \/ failed[r] = "runtime" /\ ~Known(url[r])

LEMMA OneCareful ==
    ASSUME NEW u \in Urls, NEW saved \in BOOLEAN, NEW m \in Methods,
           NEW p \in {u, Variant[u]}, NEW c \in SUBSET Errors,
           \/ m = "archive_relay"
           \/ Class[u] \in Methods /\ {"net", "runtime"} \subseteq c
           \/ Class[u] = "unknown" /\ "net" \in c
    PROVE  <<Attempt(m, p, c)>> \in Seq(Careful(u, saved))
<1>1. Attempt(m, p, c) \in Careful(u, saved)
  BY DEF Attempt, AttemptsFor, Careful
<1> QED
  BY <1>1

LEMMA ArchiveIsCareful ==
    ASSUME NEW u \in Urls, NEW saved \in BOOLEAN
    PROVE  Archive(u) \in Seq(Careful(u, saved))
BY OneCareful DEF Archive, Methods, Errors

\* What a request starts with: all of its attempts are careful.
LEMMA PlanIsCareful ==
    ASSUME NEW r \in Requests, NEW u \in Urls
    PROVE  Plan(r, u) \in Seq(Careful(u, Class[u] = "republic" /\ r \notin WithAccounts))
<1> DEFINE saved == Class[u] = "republic" /\ r \notin WithAccounts
           S == Seq(Careful(u, saved))
<1>0. saved \in BOOLEAN /\ Class[u] \in Classes
  BY OrchestratorAssumption
<1>1. \A s, t \in S : s \o t \in S
  BY ConcatProperties
<1>2. <<>> \in S
  OBVIOUS
<1>3. Archive(u) \in S
  BY <1>0, ArchiveIsCareful
<1>4. CASE Class[u] = "unknown"
  <2>1. /\ <<Attempt("js_disable", u, {"net"})>> \in S
        /\ <<Attempt("googlebot_spoof", u, {"net"})>> \in S
    BY <1>0, <1>4, OneCareful DEF Methods, Errors
  <2>2. <<Attempt("js_disable", u, {"net"}), Attempt("googlebot_spoof", u, {"net"})>>
           = <<Attempt("js_disable", u, {"net"})>> \o <<Attempt("googlebot_spoof", u, {"net"})>>
    OBVIOUS
  <2> HIDE DEF S
  <2>3. HandleUnknown(u) \in S
    BY <1>1, <1>3, <2>1, <2>2 DEF HandleUnknown
  <2> QED
    BY <1>4, <2>3 DEF Plan, Methods, S
<1>5. CASE Class[u] \in Methods
  <2> DEFINE m == Class[u]
  <2>1. <<Attempt(m, PageFor(u, m), {"net", "runtime"})>> \in S
    BY <1>0, <1>5, OneCareful, PageForFits DEF Errors
  <2> HIDE DEF S
  <2>2. SuggestedMethod(r, u, m) \in S
    BY <1>1, <1>2, <1>3, <2>1 DEF SuggestedMethod
  <2> QED
    BY <1>5, <2>2 DEF Plan, Methods, S
<1>6. CASE Class[u] \in Platforms /\ ~saved
  <2>1. Careful(u, saved) = AttemptsFor(u)
    BY <1>6 DEF Careful
  <2> QED
    BY <2>1, PlanIsForItsUrl
<1>7. CASE saved
  <2>1. Plan(r, u) = Archive(u)
    BY <1>7 DEF Plan, Republic, Methods
  <2> QED
    BY <1>3, <2>1
<1> QED
  BY <1>0, <1>4, <1>5, <1>6, <1>7 DEF Classes

LEMMA UntouchedStaysRecovering ==
    ASSUME NEW r \in Requests, Recovering(r), Untouched(r) PROVE Recovering(r)'
BY DEF Recovering, Untouched, Careful, AttemptsFor

\* A call that raises: the error is caught, its request rescued, or the archive was
\* the one that raised it.
LEMMA FetchStaysRecovering ==
    ASSUME TypeOK, Sound, NEW r \in Requests, Recovering(r), Fetch(r) PROVE Recovering(r)'
<1> DEFINE step == Head(plan[r])
           S == Careful(url[r], rescued[r])
<1>1. /\ pc[r] = "fetch" /\ url'[r] = url[r] /\ url[r] \in Urls
      /\ tried'[r] = tried[r] \cup {step.method} /\ failed[r] = "no"
      /\ plan[r] \in Seq(S) /\ plan[r] # <<>>
  BY NextAttempt DEF Fetch, TypeOK, Recovering
<1>2. step \in S /\ Tail(plan[r]) \in Seq(S)
  BY <1>1, HeadTailProperties
<1>3. \/ \E text \in Texts : Deliver(r, text)
      \/ TryNext(r)
      \/ Finish(r, "no")
      \/ \E e \in Errors \ step.catches : ~Rescuable(r, e) /\ Finish(r, e)
      \/ Rescue(r)
  BY DEF Fetch, Texts
<1>4. ASSUME NEW text \in Texts, Deliver(r, text) PROVE Recovering(r)'
  <2>1. pc'[r] \in {"done", "save"} /\ failed'[r] = "no"
    BY <1>1, <1>4 DEF Deliver, TypeOK
  <2> QED
    BY <2>1 DEF Recovering
<1>5. ASSUME TryNext(r) PROVE Recovering(r)'
  <2>1. /\ pc'[r] = "fetch" /\ plan'[r] = Tail(plan[r]) /\ rescued'[r] = rescued[r]
        /\ failed'[r] = "no"
    BY <1>1, <1>5 DEF TryNext, TypeOK
  <2>2. Careful(url[r], rescued[r])' = S
    BY <1>1, <2>1 DEF Careful, AttemptsFor
  <2> QED
    BY <1>2, <2>1, <2>2 DEF Recovering
<1>6. ASSUME Finish(r, "no") PROVE Recovering(r)'
  <2>1. pc'[r] = "done" /\ failed'[r] = "no"
    BY <1>6 DEF Finish, TypeOK
  <2> QED
    BY <2>1 DEF Recovering
<1>7. ASSUME NEW e \in Errors \ step.catches, ~Rescuable(r, e), Finish(r, e)
      PROVE  Recovering(r)'
  <2>1. pc'[r] = "done" /\ failed'[r] = e
    BY <1>7 DEF Finish, TypeOK
  <2>2. e \in {"net", "runtime"} =>
           step.method = "archive_relay" \/ (e = "runtime" /\ ~Known(url[r]))
    BY <1>2, <1>7 DEF Careful, Rescuable, Known
  <2> QED
    BY <1>1, <2>1, <2>2 DEF Recovering, Known
<1>8. ASSUME Rescue(r) PROVE Recovering(r)'
  <2>1. /\ pc'[r] = "fetch" /\ plan'[r] = Archive(url[r]) /\ rescued'[r] = TRUE
        /\ failed'[r] = "no"
    BY <1>1, <1>8 DEF Rescue, TypeOK
  <2>2. Careful(url[r], rescued[r])' = Careful(url[r], TRUE)
    BY <1>1, <2>1 DEF Careful, AttemptsFor
  <2> QED
    BY <1>1, <2>1, <2>2, ArchiveIsCareful DEF Recovering
<1> QED
  BY <1>3, <1>4, <1>5, <1>6, <1>7, <1>8

LEMMA StepStaysRecovering ==
    ASSUME TypeOK, Sound, \A r \in Requests : Recovering(r), [Next]_vars
    PROVE  \A r \in Requests : Recovering(r)'
<1>1. ASSUME NEW r \in Requests, NEW u \in Urls, Submit(r, u)
      PROVE  \A s \in Requests : Recovering(s)'
  <2>1. /\ pc'[r] = "lookup" /\ failed'[r] = "no"
        /\ \A s \in Requests \ {r} : Untouched(s)
    BY <1>1 DEF Submit, TypeOK, Untouched, Recovering
  <2> QED
    BY <2>1, UntouchedStaysRecovering DEF Recovering
<1>2. ASSUME NEW r \in Requests, CacheMiss(r)
      PROVE  \A s \in Requests : Recovering(s)'
  <2> DEFINE saved == Class[url[r]] = "republic" /\ r \notin WithAccounts
  <2>1. /\ \A s \in Requests \ {r} : Untouched(s)
        /\ url[r] \in Urls /\ url'[r] = url[r] /\ failed'[r] = "no"
        /\ pc'[r] = "fetch" /\ plan'[r] = Plan(r, url[r]) /\ rescued'[r] = saved
    BY <1>2 DEF CacheMiss, TypeOK, Untouched, Sound, Request, Recovering
  <2>2. Careful(url[r], rescued[r])' = Careful(url[r], saved)
    BY <2>1 DEF Careful, AttemptsFor
  <2>3. Recovering(r)'
    BY <2>1, <2>2, PlanIsCareful DEF Recovering
  <2> QED
    BY <2>1, <2>3, UntouchedStaysRecovering
<1>3. ASSUME NEW r \in Requests, Fetch(r)
      PROVE  \A s \in Requests : Recovering(s)'
  <2>1. \A s \in Requests \ {r} : Untouched(s)
    BY <1>3, FetchTouchesOne
  <2> QED
    BY <1>3, <2>1, FetchStaysRecovering, UntouchedStaysRecovering
<1>4. ASSUME NEW r \in Requests, CacheHit(r) \/ Save(r) \/ Cancel(r)
      PROVE  \A s \in Requests : Recovering(s)'
  <2>1. /\ pc'[r] \in {"done", "cancelled"} /\ failed'[r] = "no"
        /\ \A s \in Requests \ {r} : Untouched(s)
    BY <1>4 DEF CacheHit, Save, Cancel, TypeOK, Untouched, Recovering
  <2> QED
    BY <2>1, UntouchedStaysRecovering DEF Recovering
<1>5. ASSUME UNCHANGED <<url, pc, plan, rescued, answer, failed, tried>>
      PROVE  \A s \in Requests : Recovering(s)'
  BY <1>5, UntouchedStaysRecovering DEF Untouched
<1> QED
  BY <1>1, <1>2, <1>3, <1>4, <1>5 DEF Next, Work, Expire, vars

\* Whatever raises it and wherever it is caught, no network error or RuntimeError
\* ends a request before the archives were asked, but a RuntimeError on a site
\* paywall_map.yaml does not know.
THEOREM RecoverablesRecovered == Spec => []RecoverableErrorsAreRecovered
<1> DEFINE I == \A r \in Requests : Recovering(r)
<1>1. Init => I
  BY DEF Init, Recovering
<1>2. TypeOK /\ Sound /\ I /\ [Next]_vars => I'
  BY StepStaysRecovering
<1>3. I => RecoverableErrorsAreRecovered
  BY DEF Recovering, RecoverableErrorsAreRecovered
<1> HIDE DEF I
<1> QED
  BY <1>1, <1>2, <1>3, Inductive, PTL DEF Spec

-----------------------------------------------------------------------------
(* Refinement *)

\* A step that changes one request at most replaces one reply at most.
LEMMA ReplyChange ==
    ASSUME NEW r \in Requests,
           \A s \in Requests \ {r} : pc'[s] = pc[s] /\ answer'[s] = answer[s]
    PROVE  Replies' = [Replies EXCEPT ![r] = Reply(r)']
<1>1. \A s \in Requests \ {r} : Reply(s)' = Reply(s)
  BY DEF Reply, Delivered
<1> QED
  BY <1>1 DEF Replies

\* What is told of a request, before and after a step.
LEMMA ReplyOf ==
    \A r \in Requests :
        /\ pc[r] \in {"idle", "lookup", "fetch", "save"} => Reply(r) = Promise!Pending
        /\ pc'[r] \in {"idle", "lookup", "fetch", "save"} => Reply(r)' = Promise!Pending
        /\ pc'[r] = "done" /\ answer'[r] = None => Reply(r)' = Promise!Refused
        /\ pc'[r] = "done" /\ answer'[r] # None => Reply(r)' = Promise!With(answer'[r])
        /\ pc'[r] = "cancelled" => Reply(r)' = Promise!Cancelled
BY DEF Reply, Delivered, Promise!Pending, Promise!Refused, Promise!With, Promise!Cancelled

\* Every step is one the promise allows, or invisible to it.
LEMMA StepKeepsPromise ==
    TypeOK /\ Sound /\ [Next]_vars => [Promise!Next]_(Promise!vars)
<1> SUFFICES ASSUME TypeOK, Sound, [Next]_vars
             PROVE  [Promise!Next]_(Promise!vars)
  OBVIOUS
<1>s. Sound'
  BY StepOK
<1> DEFINE Open(r) == url[r] # None /\ Replies[r] = Promise!Pending
<1>i. \A r \in Requests : Replies[r] = Reply(r) /\ Replies = [Replies EXCEPT ![r] = Reply(r)]
  BY DEF Replies
<1>o. \A r \in Requests : pc[r] \in {"lookup", "fetch", "save"} => Open(r)
  BY <1>i, ReplyOf DEF Sound, Request
<1> HIDE DEF Open
<1>1. ASSUME NEW r \in Requests, NEW u \in Urls, Submit(r, u)
      PROVE  Promise!Next
  <2>1. pc[r] = "idle" /\ url[r] = None /\ pc'[r] = "lookup"
        /\ url' = [url EXCEPT ![r] = u] /\ extracted' = extracted
        /\ \A s \in Requests \ {r} : pc'[s] = pc[s] /\ answer'[s] = answer[s]
    BY <1>1 DEF Submit, TypeOK, Sound, Request
  <2>2. Replies' = Replies
    BY <1>s, <1>i, <2>1, ReplyChange, ReplyOf
  <2> QED
    BY <1>i, <2>1, <2>2 DEF Promise!Ask, Promise!Next
<1>2. ASSUME NEW r \in Requests, CacheHit(r) \/ Save(r)
      PROVE  Promise!Next
  <2>1. /\ pc[r] \in {"lookup", "save"} /\ pc'[r] = "done"
        /\ url' = url /\ extracted' = extracted
        /\ \A s \in Requests \ {r} : pc'[s] = pc[s] /\ answer'[s] = answer[s]
        /\ answer'[r] # None
    BY <1>2 DEF CacheHit, Save, TypeOK, Sound, Request
  <2>2. answer'[r] \in extracted /\ Fits(answer'[r], url[r])
    BY <1>s, <2>1 DEF Sound, Request, Fits
  <2>3. Replies' = [Replies EXCEPT ![r] = Promise!With(answer'[r])]
    BY <1>s, <2>1, ReplyChange, ReplyOf
  <2>4. Open(r)
    BY <1>o, <2>1
  <2> QED
    BY <1>i, <2>1, <2>2, <2>3, <2>4 DEF Open, Promise!Open, Promise!Answer, Promise!Next
<1>3. ASSUME NEW r \in Requests, CacheMiss(r) \/ TryNext(r) \/ Rescue(r),
             pc[r] \in {"lookup", "fetch"}, url' = url
      PROVE  UNCHANGED Promise!vars
  <2>1. /\ pc'[r] \in {"lookup", "fetch"} /\ extracted' = extracted
        /\ \A s \in Requests \ {r} : pc'[s] = pc[s] /\ answer'[s] = answer[s]
    BY <1>3 DEF CacheMiss, TryNext, Rescue, TypeOK
  <2>2. Replies' = Replies
    BY <1>3, <1>s, <1>i, <2>1, ReplyChange, ReplyOf
  <2> QED
    BY <1>3, <2>1, <2>2 DEF Promise!vars
<1>4. ASSUME NEW r \in Requests, NEW text \in Texts, Deliver(r, text),
             pc[r] = "fetch", url' = url
      PROVE  Promise!Next
  <2> DEFINE a == Completed(url[r], Head(plan[r]), text)
  <2>1. /\ pc'[r] \in {"save", "done"} /\ answer'[r] = a /\ extracted' = extracted \cup {a}
        /\ \A s \in Requests \ {r} : pc'[s] = pc[s] /\ answer'[s] = answer[s]
    BY <1>4 DEF Deliver, TypeOK
  <2>2. a \in Articles /\ Fits(a, url[r])
    BY <1>4, NextAttempt, CompletedFits
  <2>3. answer'[r] # None /\ extracted' \subseteq Articles
    BY <2>1, <2>2, NoneAssumption DEF TypeOK
  <2>4. \/ Replies' = Replies
        \/ Replies' = [Replies EXCEPT ![r] = Promise!With(a)]
    <3> HIDE DEF a
    <3> QED
      BY <1>4, <1>s, <1>i, <2>1, <2>3, ReplyChange, ReplyOf
  <2>5. Open(r)
    BY <1>4, <1>o
  <2> HIDE DEF a
  <2> QED
    BY <1>4, <1>i, <2>1, <2>2, <2>3, <2>4, <2>5
       DEF Open, Promise!Open, Promise!Extract, Promise!Next
<1>5. ASSUME NEW r \in Requests, Cancel(r) \/ \E e \in Errors \cup {"no"} : Finish(r, e),
             pc[r] \in {"lookup", "fetch", "save"}, url' = url, pc[r] # "fetch" => Cancel(r)
      PROVE  Promise!Next
  <2>1. /\ extracted' = extracted
        /\ \A s \in Requests \ {r} : pc'[s] = pc[s] /\ answer'[s] = answer[s]
        /\ pc'[r] = "cancelled" \/ (pc'[r] = "done" /\ answer'[r] = None)
    BY <1>5, NextAttempt DEF Cancel, Finish, TypeOK
  <2>2. \/ Replies' = [Replies EXCEPT ![r] = Promise!Refused]
        \/ Replies' = [Replies EXCEPT ![r] = Promise!Cancelled]
    BY <1>s, <2>1, ReplyChange, ReplyOf
  <2>3. Open(r)
    BY <1>5, <1>o
  <2> QED
    BY <1>5, <1>i, <2>1, <2>2, <2>3 DEF Open, Promise!Open, Promise!GiveUp, Promise!Next
<1>6. ASSUME (\E p \in Pages : Expire(p)) \/ UNCHANGED vars
      PROVE  UNCHANGED Promise!vars
  <2>1. url' = url /\ pc' = pc /\ answer' = answer /\ extracted' = extracted
    BY <1>6 DEF Expire, vars
  <2> QED
    BY <2>1 DEF Promise!vars, Replies, Reply, Delivered
<1>7. ASSUME NEW r \in Requests, Fetch(r)
      PROVE  [Promise!Next]_(Promise!vars)
  BY <1>3, <1>4, <1>5, <1>7, FetchShape
<1>8. ASSUME NEW r \in Requests, Cancel(r)
      PROVE  Promise!Next
  BY <1>5, <1>8 DEF Cancel
<1>9. ASSUME NEW r \in Requests, CacheMiss(r)
      PROVE  UNCHANGED Promise!vars
  BY <1>3, <1>9 DEF CacheMiss
<1> QED
  BY <1>1, <1>2, <1>6, <1>7, <1>8, <1>9 DEF Next, Work

\* For all requests, URLs and classes, the orchestrator implements Extraction:
\* one answer for good, an article that was extracted and fits the URL.
THEOREM KeepsPromise == Spec => ImplementsExtraction
<1>1. Init => Promise!Init
  BY DEF Init, Promise!Init, Promise!Pending, Replies, Reply, Delivered
<1> QED
  BY <1>1, StepKeepsPromise, Inductive, PTL DEF Spec, ImplementsExtraction, Promise!Spec
=============================================================================
