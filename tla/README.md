# A formal model of unpaywallbot

TLA+ modules, TLC configurations and TLAPS proofs for the bot in `src/bot`: a
Telegram bot that is sent the link of an article, reads the text the publisher or a
public archive makes available, and answers with it.  The bot is one asyncio
process.  aiogram runs a task per Telegram update; tasks interleave at every
`await`, and they meet in Redis (FSM data, cache, rate counters), in module
variables (the archive pause, the Telegraph token), in the account storage with its
worker threads, and in the chat.

## The parts of the system

| Part | State | Operations | Hard behaviour | What makes it correct |
| --- | --- | --- | --- | --- |
| Dialogue (`handlers/url_handler.py`, `handlers/callbacks.py`) | FSM datum `url` in Redis; the messages and buttons in the chat; each handler's locals | a text with a link, `try_anyway`, `retry_archives`, `cancel_action` | updates of one user interleave at every await and share the datum; any call of Telegram or Redis may fail or lose its reply; request timeout; the process may die | the datum is what its last writer owes the user; no status message its handler knows of stays behind; only sent addresses are processed; every update ends |
| Orchestrator (`services/orchestrator.py`, `services/platforms`) | the request | `process_url` | chains of fallbacks that depend on which error class is caught where; cancellation | an honest answer (fragment flag), the archive before giving up and after recoverable errors, an end |
| Fetch methods (`services/methods`) | none, but for the archive pause | one call of a site or a browser | errors of every class | their results fit what the orchestrator expects |
| Article cache (`storage/cache.py`) | entries in Redis with a lifetime | get, save | Redis down; writes of requests cancelled meanwhile | only usable texts, under the right address |
| Archive adapter (`services/methods/archive_relay.py`) | `_blocked_until` | `fetch_via_archive` | concurrent calls are refused one after the other; circular redirects | the pause is kept, ends, and never costs a reader the Wayback Machine |
| Account storage (`auth/account_manager.py`) | accounts in memory, the encrypted file | add, save, remove, look up | a lock held across a thread's write; cancellation; crashes between write, rename and fsync; failed writes | acknowledged changes last, accounts stay with their user, the lock is passed on |
| Rate limiter (`middleware/rate_limiter.py`) | three counters per user in Redis | one Lua script per update | window boundaries, expiry, Redis down, lost answers | bounded counters that always expire |
| Delivery (`models/telegraph_publisher.py`, `utils/text_formatter.py`, end of `process_url_message`) | the Telegraph token; the parts sent | publish, split, send | two first publications at once; a failing service; cuts at awkward places | the whole text in order, in messages Telegram takes |
| Fetching from a site (`services/methods/js_disable.py`, `googlebot_spoof.py`, `wsj.py`, `services/http_client.py`, `security/url_guard.py`) | the HTTP client of one call | requests, redirects, retries, bodies | any status, body or error at any await, an extraction that raises, cancellation; attempts times redirects | an end the orchestrator expects, a closed client, checked addresses, a bounded number of requests |
| Links and publications (`utils/url_utils.py`, `services/paywall_classifier.py`) | none | validate, normalize, hash, find the entry | normalization is applied several times and is not idempotent; subdomains | a publication is found by its entry; two pages do not share a cache key |
| Content extractor (`services/content_extractor.py`) | none | three strategies, promotion, truncation, the text of a tree | markers in odd places; nested markup | the longest text, whole or marked as cut, in the order of the page |
| Whitelist, access log (`middleware/whitelist.py`, `access_log.py`) | the file of the day, a lock and worker threads per middleware | filter, append a line | a write that fails or is cancelled in `finally`; midnight between two steps; a thread that outlives its caller | a handled update has one true line in the right file; the lock is passed on |
| Process (`main.py`, `storage/redis_client.py`, `utils/logger.py`) | Redis pool, FSM storage, Telegram session, log listener | connect with retries, start, stop, close | a failure or Ctrl+C at any await, also inside a close; closes that raise; updates in flight | nothing is left that nobody tried to close, unless a close was interrupted; the process ends |
| Static commands, encryption, configuration, privacy, scripts | none of the bot's own | | | (left out, see below) |

## The modules

State modules keep the names of the code where there is one and have `TypeOK`, `Init`,
one action per step between two awaits, `Next`, `Spec`, `FairSpec`, and its
properties at the end.  Definitions that stand before another one and change it in
one place (`TimeoutAroundStatus`, `RaiseLocked`, `HardSplit` ...) are deliberate
mistakes: `PROJECT.json` lists for each property the mistake it would catch.
`MC_*` modules hold the values for TLC; `*Proofs` modules hold the theorems.

**UrlHandler** - the dialogue of one user.  A task is an update.  `pc` is the await
the handler stands at, `session` the FSM datum, `keyboard` the buttons under its
answer (a later task may press them: `Press`, `PressCancel`), `verdict` what it last
told the user.  `Abort` is a failing call at any await that is not protected, and
`AbortLate` one that took effect before its reply was lost (the status message is then
`"lost"`: in the chat, but unknown to its handler);
`Apologise` stands inside the `except` clause, so that its failure still runs
`Cleanup`, the `finally` clause.  `Crash` kills all handlers; Redis and the chat
remain.  `asyncio.timeout` covers exactly the call of the orchestrator.

**Orchestrator** - `process_url`.  `Plan` translates the dispatch over
`paywall_map.yaml`, the platforms and the methods into the list of attempts a URL
gets, each with the error classes that lead to the next attempt; `Fetch` is one
awaited call with everything the code does with its result, `Rescue` the except
clause of `_run_platform`.  Two requests share the cache.  `Save` and `Expire` are
its writes and expiries; a cancelled request may still write.  The `account_manager`
is optional in the code and absent in the deployed bot, so a constant says which
requests may use accounts.  `failed` is the error behind the internal error a request
ended in.

**Extraction** - the abstract promise: a request is answered at most once and for
good, and with an article that was really extracted for a page that fits its URL.
`Orchestrator!ImplementsExtraction` is the refinement, with the request's fate as a
state function (`Reply`).

**ArchiveRelay** - concurrent calls of `fetch_via_archive`.  `pause` is
`_cooldown_remaining()`, `Refused` a 429 or captcha page, `ToWayback` the fallback,
`hops` the redirects of `_get_wayback_snapshot`.  It elaborates what is one `Fetch`
of `archive_relay` in Orchestrator.

**AccountStore** - `AccountManager` and its client `fetch_via_headless_auth`.  `lock`
is the `asyncio.Lock`; `job` the worker thread of `asyncio.to_thread` with the stages
of `_atomic_write` (queued, writing, renamed, done or failed); `disk` what a reader
of the file sees, `durable` what a power loss may leave of it: `Crash` is the end of
the process, after which the file is as it was, `PowerLoss` that of the machine, after
which renames that were not synced may be gone.  `Cancel` releases the lock at
once, but a thread that has started goes on; `orphaned` records that this happened.
`promised` records what the last acknowledged call left in each slot.

**RateLimiter** - the Lua script on the three fixed windows of one user, every exit
of the middleware, and Redis expiry as ticks.  The history `recent` counts, for every
span of ticks up to the longest window, the updates counted within it, which are those
let through and those whose answer was lost (`ReplyLost`).

**Delivery** - from `state.clear()` to the last message: `_ensure_account` and
`create_page` with the shared token, the fallback to messages, and `split_into_chunks`
with `_find_split_position` on real character sequences (`begins` records where in the
text each part begins, for the properties).  It elaborates the stages `publish` to
`chunks` of UrlHandler.

**Bot** - the dialogue and the extraction together.  It EXTENDS UrlHandler and
instantiates Extraction with the handlers as requests: announcing is followed by
`Ask`, the end of the call is joined with the answer (`Return`, `Raise`), the
timeout of the handler cancels the request (`CancelCall`).  Since Orchestrator
implements Extraction, what Bot shows holds for the handler over the orchestrator
that is there.

**Urls** and **ContentExtractor** - operators, no state.  A link has a host of
labels and a path of segments; `Normalize`, `UrlHash` and `MatchDomain` do with them
what `url_utils.py` and `_match_domain` do with strings, `IsValid` what
`_parse_valid_url` refuses.  A text is a sequence of fragments (body, truncation
marker, promotional marker, junk paragraph, blank); `Extract` takes the longest of
the three strategies' texts, rejects promotion and cuts at the marker.  `Normalized`
gives the kept paragraphs by their rank and not with `SelectSeq`, of which the prover
knows nothing.  Where a link has more www labels than normalization leaves other
labels, `Normalize` ends in `NoUrl`, the empty hash under which `cache.py` (94, 134)
neither files nor finds anything.

**ElementText** - `_remove_noise` and the loop of `_element_to_text` over lxml's
trees, element by element, every text and tail a piece of its own.  Separate from
ContentExtractor because its question is another one, the order of the pieces.

**FetchResults** - how a call of a fetch method may end; shared by Orchestrator,
which assumes it, and Fetch, which shows it.

**Fetch** - one call of `js_disable`, `googlebot_spoof` or `wsj_bypass`, from the
link in the message on: the checks of the handler and of the method (`Handle`), the
address check before every hop (`Check`), the request (`Send`), the body chunk by
chunk (`Receive`), redirects, the judgement of the complete response by each method
(`Judge...`), an extraction that raises (`ExtractionRaises`), the pause between
retries, the `finally` clause (`Close`).  Sites, DNS
and the network answer anything; the caller may be cancelled at any await, `aclose()`
included.

**AccessLog** - an update on its way through whitelist, limiter and access log, the
lock of each middleware instance as a queue, the worker thread with the file it has
open, midnight.  `Return` is the `finally` clause, where an error of the thread takes
the place of the handler's result; the line of a handler that was cancelled has no
status (`Status`); `CancelAll` cancels every task.

**Process** - EXTENDS AccessLog with `main()`: `Connect` and `Backoff`, `SetCommands`,
`Stop`, `CloseResource` for each step of `shutdown()`, `Interrupt` for Ctrl+C during
one, which only has an effect while aiogram's signal handlers are not installed
(`handlers`), `StopLogging`, and then what `asyncio.run` does: it cancels the tasks and
waits for them and for the threads. `Use` is a call of a handler in flight that makes a
closed client connect again.

How they fit together: UrlHandler's stage `process` is one request of Orchestrator
(Bot); its `Timeout` is Orchestrator's and Fetch's `Cancel` and, inside a browser
fetch, AccountStore's `Cancel` or ArchiveRelay's `Break`; an attempt of Orchestrator
is a call of Fetch, of ArchiveRelay or, with `headless_auth`, a `Browse` of
AccountStore, and ends as FetchResults says; its `Class` is what `Urls!Classify` finds;
the stages after `clear` are Delivery.  Each of these handlers is a `handle` of
AccessLog, behind RateLimiter, in the life of Process.

## What the runs check

All cfg files give model values to the constants and nothing else.

| Run | Bounds | Shows |
| --- | --- | --- |
| `dialogue_safety` | 3 updates, 2 articles (one behind a login), symmetric in the updates | `LastWriterDecides`, `StatusMessageGone`, `ProcessedUrlsWereSent` under every interleaving, failing call, lost reply, timeout and crash.  Three are needed for a question, a button pressed under it and a third party that writes the datum in between |
| `bot` | 2 updates, an article at each of 2 addresses and one that fits neither | `DeliveredTextFits`, and `EveryUpdateEnds` though the orchestrator may hang.  Two handlers are enough for one to change the FSM datum while the other waits |
| `orchestrator` | 2 requests, a URL of each kind (SZ's variant is a URL of its own), one request with accounts | `PartialIsFlagged`, `ArchiveBeforeGivingUp`, `RecoverableErrorsAreRecovered`, `CacheHoldsUsableTexts`, the refinement of Extraction, `EveryRequestEnds`.  A second request is what can meet the cache entry of the first |
| `archive` | 3 calls, a pause of 3 ticks, 3 redirects as in the code | `PauseIsKept`, `PauseEnds`, `WaybackBeforeGivingUp`, `EveryFetchEnds`.  Three calls can be in flight when the first refusal comes, so that the pause is prolonged twice |
| `accounts` | 2 calls, 2 users and the shared owner, 1 address | `AcknowledgedIsDurable`, `OwnAccountsOnly`, `EveryCallEnds` with crashes of the process and the machine at any stage, failed writes and cancelled callers |
| `limiter` | windows of 2, 3, 5 ticks, limits 2, 3, 4 | `CountersAreBounded`, `BurstIsBounded`, `NobodyIsLockedOut`; each window is the exhausted one at some time |
| `delivery` | every text of up to 5 characters over letter, full stop, space and line break, parts of 3; a second delivery | `WholeTextArrives`, `PartsAreSendable`, `WordsStayWhole`, `EveryDeliveryEnds` |
| `fetch` | 38 links (www up to three times, also with too few labels behind it, subdomains, parents that are not publications, odd paths, queries) to a plain page; one link of WSJ to more than 70 pages; the 3 attempts of the code, 1 redirect, a body of 2 units, thresholds of 2 and 3 fragments, 2 and 3 promotional markers | `ResultsAsExpected`, `ClientIsClosed`, `SiteIsSpared`, `OnlyCheckedPagesAreRead`, `CutTextIsMarked`, `RecognisedByItsEntry`, `CacheKeySeparatesPages`, `EveryFetchEnds`.  Texts reach both sides of every threshold; each retry may be redirected and refused |
| `process` | 2 messages, 2 days, the 3 connection attempts of the code | `HandledMeansLogged`, `LinesAreDated`, `WritesTakeTurns`, `ShutdownIsComplete`, `NobodyWaitsForEver`.  Two updates of one kind share a lock, and one midnight may pass between any two steps |

Three runs end with a counterexample: the code does not do what a comment or document
of the repository says.

| Run | The statement | What happens |
| --- | --- | --- |
| `dialogue_retry` | README.md:168-169, the retry button retains the original request context | the button takes the URL from the FSM datum: after a second link, "retry" under the first answer processes the second article |
| `text_order` (trees of 3 elements) | content_extractor.py:375-378, the text of `<article>` with its paragraph structure kept | `_element_to_text` appends the tail of an element before it visits the element's children: `<p>A <a>B <em>C</em></a> D</p>` becomes "A B D C" |
| `accounts_serial` | docs/ACCOUNT_STORAGE.md:68, in-process writes are serialized | a cancelled caller frees the lock while its thread still writes; the thread then overwrites the change of a later, acknowledged call |

`text_order` asks for the order in trees without noise only, so that its counterexample
is one for both strategies that read a tree, with and without `_remove_noise` before.

Further divergences are visible in the models but have no run of their own, and no
property catches them.

* The status message is announced before the `try` (url_handler.py:114): if Telegram
  posts it and the reply is lost, the handler raises and the message stays.
  `StatusMessageGone` names the case (UrlHandler: `AbortLate`, status `"lost"`).
* RuntimeError counts as an error after which another source makes sense
  (orchestrator.py:41-47), but the handler of unknown sites expects network errors alone
  (orchestrator.py:206): a page whose JSON-LD is nested so deeply that `json.loads`
  raises RecursionError (content_extractor.py:324) ends the request in an internal error
  before googlebot_spoof and the archive were asked.  `RecoverableErrorsAreRecovered`
  excepts it (FetchResults: every method may end in `"runtime"`; Fetch:
  `ExtractionRaises`).
* Ctrl+C during a close cuts `shutdown()` ("close all open resources", main.py:56) short
  if polling never began, say after `set_commands` failed: CancelledError passes the
  `except Exception` of main.py:59-74, so that the other closes and `shutdown_logging`
  are skipped.  `ShutdownIsComplete` excepts it (Process: `Interrupt`).

* The success of one article clears the URL of another one of the same user
  (url_handler.py:167), which is to stay "until its successful result"
  (url_handler.py:111; UrlHandler: `Clear`).
* An HTTP error of googlebot_spoof skips js_disable for Conde Nast
  (conde_nast.py:53), which is announced as "googlebot_spoof, then js_disable"
  (conde_nast.py:43; Orchestrator: `CondeNast` catches nothing).
* Articles of WSJ and SZ premium are filed under the variant that was read and are
  not found under the URL that was asked (cache.py:133), though the cache is there so
  that "sites are not asked again" (cache.py:3; Orchestrator: `Variant`).
* `cancel_action` ("cancel the current operation", callbacks.py:57) clears the datum
  and leaves a processing that `try_anyway` started running, so that the article still
  arrives (UrlHandler: `CancelClear` changes no other task).
* `save_account` ("save the updated cookies", account_manager.py:327) stores the whole
  account the browser started with, so that a password replaced meanwhile comes back
  (AccountStore: `Browse` keeps the password it read).
* The pause of thirty minutes (README.md:166) lives in the process and ends with a
  restart (ArchiveRelay: `Restart`), so `PauseIsKept` counts from the last refusal
  this process saw.
* `shutdown()` runs while handlers may still
  be running: what they call after its close is opened again and not closed a second
  time (Process: `Use`).  `ShutdownIsComplete` therefore speaks of resources nobody
  tried to close.
* The lock of the access log is to keep JSON lines from interleaving
  (access_log.py:154), but messages and button presses have a middleware and a lock
  each and write to the same file; that lines stay whole rests on `O_APPEND`
  (AccessLog: `queue` has an entry per kind).
* `_remove_noise` is to remove noise elements (content_extractor.py:418); lxml's
  `remove` takes the text behind the element with it (ElementText: `RemoveNoise`).
* The longest of the three texts is chosen before promotion is rejected, so that a
  promotional one discards a shorter good one (content_extractor.py:240;
  ContentExtractor: `Extract`).
* A truncation marker near the start leaves less than `min_text_length`, possibly only
  the notice, since the length is checked before the cut (ContentExtractor:
  `Extract`).

### Fairness

Only what the code's scheduling gives.  The event loop runs a coroutine whose await is
over (weak fairness of the steps of a handler).  Calls of Telegram, Redis, Telegraph and
the HTTP clients end with a result or an error.  For the HTTP clients `src` sets
timeouts (http_client.py:85-91); for Telegram and Redis it sets none
(redis_client.py:68-72 gives no `socket_timeout`), so that their calls end is an
assumption about aiogram, redis-py and the network.  The orchestrator is *not* assumed
to return in UrlHandler: `asyncio.timeout` fires (weak fairness of `Timeout`).
`asyncio.Lock` wakes its waiters in the order in which they came, hence strong fairness
of entering it.  Redis's and the process's clocks advance.  In Fetch, `Work` is fair
because the HTTP client has timeouts for connecting, reading and writing; in Process,
`Main` and each update are fair because calls of Redis and Telegram end and, by
`EveryUpdateEnds`, so do the handlers; `Interrupt` is not part of `Main`.  Bot assumes
of the extraction what UrlHandler assumes of the orchestrator: nothing but that the
timeout fires.  No fairness is assumed of users, failures, crashes or cancellations.

### Assumptions about what is outside `src`

Redis keeps what it was given until it expires.  The shipped `docker-compose.yml`
configures `allkeys-lru` and snapshots every minute, under which it may also evict rate
counters and FSM data under memory pressure or lose the last minute of them; that is not
modelled.  lxml's `iter()` gives an element before its children, and its `remove` takes
the tail along.  httpx calls the request hook before every hop and the response hook
before it looks at a redirect.  A line written with `O_APPEND` in one call is appended
whole.  aiogram stops polling without waiting for the tasks of updates, installs its
signal handlers when polling begins and leaves them there, and its session and storage
reconnect when they are used after a close.  A rename is atomic, and durable once the
directory was synced; of several that were not synced, any may be the last a power loss
leaves.  httpx marks a client closed before the first await of `aclose()`.
`OnlyCheckedPagesAreRead` is about the call that checks an address; that the connection
resolves to the same one later is not modelled.  There is one bot process.

### Bounds that are not in a cfg

`RateLimiter`, `ArchiveRelay` and `Delivery` are finite by themselves (bounded
counters, capped history).  In `Orchestrator` a request is used once; in
`AccountStore` and `UrlHandler` each task is one call or update, in `AccessLog` an
update has one thread.  `Fetch` follows one call; its history `sent` stops counting
one above the number the property allows, and `Receive` takes chunks of 1 or 2.
`AccessLog` ends at `LastDay`.

## What is proved

TLAPS checks these theorems for every value of the constants, from the named
assumptions of the modules (`HandlerAssumption`, `StoreAssumption`,
`LimiterAssumption`, `RelayAssumption`, `OrchestratorAssumption`, `NoneAssumption`,
`FetchAssumption`, `EntriesAssumption`, `ExtractorAssumption`, `DeliveryAssumption`,
`LogAssumption`, `ProcessAssumption`), which TLC evaluates in the runs.  Every safety
property of a passing run is among them.  The type invariants are proved here and so
are in no run but `delivery`.

* **AccountStoreProofs**: `TypeCorrect` (with it: only a saving call holds the lock),
  `AcknowledgedSurvives`, `AccountsStayPrivate`.  A write replaces the whole file, so
  agreement of file and promises is not inductive: memory and the image of the
  thread at work must agree too (`Kept`, `Progress`), and only the holder of the lock
  may have such a thread (`Locking`).  All three hold until a cancelled call leaves a
  thread behind, after which `accounts_serial` shows that nothing can be promised;
  `OrphanedForGood` says that the condition never returns.
* **ArchiveRelayProofs**: `TypeCorrect`, `WaybackAsked`, `PauseKept`, from `RelayInv`,
  whose heart is that pause and silence add up to the cooldown.
* **RateLimiterProofs**: `TypeCorrect`, `CountersBounded` and `BurstBounded`, for all
  limits and window lengths.  The bound of a burst is not inductive: `BurstInv` says
  that a living counter counts the updates since it was created, and that the span of
  its window holds fewer than the limit besides, since the update that began the window
  before is too old for it (`Counting`; `Resting` is the same without a counter).
* **OrchestratorProofs**: `TypeCorrect`, `FragmentsAreFlagged`, `CacheIsUsable`,
  `ArchiveAsked`, `RecoverablesRecovered` and `KeepsPromise`, the refinement of
  Extraction.  The properties speak of delivered articles, which may come from the
  cache, so they have to hold of every article ever completed: each plan only holds
  attempts at the URL or its variant, an article completed from such an attempt is
  flagged by its own URL's classification, and two URLs that share a page agree on being
  known. `ArchiveAsked` needs to know of a request at work that the archive is behind it
  or the last attempt of its plan (`Insistent`), through every fallback and rescue;
  `RecoverablesRecovered` needs in its place which errors each attempt catches.  For the
  refinement each action is mapped to a step of Extraction or to a stutter, request by
  request, over the state function `Replies`.
* **BotProofs**, the dialogue alone: `TypeCorrect`, `LastWriterInvariant`, `StatusGone`,
  `OnlySentUrls`, all from the inductive `DialogueInv`.  `LastWriterDecides` speaks
  of what the user was told; a handler that has told nothing yet could be anywhere.
  The strengthening ties the datum to the stage of the handler that wrote it last
  (`Writer`) and each stage to what has been told so far (`Told`).  For
  `StatusMessageGone` the stages are tied to the message: shown exactly while the
  handler is on its way to the `finally` clause, lost only once a handler is over that
  never asked the orchestrator.  For `ProcessedUrlsWereSent` the
  datum itself must always come from a text message, since callbacks read it.
* **BotProofs**, the composition: it is a dialogue (`BotIsADialogue`) and uses the
  extraction as Extraction allows (`BotUsesExtraction`); so everything proved of the
  two holds in it.  `DeliveredFits` needs besides that a handler's `url` does not change
  while it waits and that its request is open exactly from the call to the answer, the
  error or the cancellation.
* **FetchProofs**: `TypeCorrect`, `EndsAsExpected`, `ClosesItsClient`, `SparesTheSite`,
  `ReadsCheckedPages`.  The invariant ties the client and the outcome to the stage
  (`Course`) and the requests sent to attempts and hops (`Spent`, with `Budget`):
  the bound is not inductive without knowing how much of it each attempt has left.
  `MarksCutText`, `RecognisesLinks` and `SeparatesPages` are about what the operators
  on pages and links compute, for any of them.  `MatchIsEntry` shows that the nearest
  parent in the map is the longest entry that ends the host, and `EntryWithoutWww` that
  one www more or less does not change it, because no entry begins with one
  (`EntriesAssumption`; data/paywall_map.yaml:4): so the handler may classify the
  normalized link.  `NormalizedNamesThePage` shows that one normalization keeps the
  page a link names; it is applied twice to a link that is looked up and four times to
  one that is filed.  `TailIsStripped` shows that the cut text is a beginning of the
  whole one, in front of every marker.
* **DeliveryProofs**: `DeliveryTypeCorrect`, `TextArrives`, `SendableParts`,
  `WholeWords`, for texts and messages of any length, from `DeliveryInv`.  That the
  parts sent are pieces of the text (`InPieces`) goes on only because what remains is
  the end of the text and begins with no white space, and `WordsStayWhole` only because
  each part but the last was kept whole when it was cut (`PartOK`); `Course` ties what
  remains to the stage.  The lemmas under it say what
  `SplitPosition` (`CutIsGood`) and `LeftStripped` (`Stripped`) return.
* **ProcessProofs**: `TypeCorrect`, `Persisted`, `DatedRight`, `ClosesEverything`,
  `LocksTakeTurns`.  A line is appended by a thread after the handler has ended and
  maybe after its task was cancelled; so the invariant says for each stage of the
  thread which line can be there, and that the day of its file lies between the
  handler's end and today.  `LocksTakeTurns` needs to know of the queue of
  a lock that whoever is in it waits or writes and is there once, that whoever writes
  is at its head, and that a thread works for a task that writes or was cancelled
  (`Turns`).

Where a proof needs the first or the last index with some property, it is by the
least-element principle, from the library's theorems on well-founded relations
(`LeastElement`); no proof needs induction with an operator as a parameter.

Only model-checked: liveness (`EveryUpdateEnds`, `EveryRequestEnds`, `EveryCallEnds`,
`EveryFetchEnds`, `EveryDeliveryEnds`, `PauseEnds`, `NobodyIsLockedOut`,
`NobodyWaitsForEver`), which rests on fairness and ENABLED, out of the prover's reach;
and the counterexamples.

## What is not modelled, and why

* The steps inside the browser (`headless_auth.py`: login form, route guard, closing
  page, context, browser and playwright): calls of Playwright one after the other.
  What it may end with is in FetchResults, what it does with accounts in AccountStore.
* `Article.extraction_method`: each fetcher writes its own name into it, `_complete`
  fills it in where none did, and nothing in the bot decides on it.
* Title and author, the regular expressions and markers as such, readability-lxml:
  formatting, or libraries.  `invalidate_article_cache`, `get_cache_stats`,
  `truncate_with_ellipsis`, `strip_markdown`, `reload` of the classifier and
  `shutdown_polling` have no caller in the bot.
* Encryption, configuration, privacy, log formats, the health check: pure string or
  cryptographic work without state the rest reads.  Validation of a damaged account
  file or paywall map ends the start with an error.
* `/start` and the other fixed answers (a second press of one menu button makes
  `edit_text` raise before `callback.answer()`, start.py:170, without an effect on
  anything else); the branch of `handle_message` for a message without a sender, which
  aiogram never calls with an FSM context.
* The operator scripts.  `register_accounts.py` uses the operations AccountStore models
  from a process of its own; docs/ACCOUNT_STORAGE.md:68 asks for a single writer, and
  AccountStore models one process.

## Plan

Done: UrlHandler, Orchestrator with Extraction, AccountStore, RateLimiter, ArchiveRelay,
Delivery, then Urls, ContentExtractor, ElementText, Fetch, AccessLog, Process and Bot,
with the proofs above.  Next, in this order:

1. The measures behind the liveness properties, as theorems about single steps: what a
   retry, a redirect or a cut lowers.
2. The browser flow of `headless_auth.py` with its four resources, if its clean-up
   changes.
