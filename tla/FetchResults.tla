---------------------------- MODULE FetchResults ----------------------------
(***************************************************************************)
(* What one call of a fetch method (src/bot/services/methods) may end with,  *)
(* as its caller, the orchestrator, sees it.  A text is "full", "teaser"     *)
(* (shorter than PARTIAL_CONTENT_THRESHOLD) or "blank" (Article.is_empty);   *)
(* an error is "net" (httpx.HTTPError, OSError), "runtime" (RuntimeError) or *)
(* "other".  The module Fetch shows that js_disable, googlebot_spoof and     *)
(* wsj_bypass end in no other way.                                           *)
(***************************************************************************)

Methods == {"js_disable", "googlebot_spoof", "archive_relay", "headless_auth",
            "wsj_bypass"}

Texts == {"full", "teaser", "blank"}
Errors == {"net", "runtime", "other"}

\* Any method may end in a RuntimeError: a RecursionError is one, and nothing
\* catches that of json.loads on a page (content_extractor.py:324-331) or on an
\* answer of Wayback; the account storage and the browser flow raise it themselves.
\* Only a text read by js_disable or in the browser is returned even if it is blank.
FetchViaJsDisable == Texts \cup Errors \cup {"none"}
FetchViaGooglebot == {"full", "teaser", "none"} \cup Errors
FetchViaArchive == {"full", "teaser", "none"} \cup Errors
FetchViaWsj == {"full", "teaser", "none"} \cup Errors
FetchViaHeadless == Texts \cup Errors \cup {"none"}

Results(method) ==
    CASE method = "js_disable" -> FetchViaJsDisable
      [] method = "googlebot_spoof" -> FetchViaGooglebot
      [] method = "archive_relay" -> FetchViaArchive
      [] method = "wsj_bypass" -> FetchViaWsj
      [] method = "headless_auth" -> FetchViaHeadless
=============================================================================
