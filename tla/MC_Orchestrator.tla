-------------------------- MODULE MC_Orchestrator --------------------------
(* Requests for one URL of each kind, the SZ variant as a URL of its own.    *)
EXTENDS Orchestrator

CONSTANTS r1, r2

MCRequests == {r1, r2}

AllUrls == {"blog", "thebell", "nyt", "times", "wsj", "newyorker", "spiegel", "sz",
            "sz_reduced", "republic", "login"}
AllPages == AllUrls \cup {"wsj_rsswn"}

\* "login": a headless_auth entry without a platform, which the dispatch knows
\* although paywall_map.yaml has none at present.
ClassOf(u) ==
    CASE u = "blog" -> "unknown"
      [] u = "thebell" -> "js_disable"
      [] u = "nyt" -> "googlebot_spoof"
      [] u = "times" -> "archive_relay"
      [] u = "wsj" -> "wsj_bypass"
      [] u = "newyorker" -> "conde_nast"
      [] u = "spiegel" -> "german_free"
      [] u = "republic" -> "republic"
      [] u = "login" -> "headless_auth"
      [] OTHER -> "sz_premium"

VariantOf(u) ==
    CASE u = "wsj" -> "wsj_rsswn" [] u = "sz" -> "sz_reduced" [] OTHER -> u

MCClass == [u \in Urls |-> ClassOf(u)]
MCVariant == [u \in Urls |-> VariantOf(u)]

\* r1 may use the accounts, r2 may not (as in the deployed bot).
MCWithAccounts == {r1}
=============================================================================
