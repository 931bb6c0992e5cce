------------------------------- MODULE Urls -------------------------------
(***************************************************************************)
(* Links and publications: src/bot/utils/url_utils.py and the lookup of      *)
(* src/bot/services/paywall_classifier.py.                                   *)
(*                                                                           *)
(* A link is what extract_url found in a message.  Its host is the sequence  *)
(* of its labels, its path a sequence of "/", segments and ";" (a path       *)
(* parameter, urllib's ParseResult.params, with all that follows it up to    *)
(* the next "/").  "refused" stands for credentials, an IP address, a port   *)
(* other than 80 and 443 or a malformed one.                                 *)
(***************************************************************************)
EXTENDS Integers, Sequences

CONSTANTS
    Labels,     \* what stands between the dots of a host
    Segments,   \* what a path is made of
    Queries,
    Entries,    \* the domains of paywall_map.yaml, as label sequences
    NoUrl       \* the empty string normalize_url gives for an invalid link

Addresses == [host : Seq(Labels), path : Seq(Segments), query : Queries, refused : BOOLEAN]

\* The map names every domain without www (data/paywall_map.yaml:4).
ASSUME EntriesAssumption ==
    /\ \A e \in Entries : e \in Seq(Labels) /\ Len(e) >= 2 /\ Head(e) # "www"
    /\ NoUrl \notin Addresses

\* _parse_valid_url: what is_valid_url accepts.
IsValid(u) == u # NoUrl /\ ~u.refused /\ Len(u.host) >= 2

WithoutWww(host) ==
    IF Len(host) >= 2 /\ Head(host) = "www" THEN Tail(host) ELSE host

ExtractDomain(u) == IF IsValid(u) THEN WithoutWww(u.host) ELSE <<>>

\* urlparse takes the parameters off the last segment.
WithoutParams(path) ==
    LET cuts == {i \in DOMAIN path :
                    /\ path[i] = ";"
                    /\ \A j \in DOMAIN path : j > i => path[j] # "/"}
    IN IF cuts = {} THEN path
       ELSE SubSeq(path, 1, (CHOOSE i \in cuts : \A j \in cuts : i <= j) - 1)

\* str.rstrip('/')
WithoutSlashes(path) ==
    LET kept == {i \in DOMAIN path : path[i] # "/"}
    IN IF kept = {} THEN <<>>
       ELSE SubSeq(path, 1, CHOOSE i \in kept : \A j \in kept : j <= i)

NormalizeNoQuery(u) ==
    IF ~IsValid(u) THEN NoUrl
    ELSE [host |-> WithoutWww(u.host), refused |-> FALSE,
          path |-> WithoutSlashes(WithoutParams(u.path)), query |-> ""]

\* normalize_url: scheme, port and fragment go without a trace.
Normalize(u) ==
    IF ~IsValid(u) THEN NoUrl
    ELSE [host |-> WithoutWww(u.host), refused |-> FALSE,
          path |-> WithoutSlashes(WithoutParams(u.path)), query |-> u.query]

\* get_url_hash: two texts share a hash only if they are equal.
UrlHash(u) == Normalize(u)

MatchExactly(host) == IF host \in Entries THEN host ELSE <<>>

\* _match_domain: the host itself, then its parents that have two labels or
\* more, the nearest first; <<>> if none of them is in the map.
MatchDomain(host) ==
    LET from(i) == SubSeq(host, i, Len(host))
        hits == {i \in DOMAIN host : (i = 1 \/ i < Len(host)) /\ from(i) \in Entries}
    IN IF hits = {} THEN <<>>
       ELSE from(CHOOSE i \in hits : \A j \in hits : i <= j)

\* PaywallClassifier.classify, as far as the entry it finds.
Classify(u) == MatchDomain(ExtractDomain(u))

-----------------------------------------------------------------------------
(* What a reader means by a link. *)

HasParams(u) == ";" \in {u.path[i] : i \in DOMAIN u.path}

\* The host a reader sees, without the www labels that front it.
Bare(host) ==
    LET kept == {i \in DOMAIN host : i = Len(host) \/ host[i] # "www"}
    IN IF kept = {} THEN <<>>
       ELSE SubSeq(host, CHOOSE i \in kept : \A j \in kept : i <= j, Len(host))

SamePage(u, v) ==
    /\ Bare(u.host) = Bare(v.host)
    /\ WithoutSlashes(u.path) = WithoutSlashes(v.path)
    /\ u.query = v.query

\* The entry of a host: the longest one that is a suffix of it.
EntryOf(host) ==
    LET suffixes == {e \in Entries :
                        /\ Len(e) <= Len(host)
                        /\ e = SubSeq(host, Len(host) - Len(e) + 1, Len(host))}
    IN IF suffixes = {} THEN <<>>
       ELSE CHOOSE e \in suffixes : \A f \in suffixes : Len(f) <= Len(e)
=============================================================================
