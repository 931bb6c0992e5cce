-------------------------- MODULE ContentExtractor --------------------------
(***************************************************************************)
(* ContentExtractor.extract (src/bot/services/content_extractor.py) as an    *)
(* operator on pages.                                                        *)
(*                                                                           *)
(* A text is a sequence of fragments: "body" is text of the article, "more"  *)
(* a truncation marker, a member of Promos one of the paywall markers,       *)
(* "junk" a paragraph _normalize_paragraphs drops (share buttons, captions), *)
(* "space" a blank one.  Lengths count fragments.  A page holds what each of *)
(* the three strategies finds in its HTML:                                   *)
(*   readability  the text of readability-lxml, None if it cannot parse      *)
(*   scripts      per JSON-LD script its articleBody values in document      *)
(*                order (an unreadable script has none)                      *)
(*   article      the text of the first <article> after _remove_noise, None  *)
(*                if there is no such tag                                    *)
(***************************************************************************)
EXTENDS Integers, Sequences, FiniteSets

CONSTANTS
    Promos,         \* _PAYWALL_MARKERS
    MinLength,      \* min_text_length
    PromoLength,    \* _PROMO_THRESHOLD
    FewPromos,      \* markers that make a short text promotion
    ManyPromos,     \* _heavy_promo_count
    None

ASSUME ExtractorAssumption ==
    /\ MinLength \in Nat \ {0} /\ PromoLength \in Nat
    /\ FewPromos \in Nat /\ ManyPromos \in Nat
    /\ Promos \cap {"body", "more", "junk", "space", "notice"} = {}

Fragments == {"body", "more", "junk", "space"} \cup Promos

IsBody(fragment) == fragment \notin {"junk", "space"}

MaybeText == {None} \cup Seq(Fragments)

Pages == [readability : MaybeText, scripts : Seq(Seq(Seq(Fragments))), article : MaybeText]

\* _normalize_paragraphs: what is kept, in its order.
Normalized(text) ==
    LET kept == {i \in DOMAIN text : IsBody(text[i])}
        rank(i) == Cardinality({j \in kept : j <= i})
    IN [k \in 1..Cardinality(kept) |-> text[CHOOSE i \in kept : rank(i) = k]]

\* A strategy gives a text of the minimal length or nothing.
LongEnough(text) == IF Len(text) >= MinLength THEN text ELSE None

TryReadability(page) ==
    IF page.readability = None THEN None
    ELSE LongEnough(Normalized(page.readability))

\* _find_article_body: the first body that is not the empty string, however short.
FindArticleBody(bodies) ==
    LET found == {i \in DOMAIN bodies : bodies[i] # <<>>}
    IN IF found = {} THEN <<>> ELSE bodies[CHOOSE i \in found : \A j \in found : i <= j]

\* The first script whose body is long enough; its text is taken as it is.
TryJsonLd(page) ==
    LET found == {i \in DOMAIN page.scripts :
                     LongEnough(FindArticleBody(page.scripts[i])) # None}
    IN IF found = {} THEN None
       ELSE FindArticleBody(page.scripts[CHOOSE i \in found : \A j \in found : i <= j])

TryArticleTag(page) ==
    IF page.article = None THEN None ELSE LongEnough(Normalized(page.article))

Candidates(page) ==
    <<TryReadability(page), TryJsonLd(page), TryArticleTag(page)>>

\* max(candidates, key=len) keeps the first of several longest ones.
LongestCandidate(page) ==
    LET c == Candidates(page)
        longest == {i \in 1..3 : /\ c[i] # None
                                 /\ \A j \in 1..3 : c[j] # None => Len(c[j]) <= Len(c[i])}
    IN IF longest = {} THEN None ELSE c[CHOOSE i \in longest : \A j \in longest : i <= j]

FragmentsOf(text) == {text[i] : i \in DOMAIN text}

IsPaywallPromo(text) ==
    LET count == Cardinality(FragmentsOf(text) \cap Promos)
    IN count >= FewPromos /\ (Len(text) < PromoLength \/ count >= ManyPromos)

IsTruncated(text) == "more" \in FragmentsOf(text)

\* str.rstrip()
RightStripped(text) ==
    LET kept == {i \in DOMAIN text : text[i] # "space"}
    IN IF kept = {} THEN <<>> ELSE SubSeq(text, 1, CHOOSE i \in kept : \A j \in kept : j <= i)

StripAtLastMarker(text) ==
    LET marks == {i \in DOMAIN text : text[i] = "more"}
    IN IF marks = {} THEN text
       ELSE RightStripped(SubSeq(text, 1, (CHOOSE i \in marks : \A j \in marks : j <= i) - 1))

\* _strip_truncation_tail: everything from the earliest marker goes.
StripTruncationTail(text) ==
    LET marks == {i \in DOMAIN text : text[i] = "more"}
    IN IF marks = {} THEN text
       ELSE RightStripped(SubSeq(text, 1, (CHOOSE i \in marks : \A j \in marks : i <= j) - 1))

\* The text of the article, or None.
Extract(page) ==
    LET text == LongestCandidate(page)
    IN IF text = None THEN None
       ELSE IF IsPaywallPromo(text) THEN None
       ELSE IF IsTruncated(text) THEN Append(StripTruncationTail(text), "notice")
       ELSE text

\* Article.is_empty
IsBlank(text) == FragmentsOf(text) \subseteq {"space"}
=============================================================================
