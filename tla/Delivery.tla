------------------------------ MODULE Delivery ------------------------------
(***************************************************************************)
(* How an article reaches the reader (process_url_message after              *)
(* state.clear(), src/bot/handlers/url_handler.py): a page on telegra.ph,    *)
(* or the text itself in several messages.  Concurrent deliveries share the  *)
(* TelegraphPublisher, which creates its account when it is first used       *)
(* (src/bot/models/telegraph_publisher.py); split_into_chunks                *)
(* (src/bot/utils/text_formatter.py) cuts the text.                          *)
(*                                                                           *)
(* A text is a sequence of characters: "sp", "nl" and "tab" are white space, *)
(* ".", "!", "?" and "," end parts of sentences, any other is a letter.       *)
(* The orchestrator only completes a request with a text that is not blank.  *)
(* The function cuts the whole text before the first part is sent; here each *)
(* part is cut when it is sent, from what is left of a text nobody changes.  *)
(***************************************************************************)
EXTENDS Integers, Sequences, FiniteSetsExt, SequencesExt

CONSTANTS
    Deliveries,         \* articles being delivered
    Characters,
    Texts,              \* [Deliveries -> the texts each may have]
    MaxLength,          \* MAX_MESSAGE_LENGTH - _PART_HEADER_RESERVE
    TelegraphEnabled,   \* settings.telegraph_enabled
    NoToken

Blank == {"sp", "nl", "tab"}
Marks == {".", "!", "?", ","}
IsBlank(s) == \A i \in DOMAIN s : s[i] \in Blank

ASSUME DeliveryAssumption ==
    /\ NoToken \notin Deliveries
    /\ Blank \cup Marks \subseteq Characters
    /\ MaxLength \in Nat \ {0}
    /\ TelegraphEnabled \in BOOLEAN
    /\ \A d \in Deliveries : \A s \in Texts[d] : s \in Seq(Characters) /\ ~IsBlank(s)

VARIABLES
    token,      \* _token of the publisher: the delivery whose account it is
    pc,
    text,
    remaining,  \* what split_into_chunks has left
    sent,       \* the parts in the chat
    begins,     \* history: where in the text each of these parts begins
    outcome

cutting == <<text, remaining, sent, begins>>
vars == <<token, pc, cutting, outcome>>

Init ==
    /\ token = NoToken
    /\ pc = [d \in Deliveries |-> "idle"]
    /\ text = [d \in Deliveries |-> <<>>]
    /\ remaining = [d \in Deliveries |-> <<>>]
    /\ sent = [d \in Deliveries |-> <<>>]
    /\ begins = [d \in Deliveries |-> <<>>]
    /\ outcome = [d \in Deliveries |-> "pending"]

TypeOK ==
    /\ token \in Deliveries \cup {NoToken}
    /\ pc \in [Deliveries -> {"idle", "account", "page", "link", "header", "parts", "done"}]
    /\ text \in [Deliveries -> Seq(Characters)]
    /\ remaining \in [Deliveries -> Seq(Characters)]
    /\ sent \in [Deliveries -> Seq(Seq(Characters))]
    /\ begins \in [Deliveries -> Seq(Nat)]
    /\ outcome \in [Deliveries -> {"pending", "link", "parts", "raised"}]
    /\ \A d \in Deliveries : /\ pc[d] \in {"page", "link"} => token # NoToken
                             /\ pc[d] # "idle" => text[d] \in Texts[d]

Go(d, stage) == pc' = [pc EXCEPT ![d] = stage]
End(d, what) == Go(d, "done") /\ outcome' = [outcome EXCEPT ![d] = what]

-----------------------------------------------------------------------------
(* split_into_chunks *)

Boundaries == << <<"nl", "nl">>, <<"nl">>, <<".", "sp">>, <<"!", "sp">>,
                 <<"?", "sp">>, <<",", "sp">>, <<"sp">> >>

\* Where a boundary ends in s.
Ends(s, b) == {i \in Len(b)..Len(s) : SubSeq(s, i - Len(b) + 1, i) = b}

HardSplit(s) == Min({MaxLength, Len(s)})

\* _find_split_position: after the last occurrence of the first boundary that
\* occurs within the limit at all.
SplitPosition(s) ==
    LET area == SubSeq(s, 1, MaxLength)
        found == {k \in DOMAIN Boundaries : Ends(area, Boundaries[k]) # {}}
    IN IF Len(s) <= MaxLength THEN Len(s)
       ELSE IF found = {} THEN MaxLength
       ELSE Max(Ends(area, Boundaries[Min(found)]))

KeepSpace(s) == s
SkipOne(s) == IF s = <<>> THEN s ELSE Tail(s)

\* str.lstrip
LeftStripped(s) ==
    LET kept == {i \in DOMAIN s : s[i] \notin Blank}
    IN IF kept = {} THEN <<>> ELSE SubSeq(s, Min(kept), Len(s))

-----------------------------------------------------------------------------
StartWithoutAccount(d) ==
    /\ pc[d] = "idle"
    /\ \E s \in Texts[d] : /\ text' = [text EXCEPT ![d] = s]
                           /\ remaining' = [remaining EXCEPT ![d] = s]
    /\ Go(d, IF TelegraphEnabled THEN "page" ELSE "header")
    /\ UNCHANGED <<token, sent, begins, outcome>>

\* publish, if Telegraph is enabled: _ensure_account awaits only without a token.
Start(d) ==
    /\ pc[d] = "idle"
    /\ \E s \in Texts[d] : /\ text' = [text EXCEPT ![d] = s]
                           /\ remaining' = [remaining EXCEPT ![d] = s]
    /\ Go(d, CASE ~TelegraphEnabled -> "header"
               [] TelegraphEnabled /\ token = NoToken -> "account"
               [] OTHER -> "page")
    /\ UNCHANGED <<token, sent, begins, outcome>>

\* The account of a delivery that found no token, whoever has stored one since.
AccountCreated(d) ==
    /\ pc[d] = "account"
    /\ token' = d
    /\ Go(d, "page")
    /\ UNCHANGED <<cutting, outcome>>

PageCreated(d) ==
    /\ pc[d] = "page"
    /\ Go(d, "link")
    /\ UNCHANGED <<token, cutting, outcome>>

PublishAgain(d) ==
    /\ pc[d] \in {"account", "page"}
    /\ Go(d, "account")
    /\ UNCHANGED <<token, cutting, outcome>>

\* publish catches whatever goes wrong and returns None, as for an empty address.
PublishFails(d) ==
    /\ pc[d] \in {"account", "page"}
    /\ Go(d, "header")
    /\ UNCHANGED <<token, cutting, outcome>>

SendLink(d) ==
    /\ pc[d] = "link"
    /\ End(d, "link")
    /\ UNCHANGED <<token, cutting>>

SendHeader(d) ==
    /\ pc[d] = "header"
    /\ Go(d, "parts")
    /\ UNCHANGED <<token, cutting, outcome>>

\* One part; the last one ends the delivery.
SendPart(d) ==
    /\ pc[d] = "parts"
    /\ LET s == remaining[d]
           cut == SplitPosition(s)
           rest == LeftStripped(SubSeq(s, cut + 1, Len(s)))
       IN /\ sent' = [sent EXCEPT ![d] = Append(@, SubSeq(s, 1, cut))]
          /\ begins' = [begins EXCEPT ![d] = Append(@, Len(text[d]) - Len(s) + 1)]
          /\ remaining' = [remaining EXCEPT ![d] = rest]
          /\ IF rest = <<>> THEN End(d, "parts") ELSE UNCHANGED <<pc, outcome>>
    /\ UNCHANGED <<token, text>>

\* Telegram refuses a message: the handler raises, nothing is sent after it.
Raise(d) ==
    /\ pc[d] \in {"link", "header", "parts"}
    /\ End(d, "raised")
    /\ UNCHANGED <<token, cutting>>

Step(d) ==
    \/ Raise(d) \/ PublishFails(d) \/ AccountCreated(d) \/ PageCreated(d)
    \/ SendLink(d) \/ SendHeader(d) \/ SendPart(d)

Next == \E d \in Deliveries : Start(d) \/ Step(d)

\* Calls of Telegraph and Telegram end, with an answer or an error.
Fairness == \A d \in Deliveries : WF_vars(Step(d))

Spec == Init /\ [][Next]_vars
FairSpec == Spec /\ Fairness

-----------------------------------------------------------------------------
(* Properties *)

\* The place in a text at which the part after the i-th begins, or else the rest,
\* which has not been sent yet.
NextBegin(t, parts, places, rest, i) ==
    IF i < Len(parts) THEN places[i + 1] ELSE Len(t) - Len(rest) + 1

\* The parts are pieces of the text in its order, from its first character on;
\* only white space is missing between them; and the rest is its end.
InPieces(t, parts, places, rest) ==
    LET Following(i) == NextBegin(t, parts, places, rest, i)
    IN /\ Len(places) = Len(parts)
       /\ Following(0) = 1
       /\ \A i \in DOMAIN parts :
             LET end == places[i] + Len(parts[i]) - 1
             IN /\ parts[i] = SubSeq(t, places[i], end)
                /\ end < Following(i)
                /\ \A j \in end + 1..Following(i) - 1 : t[j] \in Blank
       /\ rest = SubSeq(t, Following(Len(parts)), Len(t))

\* The parts carry the whole text in order, white space at the cuts aside; what is
\* not sent yet is still to come.  Unless Telegram refuses a message, the reader
\* gets all of it or a page (telegraph_publisher.py:6: the chat is the way out
\* when publishing fails).
WholeTextArrives ==
    \A d \in Deliveries : pc[d] # "idle" =>
        /\ InPieces(text[d], sent[d], begins[d], remaining[d])
        /\ outcome[d] = "parts" => remaining[d] = <<>>
        /\ pc[d] = "done" /\ outcome[d] # "link" => outcome[d] \in {"parts", "raised"}

\* Telegram takes every part: none is empty or longer than a message, and none is
\* blank but the first one of a text that begins with white space.
PartsAreSendable ==
    \A d \in Deliveries : \A i \in DOMAIN sent[d] :
        /\ Len(sent[d][i]) \in 1..MaxLength
        /\ IsBlank(sent[d][i]) => i = 1 /\ text[d][1] \in Blank

\* text_formatter.py:41-43: a word is cut only where a part of full length has no
\* space or line break to cut at.
WordsStayWhole ==
    \A d \in Deliveries : \A i \in DOMAIN sent[d] :
        i < Len(sent[d]) =>
            LET part == sent[d][i]
            IN \/ Last(part) \in Blank
               \/ Len(part) = MaxLength /\ ToSet(part) \cap {"sp", "nl"} = {}

\* However the text is made up, cutting it comes to an end, and publishing does
\* not keep the reader waiting for ever.
EveryDeliveryEnds == \A d \in Deliveries : pc[d] # "idle" ~> pc[d] = "done"
=============================================================================
