----------------------------- MODULE MC_Delivery -----------------------------
(* A text of up to five characters in parts of three, so that every kind of    *)
(* boundary occurs at every place of a part and of a cut; next to it another  *)
(* delivery that shares the publisher.                                        *)
EXTENDS Delivery

CONSTANTS d1, d2

MCDeliveries == {d1, d2}
Letters == {"x", ".", "sp", "nl"}
MCCharacters == Letters \cup Blank \cup Marks
AllTexts == {s \in UNION {[1..n -> Letters] : n \in 1..5} : ~IsBlank(s)}
MCTexts == (d1 :> AllTexts) @@ (d2 :> {<<"x">>})
=============================================================================
