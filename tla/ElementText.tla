---------------------------- MODULE ElementText ----------------------------
(***************************************************************************)
(* How content_extractor.py reads the text of a parsed page: _element_to_text *)
(* and, for the <article> strategy, _remove_noise before it.                 *)
(*                                                                           *)
(* The tree is lxml's.  Elements are numbered in document order, the order   *)
(* of element.iter(), with 1 for the element that is read.  Each carries two *)
(* pieces of text: "text" stands between its start tag and its first child,  *)
(* "tail" between its end tag and whatever comes next.                       *)
(***************************************************************************)
EXTENDS Integers, Sequences

CONSTANT Size       \* bound: elements of a tree

Elements == 1..Size

\* "block": one of _BLOCK_TAGS; "bold": <b> or <strong>; "noise": one of
\* _NOISE_TAGS, or of a class or attribute _remove_noise looks for.
Tags == {"block", "inline", "bold", "noise"}

VARIABLES
    parent,     \* the tree; 0 is the parent of the element that is read
    tag,
    present,    \* the pieces of text that are not empty
    rest,       \* elements still to be visited, in order
    parts,      \* what has been appended, with Break for a separator
    kept        \* elements that are in the tree

vars == <<parent, tag, present, rest, parts, kept>>

Above(p) ==
    LET above[i \in Elements] == IF i = 1 THEN {} ELSE {p[i]} \cup above[p[i]]
    IN above

Subtree(i) == {j \in Elements : j = i \/ i \in Above(parent)[j]}

TextOf(i) == [piece |-> "text", of |-> i]
TailOf(i) == [piece |-> "tail", of |-> i]
Break == [piece |-> "break", of |-> 0]
Pieces == {TextOf(i) : i \in Elements} \cup {TailOf(i) : i \in Elements}

\* A parser gives an element to one that is still open.
Parse ==
    {p \in [Elements -> 0..Size - 1] :
        /\ p[1] = 0
        /\ \A i \in 2..Size : p[i] \in 1..i - 1
        /\ \A i \in 2..Size : p[i] \in {i - 1} \cup Above(p)[i - 1]}

\* Only white space follows the element that is read.
Init ==
    /\ parent \in Parse
    /\ tag \in [Elements -> Tags]
    /\ \E x \in Pieces : present = Pieces \ {x, TailOf(1)}
    /\ rest = [i \in Elements |-> i]
    /\ parts = <<>>
    /\ kept = Elements

\* parent.remove takes an element with its subtree and, in lxml, its tail.
RemoveNoise ==
    /\ Len(rest) = Size
    /\ LET noise == {i \in Elements \ {1} : tag[i] = "noise"}
       IN kept' = Elements \ UNION {Subtree(i) : i \in noise}
    /\ rest' = SelectSeq(rest, LAMBDA i : i \in kept')
    /\ UNCHANGED <<parent, tag, present, parts>>

\* <b> or <strong> as the only child of a paragraph that has no text before it.
IsHeading(i) ==
    /\ tag[i] = "bold" /\ i # 1 /\ tag[parent[i]] = "block"
    /\ \A j \in kept : parent[j] = parent[i] => j = i
    /\ TextOf(parent[i]) \notin present

\* One turn of the loop over element.iter().
Visit ==
    /\ rest # <<>>
    /\ LET i == Head(rest)
           break == IF tag[i] = "block" \/ IsHeading(i) THEN <<Break>> ELSE <<>>
           text == IF TextOf(i) \in present THEN <<TextOf(i)>> ELSE <<>>
           tail == IF TailOf(i) \in present THEN <<TailOf(i)>> ELSE <<>>
       IN parts' = parts \o break \o text \o tail
    /\ rest' = SubSeq(rest, 2, Len(rest))
    /\ UNCHANGED <<parent, tag, present, kept>>

Next == RemoveNoise \/ Visit

Spec == Init /\ [][Next]_vars

-----------------------------------------------------------------------------
\* The last element a reader sees before the end tag of i.
Last(i) == CHOOSE j \in Subtree(i) : \A k \in Subtree(i) : k <= j

\* Whether the page shows one piece of text before another.
Before(x, y) ==
    CASE x.piece = "text" /\ y.piece = "text" -> x.of < y.of
      [] x.piece = "text" /\ y.piece = "tail" -> x.of <= Last(y.of)
      [] x.piece = "tail" /\ y.piece = "text" -> Last(x.of) < y.of
      [] x.piece = "tail" /\ y.piece = "tail" ->
            Last(x.of) < Last(y.of) \/ (Last(x.of) = Last(y.of) /\ x.of > y.of)

\* content_extractor.py:376: the structure of the paragraphs is kept, so what the
\* page shows first comes first in the text.  Asked of pages without noise, so that
\* both strategies that read a tree are meant.
TextIsInReadingOrder ==
    (\A i \in Elements : tag[i] # "noise") =>
        \A i, j \in DOMAIN parts :
            i < j /\ parts[i] # Break /\ parts[j] # Break => Before(parts[i], parts[j])
=============================================================================
