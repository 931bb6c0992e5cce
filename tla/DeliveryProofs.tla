--------------------------- MODULE DeliveryProofs ---------------------------
(***************************************************************************)
(* What a reader gets of any text, cut for any length of message.  First     *)
(* what the two helpers of split_into_chunks return, then the invariant of   *)
(* the deliveries: the text sent so far, cut by cut, and what is left of it. *)
(***************************************************************************)
EXTENDS Delivery, SequenceTheorems, WellFoundedInduction, TLAPS

-----------------------------------------------------------------------------
(* Least and greatest elements *)

LEMMA LeastElement ==
    ASSUME NEW T \in SUBSET Nat, T # {}
    PROVE  Min(T) \in T /\ \A y \in T : Min(T) <= y
<1>1. IsWellFoundedOn(OpToRel(<, Nat), Nat)
  BY NatLessThanWellFounded
<1>2. PICK x \in T : \A y \in T : <<y, x>> \notin OpToRel(<, Nat)
  BY <1>1, WFMin
<1>3. \A y \in T : y < x => <<y, x>> \in OpToRel(<, Nat)
  BY DEF OpToRel
<1>4. \A y \in T : ~(y < x)
  BY <1>2, <1>3
<1>5. \A y \in T : x <= y
  BY <1>4
<1> QED
  BY <1>5 DEF Min

LEMMA GreatestElement ==
    ASSUME NEW n \in Nat, NEW T \in SUBSET (0..n), T # {}
    PROVE  Max(T) \in T /\ \A y \in T : Max(T) >= y
<1> DEFINE R == {m \in 0..n : n - m \in T}
<1>1. PICK t \in T : TRUE
  OBVIOUS
<1>2. n - t \in 0..n /\ n - (n - t) = t
  OBVIOUS
<1>3. R \in SUBSET Nat /\ R # {}
  BY <1>2
<1>4. PICK m \in R : \A k \in R : m <= k
  BY <1>3, LeastElement
<1>5. ASSUME NEW y \in T PROVE n - m >= y
  <2>1. n - y \in R /\ y \in Nat /\ m \in Nat
    OBVIOUS
  <2>2. m <= n - y
    BY <1>4, <2>1
  <2> QED
    BY <2>1, <2>2
<1>6. n - m \in T
  OBVIOUS
<1> QED
  BY <1>5, <1>6 DEF Max

-----------------------------------------------------------------------------
(* split_into_chunks *)

\* What is stripped is white space, and what is left begins with a character
\* that is none.
LEMMA Stripped ==
    ASSUME NEW s \in Seq(Characters)
    PROVE  \E k \in 0..Len(s) :
              /\ \A i \in 1..k : s[i] \in Blank
              /\ LeftStripped(s) = SubSeq(s, k + 1, Len(s))
              /\ k < Len(s) => s[k + 1] \notin Blank
<1> DEFINE kept == {i \in DOMAIN s : s[i] \notin Blank}
<1>1. Len(s) \in Nat /\ DOMAIN s = 1..Len(s)
  BY LenProperties
<1>k. /\ kept \subseteq 1..Len(s)
      /\ \A i \in 1..Len(s) : i \in kept <=> s[i] \notin Blank
      /\ LeftStripped(s) = IF kept = {} THEN <<>> ELSE SubSeq(s, Min(kept), Len(s))
  BY <1>1 DEF LeftStripped
<1> HIDE DEF kept
<1>2. CASE kept = {}
  <2>1. SubSeq(s, Len(s) + 1, Len(s)) = <<>>
    BY <1>1, SubSeqEmpty
  <2>2. \A i \in 1..Len(s) : s[i] \in Blank
    BY <1>k, <1>2
  <2>3. LeftStripped(s) = <<>>
    BY <1>k, <1>2
  <2> WITNESS Len(s) \in 0..Len(s)
  <2> QED
    BY <1>1, <2>1, <2>2, <2>3
<1>3. CASE kept # {}
  <2>1. kept \in SUBSET Nat /\ Min(kept) \in kept /\ \A y \in kept : Min(kept) <= y
    <3>1. kept \in SUBSET Nat
      BY <1>k
    <3> QED
      BY <1>3, <3>1, LeastElement
  <2>2. LeftStripped(s) = SubSeq(s, Min(kept), Len(s))
    BY <1>k, <1>3
  <2>3. PICK k \in 0..Len(s) : Min(kept) = k + 1 /\ s[k + 1] \notin Blank
    <3>1. PICK m \in 1..Len(s) : m = Min(kept) /\ s[m] \notin Blank
      BY <1>k, <2>1
    <3>2. m - 1 \in 0..Len(s) /\ m = (m - 1) + 1
      BY <1>1
    <3> QED
      BY <3>1, <3>2
  <2>4. ASSUME NEW i \in 1..k PROVE s[i] \in Blank
    <3>1. i \in 1..Len(s) /\ i < k + 1
      BY <1>1
    <3>2. i \notin kept
      BY <2>1, <2>3, <3>1
    <3> QED
      BY <1>k, <3>1, <3>2
  <2> QED
    BY <2>2, <2>3, <2>4
<1> QED
  BY <1>2, <1>3

Space == <<"sp">>
NewLine == <<"nl">>

\* Every boundary has one or two characters, and its last one is white space; one
\* space and one line break are boundaries.
EndsBlank(b) == b \in Seq(Characters) /\ Len(b) \in 1..2 /\ b[Len(b)] \in Blank

LEMMA BoundariesEndBlank ==
    /\ DOMAIN Boundaries = 1..7
    /\ \A k \in 1..7 : EndsBlank(Boundaries[k])
    /\ Boundaries[2] = NewLine /\ Boundaries[7] = Space
<1>1. /\ DOMAIN Boundaries = 1..7
      /\ Boundaries[1] = <<"nl", "nl">> /\ Boundaries[2] = <<"nl">>
      /\ Boundaries[3] = <<".", "sp">> /\ Boundaries[4] = <<"!", "sp">>
  BY DEF Boundaries
<1>2. /\ Boundaries[5] = <<"?", "sp">> /\ Boundaries[6] = <<",", "sp">>
      /\ Boundaries[7] = <<"sp">>
  BY DEF Boundaries
<1>3. ASSUME NEW c \in Characters, NEW b \in Blank
      PROVE  EndsBlank(<<b>>) /\ EndsBlank(<<c, b>>)
  <2>1. b \in Characters
    BY DeliveryAssumption
  <2>2. <<b>> \in Seq(Characters) /\ Len(<<b>>) = 1 /\ <<b>>[1] = b
    BY <2>1
  <2>3. <<c, b>> \in Seq(Characters) /\ Len(<<c, b>>) = 2 /\ <<c, b>>[2] = b
    BY <2>1
  <2> QED
    BY <2>2, <2>3 DEF EndsBlank
<1>4. "sp" \in Blank /\ "nl" \in Blank /\ {"nl", ".", "!", "?", ","} \subseteq Characters
  BY DeliveryAssumption DEF Blank, Marks
<1>5. /\ EndsBlank(<<"nl", "nl">>) /\ EndsBlank(<<"nl">>) /\ EndsBlank(<<".", "sp">>)
      /\ EndsBlank(<<"!", "sp">>) /\ EndsBlank(<<"?", "sp">>) /\ EndsBlank(<<",", "sp">>)
      /\ EndsBlank(<<"sp">>)
  BY <1>3, <1>4
<1>6. /\ EndsBlank(Boundaries[1]) /\ EndsBlank(Boundaries[2]) /\ EndsBlank(Boundaries[3])
      /\ EndsBlank(Boundaries[4]) /\ EndsBlank(Boundaries[5]) /\ EndsBlank(Boundaries[6])
      /\ EndsBlank(Boundaries[7])
  BY <1>1, <1>2, <1>5, Zenon
<1>7. \A k \in 1..7 : EndsBlank(Boundaries[k])
  BY <1>6
<1> QED
  BY <1>1, <1>2, <1>7 DEF NewLine, Space

LEMMA EndsAfterBlank ==
    ASSUME NEW s \in Seq(Characters), NEW b, EndsBlank(b), NEW i \in Ends(s, b)
    PROVE  i \in 1..Len(s) /\ s[i] \in Blank
<1>1. i \in Len(b)..Len(s) /\ SubSeq(s, i - Len(b) + 1, i) = b /\ Len(s) \in Nat
  BY LenProperties DEF Ends, EndsBlank
<1>2. \A j \in i - Len(b) + 1..i : s[j] \in Characters
  BY <1>1, ElementOfSeq DEF EndsBlank
<1>3. SubSeq(s, i - Len(b) + 1, i)[Len(b)] = s[i]
  BY <1>1, <1>2, SubSeqProperties DEF EndsBlank
<1> QED
  BY <1>1, <1>3 DEF EndsBlank

LEMMA EndsOfOne ==
    ASSUME NEW s \in Seq(Characters), NEW c, Ends(s, <<c>>) = {}
    PROVE  \A i \in 1..Len(s) : s[i] # c
<1> SUFFICES ASSUME NEW i \in 1..Len(s), s[i] = c PROVE FALSE
  OBVIOUS
<1>1. Len(s) \in Nat /\ s[i] \in Characters
  BY LenProperties, ElementOfSeq
<1>2. /\ SubSeq(s, i, i) \in Seq(Characters) /\ Len(SubSeq(s, i, i)) = 1
      /\ SubSeq(s, i, i)[1] = s[i]
  <2>1. \A j \in i..i : s[j] \in Characters
    BY <1>1
  <2> QED
    BY <1>1, <2>1, SubSeqProperties
<1>3. SubSeq(s, i, i) = <<c>>
  <2>1. <<c>> \in Seq(Characters)
    BY <1>1
  <2>2. Len(<<c>>) = 1 /\ <<c>>[1] = c
    OBVIOUS
  <2>3. \A j \in 1..1 : SubSeq(s, i, i)[j] = <<c>>[j]
    BY <1>2, <2>2
  <2> QED
    BY <1>2, <2>1, <2>2, <2>3, SeqEqual
<1>4. i \in Ends(s, <<c>>)
  BY <1>1, <1>3 DEF Ends
<1> QED
  BY <1>4

\* A part is not empty and not too long; unless it is all there is, it ends with
\* white space, or it is as long as possible and there was nothing to cut at.
CutAt(s, cut) ==
    /\ cut \in 1..Len(s) /\ cut <= MaxLength
    /\ cut < Len(s) =>
          \/ s[cut] \in Blank
          \/ cut = MaxLength /\ \A i \in 1..cut : s[i] \notin {"sp", "nl"}

LEMMA CutIsGood ==
    ASSUME NEW s \in Seq(Characters), s # <<>>
    PROVE  CutAt(s, SplitPosition(s))
<1> DEFINE area == SubSeq(s, 1, MaxLength)
           found == {k \in DOMAIN Boundaries : Ends(area, Boundaries[k]) # {}}
<1>1. Len(s) \in Nat \ {0} /\ MaxLength \in Nat \ {0}
  BY EmptySeq, LenProperties, DeliveryAssumption
<1>2. CASE Len(s) <= MaxLength
  <2>1. SplitPosition(s) = Len(s)
    BY <1>2 DEF SplitPosition
  <2> QED
    BY <1>1, <1>2, <2>1 DEF CutAt
<1>3. CASE Len(s) > MaxLength
  <2>1. /\ area \in Seq(Characters) /\ Len(area) = MaxLength
        /\ \A i \in 1..MaxLength : area[i] = s[i]
    <3>1. \A i \in 1..MaxLength : s[i] \in Characters
      BY <1>1, <1>3, ElementOfSeq
    <3> QED
      BY <1>1, <3>1, SubSeqProperties
  <2>s. SplitPosition(s) = IF found = {} THEN MaxLength
                           ELSE Max(Ends(area, Boundaries[Min(found)]))
    <3>1. SplitPosition(s) = IF Len(s) <= MaxLength THEN Len(s)
                             ELSE IF found = {} THEN MaxLength
                             ELSE Max(Ends(area, Boundaries[Min(found)]))
      BY DEF SplitPosition
    <3>2. ~(Len(s) <= MaxLength)
      BY <1>1, <1>3
    <3> HIDE DEF found, area
    <3> QED
      BY <3>1, <3>2
  <2> HIDE DEF area
  <2>2. CASE found = {}
    <3>1. SplitPosition(s) = MaxLength
      BY <2>s, <2>2
    <3>2. Ends(area, NewLine) = {} /\ Ends(area, Space) = {}
      <4>1. \A k \in 1..7 : Ends(area, Boundaries[k]) = {}
        BY <2>2, BoundariesEndBlank
      <4> QED
        BY <4>1, BoundariesEndBlank
    <3>3. \A i \in 1..MaxLength : area[i] # "nl" /\ area[i] # "sp"
      BY <2>1, <3>2, EndsOfOne DEF NewLine, Space
    <3> QED
      BY <1>1, <1>3, <2>1, <3>1, <3>3 DEF CutAt
  <2>3. CASE found # {}
    <3> DEFINE ends == Ends(area, Boundaries[Min(found)])
    <3>1. SplitPosition(s) = Max(ends)
      BY <2>s, <2>3
    <3>2. Min(found) \in found
      <4>1. found \in SUBSET Nat
        BY BoundariesEndBlank
      <4> HIDE DEF found
      <4> QED
        BY <2>3, <4>1, LeastElement
    <3>3. ends # {} /\ \A i \in ends : i \in 1..MaxLength /\ area[i] \in Blank
      BY <2>1, <3>2, BoundariesEndBlank, EndsAfterBlank
    <3> HIDE DEF ends, found
    <3>4. Max(ends) \in ends
      <4>1. ends \in SUBSET (0..MaxLength)
        BY <1>1, <3>3
      <4> QED
        BY <1>1, <3>3, <4>1, GreatestElement
    <3> QED
      BY <1>1, <1>3, <2>1, <3>1, <3>3, <3>4 DEF CutAt
  <2> QED
    BY <2>2, <2>3
<1> QED
  BY <1>1, <1>2, <1>3

-----------------------------------------------------------------------------
(* One part *)

\* A piece of a piece of a sequence, by its places in the sequence.
LEMMA PieceOfPiece ==
    ASSUME NEW T \in Seq(Characters), NEW p \in 1..Len(T) + 1,
           NEW s, s = SubSeq(T, p, Len(T)),
           NEW a \in 1..Len(s) + 1, NEW b \in a - 1..Len(s)
    PROVE  /\ Len(s) = Len(T) - p + 1 /\ s \in Seq(Characters)
           /\ \A i \in 1..Len(s) : s[i] = T[p + i - 1]
           /\ SubSeq(s, a, b) \in Seq(Characters) /\ Len(SubSeq(s, a, b)) = b - a + 1
           /\ SubSeq(s, a, b) = SubSeq(T, p + a - 1, p + b - 1)
<1>1. Len(T) \in Nat
  BY LenProperties
<1>2. \A i \in p..Len(T) : T[i] \in Characters
  BY <1>1, ElementOfSeq
<1>3. /\ s \in Seq(Characters) /\ Len(s) = Len(T) - p + 1
      /\ \A i \in 1..Len(s) : s[i] = T[p + i - 1]
  <2>1. /\ SubSeq(T, p, Len(T)) \in Seq(Characters)
        /\ Len(SubSeq(T, p, Len(T))) = IF p <= Len(T) THEN Len(T) - p + 1 ELSE 0
        /\ \A i \in 1..Len(T) - p + 1 : SubSeq(T, p, Len(T))[i] = T[p + i - 1]
    BY <1>1, <1>2, SubSeqProperties
  <2> QED
    BY <1>1, <2>1
<1>4. \A i \in a..b : s[i] \in Characters /\ T[p + i - 1] \in Characters
  BY <1>1, <1>3, ElementOfSeq
<1>5. /\ SubSeq(s, a, b) \in Seq(Characters) /\ Len(SubSeq(s, a, b)) = b - a + 1
      /\ \A i \in 1..b - a + 1 : SubSeq(s, a, b)[i] = s[a + i - 1]
  <2>1. a \in Int /\ b \in Int /\ \A i \in a..b : s[i] \in Characters
    BY <1>1, <1>3, <1>4
  <2>2. /\ SubSeq(s, a, b) \in Seq(Characters)
        /\ Len(SubSeq(s, a, b)) = IF a <= b THEN b - a + 1 ELSE 0
        /\ \A i \in 1..b - a + 1 : SubSeq(s, a, b)[i] = s[a + i - 1]
    BY <2>1, SubSeqProperties
  <2> QED
    BY <1>1, <1>3, <2>2
<1> DEFINE x == p + a - 1
           y == p + b - 1
<1>6. \A i \in x..y : T[i] \in Characters
  BY <1>1, <1>2, <1>3
<1>7. /\ SubSeq(T, x, y) \in Seq(Characters) /\ Len(SubSeq(T, x, y)) = b - a + 1
      /\ \A i \in 1..b - a + 1 : SubSeq(T, x, y)[i] = T[x + i - 1]
  <2>1. x \in Int /\ y \in Int /\ y - x + 1 = b - a + 1
    BY <1>1, <1>3
  <2> HIDE DEF x, y
  <2> QED
    BY <1>1, <1>3, <1>6, <2>1, SubSeqProperties
<1>8. \A i \in 1..b - a + 1 : SubSeq(s, a, b)[i] = SubSeq(T, x, y)[i]
  BY <1>1, <1>3, <1>5, <1>7
<1> QED
  BY <1>3, <1>5, <1>7, <1>8, SeqEqual

\* A word is cut only in a part of full length without a place to cut at.
WordKept(part) ==
    \/ Last(part) \in Blank
    \/ Len(part) = MaxLength /\ ToSet(part) \cap {"sp", "nl"} = {}

\* What SendPart makes of what is left, s, in terms of the whole text T.
Part(s) == SubSeq(s, 1, SplitPosition(s))
Rest(s) == LeftStripped(SubSeq(s, SplitPosition(s) + 1, Len(s)))

Advance(T, p, part, rest, q) ==
    LET end == p + Len(part) - 1
    IN /\ part \in Seq(Characters) /\ Len(part) \in 1..MaxLength
       /\ part = SubSeq(T, p, end) /\ part[1] = T[p]
       /\ q \in end + 1..Len(T) + 1
       /\ \A j \in end + 1..q - 1 : T[j] \in Blank
       /\ rest \in Seq(Characters)
       /\ rest = SubSeq(T, q, Len(T)) /\ Len(rest) = Len(T) - q + 1
       /\ rest # <<>> => WordKept(part) /\ rest[1] \notin Blank

LEMMA NextPart ==
    ASSUME NEW T \in Seq(Characters), NEW p \in 1..Len(T),
           NEW s, s = SubSeq(T, p, Len(T))
    PROVE  \E q \in Nat : Advance(T, p, Part(s), Rest(s), q)
<1> DEFINE cut == SplitPosition(s)
           part == SubSeq(s, 1, cut)
           tail == SubSeq(s, cut + 1, Len(s))
           rest == LeftStripped(tail)
<1>1. Len(T) \in Nat /\ MaxLength \in Nat \ {0}
  BY LenProperties, DeliveryAssumption
<1>2. /\ Len(s) = Len(T) - p + 1 /\ s \in Seq(Characters)
      /\ \A i \in 1..Len(s) : s[i] = T[p + i - 1]
  BY <1>1, PieceOfPiece
<1>3. CutAt(s, cut)
  <2>1. s # <<>>
    <3>1. Len(s) # 0
      BY <1>1, <1>2
    <3> QED
      BY <3>1, EmptySeq
  <2> QED
    BY <1>2, <2>1, CutIsGood
<1>4. cut \in 1..Len(s) /\ cut <= MaxLength /\ p + cut - 1 <= Len(T)
  BY <1>1, <1>2, <1>3 DEF CutAt
<1> HIDE DEF cut
<1>5. /\ part \in Seq(Characters) /\ Len(part) = cut
      /\ part = SubSeq(T, p, p + cut - 1)
      /\ \A i \in 1..cut : part[i] = s[i]
  <2>1. /\ part \in Seq(Characters) /\ Len(part) = cut
        /\ part = SubSeq(T, p, p + cut - 1)
    <3>1. p \in 1..Len(T) + 1 /\ 1 \in 1..Len(s) + 1 /\ cut \in 1 - 1..Len(s)
      BY <1>1, <1>2, <1>4
    <3>2. /\ part \in Seq(Characters) /\ Len(part) = cut - 1 + 1
          /\ part = SubSeq(T, p + 1 - 1, p + cut - 1)
      BY <3>1, PieceOfPiece
    <3>3. cut - 1 + 1 = cut /\ p + 1 - 1 = p
      BY <1>4
    <3> QED
      BY <3>2, <3>3
  <2>2. \A i \in 1..cut : s[i] \in Characters
    BY <1>2, <1>4, ElementOfSeq
  <2>3. \A i \in 1..cut - 1 + 1 : part[i] = s[1 + i - 1]
    BY <1>4, <2>2, SubSeqProperties
  <2>4. \A i \in 1..cut : part[i] = s[i]
    <3> HIDE DEF part
    <3> QED
      BY <1>4, <2>3
  <2> QED
    BY <2>1, <2>4
<1>6. /\ tail \in Seq(Characters) /\ Len(tail) = Len(s) - cut
      /\ tail = SubSeq(T, p + cut, Len(T))
      /\ \A i \in 1..Len(tail) : tail[i] = T[p + cut + i - 1]
  <2>1. /\ tail \in Seq(Characters) /\ Len(tail) = Len(s) - cut
        /\ tail = SubSeq(T, p + cut, Len(T))
    <3>1. PICK a \in 1..Len(s) + 1 : a = cut + 1
      BY <1>1, <1>2, <1>4
    <3>2. p \in 1..Len(T) + 1 /\ Len(s) \in a - 1..Len(s)
      BY <1>1, <1>2, <1>4, <3>1
    <3>3. /\ SubSeq(s, a, Len(s)) \in Seq(Characters)
          /\ Len(SubSeq(s, a, Len(s))) = Len(s) - a + 1
          /\ SubSeq(s, a, Len(s)) = SubSeq(T, p + a - 1, p + Len(s) - 1)
      BY <3>2, PieceOfPiece
    <3>4. /\ Len(s) - a + 1 = Len(s) - cut
          /\ p + a - 1 = p + cut /\ p + Len(s) - 1 = Len(T)
      BY <1>1, <1>2, <1>4, <3>1
    <3> QED
      BY <3>1, <3>3, <3>4
  <2>2. p + cut \in 1..Len(T) + 1
    BY <1>1, <1>2, <1>4
  <2> HIDE DEF tail
  <2> QED
    BY <1>1, <2>1, <2>2, PieceOfPiece
<1> HIDE DEF part, tail
<1>7. PICK k \in 0..Len(tail) :
          /\ \A i \in 1..k : tail[i] \in Blank
          /\ rest = SubSeq(tail, k + 1, Len(tail))
          /\ k < Len(tail) => tail[k + 1] \notin Blank
  BY <1>6, Stripped
<1> HIDE DEF rest
<1> DEFINE q == p + cut + k
<1>8. q \in p + cut..Len(T) + 1
  BY <1>1, <1>2, <1>4, <1>6
<1>9. \A j \in p + cut..q - 1 : T[j] \in Blank
  <2> SUFFICES ASSUME NEW j \in p + cut..q - 1 PROVE T[j] \in Blank
    OBVIOUS
  <2>1. PICK i \in 1..k : p + cut + i - 1 = j
    <3>1. j - p - cut + 1 \in 1..k /\ p + cut + (j - p - cut + 1) - 1 = j
      BY <1>1, <1>2, <1>4, <1>6
    <3> QED
      BY <3>1
  <2>2. i \in 1..Len(tail)
    BY <1>1, <1>2, <1>4, <1>6
  <2>3. tail[i] = T[j]
    BY <1>6, <2>1, <2>2
  <2> QED
    BY <1>7, <2>3
<1>10. /\ rest = SubSeq(T, q, Len(T)) /\ rest \in Seq(Characters)
       /\ Len(rest) = Len(T) - q + 1
  <2>1. PICK x \in 1..Len(T) + 1 : x = p + cut
    BY <1>1, <1>2, <1>4
  <2>2. PICK a \in 1..Len(tail) + 1 : a = k + 1
    BY <1>1, <1>2, <1>4, <1>6
  <2>3. tail = SubSeq(T, x, Len(T)) /\ Len(tail) \in a - 1..Len(tail)
    <3>1. tail = SubSeq(T, x, Len(T))
      BY <1>6, <2>1
    <3>2. Len(tail) \in Nat
      BY <1>6, LenProperties
    <3> HIDE DEF q
    <3> QED
      BY <2>2, <3>1, <3>2
  <2>4. /\ SubSeq(tail, a, Len(tail)) \in Seq(Characters)
        /\ Len(SubSeq(tail, a, Len(tail))) = Len(tail) - a + 1
        /\ SubSeq(tail, a, Len(tail)) = SubSeq(T, x + a - 1, x + Len(tail) - 1)
    BY <2>3, PieceOfPiece
  <2>5. x + a - 1 = q /\ x + Len(tail) - 1 = Len(T) /\ Len(tail) - a + 1 = Len(T) - q + 1
    BY <1>1, <1>2, <1>4, <1>6, <2>1, <2>2
  <2>6. rest = SubSeq(tail, a, Len(tail))
    BY <1>7, <2>2
  <2> QED
    BY <2>4, <2>5, <2>6
<1>11. ASSUME rest # <<>> PROVE WordKept(part) /\ rest[1] \notin Blank
  <2>1. Len(rest) \in Nat \ {0}
    BY <1>10, <1>11, EmptySeq
  <2>2. k < Len(tail) /\ cut < Len(s)
    BY <1>1, <1>2, <1>4, <1>6, <1>10, <2>1
  <2>3. rest[1] = tail[k + 1]
    <3>1. \A i \in k + 1..Len(tail) : tail[i] \in Characters
      <4>1. Len(tail) \in Nat
        BY <1>6, LenProperties
      <4>2. \A i \in k + 1..Len(tail) : i \in 1..Len(tail)
        BY <4>1
      <4> QED
        BY <1>6, <4>2, ElementOfSeq
    <3>2. PICK a \in Int : a = k + 1 /\ a <= Len(tail) /\ 1 \in 1..Len(tail) - a + 1
      BY <1>6, <2>2, LenProperties
    <3>3. Len(tail) \in Int
      BY <1>6, LenProperties
    <3>4. \A i \in 1..Len(tail) - a + 1 : SubSeq(tail, a, Len(tail))[i] = tail[a + i - 1]
      BY <3>1, <3>2, <3>3, SubSeqProperties
    <3>5. SubSeq(tail, a, Len(tail))[1] = tail[a]
      BY <3>2, <3>4
    <3> QED
      BY <1>7, <3>2, <3>5
  <2>4. \/ s[cut] \in Blank
        \/ cut = MaxLength /\ \A i \in 1..cut : s[i] \notin {"sp", "nl"}
    BY <1>3, <2>2 DEF CutAt
  <2>5. DOMAIN part = 1..cut /\ Last(part) = s[cut]
    <3>1. DOMAIN part = 1..cut
      BY <1>5, LenProperties
    <3>2. cut \in 1..cut
      BY <1>4
    <3> QED
      BY <1>5, <3>1, <3>2 DEF Last
  <2>6. WordKept(part)
    BY <1>5, <2>4, <2>5 DEF WordKept, ToSet
  <2> QED
    BY <1>7, <2>2, <2>3, <2>6
<1>12. part[1] = T[p] /\ cut \in 1..MaxLength /\ (p + cut - 1) + 1 = p + cut
  BY <1>1, <1>2, <1>4, <1>5
<1>13. q \in Nat
  BY <1>1, <1>4, <1>8
<1> HIDE DEF q
<1>14. Advance(T, p, part, rest, q)
  BY <1>4, <1>5, <1>8, <1>9, <1>10, <1>11, <1>12 DEF Advance
<1> QED
  BY <1>13, <1>14 DEF cut, part, tail, rest, Part, Rest

-----------------------------------------------------------------------------
(* The deliveries *)

\* A part in the chat: where it begins, how long it is, how it begins and ends.
PartOK(t, parts, places, rest, i) ==
    /\ places[i] \in Nat \ {0}
    /\ Len(parts[i]) \in 1..MaxLength
    /\ parts[i][1] \in Blank => i = 1 /\ t[1] \in Blank
    /\ i < Len(parts) \/ rest # <<>> => WordKept(parts[i])

CutUp(t, parts, places, rest) ==
    /\ Len(rest) <= Len(t)
    /\ InPieces(t, parts, places, rest)
    /\ \A i \in DOMAIN parts : PartOK(t, parts, places, rest, i)
    /\ parts # <<>> /\ rest # <<>> => rest[1] \notin Blank

Cut(d) == CutUp(text[d], sent[d], begins[d], remaining[d])

\* The stages a delivery goes through.
Course(d) ==
    /\ pc[d] = "idle" => sent[d] = <<>> /\ begins[d] = <<>>
    /\ pc[d] \notin {"idle", "done"} => remaining[d] # <<>>
    /\ outcome[d] = "pending" <=> pc[d] # "done"
    /\ outcome[d] = "parts" => remaining[d] = <<>>

DeliveryInv ==
    /\ TypeOK
    /\ \A d \in Deliveries : Course(d) /\ (pc[d] # "idle" => Cut(d))

\* A delivery that another one leaves alone.
Same(d) ==
    /\ pc'[d] = pc[d] /\ outcome'[d] = outcome[d] /\ text'[d] = text[d]
    /\ remaining'[d] = remaining[d] /\ sent'[d] = sent[d] /\ begins'[d] = begins[d]

LEMMA SameDelivery ==
    ASSUME NEW d \in Deliveries, Same(d), Course(d), pc[d] # "idle" => Cut(d)
    PROVE  Course(d)' /\ (pc'[d] # "idle" => Cut(d)')
<1>1. Course(d)'
  BY DEF Same, Course
<1>2. pc'[d] # "idle" => Cut(d)'
  BY DEF Same, Cut
<1> QED
  BY <1>1, <1>2

\* A text is not empty.
LEMMA TextsAreNotEmpty ==
    ASSUME NEW d \in Deliveries, NEW s \in Texts[d]
    PROVE  s \in Seq(Characters) /\ s # <<>> /\ Len(s) \in Nat \ {0}
<1>1. s \in Seq(Characters) /\ ~IsBlank(s)
  BY DeliveryAssumption
<1>2. s # <<>>
  BY <1>1 DEF IsBlank
<1> QED
  BY <1>1, <1>2, EmptySeq

LEMMA StartOK ==
    ASSUME DeliveryInv, NEW d \in Deliveries, Start(d)
    PROVE  DeliveryInv'
<1>1. PICK s \in Texts[d] : /\ text' = [text EXCEPT ![d] = s]
                            /\ remaining' = [remaining EXCEPT ![d] = s]
  BY DEF Start
<1>2. /\ pc[d] = "idle" /\ pc' = [pc EXCEPT ![d] = pc'[d]]
      /\ pc'[d] \in {"header", "account", "page"} /\ (pc'[d] = "page" => token # NoToken)
      /\ UNCHANGED <<token, sent, begins, outcome>>
  BY DEF Start, Go, DeliveryInv, TypeOK
<1>3. s \in Seq(Characters) /\ s # <<>> /\ Len(s) \in Nat \ {0}
  BY TextsAreNotEmpty
<1>4. text'[d] = s /\ remaining'[d] = s /\ sent'[d] = <<>> /\ begins'[d] = <<>>
  BY <1>1, <1>2 DEF DeliveryInv, TypeOK, Course
<1>5. \A e \in Deliveries \ {d} : Same(e)
  BY <1>1, <1>2 DEF Same, DeliveryInv, TypeOK
<1>6. TypeOK'
  <2>1. /\ text' \in [Deliveries -> Seq(Characters)]
        /\ remaining' \in [Deliveries -> Seq(Characters)]
    BY <1>1, <1>3 DEF DeliveryInv, TypeOK
  <2>2. pc' \in [Deliveries -> {"idle", "account", "page", "link", "header", "parts", "done"}]
    BY <1>2 DEF DeliveryInv, TypeOK
  <2>3. \A e \in Deliveries : /\ pc'[e] \in {"page", "link"} => token' # NoToken
                              /\ pc'[e] # "idle" => text'[e] \in Texts[e]
    <3>1. \A e \in Deliveries : /\ pc[e] \in {"page", "link"} => token # NoToken
                                /\ pc[e] # "idle" => text[e] \in Texts[e]
      BY DEF DeliveryInv, TypeOK
    <3> QED
      BY <1>2, <1>4, <1>5, <3>1 DEF Same
  <2> QED
    BY <1>2, <2>1, <2>2, <2>3 DEF DeliveryInv, TypeOK
<1>7. Cut(d)'
  <2>1. Len(<<>>) = 0 /\ DOMAIN <<>> = {} /\ SubSeq(s, 1, Len(s)) = s
    BY <1>3, SubSeqFull
  <2>2. NextBegin(s, <<>>, <<>>, s, 0) = 1
    BY <1>3, <2>1 DEF NextBegin
  <2>3. InPieces(s, <<>>, <<>>, s)
    BY <2>1, <2>2 DEF InPieces
  <2>4. CutUp(s, <<>>, <<>>, s)
    BY <1>3, <2>1, <2>3 DEF CutUp
  <2> QED
    BY <1>4, <2>4 DEF Cut
<1>8. Course(d)'
  BY <1>2, <1>3, <1>4 DEF DeliveryInv, Course
<1> QED
  BY <1>5, <1>6, <1>7, <1>8, SameDelivery DEF DeliveryInv

\* One part more.
LEMMA PieceAdded ==
    ASSUME NEW T \in Seq(Characters), NEW s \in Seq(Characters), s # <<>>,
           NEW S \in Seq(Seq(Characters)), NEW B \in Seq(Nat), CutUp(T, S, B, s)
    PROVE  LET place == Len(T) - Len(s) + 1
           IN /\ Part(s) \in Seq(Characters) /\ Rest(s) \in Seq(Characters)
              /\ place \in Nat
              /\ CutUp(T, Append(S, Part(s)), Append(B, place), Rest(s))
<1> DEFINE n == Len(S)
           p == Len(T) - Len(s) + 1
           part == Part(s)
           cut == Len(part)
           rest == Rest(s)
           S1 == Append(S, part)
           B1 == Append(B, p)
           Old(i) == NextBegin(T, S, B, s, i)
           New(i) == NextBegin(T, S1, B1, rest, i)
<1>m. MaxLength \in Nat \ {0}
  BY DeliveryAssumption
<1>1. Len(T) \in Nat /\ Len(s) \in Nat \ {0} /\ n \in Nat /\ DOMAIN S = 1..n
  BY EmptySeq, LenProperties
<1>2. Len(s) <= Len(T) /\ p \in 1..Len(T)
  BY <1>1 DEF CutUp
<1>3. /\ Len(B) = n /\ Old(0) = 1
      /\ \A i \in 1..n :
            LET end == B[i] + Len(S[i]) - 1
            IN /\ S[i] = SubSeq(T, B[i], end)
               /\ end < Old(i)
               /\ \A j \in end + 1..Old(i) - 1 : T[j] \in Blank
      /\ s = SubSeq(T, Old(n), Len(T))
  BY <1>1 DEF CutUp, InPieces
<1> HIDE DEF p
<1>4. \A i \in 0..n : Old(i) = IF i < n THEN B[i + 1] ELSE p
  BY DEF NextBegin, p
<1> HIDE DEF n
<1>5. Old(n) = p /\ s = SubSeq(T, p, Len(T))
  <2>1. n \in 0..n /\ ~(n < n)
    BY <1>1
  <2> QED
    BY <1>3, <1>4, <2>1
<1>6. PICK q \in Nat : Advance(T, p, part, rest, q)
  BY <1>2, <1>5, NextPart
<1> HIDE DEF part, rest
<1>7. /\ Len(S1) = n + 1 /\ S1[n + 1] = part /\ DOMAIN S1 = 1..n + 1
      /\ \A i \in 1..n : S1[i] = S[i]
  <2> DEFINE C == Seq(Characters)
  <2>1. S \in Seq(C) /\ part \in C
    BY <1>6 DEF Advance
  <2> HIDE DEF C
  <2>2. /\ S1 \in Seq(C) /\ Len(S1) = Len(S) + 1 /\ S1[Len(S) + 1] = part
        /\ \A i \in 1..Len(S) : S1[i] = S[i]
    BY <2>1, AppendProperties
  <2> HIDE DEF S1
  <2> QED
    BY <2>2, LenProperties DEF n
<1>8. /\ Len(B1) = n + 1 /\ B1[n + 1] = p /\ p \in Nat \ {0}
      /\ \A i \in 1..n : B1[i] = B[i]
  BY <1>2, <1>3, AppendProperties
<1>9. /\ cut \in 1..MaxLength /\ Len(T) - Len(rest) + 1 = q
      /\ p + cut - 1 < q /\ q <= Len(T) + 1 /\ (p + cut - 1) + 1 = p + cut
      /\ (p + cut - 1) \in Int
  BY <1>1, <1>6, <1>8, <1>m DEF Advance
<1>10. New(n + 1) = q
  BY <1>1, <1>7, <1>9 DEF NextBegin
<1> HIDE DEF S1, B1
<1>11. \A i \in 0..n : New(i) = B1[i + 1]
  BY <1>1, <1>7 DEF NextBegin
<1> HIDE DEF Old, New
<1>12. \A i \in 0..n : New(i) = Old(i)
  <2>1. ASSUME NEW i \in 0..n, i < n PROVE New(i) = Old(i)
    <3>1. i + 1 \in 1..n
      BY <1>1, <2>1
    <3> QED
      BY <1>4, <1>8, <1>11, <2>1, <3>1
  <2>2. New(n) = Old(n)
    BY <1>1, <1>5, <1>8, <1>11
  <2>3. \A i \in 0..n : i < n \/ i = n
    BY <1>1
  <2> QED
    BY <2>1, <2>2, <2>3
<1>13. \A i \in 1..n + 1 : i \in 1..n \/ i = n + 1
  BY <1>1
<1>14. ASSUME NEW i \in 1..n + 1
       PROVE  LET end == B1[i] + Len(S1[i]) - 1
              IN /\ S1[i] = SubSeq(T, B1[i], end)
                 /\ end < New(i)
                 /\ \A j \in end + 1..New(i) - 1 : T[j] \in Blank
  <2>1. CASE i \in 1..n
    <3>1. S1[i] = S[i] /\ B1[i] = B[i] /\ New(i) = Old(i)
      BY <1>1, <1>7, <1>8, <1>12, <2>1
    <3> QED
      BY <1>3, <2>1, <3>1
  <2>2. CASE i = n + 1
    <3>1. S1[i] = part /\ B1[i] = p /\ New(i) = q
      BY <1>7, <1>8, <1>10, <2>2
    <3> QED
      BY <1>6, <1>9, <3>1 DEF Advance
  <2> QED
    BY <1>13, <2>1, <2>2
<1>15. InPieces(T, S1, B1, rest)
  <2>1. New(0) = 1 /\ New(Len(S1)) = q
    BY <1>1, <1>3, <1>7, <1>10, <1>12
  <2>2. rest = SubSeq(T, New(Len(S1)), Len(T))
    BY <1>6, <2>1 DEF Advance
  <2> QED
    BY <1>7, <1>8, <1>14, <2>1, <2>2 DEF InPieces, New
<1>16. ASSUME NEW i \in 1..n + 1 PROVE PartOK(T, S1, B1, rest, i)
  <2>1. CASE i \in 1..n
    <3>1. PartOK(T, S, B, s, i)
      BY <1>1, <2>1 DEF CutUp
    <3>2. S1[i] = S[i] /\ B1[i] = B[i]
      BY <1>7, <1>8, <2>1
    <3> QED
      BY <3>1, <3>2 DEF PartOK
  <2>2. CASE i = n + 1
    <3>1. S1[i] = part /\ B1[i] = p /\ ~(i < Len(S1))
      BY <1>1, <1>7, <1>8, <2>2
    <3>2. /\ Len(part) \in 1..MaxLength /\ part[1] = T[p]
          /\ rest # <<>> => WordKept(part)
      BY <1>6 DEF Advance
    <3>3. CASE n = 0
      <4>1. p = 1 /\ i = 1
        BY <1>1, <1>3, <1>5, <2>2, <3>3
      <4> QED
        BY <1>8, <3>1, <3>2, <4>1 DEF PartOK
    <3>4. CASE n # 0
      <4>1. S # <<>>
        BY <3>4, EmptySeq DEF n
      <4>2. s[1] \notin Blank
        BY <4>1 DEF CutUp
      <4>3. s[1] = T[p]
        <5>1. \A j \in p..Len(T) : T[j] \in Characters
          BY <1>1, <1>2, ElementOfSeq DEF p
        <5> QED
          BY <1>1, <1>2, <1>5, <5>1, SubSeqProperties
      <4> QED
        BY <1>8, <3>1, <3>2, <4>2, <4>3 DEF PartOK
    <3> QED
      BY <3>3, <3>4
  <2> QED
    BY <1>13, <2>1, <2>2
<1>17. CutUp(T, S1, B1, rest)
  <2>1. Len(rest) <= Len(T)
    <3>1. q \in 1..Len(T) + 1
      BY <1>1, <1>8, <1>9
    <3> QED
      BY <1>1, <1>9, <3>1, <1>6 DEF Advance
  <2>2. rest # <<>> => rest[1] \notin Blank
    BY <1>6 DEF Advance
  <2> QED
    BY <1>7, <1>15, <1>16, <2>1, <2>2 DEF CutUp
<1> QED
  BY <1>6, <1>8, <1>17 DEF S1, B1, part, rest, p, Advance

LEMMA SendPartOK ==
    ASSUME DeliveryInv, NEW d \in Deliveries, SendPart(d)
    PROVE  DeliveryInv'
<1> DEFINE s == remaining[d]
           part == Part(s)
           rest == Rest(s)
           place == Len(text[d]) - Len(s) + 1
<1>1. /\ pc[d] = "parts" /\ UNCHANGED <<token, text>>
      /\ sent' = [sent EXCEPT ![d] = Append(sent[d], part)]
      /\ begins' = [begins EXCEPT ![d] = Append(begins[d], place)]
      /\ remaining' = [remaining EXCEPT ![d] = rest]
      /\ IF rest = <<>> THEN End(d, "parts") ELSE UNCHANGED <<pc, outcome>>
  BY DEF SendPart, Part, Rest
<1>2. /\ text[d] \in Seq(Characters) /\ s \in Seq(Characters)
      /\ sent[d] \in Seq(Seq(Characters)) /\ begins[d] \in Seq(Nat)
      /\ s # <<>> /\ Cut(d) /\ outcome[d] = "pending"
  BY <1>1 DEF DeliveryInv, TypeOK, Course
<1>3. /\ part \in Seq(Characters) /\ rest \in Seq(Characters) /\ place \in Nat
      /\ CutUp(text[d], Append(sent[d], part), Append(begins[d], place), rest)
  BY <1>2, PieceAdded DEF Cut
<1> HIDE DEF part, rest, place
<1>4. /\ sent'[d] = Append(sent[d], part) /\ begins'[d] = Append(begins[d], place)
      /\ remaining'[d] = rest
  BY <1>1 DEF DeliveryInv, TypeOK
<1>5. \A e \in Deliveries \ {d} : Same(e)
  BY <1>1 DEF Same, DeliveryInv, TypeOK, End, Go
<1>6. Cut(d)'
  BY <1>1, <1>3, <1>4 DEF Cut
<1>7. TypeOK'
  <2>1. Append(sent[d], part) \in Seq(Seq(Characters)) /\ Append(begins[d], place) \in Seq(Nat)
    BY <1>2, <1>3, AppendProperties
  <2>2. /\ sent' \in [Deliveries -> Seq(Seq(Characters))]
        /\ begins' \in [Deliveries -> Seq(Nat)]
        /\ remaining' \in [Deliveries -> Seq(Characters)]
    BY <1>1, <1>3, <2>1 DEF DeliveryInv, TypeOK
  <2>3. /\ pc' \in [Deliveries -> {"idle", "account", "page", "link", "header", "parts",
                                   "done"}]
        /\ outcome' \in [Deliveries -> {"pending", "link", "parts", "raised"}]
        /\ \A e \in Deliveries : pc'[e] = pc[e] \/ (e = d /\ pc'[e] = "done")
    BY <1>1 DEF DeliveryInv, TypeOK, End, Go
  <2> QED
    BY <1>1, <2>2, <2>3 DEF DeliveryInv, TypeOK
<1>8. Course(d)'
  BY <1>1, <1>2, <1>4 DEF DeliveryInv, TypeOK, Course, End, Go
<1> QED
  BY <1>5, <1>6, <1>7, <1>8, SameDelivery DEF DeliveryInv

\* The steps that leave the text alone.
LEMMA OtherStepsOK ==
    ASSUME DeliveryInv, NEW d \in Deliveries,
           \/ AccountCreated(d) \/ PageCreated(d) \/ PublishFails(d)
           \/ SendLink(d) \/ SendHeader(d) \/ Raise(d)
    PROVE  DeliveryInv'
<1>t. /\ token \in Deliveries \cup {NoToken}
      /\ \A e \in Deliveries : /\ pc[e] \in {"page", "link"} => token # NoToken
                               /\ pc[e] # "idle" => text[e] \in Texts[e]
  BY DEF DeliveryInv, TypeOK
<1> USE DEF AccountCreated, PageCreated, PublishFails, SendLink, SendHeader, Raise, End, Go
<1>1. /\ UNCHANGED cutting /\ pc[d] \notin {"idle", "done"} /\ pc'[d] # "idle"
      /\ \/ pc'[d] # "done" /\ outcome'[d] = outcome[d]
         \/ pc'[d] = "done" /\ outcome'[d] \in {"link", "raised"}
      /\ \A e \in Deliveries \ {d} : pc'[e] = pc[e] /\ outcome'[e] = outcome[e]
  BY DEF DeliveryInv, TypeOK
<1>2. TypeOK'
  <2>1. /\ token' \in Deliveries \cup {NoToken} /\ (token # NoToken => token' # NoToken)
        /\ pc'[d] \in {"page", "link"} => token' # NoToken
    <3>1. \/ token' = token /\ pc'[d] # "page" /\ (pc'[d] = "link" => pc[d] = "page")
          \/ token' = d
      <4>1. DOMAIN pc = Deliveries
        BY DEF DeliveryInv, TypeOK
      <4>2. CASE AccountCreated(d)
        BY <4>2
      <4>3. CASE PageCreated(d)
        BY <4>1, <4>3
      <4>4. CASE PublishFails(d) \/ SendHeader(d) \/ SendLink(d) \/ Raise(d)
        BY <4>1, <4>4
      <4> QED
        BY <4>2, <4>3, <4>4
    <3>2. pc[d] = "page" => token # NoToken
      BY <1>t
    <3> HIDE DEF AccountCreated, PageCreated, PublishFails, SendLink, SendHeader, Raise
    <3> QED
      BY <1>t, <3>1, <3>2, DeliveryAssumption
  <2>2. /\ pc' \in [Deliveries -> {"idle", "account", "page", "link", "header", "parts",
                                   "done"}]
        /\ outcome' \in [Deliveries -> {"pending", "link", "parts", "raised"}]
    BY DEF DeliveryInv, TypeOK
  <2>3. UNCHANGED cutting
    BY <1>1
  <2>4. \A e \in Deliveries : /\ pc'[e] \in {"page", "link"} => token' # NoToken
                              /\ pc'[e] # "idle" => text'[e] \in Texts[e]
    <3>1. \A e \in Deliveries \ {d} : pc'[e] = pc[e]
      BY <1>1
    <3>2. pc[d] # "idle" /\ text' = text
      BY <1>1 DEF cutting
    <3> HIDE DEF AccountCreated, PageCreated, PublishFails, SendLink, SendHeader, Raise
    <3> QED
      BY <1>t, <2>1, <3>1, <3>2
  <2> QED
    BY <2>1, <2>2, <2>3, <2>4 DEF DeliveryInv, TypeOK, cutting
<1>3. Cut(d)'
  BY <1>1 DEF DeliveryInv, Cut, cutting
<1>4. Course(d)'
  BY <1>1 DEF DeliveryInv, Course, cutting
<1>5. \A e \in Deliveries \ {d} : Same(e)
  BY <1>1 DEF Same, cutting
<1> QED
  BY <1>2, <1>3, <1>4, <1>5, SameDelivery DEF DeliveryInv

LEMMA DeliveryInvariant == Spec => []DeliveryInv
<1>1. Init => DeliveryInv
  <2> SUFFICES ASSUME Init PROVE DeliveryInv
    OBVIOUS
  <2>1. <<>> \in Seq(Characters) /\ <<>> \in Seq(Seq(Characters)) /\ <<>> \in Seq(Nat)
    BY EmptySeq
  <2>2. TypeOK
    BY <2>1, DeliveryAssumption DEF Init, TypeOK
  <2>3. \A d \in Deliveries : Course(d) /\ pc[d] = "idle"
    BY DEF Init, Course
  <2> QED
    BY <2>2, <2>3 DEF DeliveryInv
<1>2. DeliveryInv /\ [Next]_vars => DeliveryInv'
  <2> SUFFICES ASSUME DeliveryInv, [Next]_vars PROVE DeliveryInv'
    OBVIOUS
  <2>1. ASSUME NEW d \in Deliveries, Start(d) \/ Step(d) PROVE DeliveryInv'
    BY <2>1, StartOK, SendPartOK, OtherStepsOK DEF Step
  <2>2. CASE UNCHANGED vars
    <3>1. TypeOK'
      BY <2>2 DEF vars, cutting, DeliveryInv, TypeOK
    <3>2. \A d \in Deliveries : Same(d)
      BY <2>2 DEF vars, cutting, Same
    <3> QED
      BY <3>1, <3>2, SameDelivery DEF DeliveryInv
  <2> QED
    BY <2>1, <2>2 DEF Next
<1> QED
  BY <1>1, <1>2, PTL DEF Spec

-----------------------------------------------------------------------------
(* The theorems *)

\* Every variable keeps its type, and a page is only asked for with an account.
THEOREM DeliveryTypeCorrect == Spec => []TypeOK
<1>1. DeliveryInv => TypeOK
  BY DEF DeliveryInv
<1> QED
  BY <1>1, DeliveryInvariant, PTL

\* Whatever the text and the length of a message, the parts in the chat are the
\* text up to where it has been sent, white space at the cuts aside, and a
\* delivery in parts that has ended has sent all of it.
THEOREM TextArrives == Spec => []WholeTextArrives
<1>1. DeliveryInv => WholeTextArrives
  <2> SUFFICES ASSUME DeliveryInv, NEW d \in Deliveries, pc[d] # "idle"
               PROVE  /\ InPieces(text[d], sent[d], begins[d], remaining[d])
                      /\ outcome[d] = "parts" => remaining[d] = <<>>
                      /\ pc[d] = "done" /\ outcome[d] # "link" =>
                            outcome[d] \in {"parts", "raised"}
    BY DEF WholeTextArrives
  <2> QED
    BY DEF DeliveryInv, Cut, CutUp, Course, TypeOK
<1> QED
  BY <1>1, DeliveryInvariant, PTL

\* In particular every part is one Telegram takes.
THEOREM SendableParts == Spec => []PartsAreSendable
<1>1. DeliveryInv => PartsAreSendable
  <2> SUFFICES ASSUME DeliveryInv, NEW d \in Deliveries, NEW i \in DOMAIN sent[d]
               PROVE  /\ Len(sent[d][i]) \in 1..MaxLength
                      /\ IsBlank(sent[d][i]) => i = 1 /\ text[d][1] \in Blank
    BY DEF PartsAreSendable
  <2>1. sent[d] # <<>> /\ sent[d] \in Seq(Seq(Characters))
    BY DEF DeliveryInv, TypeOK
  <2>2. PartOK(text[d], sent[d], begins[d], remaining[d], i)
    BY <2>1 DEF DeliveryInv, Course, Cut, CutUp
  <2>3. sent[d][i] \in Seq(Characters) /\ Len(sent[d][i]) \in 1..MaxLength
    BY <2>1, <2>2, ElementOfSeq, LenProperties DEF PartOK
  <2>4. 1 \in DOMAIN sent[d][i]
    BY <2>3, LenProperties, DeliveryAssumption
  <2> QED
    BY <2>2, <2>3, <2>4 DEF PartOK, IsBlank
<1> QED
  BY <1>1, DeliveryInvariant, PTL

\* No word is cut in two unless a part of full length has no place to cut at.
THEOREM WholeWords == Spec => []WordsStayWhole
<1>1. DeliveryInv => WordsStayWhole
  <2> SUFFICES ASSUME DeliveryInv, NEW d \in Deliveries, NEW i \in DOMAIN sent[d],
                      i < Len(sent[d])
               PROVE  WordKept(sent[d][i])
    BY DEF WordsStayWhole, WordKept
  <2>1. PartOK(text[d], sent[d], begins[d], remaining[d], i)
    BY DEF DeliveryInv, Course, Cut, CutUp
  <2> QED
    BY <2>1 DEF PartOK
<1> QED
  BY <1>1, DeliveryInvariant, PTL
=============================================================================
