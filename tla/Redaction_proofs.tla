-------------------------- MODULE Redaction_proofs --------------------------
(***************************************************************************)
(* Theorems about Redaction: what becomes of findings between detection    *)
(* and the exported file, for any page, scan, findings and decisions.      *)
(***************************************************************************)
EXTENDS Redaction, TLAPS, WellFoundedInduction

-----------------------------------------------------------------------------
(* Least and greatest numbers                                               *)

\* Every set of numbers that is not empty has a least one.
LEMMA LeastNumber ==
  ASSUME NEW T \in SUBSET Nat, T # {}
  PROVE  \E x \in T : \A y \in T : x <= y
<1> DEFINE R == OpToRel(<, Nat)
<1>1. IsWellFoundedOn(R, Nat)
  BY NatLessThanWellFounded
<1>2. \A x, y \in Nat : x < y => <<x, y>> \in R
  BY DEF OpToRel
<1> HIDE DEF R
<1>3. PICK x \in T : \A y \in T : ~(<<y, x>> \in R)
  BY <1>1, WFMin
<1>4. ASSUME NEW y \in T
      PROVE  x <= y
  <2>1. x \in Nat /\ y \in Nat /\ ~(y < x)
    BY <1>2, <1>3
  <2>2. QED
    BY <2>1
<1>5. QED
  BY <1>4

\* Induction in the form of a set.
LEMMA SetInduction ==
  ASSUME NEW T \in SUBSET Nat, 0 \in T, \A n \in T : n + 1 \in T
  PROVE  T = Nat
<1> SUFFICES ASSUME Nat \ T # {} PROVE FALSE
  BY Zenon
<1>1. PICK x \in Nat \ T : \A y \in Nat \ T : x <= y
  BY LeastNumber
<1>2. x # 0
  OBVIOUS
<1>3. x - 1 \in Nat /\ x - 1 < x
  BY <1>2
<1>4. x - 1 \in T
  BY <1>1, <1>3
<1>5. (x - 1) + 1 \in T
  BY <1>4
<1>6. QED
  BY <1>3, <1>5

\* A set of numbers with a bound has a greatest one: its least bound.
LEMMA GreatestNumber ==
  ASSUME NEW T \in SUBSET Nat, T # {}, NEW n \in Nat, \A y \in T : y <= n
  PROVE  \E x \in T : \A y \in T : x >= y
<1> DEFINE Bounds == {b \in Nat : \A y \in T : y <= b}
<1>1. PICK b \in Bounds : \A c \in Bounds : b <= c
  <2>1. n \in Bounds /\ Bounds \in SUBSET Nat
    OBVIOUS
  <2> HIDE DEF Bounds
  <2>2. QED
    BY <2>1, LeastNumber
<1>2. b \in T
  <2> SUFFICES ASSUME b \notin T PROVE FALSE
    OBVIOUS
  <2>1. PICK y \in T : y <= b
    OBVIOUS
  <2>2. b \in Nat /\ b # 0
    BY <2>1
  <2>3. b - 1 \in Nat /\ \A z \in T : z <= b - 1
    BY <2>2
  <2>4. b <= b - 1
    BY <1>1, <2>3
  <2>5. QED
    BY <2>2, <2>4
<1>3. QED
  BY <1>2

LEMMA MinOf ==
  ASSUME NEW T \in SUBSET Nat, T # {}
  PROVE  Min(T) \in T /\ \A y \in T : Min(T) <= y
BY LeastNumber DEF Min

LEMMA MaxOf ==
  ASSUME NEW T \in SUBSET Nat, T # {}, NEW n \in Nat, \A y \in T : y <= n
  PROVE  Max(T) \in T /\ \A y \in T : Max(T) >= y
BY GreatestNumber DEF Max

-----------------------------------------------------------------------------
(* Boxes                                                                    *)

Box == [x0 : Nat, y0 : Nat, x1 : Nat, y1 : Nat]

Inside(a, b) == b.x0 <= a.x0 /\ b.y0 <= a.y0 /\ a.x1 <= b.x1 /\ a.y1 <= b.y1

Below(b, n) == b.x1 <= n /\ b.y1 <= n

\* A word is one character wide and high.
LEMMA WordBoxes ==
  ASSUME NEW i \in Words
  PROVE  /\ WordBox(i) \in Box
         /\ WordBox(i).x1 = WordBox(i).x0 + 1 /\ WordBox(i).y1 = WordBox(i).y0 + 1
<1>1. i - 1 \in Nat /\ PerLine \in Nat \ {0}
  BY ConstantsAssumption DEF Words
<1>2. (i - 1) % PerLine \in Nat /\ (i - 1) \div PerLine \in Nat
  BY <1>1
<1> DEFINE p == (i - 1) % PerLine
           q == (i - 1) \div PerLine
<1>3. WordBox(i) = [x0 |-> 2 * p, y0 |-> 2 * q, x1 |-> 2 * p + 1, y1 |-> 2 * q + 1]
  BY DEF WordBox, LineOf
<1> HIDE DEF p, q
<1>4. p \in Nat /\ q \in Nat
  BY <1>2 DEF p, q
<1>5. QED
  BY <1>3, <1>4 DEF Box

\* The page ends somewhere: by induction on the words.
LEMMA PageEnds == \E n \in Nat : \A i \in Words : Below(WordBox(i), n)
<1> DEFINE T == {m \in Nat : m <= Len(Texts) =>
                               \E n \in Nat : \A i \in 1..m : Below(WordBox(i), n)}
<1>1. Len(Texts) \in Nat /\ Words = 1..Len(Texts)
  BY ConstantsAssumption DEF Words
<1>2. 0 \in T
  <2>1. \A i \in 1..0 : Below(WordBox(i), 0)
    OBVIOUS
  <2>2. QED
    BY <2>1
<1>3. ASSUME NEW m \in T
      PROVE  m + 1 \in T
  <2> SUFFICES ASSUME m + 1 <= Len(Texts)
               PROVE  \E n \in Nat : \A i \in 1..(m + 1) : Below(WordBox(i), n)
    OBVIOUS
  <2>1. m <= Len(Texts) /\ m + 1 \in Words
    BY <1>1
  <2>2. PICK n \in Nat : \A i \in 1..m : Below(WordBox(i), n)
    BY <2>1
  <2> DEFINE b == WordBox(m + 1)
             top == n + b.x1 + b.y1
  <2>3. b.x1 \in Nat /\ b.y1 \in Nat
    BY <2>1, WordBoxes DEF Box
  <2>4. \A i \in 1..m : i \in Words
    BY <1>1, <2>1
  <2>5. ASSUME NEW i \in 1..(m + 1)
        PROVE  Below(WordBox(i), top)
    <3>1. CASE i = m + 1
      <4>1. WordBox(i) = b
        BY <3>1
      <4> HIDE DEF b
      <4>2. QED
        BY <2>3, <4>1 DEF Below
    <3>2. CASE i \in 1..m
      <4> DEFINE a == WordBox(i)
      <4>1. a.x1 <= n /\ a.y1 <= n
        BY <2>2, <3>2 DEF Below
      <4>2. a.x1 \in Nat /\ a.y1 \in Nat
        BY <2>4, <3>2, WordBoxes DEF Box
      <4> HIDE DEF a, b
      <4>3. a.x1 <= top /\ a.y1 <= top
        BY <2>3, <4>1, <4>2
      <4>4. QED
        BY <4>3 DEF Below, a
    <3>3. QED
      BY <3>1, <3>2
  <2>6. top \in Nat
    <3> HIDE DEF b
    <3>1. QED
      BY <2>3
  <2> HIDE DEF top
  <2>7. QED
    BY <2>5, <2>6
<1>4. T = Nat
  <2>1. T \in SUBSET Nat
    OBVIOUS
  <2> HIDE DEF T
  <2>2. QED
    BY <1>2, <1>3, <2>1, SetInduction
<1>5. Len(Texts) \in T
  <2> HIDE DEF T
  <2>1. QED
    BY <1>1, <1>4
<1>6. \E n \in Nat : \A i \in 1..Len(Texts) : Below(WordBox(i), n)
  BY <1>1, <1>5
<1>7. QED
  BY <1>1, <1>6

\* A bounding box bounds.
LEMMA BoundingBox ==
  ASSUME NEW boxes \in SUBSET Box, boxes # {}, NEW n \in Nat, \A b \in boxes : Below(b, n)
  PROVE  /\ Bounding(boxes) \in Box /\ Below(Bounding(boxes), n)
         /\ \A b \in boxes : Inside(b, Bounding(boxes))
<1> DEFINE X0 == {b.x0 : b \in boxes}
           Y0 == {b.y0 : b \in boxes}
           X1 == {b.x1 : b \in boxes}
           Y1 == {b.y1 : b \in boxes}
<1>1. /\ X0 \in SUBSET Nat /\ Y0 \in SUBSET Nat /\ X1 \in SUBSET Nat /\ Y1 \in SUBSET Nat
      /\ X0 # {} /\ Y0 # {} /\ X1 # {} /\ Y1 # {}
      /\ \A x \in X1 : x <= n
      /\ \A y \in Y1 : y <= n
  BY DEF Box, Below
<1>2. \A b \in boxes : b.x0 \in X0 /\ b.y0 \in Y0 /\ b.x1 \in X1 /\ b.y1 \in Y1
  OBVIOUS
<1>3. Bounding(boxes) = [x0 |-> Min(X0), y0 |-> Min(Y0), x1 |-> Max(X1), y1 |-> Max(Y1)]
  BY DEF Bounding
<1> HIDE DEF X0, Y0, X1, Y1
<1>4. /\ Min(X0) \in X0 /\ \A x \in X0 : Min(X0) <= x
      /\ Min(Y0) \in Y0 /\ \A y \in Y0 : Min(Y0) <= y
  BY <1>1, MinOf
<1>5. Max(X1) \in X1 /\ \A x \in X1 : Max(X1) >= x
  BY <1>1, MaxOf
<1>6. Max(Y1) \in Y1 /\ \A y \in Y1 : Max(Y1) >= y
  BY <1>1, MaxOf
<1>7. Bounding(boxes) \in Box /\ Below(Bounding(boxes), n)
  <2>1. /\ Min(X0) \in Nat /\ Min(Y0) \in Nat /\ Max(X1) \in Nat /\ Max(Y1) \in Nat
        /\ Max(X1) <= n /\ Max(Y1) <= n
    BY <1>1, <1>4, <1>5, <1>6
  <2>2. QED
    BY <1>3, <2>1 DEF Box, Below
<1>8. ASSUME NEW b \in boxes
      PROVE  Inside(b, Bounding(boxes))
  <2>1. /\ Min(X0) <= b.x0 /\ Min(Y0) <= b.y0 /\ b.x1 <= Max(X1) /\ b.y1 <= Max(Y1)
    <3>1. /\ Max(X1) >= b.x1 /\ Max(Y1) >= b.y1 /\ Max(X1) \in Nat /\ Max(Y1) \in Nat
          /\ b.x1 \in Nat /\ b.y1 \in Nat
      BY <1>1, <1>2, <1>5, <1>6
    <3>2. QED
      BY <1>2, <1>4, <3>1
  <2>2. QED
    BY <1>3, <2>1 DEF Inside
<1>9. QED
  BY <1>7, <1>8

LEMMA InsideTransitive ==
  ASSUME NEW a \in Box, NEW b \in Box, NEW c \in Box, Inside(a, b), Inside(b, c)
  PROVE  Inside(a, c)
BY DEF Box, Inside

\* The box of a finding covers the words it meets.
LEMMA FindingBox ==
  ASSUME NEW f, Covering(f.span) # {}, NEW n \in Nat, \A i \in Words : Below(WordBox(i), n)
  PROVE  /\ BoxOf(f) \in Box /\ Below(BoxOf(f), n)
         /\ \A i \in Covering(f.span) : Inside(WordBox(i), BoxOf(f))
<1> DEFINE boxes == {WordBox(i) : i \in Covering(f.span)}
<1>1. \A i \in Covering(f.span) : i \in Words
  BY DEF Covering
<1>2. \A i \in Covering(f.span) : WordBox(i) \in Box /\ Below(WordBox(i), n)
  BY <1>1, WordBoxes
<1>3. boxes \in SUBSET Box /\ boxes # {} /\ \A b \in boxes : Below(b, n)
  BY <1>2
<1>4. BoxOf(f) = Bounding(boxes)
  BY DEF BoxOf
<1>5. \A i \in Covering(f.span) : WordBox(i) \in boxes
  OBVIOUS
<1> HIDE DEF boxes
<1>6. QED
  BY <1>3, <1>4, <1>5, BoundingBox

\* The box of a cluster covers the words that any of its findings meets.
LEMMA ClusterBox ==
  ASSUME FindingsMeetWords, NEW C \in SUBSET DOMAIN found, C # {}
  PROVE  /\ UnionBox(C) \in Box
         /\ \A k \in C : \A i \in Covering(found[k].span) : Inside(WordBox(i), UnionBox(C))
<1> DEFINE boxes == {BoxOf(found[k]) : k \in C}
<1>1. PICK n \in Nat : \A i \in Words : Below(WordBox(i), n)
  BY PageEnds
<1>2. \A k \in C : /\ BoxOf(found[k]) \in Box /\ Below(BoxOf(found[k]), n)
                   /\ \A i \in Covering(found[k].span) : Inside(WordBox(i), BoxOf(found[k]))
  BY <1>1, FindingBox DEF FindingsMeetWords
<1>3. boxes \in SUBSET Box /\ boxes # {} /\ \A b \in boxes : Below(b, n)
  BY <1>2
<1>4. UnionBox(C) = Bounding(boxes)
  BY DEF UnionBox
<1>5. \A k \in C : BoxOf(found[k]) \in boxes
  OBVIOUS
<1> HIDE DEF boxes
<1>6. UnionBox(C) \in Box /\ \A k \in C : Inside(BoxOf(found[k]), UnionBox(C))
  BY <1>3, <1>4, <1>5, BoundingBox
<1>7. ASSUME NEW k \in C, NEW i \in Covering(found[k].span)
      PROVE  Inside(WordBox(i), UnionBox(C))
  <2>1. WordBox(i) \in Box
    BY WordBoxes DEF Covering
  <2>2. QED
    BY <1>2, <1>6, <2>1, InsideTransitive
<1>8. QED
  BY <1>6, <1>7

LEMMA OfTwo ==
  ASSUME NEW p \in Nat, NEW q \in Nat
  PROVE  /\ p <= q => Min({p, q}) = p
         /\ q <= p => Max({p, q}) = p
<1>1. {p, q} \in SUBSET Nat /\ {p, q} # {} /\ p + q \in Nat /\ \A y \in {p, q} : y <= p + q
  OBVIOUS
<1>2. Min({p, q}) \in {p, q} /\ Min({p, q}) <= p /\ Min({p, q}) <= q
  BY <1>1, MinOf
<1>3. Max({p, q}) \in {p, q} /\ Max({p, q}) >= p /\ Max({p, q}) >= q
  BY <1>1, MaxOf
<1>4. QED
  BY <1>2, <1>3

\* A word inside a box is under it.
LEMMA InsideIsUnder ==
  ASSUME NEW i \in Words, NEW b \in Box, Inside(WordBox(i), b)
  PROVE  i \in WordsUnder(b)
<1> DEFINE a == WordBox(i)
<1>1. a \in Box /\ a.x1 = a.x0 + 1 /\ a.y1 = a.y0 + 1 /\ Inside(a, b)
  BY WordBoxes
<1> HIDE DEF a
<1>2. /\ a.x0 \in Nat /\ a.y0 \in Nat /\ a.x1 \in Nat /\ a.y1 \in Nat
      /\ b.x0 \in Nat /\ b.y0 \in Nat /\ b.x1 \in Nat /\ b.y1 \in Nat
      /\ b.x0 <= a.x0 /\ b.y0 <= a.y0 /\ a.x1 <= b.x1 /\ a.y1 <= b.y1
  BY <1>1 DEF Box, Inside
<1>3. /\ Max({a.x0, b.x0}) = a.x0 /\ Max({a.y0, b.y0}) = a.y0
      /\ Min({a.x1, b.x1}) = a.x1 /\ Min({a.y1, b.y1}) = a.y1
  BY <1>2, OfTwo
<1>4. ~(a.x1 <= a.x0) /\ ~(a.y1 <= a.y0) /\ a.x1 - a.x0 = 1 /\ a.y1 - a.y0 = 1
  BY <1>1, <1>2
<1>5. Overlap(a, b) = 1
  BY <1>3, <1>4 DEF Overlap
<1>6. QED
  BY <1>5 DEF WordsUnder, a

-----------------------------------------------------------------------------
(* The first of a cluster                                                   *)

LEMMA RankIsBounded ==
  ASSUME NEW f
  PROVE  Rank(f) \in Nat /\ Rank(f) <= 11
<1> DEFINE c == CASE f.confidence = "high" -> 3 [] f.confidence = "medium" -> 2
                  [] OTHER -> 1
           o == IF f.origin = "llm" THEN 2 ELSE 1
<1>1. c \in 1..3 /\ o \in 1..2
  OBVIOUS
<1>2. Rank(f) = 4 * o + c
  BY DEF Rank
<1> HIDE DEF c, o
<1>3. QED
  BY <1>1, <1>2

\* Every set of findings has a first one in the order of the sort: of those of
\* the greatest rank, the one found first.
LEMMA FirstExists ==
  ASSUME NEW C \in SUBSET Nat, C # {}
  PROVE  FirstOf(C) \in C
<1> DEFINE rank(j) == Rank(found[j])
           Ranks == {rank(j) : j \in C}
           Top(g) == {j \in C : rank(j) = g}
<1>1. \A j \in C : rank(j) \in Nat /\ rank(j) <= 11
  BY RankIsBounded
<1>2. PICK g \in Ranks : \A h \in Ranks : g >= h
  <2>1. Ranks \in SUBSET Nat /\ Ranks # {} /\ \A h \in Ranks : h <= 11
    BY <1>1
  <2> HIDE DEF Ranks
  <2>2. QED
    BY <2>1, GreatestNumber
<1>3. PICK j \in Top(g) : \A k \in Top(g) : j <= k
  <2>1. Top(g) \in SUBSET Nat /\ Top(g) # {}
    OBVIOUS
  <2> HIDE DEF Top
  <2>2. QED
    BY <2>1, LeastNumber
<1>4. ASSUME NEW k \in C \ {j}
      PROVE  Precedes(j, k)
  <2>1. rank(j) = g /\ g >= rank(k) /\ rank(k) \in Nat /\ g \in Nat
    BY <1>1, <1>2, <1>3
  <2>2. rank(k) = g => j < k
    <3>1. rank(k) = g => j <= k
      BY <1>3, <1>4
    <3>2. j \in Nat /\ k \in Nat /\ j # k
      BY <1>4
    <3> HIDE DEF rank
    <3>3. QED
      BY <3>1, <3>2
  <2>3. rank(j) > rank(k) \/ (rank(j) = rank(k) /\ j < k)
    <3> HIDE DEF rank
    <3>1. QED
      BY <2>1, <2>2
  <2>4. QED
    BY <2>3 DEF Precedes
<1>5. \E i \in C : \A k \in C \ {i} : Precedes(i, k)
  BY <1>4
<1>6. QED
  BY <1>5 DEF FirstOf

-----------------------------------------------------------------------------
(* RedactionInv                                                             *)

LEMMA InitRedaction == Init => RedactionInv
BY DEF Init, RedactionInv, FindingsMeetWords, KeptInv, ReviewInv, BlockedByLeftover

\* Findings are found before anything is made of them.
LEMMA DetectKeeps ==
  ASSUME RedactionInv, NEW f, Detect(f)
  PROVE  RedactionInv'
<1> DEFINE all == {found[k] : k \in DOMAIN found} \cup {f}
<1>1. /\ stage = "extracted" /\ kept = {} /\ approved = {} /\ Covering(f.span) # {}
      /\ found' = Append(found, f) /\ UNCHANGED <<ocr, stage, kept, approved, gone>>
  BY DEF Detect, RedactionInv, KeptInv, ReviewInv
<1>2. found \in Seq(all) /\ f \in all
  <2>1. found \in Seq({found[k] : k \in DOMAIN found})
    BY DEF RedactionInv, FindingsMeetWords
  <2>2. QED
    BY <2>1
<1> HIDE DEF all
<1>3. /\ found' \in Seq(all)
      /\ \A k \in DOMAIN found' : \/ k \in DOMAIN found /\ found'[k] = found[k]
                                 \/ found'[k] = f
  BY <1>1, <1>2
<1>4. found' \in Seq({found'[k] : k \in DOMAIN found'})
  BY <1>3
<1>5. \A k \in DOMAIN found' : Covering(found'[k].span) # {}
  BY <1>1, <1>3 DEF RedactionInv, FindingsMeetWords
<1>6. FindingsMeetWords'
  BY <1>4, <1>5 DEF FindingsMeetWords, Covering
<1>7. QED
  BY <1>1, <1>6 DEF RedactionInv, KeptInv, ReviewInv, BlockedByLeftover

\* What merging makes of a cluster depends on the findings alone.
LEMMA SameSurvivors ==
  ASSUME UNCHANGED found
  PROVE  \A C : Survivor(C)' = Survivor(C)
<1>1. \A C : FirstOf(C)' = FirstOf(C)
  BY DEF FirstOf, Precedes
<1>2. \A C : UnionBox(C)' = UnionBox(C)
  BY DEF UnionBox, BoxOf
<1>3. \A C : Alternative(C)' = Alternative(C)
  BY <1>1 DEF Alternative
<1>4. QED
  BY <1>1, <1>2, <1>3 DEF Survivor

\* Each cluster becomes a candidate.
LEMMA MergeKeeps ==
  ASSUME RedactionInv, Merge
  PROVE  RedactionInv'
<1>1. /\ stage' = "merged" /\ kept' = {Survivor(C) : C \in Clusters}
      /\ UNCHANGED <<ocr, found, approved, gone>> /\ approved = {}
  BY DEF Merge, RedactionInv, KeptInv, ReviewInv
<1>2. \A C \in Clusters : C \subseteq DOMAIN found /\ Survivor(C).from = C
  BY DEF Clusters, Survivor
<1>3. \A r \in kept' : r.from \subseteq DOMAIN found /\ r = Survivor(r.from)
  BY <1>1, <1>2
<1>4. \A C : Survivor(C)' = Survivor(C)
  BY <1>1, SameSurvivors
<1>5. ASSUME NEW k \in DOMAIN found
      PROVE  \E r \in kept' : k \in r.from
  <2> DEFINE C == {i \in DOMAIN found : Anchor[i] = Anchor[k]}
  <2>1. C \in Clusters /\ k \in C
    BY DEF Clusters
  <2> HIDE DEF C
  <2>2. Survivor(C) \in kept' /\ k \in Survivor(C).from
    BY <1>1, <1>2, <2>1
  <2>3. QED
    BY <2>2
<1>6. KeptInv'
  BY <1>1, <1>3, <1>4, <1>5 DEF KeptInv
<1>7. FindingsMeetWords'
  BY <1>1 DEF RedactionInv, FindingsMeetWords
<1>8. ReviewInv' /\ BlockedByLeftover'
  BY <1>1 DEF ReviewInv, BlockedByLeftover
<1>9. QED
  BY <1>6, <1>7, <1>8 DEF RedactionInv

\* What is found and kept stays as it is from then on.
LEMMA KeptStays ==
  ASSUME RedactionInv, UNCHANGED <<ocr, found, kept>>, stage # "extracted",
         stage' # "extracted"
  PROVE  FindingsMeetWords' /\ KeptInv'
<1>1. \A C : Survivor(C)' = Survivor(C)
  BY SameSurvivors
<1>2. QED
  BY <1>1 DEF RedactionInv, FindingsMeetWords, KeptInv

LEMMA ReviewKeeps ==
  ASSUME RedactionInv, NEW S \in SUBSET kept, Review(S)
  PROVE  RedactionInv'
<1>1. /\ UNCHANGED <<ocr, found, kept>> /\ approved' \subseteq kept'
      /\ stage = "merged" /\ stage' = "reviewed"
  BY DEF Review
<1>2. QED
  BY <1>1, KeptStays DEF RedactionInv, ReviewInv, BlockedByLeftover

\* What the integrity check complains of is a text outside every approved box:
\* inside them it has just been burnt in.
LEMMA ExportKeeps ==
  ASSUME RedactionInv, Export
  PROVE  RedactionInv'
<1>1. /\ UNCHANGED <<ocr, found, kept, approved>> /\ approved \subseteq kept
      /\ stage = "reviewed" /\ stage' \in {"exported", "blocked"}
      /\ stage' = "exported" => gone' = BurntIn
      /\ stage' = "blocked" => ~Passed(BurntIn)
  BY DEF Export, RedactionInv, ReviewInv
<1>2. ReviewInv'
  BY <1>1 DEF ReviewInv, BurntIn, Scanned
<1>3. ASSUME ~Passed(BurntIn)
      PROVE  \E r \in approved, i \in Words :
               /\ ReadFrom(i, r.text)
               /\ \A p \in r.text, q \in approved : i + p[1] \notin WordsUnder(q.box)
  <2>1. PICK r \in approved : \/ ~(Scanned \/ WordsUnder(r.box) \subseteq BurntIn)
                             \/ FoundIn(r.text, BurntIn)
    BY <1>3 DEF Passed
  <2>2. ~Scanned
    BY <2>1 DEF FoundIn
  <2>3. BurntIn = UNION {WordsUnder(q.box) : q \in approved}
    BY <2>2 DEF BurntIn
  <2>4. WordsUnder(r.box) \subseteq BurntIn
    BY <2>3
  <2>5. PICK i \in Words : ReadFrom(i, r.text) /\ \A p \in r.text : i + p[1] \notin BurntIn
    BY <2>1, <2>4 DEF FoundIn
  <2>6. QED
    BY <2>3, <2>5
<1>4. BlockedByLeftover'
  BY <1>1, <1>3 DEF BlockedByLeftover, ReadFrom, PageText, Scanned
<1>5. QED
  BY <1>1, <1>2, <1>4, KeptStays DEF RedactionInv

LEMMA RedactionInvariance == Spec => []RedactionInv
<1>1. RedactionInv /\ [Next]_vars => RedactionInv'
  <2> SUFFICES ASSUME RedactionInv, [Next]_vars PROVE RedactionInv'
    OBVIOUS
  <2>1. CASE RulePass \/ ContextualPass
    <3>1. \E f : Detect(f)
      BY <2>1 DEF RulePass, ContextualPass, DetectByRule, DetectByModel
    <3>2. QED
      BY <3>1, DetectKeeps
  <2>2. CASE UNCHANGED vars
    <3>1. \A C : Survivor(C)' = Survivor(C)
      BY <2>2, SameSurvivors DEF vars
    <3>2. QED
      BY <2>2, <3>1 DEF vars, RedactionInv, FindingsMeetWords, KeptInv, ReviewInv,
                        BlockedByLeftover, BurntIn, Scanned, ReadFrom, PageText
  <2>3. QED
    BY <2>1, <2>2, MergeKeeps, ReviewKeeps, ExportKeeps DEF Next
<1>2. QED
  BY <1>1, InitRedaction, PTL DEF Spec

-----------------------------------------------------------------------------
(* The theorems                                                             *)

\* merge_overlapping and burn_in_redactions: the box of a candidate is the union
\* of the boxes of all that was merged into it, so burning it in takes every word
\* that any of its findings meets; on a scanned page the whole image goes.
THEOREM RedactedIsGone == Spec => []ApprovedIsGone
<1>1. RedactionInv => ApprovedIsGone
  <2> SUFFICES ASSUME RedactionInv, stage = "exported", NEW k \in DOMAIN found,
                      NEW r \in approved, k \in r.from,
                      NEW i \in Covering(found[k].span)
               PROVE  i \in gone
    BY DEF ApprovedIsGone
  <2>1. r.from \subseteq DOMAIN found /\ r = Survivor(r.from) /\ gone = BurntIn
    BY DEF RedactionInv, KeptInv, ReviewInv
  <2>2. i \in Words
    BY DEF Covering
  <2>3. CASE Scanned
    BY <2>1, <2>2, <2>3 DEF BurntIn
  <2>4. CASE ~Scanned
    <3>1. r.box = UnionBox(r.from)
      <4> DEFINE C == r.from
      <4>1. r = Survivor(C)
        BY <2>1
      <4> HIDE DEF C
      <4>2. r.box = UnionBox(C)
        BY <4>1 DEF Survivor
      <4>3. QED
        BY <4>2 DEF C
    <3>2. UnionBox(r.from) \in Box /\ Inside(WordBox(i), UnionBox(r.from))
      BY <2>1, ClusterBox DEF RedactionInv
    <3>3. i \in WordsUnder(r.box)
      BY <2>2, <3>1, <3>2, InsideIsUnder
    <3>4. QED
      BY <2>1, <2>4, <3>3 DEF BurntIn
  <2>5. QED
    BY <2>3, <2>4
<1>2. QED
  BY <1>1, RedactionInvariance, PTL

\* From detection to the exported file: when a reviewer approves all there is to
\* decide, no word that any detector found is left. Merging loses no finding.
THEOREM AllFoundIsGone ==
  Spec => [](stage = "exported" /\ approved = kept =>
               \A k \in DOMAIN found : Covering(found[k].span) \subseteq gone)
<1>1. RedactionInv /\ ApprovedIsGone =>
        (stage = "exported" /\ approved = kept =>
           \A k \in DOMAIN found : Covering(found[k].span) \subseteq gone)
  BY DEF RedactionInv, KeptInv, ApprovedIsGone
<1>2. QED
  BY <1>1, RedactionInvariance, RedactedIsGone, PTL

\* alternative_exemption_code_id: of a cluster whose findings cite different
\* exemptions, the survivor shows the reviewer one that is not its own.
THEOREM DisagreementsShown == Spec => []DisagreementIsShown
<1>1. RedactionInv => DisagreementIsShown
  <2> SUFFICES ASSUME RedactionInv, NEW r \in kept, NEW k \in r.from,
                      found[k].code \notin {NoCode, r.code}
               PROVE  r.alternative \notin {NoCode, r.code}
    BY DEF DisagreementIsShown
  <2> DEFINE C == r.from
             primary == FirstOf(C)
             others == {j \in C \ {primary} :
                          found[j].code \notin {NoCode, found[primary].code}}
  <2>1. C \subseteq DOMAIN found /\ r = Survivor(C)
    BY DEF RedactionInv, KeptInv
  <2>2. DOMAIN found \subseteq Nat
    BY DEF RedactionInv, FindingsMeetWords
  <2>3. r.code = found[primary].code /\ r.alternative = Alternative(C)
    <3> HIDE DEF C
    <3>1. QED
      BY <2>1 DEF Survivor
  <2>4. k \in others /\ others \in SUBSET Nat
    BY <2>1, <2>2, <2>3
  <2>5. Alternative(C) = IF others = {} THEN NoCode ELSE found[FirstOf(others)].code
    BY DEF Alternative
  <2>6. FirstOf(others) \in others
    <3> HIDE DEF others
    <3>1. QED
      BY <2>4, FirstExists
  <2>7. r.alternative = found[FirstOf(others)].code
    BY <2>3, <2>4, <2>5
  <2>8. QED
    BY <2>3, <2>6, <2>7
<1>2. QED
  BY <1>1, RedactionInvariance, PTL

\* verify_integrity: what blocks an export is a redacted text that can be read
\* where no approved box is, never a box that was burnt in.
THEOREM BlockedForCause == Spec => []BlockedByLeftover
<1>1. RedactionInv => BlockedByLeftover
  BY DEF RedactionInv
<1>2. QED
  BY <1>1, RedactionInvariance, PTL

=============================================================================
