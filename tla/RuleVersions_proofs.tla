------------------------- MODULE RuleVersions_proofs -------------------------
(***************************************************************************)
(* Theorems about RuleVersions, for any numbers of requests, packs, rules, *)
(* draft rules and documents, and whatever requests overlap.               *)
(***************************************************************************)
EXTENDS RuleVersions, WellFoundedInduction, TLAPS

\* Any number of numbers up to k has a largest.
LEMMA MaxOfSome ==
  ASSUME NEW k \in Nat, NEW S, S \subseteq 1..k, S # {}
  PROVE  Max(S) \in S /\ \A y \in S : Max(S) >= y
<1> DEFINE T == {k - x : x \in S}
           R == OpToRel(<, Nat)
<1>1. \A x \in S : x \in Nat /\ k - x \in Nat
  OBVIOUS
<1>2. T \subseteq Nat /\ T # {}
  BY <1>1
<1>3. IsWellFoundedOn(R, Nat)
  BY NatLessThanWellFounded
<1>4. \A m, n \in Nat : <<m, n>> \in R <=> m < n
  BY DEF OpToRel
<1>5. \A y \in S : k - y \in T
  OBVIOUS
<1>6. \A t \in T : \E x \in S : t = k - x
  OBVIOUS
<1> HIDE DEF R, T
<1>7. PICK t \in T : \A y \in T : ~(<<y, t>> \in R)
  BY <1>2, <1>3, WFMin
<1>8. PICK x \in S : t = k - x
  BY <1>6
<1>9. ASSUME NEW y \in S
      PROVE  x >= y
  <2>1. k - y \in Nat /\ t \in Nat /\ ~(<<k - y, t>> \in R)
    BY <1>1, <1>2, <1>5, <1>7
  <2>2. ~(k - y < k - x)
    BY <1>4, <1>8, <2>1
  <2>3. QED
    BY <1>1, <2>2
<1>10. Max(S) \in S /\ \A y \in S : Max(S) >= y
  BY <1>9 DEF Max
<1>11. QED
  BY <1>10

\* The version numbers of a pack are 1..n: the next one is n + 1.
LEMMA NextIsFirstFree ==
  ASSUME TypeOK, NEW p \in Packs
  PROVE  /\ NextNumber(p) \in Nat \ {0}
         /\ \A m \in Numbers : m < NextNumber(p) => status[p][m] # None
         /\ Versions(p) # {} => Max(Versions(p)) \in Versions(p)
<1>1. PICK n \in 0..MaxVersion : Versions(p) = 1..n
  BY DEF TypeOK
<1>2. n \in Nat /\ MaxVersion \in Nat
  BY <1>1, ConstantsAssumption
<1>3. CASE n = 0
  BY <1>1, <1>2, <1>3 DEF NextNumber, Numbers
<1>4. CASE n # 0
  <2>1. Max(1..n) = n
    <3>1. n \in 1..n /\ \A y \in 1..n : n >= y
      BY <1>2, <1>4
    <3>2. \A x \in 1..n : (\A y \in 1..n : x >= y) => x = n
      BY <1>2, <1>4
    <3>3. QED
      BY <3>1, <3>2 DEF Max
  <2>2. NextNumber(p) = n + 1 /\ Max(Versions(p)) \in Versions(p)
    BY <1>1, <1>2, <1>4, <2>1 DEF NextNumber
  <2>3. \A m \in Numbers : m < n + 1 => status[p][m] # None
    BY <1>1, <1>2 DEF Versions, Numbers
  <2>4. QED
    BY <1>2, <2>2, <2>3
<1>5. QED
  BY <1>3, <1>4

\* A request that comes in, and whose reads hold, keeps the invariant.
LEMMA BeginKeeps ==
  ASSUME IInv, NEW w \in Workers, NEW r \in Request,
         ReadsHold(r), Begin(w, r)
  PROVE  IInv'
<1> USE DEF Begin
<1>1. \A u \in Workers : tx'[u] = IF u = w THEN r ELSE tx[u]
  BY DEF IInv, TypeOK
<1>2. TypeOK'
  BY DEF IInv, TypeOK, Versions
<1>3. AcceptedEnter' /\ AppliedReleased'
  BY DEF IInv, AcceptedEnter, AppliedReleased, Released
<1>4. ASSUME NEW u \in Workers
      PROVE  ReadsHold(tx[u])'
  BY <1>1 DEF IInv, ReadsHold, Released
<1>5. QED
  BY <1>2, <1>3, <1>4 DEF IInv

LEMMA IdleIsRequest == Idle \in Request
BY ConstantsAssumption DEF Idle, Request, Statuses, Content, Empty

\* What an idle request's fields are, for the requests built from it.
LEMMA Fields ==
  /\ Starter \in Packs /\ 0 \in 0..MaxVersion /\ None \in Statuses /\ 0 \in Nat
  /\ Empty \in Content /\ {} \in SUBSET Numbers /\ Numbers \subseteq 0..MaxVersion
  /\ None \in Keys \cup {None} /\ None \in Values \cup {None}
  /\ None \in Drafts \cup {None} /\ "draft" \in Statuses
  /\ {"draft", "pack", "publish", "extract", "reject", "accept", "process"} \subseteq Ops
  /\ Edits \subseteq Ops
BY ConstantsAssumption DEF Statuses, Content, Empty, Numbers, Ops, Edits, Settles

\* A request that ends leaves the others as they were.
LEMMA EndLeavesOthers ==
  ASSUME IInv, NEW w \in Workers, tx' = [tx EXCEPT ![w] = Idle]
  PROVE  /\ tx' \in [Workers -> Request]
         /\ ReadsHold(tx[w])'
         /\ \A u \in Workers \ {w} : tx'[u] = tx[u]
<1>1. tx'[w] = Idle /\ \A u \in Workers \ {w} : tx'[u] = tx[u]
  BY DEF IInv, TypeOK
<1>2. tx' \in [Workers -> Request]
  BY IdleIsRequest DEF IInv, TypeOK
<1>3. Idle.op = "idle"
  BY DEF Idle
<1>4. ReadsHold(tx[w])'
  BY <1>1, <1>3 DEF ReadsHold, Edits, Settles
<1>5. QED
  BY <1>1, <1>2, <1>4

\* What the other requests read survives: no version disappears, none that is
\* released becomes a draft, and no draft rule disappears.
LEMMA ReadsSurvive ==
  ASSUME IInv, NEW u \in Workers, tx'[u] = tx[u],
         \A p \in Packs, n \in Numbers :
           /\ status[p][n] # None => status'[p][n] # None
           /\ Released(p, n) => Released(p, n)',
         \A d \in Drafts : draft[d] # None => draft'[d] # None
  PROVE  ReadsHold(tx[u])'
<1> DEFINE t == tx[u]
<1>1. t \in Request /\ t.pack \in Packs /\ t.prev \subseteq Numbers
  BY DEF IInv, TypeOK, Request
<1>2. ReadsHold(t)
  BY DEF IInv
<1>3. \A n : Released(t.pack, n) => Released(t.pack, n)'
  BY <1>1 DEF Released
<1> HIDE DEF t
<1>4. t' = t
  BY DEF t
<1>5. \A m \in Numbers : status[t.pack][m] # None => status'[t.pack][m] # None
  BY <1>1
<1>6. ReadsHold(t)'
  BY <1>1, <1>2, <1>3, <1>4, <1>5 DEF ReadsHold
<1>7. QED
  BY <1>6 DEF t

\* A new draft version, with the first number that is free.
LEMMA NewDraft ==
  ASSUME IInv, NEW p \in Packs, NEW n \in Numbers, status[p][n] = None,
         \A m \in Numbers : m < n => status[p][m] # None,
         status' = [status EXCEPT ![p][n] = "draft"]
  PROVE  /\ status' \in [Packs -> [Numbers -> Statuses]]
         /\ \A q \in Packs, m \in Numbers :
              status'[q][m] = status[q][m] \/ (status[q][m] = None /\ status'[q][m] = "draft")
         /\ \A q \in Packs : \E k \in 0..MaxVersion : Versions(q)' = 1..k
<1>1. status \in [Packs -> [Numbers -> Statuses]]
  BY DEF IInv, TypeOK
<1>2. status' \in [Packs -> [Numbers -> Statuses]]
  BY <1>1 DEF Statuses
<1>3. \A q \in Packs, m \in Numbers :
        status'[q][m] = IF q = p /\ m = n THEN "draft" ELSE status[q][m]
  BY <1>1
<1>4. ASSUME NEW q \in Packs
      PROVE  \E k \in 0..MaxVersion : Versions(q)' = 1..k
  <2>1. PICK k \in 0..MaxVersion : Versions(q) = 1..k
    BY DEF IInv, TypeOK
  <2>2. CASE q # p
    BY <1>3, <2>1, <2>2 DEF Versions
  <2>3. CASE q = p
    <3>1. k \in Nat /\ MaxVersion \in Nat /\ n \in Nat
      BY <2>1, ConstantsAssumption DEF Numbers
    <3>2. \A m \in Numbers : status[p][m] # None <=> m <= k
      BY <2>1, <2>3, <3>1 DEF Versions, Numbers
    <3>3. n = k + 1
      <4>1. n > k
        BY <3>1, <3>2
      <4>2. CASE n > k + 1
        <5>1. k + 1 \in Numbers /\ k + 1 < n
          BY <3>1, <4>2 DEF Numbers
        <5>2. QED
          BY <3>1, <3>2, <5>1
      <4>3. QED
        BY <3>1, <4>1, <4>2
    <3>4. Versions(q)' = Versions(q) \cup {n}
      BY <1>3, <2>3 DEF Versions, None
    <3>5. Versions(q)' = 1..n
      BY <2>1, <3>1, <3>3, <3>4
    <3>6. n \in 0..MaxVersion
      BY <3>1 DEF Numbers
    <3>7. QED
      BY <3>5, <3>6
  <2>4. QED
    BY <2>2, <2>3
<1>5. QED
  BY <1>2, <1>3, <1>4

\* Content written to one version leaves every other version's content.
LEMMA Written ==
  ASSUME IInv, NEW p \in Packs, NEW n \in Numbers, NEW c \in Content,
         rules' = [rules EXCEPT ![p][n] = c]
  PROVE  /\ rules' \in [Packs -> [Numbers -> Content]]
         /\ \A q \in Packs, m \in Numbers :
              rules'[q][m] = IF q = p /\ m = n THEN c ELSE rules[q][m]
<1>1. rules \in [Packs -> [Numbers -> Content]]
  BY DEF IInv, TypeOK
<1>2. QED
  BY <1>1

\* Documents keep what they were processed with, and released stays released.
LEMMA AppliedKept ==
  ASSUME IInv, UNCHANGED applied,
         \A p \in Packs, n \in Numbers : Released(p, n) => Released(p, n)'
  PROVE  AppliedReleased'
<1>1. \A doc \in Docs : applied[doc].number # 0 =>
        /\ applied[doc].pack \in Packs
        /\ Released(applied[doc].pack, applied[doc].number)
  BY DEF IInv, TypeOK, AppliedReleased
<1>2. \A doc \in Docs : applied[doc].number # 0 => applied[doc].number \in Numbers
  BY <1>1 DEF Released
<1>3. QED
  BY <1>1, <1>2 DEF AppliedReleased

\* An edit writes the version it loaded as a draft, or a new draft with a number
\* that is free; and no other version.
LEMMA EditedVersion ==
  ASSUME IInv, NEW w \in Workers, tx[w].op \in Edits \cup {"accept"},
         ~Refused(w), Edited(w)
  PROVE  /\ status' \in [Packs -> [Numbers -> Statuses]]
         /\ rules' \in [Packs -> [Numbers -> Content]]
         /\ \A q \in Packs, m \in Numbers :
              status'[q][m] = status[q][m] \/ (status[q][m] = None /\ status'[q][m] = "draft")
         /\ \A q \in Packs, m \in Numbers :
              \/ rules'[q][m] = rules[q][m]
              \/ status[q][m] = None
              \/ tx[w].was = "draft" /\ tx[w].pack = q /\ tx[w].number = m
         /\ \A q \in Packs : \E k \in 0..MaxVersion : Versions(q)' = 1..k
<1> DEFINE t == tx[w]
           n == IF InPlace(w) THEN t.number ELSE t.next
           source == IF InPlace(w) THEN rules[t.pack][n] ELSE t.copy
           c == [source EXCEPT ![t.key] = t.val]
<1>1. t \in Request /\ ReadsHold(t) /\ t.pack \in Packs
  BY DEF IInv, TypeOK, Request
<1>2. n \in Numbers /\ (~InPlace(w) => status[t.pack][n] = None)
  BY <1>1 DEF ReadsHold, InPlace, Refused, Taken
<1>3. source \in Content
  BY <1>1, <1>2 DEF IInv, TypeOK, Request
<1>4. t.val \in Values \cup {None}
  BY <1>1 DEF Request
<1>5. c \in Content
  BY <1>3, <1>4 DEF Content
<1>6. rules' = [rules EXCEPT ![t.pack][n] = c]
  BY DEF Edited
<1> HIDE DEF c, source
<1>7. /\ rules' \in [Packs -> [Numbers -> Content]]
      /\ \A q \in Packs, m \in Numbers :
           rules'[q][m] = IF q = t.pack /\ m = n THEN c ELSE rules[q][m]
  <2> HIDE DEF n, t
  <2>1. t.pack \in Packs /\ n \in Numbers
    BY <1>1, <1>2
  <2>2. QED
    BY <1>5, <1>6, <2>1, Written
<1>8. \A q \in Packs, m \in Numbers :
        \/ rules'[q][m] = rules[q][m]
        \/ status[q][m] = None
        \/ t.was = "draft" /\ t.pack = q /\ t.number = m
  BY <1>2, <1>7 DEF InPlace
<1>9. CASE InPlace(w)
  <2>1. status' = status
    BY <1>9 DEF Edited
  <2>2. QED
    BY <1>7, <1>8, <2>1 DEF IInv, TypeOK, Versions
<1>10. CASE ~InPlace(w)
  <2>1. /\ t.next \in Numbers /\ status[t.pack][t.next] = None
        /\ \A m \in Numbers : m < t.next => status[t.pack][m] # None
    BY <1>1, <1>10 DEF ReadsHold, InPlace, Refused, Taken
  <2>2. status' = [status EXCEPT ![t.pack][t.next] = "draft"]
    BY <1>10 DEF Edited
  <2>3. /\ status' \in [Packs -> [Numbers -> Statuses]]
        /\ \A q \in Packs, m \in Numbers :
             status'[q][m] = status[q][m] \/ (status[q][m] = None /\ status'[q][m] = "draft")
        /\ \A q \in Packs : \E k \in 0..MaxVersion : Versions(q)' = 1..k
    <3> DEFINE p == t.pack
               i == t.next
    <3>1. p \in Packs /\ i \in Numbers /\ status[p][i] = None
          /\ (\A m \in Numbers : m < i => status[p][m] # None)
          /\ status' = [status EXCEPT ![p][i] = "draft"]
      BY <1>1, <2>1, <2>2
    <3> HIDE DEF p, i, t
    <3>2. QED
      BY <3>1, NewDraft
  <2>4. QED
    BY <1>7, <1>8, <2>3
<1>11. QED
  BY <1>9, <1>10

\* Versions that stay what they are, or are new drafts, are not taken back.
LEMMA NothingTakenBack ==
  ASSUME \A q \in Packs, m \in Numbers :
           status'[q][m] = status[q][m] \/ (status[q][m] = None /\ status'[q][m] = "draft")
  PROVE  \A q \in Packs, m \in Numbers :
           /\ status[q][m] # None => status'[q][m] # None
           /\ Released(q, m) => Released(q, m)'
BY DEF Released, None

LEMMA EditCommitKeeps ==
  ASSUME IInv, NEW w \in Workers, EditCommit(w)
  PROVE  IInv'
<1> DEFINE t == tx[w]
<1>1. t \in Request /\ ReadsHold(t)
  BY DEF IInv, TypeOK
<1>2. tx' = [tx EXCEPT ![w] = Idle] /\ UNCHANGED <<applied, faults>>
      /\ t.op \in Edits \cup {"accept"}
  BY DEF EditCommit
<1>3. /\ status' \in [Packs -> [Numbers -> Statuses]]
      /\ rules' \in [Packs -> [Numbers -> Content]]
      /\ \A q \in Packs, m \in Numbers :
           status'[q][m] = status[q][m] \/ (status[q][m] = None /\ status'[q][m] = "draft")
      /\ \A q \in Packs : \E k \in 0..MaxVersion : Versions(q)' = 1..k
  <2>1. CASE ~Refused(w) /\ Edited(w)
    BY <1>2, <2>1, EditedVersion
  <2>2. CASE UNCHANGED <<rules, status>>
    BY <2>2 DEF IInv, TypeOK, Versions
  <2>3. QED
    BY <2>1, <2>2 DEF EditCommit
<1>4. \/ /\ t.op = "accept" /\ t.draft \in Drafts
         /\ draft' = [draft EXCEPT ![t.draft] = "accepted"]
         /\ sourced' = [sourced EXCEPT ![t.draft] = @ + 1]
      \/ UNCHANGED <<draft, sourced>>
  BY <1>1 DEF EditCommit, Accepted, ReadsHold, Settles
<1>5. /\ draft' \in [Drafts -> {None, "pending", "accepted", "rejected"}]
      /\ sourced' \in [Drafts -> Nat]
      /\ AcceptedEnter'
      /\ \A d \in Drafts : draft[d] # None => draft'[d] # None
  <2>1. /\ draft \in [Drafts -> {None, "pending", "accepted", "rejected"}]
        /\ sourced \in [Drafts -> Nat] /\ AcceptedEnter
    BY DEF IInv, TypeOK
  <2> HIDE DEF t
  <2>2. QED
    BY <1>4, <2>1 DEF AcceptedEnter, None
<1>6. ASSUME NEW u \in Workers \ {w}
      PROVE  ReadsHold(tx[u])'
  <2>1. tx'[u] = tx[u]
    BY <1>2, EndLeavesOthers
  <2>2. QED
    BY <1>3, <1>5, <2>1, NothingTakenBack, ReadsSurvive
<1>7. ReadsHold(tx[w])' /\ tx' \in [Workers -> Request]
  BY <1>2, EndLeavesOthers
<1>8. AppliedReleased'
  BY <1>2, <1>3, NothingTakenBack, AppliedKept
<1>9. TypeOK'
  BY <1>2, <1>3, <1>5, <1>7 DEF IInv, TypeOK
<1>10. QED
  BY <1>5, <1>6, <1>7, <1>8, <1>9 DEF IInv

\* A new version has a number that is free, and the others stay.
LEMMA NewVersion ==
  ASSUME IInv, NEW w \in Workers, NewVersionCommit(w)
  PROVE  /\ status' \in [Packs -> [Numbers -> Statuses]]
         /\ rules' \in [Packs -> [Numbers -> Content]]
         /\ \A q \in Packs, m \in Numbers :
              status'[q][m] = status[q][m] \/ (status[q][m] = None /\ status'[q][m] = "draft")
         /\ \A q \in Packs, m \in Numbers : status[q][m] # None => rules'[q][m] = rules[q][m]
         /\ \A q \in Packs : \E k \in 0..MaxVersion : Versions(q)' = 1..k
<1> DEFINE t == tx[w]
<1>1. /\ t \in Request /\ ReadsHold(t) /\ t.pack \in Packs /\ t.copy \in Content
      /\ t.op \in {"draft", "pack"}
  BY DEF IInv, TypeOK, Request, NewVersionCommit
<1>2. CASE UNCHANGED <<status, rules>>
  BY <1>2 DEF IInv, TypeOK, Versions
<1>3. CASE ~Taken(t.pack, t.next)
  <2>1. /\ t.next \in Numbers /\ status[t.pack][t.next] = None
        /\ \A m \in Numbers : m < t.next => status[t.pack][m] # None
    BY <1>1, <1>3 DEF ReadsHold, Taken
  <2>2. /\ status' = [status EXCEPT ![t.pack][t.next] = "draft"]
        /\ rules' = [rules EXCEPT ![t.pack][t.next] = t.copy]
    BY <1>3 DEF NewVersionCommit
  <2> HIDE DEF t
  <2>3. /\ rules' \in [Packs -> [Numbers -> Content]]
        /\ \A q \in Packs, m \in Numbers :
             rules'[q][m] = IF q = t.pack /\ m = t.next THEN t.copy ELSE rules[q][m]
    BY <1>1, <2>1, <2>2, Written
  <2>4. /\ status' \in [Packs -> [Numbers -> Statuses]]
        /\ \A q \in Packs, m \in Numbers :
             status'[q][m] = status[q][m] \/ (status[q][m] = None /\ status'[q][m] = "draft")
        /\ \A q \in Packs : \E k \in 0..MaxVersion : Versions(q)' = 1..k
    <3> DEFINE p == t.pack
               i == t.next
    <3>1. p \in Packs /\ i \in Numbers /\ status[p][i] = None
          /\ (\A m \in Numbers : m < i => status[p][m] # None)
          /\ status' = [status EXCEPT ![p][i] = "draft"]
      BY <1>1, <2>1, <2>2
    <3> HIDE DEF p, i
    <3>2. QED
      BY <3>1, NewDraft
  <2>5. QED
    BY <2>1, <2>3, <2>4
<1>4. QED
  BY <1>2, <1>3 DEF NewVersionCommit

LEMMA NewVersionCommitKeeps ==
  ASSUME IInv, NEW w \in Workers, NewVersionCommit(w)
  PROVE  IInv'
<1>1. tx' = [tx EXCEPT ![w] = Idle] /\ UNCHANGED <<draft, sourced, applied, faults>>
  BY DEF NewVersionCommit
<1>2. ASSUME NEW u \in Workers \ {w}
      PROVE  ReadsHold(tx[u])'
  <2>1. tx'[u] = tx[u]
    BY <1>1, EndLeavesOthers
  <2>2. QED
    BY <1>1, <2>1, NewVersion, NothingTakenBack, ReadsSurvive
<1>3. ReadsHold(tx[w])' /\ tx' \in [Workers -> Request]
  BY <1>1, EndLeavesOthers
<1>4. AppliedReleased'
  BY <1>1, NewVersion, NothingTakenBack, AppliedKept
<1>5. TypeOK' /\ AcceptedEnter'
  BY <1>1, <1>3, NewVersion DEF IInv, TypeOK, AcceptedEnter
<1>6. QED
  BY <1>2, <1>3, <1>4, <1>5 DEF IInv

\* Publishing makes the version it loaded published and archives what it found
\* published; it takes no version back.
LEMMA PublishedVersions ==
  ASSUME IInv, NEW w \in Workers, PublishCommit(w)
  PROVE  /\ tx[w].op = "publish" /\ tx[w].was = "draft"
         /\ status' \in [Packs -> [Numbers -> Statuses]]
         /\ \A q \in Packs, m \in Numbers :
              \/ status'[q][m] = status[q][m]
              \/ status'[q][m] = "archived" /\ Released(q, m)
              \/ /\ q = tx[w].pack /\ m = tx[w].number
                 /\ status'[q][m] = "published" /\ status[q][m] # None
         /\ \A q \in Packs, m \in Numbers :
              /\ status[q][m] # None <=> status'[q][m] # None
              /\ Released(q, m) => Released(q, m)'
<1> DEFINE p == tx[w].pack
           n == tx[w].number
           prev == tx[w].prev
<1>1. tx[w] \in Request /\ ReadsHold(tx[w]) /\ tx[w].op = "publish"
  BY DEF IInv, TypeOK, PublishCommit
<1>2. /\ p \in Packs /\ n \in Numbers /\ status[p][n] # None /\ tx[w].was = "draft"
      /\ \A m \in prev : Released(p, m)
  BY <1>1 DEF ReadsHold, Request
<1>3. status' = [status EXCEPT ![p] =
                   [m \in Numbers |->
                      CASE m = n -> "published"
                        [] m \in prev \ {n} -> "archived"
                        [] OTHER -> status[p][m]]]
  BY DEF PublishCommit, Superseded
<1>4. status \in [Packs -> [Numbers -> Statuses]]
  BY DEF IInv, TypeOK
<1> HIDE DEF p, n, prev
<1>5. status' \in [Packs -> [Numbers -> Statuses]]
  BY <1>2, <1>3, <1>4 DEF Statuses
<1>6. \A q \in Packs, m \in Numbers :
        status'[q][m] = CASE q = p /\ m = n -> "published"
                          [] q = p /\ m \in prev \ {n} -> "archived"
                          [] OTHER -> status[q][m]
  BY <1>2, <1>3, <1>4
<1>7. \A q \in Packs, m \in Numbers :
        \/ status'[q][m] = status[q][m]
        \/ status'[q][m] = "archived" /\ Released(q, m)
        \/ /\ q = p /\ m = n /\ status'[q][m] = "published" /\ status[q][m] # None
  BY <1>2, <1>6
<1>8. \A q \in Packs, m \in Numbers :
        /\ status[q][m] # None <=> status'[q][m] # None
        /\ Released(q, m) => Released(q, m)'
  BY <1>7 DEF Released, None
<1>9. QED
  BY <1>1, <1>2, <1>5, <1>7, <1>8 DEF p, n

LEMMA PublishCommitKeeps ==
  ASSUME IInv, NEW w \in Workers, PublishCommit(w)
  PROVE  IInv'
<1>1. /\ tx' = [tx EXCEPT ![w] = Idle]
      /\ UNCHANGED <<rules, draft, sourced, applied, faults>>
  BY DEF PublishCommit
<1>2. \A q \in Packs : Versions(q)' = Versions(q)
  BY PublishedVersions DEF Versions
<1>3. ReadsHold(tx[w])' /\ tx' \in [Workers -> Request]
  BY <1>1, EndLeavesOthers
<1>4. TypeOK' /\ AcceptedEnter'
  BY <1>1, <1>2, <1>3, PublishedVersions DEF IInv, TypeOK, AcceptedEnter
<1>5. AppliedReleased'
  BY <1>1, PublishedVersions, AppliedKept
<1>6. ASSUME NEW u \in Workers \ {w}
      PROVE  ReadsHold(tx[u])'
  <2>1. tx'[u] = tx[u]
    BY <1>1, EndLeavesOthers
  <2>2. QED
    BY <1>1, <2>1, PublishedVersions, ReadsSurvive
<1>7. QED
  BY <1>3, <1>4, <1>5, <1>6 DEF IInv

\* Extracting adds draft rules, rejecting settles one.
LEMMA ManualCommitKeeps ==
  ASSUME IInv, NEW w \in Workers, ExtractCommit(w) \/ RejectCommit(w)
  PROVE  IInv'
<1>1. /\ tx' = [tx EXCEPT ![w] = Idle]
      /\ UNCHANGED <<status, rules, sourced, applied, faults>>
  BY DEF ExtractCommit, RejectCommit
<1>2. draft \in [Drafts -> {None, "pending", "accepted", "rejected"}]
  BY DEF IInv, TypeOK
<1>3. tx[w].op = "reject" => tx[w].draft \in Drafts
  BY DEF IInv, ReadsHold, Settles
<1>4. /\ draft' \in [Drafts -> {None, "pending", "accepted", "rejected"}]
      /\ \A d \in Drafts :
           /\ draft[d] # None => draft'[d] # None
           /\ draft'[d] = "accepted" => draft[d] = "accepted"
           /\ draft'[d] \in {None, "pending"} => draft[d] \in {None, "pending"}
  <2>1. CASE ExtractCommit(w)
    BY <1>2, <2>1 DEF ExtractCommit, Extractable, None
  <2>2. CASE RejectCommit(w)
    <3>1. PICK e \in Drafts : e = tx[w].draft
      BY <1>3, <2>2 DEF RejectCommit
    <3>2. draft' = [draft EXCEPT ![e] = "rejected"]
      BY <2>2, <3>1 DEF RejectCommit
    <3>3. QED
      BY <1>2, <3>2 DEF None
  <2>3. QED
    BY <2>1, <2>2
<1>5. ASSUME NEW u \in Workers \ {w}
      PROVE  ReadsHold(tx[u])'
  <2>1. tx'[u] = tx[u]
    BY <1>1, EndLeavesOthers
  <2>2. QED
    BY <1>1, <1>4, <2>1, NothingTakenBack, ReadsSurvive
<1>6. ReadsHold(tx[w])' /\ tx' \in [Workers -> Request]
  BY <1>1, EndLeavesOthers
<1>7. AppliedReleased'
  BY <1>1, NothingTakenBack, AppliedKept
<1>8. TypeOK' /\ AcceptedEnter'
  BY <1>1, <1>4, <1>6 DEF IInv, TypeOK, AcceptedEnter, Versions
<1>9. QED
  BY <1>5, <1>6, <1>7, <1>8 DEF IInv

\* A document keeps the version it is processed with, and its rules.
LEMMA ProcessCommitKeeps ==
  ASSUME IInv, NEW w \in Workers, NEW doc \in Docs, ProcessCommit(w, doc)
  PROVE  IInv'
<1> DEFINE t == tx[w]
<1>1. t \in Request /\ t.pack \in Packs /\ Released(t.pack, t.number)
  BY DEF IInv, TypeOK, Request, ReadsHold, ProcessCommit
<1>2. /\ tx' = [tx EXCEPT ![w] = Idle]
      /\ UNCHANGED <<status, rules, draft, sourced, faults>>
      /\ applied' = [applied EXCEPT ![doc] =
                       [pack |-> t.pack, number |-> t.number,
                        rules |-> rules[t.pack][t.number]]]
  BY DEF ProcessCommit
<1> HIDE DEF t
<1>3. /\ applied \in [Docs -> [pack : Packs, number : 0..MaxVersion, rules : Content]]
      /\ rules[t.pack][t.number] \in Content /\ t.number \in 0..MaxVersion
  BY <1>1, ConstantsAssumption DEF IInv, TypeOK, Released, Numbers
<1>4. applied' \in [Docs -> [pack : Packs, number : 0..MaxVersion, rules : Content]]
  BY <1>1, <1>2, <1>3
<1>5. AppliedReleased'
  BY <1>1, <1>2, <1>3 DEF IInv, AppliedReleased, Released
<1>6. ASSUME NEW u \in Workers \ {w}
      PROVE  ReadsHold(tx[u])'
  <2>1. tx'[u] = tx[u]
    BY <1>2, EndLeavesOthers
  <2>2. QED
    BY <1>2, <2>1, NothingTakenBack, ReadsSurvive
<1>7. ReadsHold(tx[w])' /\ tx' \in [Workers -> Request]
  BY <1>2, EndLeavesOthers
<1>8. TypeOK'
  BY <1>2, <1>4, <1>7 DEF IInv, TypeOK, Versions
<1>9. AcceptedEnter'
  BY <1>2 DEF IInv, AcceptedEnter
<1>10. QED
  BY <1>5, <1>6, <1>7, <1>8, <1>9 DEF IInv

LEMMA FailKeeps ==
  ASSUME IInv, NEW w \in Workers, Fail(w)
  PROVE  IInv'
<1>1. /\ tx' = [tx EXCEPT ![w] = Idle] /\ faults' = faults + 1
      /\ UNCHANGED <<status, rules, draft, sourced, applied>>
  BY DEF Fail
<1>2. ASSUME NEW u \in Workers \ {w}
      PROVE  ReadsHold(tx[u])'
  <2>1. tx'[u] = tx[u]
    BY <1>1, EndLeavesOthers
  <2>2. QED
    BY <1>1, <2>1, NothingTakenBack, ReadsSurvive
<1>3. ReadsHold(tx[w])' /\ tx' \in [Workers -> Request]
  BY <1>1, EndLeavesOthers
<1>4. AppliedReleased'
  BY <1>1, NothingTakenBack, AppliedKept
<1>5. TypeOK' /\ AcceptedEnter'
  BY <1>1, <1>3 DEF IInv, TypeOK, AcceptedEnter, Versions
<1>6. QED
  BY <1>2, <1>3, <1>4, <1>5 DEF IInv

\* What each request reads at its beginning holds then.
LEMMA TargetIsRequest ==
  ASSUME TypeOK, NEW p \in Packs, NEW n \in Versions(p), NEW op \in Ops
  PROVE  /\ Target(p, n, op) \in Request
         /\ Target(p, n, op).op = op /\ Target(p, n, op).pack = p
         /\ Target(p, n, op).number = n /\ Target(p, n, op).was = status[p][n]
         /\ Target(p, n, op).next = NextNumber(p)
<1>1. n \in Numbers /\ status[p][n] \in Statuses /\ rules[p][n] \in Content
  BY DEF Versions, TypeOK
<1>2. n \in 0..MaxVersion /\ NextNumber(p) \in Nat
  BY <1>1, Fields, NextIsFirstFree
<1>3. Target(p, n, op) \in Request
  BY <1>1, <1>2, IdleIsRequest DEF Target, Request
<1>4. QED
  BY <1>3, IdleIsRequest DEF Target, Request

LEMMA EditBegins ==
  ASSUME IInv, NEW w \in Workers, NEW p \in Packs, NEW n \in Versions(p),
         NEW r \in Request, r.op \in Edits \cup {"accept"},
         r.pack = p, r.number = n, r.was = status[p][n], r.next = NextNumber(p),
         r.op = "accept" => r.draft \in Drafts /\ draft[r.draft] # None,
         status[p][n] # "draft" => NextNumber(p) <= MaxVersion,
         Begin(w, r)
  PROVE  IInv'
<1>1. n \in Numbers /\ status[p][n] # None
  BY DEF Versions
<1>2. /\ NextNumber(p) \in Nat \ {0}
      /\ \A m \in Numbers : m < NextNumber(p) => status[p][m] # None
  BY NextIsFirstFree DEF IInv
<1>3. ReadsHold(r)
  BY <1>1, <1>2, ConstantsAssumption DEF ReadsHold, Edits, Settles, Numbers
<1>4. QED
  BY <1>3, BeginKeeps

LEMMA EditKeeps ==
  ASSUME IInv, NEW w \in Workers, Edit(w)
  PROVE  IInv'
<1>1. ASSUME NEW p \in Packs, NEW n \in Numbers, NEW k \in Keys,
             NEW v \in Values \cup {None}, NEW op \in Edits, EditBegin(w, p, n, op, k, v)
      PROVE  IInv'
  <2> DEFINE t == Target(p, n, op)
             r == [t EXCEPT !.key = k, !.val = v]
  <2>1. n \in Versions(p) /\ Begin(w, r)
        /\ (status[p][n] # "draft" => NextNumber(p) <= MaxVersion)
    BY <1>1 DEF EditBegin
  <2>2. /\ t \in Request /\ t.op = op /\ t.pack = p /\ t.number = n
        /\ t.was = status[p][n] /\ t.next = NextNumber(p)
    BY <2>1, Fields, TargetIsRequest DEF IInv
  <2> HIDE DEF t
  <2>3. /\ r \in Request /\ r.op = op /\ r.pack = p /\ r.number = n
        /\ r.was = status[p][n] /\ r.next = NextNumber(p)
    BY <2>2 DEF Request
  <2> HIDE DEF r
  <2>4. op # "accept"
    BY DEF Edits
  <2>5. QED
    BY <2>1, <2>3, <2>4, EditBegins
<1>2. ASSUME NEW p \in Packs, NEW n \in Numbers, NEW k \in Keys,
             NEW v \in Values \cup {None}, NEW d \in Drafts, AcceptBegin(w, p, n, d, k, v)
      PROVE  IInv'
  <2> DEFINE t == Target(p, n, "accept")
             r == [t EXCEPT !.key = k, !.val = v, !.draft = d]
  <2>1. /\ n \in Versions(p) /\ Begin(w, r) /\ draft[d] # None
        /\ status[p][n] # "draft" => NextNumber(p) <= MaxVersion
    BY <1>2 DEF AcceptBegin, Undecided, None
  <2>2. /\ t \in Request /\ t.op = "accept" /\ t.pack = p /\ t.number = n
        /\ t.was = status[p][n] /\ t.next = NextNumber(p)
    BY <2>1, Fields, TargetIsRequest DEF IInv
  <2> HIDE DEF t
  <2>3. /\ r \in Request /\ r.op = "accept" /\ r.pack = p /\ r.number = n
        /\ r.was = status[p][n] /\ r.next = NextNumber(p) /\ r.draft = d
    BY <2>2 DEF Request
  <2> HIDE DEF r
  <2>4. QED
    BY <2>1, <2>3, EditBegins
<1>3. CASE EditCommit(w)
  BY <1>3, EditCommitKeeps
<1>4. QED
  BY <1>1, <1>2, <1>3 DEF Edit

LEMMA DraftBegins ==
  ASSUME IInv, NEW w \in Workers, NEW p \in Packs, DraftBegin(w, p)
  PROVE  IInv'
<1> DEFINE n == Max(Versions(p))
           r == Target(p, n, "draft")
<1>1. /\ NextNumber(p) \in Nat \ {0} /\ n \in Versions(p)
      /\ \A m \in Numbers : m < NextNumber(p) => status[p][m] # None
  BY NextIsFirstFree DEF DraftBegin, IInv
<1>2. Begin(w, r) /\ NextNumber(p) <= MaxVersion
  BY DEF DraftBegin
<1> HIDE DEF n
<1>3. /\ r.op = "draft" /\ r.pack = p /\ r.next = NextNumber(p)
      /\ r \in Request
  BY <1>1, Fields, TargetIsRequest DEF IInv
<1> HIDE DEF r
<1>4. ReadsHold(r)
  BY <1>1, <1>2, <1>3, ConstantsAssumption DEF ReadsHold, Edits, Settles, Numbers
<1>5. QED
  BY <1>2, <1>3, <1>4, BeginKeeps

LEMMA PackBegins ==
  ASSUME IInv, NEW w \in Workers, NEW p \in Packs, NEW from \in Packs, PackBegin(w, p, from)
  PROVE  IInv'
<1>1. Max(Versions(from)) \in Numbers
  BY NextIsFirstFree DEF PackBegin, IInv, Versions
<1>2. rules[from][Max(Versions(from))] \in Content /\ Empty \in Content
  <2>1. rules \in [Packs -> [Numbers -> Content]]
    BY DEF IInv, TypeOK
  <2> DEFINE m == Max(Versions(from))
  <2>2. m \in Numbers
    BY <1>1
  <2> HIDE DEF m
  <2>3. rules[from][m] \in Content
    BY <2>1, <2>2
  <2>4. QED
    BY <2>3, Fields DEF m
<1>3. PICK copy \in Content :
        Begin(w, [Idle EXCEPT !.op = "pack", !.pack = p, !.next = 1, !.copy = copy])
  BY <1>2 DEF PackBegin
<1> DEFINE r == [Idle EXCEPT !.op = "pack", !.pack = p, !.next = 1, !.copy = copy]
<1>4. r.op = "pack" /\ r.next = 1 /\ r \in Request
  BY IdleIsRequest, Fields DEF Request
<1>5. Begin(w, r)
  BY <1>3 DEF PackBegin
<1> HIDE DEF r
<1>6. ReadsHold(r)
  BY <1>4, ConstantsAssumption DEF ReadsHold, Edits, Settles, Numbers
<1>7. QED
  BY <1>4, <1>5, <1>6, BeginKeeps

LEMMA PublishBegins ==
  ASSUME IInv, NEW w \in Workers, NEW p \in Packs, NEW n \in Numbers, PublishBegin(w, p, n)
  PROVE  IInv'
<1> DEFINE r == [Idle EXCEPT !.op = "publish", !.pack = p, !.number = n,
                             !.was = "draft", !.prev = Published(p)]
<1>1. Begin(w, r) /\ status[p][n] = "draft"
  BY DEF PublishBegin
<1>2. Published(p) \in SUBSET Numbers /\ n \in 0..MaxVersion
  BY Fields DEF Published
<1>3. /\ r.op = "publish" /\ r.pack = p /\ r.number = n /\ r.prev = Published(p)
      /\ r \in Request
      /\ r.was = "draft"
  BY <1>2, IdleIsRequest, Fields DEF Request
<1> HIDE DEF r
<1>4. ReadsHold(r)
  BY <1>1, <1>3 DEF ReadsHold, Edits, Settles, Published, Released, None
<1>5. QED
  BY <1>1, <1>3, <1>4, BeginKeeps

LEMMA VersionKeeps ==
  ASSUME IInv, NEW w \in Workers, Version(w)
  PROVE  IInv'
BY DraftBegins, PackBegins, NewVersionCommitKeeps, PublishBegins, PublishCommitKeeps
DEF Version

LEMMA ManualKeeps ==
  ASSUME IInv, NEW w \in Workers, Manual(w)
  PROVE  IInv'
<1>1. CASE ExtractBegin(w)
  <2> DEFINE r == [Idle EXCEPT !.op = "extract"]
  <2>1. r.op = "extract" /\ r \in Request
    BY IdleIsRequest, Fields DEF Request
  <2>2. Begin(w, r)
    BY <1>1 DEF ExtractBegin
  <2> HIDE DEF r
  <2>3. ReadsHold(r)
    BY <2>1 DEF ReadsHold, Edits, Settles
  <2>4. QED
    BY <2>1, <2>2, <2>3, BeginKeeps
<1>2. ASSUME NEW d \in Drafts, RejectBegin(w, d)
      PROVE  IInv'
  <2> DEFINE r == [Idle EXCEPT !.op = "reject", !.draft = d]
  <2>1. r.op = "reject" /\ r.draft = d /\ r \in Request
    BY IdleIsRequest, Fields DEF Request
  <2>2. Begin(w, r) /\ draft[d] # None
    BY <1>2 DEF RejectBegin, Undecided, None
  <2> HIDE DEF r
  <2>3. ReadsHold(r)
    BY <2>1, <2>2 DEF ReadsHold, Edits
  <2>4. QED
    BY <2>1, <2>2, <2>3, BeginKeeps
<1>3. CASE ExtractCommit(w) \/ RejectCommit(w)
  BY <1>3, ManualCommitKeeps
<1>4. QED
  BY <1>1, <1>2, <1>3 DEF Manual

LEMMA ProcessKeeps ==
  ASSUME IInv, NEW w \in Workers, Process(w)
  PROVE  IInv'
<1>1. ASSUME NEW p \in Packs, ProcessBegin(w, p)
      PROVE  IInv'
  <2>1. PICK k \in 0..MaxVersion : Versions(p) = 1..k
    BY DEF IInv, TypeOK
  <2>2. Candidates(p) # {} /\ Candidates(p) \subseteq 1..k /\ k \in Nat
    BY <1>1, <2>1, ConstantsAssumption
       DEF ProcessBegin, Candidates, Published, Versions, None
  <2> DEFINE m == Max(Candidates(p))
             r == [Idle EXCEPT !.op = "process", !.pack = p, !.number = m]
  <2>3. m \in Candidates(p)
    BY <2>2, MaxOfSome DEF m
  <2> HIDE DEF m
  <2>4. m \in Numbers /\ status[p][m] = "published"
    BY <2>3 DEF Candidates, Published
  <2>5. r.op = "process" /\ r.pack = p /\ r.number = m /\ r \in Request
    BY <2>4, IdleIsRequest, Fields DEF Request
  <2>6. Begin(w, r)
    BY <1>1 DEF ProcessBegin, m
  <2> HIDE DEF r
  <2>7. ReadsHold(r)
    BY <2>4, <2>5 DEF ReadsHold, Released, Edits, Settles
  <2>8. QED
    BY <2>5, <2>6, <2>7, BeginKeeps
<1>2. QED
  BY <1>1, ProcessCommitKeeps DEF Process

\* The starter packs are the only ones, published.
LEMMA InitEstablishes == Init => IInv
<1> SUFFICES ASSUME Init PROVE IInv
  OBVIOUS
<1>1. PICK seed \in Content :
        rules = [p \in Packs |->
                   [n \in Numbers |-> IF p = Starter /\ n = 1 THEN seed ELSE Empty]]
  BY DEF Init
<1>2. \A p \in Packs, n \in Numbers :
        status[p][n] = IF p = Starter /\ n = 1 THEN "published" ELSE None
  BY DEF Init
<1>3. 1 \in Numbers /\ MaxVersion \in Nat /\ 1 \in 0..MaxVersion
  BY ConstantsAssumption DEF Numbers
<1>4. ASSUME NEW p \in Packs
      PROVE  \E n \in 0..MaxVersion : Versions(p) = 1..n
  <2>1. CASE p = Starter
    <3>1. Versions(p) = 1..1
      BY <1>2, <1>3, <2>1 DEF Versions, None
    <3>2. QED
      BY <1>3, <3>1
  <2>2. CASE p # Starter
    <3>1. Versions(p) = 1..0
      BY <1>2, <2>2 DEF Versions
    <3>2. QED
      BY <3>1, Fields
  <2>3. QED
    BY <2>1, <2>2
<1>5. status \in [Packs -> [Numbers -> Statuses]] /\ rules \in [Packs -> [Numbers -> Content]]
  BY <1>1, Fields DEF Init, Statuses
<1>6. TypeOK
  <2>1. Unprocessed \in [pack : Packs, number : 0..MaxVersion, rules : Content]
    BY Fields DEF Unprocessed
  <2>2. QED
    BY <1>4, <1>5, <2>1, IdleIsRequest DEF Init, TypeOK
<1>7. AcceptedEnter /\ AppliedReleased
  BY DEF Init, Unprocessed, AcceptedEnter, AppliedReleased, None
<1>8. \A w \in Workers : tx[w].op = "idle"
  BY DEF Init, Idle
<1>9. \A w \in Workers : ReadsHold(tx[w])
  BY <1>8 DEF ReadsHold, Edits, Settles
<1>10. QED
  BY <1>6, <1>7, <1>9 DEF IInv

LEMMA NextKeeps ==
  ASSUME IInv, [Next]_vars
  PROVE  IInv'
<1>1. ASSUME NEW w \in Workers, Edit(w) \/ Version(w) \/ Manual(w) \/ Process(w) \/ Fail(w)
      PROVE  IInv'
  BY <1>1, EditKeeps, VersionKeeps, ManualKeeps, ProcessKeeps, FailKeeps
<1>2. CASE UNCHANGED vars
  BY <1>2 DEF vars, IInv, TypeOK, AcceptedEnter, AppliedReleased, ReadsHold,
              Released, Versions
<1>3. QED
  BY <1>1, <1>2 DEF Next

\* The types, and what requests may rely on, whatever overlaps.
THEOREM RulesInvariance == Spec => []IInv
<1>1. IInv /\ [Next]_vars => IInv'
  BY NextKeeps
<1>2. QED
  BY <1>1, InitEstablishes, PTL DEF Spec

\* The version numbers of a pack have no gap, whoever loses the race for the
\* next one (_next_version_number).
THEOREM TypeCorrect == Spec => []TypeOK
<1>1. IInv => TypeOK
  BY DEF IInv
<1>2. QED
  BY <1>1, RulesInvariance, PTL

\* An accepted draft rule is in a rule set, and none is before it is decided,
\* whichever requests overlap (accept_draft_rule).
THEOREM DraftsEnter == Spec => []AcceptedEnter
<1>1. IInv => AcceptedEnter
  BY DEF IInv
<1>2. QED
  BY <1>1, RulesInvariance, PTL

\* Documents are processed with versions that were published, and these never
\* become drafts again, whichever publications overlap (get_active_rules).
THEOREM AppliedAreReleased == Spec => []AppliedReleased
<1>1. IInv => AppliedReleased
  BY DEF IInv
<1>2. QED
  BY <1>1, RulesInvariance, PTL

-----------------------------------------------------------------------------
(* From when on versions and draft rules are settled                        *)

VersionsStay ==
  \A p \in Packs, n \in Numbers :
    Settled(p, n) =>
      /\ rules'[p][n] = rules[p][n] /\ status'[p][n] \in {status[p][n], "archived"}
      /\ Settled(p, n)'

DraftsStay ==
  \A d \in Drafts :
    Decided(d) => draft'[d] = draft[d] /\ sourced'[d] = sourced[d] /\ Decided(d)'

\* A request that comes in loads a draft as a draft, and a pending draft rule.
LEMMA BeginStays ==
  ASSUME IInv, NEW w \in Workers, NEW r, Begin(w, r),
         r.op \in Edits \cup {"accept", "publish"} =>
           (r.was = "draft" => status[r.pack][r.number] = "draft"),
         r.op \in Settles => draft[r.draft] = "pending"
  PROVE  VersionsStay /\ DraftsStay
<1>1. \A u \in Workers : tx'[u] = IF u = w THEN r ELSE tx[u]
  BY DEF IInv, TypeOK, Begin
<1>2. UNCHANGED <<status, rules, draft, sourced>>
  BY DEF Begin
<1>3. VersionsStay
  BY <1>1, <1>2 DEF VersionsStay, Settled, Released
<1>4. DraftsStay
  BY <1>1, <1>2 DEF DraftsStay, Decided
<1>5. QED
  BY <1>3, <1>4

\* A request that ends leaves settled what it does not write.
LEMMA EndStays ==
  ASSUME IInv, NEW w \in Workers, tx' = [tx EXCEPT ![w] = Idle],
         \A p \in Packs, n \in Numbers : Settled(p, n) =>
           rules'[p][n] = rules[p][n] /\ status'[p][n] \in {status[p][n], "archived"},
         \A d \in Drafts : Decided(d) => draft'[d] = draft[d] /\ sourced'[d] = sourced[d]
  PROVE  VersionsStay /\ DraftsStay
<1>1. /\ \A u \in Workers : tx'[u] = IF u = w THEN Idle ELSE tx[u]
      /\ Idle.op = "idle"
  BY DEF IInv, TypeOK, Idle
<1>2. VersionsStay
  BY <1>1 DEF VersionsStay, Settled, Released, Edits
<1>3. DraftsStay
  BY <1>1 DEF DraftsStay, Decided, Settles
<1>4. QED
  BY <1>2, <1>3

LEMMA EditStays ==
  ASSUME IInv, NEW w \in Workers, Edit(w)
  PROVE  VersionsStay /\ DraftsStay
<1>1. ASSUME NEW p \in Packs, NEW n \in Numbers, NEW k \in Keys,
             NEW v \in Values \cup {None}, NEW op \in Edits, EditBegin(w, p, n, op, k, v)
      PROVE  VersionsStay /\ DraftsStay
  <2> DEFINE r == [Target(p, n, op) EXCEPT !.key = k, !.val = v]
  <2>1. r.op = op /\ r.pack = p /\ r.number = n /\ r.was = status[p][n]
    BY DEF Target, Idle
  <2>2. Begin(w, r)
    BY <1>1 DEF EditBegin
  <2> HIDE DEF r
  <2>3. r.op \notin Settles
    BY <2>1 DEF Edits, Settles
  <2>4. QED
    BY <2>1, <2>2, <2>3, BeginStays
<1>2. ASSUME NEW p \in Packs, NEW n \in Numbers, NEW k \in Keys,
             NEW v \in Values \cup {None}, NEW d \in Drafts, AcceptBegin(w, p, n, d, k, v)
      PROVE  VersionsStay /\ DraftsStay
  <2> DEFINE r == [Target(p, n, "accept") EXCEPT !.key = k, !.val = v, !.draft = d]
  <2>1. r.op = "accept" /\ r.pack = p /\ r.number = n /\ r.was = status[p][n] /\ r.draft = d
    BY DEF Target, Idle
  <2>2. Begin(w, r) /\ draft[d] = "pending"
    BY <1>2 DEF AcceptBegin, Undecided
  <2> HIDE DEF r
  <2>3. QED
    BY <2>1, <2>2, BeginStays
<1>3. CASE EditCommit(w)
  <2>1. /\ tx' = [tx EXCEPT ![w] = Idle] /\ tx[w].op \in Edits \cup {"accept"}
        /\ (~Refused(w) /\ Edited(w)) \/ UNCHANGED <<status, rules>>
    BY <1>3 DEF EditCommit
  <2>2. ASSUME NEW p \in Packs, NEW n \in Numbers, Settled(p, n)
        PROVE  rules'[p][n] = rules[p][n] /\ status'[p][n] = status[p][n]
    <3>1. /\ status[p][n] # None
          /\ ~(tx[w].was = "draft" /\ tx[w].pack = p /\ tx[w].number = n)
      BY <2>1, <2>2 DEF Settled, Released, None
    <3>2. QED
      BY <2>1, <3>1, EditedVersion
  <2>3. ASSUME NEW d \in Drafts, Decided(d)
        PROVE  draft'[d] = draft[d] /\ sourced'[d] = sourced[d]
    <3>1. draft \in [Drafts -> {None, "pending", "accepted", "rejected"}]
          /\ sourced \in [Drafts -> Nat]
      BY DEF IInv, TypeOK
    <3>2. tx[w].op = "accept" => tx[w].draft # d
      BY <2>3 DEF Decided, Settles
    <3>3. \/ /\ tx[w].op = "accept" /\ draft' = [draft EXCEPT ![tx[w].draft] = "accepted"]
             /\ sourced' = [sourced EXCEPT ![tx[w].draft] = @ + 1]
          \/ UNCHANGED <<draft, sourced>>
      BY <1>3 DEF EditCommit, Accepted
    <3>4. QED
      BY <3>1, <3>2, <3>3
  <2>4. QED
    BY <2>1, <2>2, <2>3, EndStays
<1>4. QED
  BY <1>1, <1>2, <1>3 DEF Edit

LEMMA VersionStays ==
  ASSUME IInv, NEW w \in Workers, Version(w)
  PROVE  VersionsStay /\ DraftsStay
<1>1. ASSUME NEW p \in Packs, DraftBegin(w, p)
      PROVE  VersionsStay /\ DraftsStay
  <2> DEFINE r == Target(p, Max(Versions(p)), "draft")
  <2>1. r.op = "draft"
    BY DEF Target, Idle
  <2>2. Begin(w, r)
    BY <1>1 DEF DraftBegin
  <2> HIDE DEF r
  <2>3. r.op \notin Edits \cup {"accept", "publish"} /\ r.op \notin Settles
    BY <2>1 DEF Edits, Settles
  <2>4. QED
    BY <2>2, <2>3, BeginStays
<1>2. ASSUME NEW p \in Packs, NEW from \in Packs, PackBegin(w, p, from)
      PROVE  VersionsStay /\ DraftsStay
  <2>1. PICK copy :
          Begin(w, [Idle EXCEPT !.op = "pack", !.pack = p, !.next = 1, !.copy = copy])
    BY <1>2 DEF PackBegin
  <2> DEFINE r == [Idle EXCEPT !.op = "pack", !.pack = p, !.next = 1, !.copy = copy]
  <2>2. r.op = "pack" /\ Begin(w, r)
    BY <2>1 DEF Idle
  <2> HIDE DEF r
  <2>3. r.op \notin Edits \cup {"accept", "publish"} /\ r.op \notin Settles
    BY <2>2 DEF Edits, Settles
  <2>4. QED
    BY <2>2, <2>3, BeginStays
<1>3. CASE NewVersionCommit(w)
  <2>1. tx' = [tx EXCEPT ![w] = Idle] /\ UNCHANGED <<draft, sourced>>
    BY <1>3 DEF NewVersionCommit
  <2>2. \A p \in Packs, n \in Numbers : Settled(p, n) => status[p][n] # None
    BY DEF Settled, Released, None
  <2>3. QED
    BY <1>3, <2>1, <2>2, NewVersion, EndStays
<1>4. ASSUME NEW p \in Packs, NEW n \in Numbers, PublishBegin(w, p, n)
      PROVE  VersionsStay /\ DraftsStay
  <2> DEFINE r == [Idle EXCEPT !.op = "publish", !.pack = p, !.number = n,
                               !.was = "draft", !.prev = Published(p)]
  <2>1. r.op = "publish" /\ r.pack = p /\ r.number = n
    BY DEF Idle
  <2>2. Begin(w, r) /\ status[p][n] = "draft"
    BY <1>4 DEF PublishBegin
  <2> HIDE DEF r
  <2>3. QED
    BY <2>1, <2>2, BeginStays DEF Settles
<1>5. CASE PublishCommit(w)
  <2>1. tx' = [tx EXCEPT ![w] = Idle] /\ UNCHANGED <<rules, draft, sourced>>
    BY <1>5 DEF PublishCommit
  <2>2. ASSUME NEW p \in Packs, NEW n \in Numbers, Settled(p, n)
        PROVE  status'[p][n] \in {status[p][n], "archived"}
    BY <1>5, <2>2, PublishedVersions DEF Settled
  <2>3. QED
    BY <2>1, <2>2, EndStays
<1>6. QED
  BY <1>1, <1>2, <1>3, <1>4, <1>5 DEF Version

LEMMA ManualStays ==
  ASSUME IInv, NEW w \in Workers, Manual(w)
  PROVE  VersionsStay /\ DraftsStay
<1>1. CASE ExtractBegin(w)
  <2> DEFINE r == [Idle EXCEPT !.op = "extract"]
  <2>1. r.op = "extract" /\ Begin(w, r)
    BY <1>1 DEF ExtractBegin, Idle
  <2> HIDE DEF r
  <2>2. r.op \notin Edits \cup {"accept", "publish"} /\ r.op \notin Settles
    BY <2>1 DEF Edits, Settles
  <2>3. QED
    BY <2>1, <2>2, BeginStays
<1>2. ASSUME NEW d \in Drafts, RejectBegin(w, d)
      PROVE  VersionsStay /\ DraftsStay
  <2> DEFINE r == [Idle EXCEPT !.op = "reject", !.draft = d]
  <2>1. r.op = "reject" /\ r.draft = d
    BY DEF Idle
  <2>2. Begin(w, r) /\ draft[d] = "pending"
    BY <1>2 DEF RejectBegin, Undecided
  <2> HIDE DEF r
  <2>3. r.op \notin Edits \cup {"accept", "publish"}
    BY <2>1 DEF Edits
  <2>4. QED
    BY <2>1, <2>2, <2>3, BeginStays
<1>3. CASE ExtractCommit(w) \/ RejectCommit(w)
  <2>1. tx' = [tx EXCEPT ![w] = Idle] /\ UNCHANGED <<status, rules, sourced>>
    BY <1>3 DEF ExtractCommit, RejectCommit
  <2>2. ASSUME NEW d \in Drafts, Decided(d)
        PROVE  draft'[d] = draft[d]
    <3>1. CASE ExtractCommit(w)
      BY <2>2, <3>1 DEF ExtractCommit, Extractable, Decided, None
    <3>2. CASE RejectCommit(w)
      <4>1. draft \in [Drafts -> {None, "pending", "accepted", "rejected"}]
        BY DEF IInv, TypeOK
      <4>2. tx[w].draft # d
        BY <2>2, <3>2 DEF RejectCommit, Decided, Settles
      <4>3. QED
        BY <3>2, <4>1, <4>2 DEF RejectCommit
    <3>3. QED
      BY <1>3, <3>1, <3>2
  <2>3. QED
    BY <2>1, <2>2, EndStays
<1>4. QED
  BY <1>1, <1>2, <1>3 DEF Manual

LEMMA ProcessStays ==
  ASSUME IInv, NEW w \in Workers, Process(w) \/ Fail(w)
  PROVE  VersionsStay /\ DraftsStay
<1>1. ASSUME NEW p \in Packs, ProcessBegin(w, p)
      PROVE  VersionsStay /\ DraftsStay
  <2> DEFINE r == [Idle EXCEPT !.op = "process", !.pack = p, !.number = Max(Candidates(p))]
  <2>1. r.op = "process" /\ Begin(w, r)
    BY <1>1 DEF ProcessBegin, Idle
  <2> HIDE DEF r
  <2>2. r.op \notin Edits \cup {"accept", "publish"} /\ r.op \notin Settles
    BY <2>1 DEF Edits, Settles
  <2>3. QED
    BY <2>1, <2>2, BeginStays
<1>2. CASE (\E doc \in Docs : ProcessCommit(w, doc)) \/ Fail(w)
  <2>1. tx' = [tx EXCEPT ![w] = Idle] /\ UNCHANGED <<status, rules, draft, sourced>>
    BY <1>2 DEF ProcessCommit, Fail
  <2>2. QED
    BY <2>1, EndStays
<1>3. QED
  BY <1>1, <1>2 DEF Process

LEMMA StepStays ==
  ASSUME IInv, [Next]_vars
  PROVE  VersionsStay /\ DraftsStay
<1>1. CASE UNCHANGED vars
  BY <1>1 DEF vars, VersionsStay, DraftsStay, Settled, Decided, Released
<1>2. QED
  BY <1>1, EditStays, VersionStays, ManualStays, ProcessStays DEF Next

\* A released version that nobody has open as a draft any more is settled: its
\* rules are what they are for good, however many requests edit, fork and
\* publish next to each other (_ensure_draft_version, publish_version).
THEOREM VersionsSettleForGood == Spec => VersionsSettle
<1>1. IInv /\ [Next]_vars => [VersionsStay]_vars
  BY StepStays
<1>2. Spec => [][VersionsStay]_vars
  BY <1>1, RulesInvariance, PTL DEF Spec
<1>3. QED
  BY <1>2 DEF VersionsSettle, VersionsStay

\* A decided draft rule that no other decision has open stays as decided and
\* enters no further rule set (accept_draft_rule, reject_draft_rule).
THEOREM DraftsSettleForGood == Spec => DraftsSettle
<1>1. IInv /\ [Next]_vars => [DraftsStay]_vars
  BY StepStays
<1>2. Spec => [][DraftsStay]_vars
  BY <1>1, RulesInvariance, PTL DEF Spec
<1>3. QED
  BY <1>2 DEF DraftsSettle, DraftsStay

=============================================================================
