------------------------ MODULE UsageMetering_proofs ------------------------
(***************************************************************************)
(* Theorems about UsageMetering: the lock, the bill and the pilot's cap,   *)
(* for any requests, jobs, uploads, allowances and months.                 *)
(***************************************************************************)
EXTENDS UsageMetering, TLAPS, WellFoundedInduction

-----------------------------------------------------------------------------
(* Induction, and sums by recursion                                         *)

\* Every set of numbers that is not empty has a least one.
LEMMA LeastNumber ==
  ASSUME NEW T \in SUBSET Nat, T # {}
  PROVE  \E x \in T : \A y \in T : x <= y
<1> DEFINE R == OpToRel(<, Nat)
<1>1. IsWellFoundedOn(R, Nat)
  BY NatLessThanWellFounded
<1>2. \A x, y \in Nat : x < y => <<x, y>> \in R
  BY DEF OpToRel
<1> HIDE DEF R
<1>3. PICK x \in T : \A y \in T : ~(<<y, x>> \in R)
  BY <1>1, WFMin
<1>4. ASSUME NEW y \in T
      PROVE  x <= y
  <2>1. x \in Nat /\ y \in Nat /\ ~(y < x)
    BY <1>2, <1>3
  <2>2. QED
    BY <2>1
<1>5. QED
  BY <1>4

\* Induction in the form of a set: what holds of 0 and of n + 1 with n holds of
\* every number.
LEMMA SetInduction ==
  ASSUME NEW T \in SUBSET Nat, 0 \in T, \A n \in T : n + 1 \in T
  PROVE  T = Nat
<1>1. SUFFICES ASSUME Nat \ T # {} PROVE FALSE
  BY Zenon
<1>2. PICK x \in Nat \ T : \A y \in Nat \ T : x <= y
  BY <1>1, LeastNumber
<1>3. x # 0
  OBVIOUS
<1>4. x - 1 \in Nat /\ x - 1 < x
  BY <1>3
<1>5. x - 1 \in T
  BY <1>2, <1>4
<1>6. (x - 1) + 1 \in T
  BY <1>5
<1>7. QED
  BY <1>4, <1>6

\* What record n adds to the quantity of rs at the places S.
Counted(rs, S, n) == IF n \in S THEN rs[n].quantity ELSE 0

\* f is the function that Quantity defines by recursion, up to m.
IsSum(f, rs, S, m) ==
  f = [n \in 0..m |-> IF n = 0 THEN 0 ELSE f[n - 1] + Counted(rs, S, n)]

\* The recursion of Quantity defines a function: by induction on its length.
LEMMA SumExists ==
  ASSUME NEW rs, NEW S, NEW m \in Nat
  PROVE  \E f : IsSum(f, rs, S, m)
<1> DEFINE T == {k \in Nat : \E f : IsSum(f, rs, S, k)}
<1>1. 0 \in T
  <2> DEFINE f == [n \in 0..0 |-> 0]
  <2>1. IsSum(f, rs, S, 0)
    <3>1. f = [n \in 0..0 |-> IF n = 0 THEN 0 ELSE f[n - 1] + Counted(rs, S, n)]
      OBVIOUS
    <3>2. QED
      BY <3>1 DEF IsSum
  <2>2. QED
    BY <2>1
<1>2. ASSUME NEW k \in T
      PROVE  k + 1 \in T
  <2>1. PICK f : IsSum(f, rs, S, k)
    OBVIOUS
  <2> DEFINE g == [n \in 0..(k + 1) |-> IF n <= k THEN f[n]
                                               ELSE f[k] + Counted(rs, S, k + 1)]
             c(n) == Counted(rs, S, n)
  <2>2. ASSUME NEW n \in 0..(k + 1)
        PROVE  g[n] = IF n = 0 THEN 0 ELSE g[n - 1] + c(n)
    <3> HIDE DEF c
    <3>1. \A i \in 0..k : f[i] = IF i = 0 THEN 0 ELSE f[i - 1] + c(i)
      BY <2>1 DEF IsSum, c
    <3>2. CASE n <= k /\ n = 0
      BY <3>1, <3>2
    <3>3. CASE n <= k /\ n # 0
      <4>1. n - 1 \in 0..(k + 1) /\ n - 1 <= k
        BY <3>3
      <4>2. QED
        BY <3>1, <3>3, <4>1
    <3>4. CASE n = k + 1
      <4>1. n - 1 = k /\ n # 0 /\ k \in 0..(k + 1)
        BY <3>4
      <4>2. g[n] = f[k] + c(k + 1)
        BY <3>4 DEF c
      <4>3. QED
        BY <3>4, <4>1, <4>2
    <3>5. QED
      BY <3>2, <3>3, <3>4
  <2>3. g = [n \in 0..(k + 1) |-> IF n = 0 THEN 0 ELSE g[n - 1] + c(n)]
    <3>1. DOMAIN g = 0..(k + 1) /\ g = [n \in 0..(k + 1) |-> g[n]]
      OBVIOUS
    <3> HIDE DEF g, c
    <3>2. QED
      BY <2>2, <3>1
  <2>4. IsSum(g, rs, S, k + 1)
    <3> HIDE DEF g
    <3>1. QED
      BY <2>3 DEF IsSum
  <2> HIDE DEF g
  <2>5. QED
    BY <2>4
<1> HIDE DEF T
<1>3. T = Nat
  <2>1. T \in SUBSET Nat
    BY DEF T
  <2>2. QED
    BY <1>1, <1>2, <2>1, SetInduction
<1>4. QED
  BY <1>3 DEF T

\* Quantity is the last value of it.
LEMMA QuantityIsSum ==
  ASSUME NEW rs, NEW S, Len(rs) \in Nat
  PROVE  \E f : IsSum(f, rs, S, Len(rs)) /\ Quantity(rs, S) = f[Len(rs)]
<1> DEFINE f == CHOOSE f : f = [n \in 0..Len(rs) |-> IF n = 0 THEN 0 ELSE
                              f[n - 1] + (IF n \in S THEN rs[n].quantity ELSE 0)]
<1>1. Quantity(rs, S) = f[Len(rs)]
  BY DEF Quantity
<1>2. f = CHOOSE g : IsSum(g, rs, S, Len(rs))
  BY DEF IsSum, Counted
<1>3. IsSum(f, rs, S, Len(rs))
  <2> HIDE DEF f
  <2>1. QED
    BY <1>2, SumExists, Zenon
<1> HIDE DEF f
<1>4. QED
  BY <1>1, <1>3

\* The quantity of record n of rs, when S counts it.
LEMMA CountedNat ==
  ASSUME NEW rs \in Seq(Record), NEW S, NEW n \in 1..Len(rs)
  PROVE  Counted(rs, S, n) \in Nat
<1>1. rs[n] \in Record
  OBVIOUS
<1>2. rs[n].quantity \in Nat
  BY <1>1 DEF Record
<1>3. QED
  BY <1>2 DEF Counted

\* The equations of the recursion, and that its values are numbers.
LEMMA SumFacts ==
  ASSUME NEW rs \in Seq(Record), NEW S, NEW f, NEW m \in Nat, m <= Len(rs),
         IsSum(f, rs, S, m)
  PROVE  /\ f[0] = 0
         /\ \A n \in 0..m : n # 0 => n - 1 \in 0..m /\ f[n] = f[n - 1] + Counted(rs, S, n)
         /\ \A n \in 0..m : f[n] \in Nat
<1> DEFINE c(n) == Counted(rs, S, n)
<1>1. \A n \in 0..m : f[n] = IF n = 0 THEN 0 ELSE f[n - 1] + c(n)
  <2>1. f = [n \in 0..m |-> IF n = 0 THEN 0 ELSE f[n - 1] + c(n)]
    BY DEF IsSum
  <2> HIDE DEF c
  <2>2. QED
    BY <2>1
<1>2. \A n \in 1..m : c(n) \in Nat
  BY CountedNat
<1> HIDE DEF c
<1> DEFINE T == {n \in Nat : n <= m => f[n] \in Nat}
<1>3. 0 \in T
  BY <1>1
<1>4. ASSUME NEW n \in T
      PROVE  n + 1 \in T
  <2>1. CASE n + 1 <= m
    <3>1. n + 1 \in 0..m /\ n + 1 # 0 /\ (n + 1) - 1 = n /\ n <= m /\ n + 1 \in 1..m
      BY <2>1
    <3>2. f[n + 1] = f[n] + c(n + 1)
      BY <1>1, <3>1
    <3>3. QED
      BY <1>2, <3>1, <3>2
  <2>2. CASE ~(n + 1 <= m)
    BY <2>2
  <2>3. QED
    BY <2>1, <2>2
<1>5. T = Nat
  <2>1. T \in SUBSET Nat
    OBVIOUS
  <2> HIDE DEF T
  <2>2. QED
    BY <1>3, <1>4, <2>1, SetInduction
<1>6. \A n \in 0..m : f[n] \in Nat
  BY <1>5 DEF T
<1>7. \A n \in 0..m : n # 0 => n - 1 \in 0..m /\ f[n] = f[n - 1] + c(n)
  BY <1>1
<1>8. QED
  BY <1>1, <1>6, <1>7 DEF c

\* A quantity is a number.
LEMMA QuantityNat ==
  ASSUME NEW rs \in Seq(Record), NEW S
  PROVE  Quantity(rs, S) \in Nat
<1>1. Len(rs) \in Nat
  OBVIOUS
<1>2. PICK f : IsSum(f, rs, S, Len(rs)) /\ Quantity(rs, S) = f[Len(rs)]
  BY <1>1, QuantityIsSum
<1>3. QED
  BY <1>1, <1>2, SumFacts

\* Quantities depend on the records that are counted, and on nothing else: what
\* is appended or written to other fields does not matter.
LEMMA SameQuantity ==
  ASSUME NEW rs \in Seq(Record), NEW ss \in Seq(Record), NEW S, NEW T,
         Len(rs) <= Len(ss),
         \A i \in 1..Len(rs) : ss[i].quantity = rs[i].quantity,
         \A i \in 1..Len(ss) : i \in T <=> i \in S /\ i <= Len(rs)
  PROVE  Quantity(ss, T) = Quantity(rs, S)
<1> DEFINE L == Len(rs)
           M == Len(ss)
<1>1. L \in Nat /\ M \in Nat /\ L <= M
  OBVIOUS
<1>2. PICK f : IsSum(f, rs, S, L) /\ Quantity(rs, S) = f[L]
  BY <1>1, QuantityIsSum
<1>3. PICK g : IsSum(g, ss, T, M) /\ Quantity(ss, T) = g[M]
  BY <1>1, QuantityIsSum
<1> DEFINE c(n) == Counted(rs, S, n)
           d(n) == Counted(ss, T, n)
<1>4. /\ f[0] = 0
      /\ \A n \in 0..L : n # 0 => n - 1 \in 0..L /\ f[n] = f[n - 1] + c(n)
      /\ \A n \in 0..L : f[n] \in Nat
  BY <1>1, <1>2, SumFacts
<1>5. /\ g[0] = 0
      /\ \A n \in 0..M : n # 0 => n - 1 \in 0..M /\ g[n] = g[n - 1] + d(n)
      /\ \A n \in 0..M : g[n] \in Nat
  BY <1>1, <1>3, SumFacts
<1>6. \A n \in 1..L : d(n) = c(n)
  BY DEF Counted
<1>7. \A n \in 1..M : n > L => d(n) = 0
  BY DEF Counted
<1> HIDE DEF c, d, L, M
<1> DEFINE Same == {n \in Nat : n <= M => g[n] = IF n <= L THEN f[n] ELSE f[L]}
<1>8. 0 \in Same
  BY <1>1, <1>4, <1>5
<1>9. ASSUME NEW n \in Same
      PROVE  n + 1 \in Same
  <2>1. CASE n + 1 <= L
    <3>1. /\ n + 1 \in 0..L /\ n + 1 \in 0..M /\ n + 1 # 0 /\ (n + 1) - 1 = n
          /\ n <= M /\ n <= L /\ n + 1 \in 1..L
      BY <1>1, <2>1
    <3>2. g[n + 1] = g[n] + d(n + 1) /\ f[n + 1] = f[n] + c(n + 1)
      BY <1>4, <1>5, <3>1
    <3>3. QED
      BY <1>6, <2>1, <3>1, <3>2
  <2>2. CASE L < n + 1 /\ n + 1 <= M
    <3>1. /\ n + 1 \in 0..M /\ n + 1 # 0 /\ (n + 1) - 1 = n
          /\ n <= M /\ L <= n /\ n + 1 \in 1..M /\ L \in 0..L
      BY <1>1, <2>2
    <3>2. g[n + 1] = g[n] + d(n + 1) /\ d(n + 1) = 0
      BY <1>5, <1>7, <2>2, <3>1
    <3>3. g[n] = f[L] /\ f[L] \in Nat
      BY <1>1, <1>4, <3>1
    <3>4. QED
      BY <1>1, <2>2, <3>2, <3>3
  <2>3. CASE ~(n + 1 <= M)
    BY <2>3
  <2>4. QED
    BY <1>1, <2>1, <2>2, <2>3
<1>10. Same = Nat
  <2>1. Same \in SUBSET Nat
    OBVIOUS
  <2> HIDE DEF Same
  <2>2. QED
    BY <1>8, <1>9, <2>1, SetInduction
<1>11. g[M] = f[L]
  BY <1>1, <1>10
<1>12. QED
  BY <1>2, <1>3, <1>11 DEF L, M

\* What is counted in two parts is the sum of the parts.
LEMMA QuantityAdds ==
  ASSUME NEW rs \in Seq(Record), NEW S, NEW T, NEW U,
         \A i \in 1..Len(rs) : (i \in U <=> i \in S \/ i \in T) /\ ~(i \in S /\ i \in T)
  PROVE  Quantity(rs, U) = Quantity(rs, S) + Quantity(rs, T)
<1> DEFINE L == Len(rs)
<1>1. L \in Nat
  OBVIOUS
<1>2. PICK f : IsSum(f, rs, S, L) /\ Quantity(rs, S) = f[L]
  BY <1>1, QuantityIsSum
<1>3. PICK g : IsSum(g, rs, T, L) /\ Quantity(rs, T) = g[L]
  BY <1>1, QuantityIsSum
<1>4. PICK h : IsSum(h, rs, U, L) /\ Quantity(rs, U) = h[L]
  BY <1>1, QuantityIsSum
<1> DEFINE c(n) == Counted(rs, S, n)
           d(n) == Counted(rs, T, n)
           e(n) == Counted(rs, U, n)
<1>5. /\ f[0] = 0
      /\ \A n \in 0..L : n # 0 => n - 1 \in 0..L /\ f[n] = f[n - 1] + c(n)
      /\ \A n \in 0..L : f[n] \in Nat
  BY <1>1, <1>2, SumFacts
<1>6. /\ g[0] = 0
      /\ \A n \in 0..L : n # 0 => n - 1 \in 0..L /\ g[n] = g[n - 1] + d(n)
      /\ \A n \in 0..L : g[n] \in Nat
  BY <1>1, <1>3, SumFacts
<1>7. /\ h[0] = 0
      /\ \A n \in 0..L : n # 0 => n - 1 \in 0..L /\ h[n] = h[n - 1] + e(n)
      /\ \A n \in 0..L : h[n] \in Nat
  BY <1>1, <1>4, SumFacts
<1>8. \A n \in 1..L : e(n) = c(n) + d(n) /\ c(n) \in Nat /\ d(n) \in Nat
  <2> TAKE n \in 1..L
  <2>1. c(n) \in Nat /\ d(n) \in Nat /\ e(n) \in Nat
    BY CountedNat
  <2>2. (n \in U <=> n \in S \/ n \in T) /\ ~(n \in S /\ n \in T)
    OBVIOUS
  <2>3. QED
    BY <2>1, <2>2 DEF Counted
<1> HIDE DEF c, d, e, L
<1> DEFINE Adds == {n \in Nat : n <= L => h[n] = f[n] + g[n]}
<1>9. 0 \in Adds
  BY <1>5, <1>6, <1>7
<1>10. ASSUME NEW n \in Adds
       PROVE  n + 1 \in Adds
  <2>1. CASE n + 1 <= L
    <3>1. /\ n + 1 \in 0..L /\ n + 1 \in 1..L /\ n + 1 # 0 /\ (n + 1) - 1 = n
          /\ n <= L /\ n \in 0..L
      BY <1>1, <2>1
    <3>2. /\ f[n + 1] = f[n] + c(n + 1) /\ g[n + 1] = g[n] + d(n + 1)
          /\ h[n + 1] = h[n] + e(n + 1) /\ h[n] = f[n] + g[n]
          /\ f[n] \in Nat /\ g[n] \in Nat
      BY <1>5, <1>6, <1>7, <3>1
    <3>3. QED
      BY <1>8, <3>1, <3>2
  <2>2. CASE ~(n + 1 <= L)
    BY <2>2
  <2>3. QED
    BY <2>1, <2>2
<1>11. Adds = Nat
  <2>1. Adds \in SUBSET Nat
    OBVIOUS
  <2> HIDE DEF Adds
  <2>2. QED
    BY <1>9, <1>10, <2>1, SetInduction
<1>12. h[L] = f[L] + g[L]
  BY <1>1, <1>11
<1>13. QED
  BY <1>2, <1>3, <1>4, <1>12 DEF L

\* What is counted in fewer records is no more.
LEMMA QuantityMonotone ==
  ASSUME NEW rs \in Seq(Record), NEW S, NEW T, S \cap (1..Len(rs)) \subseteq T
  PROVE  Quantity(rs, S) <= Quantity(rs, T)
<1>1. Quantity(rs, T) = Quantity(rs, S) + Quantity(rs, T \ S)
  BY QuantityAdds
<1>2. QED
  BY <1>1, QuantityNat

\* What is counted in two parts that overlap is no more than the sum.
LEMMA QuantityOfBoth ==
  ASSUME NEW rs \in Seq(Record), NEW S, NEW T
  PROVE  Quantity(rs, S \cup T) <= Quantity(rs, S) + Quantity(rs, T)
<1>1. Quantity(rs, S \cup T) = Quantity(rs, S) + Quantity(rs, T \ S)
  BY QuantityAdds
<1>2. Quantity(rs, T \ S) <= Quantity(rs, T)
  BY QuantityMonotone
<1>3. QED
  BY <1>1, <1>2, QuantityNat

LEMMA QuantityOfNone ==
  ASSUME NEW rs \in Seq(Record)
  PROVE  Quantity(rs, {}) = 0
<1>1. Quantity(rs, {}) = Quantity(rs, {}) + Quantity(rs, {})
  BY QuantityAdds
<1>2. QED
  BY <1>1, QuantityNat

-----------------------------------------------------------------------------
(* UsageInv                                                                 *)

\* UsageInv holds at the start, when nothing is used.
LEMMA InitUsage == Init => UsageInv
<1> SUFFICES ASSUME Init PROVE UsageInv
  OBVIOUS
<1>1. 1 \in Months /\ MaxRecords \in Nat
  BY ConstantsAssumption DEF Months
<1>2. Unloaded \in Orgs /\ org \in Orgs
  BY ConstantsAssumption DEF Init, Unloaded
<1>3. <<>> \in Seq(Record) /\ Len(<<>>) = 0
  OBVIOUS
<1>4. TypeOK
  BY <1>1, <1>2, <1>3 DEF Init, TypeOK
<1>5. \A w \in Workers : WorkerInv(w)
  BY <1>1, <1>3 DEF Init, WorkerInv
<1>6. QED
  BY <1>1, <1>2, <1>3, <1>4, <1>5 DEF Init, UsageInv

\* The transaction of w ends; what it has inserted, it has committed or lost.
LEMMA OverKeeps ==
  ASSUME UsageInv, NEW w \in Workers, Over(w), month' \in Months, org' \in Orgs,
         records' \in Seq(Record), Len(records') <= MaxRecords,
         \A u \in Workers \ {w} : Len(records') + Len(added[u]) <= MaxRecords,
         \A i \in DOMAIN records :
           i \in DOMAIN records' /\ records'[i].period = records[i].period
  PROVE  UsageInv'
<1>1. 1 \in Months /\ Unloaded \in Orgs /\ <<>> \in Seq(Record) /\ Len(<<>>) = 0
  BY ConstantsAssumption DEF Months, Unloaded
<1>2. /\ op' \in [Workers -> {"idle", "serving", "report", "reporting", "notify",
                            "notifying"}]
      /\ now' \in [Workers -> Months] /\ seen' \in [Workers -> Orgs]
      /\ added' \in [Workers -> Seq(Record)] /\ batch' \in [Workers -> SUBSET Nat]
      /\ DOMAIN todo' = Workers
  BY <1>1 DEF UsageInv, Over
<1>3. /\ added'[w] = <<>> /\ op'[w] = "idle" /\ batch'[w] = {}
      /\ \A u \in Workers \ {w} :
            /\ added'[u] = added[u] /\ op'[u] = op[u] /\ batch'[u] = batch[u]
            /\ now'[u] = now[u]
      /\ lock' = IF lock = w THEN Nobody ELSE lock
  BY DEF UsageInv, Over
<1>4. TypeOK'
  <2>1. \A u \in Workers : added'[u] \in Seq(Record)
    BY <1>2
  <2>2. \A u \in Workers : lock' # u => added'[u] = <<>>
    BY <1>3 DEF UsageInv, TypeOK
  <2>3. lock' \in Workers \cup {Nobody}
    BY <1>3 DEF UsageInv, TypeOK
  <2>4. QED
    BY <2>1, <2>2, <2>3 DEF TypeOK
<1>5. ASSUME NEW u \in Workers
      PROVE  WorkerInv(u)'
  <2>1. Len(records') \in Nat
    OBVIOUS
  <2>2. CASE u = w
    BY <1>1, <1>3, <2>1, <2>2 DEF WorkerInv
  <2>3. CASE u # w
    <3>1. /\ added'[u] = added[u] /\ op'[u] = op[u] /\ batch'[u] = batch[u]
          /\ now'[u] = now[u] /\ Len(records') + Len(added[u]) <= MaxRecords
      BY <1>3, <2>3
    <3>2. /\ op[u] # "serving" => added[u] = <<>>
          /\ \A i \in DOMAIN added[u] : ~added[u][i].reported
          /\ batch[u] # {} => op[u] = "reporting"
          /\ \A i \in batch[u] : i \in DOMAIN records /\ records[i].period = now[u]
      BY DEF UsageInv, WorkerInv
    <3>3. \A i \in batch[u] : i \in DOMAIN records' /\ records'[i].period = now[u]
      BY <3>2
    <3>4. QED
      BY <3>1, <3>2, <3>3 DEF WorkerInv
  <2>4. QED
    BY <2>2, <2>3
<1>6. QED
  BY <1>2, <1>4, <1>5 DEF UsageInv

\* A step of w that inserts nothing and leaves the lock and the records.
LEMMA QuietKeeps ==
  ASSUME UsageInv, NEW w \in Workers, UNCHANGED <<month, org, records, lock, added>>,
         op' \in [Workers -> {"idle", "serving", "report", "reporting", "notify",
                             "notifying"}],
         now' \in [Workers -> Months], seen' \in [Workers -> Orgs],
         batch' \in [Workers -> SUBSET Nat], DOMAIN todo' = Workers,
         \A u \in Workers \ {w} :
           op'[u] = op[u] /\ now'[u] = now[u] /\ batch'[u] = batch[u],
         op'[w] = "serving" \/ added[w] = <<>>,
         batch'[w] = {} \/ op'[w] = "reporting",
         \A i \in batch'[w] : i \in DOMAIN records /\ records[i].period = now'[w]
  PROVE  UsageInv'
<1>1. TypeOK'
  BY DEF UsageInv, TypeOK
<1>2. ASSUME NEW u \in Workers
      PROVE  WorkerInv(u)'
  <2>1. CASE u = w
    BY <2>1 DEF UsageInv, WorkerInv
  <2>2. CASE u # w
    BY <2>2 DEF UsageInv, WorkerInv
  <2>3. QED
    BY <2>1, <2>2
<1>3. QED
  BY <1>1, <1>2 DEF UsageInv

\* A request under the lock that inserts at most one record.
LEMMA LockedKeeps ==
  ASSUME UsageInv, NEW w \in Workers, LockGranted(w), lock' = w,
         UNCHANGED <<month, org, records, now, seen, batch>>,
         op' = op \/ op' = [op EXCEPT ![w] = "serving"], op[w] \in {"idle", "serving"},
         op'[w] = "serving", DOMAIN todo' = Workers,
         \/ UNCHANGED added
         \/ \E metric \in Metrics, quantity \in Nat :
              Insert(w, metric, quantity) /\ Len(records) + Len(added[w]) < MaxRecords
  PROVE  UsageInv'
<1>1. /\ added \in [Workers -> Seq(Record)] /\ MaxRecords \in Nat /\ month \in Months
      /\ Len(records) \in Nat /\ Len(added[w]) \in Nat
      /\ Len(records) + Len(added[w]) <= MaxRecords
  BY ConstantsAssumption DEF UsageInv, TypeOK, WorkerInv
<1>2. /\ added' \in [Workers -> Seq(Record)]
      /\ \A u \in Workers \ {w} : added'[u] = added[u]
      /\ Len(records) + Len(added'[w]) <= MaxRecords
      /\ \A i \in DOMAIN added'[w] : ~added'[w][i].reported
  <2>9. \A i \in DOMAIN added[w] : ~added[w][i].reported
    BY DEF UsageInv, WorkerInv
  <2>1. CASE UNCHANGED added
    BY <1>1, <2>1, <2>9
  <2>2. CASE \E metric \in Metrics, quantity \in Nat :
               Insert(w, metric, quantity) /\ Len(records) + Len(added[w]) < MaxRecords
    <3>1. PICK metric \in Metrics, quantity \in Nat :
             Insert(w, metric, quantity) /\ Len(records) + Len(added[w]) < MaxRecords
      BY <2>2
    <3> DEFINE new == [metric |-> metric, quantity |-> quantity, period |-> month,
                       reported |-> FALSE]
    <3>2. new \in Record /\ ~new.reported
      BY <1>1 DEF Record
    <3>3. added' = [added EXCEPT ![w] = Append(@, new)]
      BY <3>1 DEF Insert
    <3> HIDE DEF new
    <3> DEFINE longer == Append(added[w], new)
    <3>4. /\ longer \in Seq(Record) /\ Len(longer) = Len(added[w]) + 1
          /\ \A i \in DOMAIN longer : \/ i \in DOMAIN added[w] /\ longer[i] = added[w][i]
                                      \/ longer[i] = new
      BY <1>1, <3>2
    <3>5. /\ added'[w] = longer /\ added' \in [Workers -> Seq(Record)]
          /\ \A u \in Workers \ {w} : added'[u] = added[u]
      BY <1>1, <3>3, <3>4
    <3>6. \A i \in DOMAIN longer : ~longer[i].reported
      BY <3>2, <3>4, <2>9
    <3> HIDE DEF longer
    <3>7. QED
      BY <1>1, <3>1, <3>4, <3>5, <3>6
  <2>3. QED
    BY <2>1, <2>2
<1>3. op' \in [Workers -> {"idle", "serving", "report", "reporting", "notify",
                         "notifying"}]
  BY DEF UsageInv
<1>4. \A u \in Workers \ {w} : added[u] = <<>> /\ op'[u] = op[u]
  <2> TAKE u \in Workers \ {w}
  <2>1. lock # u
    BY ConstantsAssumption DEF LockGranted
  <2>2. added[u] = <<>>
    BY <2>1 DEF UsageInv, TypeOK
  <2>3. op'[u] = op[u]
    BY DEF UsageInv
  <2>4. QED
    BY <2>2, <2>3
<1>5. TypeOK'
  BY <1>2, <1>4 DEF UsageInv, TypeOK
<1>6. ASSUME NEW u \in Workers
      PROVE  WorkerInv(u)'
  <2>1. CASE u = w
    <3>1. batch[w] = {}
      BY DEF UsageInv, WorkerInv
    <3>2. QED
      BY <1>2, <2>1, <3>1 DEF WorkerInv
  <2>2. CASE u # w
    BY <1>2, <1>4, <2>2 DEF UsageInv, WorkerInv
  <2>3. QED
    BY <2>1, <2>2
<1>7. QED
  BY <1>2, <1>3, <1>5, <1>6 DEF UsageInv

\* Under the lock nobody else has inserted anything: what is committed fits.
LEMMA RequestCommitKeeps ==
  ASSUME UsageInv, NEW w \in Workers, RequestCommit(w)
  PROVE  UsageInv'
<1>1. /\ records \in Seq(Record) /\ added[w] \in Seq(Record)
      /\ Len(records) + Len(added[w]) <= MaxRecords /\ MaxRecords \in Nat
      /\ records' = records \o added[w]
  BY ConstantsAssumption DEF UsageInv, TypeOK, WorkerInv, RequestCommit
<1>2. records' \in Seq(Record) /\ Len(records') = Len(records) + Len(added[w])
  BY <1>1
<1>3. \A i \in DOMAIN records : i \in DOMAIN records' /\ records'[i] = records[i]
  BY <1>1
<1>4. ASSUME NEW u \in Workers \ {w}
      PROVE  Len(records') + Len(added[u]) <= MaxRecords
  <2>1. CASE added[w] = <<>>
    <3>1. Len(records') = Len(records)
      BY <1>1, <1>2, <2>1
    <3>2. QED
      BY <3>1 DEF UsageInv, WorkerInv
  <2>2. CASE added[w] # <<>>
    <3>1. added[u] = <<>>
      BY <2>2 DEF UsageInv, TypeOK
    <3>2. QED
      BY <1>1, <1>2, <3>1
  <2>3. QED
    BY <2>1, <2>2
<1>5. month' \in Months /\ org' \in Orgs /\ Over(w)
  BY DEF RequestCommit, UsageInv, TypeOK
<1>6. QED
  BY <1>1, <1>2, <1>3, <1>4, <1>5, OverKeeps

\* Stamping leaves every record as it is but for its stamp.
LEMMA StampedRecords ==
  ASSUME UsageInv, NEW w \in Workers, ReportCommit(w)
  PROVE  /\ records' \in Seq(Record) /\ Len(records') = Len(records)
         /\ \A i \in DOMAIN records :
              /\ i \in DOMAIN records'
              /\ records'[i].metric = records[i].metric
              /\ records'[i].quantity = records[i].quantity
              /\ records'[i].period = records[i].period
              /\ records'[i].reported <=> records[i].reported \/ i \in batch[w]
<1>1. records \in Seq(Record) /\ DOMAIN records = 1..Len(records) /\ Len(records) \in Nat
  BY DEF UsageInv, TypeOK
<1>2. records' = [i \in 1..Len(records) |->
                   [records[i] EXCEPT !.reported = @ \/ i \in batch[w]]]
  BY <1>1 DEF ReportCommit, Stamped
<1>3. ASSUME NEW i \in 1..Len(records)
      PROVE  /\ records'[i] \in Record
             /\ records'[i].metric = records[i].metric
             /\ records'[i].quantity = records[i].quantity
             /\ records'[i].period = records[i].period
             /\ records'[i].reported <=> records[i].reported \/ i \in batch[w]
  <2> DEFINE r == records[i]
             stamp == r.reported \/ i \in batch[w]
             new == records'[i]
  <2>1. r \in Record
    BY <1>1
  <2>2. new = [r EXCEPT !.reported = stamp]
    BY <1>2, <2>1 DEF Record
  <2>3. stamp \in BOOLEAN
    OBVIOUS
  <2>4. \A s \in BOOLEAN : LET n == [r EXCEPT !.reported = s]
                           IN  /\ n \in Record /\ n.metric = r.metric
                               /\ n.quantity = r.quantity /\ n.period = r.period
                               /\ n.reported = s
    BY <2>1 DEF Record
  <2> HIDE DEF stamp, r, new
  <2>5. /\ new \in Record /\ new.metric = r.metric /\ new.quantity = r.quantity
        /\ new.period = r.period /\ new.reported = stamp
    BY <2>2, <2>3, <2>4
  <2>6. QED
    BY <2>5 DEF new, r, stamp
<1>4. records' \in [1..Len(records) -> Record]
  BY <1>2, <1>3
<1>5. /\ records' \in Seq(Record) /\ Len(records') = Len(records)
      /\ DOMAIN records' = 1..Len(records)
  BY <1>1, <1>4
<1>6. QED
  BY <1>1, <1>3, <1>5

\* Stamping moves no record and no period.
LEMMA ReportCommitKeeps ==
  ASSUME UsageInv, NEW w \in Workers, ReportCommit(w)
  PROVE  UsageInv'
<1>1. /\ month' \in Months /\ org' \in Orgs /\ Over(w) /\ Len(records) <= MaxRecords
      /\ \A u \in Workers : Len(records) + Len(added[u]) <= MaxRecords
  BY DEF ReportCommit, UsageInv, TypeOK, WorkerInv
<1>2. QED
  BY <1>1, StampedRecords, OverKeeps

\* A transaction of w that leaves the records and the bill ends.
Ends(w) == NotifyCommit(w) \/ NotifyRaises(w) \/ NoCustomer(w) \/ Fail(w)

\* Every step keeps UsageInv.
LEMMA UsageStep ==
  ASSUME UsageInv, [Next]_vars
  PROVE  UsageInv'
<1>1. CASE NextMonth
  <2>1. month \in Months /\ month' \in Months
    BY <1>1, ConstantsAssumption DEF NextMonth, UsageInv, TypeOK, Months
  <2>2. QED
    BY <1>1, <2>1 DEF NextMonth, txVars, UsageInv, TypeOK, WorkerInv
<1>2. ASSUME Subscribe \/ Unsubscribe \/ \E o \in Orgs : OrgChanges(o)
      PROVE  UsageInv'
  BY <1>2 DEF Subscribe, Unsubscribe, OrgChanges, txVars, UsageInv, TypeOK, WorkerInv
<1>3. ASSUME NEW w \in Workers, NEW u \in Uploads, Receive(w, u)
      PROVE  UsageInv'
  <2>1. org \in Orgs /\ added[w] = <<>> /\ batch[w] = {}
    BY <1>3 DEF Receive, Serving, UsageInv, TypeOK, WorkerInv
  <2>2. QED
    BY <1>3, <2>1, QuietKeeps DEF Receive, UsageInv
<1>4. ASSUME NEW w \in Workers, NEW pages \in Pages, UploadDocument(w, pages)
      PROVE  UsageInv'
  <2>1. pages \in Nat /\ "pages_processed" \in Metrics
    BY ConstantsAssumption DEF Metrics
  <2>2. \/ UNCHANGED added
        \/ \E metric \in Metrics, quantity \in Nat :
              Insert(w, metric, quantity) /\ Len(records) + Len(added[w]) < MaxRecords
    BY <1>4, <2>1 DEF UploadDocument
  <2>3. QED
    BY <1>4, <2>2, LockedKeeps DEF UploadDocument, UsageInv
<1>5. ASSUME NEW w \in Workers, SampleDocument(w)
      PROVE  UsageInv'
  <2>1. op'[w] = "serving" /\ DOMAIN todo' = Workers
    BY <1>5 DEF SampleDocument, UsageInv
  <2>2. QED
    BY <1>5, <2>1, LockedKeeps DEF SampleDocument, Serving
<1>6. ASSUME NEW w \in Workers, Export(w)
      PROVE  UsageInv'
  <2>1. op'[w] = "serving" /\ DOMAIN todo' = Workers
    BY <1>6 DEF Export, UsageInv
  <2>2. \E metric \in Metrics, quantity \in Nat :
              Insert(w, metric, quantity) /\ Len(records) + Len(added[w]) < MaxRecords
    BY <1>6 DEF Export, Metrics
  <2>3. QED
    BY <1>6, <2>1, <2>2, LockedKeeps DEF Export, Serving
<1>7. ASSUME NEW w \in Workers, NEW job \in {"report", "notify"}, JobStart(w, job)
      PROVE  UsageInv'
  <2>1. month \in Months /\ added[w] = <<>> /\ batch[w] = {}
    BY <1>7 DEF JobStart, UsageInv, TypeOK, WorkerInv
  <2>2. QED
    BY <1>7, <2>1, QuietKeeps DEF JobStart, UsageInv
<1>8. ASSUME NEW w \in Workers, ReportRead(w)
      PROVE  UsageInv'
  <2>1. added[w] = <<>> /\ DOMAIN records \subseteq Nat
    BY <1>8 DEF ReportRead, UsageInv, TypeOK, WorkerInv
  <2>2. Unreported(w) \in SUBSET Nat
    BY <2>1 DEF Unreported
  <2>3. /\ batch' \in [Workers -> SUBSET Nat] /\ batch'[w] = Unreported(w)
        /\ op'[w] = "reporting"
    BY <1>8, <2>2 DEF ReportRead, UsageInv
  <2>4. QED
    BY <1>8, <2>1, <2>3, QuietKeeps DEF ReportRead, UsageInv, Unreported
<1>9. ASSUME NEW w \in Workers, NEW m \in Metrics, ReportMetric(w, m)
      PROVE  UsageInv'
  <2>1. added[w] = <<>> /\ op[w] = "reporting"
    BY <1>9 DEF ReportMetric, UsageInv, WorkerInv
  <2>2. \A i \in batch[w] : i \in DOMAIN records /\ records[i].period = now[w]
    BY DEF UsageInv, WorkerInv
  <2>3. QED
    BY <1>9, <2>1, <2>2, QuietKeeps DEF ReportMetric, UsageInv
<1>10. ASSUME NEW w \in Workers, NotifyRead(w)
       PROVE  UsageInv'
  <2>1. org \in Orgs /\ added[w] = <<>> /\ batch[w] = {}
    BY <1>10 DEF NotifyRead, UsageInv, TypeOK, WorkerInv
  <2>2. QED
    BY <1>10, <2>1, QuietKeeps DEF NotifyRead, UsageInv
<1>11. ASSUME NEW w \in Workers, NEW e \in Events, Threshold(w, e)
       PROVE  UsageInv'
  <2>1. added[w] = <<>> /\ batch[w] = {}
    BY <1>11 DEF Threshold, UsageInv, WorkerInv
  <2>2. QED
    BY <1>11, <2>1, QuietKeeps DEF Threshold, UsageInv
<1>12. ASSUME NEW w \in Workers, Ends(w)
       PROVE  UsageInv'
  <2>1. Over(w) /\ UNCHANGED <<month, org, records>>
    BY <1>12 DEF Ends, NotifyCommit, NotifyRaises, NoCustomer, Fail
  <2>2. /\ month \in Months /\ org \in Orgs /\ records \in Seq(Record)
        /\ Len(records) <= MaxRecords
        /\ \A u \in Workers : Len(records) + Len(added[u]) <= MaxRecords
    BY DEF UsageInv, TypeOK, WorkerInv
  <2>3. QED
    BY <2>1, <2>2, OverKeeps
<1>13. CASE UNCHANGED vars
  BY <1>13 DEF vars, txVars, UsageInv, TypeOK, WorkerInv
<1>14. QED
  BY <1>1, <1>2, <1>3, <1>4, <1>5, <1>6, <1>7, <1>8, <1>9, <1>10, <1>11, <1>12, <1>13,
     RequestCommitKeeps, ReportCommitKeeps
  DEF Next, Request, Report, Notify, Ends

LEMMA UsageInvariance == Spec => []UsageInv
BY InitUsage, UsageStep, PTL DEF Spec

\* Types, and the lock: who has inserted records of usage holds the organization's
\* advisory lock from then to the commit (write_audit_event before record_usage),
\* so no two requests have inserted usage at once.
THEOREM UsageTyped == Spec => []TypeOK
<1>1. UsageInv => TypeOK
  BY DEF UsageInv
<1>2. QED
  BY <1>1, UsageInvariance, PTL

-----------------------------------------------------------------------------
(* The bill                                                                 *)

\* At the start nothing is stamped and nothing is billed.
LEMMA InitBilling == Init => BillingInv
<1> SUFFICES ASSUME Init PROVE BillingInv
  OBVIOUS
<1>1. records \in Seq(Record) /\ DOMAIN records = {}
  BY DEF Init
<1>2. /\ billed \in [Metrics -> [Months -> Nat]]
      /\ \A m \in Metrics, p \in Months : billed[m][p] = 0
  BY DEF Init
<1>3. \A m \in Metrics, p \in Months : Called(m, p) = {}
  BY <1>1 DEF Called, OfMetric
<1>4. Quantity(records, {}) = 0
  BY <1>1, QuantityOfNone
<1>5. QED
  BY <1>2, <1>3, <1>4 DEF BillingInv

\* i is stamped, or the provider has been called for it.
Answered(i) ==
  \/ records[i].reported
  \/ \E u \in Workers : i \in batch[u] /\ records[i].metric \notin todo[u]

\* Nothing is called for or stamped in a step that does not change what is billed.
LEMMA BillingKept ==
  ASSUME BillingInv, UNCHANGED billed,
         records \in Seq(Record), records' \in Seq(Record), Len(records) <= Len(records'),
         \A i \in DOMAIN records : /\ records'[i].metric = records[i].metric
                                   /\ records'[i].quantity = records[i].quantity
                                   /\ records'[i].period = records[i].period,
         \A i \in DOMAIN records' : Answered(i)' => i \in DOMAIN records /\ Answered(i)
  PROVE  BillingInv'
<1>1. DOMAIN records = 1..Len(records) /\ DOMAIN records' = 1..Len(records')
  OBVIOUS
<1>2. ASSUME NEW m \in Metrics, NEW p \in Months
      PROVE  billed[m][p] >= Quantity(records', Called(m, p)')
  <2> DEFINE old == Called(m, p)
             new == Called(m, p)'
  <2>1. \A i \in new : i \in DOMAIN records /\ i \in old
    <3> TAKE i \in new
    <3>1. /\ i \in DOMAIN records' /\ records'[i].metric = m /\ records'[i].period = p
          /\ Answered(i)'
      BY DEF Called, OfMetric, Answered
    <3>2. i \in DOMAIN records /\ Answered(i)
      BY <3>1
    <3>3. records[i].metric = m /\ records[i].period = p
      BY <3>1, <3>2
    <3>4. QED
      BY <3>2, <3>3 DEF Called, OfMetric, Answered
  <2>2. billed[m][p] >= Quantity(records, old) /\ billed[m][p] \in Nat
    BY DEF BillingInv
  <2> HIDE DEF old, new
  <2>3. Quantity(records', new) = Quantity(records, new)
    <3>1. \A i \in 1..Len(records') : i \in new <=> i \in new /\ i <= Len(records)
      BY <1>1, <2>1
    <3>2. \A i \in 1..Len(records) : records'[i].quantity = records[i].quantity
      BY <1>1
    <3>3. QED
      BY <3>1, <3>2, SameQuantity
  <2>4. Quantity(records, new) <= Quantity(records, old)
    BY <2>1, QuantityMonotone
  <2>5. Quantity(records, new) \in Nat /\ Quantity(records, old) \in Nat
    BY QuantityNat
  <2>6. billed[m][p] >= Quantity(records', new)
    BY <2>2, <2>3, <2>4, <2>5
  <2>7. QED
    BY <2>6 DEF new
<1>3. QED
  BY <1>2 DEF BillingInv

\* A step that leaves the records and takes nothing off a list of metrics.
LEMMA QuietBilling ==
  ASSUME UsageInv, BillingInv, UNCHANGED <<billed, records>>, NEW w \in Workers,
         \A u \in Workers \ {w} : batch'[u] = batch[u] /\ todo'[u] = todo[u],
         \A i \in batch'[w] : records[i].metric \in todo'[w]
  PROVE  BillingInv'
<1>1. \A i \in DOMAIN records' : Answered(i)' => i \in DOMAIN records /\ Answered(i)
  <2> TAKE i \in DOMAIN records'
  <2>1. CASE records[i].reported
    BY <2>1 DEF Answered
  <2>2. ASSUME NEW u \in Workers, i \in batch'[u], records[i].metric \notin todo'[u]
        PROVE  Answered(i)
    <3>1. u # w
      BY <2>2
    <3>2. i \in batch[u] /\ records[i].metric \notin todo[u]
      BY <2>2, <3>1
    <3>3. QED
      BY <3>2 DEF Answered
  <2>3. QED
    BY <2>1, <2>2 DEF Answered
<1>2. records \in Seq(Record) /\ Len(records) <= Len(records')
  BY DEF UsageInv, TypeOK
<1>3. QED
  BY <1>1, <1>2, BillingKept

\* What a request commits is not stamped.
LEMMA RequestCommitBilling ==
  ASSUME UsageInv, BillingInv, NEW w \in Workers, RequestCommit(w)
  PROVE  BillingInv'
<1>1. /\ records \in Seq(Record) /\ added[w] \in Seq(Record)
      /\ records' = records \o added[w] /\ UNCHANGED billed
      /\ \A i \in DOMAIN added[w] : ~added[w][i].reported
  BY DEF UsageInv, TypeOK, WorkerInv, RequestCommit
<1>2. /\ records' \in Seq(Record) /\ Len(records) <= Len(records')
      /\ \A i \in DOMAIN records : records'[i] = records[i]
      /\ \A i \in DOMAIN records' : i \notin DOMAIN records => ~records'[i].reported
  <2>1. /\ records' \in Seq(Record) /\ Len(records') = Len(records) + Len(added[w])
        /\ \A i \in DOMAIN records : records'[i] = records[i]
    BY <1>1
  <2>2. ASSUME NEW i \in DOMAIN records', i \notin DOMAIN records
        PROVE  ~records'[i].reported
    <3>1. /\ i - Len(records) \in DOMAIN added[w]
          /\ records'[i] = added[w][i - Len(records)]
      BY <1>1, <2>1, <2>2
    <3>2. QED
      BY <1>1, <3>1
  <2>3. QED
    BY <2>1, <2>2
<1>3. /\ batch'[w] = {}
      /\ \A u \in Workers \ {w} : batch'[u] = batch[u] /\ todo'[u] = todo[u]
  BY DEF RequestCommit, Over, UsageInv
<1>4. ASSUME NEW i \in DOMAIN records', Answered(i)'
      PROVE  i \in DOMAIN records /\ Answered(i)
  <2>1. CASE records'[i].reported
    <3>1. i \in DOMAIN records
      BY <1>2, <2>1
    <3>2. records[i].reported
      BY <1>2, <2>1, <3>1
    <3>3. QED
      BY <3>1, <3>2 DEF Answered
  <2>2. ASSUME NEW u \in Workers, i \in batch'[u], records'[i].metric \notin todo'[u]
        PROVE  i \in DOMAIN records /\ Answered(i)
    <3>1. u # w
      BY <1>3, <2>2
    <3>2. i \in batch[u] /\ i \in DOMAIN records
      BY <1>3, <2>2, <3>1 DEF UsageInv, WorkerInv
    <3>3. records[i].metric \notin todo[u]
      BY <1>2, <1>3, <2>2, <3>1, <3>2
    <3>4. QED
      BY <3>2, <3>3 DEF Answered
  <2>3. QED
    BY <1>4, <2>1, <2>2 DEF Answered
<1>5. QED
  BY <1>1, <1>2, <1>4, BillingKept

\* Stamped is only what was in the batch, all of whose metrics were called for.
LEMMA ReportCommitBilling ==
  ASSUME UsageInv, BillingInv, NEW w \in Workers, ReportCommit(w)
  PROVE  BillingInv'
<1>1. /\ records \in Seq(Record) /\ UNCHANGED billed /\ todo[w] = {}
      /\ batch'[w] = {}
      /\ \A u \in Workers \ {w} : batch'[u] = batch[u] /\ todo'[u] = todo[u]
  BY DEF ReportCommit, Over, UsageInv, TypeOK
<1>2. /\ records' \in Seq(Record) /\ Len(records') = Len(records)
      /\ DOMAIN records' = DOMAIN records
      /\ \A i \in DOMAIN records :
           /\ records'[i].metric = records[i].metric
           /\ records'[i].quantity = records[i].quantity
           /\ records'[i].period = records[i].period
           /\ records'[i].reported <=> records[i].reported \/ i \in batch[w]
  BY <1>1, StampedRecords
<1>3. ASSUME NEW i \in DOMAIN records', Answered(i)'
      PROVE  i \in DOMAIN records /\ Answered(i)
  <2>1. CASE records'[i].reported
    BY <1>1, <1>2, <2>1 DEF Answered
  <2>2. ASSUME NEW u \in Workers, i \in batch'[u], records'[i].metric \notin todo'[u]
        PROVE  i \in DOMAIN records /\ Answered(i)
    BY <1>1, <1>2, <2>2 DEF Answered
  <2>3. QED
    BY <1>3, <2>1, <2>2 DEF Answered
<1>4. QED
  BY <1>1, <1>2, <1>3, BillingKept

\* What a call of the provider adds to the bill covers what is called for with it.
LEMMA ReportMetricBilling ==
  ASSUME UsageInv, BillingInv, NEW w \in Workers, NEW m \in Metrics, ReportMetric(w, m)
  PROVE  BillingInv'
<1> DEFINE part == batch[w] \cap OfMetric(records, m)
           q == now[w]
           sum == Quantity(records, part)
<1>1. /\ records \in Seq(Record) /\ UNCHANGED <<records, batch>> /\ q \in Months
      /\ todo' = [todo EXCEPT ![w] = @ \ {m}] /\ w \in DOMAIN todo
      /\ billed \in [Metrics -> [Months -> Nat]]
      /\ billed' = [billed EXCEPT ![m][q] = @ + sum]
  BY DEF UsageInv, TypeOK, BillingInv, ReportMetric
<1>2. sum \in Nat
  BY <1>1, QuantityNat
<1>3. /\ billed' \in [Metrics -> [Months -> Nat]]
      /\ billed'[m][q] = billed[m][q] + sum
      /\ \A n \in Metrics, p \in Months : n # m \/ p # q => billed'[n][p] = billed[n][p]
  <2> HIDE DEF sum, q
  <2>1. QED
    BY <1>1, <1>2
<1>4. \A i \in batch[w] : i \in DOMAIN records /\ records[i].period = q
  BY DEF UsageInv, WorkerInv
<1>5. /\ \A u \in Workers \ {w} : todo'[u] = todo[u]
      /\ \A n : n \notin todo'[w] => n \notin todo[w] \/ n = m
  BY <1>1
<1>6. ASSUME NEW n \in Metrics, NEW p \in Months
      PROVE  billed'[n][p] >= Quantity(records', Called(n, p)')
  <2> DEFINE old == Called(n, p)
             new == Called(n, p)'
  <2>1. \A i \in new : i \in old \/ (i \in part /\ n = m /\ p = q)
    <3> TAKE i \in new
    <3>1. /\ i \in DOMAIN records /\ records[i].metric = n /\ records[i].period = p
          /\ records[i].reported \/ \E u \in Workers : i \in batch[u] /\ n \notin todo'[u]
      BY <1>1 DEF Called, OfMetric
    <3>2. CASE records[i].reported
      BY <3>1, <3>2 DEF Called, OfMetric
    <3>3. ASSUME NEW u \in Workers, i \in batch[u], n \notin todo'[u], n \in todo[u]
          PROVE  i \in part /\ n = m /\ p = q
      <4>1. u = w /\ n = m
        BY <1>5, <3>3
      <4>2. QED
        BY <1>4, <3>1, <3>3, <4>1 DEF OfMetric
    <3>4. ASSUME NEW u \in Workers, i \in batch[u], n \notin todo[u]
          PROVE  i \in old
      BY <3>1, <3>4 DEF Called, OfMetric
    <3>5. QED
      BY <3>1, <3>2, <3>3, <3>4
  <2>2. billed[n][p] >= Quantity(records, old) /\ billed[n][p] \in Nat
    BY DEF BillingInv
  <2>3. Quantity(records, old) \in Nat /\ Quantity(records, new) \in Nat
    BY <1>1, QuantityNat
  <2>4. CASE n = m /\ p = q
    <3>1. new \subseteq old \cup part
      BY <2>1
    <3> HIDE DEF new, old, part
    <3>2. Quantity(records, new) <= Quantity(records, old \cup part)
      BY <1>1, <3>1, QuantityMonotone
    <3>3. Quantity(records, old \cup part) <= Quantity(records, old) + sum
      BY <1>1, QuantityOfBoth
    <3>4. Quantity(records, old \cup part) \in Nat
      BY <1>1, QuantityNat
    <3>5. billed'[n][p] = billed[n][p] + sum
      BY <1>3, <2>4
    <3> HIDE DEF sum
    <3>6. billed'[n][p] >= Quantity(records, new)
      BY <1>2, <2>2, <2>3, <3>2, <3>3, <3>4, <3>5
    <3>7. QED
      BY <1>1, <3>6 DEF new
  <2>5. CASE n # m \/ p # q
    <3>1. new \subseteq old
      BY <2>1, <2>5
    <3> HIDE DEF new, old
    <3>2. Quantity(records, new) <= Quantity(records, old)
      BY <1>1, <3>1, QuantityMonotone
    <3>3. billed'[n][p] = billed[n][p]
      BY <1>3, <2>5
    <3>4. billed'[n][p] >= Quantity(records, new)
      BY <2>2, <2>3, <3>2, <3>3
    <3>5. QED
      BY <1>1, <3>4 DEF new
  <2>6. QED
    BY <2>4, <2>5
<1>7. QED
  BY <1>3, <1>6 DEF BillingInv

\* Every step keeps BillingInv.
LEMMA BillingStep ==
  ASSUME UsageInv, BillingInv, [Next]_vars
  PROVE  BillingInv'
<1>1. CASE \/ NextMonth \/ (\E o \in Orgs : OrgChanges(o)) \/ UNCHANGED vars
           \/ Subscribe \/ Unsubscribe
  <2>1. UNCHANGED <<records, billed, batch, todo>>
    BY <1>1 DEF NextMonth, OrgChanges, Subscribe, Unsubscribe, vars, txVars
  <2>2. QED
    BY <2>1 DEF BillingInv, Called
<1>2. ASSUME NEW w \in Workers, \/ \E u \in Uploads : Receive(w, u)
                                \/ \E pages \in Pages : UploadDocument(w, pages)
                                \/ SampleDocument(w) \/ Export(w) \/ NotifyRead(w)
                                \/ \E job \in {"report", "notify"} : JobStart(w, job)
                                \/ \E e \in Events : Threshold(w, e)
      PROVE  BillingInv'
  <2>1. op[w] # "reporting"
    BY <1>2 DEF Receive, UploadDocument, SampleDocument, Export, NotifyRead, JobStart,
                Threshold, Serving
  <2>2. batch[w] = {}
    BY <2>1 DEF UsageInv, WorkerInv
  <2>3. /\ UNCHANGED <<billed, records, batch>>
        /\ \A u \in Workers \ {w} : todo'[u] = todo[u]
    BY <1>2 DEF Receive, UploadDocument, SampleDocument, Export, NotifyRead, JobStart,
                Threshold, UsageInv
  <2>4. QED
    BY <2>2, <2>3, QuietBilling
<1>3. ASSUME NEW w \in Workers, ReportRead(w)
      PROVE  BillingInv'
  <2>1. /\ UNCHANGED <<billed, records>>
        /\ \A u \in Workers \ {w} : batch'[u] = batch[u] /\ todo'[u] = todo[u]
        /\ batch'[w] = Unreported(w)
        /\ todo'[w] = {records[i].metric : i \in Unreported(w)}
    BY <1>3 DEF ReportRead, UsageInv
  <2>2. QED
    BY <2>1, QuietBilling
<1>4. ASSUME NEW w \in Workers, Ends(w)
      PROVE  BillingInv'
  <2>1. /\ UNCHANGED <<billed, records>> /\ batch'[w] = {}
        /\ \A u \in Workers \ {w} : batch'[u] = batch[u] /\ todo'[u] = todo[u]
    BY <1>4 DEF Ends, NotifyCommit, NotifyRaises, NoCustomer, Fail, Over, UsageInv
  <2>2. QED
    BY <2>1, QuietBilling
<1>5. QED
  BY <1>1, <1>2, <1>3, <1>4, RequestCommitBilling, ReportCommitBilling,
     ReportMetricBilling
  DEF Next, Request, Report, Notify, Ends

\* aggregate_and_report_usage: what is stamped reported_to_billing_at was reported
\* to the provider, to the last page, for any number of overlapping reports (the
\* record may be billed twice, never too little), whatever fails between a call of
\* the provider and the commit, and whatever is recorded meanwhile.
THEOREM StampedWasBilled == Spec => []StampedIsBilled
<1>1. Spec => []BillingInv
  BY InitBilling, UsageInvariance, BillingStep, PTL DEF Spec
<1>2. UsageInv /\ BillingInv => StampedIsBilled
  <2> SUFFICES ASSUME UsageInv, BillingInv, NEW m \in Metrics, NEW p \in Months
               PROVE  billed[m][p] >= Quantity(records, {i \in OfMetric(records, m) :
                                         records[i].period = p /\ records[i].reported})
    BY DEF StampedIsBilled
  <2> DEFINE stamped == {i \in OfMetric(records, m) :
                           records[i].period = p /\ records[i].reported}
  <2>1. stamped \subseteq Called(m, p)
    BY DEF Called
  <2> HIDE DEF stamped
  <2>2. records \in Seq(Record)
    BY DEF UsageInv, TypeOK
  <2>3. Quantity(records, stamped) <= Quantity(records, Called(m, p))
    BY <2>1, <2>2, QuantityMonotone
  <2>4. billed[m][p] >= Quantity(records, Called(m, p)) /\ billed[m][p] \in Nat
    BY DEF BillingInv
  <2>5. billed[m][p] >= Quantity(records, stamped)
    BY <2>2, <2>3, <2>4, QuantityNat
  <2>6. QED
    BY <2>5 DEF stamped
<1>3. QED
  BY <1>1, <1>2, UsageInvariance, PTL

-----------------------------------------------------------------------------
(* The pilot's cap                                                          *)

\* The records of documents that w has inserted.
Documents(w) == OfMetric(added[w], "pages_processed")

\* What the last document that w has uploaded found used.
UsedBefore(w) ==
  Quantity(records, OfMetric(records, "pages_processed"))
    + Quantity(added[w], Documents(w) \ {Max(Documents(w))})

CapKept(w) ==
  seen[w].plan = "pilot" /\ Documents(w) # {} => UsedBefore(w) < Allowance(seen[w])

\* CapInv, worker by worker.
LEMMA CapOfEach == CapInv <=> \A w \in Workers : CapKept(w)
BY DEF CapInv, CapKept, Documents, UsedBefore

\* What a request knows and has inserted stays as it is, and so do the pages of
\* the committed records.
LEMMA CapUnmoved ==
  ASSUME NEW w \in Workers, CapKept(w), added'[w] = added[w], seen'[w] = seen[w],
         Quantity(records, OfMetric(records, "pages_processed"))' =
           Quantity(records, OfMetric(records, "pages_processed"))
  PROVE  CapKept(w)'
BY DEF CapKept, Documents, UsedBefore, Allowance

\* What Append does to a sequence of records.
LEMMA Longer ==
  ASSUME NEW s \in Seq(Record), NEW r \in Record
  PROVE  LET t == Append(s, r)
         IN  /\ t \in Seq(Record) /\ Len(s) \in Nat /\ Len(t) = Len(s) + 1
             /\ t[Len(t)] = r
             /\ \A i \in 1..Len(s) : t[i] = s[i]
             /\ DOMAIN s = 1..Len(s) /\ DOMAIN t = 1..Len(t)
OBVIOUS

\* What is inserted last counts for nothing before it.
LEMMA BeforeTheLast ==
  ASSUME NEW s \in Seq(Record), NEW r \in Record, r.metric = "pages_processed"
  PROVE  LET t == Append(s, r)
             more == OfMetric(t, "pages_processed")
         IN  /\ more # {}
             /\ Quantity(t, more \ {Max(more)}) =
                  Quantity(s, OfMetric(s, "pages_processed"))
<1> DEFINE t == Append(s, r)
           before == OfMetric(s, "pages_processed")
           more == OfMetric(t, "pages_processed")
           last == Len(t)
<1>1. /\ t \in Seq(Record) /\ Len(s) \in Nat /\ last = Len(s) + 1 /\ t[last] = r
      /\ \A i \in 1..Len(s) : t[i] = s[i]
      /\ DOMAIN s = 1..Len(s) /\ DOMAIN t = 1..Len(t)
  BY Longer
<1> HIDE DEF t
<1>2. /\ last \in more
      /\ \A i \in more : i \in 1..last
      /\ \A i \in 1..Len(s) : i \in more <=> i \in before
      /\ \A i \in before : i \in 1..Len(s)
  BY <1>1 DEF OfMetric
<1> HIDE DEF more, before
<1>3. Max(more) = last
  <2>1. \A i \in more : last >= i
    BY <1>1, <1>2
  <2>2. \A x \in more : (\A i \in more : x >= i) => x = last
    <3> SUFFICES ASSUME NEW x \in more, \A i \in more : x >= i
                 PROVE  x = last
      OBVIOUS
    <3>1. x >= last /\ x \in 1..last
      BY <1>2
    <3>2. QED
      BY <1>1, <3>1
  <2>3. QED
    BY <1>2, <2>1, <2>2 DEF Max
<1>4. \A i \in 1..Len(t) : i \in more \ {last} <=> i \in before /\ i <= Len(s)
  BY <1>1, <1>2
<1>5. Quantity(t, more \ {last}) = Quantity(s, before)
  <2>1. \A i \in 1..Len(s) : t[i].quantity = s[i].quantity
    BY <1>1
  <2>2. Len(s) <= Len(t)
    BY <1>1
  <2>3. QED
    BY <1>1, <1>4, <2>1, <2>2, SameQuantity
<1>6. QED
  BY <1>2, <1>3, <1>5 DEF t, more, before

\* An export counts for no pages.
LEMMA BesideTheExport ==
  ASSUME NEW s \in Seq(Record), NEW r \in Record, r.metric # "pages_processed"
  PROVE  LET t == Append(s, r)
             more == OfMetric(s, "pages_processed")
         IN  /\ OfMetric(t, "pages_processed") = more
             /\ \A S \in SUBSET more : Quantity(t, S) = Quantity(s, S)
<1> DEFINE t == Append(s, r)
           more == OfMetric(s, "pages_processed")
<1>1. /\ t \in Seq(Record) /\ Len(s) \in Nat /\ Len(t) = Len(s) + 1 /\ t[Len(t)] = r
      /\ \A i \in 1..Len(s) : t[i] = s[i]
      /\ DOMAIN s = 1..Len(s) /\ DOMAIN t = 1..Len(t)
  BY Longer
<1> HIDE DEF t
<1>2. OfMetric(t, "pages_processed") = more /\ more \subseteq 1..Len(s)
  BY <1>1 DEF OfMetric
<1> HIDE DEF more
<1>3. ASSUME NEW S \in SUBSET more
      PROVE  Quantity(t, S) = Quantity(s, S)
  <2>1. /\ Len(s) <= Len(t)
        /\ \A i \in 1..Len(s) : t[i].quantity = s[i].quantity
        /\ \A i \in 1..Len(t) : i \in S <=> i \in S /\ i <= Len(s)
    BY <1>1, <1>2
  <2>2. QED
    BY <1>1, <2>1, SameQuantity
<1>4. QED
  BY <1>2, <1>3 DEF t, more

\* The next document of an upload is created when the cap is not reached.
LEMMA UploadKeepsCap ==
  ASSUME UsageInv, CapInv, NEW w \in Workers, NEW pages \in Pages,
         UploadDocument(w, pages), ~UNCHANGED added
  PROVE  CapKept(w)'
<1> DEFINE r == [metric |-> "pages_processed", quantity |-> pages, period |-> month,
                 reported |-> FALSE]
           used == Quantity(records, OfMetric(records, "pages_processed"))
           new == Quantity(added[w], Documents(w))
<1>1. /\ added[w] \in Seq(Record) /\ added'[w] = Append(added[w], r)
      /\ UNCHANGED <<records, seen>> /\ ~CapReached(w)
      /\ records \in Seq(Record)
  BY DEF UploadDocument, Insert, UsageInv, TypeOK
<1>2. r \in Record /\ r.metric = "pages_processed"
  BY ConstantsAssumption DEF Record, Metrics, UsageInv, TypeOK
<1> HIDE DEF r
<1>3. /\ Documents(w)' # {}
      /\ Quantity(added'[w], Documents(w)' \ {Max(Documents(w)')}) = new
  BY <1>1, <1>2, BeforeTheLast DEF Documents
<1>4. UsedBefore(w)' = used + new
  BY <1>1, <1>3 DEF UsedBefore
<1>5. seen[w].plan = "pilot" => used + new < Allowance(seen[w])
  <2>1. used \in Nat /\ new \in Nat
    BY <1>1, QuantityNat
  <2>2. seen[w].plan = "pilot" => Allowance(seen[w]) \in Nat
    <3>1. seen[w] \in Orgs
      BY DEF UsageInv
    <3>2. seen[w].override \in Nat \cup {None}
      BY <3>1, ConstantsAssumption
    <3>3. QED
      BY <3>2, ConstantsAssumption DEF Allowance
  <2>3. seen[w].plan = "pilot" => ~(used + new >= Allowance(seen[w]))
    BY <1>1 DEF CapReached, Documents
  <2> HIDE DEF used, new
  <2>4. QED
    BY <2>1, <2>2, <2>3
<1> HIDE DEF used, new
<1>6. UNCHANGED Allowance(seen[w]) /\ UNCHANGED seen[w].plan
  BY <1>1 DEF Allowance
<1>7. QED
  BY <1>4, <1>5, <1>6 DEF CapKept

\* An export leaves the documents of its request and their pages as they are.
LEMMA ExportKeepsCap ==
  ASSUME UsageInv, CapInv, NEW w \in Workers, Export(w)
  PROVE  CapKept(w)'
<1> DEFINE r == [metric |-> "exports", quantity |-> 1, period |-> month,
                 reported |-> FALSE]
           before == Documents(w) \ {Max(Documents(w))}
<1>1. /\ added[w] \in Seq(Record) /\ added'[w] = Append(added[w], r)
      /\ UNCHANGED <<records, seen>>
  BY DEF Export, Insert, UsageInv
<1>2. r \in Record /\ r.metric # "pages_processed"
  BY DEF Record, Metrics, UsageInv, TypeOK
<1> HIDE DEF r
<1>3. /\ Documents(w)' = Documents(w)
      /\ \A S \in SUBSET Documents(w) : Quantity(added'[w], S) = Quantity(added[w], S)
  BY <1>1, <1>2, BesideTheExport DEF Documents
<1>4. Quantity(added'[w], before) = Quantity(added[w], before)
  BY <1>3
<1>5. UNCHANGED UsedBefore(w)
  BY <1>1, <1>3, <1>4 DEF UsedBefore
<1>6. UNCHANGED Allowance(seen[w]) /\ UNCHANGED seen[w].plan
  BY <1>1 DEF Allowance
<1>7. CapKept(w)
  BY CapOfEach
<1>8. QED
  BY <1>3, <1>5, <1>6, <1>7 DEF CapKept

\* The pages of the records that w commits or stamps.
LEMMA CommitKeepsCap ==
  ASSUME UsageInv, CapInv, NEW w \in Workers, RequestCommit(w) \/ ReportCommit(w)
  PROVE  CapInv'
<1>1. /\ added'[w] = <<>>
      /\ \A u \in Workers \ {w} : added'[u] = added[u] /\ seen'[u] = seen[u]
  BY DEF RequestCommit, ReportCommit, Over, UsageInv
<1>2. ASSUME NEW u \in Workers
      PROVE  CapKept(u)'
  <2>1. CASE added'[u] = <<>>
    BY <2>1 DEF CapKept, Documents, OfMetric
  <2>2. CASE added'[u] # <<>>
    <3>1. u # w /\ added[u] # <<>>
      BY <1>1, <2>2
    <3>2. added[w] = <<>>
      BY <3>1 DEF UsageInv, TypeOK
    <3>3. Quantity(records, OfMetric(records, "pages_processed"))' =
            Quantity(records, OfMetric(records, "pages_processed"))
      <4>1. CASE RequestCommit(w)
        <5>1. records' = records
          BY <3>2, <4>1 DEF RequestCommit, UsageInv, TypeOK
        <5>2. QED
          BY <5>1
      <4>2. CASE ReportCommit(w)
        <5> DEFINE S == OfMetric(records, "pages_processed")
                   T == OfMetric(records', "pages_processed")
        <5>1. /\ records \in Seq(Record) /\ records' \in Seq(Record)
              /\ Len(records') = Len(records)
              /\ \A i \in DOMAIN records :
                   /\ records'[i].metric = records[i].metric
                   /\ records'[i].quantity = records[i].quantity
          BY <4>2, StampedRecords DEF UsageInv, TypeOK
        <5>2. /\ DOMAIN records = 1..Len(records) /\ DOMAIN records' = 1..Len(records)
              /\ Len(records) \in Nat
          BY <5>1
        <5>3. \A i \in 1..Len(records') : i \in T <=> i \in S /\ i <= Len(records)
          BY <5>1, <5>2 DEF OfMetric
        <5> HIDE DEF S, T
        <5>4. Quantity(records', T) = Quantity(records, S)
          BY <5>1, <5>2, <5>3, SameQuantity
        <5>5. QED
          BY <5>4 DEF S, T
      <4>3. QED
        BY <4>1, <4>2
    <3>4. CapKept(u)
      BY CapOfEach
    <3>5. QED
      BY <1>1, <3>1, <3>3, <3>4, CapUnmoved
  <2>3. QED
    BY <2>1, <2>2
<1>3. QED
  BY <1>2 DEF CapInv, CapKept, Documents, UsedBefore

\* A step of w that leaves the records: either w has inserted nothing, or what it
\* has inserted and what it has seen are kept.
LEMMA OthersKeepCap ==
  ASSUME CapInv, UNCHANGED records, NEW w \in Workers,
         \A u \in Workers \ {w} : added'[u] = added[u] /\ seen'[u] = seen[u],
         added'[w] = <<>> \/ UNCHANGED <<added, seen>> \/ CapKept(w)'
  PROVE  CapInv'
<1>1. ASSUME NEW u \in Workers
      PROVE  CapKept(u)'
  <2>1. CASE added'[u] = <<>>
    BY <2>1 DEF CapKept, Documents, OfMetric
  <2>2. CASE added'[u] = added[u] /\ seen'[u] = seen[u]
    <3>1. CapKept(u)
      BY CapOfEach
    <3>2. QED
      BY <2>2, <3>1, CapUnmoved
  <2>3. QED
    BY <2>1, <2>2
<1>2. QED
  BY <1>1 DEF CapInv, CapKept, Documents, UsedBefore

\* Every step keeps CapInv.
LEMMA CapStep ==
  ASSUME UsageInv, CapInv, [Next]_vars
  PROVE  CapInv'
<1>1. CASE \/ NextMonth \/ (\E o \in Orgs : OrgChanges(o)) \/ UNCHANGED vars
           \/ Subscribe \/ Unsubscribe
  <2>1. UNCHANGED <<records, added, seen>>
    BY <1>1 DEF NextMonth, OrgChanges, Subscribe, Unsubscribe, vars, txVars
  <2>2. QED
    BY <2>1 DEF CapInv, Allowance
<1>2. ASSUME NEW w \in Workers, \/ \E u \in Uploads : Receive(w, u)
                                \/ NotifyRead(w) \/ Ends(w)
      PROVE  CapInv'
  <2>1. /\ UNCHANGED records
        /\ \A u \in Workers \ {w} : added'[u] = added[u] /\ seen'[u] = seen[u]
    BY <1>2 DEF Receive, NotifyRead, Ends, NotifyCommit, NotifyRaises, NoCustomer, Fail,
                Over, UsageInv
  <2>2. added'[w] = <<>>
    BY <1>2 DEF Receive, NotifyRead, Ends, NotifyCommit, NotifyRaises, NoCustomer, Fail,
                Over, Serving, UsageInv, WorkerInv
  <2>3. QED
    BY <2>1, <2>2, OthersKeepCap
<1>3. ASSUME NEW w \in Workers, \/ SampleDocument(w) \/ ReportRead(w)
                                \/ \E job \in {"report", "notify"} : JobStart(w, job)
                                \/ \E e \in Events : Threshold(w, e)
                                \/ \E m \in Metrics : ReportMetric(w, m)
      PROVE  CapInv'
  <2>1. UNCHANGED <<records, added, seen>>
    BY <1>3 DEF SampleDocument, JobStart, Threshold, ReportRead, ReportMetric
  <2>2. QED
    BY <2>1, OthersKeepCap
<1>4. ASSUME NEW w \in Workers, NEW pages \in Pages, UploadDocument(w, pages)
      PROVE  CapInv'
  <2>1. UNCHANGED <<records, seen>> /\ \A u \in Workers \ {w} : added'[u] = added[u]
    BY <1>4 DEF UploadDocument, Insert, UsageInv
  <2>2. UNCHANGED added \/ CapKept(w)'
    BY <1>4, UploadKeepsCap
  <2>3. QED
    BY <2>1, <2>2, OthersKeepCap
<1>5. ASSUME NEW w \in Workers, Export(w)
      PROVE  CapInv'
  <2>1. UNCHANGED <<records, seen>> /\ \A u \in Workers \ {w} : added'[u] = added[u]
    BY <1>5 DEF Export, Insert, UsageInv
  <2>2. CapKept(w)'
    BY <1>5, ExportKeepsCap
  <2>3. QED
    BY <2>1, <2>2, OthersKeepCap
<1>6. QED
  BY <1>1, <1>2, <1>3, <1>4, <1>5, CommitKeepsCap
  DEF Next, Request, Report, Notify, Ends

\* check_pilot_page_cap, "blocks the NEXT document once the org is already at/over
\* cap": an upload that commits the pages of several documents found the cap not
\* reached before the last of them, with what every other request had committed by
\* then: nobody commits pages while it holds the advisory lock.
THEOREM PilotStops == Spec => PilotStopsAtCap
<1>1. Init => CapInv
  BY DEF Init, CapInv, OfMetric
<1>2. Spec => []CapInv
  BY <1>1, UsageInvariance, CapStep, PTL DEF Spec
<1>3. CapInv => [\A w \in Workers :
         LET more == OfMetric(added[w], "pages_processed")
         IN  (RequestCommit(w) /\ seen[w].plan = "pilot" /\ more # {}) =>
               Quantity(records, OfMetric(records, "pages_processed"))
                 + Quantity(added[w], more \ {Max(more)}) < Allowance(seen[w])]_vars
  BY DEF CapInv
<1>4. QED
  BY <1>2, <1>3, PTL DEF PilotStopsAtCap

=============================================================================
