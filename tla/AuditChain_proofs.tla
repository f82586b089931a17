-------------------------- MODULE AuditChain_proofs --------------------------
(***************************************************************************)
(* Theorems about AuditChain for any number of organizations, writers,     *)
(* processes and ids.  The lemma Extend is the heart: chaining a row to    *)
(* the head of a set of rows keeps what a chain promises.  TxStep settles  *)
(* the steps that change one transaction, CommitStep the commit.           *)
(***************************************************************************)
EXTENDS AuditChain, TLAPS

\* ChainInv without the clock's part, and that part.
Shape(S) ==
    /\ Closed(S)
    /\ InOrder(S) => Verifies(S)
    /\ OneHost(S) => InOrder(S)
Bounded(S, last) == \A r \in S : r.id <= last[r.host]

\* A row chained to the greatest id of S, with an id above those its own host
\* has drawn, extends the chain.
LEMMA Extend ==
  ASSUME NEW S \in SUBSET Event, NEW e \in Event, Shape(S), IsHead(e.prev, S),
         \A r \in S : r.host = e.host => r.id < e.id
  PROVE  Shape(S \cup {e})
<1> DEFINE T == S \cup {e}
<1>1. Closed(T)
  BY DEF Shape, Closed, IsHead, Ids
<1>2. OneHost(T) => InOrder(T)
  <2> SUFFICES ASSUME OneHost(T) PROVE InOrder(T)
    OBVIOUS
  <2>1. InOrder(S)
    BY DEF Shape, OneHost
  <2>2. e.prev < e.id
    <3>1. CASE S = {}
      BY <3>1 DEF IsHead, Event
    <3>2. CASE S # {}
      <4>1. PICK r \in S : r.id = e.prev
        BY <3>2 DEF IsHead, Ids
      <4>2. r.host = e.host
        BY DEF OneHost
      <4>3. QED
        BY <4>1, <4>2
    <3>3. QED
      BY <3>1, <3>2
  <2>3. QED
    BY <2>1, <2>2 DEF InOrder
<1>3. InOrder(T) => Verifies(T)
  <2> SUFFICES ASSUME InOrder(T), NEW r \in T PROVE IsHead(r.prev, Below(r, T))
    BY DEF Verifies
  <2>1. InOrder(S) /\ Verifies(S) /\ e.prev < e.id
    BY DEF InOrder, Shape
  <2>2. \A s \in S : s.id <= e.prev /\ s.id < e.id
    <3>1. \A s \in S : s.id <= e.prev
      BY DEF IsHead
    <3>2. QED
      BY <2>1, <3>1 DEF Event
  <2>3. CASE r = e
    <3>1. Below(r, T) = S
      BY <2>2, <2>3 DEF Below, Event
    <3>2. QED
      BY <2>3, <3>1
  <2>4. CASE r \in S
    <3>1. Below(r, T) = Below(r, S)
      BY <2>2, <2>4 DEF Below, Event
    <3>2. QED
      BY <2>1, <2>4, <3>1 DEF Verifies
  <2>5. QED
    BY <2>3, <2>4
<1>4. QED
  BY <1>1, <1>2, <1>3 DEF Shape

\* Verification implies that ids ascend along the chain.
LEMMA VerifiedInOrder ==
  ASSUME NEW S \in SUBSET Event, Verifies(S)
  PROVE  InOrder(S)
<1> SUFFICES ASSUME NEW r \in S PROVE r.prev < r.id
  BY DEF InOrder
<1>1. IsHead(r.prev, Below(r, S))
  BY DEF Verifies
<1>2. CASE Below(r, S) = {}
  BY <1>1, <1>2 DEF IsHead, Event
<1>3. CASE Below(r, S) # {}
  <2>1. PICK s \in Below(r, S) : s.id = r.prev
    BY <1>1, <1>3 DEF IsHead, Ids
  <2>2. QED
    BY <2>1 DEF Below
<1>4. QED
  BY <1>2, <1>3

-----------------------------------------------------------------------------

\* The facts about one writer that IInv gives, in the form the steps use.
LEMMA WriterFacts ==
  ASSUME IInv, NEW w \in Writers
  PROVE  /\ tx[w].own \in SUBSET Event
         /\ tx[w].stage \in {"idle", "open"} \cup Holding
         /\ tx[w].head \in Nat
         /\ tx[w].stage # "idle" => tx[w].org \in Orgs /\ tx[w].host \in Hosts
         /\ ~Holds(w) => tx[w].own = {}
         /\ \A r \in tx[w].own : r.org = tx[w].org /\ r.host = tx[w].host
         /\ Holds(w) => Shape(Visible(w)) /\ Bounded(Visible(w), lastId)
         /\ \A v \in Writers \ {w} : Holds(v) /\ Holds(w) => tx[v].org # tx[w].org
<1>1. tx[w] \in Transaction
  BY DEF IInv, TypeOK
<1>2. /\ tx[w].own \in SUBSET Event
      /\ tx[w].stage \in {"idle", "open"} \cup Holding
      /\ tx[w].head \in Nat
      /\ tx[w].stage # "idle" => tx[w].org \in Orgs /\ tx[w].host \in Hosts
  <2>1. CASE tx[w] = Idle
    BY <2>1 DEF Idle
  <2>2. CASE tx[w] # Idle
    BY <1>1, <2>2 DEF Transaction
  <2>3. QED
    BY <2>1, <2>2
<1>3. QED
  BY <1>2 DEF IInv, LockInv, ChainInv, Shape, Bounded

\* A step that changes the transaction of w to t, and perhaps draws an id,
\* preserves the invariant when t satisfies it.
LEMMA TxStep ==
  ASSUME IInv, NEW w \in Writers, NEW t \in Transaction,
         tx' = [tx EXCEPT ![w] = t], events' = events,
         clock' = clock, lastId' \in [Hosts -> Nat],
         \A h \in Hosts : lastId[h] <= lastId'[h],
         t.own # {} => t.stage \in Holding,
         \A r \in t.own : r.org = t.org /\ r.host = t.host,
         t.stage = "read" => IsHead(t.head, Rows(t.org) \cup t.own),
         t.stage \in Holding =>
            /\ \A v \in Writers \ {w} : Holds(v) => tx[v].org # t.org
            /\ Shape(Rows(t.org) \cup t.own)
            /\ Bounded(Rows(t.org) \cup t.own, lastId')
  PROVE  IInv'
<1>1. TypeOK'
  BY DEF IInv, TypeOK
<1>2. \A org : Rows(org)' = Rows(org)
  BY DEF Rows
<1>3. tx'[w] = t /\ \A v \in Writers \ {w} : tx'[v] = tx[v]
  BY DEF IInv, TypeOK
<1>4. /\ Visible(w)' = Rows(t.org) \cup t.own
      /\ \A v \in Writers \ {w} : Visible(v)' = Visible(v) /\ (Holds(v)' <=> Holds(v))
      /\ Holds(w)' <=> t.stage \in Holding
  BY <1>2, <1>3 DEF Visible, Holds
<1>5. LockInv'
  <2>1. ASSUME NEW v \in Writers
        PROVE  /\ tx'[v].own # {} => Holds(v)'
               /\ \A r \in tx'[v].own : r.org = tx'[v].org /\ r.host = tx'[v].host
               /\ tx'[v].stage = "read" => IsHead(tx'[v].head, Visible(v)')
    <3>1. CASE v = w
      BY <1>3, <1>4, <3>1
    <3>2. CASE v # w
      BY <1>3, <1>4, <3>2 DEF IInv, LockInv
    <3>3. QED
      BY <3>1, <3>2
  <2>2. ASSUME NEW u \in Writers, NEW v \in Writers \ {u}, Holds(u)', Holds(v)'
        PROVE  tx'[v].org # tx'[u].org
    BY <1>3, <1>4, <2>2, WriterFacts
  <2>3. QED
    BY <2>1, <2>2 DEF LockInv
<1>6. ASSUME NEW S \in SUBSET Event, Bounded(S, lastId) PROVE Bounded(S, lastId')
  BY <1>6 DEF Bounded, Event, IInv, TypeOK
<1>7. ASSUME NEW org \in Orgs PROVE ChainInv(Rows(org))'
  <2>1. Rows(org) \in SUBSET Event /\ Shape(Rows(org)) /\ Bounded(Rows(org), lastId)
    BY DEF IInv, TypeOK, Rows, ChainInv, Shape, Bounded
  <2>2. Shape(Rows(org)) /\ Bounded(Rows(org), lastId')
    BY <1>6, <2>1
  <2>3. QED
    BY <1>2, <2>2 DEF ChainInv, Shape, Bounded
<1>8. ASSUME NEW v \in Writers, Holds(v)' PROVE ChainInv(Visible(v))'
  <2>1. CASE v = w
    <3>1. Shape(Rows(t.org) \cup t.own) /\ Bounded(Rows(t.org) \cup t.own, lastId')
      BY <1>4, <1>8, <2>1
    <3>2. QED
      BY <1>4, <2>1, <3>1 DEF ChainInv, Shape, Bounded
  <2>2. CASE v # w
    <3>1. Shape(Visible(v)) /\ Bounded(Visible(v), lastId)
      BY <1>4, <1>8, <2>2, WriterFacts
    <3>2. Visible(v) \in SUBSET Event
      BY WriterFacts DEF Visible, Rows, IInv, TypeOK
    <3>3. Bounded(Visible(v), lastId')
      BY <1>6, <3>1, <3>2
    <3>4. QED
      BY <1>4, <2>2, <3>1, <3>3 DEF ChainInv, Shape, Bounded
  <2>3. QED
    BY <2>1, <2>2
<1>9. QED
  BY <1>1, <1>5, <1>7, <1>8 DEF IInv

\* The commit publishes the rows of the one transaction that may extend its
\* organization's chain.
LEMMA CommitStep ==
  ASSUME IInv, NEW w \in Writers, Commit(w)
  PROVE  IInv'
<1>1. tx[w].stage = "written" /\ Holds(w)
  BY DEF Commit, Holds, Holding
<1>2. /\ tx[w].own \in SUBSET Event
      /\ \A r \in tx[w].own : r.org = tx[w].org
      /\ Shape(Visible(w)) /\ Bounded(Visible(w), lastId)
      /\ \A v \in Writers \ {w} : Holds(v) => tx[v].org # tx[w].org
  BY <1>1, WriterFacts
<1>3. /\ tx'[w] = Idle /\ \A v \in Writers \ {w} : tx'[v] = tx[v]
      /\ lastId' = lastId
  BY DEF Commit, IInv, TypeOK
<1>4. TypeOK'
  BY <1>2 DEF Commit, IInv, TypeOK, Transaction
<1>5. \A org : Rows(org)' = IF org = tx[w].org THEN Visible(w) ELSE Rows(org)
  <2>1. events' = events \cup tx[w].own
    BY DEF Commit
  <2>2. QED
    BY <1>2, <2>1 DEF Rows, Visible
<1>6. /\ ~Holds(w)'
      /\ \A v \in Writers \ {w} : Holds(v)' <=> Holds(v)
      /\ \A v \in Writers \ {w} : Holds(v) => Visible(v)' = Visible(v)
  BY <1>2, <1>3, <1>5 DEF Holds, Holding, Idle, Visible
<1>7. LockInv'
  BY <1>3, <1>6 DEF IInv, LockInv, Idle, Holds, Holding
<1>8. ASSUME NEW org \in Orgs PROVE ChainInv(Rows(org))'
  <2>1. CASE org = tx[w].org
    <3>1. Shape(Rows(org)') /\ Bounded(Rows(org)', lastId')
      BY <1>2, <1>3, <1>5, <2>1
    <3>2. QED
      BY <3>1 DEF ChainInv, Shape, Bounded
  <2>2. CASE org # tx[w].org
    BY <1>3, <1>5, <2>2 DEF IInv, ChainInv
  <2>3. QED
    BY <2>1, <2>2
<1>9. ASSUME NEW v \in Writers, Holds(v)' PROVE ChainInv(Visible(v))'
  <2>1. v # w /\ Holds(v) /\ Visible(v)' = Visible(v)
    BY <1>6, <1>9
  <2>2. QED
    BY <1>3, <2>1 DEF IInv, ChainInv
<1>10. QED
  BY <1>4, <1>7, <1>8, <1>9 DEF IInv

\* A new row is chained to the head of what its transaction sees.
LEMMA InsertStep ==
  ASSUME IInv, NEW w \in Writers, Insert(w)
  PROVE  IInv'
<1> DEFINE S == Visible(w)
           h == tx[w].host
<1>1. PICK n \in NewIds(h) :
        /\ lastId' = [lastId EXCEPT ![h] = n]
        /\ tx' = [tx EXCEPT ![w].stage = "written",
                            ![w].own = @ \cup {[org |-> tx[w].org, id |-> n,
                                                prev |-> tx[w].head, host |-> h]}]
  BY DEF Insert
<1> DEFINE e == [org |-> tx[w].org, id |-> n, prev |-> tx[w].head, host |-> h]
           t == [tx[w] EXCEPT !.stage = "written", !.own = @ \cup {e}]
<1>2. tx[w].stage = "read" /\ Holds(w)
  BY DEF Insert, Holds, Holding
<1>3. tx[w] \in Transaction /\ tx[w] # Idle /\ h \in Hosts /\ tx[w].org \in Orgs
  BY <1>2, WriterFacts DEF IInv, TypeOK, Idle
<1>4. n \in Nat \ {0} /\ lastId[h] \in Nat /\ n > lastId[h]
  <2>1. clock[h] \in Nat \ {0} /\ lastId[h] \in Nat /\ IdsPerMs \in Nat \ {0}
    BY <1>3, ConstantsAssumption DEF IInv, TypeOK
  <2>2. n \in ThisMs(h) /\ n > lastId[h]
    BY DEF NewIds
  <2>3. ASSUME NEW a \in Int, NEW b \in Int, n \in a..b PROVE n \in Int
    BY <2>3
  <2>4. (clock[h] - 1) * IdsPerMs + 1 \in Int /\ clock[h] * IdsPerMs \in Int
    BY <2>1
  <2>5. n \in Int
    BY <2>2, <2>3, <2>4 DEF ThisMs
  <2>6. QED
    BY <2>1, <2>2, <2>5
<1>5. e \in Event /\ tx[w].head \in Nat
  BY <1>3, <1>4, WriterFacts DEF Event
<1>6. t \in Transaction /\ tx' = [tx EXCEPT ![w] = t]
  <2>1. t \in Transaction
    BY <1>3, <1>5 DEF Transaction, Holding
  <2>2. QED
    BY <1>1, <2>1 DEF IInv, TypeOK
<1>7. /\ t.stage = "written" /\ t.org = tx[w].org /\ t.host = h
      /\ t.own = tx[w].own \cup {e}
  BY <1>3 DEF Transaction
<1>8. lastId' \in [Hosts -> Nat] /\ lastId'[h] = n
      /\ \A g \in Hosts : lastId[g] <= lastId'[g]
  BY <1>1, <1>3, <1>4 DEF IInv, TypeOK
<1>9. Rows(t.org) \cup t.own = S \cup {e}
  BY <1>7 DEF Visible
<1>10. S \in SUBSET Event /\ Shape(S) /\ Bounded(S, lastId)
  BY <1>2, WriterFacts DEF Visible, Rows, IInv, TypeOK
<1>11. Shape(S \cup {e})
  <2>1. IsHead(e.prev, S)
    BY <1>2 DEF IInv, LockInv
  <2>2. \A r \in S : r.host = e.host => r.id < e.id
    BY <1>4, <1>10 DEF Bounded, Event
  <2>3. QED
    BY <1>5, <1>10, <2>1, <2>2, Extend
<1>12. Bounded(S \cup {e}, lastId')
  BY <1>8, <1>10, <1>4 DEF Bounded, Event, IInv, TypeOK
<1>13. \A r \in t.own : r.org = t.org /\ r.host = t.host
  BY <1>7, WriterFacts
<1>14. \A v \in Writers \ {w} : Holds(v) => tx[v].org # t.org
  BY <1>2, <1>7, WriterFacts
<1>15. events' = events /\ clock' = clock
  BY DEF Insert
<1>16. QED
  BY <1>6, <1>7, <1>8, <1>9, <1>11, <1>12, <1>13, <1>14, <1>15, TxStep DEF Holding

\* The first event of a transaction starts from a chain nobody else extends.
LEMMA LockStep ==
  ASSUME IInv, NEW w \in Writers, Lock(w)
  PROVE  IInv'
<1> DEFINE t == [tx[w] EXCEPT !.stage = "locked"]
<1>1. tx[w] \in Transaction /\ tx[w] # Idle /\ tx[w].org \in Orgs
  BY WriterFacts DEF Lock, IInv, TypeOK, Idle
<1>2. t \in Transaction /\ t.stage = "locked" /\ t.org = tx[w].org
      /\ t.host = tx[w].host /\ t.own = tx[w].own
  BY <1>1 DEF Transaction, Holding
<1>3. tx' = [tx EXCEPT ![w] = t]
  BY DEF Lock
<1>4. \A v \in Writers \ {w} : Holds(v) => tx[v].org # t.org
  BY <1>2 DEF Lock, LockFree
<1>5. Shape(Rows(t.org) \cup t.own) /\ Bounded(Rows(t.org) \cup t.own, lastId)
  <2>1. CASE Holds(w)
    BY <1>2, <2>1, WriterFacts DEF Visible
  <2>2. CASE ~Holds(w)
    <3>1. Rows(t.org) \cup t.own = Rows(tx[w].org)
      BY <1>2, <2>2, WriterFacts
    <3>2. QED
      BY <1>1, <3>1 DEF IInv, ChainInv, Shape, Bounded
  <2>3. QED
    BY <2>1, <2>2
<1>6. events' = events /\ clock' = clock /\ lastId' = lastId
  BY DEF Lock
<1>7. /\ lastId' \in [Hosts -> Nat]
      /\ \A h \in Hosts : lastId[h] <= lastId'[h]
  BY <1>6 DEF IInv, TypeOK
<1>8. \A r \in t.own : r.org = t.org /\ r.host = t.host
  BY <1>2, WriterFacts
<1>9. QED
  BY <1>2, <1>3, <1>4, <1>5, <1>6, <1>7, <1>8, TxStep DEF Holding

\* Reading the head while holding the lock.
LEMMA ReadHeadStep ==
  ASSUME IInv, NEW w \in Writers, ReadHead(w)
  PROVE  IInv'
<1>1. PICK p \in {0} \cup Ids(Visible(w)) :
        /\ IsHead(p, Visible(w))
        /\ tx' = [tx EXCEPT ![w].stage = "read", ![w].head = p]
  BY DEF ReadHead
<1> DEFINE t == [tx[w] EXCEPT !.stage = "read", !.head = p]
<1>2. tx[w].stage = "locked" /\ Holds(w)
  BY DEF ReadHead, Holds, Holding
<1>3. tx[w] \in Transaction /\ tx[w] # Idle
  BY <1>2 DEF IInv, TypeOK, Idle
<1>4. p \in Nat
  <2>1. Visible(w) \in SUBSET Event
    BY WriterFacts DEF Visible, Rows, IInv, TypeOK
  <2>2. \A r \in Event : r.id \in Nat
    BY DEF Event
  <2>3. QED
    BY <2>1, <2>2 DEF Ids
<1>5. t \in Transaction /\ t.stage = "read" /\ t.head = p /\ t.org = tx[w].org
      /\ t.host = tx[w].host /\ t.own = tx[w].own
  BY <1>3, <1>4 DEF Transaction, Holding
<1>6. tx' = [tx EXCEPT ![w] = t]
  BY <1>1
<1>7. Rows(t.org) \cup t.own = Visible(w)
  BY <1>5 DEF Visible
<1>8. /\ Shape(Visible(w)) /\ Bounded(Visible(w), lastId)
      /\ \A v \in Writers \ {w} : Holds(v) => tx[v].org # t.org
      /\ \A r \in t.own : r.org = t.org /\ r.host = t.host
  BY <1>2, <1>5, WriterFacts
<1>9. events' = events /\ clock' = clock /\ lastId' = lastId
  BY DEF ReadHead
<1>10. /\ lastId' \in [Hosts -> Nat]
       /\ \A h \in Hosts : lastId[h] <= lastId'[h]
  BY <1>9 DEF IInv, TypeOK
<1>11. /\ IsHead(t.head, Rows(t.org) \cup t.own)
       /\ Shape(Rows(t.org) \cup t.own)
       /\ Bounded(Rows(t.org) \cup t.own, lastId')
  BY <1>1, <1>5, <1>7, <1>8, <1>9
<1>12. t.stage \in Holding
  BY <1>5 DEF Holding
<1>13. t \in Transaction
  BY <1>5
<1> HIDE DEF t
<1>14. QED
  BY <1>6, <1>8, <1>9, <1>10, <1>11, <1>12, <1>13, TxStep

\* Beginning and rolling back leave a transaction without rows or lock.
LEMMA BeginOrRollbackStep ==
  ASSUME IInv, NEW w \in Writers, NEW t \in Transaction,
         t.own = {}, t.stage \in {"idle", "open"},
         tx' = [tx EXCEPT ![w] = t], UNCHANGED <<clock, lastId, events>>
  PROVE  IInv'
<1>1. /\ lastId' \in [Hosts -> Nat]
      /\ \A h \in Hosts : lastId[h] <= lastId'[h]
  BY DEF IInv, TypeOK
<1>2. t.stage # "read" /\ t.stage \notin Holding
  BY DEF Holding
<1>3. QED
  BY <1>1, <1>2, TxStep

\* IInv is an invariant of AuditChain.
THEOREM AuditInvariance == Spec => []IInv
<1>1. Init => IInv
  <2> SUFFICES ASSUME Init PROVE IInv
    OBVIOUS
  <2>1. TypeOK
    BY DEF Init, TypeOK, Transaction
  <2>2. \A w \in Writers : tx[w] = Idle /\ ~Holds(w)
    BY DEF Init, Holds, Holding, Idle
  <2>3. LockInv
    BY <2>2 DEF LockInv, Idle
  <2>4. \A org \in Orgs : Rows(org) = {}
    BY DEF Init, Rows
  <2>5. \A org \in Orgs : ChainInv(Rows(org))
    BY <2>4 DEF ChainInv, Closed, InOrder, Verifies
  <2>6. QED
    BY <2>1, <2>2, <2>3, <2>5 DEF IInv
<1>2. IInv /\ [Next]_vars => IInv'
  <2> SUFFICES ASSUME IInv, [Next]_vars PROVE IInv'
    OBVIOUS
  <2>1. ASSUME NEW h \in Hosts, Tick(h) PROVE IInv'
    <3>1. TypeOK'
      BY <2>1 DEF Tick, IInv, TypeOK
    <3>2. QED
      BY <2>1, <3>1 DEF Tick, IInv, LockInv, ChainInv, Rows, Visible, Holds
  <2>2. ASSUME NEW w \in Writers, NEW org \in Orgs, NEW h \in Hosts, Begin(w, org, h)
        PROVE  IInv'
    <3>1. [stage |-> "open", org |-> org, host |-> h, head |-> 0, own |-> {}] \in Transaction
      BY DEF Transaction
    <3>2. QED
      BY <2>2, <3>1, BeginOrRollbackStep DEF Begin
  <2>3. ASSUME NEW w \in Writers, Rollback(w) PROVE IInv'
    BY <2>3, BeginOrRollbackStep DEF Rollback, Transaction, Idle
  <2>4. CASE UNCHANGED vars
    BY <2>4 DEF vars, IInv, TypeOK, LockInv, ChainInv, Rows, Visible, Holds
  <2>5. QED
    BY <2>1, <2>2, <2>3, <2>4, LockStep, ReadHeadStep, InsertStep, CommitStep DEF Next
<1>3. QED
  BY <1>1, <1>2, PTL DEF Spec

\* verify_chain accepts a chain exactly when its ids were drawn in the order
\* of the writes.
THEOREM VerificationIsOrder == Spec => []VerifiesIffInOrder
<1>1. IInv => VerifiesIffInOrder
  <2> SUFFICES ASSUME IInv, NEW org \in Orgs
               PROVE  Verifies(Rows(org)) <=> InOrder(Rows(org))
    BY DEF VerifiesIffInOrder
  <2>1. Rows(org) \in SUBSET Event
    BY DEF IInv, TypeOK, Rows
  <2>2. InOrder(Rows(org)) => Verifies(Rows(org))
    BY DEF IInv, ChainInv
  <2>3. QED
    BY <2>1, <2>2, VerifiedInOrder
<1>2. QED
  BY <1>1, AuditInvariance, PTL

\* A chain written by one process verifies.
THEOREM OneProcessVerifies == Spec => []SingleHostVerifies
<1>1. IInv => SingleHostVerifies
  BY DEF IInv, ChainInv, SingleHostVerifies
<1>2. QED
  BY <1>1, AuditInvariance, PTL

\* Predecessors are committed rows of the same organization.
THEOREM PredecessorsStay == Spec => []PredecessorsKept
<1>1. IInv => PredecessorsKept
  BY DEF IInv, ChainInv, PredecessorsKept
<1>2. QED
  BY <1>1, AuditInvariance, PTL
=============================================================================
