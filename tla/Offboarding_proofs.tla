------------------------- MODULE Offboarding_proofs -------------------------
(***************************************************************************)
(* Theorems about Offboarding and the sweeps of Retention, for any numbers *)
(* of transactions, documents and failures.  One lemma per action: what it *)
(* does to each part of the invariant.                                     *)
(***************************************************************************)
EXTENDS Offboarding, TLAPS

USE DEF Free, Purging, LockGranted, Released, Idle, NoOrg, Targets, Skip

LEMMA ComeDueKeeps ==
  ASSUME IInv, NEW d \in Docs,
         ComeDue(d), UNCHANGED offVars
  PROVE  IInv'
<1> USE DEF IInv, TypeOK, ComeDue, rowVars, offVars
<1>1. TypeOK'
  BY ConstantsAssumption, StatusAssumption
  DEF Transaction, Ops, Places, PurgeEvent, OrgRow, PlanStatuses
<1>2. DeletedIsCertified'
  BY DEF DeletedIsCertified
<1>3. PurgersHoldTheLock'
  BY ConstantsAssumption
  DEF PurgersHoldTheLock, Exists, Transaction, PurgeEvent, DeletedIsCertified
<1>4. PurgedAreGone'
  BY DEF PurgedAreGone, Exists, Transaction, DeletedIsCertified
<1>5. CheckedUnderLock'
  BY ConstantsAssumption DEF CheckedUnderLock, Held, PurgersHoldTheLock
<1>6. RowsAtHand'
  BY DEF RowsAtHand, Exists, Transaction
<1>7. QED
  BY <1>1, <1>2, <1>3, <1>4, <1>5, <1>6

LEMMA ReopenKeeps ==
  ASSUME IInv, NEW d \in Docs,
         Reopen(d), UNCHANGED offVars
  PROVE  IInv'
<1> USE DEF IInv, TypeOK, Reopen, rowVars, offVars
<1>1. TypeOK'
  BY ConstantsAssumption, StatusAssumption
  DEF Transaction, Ops, Places, PurgeEvent, OrgRow, PlanStatuses
<1>2. DeletedIsCertified'
  BY DEF DeletedIsCertified
<1>3. PurgersHoldTheLock'
  BY ConstantsAssumption
  DEF PurgersHoldTheLock, Exists, Transaction, PurgeEvent, DeletedIsCertified
<1>4. PurgedAreGone'
  BY DEF PurgedAreGone, Exists, Transaction, DeletedIsCertified
<1>5. CheckedUnderLock'
  BY ConstantsAssumption DEF CheckedUnderLock, Held, PurgersHoldTheLock
<1>6. RowsAtHand'
  BY DEF RowsAtHand, Exists, Transaction
<1>7. QED
  BY <1>1, <1>2, <1>3, <1>4, <1>5, <1>6

LEMMA UploadPutKeeps ==
  ASSUME IInv, NEW w \in Workers, NEW d \in Docs,
         UploadPut(w, d), UNCHANGED offVars
  PROVE  IInv'
<1> USE DEF IInv, TypeOK, UploadPut, rowVars, offVars
<1>1. TypeOK'
  BY ConstantsAssumption, StatusAssumption
  DEF Transaction, Ops, Places, PurgeEvent, OrgRow, PlanStatuses
<1>2. DeletedIsCertified'
  BY DEF DeletedIsCertified, RowsAtHand, Exists
<1>3. PurgersHoldTheLock'
  BY ConstantsAssumption
  DEF PurgersHoldTheLock, Exists, Transaction, PurgeEvent, DeletedIsCertified
<1>4. PurgedAreGone'
  BY DEF PurgedAreGone, Exists, Transaction, DeletedIsCertified, RowsAtHand
<1>5. CheckedUnderLock'
  BY ConstantsAssumption DEF CheckedUnderLock, Held, PurgersHoldTheLock
<1>6. RowsAtHand'
  BY DEF RowsAtHand, Exists, Transaction
<1>7. QED
  BY <1>1, <1>2, <1>3, <1>4, <1>5, <1>6

LEMMA UploadCommitKeeps ==
  ASSUME IInv, NEW w \in Workers,
         UploadCommit(w), UNCHANGED offVars
  PROVE  IInv'
<1> USE DEF IInv, TypeOK, UploadCommit, rowVars, offVars
<1>1. TypeOK'
  BY ConstantsAssumption, StatusAssumption
  DEF Transaction, Ops, Places, PurgeEvent, OrgRow, PlanStatuses
<1>2. DeletedIsCertified'
  BY DEF DeletedIsCertified
<1>3. PurgersHoldTheLock'
  BY ConstantsAssumption
  DEF PurgersHoldTheLock, Exists, Transaction, PurgeEvent, DeletedIsCertified
<1>4. PurgedAreGone'
  BY DEF PurgedAreGone, Exists, Transaction, DeletedIsCertified
<1>5. CheckedUnderLock'
  BY ConstantsAssumption DEF CheckedUnderLock, Held, PurgersHoldTheLock
<1>6. RowsAtHand'
  BY DEF RowsAtHand, Exists, Transaction
<1>7. QED
  BY <1>1, <1>2, <1>3, <1>4, <1>5, <1>6

LEMMA HoldBeginKeeps ==
  ASSUME IInv, NEW w \in Workers, NEW t \in Holdable, NEW v \in BOOLEAN,
         HoldBegin(w, t, v), UNCHANGED offVars
  PROVE  IInv'
<1> USE DEF IInv, TypeOK, HoldBegin, rowVars, offVars
<1>1. TypeOK'
  <2>1. tx[w] \in Transaction
    OBVIOUS
  <2>2. tx'[w] \in Transaction
    <3>1. (t \in hold) \in BOOLEAN /\ t \in Targets
      BY ConstantsAssumption
    <3>2. tx'[w] = [op |-> "hold", at |-> "start", todo |-> {}, doc |-> t,
                    seen |-> (t \in hold), want |-> v, done |-> {}]
      BY <2>1
    <3>3. QED
      BY <3>1, <3>2 DEF Transaction, Ops, Places
  <2>3. tx' \in [Workers -> Transaction]
    BY <2>2
  <2>4. QED
    BY <2>3, ConstantsAssumption, StatusAssumption DEF OrgRow, PlanStatuses
<1>2. DeletedIsCertified'
  BY DEF DeletedIsCertified
<1>3. PurgersHoldTheLock'
  BY ConstantsAssumption
  DEF PurgersHoldTheLock, Exists, Transaction, PurgeEvent, DeletedIsCertified
<1>4. PurgedAreGone'
  BY DEF PurgedAreGone, Exists, Transaction, DeletedIsCertified
<1>5. CheckedUnderLock'
  BY ConstantsAssumption DEF CheckedUnderLock, Held, PurgersHoldTheLock
<1>6. RowsAtHand'
  BY ConstantsAssumption DEF RowsAtHand, Exists, Transaction
<1>7. QED
  BY <1>1, <1>2, <1>3, <1>4, <1>5, <1>6

LEMMA HoldCommitKeeps ==
  ASSUME IInv, NEW w \in Workers,
         HoldCommit(w), UNCHANGED offVars
  PROVE  IInv'
<1> USE DEF IInv, TypeOK, HoldCommit, rowVars, offVars
<1>1. TypeOK'
  <2>1. tx[w] \in Transaction
    OBVIOUS
  <2>2. tx'[w] \in Transaction
    BY <2>1, ConstantsAssumption DEF Transaction, Ops, Places, PurgeEvent
  <2>3. tx' \in [Workers -> Transaction]
    BY <2>2
  <2>4. hold' \subseteq Targets
    BY <2>1 DEF RowsAtHand, Transaction
  <2>5. QED
    BY <2>3, <2>4, ConstantsAssumption, StatusAssumption DEF OrgRow, PlanStatuses
<1>2. DeletedIsCertified'
  BY DEF DeletedIsCertified
<1>3. PurgersHoldTheLock'
  BY ConstantsAssumption
  DEF PurgersHoldTheLock, Exists, Transaction, PurgeEvent, DeletedIsCertified
<1>4. PurgedAreGone'
  BY DEF PurgedAreGone, Exists, Transaction, DeletedIsCertified
<1>5. CheckedUnderLock'
  BY ConstantsAssumption DEF CheckedUnderLock, Held, PurgersHoldTheLock
<1>6. RowsAtHand'
  BY DEF RowsAtHand, Exists, Transaction
<1>7. QED
  BY <1>1, <1>2, <1>3, <1>4, <1>5, <1>6

LEMMA SweepBeginKeeps ==
  ASSUME IInv, NEW w \in Workers,
         SweepBegin(w), UNCHANGED offVars
  PROVE  IInv'
<1> USE DEF IInv, TypeOK, SweepBegin, rowVars, offVars
<1>1. TypeOK'
  BY ConstantsAssumption, StatusAssumption
  DEF Transaction, Ops, Places, PurgeEvent, OrgRow, PlanStatuses, Eligible
<1>2. DeletedIsCertified'
  BY DEF DeletedIsCertified
<1>3. PurgersHoldTheLock'
  BY ConstantsAssumption
  DEF PurgersHoldTheLock, Exists, Transaction, PurgeEvent, DeletedIsCertified
<1>4. PurgedAreGone'
  BY DEF PurgedAreGone, Exists, Transaction, DeletedIsCertified, Eligible
<1>5. CheckedUnderLock'
  BY ConstantsAssumption DEF CheckedUnderLock, Held, PurgersHoldTheLock
<1>6. RowsAtHand'
  BY DEF RowsAtHand, Exists, Transaction
<1>7. QED
  BY <1>1, <1>2, <1>3, <1>4, <1>5, <1>6

LEMMA CheckDocumentKeeps ==
  ASSUME IInv, NEW w \in Workers, NEW d \in Docs,
         CheckDocument(w, d), UNCHANGED offVars
  PROVE  IInv'
<1> USE DEF IInv, TypeOK, CheckDocument, rowVars, offVars
<1>1. TypeOK'
  <2>1. tx[w] \in Transaction
    OBVIOUS
  <2>2. tx'[w] \in Transaction
    BY <2>1, ConstantsAssumption DEF Transaction, Ops, Places, PurgeEvent
  <2>3. tx' \in [Workers -> Transaction]
    BY <2>2
  <2>4. QED
    BY <2>3, ConstantsAssumption, StatusAssumption DEF OrgRow, PlanStatuses
<1>2. DeletedIsCertified'
  BY DEF DeletedIsCertified
<1>3. PurgersHoldTheLock'
  BY ConstantsAssumption
  DEF PurgersHoldTheLock, Exists, Transaction, PurgeEvent, DeletedIsCertified
<1>4. PurgedAreGone'
  BY DEF PurgedAreGone, Exists, Transaction, DeletedIsCertified
<1>5. CheckedUnderLock'
  <2>1. tx[w] \in Transaction
    OBVIOUS
  <2>2. \A u \in Workers \ {w} : tx'[u] = tx[u]
    OBVIOUS
  <2>3. CASE d \in hold
    <3>1. tx'[w].at = "loop"
      BY <2>1, <2>3 DEF Transaction
    <3>2. QED
      BY <2>2, <3>1 DEF CheckedUnderLock, Held
  <2>4. CASE d \notin hold
    <3>1. /\ tx'[w].doc = d
          /\ tx'[w].at = IF d \in Linked THEN "request" ELSE "delete"
      BY <2>1, <2>4 DEF Transaction
    <3>2. QED
      BY <2>2, <2>4, <3>1 DEF CheckedUnderLock, Held
  <2>5. QED
    BY <2>3, <2>4
<1>6. RowsAtHand'
  BY DEF RowsAtHand, Exists, Transaction
<1>7. QED
  BY <1>1, <1>2, <1>3, <1>4, <1>5, <1>6

LEMMA CheckRequestKeeps ==
  ASSUME IInv, NEW w \in Workers,
         CheckRequest(w), UNCHANGED offVars
  PROVE  IInv'
<1> USE DEF IInv, TypeOK, CheckRequest, rowVars, offVars
<1>0. /\ \A u \in Workers \ {w} : tx'[u] = tx[u]
      /\ tx'[w].op = tx[w].op /\ tx'[w].done = tx[w].done
      /\ Purging(w)
  <2>1. tx[w] \in Transaction
    OBVIOUS
  <2>2. QED
    BY <2>1 DEF Transaction, Skip
<1>1. TypeOK'
  BY ConstantsAssumption, StatusAssumption
  DEF Transaction, Ops, Places, PurgeEvent, OrgRow, PlanStatuses
<1>2. DeletedIsCertified'
  BY DEF DeletedIsCertified
<1>3. PurgersHoldTheLock'
  BY <1>0 DEF PurgersHoldTheLock, Purging, Exists
<1>4. PurgedAreGone'
  BY DEF PurgedAreGone, Exists, Transaction, DeletedIsCertified
<1>5. CheckedUnderLock'
  <2>1. tx[w] \in Transaction
    OBVIOUS
  <2>2. \A u \in Workers \ {w} : tx'[u] = tx[u]
    OBVIOUS
  <2>3. CASE Request \in hold
    <3>1. tx'[w].at = "loop"
      BY <2>1, <2>3 DEF Transaction
    <3>2. QED
      BY <2>2, <3>1 DEF CheckedUnderLock, Held
  <2>4. CASE Request \notin hold
    <3>1. tx'[w].doc = tx[w].doc /\ tx'[w].at = "delete"
      BY <2>1, <2>4 DEF Transaction
    <3>2. QED
      BY <2>2, <2>4, <3>1 DEF CheckedUnderLock, Held
  <2>5. QED
    BY <2>3, <2>4
<1>6. RowsAtHand'
  BY <1>0 DEF RowsAtHand, Purging, Exists
<1>7. QED
  BY <1>1, <1>2, <1>3, <1>4, <1>5, <1>6

LEMMA DeleteObjectsKeeps ==
  ASSUME IInv, NEW w \in Workers,
         DeleteObjects(w), UNCHANGED offVars
  PROVE  IInv'
<1> USE DEF IInv, TypeOK, DeleteObjects, rowVars, offVars
<1>1. TypeOK'
  <2>1. tx[w] \in Transaction
    OBVIOUS
  <2>2. tx'[w] \in Transaction
    BY <2>1, ConstantsAssumption DEF Transaction, Ops, Places, PurgeEvent
  <2>3. tx' \in [Workers -> Transaction]
    BY <2>2
  <2>4. QED
    BY <2>3, ConstantsAssumption, StatusAssumption DEF OrgRow, PlanStatuses
<1>2. DeletedIsCertified'
  BY DEF DeletedIsCertified
<1>3. PurgersHoldTheLock'
  BY ConstantsAssumption
  DEF PurgersHoldTheLock, Exists, Transaction, PurgeEvent, DeletedIsCertified
<1>4. PurgedAreGone'
  BY DEF PurgedAreGone, Exists, Transaction, DeletedIsCertified
<1>5. CheckedUnderLock'
  BY ConstantsAssumption DEF CheckedUnderLock, Held, PurgersHoldTheLock
<1>6. RowsAtHand'
  BY DEF RowsAtHand, Exists, Transaction
<1>7. QED
  BY <1>1, <1>2, <1>3, <1>4, <1>5, <1>6

LEMMA RecordPurgeKeeps ==
  ASSUME IInv, NEW w \in Workers,
         RecordPurge(w), UNCHANGED offVars
  PROVE  IInv'
<1> USE DEF IInv, TypeOK, RecordPurge, rowVars, offVars
<1>1. TypeOK'
  <2>1. tx[w] \in Transaction
    OBVIOUS
  <2>2. tx'[w] \in Transaction
    BY <2>1, ConstantsAssumption
    DEF Transaction, Ops, Places, PurgeEvent, DigestAtPurge, PurgedAreGone
  <2>3. tx' \in [Workers -> Transaction]
    BY <2>2
  <2>4. QED
    BY <2>3, ConstantsAssumption, StatusAssumption DEF OrgRow, PlanStatuses, DigestAtPurge
<1>2. DeletedIsCertified'
  BY DEF DeletedIsCertified, DigestAtPurge
<1>3. PurgersHoldTheLock'
  BY ConstantsAssumption DEF PurgersHoldTheLock, Exists, Transaction, PurgeEvent,
      DeletedIsCertified, DigestAtPurge, PurgedAreGone
<1>4. PurgedAreGone'
  BY DEF PurgedAreGone, Exists, Transaction, DeletedIsCertified, DigestAtPurge
<1>5. CheckedUnderLock'
  BY ConstantsAssumption DEF CheckedUnderLock, Held, PurgersHoldTheLock
<1>6. RowsAtHand'
  BY DEF RowsAtHand, Exists, Transaction
<1>7. QED
  BY <1>1, <1>2, <1>3, <1>4, <1>5, <1>6

LEMMA SweepCommitKeeps ==
  ASSUME IInv, NEW w \in Workers,
         SweepCommit(w), UNCHANGED offVars
  PROVE  IInv'
<1> USE DEF IInv, TypeOK, SweepCommit, rowVars, offVars
<1>1. TypeOK'
  BY ConstantsAssumption, StatusAssumption
  DEF Transaction, Ops, Places, PurgeEvent, OrgRow, PlanStatuses, CommitPurges
<1>2. DeletedIsCertified'
  <2>1. \A e \in tx[w].done :
          /\ e \in PurgeEvent /\ e.doc \notin store
          /\ e.digest \/ e.doc \in deleted
    BY DEF PurgersHoldTheLock, Transaction
  <2>2. \A e \in tx[w].done : e.digest => e = [doc |-> e.doc, digest |-> TRUE]
    BY <2>1 DEF PurgeEvent
  <2>3. QED
    BY <2>1, <2>2 DEF DeletedIsCertified, CommitPurges
<1>3. PurgersHoldTheLock'
  BY ConstantsAssumption DEF PurgersHoldTheLock, Exists, Transaction, PurgeEvent,
      DeletedIsCertified, CommitPurges
<1>4. PurgedAreGone'
  BY DEF PurgedAreGone, Exists, Transaction, DeletedIsCertified, CommitPurges
<1>5. CheckedUnderLock'
  BY ConstantsAssumption DEF CheckedUnderLock, Held, PurgersHoldTheLock
<1>6. RowsAtHand'
  BY DEF RowsAtHand, Exists, Transaction, CommitPurges, PurgersHoldTheLock
<1>7. QED
  BY <1>1, <1>2, <1>3, <1>4, <1>5, <1>6

LEMMA FailKeeps ==
  ASSUME IInv, NEW w \in Workers,
         Fail(w), org' = [org EXCEPT ![w] = NoOrg], UNCHANGED plan
  PROVE  IInv'
<1> USE DEF IInv, TypeOK, Fail, rowVars, offVars
<1>1. TypeOK'
  BY ConstantsAssumption, StatusAssumption
  DEF Transaction, Ops, Places, PurgeEvent, OrgRow, PlanStatuses
<1>2. DeletedIsCertified'
  BY DEF DeletedIsCertified
<1>3. PurgersHoldTheLock'
  BY ConstantsAssumption
  DEF PurgersHoldTheLock, Exists, Transaction, PurgeEvent, DeletedIsCertified
<1>4. PurgedAreGone'
  BY DEF PurgedAreGone, Exists, Transaction, DeletedIsCertified
<1>5. CheckedUnderLock'
  BY ConstantsAssumption DEF CheckedUnderLock, Held, PurgersHoldTheLock
<1>6. RowsAtHand'
  BY DEF RowsAtHand, Exists, Transaction
<1>7. QED
  BY <1>1, <1>2, <1>3, <1>4, <1>5, <1>6

LEMMA OffboardBeginKeeps ==
  ASSUME IInv, NEW w \in Workers,
         OffboardBegin(w)
  PROVE  IInv'
<1> USE DEF IInv, TypeOK, OffboardBegin, rowVars, offVars
<1>1. TypeOK'
  BY ConstantsAssumption, StatusAssumption
  DEF Transaction, Ops, Places, PurgeEvent, OrgRow, PlanStatuses
<1>2. DeletedIsCertified'
  BY DEF DeletedIsCertified
<1>3. PurgersHoldTheLock'
  BY ConstantsAssumption
  DEF PurgersHoldTheLock, Exists, Transaction, PurgeEvent, DeletedIsCertified
<1>4. PurgedAreGone'
  BY DEF PurgedAreGone, Exists, Transaction, DeletedIsCertified
<1>5. CheckedUnderLock'
  BY ConstantsAssumption DEF CheckedUnderLock, Held, PurgersHoldTheLock
<1>6. RowsAtHand'
  BY DEF RowsAtHand, Exists, Transaction
<1>7. QED
  BY <1>1, <1>2, <1>3, <1>4, <1>5, <1>6

LEMMA PackageKeeps ==
  ASSUME IInv, NEW w \in Workers,
         Package(w)
  PROVE  IInv'
<1> USE DEF IInv, TypeOK, Package, rowVars, offVars
<1>1. TypeOK'
  <2>1. tx[w] \in Transaction
    OBVIOUS
  <2>2. tx'[w] \in Transaction
    BY <2>1, ConstantsAssumption DEF Transaction, Ops, Places, PurgeEvent
  <2>3. tx' \in [Workers -> Transaction]
    BY <2>2
  <2>4. QED
    BY <2>3, ConstantsAssumption, StatusAssumption DEF OrgRow, PlanStatuses
<1>2. DeletedIsCertified'
  BY DEF DeletedIsCertified
<1>3. PurgersHoldTheLock'
  BY ConstantsAssumption
  DEF PurgersHoldTheLock, Exists, Transaction, PurgeEvent, DeletedIsCertified
<1>4. PurgedAreGone'
  BY DEF PurgedAreGone, Exists, Transaction, DeletedIsCertified
<1>5. CheckedUnderLock'
  BY ConstantsAssumption DEF CheckedUnderLock, Held, PurgersHoldTheLock
<1>6. RowsAtHand'
  BY DEF RowsAtHand, Exists, Transaction
<1>7. QED
  BY <1>1, <1>2, <1>3, <1>4, <1>5, <1>6

LEMMA OffboardQueryKeeps ==
  ASSUME IInv, NEW w \in Workers,
         OffboardQuery(w)
  PROVE  IInv'
<1> USE DEF IInv, TypeOK, OffboardQuery, rowVars, offVars
<1>1. TypeOK'
  <2>1. tx[w] \in Transaction
    OBVIOUS
  <2>2. tx'[w] \in Transaction
    BY <2>1, ConstantsAssumption DEF Transaction, Ops, Places, PurgeEvent, OffboardEligible
  <2>3. tx' \in [Workers -> Transaction]
    BY <2>2
  <2>4. QED
    BY <2>3, ConstantsAssumption, StatusAssumption
    DEF OrgRow, PlanStatuses, OffboardEligible
<1>2. DeletedIsCertified'
  BY DEF DeletedIsCertified
<1>3. PurgersHoldTheLock'
  BY ConstantsAssumption
  DEF PurgersHoldTheLock, Exists, Transaction, PurgeEvent, DeletedIsCertified
<1>4. PurgedAreGone'
  BY DEF PurgedAreGone, Exists, Transaction, DeletedIsCertified, OffboardEligible
<1>5. CheckedUnderLock'
  BY ConstantsAssumption DEF CheckedUnderLock, Held, PurgersHoldTheLock
<1>6. RowsAtHand'
  BY DEF RowsAtHand, Exists, Transaction
<1>7. QED
  BY <1>1, <1>2, <1>3, <1>4, <1>5, <1>6

LEMMA LoadOrganizationKeeps ==
  ASSUME IInv, NEW w \in Workers,
         LoadOrganization(w)
  PROVE  IInv'
<1> USE DEF IInv, TypeOK, LoadOrganization, rowVars, offVars
<1>1. TypeOK'
  <2>1. tx[w] \in Transaction
    OBVIOUS
  <2>2. tx'[w] \in Transaction
    BY <2>1, ConstantsAssumption DEF Transaction, Ops, Places, PurgeEvent
  <2>3. tx' \in [Workers -> Transaction]
    BY <2>2
  <2>4. org'[w] \in OrgRow /\ org' \in [Workers -> OrgRow]
    BY DEF OrgRow, PlanStatuses
  <2>5. QED
    BY <2>3, <2>4, ConstantsAssumption, StatusAssumption DEF OrgRow, PlanStatuses
<1>2. DeletedIsCertified'
  BY DEF DeletedIsCertified
<1>3. PurgersHoldTheLock'
  BY ConstantsAssumption
  DEF PurgersHoldTheLock, Exists, Transaction, PurgeEvent, DeletedIsCertified
<1>4. PurgedAreGone'
  BY DEF PurgedAreGone, Exists, Transaction, DeletedIsCertified
<1>5. CheckedUnderLock'
  BY ConstantsAssumption DEF CheckedUnderLock, Held, PurgersHoldTheLock
<1>6. RowsAtHand'
  BY DEF RowsAtHand, Exists, Transaction
<1>7. QED
  BY <1>1, <1>2, <1>3, <1>4, <1>5, <1>6

LEMMA OffboardCommitKeeps ==
  ASSUME IInv, NEW w \in Workers,
         OffboardCommit(w)
  PROVE  IInv'
<1> USE DEF IInv, TypeOK, OffboardCommit, rowVars, offVars
<1>1. TypeOK'
  BY ConstantsAssumption, StatusAssumption DEF Transaction, Ops, Places, PurgeEvent,
      OrgRow, PlanStatuses, CommitPurges, StoredStatus
<1>2. DeletedIsCertified'
  <2>1. \A e \in tx[w].done :
          /\ e \in PurgeEvent /\ e.doc \notin store
          /\ e.digest \/ e.doc \in deleted
    BY DEF PurgersHoldTheLock, Transaction
  <2>2. \A e \in tx[w].done : e.digest => e = [doc |-> e.doc, digest |-> TRUE]
    BY <2>1 DEF PurgeEvent
  <2>3. QED
    BY <2>1, <2>2 DEF DeletedIsCertified, CommitPurges
<1>3. PurgersHoldTheLock'
  BY ConstantsAssumption DEF PurgersHoldTheLock, Exists, Transaction, PurgeEvent,
      DeletedIsCertified, CommitPurges
<1>4. PurgedAreGone'
  BY DEF PurgedAreGone, Exists, Transaction, DeletedIsCertified, CommitPurges
<1>5. CheckedUnderLock'
  BY ConstantsAssumption DEF CheckedUnderLock, Held, PurgersHoldTheLock, StoredStatus
<1>6. RowsAtHand'
  BY DEF RowsAtHand, Exists, Transaction, CommitPurges, PurgersHoldTheLock
<1>7. QED
  BY <1>1, <1>2, <1>3, <1>4, <1>5, <1>6

LEMMA StatusBeginKeeps ==
  ASSUME IInv, NEW w \in Workers, NEW s \in NewStatuses,
         StatusBegin(w, s)
  PROVE  IInv'
<1> USE DEF IInv, TypeOK, StatusBegin, rowVars, offVars
<1>1. TypeOK'
  BY ConstantsAssumption, StatusAssumption
  DEF Transaction, Ops, Places, PurgeEvent, OrgRow, PlanStatuses
<1>2. DeletedIsCertified'
  BY DEF DeletedIsCertified
<1>3. PurgersHoldTheLock'
  BY ConstantsAssumption
  DEF PurgersHoldTheLock, Exists, Transaction, PurgeEvent, DeletedIsCertified
<1>4. PurgedAreGone'
  BY DEF PurgedAreGone, Exists, Transaction, DeletedIsCertified
<1>5. CheckedUnderLock'
  BY ConstantsAssumption DEF CheckedUnderLock, Held, PurgersHoldTheLock
<1>6. RowsAtHand'
  BY DEF RowsAtHand, Exists, Transaction
<1>7. QED
  BY <1>1, <1>2, <1>3, <1>4, <1>5, <1>6

LEMMA StatusCommitKeeps ==
  ASSUME IInv, NEW w \in Workers,
         StatusCommit(w)
  PROVE  IInv'
<1> USE DEF IInv, TypeOK, StatusCommit, rowVars, offVars
<1>1. TypeOK'
  BY ConstantsAssumption, StatusAssumption
  DEF Transaction, Ops, Places, PurgeEvent, OrgRow, PlanStatuses, StoredStatus
<1>2. DeletedIsCertified'
  BY DEF DeletedIsCertified
<1>3. PurgersHoldTheLock'
  BY ConstantsAssumption
  DEF PurgersHoldTheLock, Exists, Transaction, PurgeEvent, DeletedIsCertified
<1>4. PurgedAreGone'
  BY DEF PurgedAreGone, Exists, Transaction, DeletedIsCertified
<1>5. CheckedUnderLock'
  BY ConstantsAssumption DEF CheckedUnderLock, Held, PurgersHoldTheLock, StoredStatus
<1>6. RowsAtHand'
  BY DEF RowsAtHand, Exists, Transaction
<1>7. QED
  BY <1>1, <1>2, <1>3, <1>4, <1>5, <1>6

\* Every step of the specification keeps the invariant.
LEMMA StepKeeps ==
  ASSUME IInv, [Next]_vars
  PROVE  IInv'
<1>1. CASE UNCHANGED vars
  BY <1>1 DEF IInv, TypeOK, DeletedIsCertified, PurgersHoldTheLock,
     PurgedAreGone, CheckedUnderLock, RowsAtHand, Exists, Held, vars, retVars,
     rowVars, offVars
<1>2. ASSUME Aging, UNCHANGED offVars PROVE IInv'
  BY <1>2, ComeDueKeeps, ReopenKeeps DEF Aging
<1>3. ASSUME NEW w \in Workers, UploadOrHold(w), UNCHANGED offVars PROVE IInv'
  BY <1>3, UploadPutKeeps, UploadCommitKeeps, HoldBeginKeeps, HoldCommitKeeps
     DEF UploadOrHold
<1>4. ASSUME NEW w \in Workers, Purge(w), UNCHANGED offVars PROVE IInv'
  BY <1>4, CheckDocumentKeeps, CheckRequestKeeps, DeleteObjectsKeeps,
     RecordPurgeKeeps DEF Purge
<1>5. ASSUME NEW w \in Workers, Offboard(w) PROVE IInv'
  BY <1>5, OffboardBeginKeeps, PackageKeeps, OffboardQueryKeeps,
     LoadOrganizationKeeps, OffboardCommitKeeps DEF Offboard
<1>6. ASSUME NEW w \in Workers, ChangeStatus(w) PROVE IInv'
  BY <1>6, StatusBeginKeeps, StatusCommitKeeps DEF ChangeStatus
<1>7. QED
  BY <1>1, <1>2, <1>3, <1>4, <1>5, <1>6, SweepBeginKeeps, SweepCommitKeeps,
     FailKeeps DEF Next

\* Spec => []IInv: the inductive invariant of Offboarding.tla.
THEOREM OffboardInvariance == Spec => []IInv
<1>1. Init => IInv
  BY ConstantsAssumption DEF Init, RetInit, IInv, TypeOK, Transaction, Ops,
     Places, PurgeEvent, OrgRow, PlanStatuses, DeletedIsCertified,
     PurgersHoldTheLock, PurgedAreGone, CheckedUnderLock, RowsAtHand, Exists
<1>2. IInv /\ [Next]_vars => IInv'
  BY StepKeeps
<1>3. QED
  BY <1>1, <1>2, PTL DEF Spec

\* Whatever overlaps and whatever fails, a document marked deleted has lost
\* its objects and has an event with its digest (retention_service.py).
THEOREM DeletionsCertified == Spec => []DeletedIsCertified
<1>1. IInv => DeletedIsCertified
  BY DEF IInv
<1>2. QED
  BY <1>1, OffboardInvariance, PTL

\* Under the advisory lock no document with a committed hold is destroyed.
THEOREM HoldsRespectedUnderLock == Spec => HoldBlocksDeletion
<1>1. ASSUME IInv, [Next]_vars
      PROVE  \A w \in Workers :
               (tx[w].at = "delete" /\ tx'[w].at = "record" /\ tx[w].seen
                  /\ lock = w) => ~Held(tx[w].doc)
  BY <1>1 DEF IInv, CheckedUnderLock
<1>2. QED
  BY <1>1, OffboardInvariance, PTL DEF Spec, HoldBlocksDeletion

\* An offboarding that destroyed something leaves plan_status canceled.
THEOREM OffboardingCancels == Spec => PurgingOffboardCancels
<1> DEFINE Step(w) ==
      (tx[w].op = "offboard" /\ tx'[w].op = "idle" /\ tx[w].done # {}
         /\ crashes' = crashes) => plan' = "canceled"
<1>1. ASSUME IInv, [Next]_vars PROVE \A w \in Workers : Step(w)
  <2> SUFFICES ASSUME NEW w \in Workers, tx[w].op = "offboard",
                      tx'[w].op = "idle", tx[w].done # {}, crashes' = crashes
               PROVE  plan' = "canceled"
    OBVIOUS
  <2>1. CASE OffboardCommit(w)
    BY <1>1, <2>1 DEF IInv, CheckedUnderLock, PurgersHoldTheLock,
       OffboardCommit, StoredStatus
  <2>2. CASE ~OffboardCommit(w)
    <3>1. \A u \in Workers : Fail(u) => crashes' # crashes
      BY <1>1 DEF Fail, IInv, TypeOK
    <3>2. tx \in [Workers -> Transaction]
      BY <1>1 DEF IInv, TypeOK
    <3>3. tx[w] = tx'[w] => FALSE
      OBVIOUS
    <3>4. CASE UNCHANGED vars \/ Aging
      BY <3>3, <3>4 DEF vars, retVars, Aging, ComeDue, Reopen
    <3>5. ASSUME NEW u \in Workers,
                 UploadOrHold(u) \/ SweepBegin(u) \/ SweepCommit(u)
          PROVE  FALSE
      BY <3>2, <3>3, <3>5 DEF UploadOrHold, UploadPut, UploadCommit, HoldBegin,
         HoldCommit, SweepBegin, SweepCommit
    <3>6. ASSUME NEW u \in Workers, Purge(u)
          PROVE  FALSE
      <4>1. CASE u # w
        BY <3>2, <3>3, <3>6, <4>1 DEF Purge, CheckDocument, CheckRequest,
           DeleteObjects, RecordPurge
      <4>2. CASE u = w
        <5>1. tx[w] \in Transaction
          BY <3>2
        <5>2. ASSUME NEW d \in Docs, CheckDocument(w, d)
              PROVE  tx'[w].op = tx[w].op
          BY <3>2, <5>1, <5>2 DEF CheckDocument, Transaction
        <5>3. CheckRequest(w) => tx'[w].op = tx[w].op
          BY <3>2, <5>1 DEF CheckRequest, Transaction
        <5>4. DeleteObjects(w) \/ RecordPurge(w) => tx'[w].op = tx[w].op
          BY <3>2, <5>1 DEF DeleteObjects, RecordPurge, Transaction
        <5>5. QED
          BY <3>6, <4>2, <5>2, <5>3, <5>4 DEF Purge
      <4>3. QED
        BY <4>1, <4>2
    <3>7. ASSUME NEW u \in Workers, Offboard(u) \/ ChangeStatus(u)
          PROVE  FALSE
      <4>1. ASSUME Package(u) \/ OffboardQuery(u) \/ LoadOrganization(u)
            PROVE  tx'[w].op = tx[w].op
        <5>1. tx[u] \in Transaction
          BY <3>2
        <5>2. QED
          BY <3>2, <4>1, <5>1 DEF Package, OffboardQuery, LoadOrganization,
             Transaction
      <4>2. ASSUME OffboardBegin(u) \/ OffboardCommit(u) \/ ChangeStatus(u)
            PROVE  FALSE
        BY <2>2, <3>2, <3>3, <4>2 DEF OffboardBegin, OffboardCommit,
           ChangeStatus, StatusBegin, StatusCommit
      <4>3. QED
        BY <3>7, <4>1, <4>2 DEF Offboard
    <3>8. QED
      BY <1>1, <3>1, <3>4, <3>5, <3>6, <3>7 DEF Next
  <2>3. QED
    BY <2>1, <2>2
<1>2. QED
  BY <1>1, OffboardInvariance, PTL DEF Spec, PurgingOffboardCancels

=============================================================================
