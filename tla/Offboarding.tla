---------------------------- MODULE Offboarding ----------------------------
(***************************************************************************)
(* The end of an organization: offboarding packages every document, purges *)
(* what is not held and cancels the plan, in one transaction next to the   *)
(* sweeps, holds and uploads of Retention; billing events and platform     *)
(* administrators change plan_status at the same time.                     *)
(*                                                                         *)
(* StatusCommitQuietly is a plausible bug in StatusCommit.                 *)
(***************************************************************************)
EXTENDS Retention

CONSTANTS NewStatuses   \* the plan statuses that events and patches ask for

VARIABLES plan,        \* organizations.plan_status
          org          \* per worker: the documents in the package, the plan
                       \* status as loaded and the one asked for

offVars == <<plan, org>>
vars == <<retVars, offVars>>

PlanStatuses == {"trialing", "active", "past_due", "suspended", "canceled"}

ASSUME StatusAssumption == NewStatuses \subseteq PlanStatuses

NoOrg == [package |-> {}, loaded |-> "active", target |-> "active"]
OrgRow == [package : SUBSET Docs, loaded : PlanStatuses, target : PlanStatuses]

Exists(d) == phase[d] # "absent"

-----------------------------------------------------------------------------
\* offboard_org reads plan_status in a session of its own.
OffboardBegin(w) ==
  /\ Free(w, "offboard") /\ plan # "canceled"
  /\ tx' = [tx EXCEPT ![w] = [Idle EXCEPT !.op = "offboard", !.at = "package"]]
  /\ org' = [org EXCEPT ![w] = NoOrg]
  /\ UNCHANGED <<rowVars, store, lock, crashes, plan>>

\* Every original that has a key and can still be read; a missing object is
\* passed over (FileNotFoundError).
Package(w) ==
  /\ tx[w].op = "offboard" /\ tx[w].at = "package"
  /\ org' = [org EXCEPT ![w].package = {d \in store \ deleted : Exists(d)}]
  /\ tx' = [tx EXCEPT ![w].at = "query"]
  /\ UNCHANGED <<rowVars, store, lock, crashes, plan>>

\* find_documents_eligible_for_offboarding_purge: whatever its status or age.
OffboardEligible == {d \in Docs : Exists(d) /\ d \notin deleted /\ ~Held(d)}

OffboardQuery(w) ==
  /\ tx[w].op = "offboard" /\ tx[w].at = "query"
  /\ tx' = [tx EXCEPT ![w].at = "loop", ![w].todo = OffboardEligible]
  /\ UNCHANGED <<rowVars, store, lock, crashes, offVars>>

\* After the purges the organization is loaded again, for its plan_status.
LoadOrganization(w) ==
  /\ tx[w].op = "offboard" /\ tx[w].at = "loop" /\ tx[w].todo = {}
  /\ tx' = [tx EXCEPT ![w].at = "cancel"]
  /\ org' = [org EXCEPT ![w].loaded = plan, ![w].target = "canceled"]
  /\ UNCHANGED <<rowVars, store, lock, crashes, plan>>

\* The UPDATE of plan_status leaves out a value equal to the loaded one.
StoredStatus(w) ==
  IF org[w].target = org[w].loaded THEN plan ELSE org[w].target

OffboardCommit(w) ==
  /\ tx[w].op = "offboard" /\ tx[w].at = "cancel" /\ LockGranted(w)
  /\ CommitPurges(w)
  /\ plan' = StoredStatus(w)
  /\ lock' = Released(w)
  /\ tx' = [tx EXCEPT ![w] = Idle]
  /\ org' = [org EXCEPT ![w] = NoOrg]
  /\ UNCHANGED <<phase, hold, store, crashes>>

-----------------------------------------------------------------------------
\* A billing event, or a platform administrator's patch, loads the
\* organization ...
StatusBegin(w, status) ==
  /\ Free(w, "status")
  /\ tx' = [tx EXCEPT ![w] = [Idle EXCEPT !.op = "status"]]
  /\ org' = [org EXCEPT ![w] = [NoOrg EXCEPT !.loaded = plan, !.target = status]]
  /\ UNCHANGED <<rowVars, store, lock, crashes, plan>>

StatusCommitQuietly(w) ==
  /\ tx[w].op = "status"
  /\ plan' = StoredStatus(w)
  /\ tx' = [tx EXCEPT ![w] = Idle]
  /\ org' = [org EXCEPT ![w] = NoOrg]
  /\ UNCHANGED <<rowVars, store, lock, crashes>>

\* ... and writes the status without comparing it with the one it replaces.
StatusCommit(w) ==
  /\ tx[w].op = "status" /\ LockGranted(w)
  /\ plan' = StoredStatus(w)
  /\ tx' = [tx EXCEPT ![w] = Idle]
  /\ org' = [org EXCEPT ![w] = NoOrg]
  /\ UNCHANGED <<rowVars, store, lock, crashes>>

-----------------------------------------------------------------------------
Init == /\ RetInit
        /\ plan = "active"
        /\ org = [w \in Workers |-> NoOrg]

Offboard(w) ==
  \/ OffboardBegin(w) \/ Package(w) \/ OffboardQuery(w)
  \/ LoadOrganization(w) \/ OffboardCommit(w)

ChangeStatus(w) ==
  \/ \E status \in NewStatuses : StatusBegin(w, status)
  \/ StatusCommit(w)

Next ==
  \/ Aging /\ UNCHANGED offVars
  \/ \E w \in Workers :
       \/ (UploadOrHold(w) \/ SweepBegin(w) \/ Purge(w) \/ SweepCommit(w))
            /\ UNCHANGED offVars
       \/ Fail(w) /\ org' = [org EXCEPT ![w] = NoOrg]
                  /\ UNCHANGED plan
       \/ Offboard(w)
       \/ ChangeStatus(w)

Spec == Init /\ [][Next]_vars

\* The event loop runs every open transaction; the advisory lock is granted in
\* the order it is asked for (PostgreSQL), hence strong fairness of what waits
\* for it; the scheduler keeps calling the retention tick.
Fairness ==
  \A w \in Workers :
    /\ WF_vars(\/ (Purge(w) \/ SweepCommit(w)) /\ UNCHANGED offVars
               \/ Package(w) \/ OffboardQuery(w) \/ LoadOrganization(w))
    /\ SF_vars(\/ (RecordPurge(w) \/ UploadCommit(w) \/ HoldCommit(w))
                    /\ UNCHANGED offVars
               \/ OffboardCommit(w) \/ StatusCommit(w))
    /\ SF_vars(SweepBegin(w) /\ UNCHANGED offVars)

FairSpec == Spec /\ Fairness

-----------------------------------------------------------------------------
(* Properties                                                               *)

TypeOK ==
  /\ phase \in [Docs -> {"absent", "active", "due"}]
  /\ deleted \subseteq Docs /\ store \subseteq Docs
  /\ hold \subseteq Targets
  /\ certs \subseteq PurgeEvent
  /\ lock \in Workers \cup {Nobody}
  /\ tx \in [Workers -> Transaction]
  /\ crashes \in Nat
  /\ plan \in PlanStatuses
  /\ org \in [Workers -> OrgRow]

\* A document marked deleted has no object any more, and an event of the purge
\* names its digest - however many sweeps and offboardings overlapped, crashed
\* and came back; an event is about a document that is deleted.
DeletedIsCertified ==
  /\ \A d \in deleted : d \notin store /\ [doc |-> d, digest |-> TRUE] \in certs
  /\ \A e \in certs : e.doc \in deleted

\* Who holds the lock is purging; who has purged a document holds the lock
\* until the commit, and has deleted the objects of what it will mark.
PurgersHoldTheLock ==
  \A w \in Workers :
    /\ lock = w => Purging(w)
    /\ tx[w].done # {} => lock = w
    /\ \A e \in tx[w].done :
         e.doc \notin store /\ Exists(e.doc) /\ (e.digest \/ e.doc \in deleted)

\* The document at hand exists, its objects are gone when its purge is about
\* to be recorded, and a null digest was loaded from a deleted row.
PurgedAreGone ==
  \A w \in Workers :
    /\ \A d \in tx[w].todo : Exists(d)
    /\ tx[w].at \in {"request", "delete", "record"} =>
         /\ tx[w].doc \in Docs /\ Exists(tx[w].doc)
         /\ tx[w].seen \/ tx[w].doc \in deleted
    /\ tx[w].at = "record" => tx[w].doc \notin store

\* No hold can be committed against the lock, so what was checked under it
\* still stands; neither can a plan status.
CheckedUnderLock ==
  \A w \in Workers : lock = w =>
    /\ tx[w].at \in {"request", "delete"} => tx[w].doc \notin hold
    /\ tx[w].at = "delete" => ~Held(tx[w].doc)
    /\ tx[w].at = "cancel" =>
         org[w].loaded = plan /\ org[w].target = "canceled"

\* What uploads and hold requests have at hand; rows are never removed.
RowsAtHand ==
  /\ \A w \in Workers : /\ tx[w].op = "upload" => tx[w].doc \in Docs
                        /\ tx[w].op = "hold" => tx[w].doc \in Targets
  /\ \A d \in deleted : Exists(d)

IInv == /\ TypeOK /\ DeletedIsCertified /\ PurgersHoldTheLock
        /\ PurgedAreGone /\ CheckedUnderLock /\ RowsAtHand

\* The re-check closes the window its docstring is about for every document
\* but the first of a transaction: once a purging transaction holds the
\* advisory lock, no document is destroyed that has a committed hold.  (Before
\* the lock, a hold can still land between the re-check and the deletion.)
HoldBlocksDeletion ==
  [][\A w \in Workers :
       (tx[w].at = "delete" /\ tx'[w].at = "record" /\ tx[w].seen /\ lock = w)
         => ~Held(tx[w].doc)]_vars

\* An offboarding that destroyed something leaves the organization canceled,
\* whatever billing events and patches it overlapped with: they wait for the
\* lock, and plan_status was loaded under it.
PurgingOffboardCancels ==
  [][\A w \in Workers :
       (tx[w].op = "offboard" /\ tx'[w].op = "idle" /\ tx[w].done # {}
          /\ crashes' = crashes)
         => plan' = "canceled"]_vars

\* A document that stays due and free of holds is purged and certified in the
\* end, also when sweeps crashed after they had deleted its objects.
DueEventuallyPurged ==
  \A d \in Docs :
    <>[](phase[d] = "due" /\ ~Held(d)) => <>(d \in deleted)

\* specs/08: "full export package (documents, manifests, audit CSV) then
\* destruction with attestation".  Violated: an upload that commits after the
\* package was built is destroyed without having been in it.
PackageThenDestruction ==
  [][\A w \in Workers :
       (tx[w].at = "cancel" /\ tx'[w].op = "idle" /\ crashes' = crashes)
         => {e.doc : e \in tx[w].done} \subseteq org[w].package]_vars

=============================================================================
