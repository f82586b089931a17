----------------------------- MODULE Retention -----------------------------
(***************************************************************************)
(* The end of a document's life: the retention sweep that deletes the      *)
(* content of exported documents, the legal holds that suspend it, uploads *)
(* and the object store, as overlapping READ COMMITTED transactions of one *)
(* organization.  A purge deletes objects before its transaction commits,  *)
(* and a sweep is one transaction for all the documents it found.  The     *)
(* purge loop is shared with offboarding (module Offboarding).             *)
(*                                                                         *)
(* CheckDocumentUnheld, DeleteObjectsStrict and DigestAfterNull are        *)
(* plausible bugs in the definitions that follow them.                     *)
(***************************************************************************)
EXTENDS Naturals, FiniteSets

CONSTANTS Workers,     \* transactions that may be open at once
          Docs,        \* document ids
          Linked,      \* the documents that belong to the records request
          Request,     \* the records request
          NoDoc,       \* "no document"
          Nobody,      \* "no transaction": owner of a free advisory lock
          Serves,      \* per worker: the kinds of transaction it runs (a
                       \* bound; with all kinds everywhere nothing is bounded)
          Archive,     \* the documents exported long ago when we start looking
          Holdable,    \* the documents and requests that holds are asked for
          MaxCrashes   \* bound on the transactions that fail half-way

\* "status" is a billing event or a platform administrator's patch.
Ops == {"idle", "upload", "hold", "sweep", "offboard", "status"}

Targets == Docs \cup {Request}

ASSUME ConstantsAssumption ==
  /\ Linked \subseteq Docs
  /\ Request \notin Docs
  /\ NoDoc \notin Docs \cup {Request}
  /\ Nobody \notin Workers
  /\ Serves \in [Workers -> SUBSET Ops]
  /\ Archive \subseteq Docs
  /\ Holdable \subseteq Targets
  /\ MaxCrashes \in Nat

VARIABLES
  phase,      \* per document: "absent" (no row), "active", "due" (exported,
              \* and older than the retention period)
  deleted,    \* documents whose row has deleted_at; s3_key_original and
              \* content_sha256 are null exactly for these
  hold,       \* the documents and requests with legal_hold
  store,      \* documents whose original is in the object store
  certs,      \* committed document.retention_purged events
  lock,       \* owner of the organization's advisory lock
  tx,         \* per worker: its open transaction
  crashes     \* transactions that failed so far

rowVars == <<phase, deleted, hold, certs>>
retVars == <<rowVars, store, lock, tx, crashes>>

\* An event of the audit trail: the purged document, and whether
\* sha256_at_purge is there.
PurgeEvent == [doc : Docs, digest : BOOLEAN]

\* Where a transaction stands.  "loop", "request", "delete" and "record" are
\* the purge loop; "package", "query" and "cancel" belong to Offboarding.
Places == {"start", "package", "query", "loop", "request", "delete", "record",
           "cancel"}

Transaction ==
  [op   : Ops,
   at   : Places,
   todo : SUBSET Docs,            \* ids found eligible and not yet visited
   doc  : Targets \cup {NoDoc},   \* the row at hand
   seen : BOOLEAN,                \* what was loaded of it: a digest (purge),
                                  \* the hold (hold requests)
   want : BOOLEAN,                \* the hold asked for
   done : SUBSET PurgeEvent]      \* flushed, not yet committed

Idle == [op |-> "idle", at |-> "start", todo |-> {}, doc |-> NoDoc,
         seen |-> FALSE, want |-> FALSE, done |-> {}]

\* A worker takes on a new request.
Free(w, op) == tx[w].op = "idle" /\ op \in Serves[w]

\* A hold on the document or on its request.
Held(d) == d \in hold \/ (d \in Linked /\ Request \in hold)

\* pg_advisory_xact_lock in write_audit_event: granted to one transaction of
\* the organization at a time, and kept until that transaction ends.
LockGranted(w) == lock \in {Nobody, w}

Released(w) == IF lock = w THEN Nobody ELSE lock

-----------------------------------------------------------------------------
(* Uploads, exports, holds                                                  *)

\* _create_and_process_document puts the original before it inserts the row.
UploadPut(w, d) ==
  /\ Free(w, "upload")
  /\ phase[d] = "absent" /\ d \notin store
  /\ tx' = [tx EXCEPT ![w] = [Idle EXCEPT !.op = "upload", !.doc = d]]
  /\ store' = store \cup {d}
  /\ UNCHANGED <<rowVars, lock, crashes>>

\* The row, its audit event and the outcome of the pipeline commit together.
UploadCommit(w) ==
  /\ tx[w].op = "upload" /\ LockGranted(w)
  /\ phase' = [phase EXCEPT ![tx[w].doc] = "active"]
  /\ tx' = [tx EXCEPT ![w] = Idle]
  /\ UNCHANGED <<deleted, hold, certs, store, lock, crashes>>

\* The first export of the document, and then the retention period.
ComeDue(d) ==
  /\ phase[d] = "active" /\ d \notin deleted /\ lock = Nobody
  /\ phase' = [phase EXCEPT ![d] = "due"]
  /\ UNCHANGED <<deleted, hold, certs, store, lock, tx, crashes>>

\* complete_review has no status guard: an exported document can go back.
Reopen(d) ==
  /\ phase[d] = "due" /\ d \notin deleted /\ lock = Nobody
  /\ phase' = [phase EXCEPT ![d] = "active"]
  /\ UNCHANGED <<deleted, hold, certs, store, lock, tx, crashes>>

\* set_..._legal_hold and clear_..._legal_hold load the row ...
HoldBegin(w, t, value) ==
  /\ Free(w, "hold")
  /\ t \in Docs => phase[t] # "absent"
  /\ tx' = [tx EXCEPT ![w] = [Idle EXCEPT !.op = "hold", !.doc = t,
                                          !.seen = t \in hold, !.want = value]]
  /\ UNCHANGED <<rowVars, store, lock, crashes>>

\* ... and the UPDATE leaves out an attribute that keeps its loaded value.
HoldCommit(w) ==
  /\ tx[w].op = "hold" /\ LockGranted(w)
  /\ hold' = CASE tx[w].want = tx[w].seen -> hold
               [] tx[w].want /\ ~tx[w].seen -> hold \cup {tx[w].doc}
               [] ~tx[w].want /\ tx[w].seen -> hold \ {tx[w].doc}
  /\ tx' = [tx EXCEPT ![w] = Idle]
  /\ UNCHANGED <<phase, deleted, certs, store, lock, crashes>>

-----------------------------------------------------------------------------
(* The sweep                                                                *)

\* find_documents_eligible_for_purge
Eligible == {d \in Docs : phase[d] = "due" /\ d \notin deleted /\ ~Held(d)}

SweepBegin(w) ==
  /\ Free(w, "sweep")
  /\ Eligible # {}
  /\ tx' = [tx EXCEPT ![w] = [Idle EXCEPT !.op = "sweep", !.at = "loop",
                                          !.todo = Eligible]]
  /\ UNCHANGED <<rowVars, store, lock, crashes>>

Purging(w) == tx[w].op \in {"sweep", "offboard"}

\* A document that turns out to be held is left out.
Skip(w, d) ==
  tx' = [tx EXCEPT ![w].at = "loop", ![w].todo = @ \ {d}, ![w].doc = NoDoc,
                   ![w].seen = FALSE]

CheckDocumentUnheld(w, d) ==
  /\ Purging(w) /\ tx[w].at = "loop" /\ d \in tx[w].todo
  /\ tx' = [tx EXCEPT ![w].at = IF d \in Linked THEN "request" ELSE "delete",
                      ![w].doc = d, ![w].seen = d \notin deleted]
  /\ UNCHANGED <<rowVars, store, lock, crashes>>

\* purge_document_content loads the document and looks at its hold again ...
CheckDocument(w, d) ==
  /\ Purging(w) /\ tx[w].at = "loop" /\ d \in tx[w].todo
  /\ IF d \in hold
       THEN Skip(w, d)
       ELSE tx' = [tx EXCEPT
                     ![w].at = IF d \in Linked THEN "request" ELSE "delete",
                     ![w].doc = d, ![w].seen = d \notin deleted]
  /\ UNCHANGED <<rowVars, store, lock, crashes>>

\* ... then, in a second SELECT, at the hold of its request.
CheckRequest(w) ==
  /\ Purging(w) /\ tx[w].at = "request"
  /\ IF Request \in hold
       THEN Skip(w, tx[w].doc)
       ELSE tx' = [tx EXCEPT ![w].at = "delete"]
  /\ UNCHANGED <<rowVars, store, lock, crashes>>

DeleteObjectsStrict(w) ==
  /\ Purging(w) /\ tx[w].at = "delete"
  /\ tx[w].seen => tx[w].doc \in store
  /\ store' = store \ {tx[w].doc}
  /\ tx' = [tx EXCEPT ![w].at = "record"]
  /\ UNCHANGED <<rowVars, lock, crashes>>

\* store.delete of the original and the previews: deleting what is gone is no
\* error, a null key has nothing to delete.
DeleteObjects(w) ==
  /\ Purging(w) /\ tx[w].at = "delete"
  /\ store' = IF tx[w].seen THEN store \ {tx[w].doc} ELSE store
  /\ tx' = [tx EXCEPT ![w].at = "record"]
  /\ UNCHANGED <<rowVars, lock, crashes>>

DigestAfterNull(w) == FALSE

\* sha256_at_purge is read before the column is nulled.
DigestAtPurge(w) == tx[w].seen

\* The columns are nulled; write_audit_event takes the lock and flushes.
RecordPurge(w) ==
  /\ Purging(w) /\ tx[w].at = "record" /\ LockGranted(w)
  /\ lock' = w
  /\ tx' = [tx EXCEPT ![w].at = "loop", ![w].todo = @ \ {tx[w].doc},
                      ![w].doc = NoDoc, ![w].seen = FALSE,
                      ![w].done = @ \cup {[doc |-> tx[w].doc,
                                           digest |-> DigestAtPurge(w)]}]
  /\ UNCHANGED <<rowVars, store, crashes>>

\* What a purging transaction makes visible when it commits.
CommitPurges(w) ==
  /\ deleted' = deleted \cup {e.doc : e \in tx[w].done}
  /\ certs' = certs \cup tx[w].done

SweepCommit(w) ==
  /\ tx[w].op = "sweep" /\ tx[w].at = "loop" /\ tx[w].todo = {}
  /\ CommitPurges(w)
  /\ lock' = Released(w)
  /\ tx' = [tx EXCEPT ![w] = Idle]
  /\ UNCHANGED <<phase, hold, store, crashes>>

\* Any transaction may fail: rows and events roll back, objects do not.
Fail(w) ==
  /\ tx[w].op # "idle" /\ crashes < MaxCrashes
  /\ crashes' = crashes + 1
  /\ lock' = Released(w)
  /\ tx' = [tx EXCEPT ![w] = Idle]
  /\ UNCHANGED <<rowVars, store>>

-----------------------------------------------------------------------------
RetInit ==
  /\ phase = [d \in Docs |-> IF d \in Archive THEN "due" ELSE "absent"]
  /\ deleted = {} /\ hold = {} /\ store = Archive
  /\ certs = {}
  /\ lock = Nobody
  /\ tx = [w \in Workers |-> Idle]
  /\ crashes = 0

UploadOrHold(w) ==
  \/ \E d \in Docs : UploadPut(w, d)
  \/ UploadCommit(w)
  \/ \E t \in Holdable, value \in BOOLEAN : HoldBegin(w, t, value)
  \/ HoldCommit(w)

Purge(w) ==
  \/ \E d \in Docs : CheckDocument(w, d)
  \/ CheckRequest(w) \/ DeleteObjects(w) \/ RecordPurge(w)

Aging == \E d \in Docs : ComeDue(d) \/ Reopen(d)

=============================================================================
