--------------------------- MODULE DocumentReview ---------------------------
(***************************************************************************)
(* One document from upload to export: detection candidates, review        *)
(* decisions, sign-off, re-processing and export, as executed by API       *)
(* requests that run concurrently.                                         *)
(*                                                                         *)
(* A request is one READ COMMITTED transaction (db/session.py org_session):*)
(* it loads rows, computes, and writes at the end.  write_audit_event      *)
(* takes the organization's advisory lock before the pending ORM changes   *)
(* are flushed, so a request is                                            *)
(*                                                                         *)
(*    idle -> begun -> loaded -> ready -> locked -> (commit | rollback)    *)
(*                                                                         *)
(* with unlocked reads on the way to "ready" and one atomic write out of   *)
(* "locked".  reprocess_document differs: it flushes its documents row     *)
(* ("detecting") and its candidate rows before it asks for the advisory    *)
(* lock, and holds those row locks meanwhile.                              *)
(*                                                                         *)
(* The ORM's UPDATE names only the attributes whose new value differs from *)
(* the value loaded: see Written.                                          *)
(*                                                                         *)
(* The definitions named after another one (DroppedDecided, ...) are       *)
(* plausible bugs in it; no action uses them.  Put in its place, each one  *)
(* makes a property of the runs fail.                                      *)
(***************************************************************************)
EXTENDS Naturals, FiniteSets

CONSTANTS
    Workers,        \* concurrent API requests
    CandIds,        \* candidate ids the run may allocate (a bound)
    Spans,          \* text spans detection may flag
    Codes,          \* exemption codes of the organization
    NoCode,         \* exemption_code_id IS NULL
    NoSpan,         \* text_span of a candidate detection did not produce
    MaxVersion,     \* bound on manifests.version: no request bumps it further
    DualApproval,   \* org.settings["dual_approval_required"]
    Ops,            \* operations the clients of this run call
    PatchGoals,     \* states clients of PATCH /candidates/{id} ask for
    IfMatches,      \* If-Match versions they send, 0 for no header
    OcrOutcomes     \* may an upload have a badly read page?

VARIABLES
    status,     \* documents.status
    lowOcr,     \* some page has ocr_confidence < LOW_OCR_CONFIDENCE_THRESHOLD
    version,    \* manifests.version, 0 while the document has no manifest
    cands,      \* redaction_candidates rows of the document
    escalated,  \* candidates with escalated_at set
    actions,    \* kinds of document-level review_actions rows
    acted,      \* candidates some review_actions row names
    artifacts,  \* export_artifacts rows (clean_pdf)
    blob,       \* what exports/{doc_id}/clean_pdf holds: {} or {the boxes burnt in}
    trail,      \* audit_events of the export stage that are committed
    pager,      \* the integrity failure alarm has been logged
    req         \* the request each worker executes

vars == <<status, lowOcr, version, cands, escalated, actions, acted,
          artifacts, blob, trail, pager, req>>

docVars == <<status, lowOcr, version, cands, escalated, actions, acted>>
exportVars == <<artifacts, blob, trail, pager>>

-----------------------------------------------------------------------------
(* Values *)

\* Statuses a committed transaction can leave: process_document and
\* reprocess_document overwrite "extracting" and "detecting" before they commit.
Statuses == {"absent", "error", "ready_for_review", "in_review",
             "awaiting_approval", "review_complete", "exported"}

DecidedStates == {"approved", "rejected", "modified"}
CandStates == DecidedStates \cup {"suggested"}
Boxes == {"detected", "hand"}
DocActions == {"complete_review", "approve_doc", "return_doc"}

ASSUME ConstantsAssumption ==
    /\ MaxVersion \in Nat \ {0}
    /\ DualApproval \in BOOLEAN
    /\ NoCode \notin Codes
    /\ NoSpan \notin Spans
    /\ PatchGoals \subseteq CandStates \cup {"keep"}
    /\ IfMatches \subseteq 0..MaxVersion
    /\ OcrOutcomes \subseteq BOOLEAN

Candidate ==
    [state: CandStates \cup {"unborn", "gone"}, code: Codes \cup {NoCode},
     human: BOOLEAN, span: Spans \cup {NoSpan}, low: BOOLEAN, box: Boxes]

Unborn == [state |-> "unborn", code |-> NoCode, human |-> FALSE,
           span |-> NoSpan, low |-> FALSE, box |-> "detected"]
Gone == [Unborn EXCEPT !.state = "gone"]

AllOps == {"patch", "create", "search", "bulk", "complete", "approve_doc",
           "return_doc", "escalate", "resolve", "export", "reprocess"}
SignOffOps == {"complete", "approve_doc", "return_doc"}
Stages == {"idle", "begun", "loaded", "detecting", "ready", "locked"}

Request ==
    [op: AllOps \cup {"none"}, stage: Stages, rows: SUBSET CandIds,
     goal: CandStates \cup {"keep"}, code: Codes \cup {NoCode}, hand: BOOLEAN,
     ifMatch: 0..MaxVersion, status: Statuses, version: 0..MaxVersion,
     seen: [CandIds -> Candidate], found: SUBSET Spans, low: SUBSET Spans]

NothingSeen == [c \in CandIds |-> Unborn]

Idle ==
    [op |-> "none", stage |-> "idle", rows |-> {}, goal |-> "keep",
     code |-> NoCode, hand |-> FALSE, ifMatch |-> 0, status |-> "absent",
     version |-> 0, seen |-> NothingSeen, found |-> {}, low |-> {}]

Live(c) == cands[c].state \in CandStates
Decided(c) == cands[c].state \in DecidedStates
Fresh == {c \in CandIds : cands[c].state = "unborn"}
Approved == {c \in CandIds : cands[c].state = "approved"}
UnresolvedLow == {c \in CandIds : cands[c].state = "suggested" /\ cands[c].low}

\* The rows of R as loaded now; the others stay blank.
Snapshot(R) == [c \in CandIds |-> IF c \in R THEN cands[c] ELSE Unborn]

\* What the row holds after the ORM flushes an attribute loaded as `loaded`
\* and set to `new`, when the row by then holds `stored`.
Written(new, loaded, stored) == IF new = loaded THEN stored ELSE new

-----------------------------------------------------------------------------
(* Row locks and the organization's advisory lock *)

OrgLockFree == \A v \in Workers : req[v].stage # "locked"

\* Only reprocess_document holds row locks while it does other things.
HoldsRows(v) ==
    /\ req[v].op = "reprocess"
    /\ req[v].stage \in {"detecting", "ready", "locked"}

Refreshed(r) == {c \in r.rows : r.seen[c].state = "suggested" /\ r.seen[c].span \in r.found}
DroppedDecided(r) == {c \in r.rows : r.seen[c].span \notin r.found}
DroppedRefound(r) == {c \in r.rows : r.seen[c].state = "suggested"}
Dropped(r) == {c \in r.rows : r.seen[c].state = "suggested" /\ r.seen[c].span \notin r.found}
\* Refreshed rows whose detection metadata the new pass changes.
Changed(r) == {c \in Refreshed(r) : \/ r.seen[c].box # "detected"
                                    \/ r.seen[c].low # (r.seen[c].span \in r.low)}
LockedRows(v) ==
    IF HoldsRows(v) /\ req[v].stage # "detecting"
    THEN Dropped(req[v]) \cup Changed(req[v])
    ELSE {}

\* The status a sign-off or an export assigns.
NewStatus(op) ==
    [complete    |-> IF DualApproval THEN "awaiting_approval" ELSE "review_complete",
     approve_doc |-> "review_complete",
     return_doc  |-> "in_review",
     export      |-> "exported"][op]

WritesDocument(r) ==
    r.op \in SignOffOps \cup {"export"} /\ NewStatus(r.op) # r.status

\* Attributes a candidate edit assigns, over the values loaded.
EditedState(r, c) == IF r.goal = "keep" THEN r.seen[c].state ELSE r.goal
EditedCode(r, c) == IF r.code = NoCode THEN r.seen[c].code ELSE r.code
EditedBox(r, c) == IF r.hand THEN "hand" ELSE r.seen[c].box

DirtyRows(r) ==
    IF r.op \in {"escalate", "resolve"} THEN r.rows
    ELSE IF r.op \in {"patch", "bulk"}
         THEN {c \in r.rows : \/ EditedState(r, c) # r.seen[c].state
                              \/ EditedCode(r, c) # r.seen[c].code
                              \/ EditedBox(r, c) # r.seen[c].box}
         ELSE {}

\* Request w cannot flush while v holds a row that it updates.
BlockedBy(w, v) ==
    /\ v # w
    /\ HoldsRows(v)
    /\ \/ WritesDocument(req[w])
       \/ DirtyRows(req[w]) \cap LockedRows(v) # {}

CanFlush(w) == req[w].stage = "locked" /\ \A v \in Workers : ~BlockedBy(w, v)

End(w) == req' = [req EXCEPT ![w] = Idle]

-----------------------------------------------------------------------------
(* Upload: the whole request is one transaction nobody sees until it commits. *)

Init ==
    /\ status = "absent"
    /\ lowOcr = FALSE
    /\ version = 0
    /\ cands = [c \in CandIds |-> Unborn]
    /\ escalated = {}
    /\ actions = {}
    /\ acted = {}
    /\ artifacts = {}
    /\ blob = {}
    /\ trail = {}
    /\ pager = FALSE
    /\ req = [w \in Workers |-> Idle]

Detected(span, code, low) ==
    [state |-> "suggested", code |-> code, human |-> FALSE, span |-> span,
     low |-> low, box |-> "detected"]

\* The rows after detection's new findings are inserted under fresh ids.
Inserted(table, ids, code, low) ==
    [c \in CandIds |->
        IF \E s \in DOMAIN ids : ids[s] = c
        THEN LET s == CHOOSE s \in DOMAIN ids : ids[s] = c
             IN Detected(s, code, s \in low)
        ELSE table[c]]

Injective(ids) == \A s, t \in DOMAIN ids : ids[s] = ids[t] => s = t

\* process_document succeeds: the findings are merged, one row for each span.
Upload(found, low, code, badOcr) ==
    /\ status = "absent"
    /\ low \subseteq found
    /\ \E ids \in [found -> Fresh] :
          /\ Injective(ids)
          /\ cands' = Inserted(cands, ids, code, low)
    /\ status' = "ready_for_review"
    /\ version' = 1
    /\ lowOcr' = badOcr
    /\ UNCHANGED <<escalated, actions, acted, exportVars, req>>

\* It raises after any of its flushes: the router marks the document "error" and
\* commits what was flushed.  Findings are merged only when every page is done,
\* so the rows (`at` says where each one is) may be several of one span.
UploadFailed(at, low, code, badOcr) ==
    /\ status = "absent"
    /\ cands' = [c \in CandIds |->
                    IF c \in DOMAIN at THEN Detected(at[c], code, c \in low) ELSE cands[c]]
    /\ status' = "error"
    /\ version' = 0
    /\ lowOcr' = badOcr
    /\ UNCHANGED <<escalated, actions, acted, exportVars, req>>

-----------------------------------------------------------------------------
(* Candidate edits *)

\* A request starts; r says what it loaded first.
Begin(w, op, r) ==
    /\ op \in Ops
    /\ req[w].stage = "idle"
    /\ status # "absent"
    /\ req' = [req EXCEPT ![w] = r]
    /\ UNCHANGED <<docVars, exportVars>>

PatchBegin(w, c, goal, code, hand, ifMatch) ==
    /\ Live(c)
    /\ Begin(w, "patch",
          [Idle EXCEPT !.op = "patch", !.stage = "begun", !.rows = {c},
                       !.goal = goal, !.code = code, !.hand = hand,
                       !.ifMatch = ifMatch, !.seen = Snapshot({c})])

PatchAcceptedUncited(r) ==
    /\ version \in 1..(MaxVersion - 1)
    /\ r.ifMatch \in {0, version}

\* Loads the manifest; 404 without one, 409 on a stale If-Match, 422 when an
\* approval has no exemption code.
PatchAccepted(r) ==
    /\ version \in 1..(MaxVersion - 1)
    /\ r.ifMatch \in {0, version}
    /\ r.goal = "approved" => \A c \in r.rows : EditedCode(r, c) # NoCode

PatchLoad(w) ==
    /\ req[w].op = "patch" /\ req[w].stage = "begun"
    /\ req' = [req EXCEPT ![w] =
                  IF PatchAccepted(@)
                  THEN [@ EXCEPT !.stage = "ready", !.version = version]
                  ELSE Idle]
    /\ UNCHANGED <<docVars, exportVars>>

BulkBegin(w, R, goal, code) ==
    /\ R # {} /\ \A c \in R : Live(c)
    /\ goal = "approved" => code # NoCode
    /\ Begin(w, "bulk",
          [Idle EXCEPT !.op = "bulk", !.stage = "begun", !.rows = R,
                       !.goal = goal, !.seen = Snapshot(R),
                       !.code = IF goal = "approved" THEN code ELSE NoCode])

BulkLoad(w) ==
    /\ req[w].op = "bulk" /\ req[w].stage = "begun"
    /\ req' = [req EXCEPT ![w] =
                  IF version \in 1..(MaxVersion - 1)
                  THEN [@ EXCEPT !.stage = "ready", !.version = version]
                  ELSE Idle]
    /\ UNCHANGED <<docVars, exportVars>>

\* Rows that must still exist at the flush: patch_candidate refreshes its row
\* even when no attribute of it changed.
RowsNeeded(r) ==
    IF r.op \in {"bulk", "escalate", "resolve"} THEN DirtyRows(r)
    ELSE IF r.op = "patch" THEN r.rows ELSE {}

\* A bulk reject leaves the exemption code alone; a patch without one too.
EditedRow(r, c) ==
    [cands[c] EXCEPT !.state = Written(EditedState(r, c), r.seen[c].state, @),
                     !.code = Written(EditedCode(r, c), r.seen[c].code, @),
                     !.box = Written(EditedBox(r, c), r.seen[c].box, @)]

EditCommitUnrecorded(w) ==
    /\ req[w].op \in {"patch", "bulk"}
    /\ CanFlush(w)
    /\ \A c \in RowsNeeded(req[w]) : Live(c)
    /\ cands' = [c \in CandIds |-> IF c \in req[w].rows THEN EditedRow(req[w], c) ELSE cands[c]]
    /\ version' = req[w].version + 1
    /\ acted' = IF req[w].op = "patch" THEN acted \cup req[w].rows ELSE acted
    /\ End(w)
    /\ UNCHANGED <<status, lowOcr, escalated, actions, exportVars>>

EditCommit(w) ==
    /\ req[w].op \in {"patch", "bulk"}
    /\ CanFlush(w)
    /\ \A c \in RowsNeeded(req[w]) : Live(c)
    /\ cands' = [c \in CandIds |-> IF c \in req[w].rows THEN EditedRow(req[w], c) ELSE cands[c]]
    /\ version' = req[w].version + 1
    /\ acted' = acted \cup req[w].rows
    /\ End(w)
    /\ UNCHANGED <<status, lowOcr, escalated, actions, exportVars>>

\* create_manual_candidate ("create") and search_and_redact ("search") insert
\* approved rows; only the first writes review_actions.
InsertBegin(w, op, code) ==
    /\ version \in 1..(MaxVersion - 1)
    /\ Begin(w, op,
          [Idle EXCEPT !.op = op, !.stage = "ready", !.code = code,
                       !.version = version])

HumanRow(code) ==
    [state |-> "approved", code |-> code, human |-> TRUE, span |-> NoSpan,
     low |-> FALSE, box |-> "hand"]

InsertCommitUnversioned(w, R) ==
    /\ req[w].op \in {"create", "search"}
    /\ CanFlush(w)
    /\ R # {} /\ R \subseteq Fresh
    /\ req[w].op = "create" => Cardinality(R) = 1
    /\ cands' = [c \in CandIds |-> IF c \in R THEN HumanRow(req[w].code) ELSE cands[c]]
    /\ acted' = IF req[w].op = "create" THEN acted \cup R ELSE acted
    /\ End(w)
    /\ UNCHANGED <<status, lowOcr, version, escalated, actions, exportVars>>

InsertCommit(w, R) ==
    /\ req[w].op \in {"create", "search"}
    /\ CanFlush(w)
    /\ R # {} /\ R \subseteq Fresh
    /\ req[w].op = "create" => Cardinality(R) = 1
    /\ cands' = [c \in CandIds |-> IF c \in R THEN HumanRow(req[w].code) ELSE cands[c]]
    /\ version' = req[w].version + 1
    /\ acted' = IF req[w].op = "create" THEN acted \cup R ELSE acted
    /\ End(w)
    /\ UNCHANGED <<status, lowOcr, escalated, actions, exportVars>>

\* escalate_candidate and resolve_escalation leave state and version alone.
EscalateBegin(w, op, c) ==
    /\ Live(c)
    /\ op = "resolve" => c \in escalated
    /\ Begin(w, op,
          [Idle EXCEPT !.op = op, !.stage = "ready", !.rows = {c},
                       !.seen = Snapshot({c})])

EscalateCommit(w) ==
    /\ req[w].op \in {"escalate", "resolve"}
    /\ CanFlush(w)
    /\ \A c \in RowsNeeded(req[w]) : Live(c)
    /\ escalated' = IF req[w].op = "escalate" THEN escalated \cup req[w].rows
                                              ELSE escalated \ req[w].rows
    /\ acted' = acted \cup req[w].rows
    /\ End(w)
    /\ UNCHANGED <<status, lowOcr, version, cands, actions, exportVars>>

\* A row the request updates was deleted meanwhile: StaleDataError, rollback.
StaleRow(w) ==
    /\ CanFlush(w)
    /\ \E c \in RowsNeeded(req[w]) : ~Live(c)
    /\ End(w)
    /\ UNCHANGED <<docVars, exportVars>>

-----------------------------------------------------------------------------
(* Sign-off *)

CompleteBegin(w) ==
    Begin(w, "complete",
        [Idle EXCEPT !.op = "complete", !.stage = "begun", !.status = status])

ChecklistSkipsOcr == UnresolvedLow = {}

\* The completeness checklist: 422 on an unresolved low-confidence candidate
\* or a badly read page.
ChecklistPassed == UnresolvedLow = {} /\ ~lowOcr

CompleteLoad(w) ==
    /\ req[w].op = "complete" /\ req[w].stage = "begun"
    /\ req' = [req EXCEPT ![w] =
                  IF ChecklistPassed THEN [@ EXCEPT !.stage = "ready"] ELSE Idle]
    /\ UNCHANGED <<docVars, exportVars>>

SignOffBeginAnyStatus(w, op) ==
    Begin(w, op, [Idle EXCEPT !.op = op, !.stage = "ready", !.status = status])

\* approve_document and return_document: a supervisor, from awaiting_approval.
SignOffBegin(w, op) ==
    /\ status = "awaiting_approval"
    /\ Begin(w, op, [Idle EXCEPT !.op = op, !.stage = "ready", !.status = status])

ReviewAction(op) == IF op = "complete" THEN "complete_review" ELSE op

SignOffCommit(w) ==
    /\ req[w].op \in SignOffOps
    /\ CanFlush(w)
    /\ status' = Written(NewStatus(req[w].op), req[w].status, status)
    /\ actions' = actions \cup {ReviewAction(req[w].op)}
    /\ End(w)
    /\ UNCHANGED <<lowOcr, version, cands, escalated, acted, exportVars>>

-----------------------------------------------------------------------------
(* Export *)

ExportBeginReviewed(w) ==
    /\ status \in {"review_complete", "awaiting_approval"}
    /\ Begin(w, "export",
          [Idle EXCEPT !.op = "export", !.stage = "begun", !.status = status])

ExportBegin(w) ==
    /\ status = "review_complete"
    /\ Begin(w, "export",
          [Idle EXCEPT !.op = "export", !.stage = "begun", !.status = status])

ExportLoad(w) ==
    /\ req[w].op = "export" /\ req[w].stage = "begun"
    /\ req' = [req EXCEPT ![w] =
                  IF version > 0
                  THEN [@ EXCEPT !.stage = "loaded", !.version = version]
                  ELSE Idle]
    /\ UNCHANGED <<docVars, exportVars>>

ExportRenderDecided(w) ==
    /\ req[w].op = "export" /\ req[w].stage = "loaded"
    /\ req' = [req EXCEPT ![w].stage = "ready", ![w].rows = {c \in CandIds : Decided(c)}]
    /\ blob' = {{c \in CandIds : Decided(c)}}
    /\ UNCHANGED <<docVars, artifacts, trail, pager>>

\* Burn in the approved boxes, verify, and put the bytes in the object store:
\* the put is outside the transaction.
ExportRender(w) ==
    /\ req[w].op = "export" /\ req[w].stage = "loaded"
    /\ req' = [req EXCEPT ![w].stage = "ready", ![w].rows = Approved]
    /\ blob' = {Approved}
    /\ UNCHANGED <<docVars, artifacts, trail, pager>>

\* The verifier fails: the alarm is logged, export.integrity_failed is flushed
\* and the ApiError raised next rolls it back.
ExportBlocked(w) ==
    /\ req[w].op = "export" /\ req[w].stage = "loaded"
    /\ pager' = TRUE
    /\ End(w)
    /\ UNCHANGED <<docVars, artifacts, blob, trail>>

ExportCommit(w) ==
    /\ req[w].op = "export"
    /\ CanFlush(w)
    /\ artifacts' = artifacts \cup {[version |-> req[w].version, redacted |-> req[w].rows]}
    /\ status' = Written("exported", req[w].status, status)
    /\ trail' = trail \cup {"export.created"}
    /\ End(w)
    /\ UNCHANGED <<lowOcr, version, cands, escalated, actions, acted, blob, pager>>

-----------------------------------------------------------------------------
(* Re-processing *)

ReprocessBegin(w) ==
    /\ status # "exported"
    /\ Begin(w, "reprocess",
          [Idle EXCEPT !.op = "reprocess", !.stage = "begun", !.status = status])

HasIdentityKeyHuman(c) == Live(c)

\* Rows with an identity key: human-authored candidates have none.
HasIdentityKey(c) == Live(c) /\ ~cands[c].human

\* existing_by_key holds one row per span; among duplicates the query order
\* decides which.
ExistingByKey(R) ==
    /\ R \subseteq {c \in CandIds : HasIdentityKey(c)}
    /\ \A c, d \in R : cands[c].span = cands[d].span => c = d
    /\ \A c \in CandIds : HasIdentityKey(c) => \E d \in R : cands[d].span = cands[c].span

ReprocessLoad(w, R) ==
    /\ req[w].op = "reprocess" /\ req[w].stage = "begun"
    /\ ExistingByKey(R)
    /\ req' = [req EXCEPT ![w].stage = "loaded", ![w].rows = R, ![w].seen = Snapshot(R)]
    /\ UNCHANGED <<docVars, exportVars>>

\* Flushes documents.status = "detecting": the row lock is held to the end.
ReprocessDetecting(w) ==
    /\ req[w].op = "reprocess" /\ req[w].stage = "loaded"
    /\ \A v \in Workers : ~HoldsRows(v)
    /\ req' = [req EXCEPT ![w].stage = "detecting"]
    /\ UNCHANGED <<docVars, exportVars>>

NewSpansAll(r) == r.found

NewSpans(r) == r.found \ {r.seen[c].span : c \in r.rows}

\* Detection over the stored original, the diff against the rows loaded, its
\* flush (StaleDataError when a row it updates is gone) and the manifest read
\* (`.one()` raises without a manifest).  The last conjunct of ok bounds the run.
ReprocessDiff(w, found, low) ==
    /\ req[w].op = "reprocess" /\ req[w].stage = "detecting"
    /\ low \subseteq found
    /\ LET r == [req[w] EXCEPT !.stage = "ready", !.found = found, !.low = low,
                               !.version = version]
           ok == /\ version \in 1..(MaxVersion - 1)
                 /\ \A c \in Changed(r) : Live(c)
                 /\ Cardinality(NewSpans(r)) <= Cardinality(Fresh)
       IN req' = [req EXCEPT ![w] = IF ok THEN r ELSE Idle]
    /\ UNCHANGED <<docVars, exportVars>>

RefreshedRow(r, c) ==
    [cands[c] EXCEPT !.box = Written("detected", r.seen[c].box, @),
                     !.low = Written(r.seen[c].span \in r.low, r.seen[c].low, @)]

Diffed(r) ==
    [c \in CandIds |->
        IF c \in Dropped(r) THEN Gone
        ELSE IF c \in Changed(r) THEN RefreshedRow(r, c) ELSE cands[c]]

ReprocessCommit(w, code) ==
    /\ req[w].op = "reprocess"
    /\ CanFlush(w)
    /\ \E ids \in [NewSpans(req[w]) -> Fresh] :
          /\ Injective(ids)
          /\ cands' = Inserted(Diffed(req[w]), ids, code, req[w].low)
    /\ escalated' = escalated \ Dropped(req[w])
    /\ version' = req[w].version + 1
    /\ status' = "ready_for_review"
    /\ End(w)
    /\ UNCHANGED <<lowOcr, actions, acted, exportVars>>

-----------------------------------------------------------------------------
(* The transaction machinery *)

\* write_audit_event: pg_advisory_xact_lock(hashtext(org_id)).
TakeOrgLock(w) ==
    /\ req[w].stage = "ready"
    /\ OrgLockFree
    /\ req' = [req EXCEPT ![w].stage = "locked"]
    /\ UNCHANGED <<docVars, exportVars>>

DeadlockCycleDocumentOnly(w, v) ==
    /\ req[w].stage = "locked" /\ WritesDocument(req[w])
    /\ BlockedBy(w, v) /\ req[v].stage = "ready"

\* w holds the advisory lock and needs a row of v; v needs the advisory lock.
DeadlockCycle(w, v) ==
    req[w].stage = "locked" /\ BlockedBy(w, v) /\ req[v].stage = "ready"

\* Postgres aborts one of the two.
DeadlockVictim(u) ==
    /\ \E w, v \in Workers : DeadlockCycle(w, v) /\ u \in {w, v}
    /\ End(u)
    /\ UNCHANGED <<docVars, exportVars>>

\* The API instance dies, the client goes away, or anything raises: rollback.
Abort(w) ==
    /\ req[w].stage # "idle"
    /\ End(w)
    /\ UNCHANGED <<docVars, exportVars>>

-----------------------------------------------------------------------------

UploadAny ==
    \E code \in Codes \cup {NoCode}, badOcr \in OcrOutcomes :
        \/ \E found, low \in SUBSET Spans : Upload(found, low, code, badOcr)
        \/ \E ids \in SUBSET Fresh : \E at \in [ids -> Spans], low \in SUBSET ids :
                UploadFailed(at, low, code, badOcr)

Start(w) ==
    \/ \E c \in CandIds, goal \in PatchGoals, code \in Codes \cup {NoCode},
          hand \in BOOLEAN, ifMatch \in IfMatches :
            PatchBegin(w, c, goal, code, hand, ifMatch)
    \/ \E R \in SUBSET CandIds, goal \in {"approved", "rejected"}, code \in Codes \cup {NoCode} :
            BulkBegin(w, R, goal, code)
    \/ \E op \in {"create", "search"}, code \in Codes : InsertBegin(w, op, code)
    \/ \E op \in {"escalate", "resolve"}, c \in CandIds : EscalateBegin(w, op, c)
    \/ CompleteBegin(w)
    \/ \E op \in {"approve_doc", "return_doc"} : SignOffBegin(w, op)
    \/ ExportBegin(w)
    \/ ReprocessBegin(w)

Load(w) ==
    \/ PatchLoad(w)
    \/ BulkLoad(w)
    \/ CompleteLoad(w)
    \/ ExportLoad(w)
    \/ ExportRender(w)
    \/ ExportBlocked(w)
    \/ \E R \in SUBSET CandIds : ReprocessLoad(w, R)
    \/ \E found, low \in SUBSET Spans : ReprocessDiff(w, found, low)

Commit(w) ==
    \/ EditCommit(w)
    \/ \E R \in SUBSET CandIds : InsertCommit(w, R)
    \/ EscalateCommit(w)
    \/ StaleRow(w)
    \/ SignOffCommit(w)
    \/ ExportCommit(w)
    \/ \E code \in Codes \cup {NoCode} : ReprocessCommit(w, code)

Next ==
    \/ UploadAny
    \/ \E w \in Workers :
        Start(w) \/ Load(w) \/ ReprocessDetecting(w) \/ TakeOrgLock(w)
        \/ Commit(w) \/ DeadlockVictim(w) \/ Abort(w)

Spec == Init /\ [][Next]_vars

-----------------------------------------------------------------------------
(* Properties *)

TypeOK ==
    /\ status \in Statuses
    /\ lowOcr \in BOOLEAN
    /\ version \in 0..MaxVersion
    /\ cands \in [CandIds -> Candidate]
    /\ escalated \subseteq CandIds
    /\ actions \subseteq DocActions
    /\ acted \subseteq CandIds
    /\ artifacts \subseteq [version : 0..MaxVersion, redacted : SUBSET CandIds]
    /\ blob \subseteq SUBSET CandIds
    /\ trail \subseteq {"export.created", "export.integrity_failed"}
    /\ pager \in BOOLEAN
    /\ req \in [Workers -> Request]

\* An approved redaction cites an exemption code, also when it was decided from
\* values another request has since replaced.  The database CHECK would turn a
\* breach into a 500; the services alone must already exclude it
\* (review_service.patch_candidate, bulk_update_candidates, search_and_redact).
ApprovedHasCode ==
    \A c \in CandIds : cands[c].state = "approved" => cands[c].code # NoCode

\* No document passes review or is exported without a recorded
\* complete_review, nor, where the organization requires dual approval, without
\* a supervisor's recorded approve_doc, whatever interleaving of sign-offs,
\* returns, re-processing and exports happened (complete_review,
\* approve_document, return_document, create_export).
SignedOff == status \in {"review_complete", "exported"} \/ artifacts # {}
ExportGate ==
    /\ SignedOff \/ status \in {"awaiting_approval", "in_review"}
          => "complete_review" \in actions
    /\ SignedOff /\ DualApproval => "approve_doc" \in actions

\* The review workflow implements the abstract release gate.
Gate == INSTANCE ReviewGate WITH
            completed <- "complete_review" \in actions,
            approved <- "approve_doc" \in actions,
            released <- artifacts # {}
ImplementsGate == Gate!Spec

\* A document marked exported has an artifact that passed the verifier
\* (create_export: the integrity gate blocks, a rollback leaves no status).
ExportedHasArtifact == status = "exported" => artifacts # {}

\* A document with an unreadable page never gets through the checklist
\* (complete_review's hard block on ocr_confidence).
UnreadableNeverCompleted ==
    lowOcr => status \in {"absent", "error", "ready_for_review"}

BumpingOps == {"patch", "bulk", "create", "search", "reprocess"}

\* What the requests in flight remember, and what the rows still owe them: the
\* strengthening that makes TypeOK, ApprovedHasCode, ExportGate and
\* UnreadableNeverCompleted inductive.
VersionInv(r) ==
    r.op \in BumpingOps /\ r.stage \in {"ready", "locked"} => r.version \in 1..(MaxVersion - 1)

\* A code once seen is never nulled while its row lives, ids are not reused,
\* and what a request approves it saw or sends a code for.
CodeInv(r) ==
    /\ r.op \in {"patch", "bulk"} =>
          \A c \in r.rows :
             /\ cands[c].state # "unborn"
             /\ r.seen[c].code # NoCode => cands[c].state = "gone" \/ cands[c].code # NoCode
             /\ r.seen[c].state = "approved" => r.seen[c].code # NoCode
             /\ r.goal = "approved" /\ (r.op = "bulk" \/ r.stage \in {"ready", "locked"})
                   => EditedCode(r, c) # NoCode
    /\ r.op \in {"create", "search"} => r.code # NoCode

\* A sign-off or export under way was let in by a status that stands for
\* recorded actions, and those are append-only.
GateInv(r) ==
    /\ IF r.stage = "idle" THEN r.op = "none" ELSE status # "absent"
    /\ r.op \in {"approve_doc", "return_doc", "export"} => "complete_review" \in actions /\ ~lowOcr
    /\ r.op = "export" /\ DualApproval => "approve_doc" \in actions
    /\ r.op = "complete" /\ r.stage \in {"ready", "locked"} => ~lowOcr

IInv ==
    /\ TypeOK
    /\ ApprovedHasCode
    /\ ExportGate
    /\ ExportedHasArtifact
    /\ UnreadableNeverCompleted
    /\ \A w \in Workers : VersionInv(req[w]) /\ CodeInv(req[w]) /\ GateInv(req[w])

\* Every decision on a detected candidate is backed by a review_actions row
\* that names the candidate.
DecisionHasAction ==
    \A c \in CandIds : Decided(c) /\ ~cands[c].human => c \in acted

\* What re-processing has matched is never human-authored, also when it was
\* matched long before the diff: the strengthening for HumanRedactionsKept.
MatchedAreDetected ==
    \A w \in Workers : req[w].op = "reprocess" =>
        \A c \in req[w].rows : cands[c].state # "unborn" /\ ~cands[c].human

\* Nothing ever deletes a human-authored redaction: re-processing must not
\* match, refresh or drop it (pipeline/run.py _candidate_identity_key).
HumanRedactionsKept ==
    [][\A c \in CandIds : Live(c) /\ cands[c].human => Live(c)']_vars

Commits(w, op) == req[w].op = op /\ req[w].stage = "locked" /\ req'[w] = Idle

\* Re-processing leaves every decided candidate exactly as it was
\* (reprocess_document: "a human decision is never silently discarded").
DecisionsSurviveReprocess ==
    [][\A w \in Workers, c \in CandIds :
          Commits(w, "reprocess") /\ Decided(c) => cands'[c] = cands[c]]_vars

\* Whatever overlaps a re-run, it leaves a decision that was committed before it
\* loaded the candidates exactly as it was, and a decision on a span that it
\* finds again, however late, keeps its state and its exemption code
\* (reprocess_document: the branches on old_candidate.state).
RerunsRespectDecisions ==
    [][\A w \in Workers, c \in CandIds :
          Commits(w, "reprocess") /\ Decided(c) =>
             /\ c \notin req[w].rows \/ req[w].seen[c].state # "suggested"
                   => cands'[c] = cands[c]
             /\ cands[c].span \in req[w].found
                   => cands'[c].state = cands[c].state /\ cands'[c].code = cands[c].code]_vars

\* After a re-run every span it flagged has a live candidate: none is lost
\* between the discarded duplicate and the dropped old row.
FindingsCovered ==
    [][\A w \in Workers :
          Commits(w, "reprocess") /\ version' # version =>
             \A s \in req[w].found :
                \E c \in CandIds : Live(c)' /\ cands'[c].span = s]_vars

\* A document that has a manifest has one detected candidate per text span,
\* whatever re-runs found: the duplicates of a failed upload, which nothing
\* merged, stay in a document that can be neither edited nor exported
\* (process_document, reprocess_document).
OneCandidatePerSpan ==
    version > 0 =>
        \A c, d \in CandIds :
            HasIdentityKey(c) /\ HasIdentityKey(d) /\ cands[c].span = cands[d].span => c = d

\* Once a manifest exists, its version rises with every change of a candidate.
VersionBumpsOnChange ==
    [][version > 0 /\ cands' # cands => version' > version]_vars

\* An artifact stamped with the current manifest version redacts exactly what
\* is approved now: the version identifies the content of the export.
ArtifactMatchesManifest ==
    \A a \in artifacts : a.version = version => a.redacted = Approved

\* Overlapping re-runs, under which OneCandidatePerSpan and FindingsCovered fail;
\* nothing in the code excludes them, and the theorems about the two name them.
OneRerun ==
    \A u, w \in Workers : req[u].op = "reprocess" /\ req[w].op = "reprocess" => u = w

HasMatched(r) ==
    r.op = "reprocess" /\ r.stage \in {"loaded", "detecting", "ready", "locked"}

\* What a re-run has matched covers every detected row that there is, and lives:
\* the strengthening for OneCandidatePerSpan and FindingsCovered.
MatchInv(r) ==
    HasMatched(r) =>
        /\ \A c \in CandIds :
              HasIdentityKey(c) => \E d \in r.rows : r.seen[d].span = cands[c].span
        /\ \A d \in r.rows : Live(d) /\ cands[d].span = r.seen[d].span

\* Only a document with a manifest has a request that replaces its version.
ManifestRead ==
    \A w \in Workers :
        req[w].op \in BumpingOps /\ req[w].stage \in {"ready", "locked"} => version > 0

RerunInv ==
    /\ OneCandidatePerSpan
    /\ ManifestRead
    /\ \A w \in Workers : MatchInv(req[w])

\* What a re-run has matched keeps its span: the strengthening for
\* RerunsRespectDecisions.
SpansAsSeen ==
    \A w \in Workers : HasMatched(req[w]) =>
        \A c \in req[w].rows :
            cands[c].state = "gone" \/ cands[c].span = req[w].seen[c].span

\* Before the upload commits there is nothing of the document.
NothingYet ==
    status = "absent" => version = 0 /\ \A c \in CandIds : cands[c].state = "unborn"

\* A patch that sent If-Match commits only over the version it named.
IfMatchHonoured ==
    [][\A w \in Workers :
          /\ Commits(w, "patch")
          /\ req[w].ifMatch # 0
          /\ cands' # cands
          => version = req[w].ifMatch]_vars

\* An exported document has no unresolved low-confidence candidate.
ExportedResolved == status = "exported" => UnresolvedLow = {}

\* A document awaiting a supervisor is not exported in that state.
AwaitingBlocksExport ==
    [][status = "awaiting_approval" => status' # "exported"]_vars

\* The object an export artifact points at still holds the bytes it recorded.
ArtifactBytesKept == \A a \in artifacts : blob = {a.redacted}

\* A failed integrity verification that raised the alarm is in the audit trail.
IntegrityFailureAudited == pager => "export.integrity_failed" \in trail

\* Steps of a running request that its own process or the database will take:
\* lock queues are first come first served, and deadlocks are detected.
Fairness ==
    \A w \in Workers :
        /\ WF_vars(Load(w))
        /\ SF_vars(ReprocessDetecting(w))
        /\ SF_vars(TakeOrgLock(w))
        /\ SF_vars(Commit(w))
        /\ WF_vars(DeadlockVictim(w))

FairSpec == Spec /\ Fairness

\* Every request ends, although re-processing takes its row locks before the
\* advisory lock and everything else takes them after it.
RequestsFinish ==
    \A w \in Workers : req[w].stage # "idle" ~> req[w].stage = "idle"
=============================================================================
