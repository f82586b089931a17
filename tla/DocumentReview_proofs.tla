------------------------ MODULE DocumentReview_proofs ------------------------
(***************************************************************************)
(* Theorems about DocumentReview for every set of requests, candidates,    *)
(* spans and codes.  Most steps change one request and nothing else; the   *)
(* lemma RequestOnly settles them from the new request alone.  A commit    *)
(* ends its request and changes rows; the lemma CommitOnly settles what it *)
(* owes the other requests from three facts about how rows evolve.         *)
(***************************************************************************)
EXTENDS DocumentReview, TLAPS

RequestInv(r) == VersionInv(r) /\ CodeInv(r) /\ GateInv(r)

\* How rows may change under the requests that have already read them.
RowsEvolve ==
    \A c \in CandIds :
        /\ cands[c].state # "unborn" => cands'[c].state # "unborn"
        /\ cands[c].state = "gone" => cands'[c].state = "gone"
        /\ cands[c].state # "unborn" /\ cands[c].code # NoCode
              => cands'[c].state = "gone" \/ cands'[c].code # NoCode

DocumentEvolves ==
    /\ actions \subseteq actions'
    /\ status # "absent" => status' # "absent" /\ lowOcr' = lowOcr

-----------------------------------------------------------------------------

\* The idle request is a request and remembers nothing.
LEMMA IdleFacts == Idle \in Request /\ RequestInv(Idle)
<1>1. Idle \in Request
  <2>1. Unborn \in Candidate
    BY DEF Unborn, Candidate, CandStates, DecidedStates, Boxes
  <2>2. NothingSeen \in [CandIds -> Candidate]
    BY <2>1 DEF NothingSeen
  <2>3. QED
    BY <2>2, ConstantsAssumption DEF Idle, Request, Stages, Statuses, AllOps, CandStates
<1>2. RequestInv(Idle)
  BY DEF Idle, RequestInv, VersionInv, CodeInv, GateInv, BumpingOps
<1>3. QED
  BY <1>1, <1>2

\* What a request loads of the candidate table is a well-typed snapshot.
LEMMA SnapshotType ==
  ASSUME TypeOK, NEW R \in SUBSET CandIds
  PROVE  /\ Snapshot(R) \in [CandIds -> Candidate]
         /\ \A c \in R : Snapshot(R)[c] = cands[c]
<1>1. Unborn \in Candidate
  BY DEF Unborn, Candidate, CandStates, DecidedStates, Boxes
<1>2. QED
  BY <1>1 DEF Snapshot, TypeOK

\* A step that replaces the request of w by r, and at most the stored bytes or
\* the alarm besides, preserves the invariant when r is well typed and
\* satisfies the request invariant.
LEMMA RequestAndExport ==
  ASSUME IInv, NEW w \in Workers, NEW r \in Request, RequestInv(r),
         req' = [req EXCEPT ![w] = r], UNCHANGED <<docVars, artifacts, trail>>,
         blob' \subseteq SUBSET CandIds, pager' \in BOOLEAN
  PROVE  IInv'
<1>1. /\ status' = status /\ lowOcr' = lowOcr /\ version' = version
      /\ cands' = cands /\ escalated' = escalated /\ actions' = actions
      /\ acted' = acted /\ artifacts' = artifacts /\ trail' = trail
  BY DEF docVars
<1>2. TypeOK'
  BY <1>1 DEF IInv, TypeOK
<1>3. ApprovedHasCode' /\ ExportGate' /\ ExportedHasArtifact' /\ UnreadableNeverCompleted'
  BY <1>1
  DEF IInv, ApprovedHasCode, ExportGate, SignedOff, ExportedHasArtifact,
      UnreadableNeverCompleted
<1>4. ASSUME NEW v \in Workers
      PROVE  (VersionInv(req[v]) /\ CodeInv(req[v]) /\ GateInv(req[v]))'
  <2>1. req'[v] = IF v = w THEN r ELSE req[v]
    BY DEF IInv, TypeOK
  <2>2. VersionInv(req'[v]) /\ CodeInv(req'[v]) /\ GateInv(req'[v])
    BY <2>1 DEF IInv, RequestInv
  <2>3. QED
    BY <2>2, <1>1 DEF VersionInv, CodeInv, GateInv, EditedCode
<1>5. QED
  BY <1>2, <1>3, <1>4 DEF IInv

\* The same when nothing but the request changes.
LEMMA RequestOnly ==
  ASSUME IInv, NEW w \in Workers, NEW r \in Request, RequestInv(r),
         req' = [req EXCEPT ![w] = r], UNCHANGED <<docVars, exportVars>>
  PROVE  IInv'
BY RequestAndExport DEF exportVars, IInv, TypeOK

\* A request that a step leaves alone keeps its invariant while rows and
\* document evolve.
LEMMA BystanderKept ==
  ASSUME IInv, NEW v \in Workers, req'[v] = req[v], RowsEvolve, DocumentEvolves
  PROVE  (VersionInv(req[v]) /\ CodeInv(req[v]) /\ GateInv(req[v]))'
<1>1. req[v] \in Request /\ VersionInv(req[v]) /\ CodeInv(req[v]) /\ GateInv(req[v])
  BY DEF IInv, TypeOK
<1>2. VersionInv(req[v])'
  BY <1>1 DEF VersionInv
<1>3. CodeInv(req[v])'
  BY <1>1 DEF CodeInv, EditedCode, RowsEvolve, Request
<1>4. GateInv(req[v])'
  <2>1. CASE status = "absent"
    BY <1>1, <2>1 DEF GateInv
  <2>2. CASE status # "absent"
    BY <1>1, <2>2 DEF GateInv, DocumentEvolves
  <2>3. QED
    BY <2>1, <2>2
<1>5. QED
  BY <1>2, <1>3, <1>4

\* A step that ends the request of w and lets rows and document evolve.
LEMMA CommitOnly ==
  ASSUME IInv, NEW w \in Workers, End(w), RowsEvolve, DocumentEvolves,
         TypeOK', ApprovedHasCode', ExportGate', ExportedHasArtifact',
         UnreadableNeverCompleted'
  PROVE  IInv'
<1>1. ASSUME NEW v \in Workers
      PROVE  (VersionInv(req[v]) /\ CodeInv(req[v]) /\ GateInv(req[v]))'
  <2>1. CASE v = w
    <3>1. req'[v] = Idle
      BY <2>1 DEF End, IInv, TypeOK
    <3>2. QED
      BY <3>1 DEF Idle, VersionInv, CodeInv, GateInv, BumpingOps
  <2>2. CASE v # w
    BY <2>2, BystanderKept DEF End, IInv, TypeOK
  <2>3. QED
    BY <2>1, <2>2
<1>2. QED
  BY <1>1 DEF IInv

\* Ending a request with nothing written: a rejection, a rollback, a crash.
LEMMA Rollback ==
  ASSUME IInv, NEW w \in Workers, End(w), UNCHANGED <<docVars, exportVars>>
  PROVE  IInv'
BY IdleFacts, RequestOnly DEF End

-----------------------------------------------------------------------------
(* One lemma per group of actions. *)

LEMMA InitIInv == Init => IInv
<1> SUFFICES ASSUME Init PROVE IInv
  OBVIOUS
<1>1. Unborn \in Candidate /\ Unborn.state = "unborn"
  BY DEF Unborn, Candidate, CandStates, DecidedStates, Boxes
<1>2. TypeOK
  <2>1. 0 \in 0..MaxVersion
    BY ConstantsAssumption
  <2>2. cands \in [CandIds -> Candidate]
    BY <1>1 DEF Init
  <2>3. req \in [Workers -> Request]
    BY IdleFacts DEF Init
  <2>4. QED
    BY <2>1, <2>2, <2>3 DEF Init, TypeOK, Statuses
<1>3. ApprovedHasCode /\ ExportGate /\ ExportedHasArtifact /\ UnreadableNeverCompleted
  BY <1>1
  DEF Init, ApprovedHasCode, ExportGate, SignedOff, ExportedHasArtifact,
      UnreadableNeverCompleted
<1>4. \A w \in Workers : VersionInv(req[w]) /\ CodeInv(req[w]) /\ GateInv(req[w])
  BY IdleFacts DEF Init, RequestInv
<1>5. QED
  BY <1>2, <1>3, <1>4 DEF IInv

\* A request that starts with a well-typed record that owes nothing.
LEMMA BeginStep ==
  ASSUME IInv, NEW w \in Workers, NEW op, NEW r \in Request, Begin(w, op, r),
         status # "absent" => RequestInv(r)
  PROVE  IInv'
BY RequestOnly DEF Begin

LEMMA StartStep ==
  ASSUME IInv, NEW w \in Workers, Start(w)
  PROVE  IInv'
<1>1. ASSUME NEW c \in CandIds, NEW goal \in PatchGoals, NEW code \in Codes \cup {NoCode},
             NEW hand \in BOOLEAN, NEW ifMatch \in IfMatches,
             PatchBegin(w, c, goal, code, hand, ifMatch)
      PROVE  IInv'
  <2> DEFINE r == [Idle EXCEPT !.op = "patch", !.stage = "begun", !.rows = {c},
                       !.goal = goal, !.code = code, !.hand = hand,
                       !.ifMatch = ifMatch, !.seen = Snapshot({c})]
  <2>1. Snapshot({c}) \in [CandIds -> Candidate] /\ Snapshot({c})[c] = cands[c]
    BY SnapshotType DEF IInv
  <2>2. r \in Request
    <3>1. goal \in CandStates \cup {"keep"} /\ ifMatch \in 0..MaxVersion
      BY ConstantsAssumption
    <3>2. QED
      BY <2>1, <3>1, IdleFacts DEF Idle, Request, Stages, AllOps
  <2>3. RequestInv(r)
    BY <2>1, <1>1
    DEF IInv, Idle, RequestInv, VersionInv, CodeInv, GateInv, BumpingOps, PatchBegin, Begin,
        Live, CandStates, DecidedStates, ApprovedHasCode
  <2>4. QED
    BY <1>1, <2>2, <2>3, BeginStep DEF PatchBegin
<1>2. ASSUME NEW R \in SUBSET CandIds, NEW goal \in {"approved", "rejected"},
             NEW code \in Codes \cup {NoCode}, BulkBegin(w, R, goal, code)
      PROVE  IInv'
  <2> DEFINE r == [Idle EXCEPT !.op = "bulk", !.stage = "begun", !.rows = R,
                       !.goal = goal, !.seen = Snapshot(R),
                       !.code = IF goal = "approved" THEN code ELSE NoCode]
  <2>1. Snapshot(R) \in [CandIds -> Candidate] /\ \A c \in R : Snapshot(R)[c] = cands[c]
    BY SnapshotType DEF IInv
  <2>2. r \in Request
    BY <2>1, IdleFacts DEF Idle, Request, Stages, AllOps, CandStates, DecidedStates
  <2>3. RequestInv(r)
    BY <2>1, <1>2
    DEF IInv, Idle, RequestInv, VersionInv, CodeInv, GateInv, BumpingOps, BulkBegin, Begin,
        Live, CandStates, DecidedStates, ApprovedHasCode, EditedCode
  <2>4. QED
    BY <1>2, <2>2, <2>3, BeginStep DEF BulkBegin
<1>3. ASSUME NEW op \in {"create", "search"}, NEW code \in Codes, InsertBegin(w, op, code)
      PROVE  IInv'
  <2> DEFINE r == [Idle EXCEPT !.op = op, !.stage = "ready", !.code = code,
                       !.version = version]
  <2>1. r \in Request
    BY IdleFacts DEF IInv, TypeOK, Idle, Request, Stages, AllOps
  <2>2. RequestInv(r)
    BY <1>3, ConstantsAssumption
    DEF Idle, RequestInv, VersionInv, CodeInv, GateInv, BumpingOps, InsertBegin, Begin
  <2>3. QED
    BY <1>3, <2>1, <2>2, BeginStep DEF InsertBegin
<1>4. ASSUME NEW op \in {"escalate", "resolve"}, NEW c \in CandIds, EscalateBegin(w, op, c)
      PROVE  IInv'
  <2> DEFINE r == [Idle EXCEPT !.op = op, !.stage = "ready", !.rows = {c},
                       !.seen = Snapshot({c})]
  <2>1. Snapshot({c}) \in [CandIds -> Candidate]
    BY SnapshotType DEF IInv
  <2>2. r \in Request
    BY <2>1, IdleFacts DEF Idle, Request, Stages, AllOps
  <2>3. RequestInv(r)
    BY <1>4
    DEF IInv, TypeOK, Idle, RequestInv, VersionInv, CodeInv, GateInv, BumpingOps,
        EscalateBegin, Begin
  <2>4. QED
    BY <1>4, <2>2, <2>3, BeginStep DEF EscalateBegin
<1>5. ASSUME CompleteBegin(w) PROVE IInv'
  <2> DEFINE r == [Idle EXCEPT !.op = "complete", !.stage = "begun", !.status = status]
  <2>1. r \in Request
    BY IdleFacts DEF IInv, TypeOK, Idle, Request, Stages, AllOps
  <2>2. status # "absent" => RequestInv(r)
    BY DEF Idle, RequestInv, VersionInv, CodeInv, GateInv, BumpingOps
  <2>3. QED
    BY <1>5, <2>1, <2>2, BeginStep DEF CompleteBegin
<1>6. ASSUME NEW op \in {"approve_doc", "return_doc"}, SignOffBegin(w, op) PROVE IInv'
  <2> DEFINE r == [Idle EXCEPT !.op = op, !.stage = "ready", !.status = status]
  <2>1. r \in Request
    BY IdleFacts DEF IInv, TypeOK, Idle, Request, Stages, AllOps
  <2>2. RequestInv(r)
    BY <1>6
    DEF IInv, TypeOK, Idle, RequestInv, VersionInv, CodeInv, GateInv, BumpingOps,
        SignOffBegin,
        ExportGate, UnreadableNeverCompleted
  <2>3. QED
    BY <1>6, <2>1, <2>2, BeginStep DEF SignOffBegin
<1>7. ASSUME ExportBegin(w) PROVE IInv'
  <2> DEFINE r == [Idle EXCEPT !.op = "export", !.stage = "begun", !.status = status]
  <2>1. r \in Request
    BY IdleFacts DEF IInv, TypeOK, Idle, Request, Stages, AllOps
  <2>2. RequestInv(r)
    BY <1>7
    DEF IInv, TypeOK, Idle, RequestInv, VersionInv, CodeInv, GateInv, BumpingOps,
        ExportBegin,
        ExportGate, SignedOff, UnreadableNeverCompleted
  <2>3. QED
    BY <1>7, <2>1, <2>2, BeginStep DEF ExportBegin
<1>8. ASSUME ReprocessBegin(w) PROVE IInv'
  <2> DEFINE r == [Idle EXCEPT !.op = "reprocess", !.stage = "begun", !.status = status]
  <2>1. r \in Request
    BY IdleFacts DEF IInv, TypeOK, Idle, Request, Stages, AllOps
  <2>2. status # "absent" => RequestInv(r)
    BY DEF Idle, RequestInv, VersionInv, CodeInv, GateInv, BumpingOps
  <2>3. QED
    BY <1>8, <2>1, <2>2, BeginStep DEF ReprocessBegin
<1>9. QED
  BY <1>1, <1>2, <1>3, <1>4, <1>5, <1>6, <1>7, <1>8 DEF Start

LEMMA LoadStep ==
  ASSUME IInv, NEW w \in Workers, Load(w)
  PROVE  IInv'
<1>1. req[w] \in Request /\ RequestInv(req[w])
  BY DEF IInv, TypeOK, RequestInv
<1>2. ASSUME PatchLoad(w) PROVE IInv'
  <2>1. CASE PatchAccepted(req[w])
    <3> DEFINE r == [req[w] EXCEPT !.stage = "ready", !.version = version]
    <3>1. r \in Request
      BY <1>1 DEF IInv, TypeOK, Request, Stages
    <3>2. RequestInv(r)
      BY <1>1, <1>2, <2>1
      DEF PatchLoad, PatchAccepted, Request, RequestInv, VersionInv, CodeInv, GateInv,
          EditedCode
    <3>3. QED
      BY <1>2, <2>1, <3>1, <3>2, RequestOnly DEF PatchLoad, IInv, TypeOK
  <2>2. CASE ~PatchAccepted(req[w])
    BY <1>2, <2>2, Rollback DEF PatchLoad, End, IInv, TypeOK
  <2>3. QED
    BY <2>1, <2>2
<1>3. ASSUME BulkLoad(w) PROVE IInv'
  <2>1. CASE version \in 1..(MaxVersion - 1)
    <3> DEFINE r == [req[w] EXCEPT !.stage = "ready", !.version = version]
    <3>1. r \in Request
      BY <1>1 DEF IInv, TypeOK, Request, Stages
    <3>2. RequestInv(r)
      BY <1>1, <1>3, <2>1
      DEF BulkLoad, Request, RequestInv, VersionInv, CodeInv, GateInv, EditedCode
    <3>3. QED
      BY <1>3, <2>1, <3>1, <3>2, RequestOnly DEF BulkLoad, IInv, TypeOK
  <2>2. CASE version \notin 1..(MaxVersion - 1)
    BY <1>3, <2>2, Rollback DEF BulkLoad, End, IInv, TypeOK
  <2>3. QED
    BY <2>1, <2>2
<1>4. ASSUME CompleteLoad(w) PROVE IInv'
  <2>1. CASE ChecklistPassed
    <3> DEFINE r == [req[w] EXCEPT !.stage = "ready"]
    <3>1. r \in Request
      BY <1>1 DEF Request, Stages
    <3>2. RequestInv(r)
      BY <1>1, <1>4, <2>1
      DEF CompleteLoad, ChecklistPassed, Request, RequestInv, VersionInv, CodeInv, GateInv,
          BumpingOps
    <3>3. QED
      BY <1>4, <2>1, <3>1, <3>2, RequestOnly DEF CompleteLoad, IInv, TypeOK
  <2>2. CASE ~ChecklistPassed
    BY <1>4, <2>2, Rollback DEF CompleteLoad, End, IInv, TypeOK
  <2>3. QED
    BY <2>1, <2>2
<1>5. ASSUME ExportLoad(w) PROVE IInv'
  <2>1. CASE version > 0
    <3> DEFINE r == [req[w] EXCEPT !.stage = "loaded", !.version = version]
    <3>1. r \in Request
      BY <1>1 DEF IInv, TypeOK, Request, Stages
    <3>2. RequestInv(r)
      BY <1>1, <1>5
      DEF ExportLoad, Request, RequestInv, VersionInv, CodeInv, GateInv, BumpingOps
    <3>3. QED
      BY <1>5, <2>1, <3>1, <3>2, RequestOnly DEF ExportLoad, IInv, TypeOK
  <2>2. CASE ~(version > 0)
    BY <1>5, <2>2, Rollback DEF ExportLoad, End, IInv, TypeOK
  <2>3. QED
    BY <2>1, <2>2
<1>6. ASSUME NEW R \in SUBSET CandIds, ReprocessLoad(w, R) PROVE IInv'
  <2> DEFINE r == [req[w] EXCEPT !.stage = "loaded", !.rows = R, !.seen = Snapshot(R)]
  <2>1. r \in Request
    BY <1>1, SnapshotType DEF IInv, Request, Stages
  <2>2. RequestInv(r)
    BY <1>1, <1>6
    DEF ReprocessLoad, Request, RequestInv, VersionInv, CodeInv, GateInv
  <2>3. req' = [req EXCEPT ![w] = r]
    BY <1>1, <1>6 DEF ReprocessLoad, IInv, TypeOK, Request
  <2>4. QED
    BY <1>6, <2>1, <2>2, <2>3, RequestOnly DEF ReprocessLoad
<1>7. ASSUME NEW found \in SUBSET Spans, NEW low \in SUBSET Spans,
             ReprocessDiff(w, found, low)
      PROVE  IInv'
  <2> DEFINE r == [req[w] EXCEPT !.stage = "ready", !.found = found, !.low = low,
                                 !.version = version]
             ok == /\ version \in 1..(MaxVersion - 1)
                   /\ \A c \in Changed(r) : Live(c)
                   /\ Cardinality(NewSpans(r)) <= Cardinality(Fresh)
  <2>1. r \in Request
    BY <1>1 DEF IInv, TypeOK, Request, Stages
  <2>2. CASE ok
    <3>1. RequestInv(r)
      BY <1>1, <1>7, <2>2
      DEF ReprocessDiff, Request, RequestInv, VersionInv, CodeInv, GateInv
    <3>2. req' = [req EXCEPT ![w] = r]
      BY <1>7, <2>2 DEF ReprocessDiff
    <3>3. QED
      BY <1>7, <2>1, <3>1, <3>2, RequestOnly DEF ReprocessDiff
  <2>3. CASE ~ok
    <3>1. End(w)
      BY <1>7, <2>3 DEF ReprocessDiff, End
    <3>2. QED
      BY <1>7, <3>1, Rollback DEF ReprocessDiff
  <2>4. QED
    BY <2>2, <2>3
<1>8. ASSUME ExportRender(w) PROVE IInv'
  <2> DEFINE r == [req[w] EXCEPT !.stage = "ready", !.rows = Approved]
  <2>1. r \in Request
    BY <1>1 DEF Request, Stages, Approved
  <2>2. RequestInv(r)
    BY <1>1, <1>8
    DEF ExportRender, Request, RequestInv, VersionInv, CodeInv, GateInv, BumpingOps
  <2>3. req' = [req EXCEPT ![w] = r]
    BY <1>1, <1>8 DEF ExportRender, IInv, TypeOK, Request
  <2>4. blob' \subseteq SUBSET CandIds /\ pager' \in BOOLEAN
    BY <1>8 DEF ExportRender, Approved, IInv, TypeOK
  <2>5. QED
    BY <1>8, <2>1, <2>2, <2>3, <2>4, RequestAndExport DEF ExportRender
<1>9. ASSUME ExportBlocked(w) PROVE IInv'
  BY <1>9, IdleFacts, RequestAndExport DEF ExportBlocked, End, IInv, TypeOK
<1>10. QED
  BY <1>2, <1>3, <1>4, <1>5, <1>6, <1>7, <1>8, <1>9 DEF Load

\* A row an edit writes: well typed, never resurrected, its code never nulled,
\* and approved only with a code.
LEMMA EditedRowFacts ==
  ASSUME IInv, NEW w \in Workers, req[w].op \in {"patch", "bulk"},
         req[w].stage = "locked", NEW c \in req[w].rows,
         \A d \in RowsNeeded(req[w]) : Live(d)
  PROVE  LET new == EditedRow(req[w], c)
         IN /\ new \in Candidate
            /\ cands[c].state = "gone" => new.state = "gone"
            /\ new.state # "unborn"
            /\ cands[c].state = "gone" \/ cands[c].code = NoCode \/ new.code # NoCode
            /\ new.state = "approved" => new.code # NoCode
<1> DEFINE r == req[w]
           new == EditedRow(r, c)
           newState == Written(EditedState(r, c), r.seen[c].state, cands[c].state)
           newCode == Written(EditedCode(r, c), r.seen[c].code, cands[c].code)
           newBox == Written(EditedBox(r, c), r.seen[c].box, cands[c].box)
<1>1. r \in Request /\ RequestInv(r) /\ c \in CandIds /\ cands[c] \in Candidate
      /\ r.seen[c] \in Candidate
  BY DEF IInv, TypeOK, RequestInv, Request
<1>2. new = [cands[c] EXCEPT !.state = newState, !.code = newCode, !.box = newBox]
  BY <1>1 DEF EditedRow, Candidate
<1>3. /\ cands[c].state # "unborn"
      /\ r.seen[c].code # NoCode => cands[c].state = "gone" \/ cands[c].code # NoCode
      /\ r.goal = "approved" => EditedCode(r, c) # NoCode
  BY <1>1 DEF RequestInv, CodeInv
<1>4. EditedState(r, c) # r.seen[c].state \/ EditedCode(r, c) # r.seen[c].code => Live(c)
  BY DEF RowsNeeded, DirtyRows
<1>5. EditedState(r, c) # r.seen[c].state
         => EditedState(r, c) = r.goal /\ r.goal \in CandStates
  BY <1>1 DEF EditedState, Request, CandStates, DecidedStates
<1>6. EditedCode(r, c) # r.seen[c].code
         => EditedCode(r, c) = r.code /\ r.code \in Codes /\ r.code # NoCode
  BY <1>1 DEF EditedCode, Request
<1>7. newState \in CandStates \cup {"unborn", "gone"}
      /\ newCode \in Codes \cup {NoCode} /\ newBox \in Boxes
  BY <1>1, <1>5, <1>6 DEF Written, EditedBox, Candidate, Boxes
<1>8. new \in Candidate /\ new.state = newState /\ new.code = newCode
  BY <1>1, <1>2, <1>7 DEF Candidate
<1>9. newState # "unborn" /\ (cands[c].state = "gone" => newState = "gone")
  BY <1>3, <1>4, <1>5 DEF Written, Live, CandStates, DecidedStates
<1>10. cands[c].state = "gone" \/ cands[c].code = NoCode \/ newCode # NoCode
  BY <1>6 DEF Written
<1>11. ASSUME newState = "approved" PROVE newCode # NoCode
  <2>1. CASE EditedState(r, c) = r.seen[c].state
    <3>1. cands[c].state = "approved" /\ cands[c].code # NoCode
      BY <1>1, <1>11, <2>1 DEF Written, IInv, ApprovedHasCode
    <3>2. QED
      BY <3>1, <1>6 DEF Written
  <2>2. CASE EditedState(r, c) # r.seen[c].state
    <3>1. Live(c) /\ EditedCode(r, c) # NoCode
      BY <1>3, <1>4, <1>5, <1>11, <2>2 DEF Written
    <3>2. QED
      BY <3>1, <1>3 DEF Written, Live, CandStates, DecidedStates
  <2>3. QED
    BY <2>1, <2>2
<1>12. QED
  BY <1>8, <1>9, <1>10, <1>11

LEMMA EditCommitStep ==
  ASSUME IInv, NEW w \in Workers, EditCommit(w)
  PROVE  IInv'
<1> DEFINE r == req[w]
<1>1. r \in Request /\ RequestInv(r) /\ r.op \in {"patch", "bulk"} /\ r.stage = "locked"
  BY DEF IInv, TypeOK, RequestInv, EditCommit, CanFlush
<1>2. r.version + 1 \in 0..MaxVersion
  BY <1>1, ConstantsAssumption DEF RequestInv, VersionInv, BumpingOps
<1>3. /\ status' = status /\ lowOcr' = lowOcr /\ escalated' = escalated
      /\ actions' = actions /\ artifacts' = artifacts /\ blob' = blob
      /\ trail' = trail /\ pager' = pager
      /\ version' = r.version + 1 /\ acted' = acted \cup r.rows
      /\ cands' = [c \in CandIds |-> IF c \in r.rows THEN EditedRow(r, c) ELSE cands[c]]
      /\ End(w)
  BY DEF EditCommit, exportVars
<1>4. ASSUME NEW c \in CandIds
      PROVE  /\ cands'[c] \in Candidate
             /\ cands[c].state # "unborn" => cands'[c].state # "unborn"
             /\ cands[c].state = "gone" => cands'[c].state = "gone"
             /\ cands[c].code # NoCode => cands'[c].state = "gone" \/ cands'[c].code # NoCode
             /\ cands'[c].state = "approved" => cands'[c].code # NoCode
  <2>1. CASE c \in r.rows
    BY <1>1, <1>3, <2>1, EditedRowFacts DEF EditCommit
  <2>2. CASE c \notin r.rows
    BY <1>3, <2>2 DEF IInv, TypeOK, ApprovedHasCode
  <2>3. QED
    BY <2>1, <2>2
<1>5. cands' \in [CandIds -> Candidate]
  BY <1>3, <1>4
<1>6. TypeOK'
  BY <1>1, <1>2, <1>3, <1>5, IdleFacts DEF IInv, TypeOK, End, Request
<1>7. RowsEvolve /\ ApprovedHasCode'
  BY <1>4 DEF RowsEvolve, ApprovedHasCode
<1>8. DocumentEvolves
  BY <1>3 DEF DocumentEvolves
<1>9. ExportGate' /\ ExportedHasArtifact' /\ UnreadableNeverCompleted'
  BY <1>3 DEF IInv, ExportGate, SignedOff, ExportedHasArtifact, UnreadableNeverCompleted
<1>10. QED
  BY <1>3, <1>6, <1>7, <1>8, <1>9, CommitOnly

LEMMA InsertCommitStep ==
  ASSUME IInv, NEW w \in Workers, NEW R \in SUBSET CandIds, InsertCommit(w, R)
  PROVE  IInv'
<1> DEFINE r == req[w]
<1>1. /\ r \in Request /\ r.version \in 1..(MaxVersion - 1)
      /\ r.code \in Codes /\ r.code # NoCode
  BY DEF IInv, TypeOK, InsertCommit, CanFlush, VersionInv, CodeInv, BumpingOps, Request
<1>2. r.version + 1 \in 0..MaxVersion
  BY <1>1, ConstantsAssumption
<1>3. /\ status' = status /\ lowOcr' = lowOcr /\ escalated' = escalated
      /\ actions' = actions /\ artifacts' = artifacts /\ blob' = blob
      /\ trail' = trail /\ pager' = pager
      /\ version' = r.version + 1
      /\ cands' = [c \in CandIds |-> IF c \in R THEN HumanRow(r.code) ELSE cands[c]]
      /\ R \subseteq Fresh
      /\ End(w)
  BY DEF InsertCommit, exportVars
<1>4. HumanRow(r.code) \in Candidate
  BY <1>1 DEF HumanRow, Candidate, CandStates, DecidedStates, Boxes
<1>5. cands' \in [CandIds -> Candidate]
  BY <1>3, <1>4 DEF IInv, TypeOK
<1>6. TypeOK'
  BY <1>2, <1>3, <1>5, IdleFacts DEF IInv, TypeOK, End, InsertCommit
<1>7. RowsEvolve
  BY <1>3 DEF RowsEvolve, Fresh, HumanRow
<1>8. ApprovedHasCode'
  BY <1>1, <1>3 DEF HumanRow, IInv, ApprovedHasCode
<1>9. DocumentEvolves /\ ExportGate' /\ ExportedHasArtifact' /\ UnreadableNeverCompleted'
  BY <1>3
  DEF DocumentEvolves, IInv, ExportGate, SignedOff, ExportedHasArtifact,
      UnreadableNeverCompleted
<1>10. QED
  BY <1>3, <1>6, <1>7, <1>8, <1>9, CommitOnly

LEMMA EscalateCommitStep ==
  ASSUME IInv, NEW w \in Workers, EscalateCommit(w)
  PROVE  IInv'
<1>1. req[w] \in Request
  BY DEF IInv, TypeOK
<1>2. /\ status' = status /\ lowOcr' = lowOcr /\ version' = version /\ cands' = cands
      /\ actions' = actions /\ artifacts' = artifacts /\ blob' = blob
      /\ trail' = trail /\ pager' = pager /\ End(w)
  BY DEF EscalateCommit, exportVars
<1>3. TypeOK'
  BY <1>1, <1>2, IdleFacts DEF IInv, TypeOK, End, EscalateCommit, Request
<1>4. RowsEvolve /\ DocumentEvolves
  BY <1>2 DEF RowsEvolve, DocumentEvolves
<1>5. ApprovedHasCode' /\ ExportGate' /\ ExportedHasArtifact' /\ UnreadableNeverCompleted'
  BY <1>2
  DEF IInv, ApprovedHasCode, ExportGate, SignedOff, ExportedHasArtifact,
      UnreadableNeverCompleted
<1>6. QED
  BY <1>2, <1>3, <1>4, <1>5, CommitOnly

LEMMA SignOffCommitStep ==
  ASSUME IInv, NEW w \in Workers, SignOffCommit(w)
  PROVE  IInv'
<1> DEFINE op == req[w].op
<1>1. /\ req[w] \in Request /\ op \in SignOffOps /\ req[w].stage = "locked"
      /\ GateInv(req[w])
  BY DEF IInv, TypeOK, SignOffCommit, CanFlush
<1>2. /\ lowOcr' = lowOcr /\ version' = version /\ cands' = cands /\ escalated' = escalated
      /\ acted' = acted /\ artifacts' = artifacts /\ blob' = blob
      /\ trail' = trail /\ pager' = pager
      /\ actions' = actions \cup {ReviewAction(op)}
      /\ status' \in {NewStatus(op), status}
      /\ End(w)
  BY DEF SignOffCommit, exportVars, Written
<1>3. status # "absent" /\ ~lowOcr
  BY <1>1 DEF GateInv, SignOffOps
<1>4. NewStatus(op) = IF op = "complete" /\ DualApproval THEN "awaiting_approval"
                      ELSE IF op = "return_doc" THEN "in_review" ELSE "review_complete"
  BY <1>1 DEF NewStatus, SignOffOps
<1>5. "complete_review" \in actions'
      /\ (op = "approve_doc" => "approve_doc" \in actions')
      /\ ReviewAction(op) \in DocActions
  BY <1>1, <1>2 DEF GateInv, ReviewAction, SignOffOps, DocActions
<1>6. TypeOK'
  BY <1>2, <1>4, <1>5, IdleFacts DEF IInv, TypeOK, End, Statuses
<1>7. RowsEvolve /\ DocumentEvolves
  BY <1>2, <1>3, <1>4 DEF RowsEvolve, DocumentEvolves
<1>8. ApprovedHasCode' /\ ExportedHasArtifact' /\ UnreadableNeverCompleted'
  BY <1>2, <1>3, <1>4
  DEF IInv, ApprovedHasCode, ExportedHasArtifact, UnreadableNeverCompleted
<1>9. ExportGate'
  BY <1>1, <1>2, <1>4, <1>5 DEF IInv, ExportGate, SignedOff, SignOffOps
<1>10. QED
  BY <1>2, <1>6, <1>7, <1>8, <1>9, CommitOnly

LEMMA ExportCommitStep ==
  ASSUME IInv, NEW w \in Workers, ExportCommit(w)
  PROVE  IInv'
<1>1. req[w] \in Request /\ req[w].op = "export" /\ req[w].stage = "locked" /\ GateInv(req[w])
  BY DEF IInv, TypeOK, ExportCommit, CanFlush
<1>2. /\ lowOcr' = lowOcr /\ version' = version /\ cands' = cands /\ escalated' = escalated
      /\ actions' = actions /\ acted' = acted /\ blob' = blob /\ pager' = pager
      /\ status' \in {"exported", status}
      /\ artifacts' = artifacts \cup {[version |-> req[w].version, redacted |-> req[w].rows]}
      /\ trail' = trail \cup {"export.created"}
      /\ End(w)
  BY DEF ExportCommit, Written
<1>3. /\ status # "absent" /\ ~lowOcr /\ "complete_review" \in actions
      /\ (DualApproval => "approve_doc" \in actions)
  BY <1>1 DEF GateInv
<1>4. TypeOK'
  BY <1>1, <1>2, IdleFacts DEF IInv, TypeOK, End, Statuses, Request
<1>5. RowsEvolve /\ DocumentEvolves
  BY <1>2 DEF RowsEvolve, DocumentEvolves
<1>6. ApprovedHasCode' /\ ExportGate' /\ ExportedHasArtifact' /\ UnreadableNeverCompleted'
  BY <1>2, <1>3
  DEF IInv, ApprovedHasCode, ExportGate, SignedOff, ExportedHasArtifact,
      UnreadableNeverCompleted
<1>7. QED
  BY <1>2, <1>4, <1>5, <1>6, CommitOnly

\* The insertion of findings under fresh ids, row by row.
LEMMA InsertedRow ==
  ASSUME NEW table, NEW S \in SUBSET Spans, NEW ids \in [S -> Fresh],
         NEW code \in Codes \cup {NoCode}, NEW low, NEW c \in CandIds
  PROVE  \/ Inserted(table, ids, code, low)[c] = table[c]
         \/ /\ cands[c].state = "unborn"
            /\ Inserted(table, ids, code, low)[c] \in Candidate
            /\ Inserted(table, ids, code, low)[c].state = "suggested"
<1> DEFINE s == CHOOSE s \in DOMAIN ids : ids[s] = c
<1>1. CASE \E t \in DOMAIN ids : ids[t] = c
  <2>1. s \in S /\ cands[c].state = "unborn"
    BY <1>1 DEF Fresh
  <2>2. Inserted(table, ids, code, low)[c] = Detected(s, code, s \in low)
    BY <1>1 DEF Inserted
  <2>3. Detected(s, code, s \in low) \in Candidate
        /\ Detected(s, code, s \in low).state = "suggested"
    BY <2>1 DEF Detected, Candidate, CandStates, Boxes
  <2>4. QED
    BY <2>1, <2>2, <2>3
<1>2. CASE ~\E t \in DOMAIN ids : ids[t] = c
  BY <1>2 DEF Inserted
<1>3. QED
  BY <1>1, <1>2

\* Either outcome of an upload, row by row, and what else it leaves alone.
LEMMA UploadedRow ==
  ASSUME IInv, UploadAny
  PROVE  /\ status = "absent" /\ status' \in {"ready_for_review", "error"}
         /\ version' \in {0, 1} /\ lowOcr' \in OcrOutcomes
         /\ UNCHANGED <<escalated, actions, acted, exportVars, req>>
         /\ cands' \in [CandIds -> Candidate]
         /\ \A c \in CandIds :
               \/ cands'[c] = cands[c]
               \/ cands[c].state = "unborn" /\ cands'[c].state = "suggested"
<1>1. PICK code \in Codes \cup {NoCode}, badOcr \in OcrOutcomes :
         \/ \E found, low \in SUBSET Spans : Upload(found, low, code, badOcr)
         \/ \E ids \in SUBSET Fresh : \E at \in [ids -> Spans], low \in SUBSET ids :
                UploadFailed(at, low, code, badOcr)
  BY DEF UploadAny
<1>2. /\ status = "absent" /\ status' \in {"ready_for_review", "error"}
      /\ version' \in {0, 1} /\ lowOcr' \in OcrOutcomes
      /\ UNCHANGED <<escalated, actions, acted, exportVars, req>>
  BY <1>1 DEF Upload, UploadFailed
<1>3. ASSUME NEW found \in SUBSET Spans, NEW low \in SUBSET Spans,
             Upload(found, low, code, badOcr)
      PROVE  /\ cands' \in [CandIds -> Candidate]
             /\ \A c \in CandIds :
                  \/ cands'[c] = cands[c]
                  \/ cands[c].state = "unborn" /\ cands'[c].state = "suggested"
  <2>1. PICK ids \in [found -> Fresh] : cands' = Inserted(cands, ids, code, low)
    BY <1>3 DEF Upload
  <2>2. ASSUME NEW c \in CandIds
        PROVE  /\ cands'[c] \in Candidate
               /\ \/ cands'[c] = cands[c]
                  \/ cands[c].state = "unborn" /\ cands'[c].state = "suggested"
    <3> DEFINE new == Inserted(cands, ids, code, low)[c]
    <3>1. \/ new = cands[c]
          \/ cands[c].state = "unborn" /\ new \in Candidate /\ new.state = "suggested"
      BY InsertedRow
    <3>2. cands'[c] = new
      BY <2>1
    <3>3. cands[c] \in Candidate
      BY DEF IInv, TypeOK
    <3> HIDE DEF new
    <3>4. QED
      BY <3>1, <3>2, <3>3
  <2>3. cands' \in [CandIds -> Candidate]
    BY <2>1, <2>2 DEF Inserted
  <2>4. QED
    BY <2>2, <2>3
<1>4. ASSUME NEW ids \in SUBSET Fresh, NEW at \in [ids -> Spans], NEW low \in SUBSET ids,
             UploadFailed(at, low, code, badOcr)
      PROVE  /\ cands' \in [CandIds -> Candidate]
             /\ \A c \in CandIds :
                  \/ cands'[c] = cands[c]
                  \/ cands[c].state = "unborn" /\ cands'[c].state = "suggested"
  <2>1. cands' = [c \in CandIds |->
                    IF c \in ids THEN Detected(at[c], code, c \in low) ELSE cands[c]]
    BY <1>4 DEF UploadFailed
  <2>2. ASSUME NEW c \in ids
        PROVE  /\ Detected(at[c], code, c \in low) \in Candidate
               /\ Detected(at[c], code, c \in low).state = "suggested"
               /\ cands[c].state = "unborn"
    BY DEF Detected, Candidate, CandStates, Boxes, Fresh
  <2>3. ASSUME NEW c \in CandIds
        PROVE  /\ cands'[c] \in Candidate
               /\ \/ cands'[c] = cands[c]
                  \/ cands[c].state = "unborn" /\ cands'[c].state = "suggested"
    <3>0. cands[c] \in Candidate
      BY DEF IInv, TypeOK
    <3>1. CASE c \in ids
      BY <2>1, <2>2, <3>1
    <3>2. CASE c \notin ids
      BY <2>1, <3>0, <3>2
    <3>3. QED
      BY <3>1, <3>2
  <2>4. QED
    BY <2>1, <2>3
<1>5. CASE \E found, low \in SUBSET Spans : Upload(found, low, code, badOcr)
  BY <1>2, <1>3, <1>5
<1>6. CASE \E ids \in SUBSET Fresh : \E at \in [ids -> Spans], low \in SUBSET ids :
              UploadFailed(at, low, code, badOcr)
  BY <1>2, <1>4, <1>6
<1>7. QED
  BY <1>1, <1>5, <1>6

\* The diff of a re-run, row by row: dropped, refreshed or untouched.
LEMMA DiffedRow ==
  ASSUME IInv, NEW r \in Request, NEW c \in CandIds
  PROVE  /\ Diffed(r)[c] \in Candidate
         /\ \/ Diffed(r)[c] = Gone
            \/ Diffed(r)[c].state = cands[c].state /\ Diffed(r)[c].code = cands[c].code
<1>1. cands[c] \in Candidate /\ r.seen[c] \in Candidate
  BY DEF IInv, TypeOK, Request
<1>2. Gone \in Candidate
  BY DEF Gone, Unborn, Candidate, Boxes
<1>3. /\ RefreshedRow(r, c) \in Candidate
      /\ RefreshedRow(r, c).state = cands[c].state
      /\ RefreshedRow(r, c).code = cands[c].code
  <2> DEFINE isLow == r.seen[c].span \in r.low
  <2>1. isLow \in BOOLEAN
    OBVIOUS
  <2>2. RefreshedRow(r, c) =
           [cands[c] EXCEPT !.box = Written("detected", r.seen[c].box, @),
                            !.low = Written(isLow, r.seen[c].low, @)]
    BY DEF RefreshedRow
  <2>3. Written(isLow, r.seen[c].low, cands[c].low) \in BOOLEAN
    <3> HIDE DEF isLow
    <3>1. QED
      BY <1>1, <2>1 DEF Written, Candidate
  <2>4. Written("detected", r.seen[c].box, cands[c].box) \in Boxes
    BY <1>1 DEF Written, Candidate, Boxes
  <2> HIDE DEF isLow
  <2>5. QED
    BY <1>1, <2>2, <2>3, <2>4 DEF Candidate
<1>4. QED
  BY <1>1, <1>2, <1>3 DEF Diffed

LEMMA ReprocessCommitStep ==
  ASSUME IInv, NEW w \in Workers, NEW code \in Codes \cup {NoCode}, ReprocessCommit(w, code)
  PROVE  IInv'
<1> DEFINE r == req[w]
<1>1. r \in Request /\ r.version \in 1..(MaxVersion - 1) /\ status # "absent"
  BY DEF IInv, TypeOK, ReprocessCommit, CanFlush, VersionInv, GateInv, BumpingOps
<1>2. r.version + 1 \in 0..MaxVersion
  BY <1>1, ConstantsAssumption
<1>3. /\ status' = "ready_for_review" /\ lowOcr' = lowOcr /\ escalated' \subseteq escalated
      /\ actions' = actions /\ acted' = acted /\ artifacts' = artifacts /\ blob' = blob
      /\ trail' = trail /\ pager' = pager
      /\ version' = r.version + 1
      /\ End(w)
  BY DEF ReprocessCommit, exportVars
<1>4. PICK ids \in [NewSpans(r) -> Fresh] : cands' = Inserted(Diffed(r), ids, code, r.low)
  BY DEF ReprocessCommit
<1>5. NewSpans(r) \in SUBSET Spans
  BY <1>1 DEF NewSpans, Request
<1>6. ASSUME NEW c \in CandIds
      PROVE  /\ cands'[c] \in Candidate
             /\ \/ cands'[c] = Gone
                \/ cands'[c].state = cands[c].state /\ cands'[c].code = cands[c].code
                \/ cands[c].state = "unborn" /\ cands'[c].state = "suggested"
  <2>1. /\ Diffed(r)[c] \in Candidate
        /\ \/ Diffed(r)[c] = Gone
           \/ Diffed(r)[c].state = cands[c].state /\ Diffed(r)[c].code = cands[c].code
    BY <1>1, DiffedRow
  <2>2. \/ cands'[c] = Diffed(r)[c]
        \/ cands[c].state = "unborn" /\ cands'[c] \in Candidate /\ cands'[c].state = "suggested"
    <3> DEFINE T == Diffed(r)
               S == NewSpans(r)
               L == r.low
    <3>1. ids \in [S -> Fresh] /\ S \in SUBSET Spans /\ cands' = Inserted(T, ids, code, L)
      BY <1>4, <1>5
    <3> HIDE DEF T, S, L
    <3>2. \/ cands'[c] = T[c]
          \/ cands[c].state = "unborn" /\ cands'[c] \in Candidate /\ cands'[c].state = "suggested"
      BY <3>1, InsertedRow
    <3>3. QED
      BY <3>2 DEF T
  <2>3. QED
    BY <2>1, <2>2
<1>7. cands' \in [CandIds -> Candidate]
  BY <1>4, <1>6 DEF Inserted
<1>8. TypeOK'
  BY <1>2, <1>3, <1>7, IdleFacts DEF IInv, TypeOK, End, Statuses
<1>9. RowsEvolve /\ ApprovedHasCode'
  BY <1>6 DEF RowsEvolve, Gone, Unborn, IInv, ApprovedHasCode
<1>10. DocumentEvolves /\ ExportGate' /\ ExportedHasArtifact' /\ UnreadableNeverCompleted'
  BY <1>1, <1>3
  DEF DocumentEvolves, IInv, ExportGate, SignedOff, ExportedHasArtifact,
      UnreadableNeverCompleted
<1>11. QED
  BY <1>3, <1>8, <1>9, <1>10, CommitOnly

LEMMA CommitStep ==
  ASSUME IInv, NEW w \in Workers, Commit(w)
  PROVE  IInv'
<1>1. ASSUME StaleRow(w) PROVE IInv'
  BY <1>1, Rollback DEF StaleRow
<1>2. QED
  BY <1>1, EditCommitStep, InsertCommitStep, EscalateCommitStep, SignOffCommitStep,
     ExportCommitStep, ReprocessCommitStep DEF Commit

LEMMA UploadStep ==
  ASSUME IInv, UploadAny
  PROVE  IInv'
<1>2. /\ status = "absent" /\ status' \in {"ready_for_review", "error"}
      /\ version' \in {0, 1} /\ lowOcr' \in OcrOutcomes
      /\ UNCHANGED <<escalated, actions, acted, exportVars, req>>
      /\ cands' \in [CandIds -> Candidate]
  BY UploadedRow
<1>3. /\ escalated' = escalated /\ actions' = actions /\ acted' = acted
      /\ artifacts' = artifacts /\ blob' = blob
      /\ trail' = trail /\ pager' = pager /\ req' = req
  BY <1>2 DEF exportVars
<1>4. \A c \in CandIds :
         \/ cands'[c] = cands[c]
         \/ cands[c].state = "unborn" /\ cands'[c].state = "suggested"
  BY UploadedRow
<1>6. TypeOK'
  BY <1>2, <1>3, ConstantsAssumption DEF IInv, TypeOK, Statuses
<1>7. RowsEvolve /\ ApprovedHasCode'
  BY <1>4 DEF RowsEvolve, IInv, ApprovedHasCode
<1>8. DocumentEvolves /\ ExportGate' /\ ExportedHasArtifact' /\ UnreadableNeverCompleted'
  BY <1>2, <1>3
  DEF DocumentEvolves, IInv, ExportGate, SignedOff, ExportedHasArtifact,
      UnreadableNeverCompleted
<1>9. \A v \in Workers : (VersionInv(req[v]) /\ CodeInv(req[v]) /\ GateInv(req[v]))'
  BY <1>3, <1>7, <1>8, BystanderKept
<1>10. QED
  BY <1>6, <1>7, <1>8, <1>9 DEF IInv

\* Waiting for a lock: only the stage of the request moves.
LEMMA LockStep ==
  ASSUME IInv, NEW w \in Workers, ReprocessDetecting(w) \/ TakeOrgLock(w)
  PROVE  IInv'
<1>1. req[w] \in Request /\ RequestInv(req[w])
  BY DEF IInv, TypeOK, RequestInv
<1>2. ASSUME ReprocessDetecting(w) PROVE IInv'
  <2> DEFINE r == [req[w] EXCEPT !.stage = "detecting"]
  <2>1. r \in Request
    BY <1>1 DEF Request, Stages
  <2>2. RequestInv(r)
    BY <1>1, <1>2
    DEF ReprocessDetecting, Request, RequestInv, VersionInv, CodeInv, GateInv
  <2>3. req' = [req EXCEPT ![w] = r]
    BY <1>1, <1>2 DEF ReprocessDetecting, IInv, TypeOK, Request
  <2>4. QED
    BY <1>2, <2>1, <2>2, <2>3, RequestOnly DEF ReprocessDetecting
<1>3. ASSUME TakeOrgLock(w) PROVE IInv'
  <2> DEFINE r == [req[w] EXCEPT !.stage = "locked"]
  <2>1. r \in Request
    BY <1>1 DEF Request, Stages
  <2>2. RequestInv(r)
    BY <1>1, <1>3
    DEF TakeOrgLock, Request, RequestInv, VersionInv, CodeInv, GateInv, EditedCode
  <2>3. req' = [req EXCEPT ![w] = r]
    BY <1>1, <1>3 DEF TakeOrgLock, IInv, TypeOK, Request
  <2>4. QED
    BY <1>3, <2>1, <2>2, <2>3, RequestOnly DEF TakeOrgLock
<1>4. QED
  BY <1>2, <1>3

LEMMA StutterStep ==
  ASSUME IInv, UNCHANGED vars
  PROVE  IInv'
BY DEF vars, IInv, TypeOK, ApprovedHasCode, ExportGate, SignedOff, ExportedHasArtifact,
       UnreadableNeverCompleted, VersionInv, CodeInv, GateInv, EditedCode

LEMMA NextStep == IInv /\ [Next]_vars => IInv'
<1> SUFFICES ASSUME IInv, [Next]_vars PROVE IInv'
  OBVIOUS
<1>1. ASSUME NEW w \in Workers, DeadlockVictim(w) PROVE IInv'
  BY <1>1, Rollback DEF DeadlockVictim
<1>2. ASSUME NEW w \in Workers, Abort(w) PROVE IInv'
  BY <1>2, Rollback DEF Abort
<1>3. QED
  BY <1>1, <1>2, UploadStep, StartStep, LoadStep, CommitStep, LockStep, StutterStep DEF Next

-----------------------------------------------------------------------------
(* Theorems *)

\* The inductive invariant holds in every reachable state.
THEOREM Invariance == Spec => []IInv
BY InitIInv, NextStep, PTL DEF Spec

\* Every reachable state is well typed; in particular a version never exceeds
\* what the requests that bump it were let in with.
THEOREM TypeCorrect == Spec => []TypeOK
<1>1. IInv => TypeOK
  BY DEF IInv
<1>2. QED
  BY <1>1, Invariance, PTL

\* No approved redaction lacks its exemption code, however many requests edit
\* the same row from values the others have replaced (patch_candidate,
\* bulk_update_candidates, create_manual_candidate, search_and_redact).
THEOREM ApprovalsCited == Spec => []ApprovedHasCode
<1>1. IInv => ApprovedHasCode
  BY DEF IInv
<1>2. QED
  BY <1>1, Invariance, PTL

\* No document is past review or exported without the recorded sign-offs
\* (complete_review, approve_document, create_export).
THEOREM GateHolds == Spec => []ExportGate
<1>1. IInv => ExportGate
  BY DEF IInv
<1>2. QED
  BY <1>1, Invariance, PTL

\* A document with an unreadable page never passes the checklist
\* (complete_review).
THEOREM ChecklistHolds == Spec => []UnreadableNeverCompleted
<1>1. IInv => UnreadableNeverCompleted
  BY DEF IInv
<1>2. QED
  BY <1>1, Invariance, PTL

-----------------------------------------------------------------------------
(* The workflow implements the abstract release gate. *)

\* Only sign-offs write document-level review actions, only exports artifacts.
LEMMA SignOffsOnly ==
  ASSUME Next, ~\E w \in Workers : SignOffCommit(w) \/ ExportCommit(w)
  PROVE  actions' = actions /\ artifacts' = artifacts
<1>1. CASE UploadAny
  BY <1>1 DEF UploadAny, Upload, UploadFailed, exportVars
<1>2. ASSUME NEW w \in Workers, Start(w) PROVE actions' = actions /\ artifacts' = artifacts
  BY <1>2
  DEF Start, PatchBegin, BulkBegin, InsertBegin, EscalateBegin, CompleteBegin, SignOffBegin,
      ExportBegin, ReprocessBegin, Begin, docVars, exportVars
<1>3. ASSUME NEW w \in Workers, Load(w) PROVE actions' = actions /\ artifacts' = artifacts
  BY <1>3
  DEF Load, PatchLoad, BulkLoad, CompleteLoad, ExportLoad, ExportRender, ExportBlocked,
      ReprocessLoad, ReprocessDiff, docVars, exportVars
<1>4. ASSUME NEW w \in Workers, Commit(w) PROVE actions' = actions /\ artifacts' = artifacts
  BY <1>4
  DEF Commit, EditCommit, InsertCommit, EscalateCommit, StaleRow, ReprocessCommit,
      docVars, exportVars
<1>5. ASSUME NEW w \in Workers,
             ReprocessDetecting(w) \/ TakeOrgLock(w) \/ DeadlockVictim(w) \/ Abort(w)
      PROVE  actions' = actions /\ artifacts' = artifacts
  BY <1>5 DEF ReprocessDetecting, TakeOrgLock, DeadlockVictim, Abort, docVars, exportVars
<1>6. QED
  BY <1>1, <1>2, <1>3, <1>4, <1>5 DEF Next

LEMMA GateInit == Init => Gate!Init
BY DEF Init, Gate!Init

LEMMA GateStep == IInv /\ [Next]_vars => [Gate!Next]_Gate!vars
<1> SUFFICES ASSUME IInv, [Next]_vars PROVE [Gate!Next]_Gate!vars
  OBVIOUS
<1>1. ASSUME NEW w \in Workers, SignOffCommit(w) PROVE [Gate!Next]_Gate!vars
  <2> DEFINE op == req[w].op
  <2>1. /\ op \in SignOffOps /\ artifacts' = artifacts
        /\ actions' = actions \cup {ReviewAction(op)} /\ GateInv(req[w])
    BY <1>1 DEF SignOffCommit, exportVars, IInv
  <2>2. CASE op = "complete"
    <3>1. Gate!Complete
      BY <2>1, <2>2 DEF Gate!Complete, ReviewAction
    <3>2. QED
      BY <3>1 DEF Gate!Next
  <2>3. CASE op = "approve_doc"
    <3>1. Gate!Approve
      BY <2>1, <2>3 DEF Gate!Approve, ReviewAction, GateInv
    <3>2. QED
      BY <3>1 DEF Gate!Next
  <2>4. CASE op = "return_doc"
    BY <2>1, <2>4 DEF Gate!vars, ReviewAction
  <2>5. QED
    BY <2>1, <2>2, <2>3, <2>4 DEF SignOffOps
<1>2. ASSUME NEW w \in Workers, ExportCommit(w) PROVE [Gate!Next]_Gate!vars
  <2>1. /\ actions' = actions /\ artifacts' # {} /\ "complete_review" \in actions
        /\ DualApproval => "approve_doc" \in actions
    BY <1>2 DEF ExportCommit, IInv, GateInv
  <2>2. Gate!Release
    BY <2>1 DEF Gate!Release
  <2>3. QED
    BY <2>2 DEF Gate!Next
<1>3. CASE Next /\ ~\E w \in Workers : SignOffCommit(w) \/ ExportCommit(w)
  BY <1>3, SignOffsOnly DEF Gate!vars
<1>4. CASE UNCHANGED vars
  BY <1>4 DEF vars, Gate!vars
<1>5. QED
  BY <1>1, <1>2, <1>3, <1>4

\* Whatever requests interleave, what the database shows of sign-offs and
\* artifacts behaves as ReviewGate allows: completed, then approved where the
\* organization asks for it, then released (complete_review, approve_document,
\* create_export).
THEOREM GateImplemented == Spec => ImplementsGate
<1>1. Spec => Gate!Spec
  BY GateInit, GateStep, Invariance, PTL DEF Spec, Gate!Spec
<1>2. QED
  BY <1>1 DEF ImplementsGate

-----------------------------------------------------------------------------
(* Decisions and human-authored redactions. *)

\* How one row changes in one step: not at all, by an edit under w's decision,
\* by an insertion under a fresh id, or by the diff of a re-run.
LEMMA RowStep ==
  ASSUME IInv, Next, NEW c \in CandIds
  PROVE  \/ cands'[c] = cands[c]
         \/ /\ cands[c].state = "unborn" <=> cands'[c].state = "unborn"
            /\ cands'[c].human = cands[c].human
            /\ cands[c].state \in CandStates => cands'[c].state \in CandStates
            /\ cands'[c].state = cands[c].state \/ c \in acted'
         \/ /\ cands[c].state = "unborn"
            /\ \/ cands'[c].state = "suggested"
               \/ cands'[c].state = "approved" /\ cands'[c].human
         \/ /\ cands'[c] = Gone
            /\ \E w \in Workers : req[w].op = "reprocess" /\ c \in req[w].rows
<1>1. CASE UploadAny
  BY <1>1, UploadedRow
<1>2. ASSUME NEW w \in Workers, EditCommit(w), c \in req[w].rows
      PROVE  /\ cands[c].state # "unborn"
             /\ cands'[c].state # "unborn"
             /\ cands'[c].human = cands[c].human
             /\ cands[c].state \in CandStates => cands'[c].state \in CandStates
             /\ c \in acted'
  <2> DEFINE r == req[w]
  <2>1. /\ r \in Request /\ CodeInv(r) /\ r.op \in {"patch", "bulk"}
        /\ cands[c] \in Candidate /\ r.seen[c] \in Candidate
    BY <1>2 DEF IInv, TypeOK, EditCommit, Request
  <2>2. cands[c].state # "unborn"
    BY <1>2, <2>1 DEF CodeInv
  <2>3. cands'[c] = EditedRow(r, c) /\ acted' = acted \cup r.rows
    BY <1>2, <2>1 DEF EditCommit
  <2>4. /\ EditedRow(r, c).human = cands[c].human
        /\ EditedRow(r, c).state = Written(EditedState(r, c), r.seen[c].state, cands[c].state)
    BY <2>1 DEF EditedRow, Candidate
  <2>5. EditedState(r, c) # r.seen[c].state => EditedState(r, c) \in CandStates
    BY <2>1 DEF EditedState, Request, CandStates, DecidedStates
  <2>6. QED
    BY <1>2, <2>2, <2>3, <2>4, <2>5 DEF Written, CandStates, DecidedStates
<1>3. ASSUME NEW w \in Workers, EditCommit(w), c \notin req[w].rows
      PROVE  cands'[c] = cands[c]
  BY <1>3 DEF EditCommit
<1>4. ASSUME NEW w \in Workers, NEW R \in SUBSET CandIds, InsertCommit(w, R)
      PROVE  \/ cands'[c] = cands[c]
             \/ cands[c].state = "unborn" /\ cands'[c].state = "approved" /\ cands'[c].human
  BY <1>4 DEF InsertCommit, Fresh, HumanRow
<1>5. ASSUME NEW w \in Workers, NEW code \in Codes \cup {NoCode}, ReprocessCommit(w, code)
      PROVE  \/ cands[c].state = "unborn" /\ cands'[c].state = "suggested"
             \/ cands'[c] = Gone /\ req[w].op = "reprocess" /\ c \in req[w].rows
             \/ cands'[c].human = cands[c].human /\ cands'[c].state = cands[c].state
  <2> DEFINE r == req[w]
             T == Diffed(r)
             S == NewSpans(r)
             L == r.low
  <2>1. PICK ids \in [S -> Fresh] : cands' = Inserted(T, ids, code, L)
    BY <1>5 DEF ReprocessCommit
  <2>2. r \in Request /\ S \in SUBSET Spans /\ cands[c] \in Candidate
    BY DEF NewSpans, IInv, TypeOK, Request
  <2>3. \/ T[c] = Gone /\ r.op = "reprocess" /\ c \in r.rows
        \/ T[c].human = cands[c].human /\ T[c].state = cands[c].state
    BY <1>5, <2>2 DEF Diffed, Dropped, RefreshedRow, Candidate, ReprocessCommit
  <2>4. \/ cands'[c] = T[c]
        \/ cands[c].state = "unborn" /\ cands'[c].state = "suggested"
    <3> HIDE DEF T, S, L
    <3>1. QED
      BY <2>1, <2>2, InsertedRow
  <2>5. QED
    BY <2>3, <2>4
<1>6. ASSUME NEW w \in Workers, Start(w) PROVE cands' = cands
  BY <1>6
  DEF Start, PatchBegin, BulkBegin, InsertBegin, EscalateBegin, CompleteBegin, SignOffBegin,
      ExportBegin, ReprocessBegin, Begin, docVars
<1>7. ASSUME NEW w \in Workers, Load(w) PROVE cands' = cands
  BY <1>7
  DEF Load, PatchLoad, BulkLoad, CompleteLoad, ExportLoad, ExportRender, ExportBlocked,
      ReprocessLoad, ReprocessDiff, docVars
<1>8. ASSUME NEW w \in Workers,
             \/ EscalateCommit(w) \/ StaleRow(w) \/ SignOffCommit(w) \/ ExportCommit(w)
             \/ ReprocessDetecting(w) \/ TakeOrgLock(w) \/ DeadlockVictim(w) \/ Abort(w)
      PROVE  cands' = cands
  BY <1>8
  DEF EscalateCommit, StaleRow, SignOffCommit, ExportCommit, ReprocessDetecting,
      TakeOrgLock,
      DeadlockVictim, Abort, docVars
<1>9. QED
  <2>1. CASE \E w \in Workers, code \in Codes \cup {NoCode} : ReprocessCommit(w, code)
    <3>1. CASE cands[c].state = "unborn"
      BY <1>5, <2>1, <3>1
    <3>2. CASE cands[c].state # "unborn"
      BY <1>5, <2>1, <3>2
    <3>3. QED
      BY <3>1, <3>2
  <2>2. QED
    BY <1>1, <1>2, <1>3, <1>4, <1>6, <1>7, <1>8, <2>1 DEF Next, Commit

\* review_actions rows are never deleted.
LEMMA ActedGrows ==
  ASSUME Next
  PROVE  acted \subseteq acted'
<1>1. CASE UploadAny
  BY <1>1 DEF UploadAny, Upload, UploadFailed
<1>2. ASSUME NEW w \in Workers, Start(w) PROVE acted' = acted
  BY <1>2
  DEF Start, PatchBegin, BulkBegin, InsertBegin, EscalateBegin, CompleteBegin, SignOffBegin,
      ExportBegin, ReprocessBegin, Begin, docVars
<1>3. ASSUME NEW w \in Workers, Load(w) PROVE acted' = acted
  BY <1>3
  DEF Load, PatchLoad, BulkLoad, CompleteLoad, ExportLoad, ExportRender, ExportBlocked,
      ReprocessLoad, ReprocessDiff, docVars
<1>4. ASSUME NEW w \in Workers, Commit(w) PROVE acted \subseteq acted'
  BY <1>4
  DEF Commit, EditCommit, InsertCommit, EscalateCommit, StaleRow, SignOffCommit,
      ExportCommit,
      ReprocessCommit, docVars
<1>5. ASSUME NEW w \in Workers,
             ReprocessDetecting(w) \/ TakeOrgLock(w) \/ DeadlockVictim(w) \/ Abort(w)
      PROVE  acted' = acted
  BY <1>5 DEF ReprocessDetecting, TakeOrgLock, DeadlockVictim, Abort, docVars
<1>6. QED
  BY <1>1, <1>2, <1>3, <1>4, <1>5 DEF Next

\* Every decision on a detected candidate has the review_actions row that names
\* the candidate (patch_candidate, bulk_update_candidates; re-processing and
\* insertions decide nothing on a detected row).
THEOREM DecisionsRecorded == Spec => []DecisionHasAction
<1>1. Init => DecisionHasAction
  BY DEF Init, DecisionHasAction, Decided, DecidedStates, Unborn
<1>2. IInv /\ DecisionHasAction /\ [Next]_vars => DecisionHasAction'
  <2> SUFFICES ASSUME IInv, DecisionHasAction, [Next]_vars PROVE DecisionHasAction'
    OBVIOUS
  <2>1. CASE Next
    <3>1. ASSUME NEW c \in CandIds, (Decided(c) /\ ~cands[c].human)'
          PROVE  c \in acted'
      <4>1. acted \subseteq acted'
        BY <2>1, ActedGrows
      <4>2. cands'[c].state \in DecidedStates /\ ~cands'[c].human
        BY <3>1 DEF Decided
      <4>3. cands'[c] # Gone
        BY <4>2 DEF Gone, Unborn, DecidedStates
      <4>4. \/ cands'[c].state = cands[c].state /\ cands'[c].human = cands[c].human
            \/ c \in acted'
        BY <2>1, <4>2, <4>3, RowStep DEF DecidedStates
      <4>5. QED
        BY <4>1, <4>2, <4>4 DEF DecisionHasAction, Decided
    <3>2. QED
      BY <3>1 DEF DecisionHasAction
  <2>2. CASE UNCHANGED vars
    BY <2>2 DEF vars, DecisionHasAction, Decided
  <2>3. QED
    BY <2>1, <2>2
<1>3. QED
  BY <1>1, <1>2, Invariance, PTL DEF Spec

\* Only ReprocessLoad gives a re-run rows.
LEMMA ReqStep ==
  ASSUME IInv, Next, NEW w \in Workers, req'[w].op = "reprocess", req'[w].rows # {}
  PROVE  \/ req[w].op = "reprocess" /\ req'[w].rows = req[w].rows
         \/ \E R \in SUBSET CandIds : req'[w].rows = R /\ ReprocessLoad(w, R)
<1>1. req \in [Workers -> Request] /\ req[w] \in Request /\ Idle.op # "reprocess"
  BY DEF Idle, IInv, TypeOK
<1>2. CASE UploadAny
  BY <1>2 DEF UploadAny, Upload, UploadFailed
<1>3. ASSUME NEW v \in Workers, Start(v)
      PROVE  req'[w] = req[w]
  <2>1. CASE v # w
    BY <1>1, <1>3, <2>1
    DEF Start, PatchBegin, BulkBegin, InsertBegin, EscalateBegin, CompleteBegin,
        SignOffBegin,
        ExportBegin, ReprocessBegin, Begin
  <2>2. CASE v = w
    <3>1. ReprocessBegin(w) => req'[w].rows = {}
      BY <1>1 DEF ReprocessBegin, Begin, Idle
    <3>2. CASE \E c \in CandIds, goal \in PatchGoals, code \in Codes \cup {NoCode},
                  hand \in BOOLEAN, ifMatch \in IfMatches :
                    PatchBegin(w, c, goal, code, hand, ifMatch)
      <4>1. PICK c \in CandIds, goal \in PatchGoals, code \in Codes \cup {NoCode},
                 hand \in BOOLEAN, ifMatch \in IfMatches :
                    PatchBegin(w, c, goal, code, hand, ifMatch)
        BY <3>2
      <4>2. req'[w].op = "patch"
        BY <1>1, <4>1 DEF PatchBegin, Begin, Idle
      <4>3. QED
        BY <4>2
    <3>3. CASE \E R \in SUBSET CandIds, goal \in {"approved", "rejected"},
                  code \in Codes \cup {NoCode} : BulkBegin(w, R, goal, code)
      BY <1>1, <3>3 DEF BulkBegin, Begin, Idle
    <3>4. CASE \/ \E op \in {"create", "search"}, code \in Codes : InsertBegin(w, op, code)
               \/ \E op \in {"escalate", "resolve"}, c \in CandIds : EscalateBegin(w, op, c)
      BY <1>1, <3>4 DEF InsertBegin, EscalateBegin, Begin, Idle
    <3>5. CASE \/ CompleteBegin(w)
               \/ \E op \in {"approve_doc", "return_doc"} : SignOffBegin(w, op)
               \/ ExportBegin(w)
      BY <1>1, <3>5 DEF CompleteBegin, SignOffBegin, ExportBegin, Begin, Idle
    <3>6. QED
      BY <1>3, <2>2, <3>1, <3>2, <3>3, <3>4, <3>5 DEF Start
  <2>3. QED
    BY <2>1, <2>2
<1>4. ASSUME NEW v \in Workers, Load(v), ~\E R \in SUBSET CandIds : ReprocessLoad(v, R)
      PROVE  req[w].op = "reprocess" /\ req'[w].rows = req[w].rows
  <2>1. CASE PatchLoad(v) \/ BulkLoad(v) \/ CompleteLoad(v) \/ ExportLoad(v)
    <3>1. req'[v].op \in {req[v].op, Idle.op} /\ req[v].op # "reprocess"
      <4>1. req[v] \in Request
        BY <1>1
      <4>2. CASE PatchLoad(v)
        BY <1>1, <4>1, <4>2 DEF PatchLoad, Request
      <4>3. CASE BulkLoad(v)
        BY <1>1, <4>1, <4>3 DEF BulkLoad, Request
      <4>4. CASE CompleteLoad(v)
        BY <1>1, <4>1, <4>4 DEF CompleteLoad, Request
      <4>5. CASE ExportLoad(v)
        BY <1>1, <4>1, <4>5 DEF ExportLoad, Request
      <4>6. QED
        BY <2>1, <4>2, <4>3, <4>4, <4>5
    <3>2. v # w => req'[w] = req[w]
      BY <1>1, <2>1 DEF PatchLoad, BulkLoad, CompleteLoad, ExportLoad
    <3>3. QED
      BY <1>1, <3>1, <3>2
  <2>2. CASE ExportRender(v)
    <3>1. v # w
      BY <1>1, <2>2 DEF ExportRender, Request
    <3>2. QED
      BY <1>1, <2>2, <3>1 DEF ExportRender
  <2>3. CASE ExportBlocked(v)
    BY <1>1, <2>3 DEF ExportBlocked, End
  <2>4. CASE \E found, low \in SUBSET Spans : ReprocessDiff(v, found, low)
    BY <1>1, <2>4 DEF ReprocessDiff, Request
  <2>5. QED
    BY <1>4, <2>1, <2>2, <2>3, <2>4 DEF Load
<1>5. ASSUME NEW v \in Workers, NEW R \in SUBSET CandIds, ReprocessLoad(v, R)
      PROVE  \/ v # w /\ req'[w] = req[w]
             \/ v = w /\ req'[w].rows = R
  BY <1>1, <1>5 DEF ReprocessLoad, Request
<1>6. ASSUME NEW v \in Workers, Commit(v) PROVE req'[w] = req[w]
  BY <1>1, <1>6
  DEF Commit, EditCommit, InsertCommit, EscalateCommit, StaleRow, SignOffCommit,
      ExportCommit,
      ReprocessCommit, End
<1>7. ASSUME NEW v \in Workers,
             ReprocessDetecting(v) \/ TakeOrgLock(v) \/ DeadlockVictim(v) \/ Abort(v)
      PROVE  req[w].op = "reprocess" /\ req'[w].rows = req[w].rows
  BY <1>1, <1>7
  DEF ReprocessDetecting, TakeOrgLock, DeadlockVictim, Abort, End, Request
<1>8. QED
  BY <1>2, <1>3, <1>4, <1>5, <1>6, <1>7 DEF Next

\* A re-run remembers only rows detection made, and such rows never turn human.
LEMMA MatchedInvariant == Spec => []MatchedAreDetected
<1>1. Init => MatchedAreDetected
  BY DEF Init, MatchedAreDetected, Idle
<1>2. IInv /\ MatchedAreDetected /\ [Next]_vars => MatchedAreDetected'
  <2> SUFFICES ASSUME IInv, MatchedAreDetected, [Next]_vars PROVE MatchedAreDetected'
    OBVIOUS
  <2>1. CASE Next
    <3>1. ASSUME NEW w \in Workers, req'[w].op = "reprocess", NEW c \in req'[w].rows
          PROVE  cands'[c].state # "unborn" /\ ~cands'[c].human
      <4>1. CASE c \in CandIds /\ cands[c].state # "unborn" /\ ~cands[c].human
        BY <2>1, <4>1, RowStep DEF Gone, Unborn
      <4>2. CASE ~(c \in CandIds /\ cands[c].state # "unborn" /\ ~cands[c].human)
        <5>1. req[w].op = "reprocess" => c \notin req[w].rows
          BY <4>2 DEF MatchedAreDetected, IInv, TypeOK, Request
        <5>2. PICK R \in SUBSET CandIds : c \in R /\ ReprocessLoad(w, R)
          BY <2>1, <3>1, <5>1, ReqStep
        <5>3. c \in CandIds /\ Live(c) /\ ~cands[c].human
          BY <5>2 DEF ReprocessLoad, ExistingByKey, HasIdentityKey
        <5>4. QED
          BY <4>2, <5>3 DEF Live, CandStates, DecidedStates
      <4>3. QED
        BY <4>1, <4>2
    <3>2. QED
      BY <3>1 DEF MatchedAreDetected
  <2>2. CASE UNCHANGED vars
    BY <2>2 DEF vars, MatchedAreDetected
  <2>3. QED
    BY <2>1, <2>2
<1>3. QED
  BY <1>1, <1>2, Invariance, PTL DEF Spec

\* No step of any request deletes a human-authored redaction
\* (reprocess_document matches only rows with an identity key).
THEOREM HumanRedactionsSurvive == Spec => HumanRedactionsKept
<1>1. IInv /\ MatchedAreDetected /\ [Next]_vars
         => [\A c \in CandIds : Live(c) /\ cands[c].human => Live(c)']_vars
  <2> SUFFICES ASSUME IInv, MatchedAreDetected, Next, NEW c \in CandIds,
                      Live(c), cands[c].human
               PROVE  Live(c)'
    OBVIOUS
  <2>1. cands[c].state \in CandStates /\ cands[c].state # "unborn"
    BY DEF Live, CandStates, DecidedStates
  <2>2. ~\E w \in Workers : req[w].op = "reprocess" /\ c \in req[w].rows
    BY DEF MatchedAreDetected
  <2>3. cands'[c].state \in CandStates
    BY <2>1, <2>2, RowStep
  <2>4. QED
    BY <2>3 DEF Live
<1>2. QED
  BY <1>1, Invariance, MatchedInvariant, PTL DEF Spec, HumanRedactionsKept

-----------------------------------------------------------------------------
(* What each kind of step does to the request that takes it.                  *)

\* What a request is when it has just started: it owes nothing yet, or it has
\* read the current version.
LEMMA StartShape ==
  ASSUME IInv, NEW w \in Workers, Start(w)
  PROVE  /\ UNCHANGED <<docVars, exportVars>>
         /\ \A v \in Workers \ {w} : req'[v] = req[v]
         /\ req'[w].stage \in {"begun", "ready"}
         /\ req'[w].op \in {"patch", "bulk", "export", "reprocess"} => req'[w].stage = "begun"
         /\ req'[w].op \in BumpingOps /\ req'[w].stage = "ready" => req'[w].version = version
<1> DEFINE Good(r) ==
      /\ r.stage \in {"begun", "ready"}
      /\ r.op \in {"patch", "bulk", "export", "reprocess"} => r.stage = "begun"
      /\ r.op \in BumpingOps /\ r.stage = "ready" => r.version = version
<1>1. ASSUME NEW op, NEW r, Begin(w, op, r), Good(r)
      PROVE  /\ UNCHANGED <<docVars, exportVars>>
             /\ \A v \in Workers \ {w} : req'[v] = req[v]
             /\ Good(req'[w])
  <2>1. req' = [req EXCEPT ![w] = r] /\ UNCHANGED <<docVars, exportVars>>
    BY <1>1 DEF Begin
  <2>2. req'[w] = r
    BY <2>1 DEF IInv, TypeOK
  <2> HIDE DEF Good
  <2>3. QED
    BY <1>1, <2>1, <2>2
<1>2. ASSUME NEW c \in CandIds, NEW goal \in PatchGoals, NEW code \in Codes \cup {NoCode},
             NEW hand \in BOOLEAN, NEW ifMatch \in IfMatches,
             PatchBegin(w, c, goal, code, hand, ifMatch)
      PROVE  /\ UNCHANGED <<docVars, exportVars>>
             /\ \A v \in Workers \ {w} : req'[v] = req[v]
             /\ Good(req'[w])
  <2> DEFINE r == [Idle EXCEPT !.op = "patch", !.stage = "begun", !.rows = {c},
                       !.goal = goal, !.code = code, !.hand = hand,
                       !.ifMatch = ifMatch, !.seen = Snapshot({c})]
  <2>1. Good(r)
    BY DEF Idle
  <2>2. QED
    BY <1>1, <1>2, <2>1 DEF PatchBegin
<1>3. ASSUME NEW R \in SUBSET CandIds, NEW goal \in {"approved", "rejected"},
             NEW code \in Codes \cup {NoCode}, BulkBegin(w, R, goal, code)
      PROVE  /\ UNCHANGED <<docVars, exportVars>>
             /\ \A v \in Workers \ {w} : req'[v] = req[v]
             /\ Good(req'[w])
  <2> DEFINE r == [Idle EXCEPT !.op = "bulk", !.stage = "begun", !.rows = R,
                       !.goal = goal, !.seen = Snapshot(R),
                       !.code = IF goal = "approved" THEN code ELSE NoCode]
  <2>1. Good(r)
    BY DEF Idle
  <2>2. QED
    BY <1>1, <1>3, <2>1 DEF BulkBegin
<1>4. ASSUME NEW op \in {"create", "search"}, NEW code \in Codes, InsertBegin(w, op, code)
      PROVE  /\ UNCHANGED <<docVars, exportVars>>
             /\ \A v \in Workers \ {w} : req'[v] = req[v]
             /\ Good(req'[w])
  <2> DEFINE r == [Idle EXCEPT !.op = op, !.stage = "ready", !.code = code,
                       !.version = version]
  <2>1. Good(r)
    BY DEF Idle
  <2>2. QED
    BY <1>1, <1>4, <2>1 DEF InsertBegin
<1>5. ASSUME NEW op \in {"escalate", "resolve"}, NEW c \in CandIds, EscalateBegin(w, op, c)
      PROVE  /\ UNCHANGED <<docVars, exportVars>>
             /\ \A v \in Workers \ {w} : req'[v] = req[v]
             /\ Good(req'[w])
  <2> DEFINE r == [Idle EXCEPT !.op = op, !.stage = "ready", !.rows = {c},
                       !.seen = Snapshot({c})]
  <2>1. Good(r)
    BY DEF Idle, BumpingOps
  <2>2. QED
    BY <1>1, <1>5, <2>1 DEF EscalateBegin
<1>6. ASSUME NEW op \in {"approve_doc", "return_doc"}, SignOffBegin(w, op)
      PROVE  /\ UNCHANGED <<docVars, exportVars>>
             /\ \A v \in Workers \ {w} : req'[v] = req[v]
             /\ Good(req'[w])
  <2> DEFINE r == [Idle EXCEPT !.op = op, !.stage = "ready", !.status = status]
  <2>1. Good(r)
    BY DEF Idle, BumpingOps
  <2>2. QED
    BY <1>1, <1>6, <2>1 DEF SignOffBegin
<1>7. CASE CompleteBegin(w) \/ ExportBegin(w) \/ ReprocessBegin(w)
  <2> DEFINE r(op) == [Idle EXCEPT !.op = op, !.stage = "begun", !.status = status]
  <2>1. \A op \in {"complete", "export", "reprocess"} : Good(r(op))
    BY DEF Idle
  <2>2. \E op \in {"complete", "export", "reprocess"} : Begin(w, op, r(op))
    BY <1>7 DEF CompleteBegin, ExportBegin, ReprocessBegin
  <2>3. QED
    BY <1>1, <2>1, <2>2
<1>8. QED
  BY <1>2, <1>3, <1>4, <1>5, <1>6, <1>7 DEF Start

\* What a request reads: a re-run its matches, then what detection finds and the
\* version; an edit the version; an export the version, then what is approved.
LEMMA LoadShape ==
  ASSUME IInv, NEW w \in Workers, Load(w)
  PROVE  /\ UNCHANGED <<docVars, artifacts>>
         /\ \A v \in Workers \ {w} : req'[v] = req[v]
         /\ \/ req'[w].op \in {"none", "complete"}
            \/ \E R \in SUBSET CandIds :
                  /\ ExistingByKey(R)
                  /\ req'[w].op = "reprocess" /\ req'[w].stage = "loaded"
                  /\ req'[w].rows = R /\ req'[w].seen = Snapshot(R)
            \/ /\ req[w].op = "reprocess" /\ req[w].stage = "detecting"
               /\ req'[w].op = "reprocess" /\ req'[w].stage = "ready"
               /\ req'[w].rows = req[w].rows /\ req'[w].seen = req[w].seen
               /\ req'[w].version = version
            \/ /\ req'[w].op \in {"patch", "bulk"} /\ req'[w].version = version
            \/ /\ req'[w].op = "export" /\ req'[w].stage = "loaded"
               /\ req'[w].version = version
            \/ /\ req[w].op = "export" /\ req[w].stage = "loaded"
               /\ req'[w].op = "export" /\ req'[w].version = req[w].version
               /\ req'[w].rows = Approved
<1>1. req[w] \in Request /\ req \in [Workers -> Request] /\ Idle.op = "none"
  BY DEF IInv, TypeOK, Idle
<1>2. CASE PatchLoad(w)
  BY <1>1, <1>2 DEF PatchLoad, Request, exportVars
<1>3. CASE BulkLoad(w)
  BY <1>1, <1>3 DEF BulkLoad, Request, exportVars
<1>4. CASE CompleteLoad(w)
  BY <1>1, <1>4 DEF CompleteLoad, Request, exportVars
<1>5. CASE ExportLoad(w)
  BY <1>1, <1>5 DEF ExportLoad, Request, exportVars
<1>6. CASE ExportRender(w)
  BY <1>1, <1>6 DEF ExportRender, Request
<1>7. CASE ExportBlocked(w)
  BY <1>1, <1>7 DEF ExportBlocked, End
<1>8. ASSUME NEW R \in SUBSET CandIds, ReprocessLoad(w, R)
      PROVE  /\ UNCHANGED <<docVars, artifacts>>
             /\ \A v \in Workers \ {w} : req'[v] = req[v]
             /\ ExistingByKey(R)
             /\ req'[w].op = "reprocess" /\ req'[w].stage = "loaded"
             /\ req'[w].rows = R /\ req'[w].seen = Snapshot(R)
  BY <1>1, <1>8 DEF ReprocessLoad, Request, exportVars
<1>9. ASSUME NEW found \in SUBSET Spans, NEW low \in SUBSET Spans,
             ReprocessDiff(w, found, low)
      PROVE  /\ UNCHANGED <<docVars, artifacts>>
             /\ \A v \in Workers \ {w} : req'[v] = req[v]
             /\ \/ req'[w].op = "none"
                \/ /\ req[w].op = "reprocess" /\ req[w].stage = "detecting"
                   /\ req'[w].op = "reprocess" /\ req'[w].stage = "ready"
                   /\ req'[w].rows = req[w].rows /\ req'[w].seen = req[w].seen
                   /\ req'[w].version = version
  <2> DEFINE r == [req[w] EXCEPT !.stage = "ready", !.found = found, !.low = low,
                                 !.version = version]
  <2>1. /\ req' = [req EXCEPT ![w] = r] \/ req' = [req EXCEPT ![w] = Idle]
        /\ UNCHANGED <<docVars, exportVars>>
        /\ req[w].op = "reprocess" /\ req[w].stage = "detecting"
    BY <1>9 DEF ReprocessDiff
  <2>2. /\ r.op = req[w].op /\ r.stage = "ready" /\ r.rows = req[w].rows
        /\ r.seen = req[w].seen /\ r.version = version
    BY <1>1 DEF Request
  <2> HIDE DEF r
  <2>3. QED
    BY <1>1, <2>1, <2>2 DEF exportVars
<1>10. QED
  BY <1>2, <1>3, <1>4, <1>5, <1>6, <1>7, <1>8, <1>9 DEF Load

\* A step towards the commit changes the stage alone.
LEMMA StageShape ==
  ASSUME IInv, NEW w \in Workers, ReprocessDetecting(w) \/ TakeOrgLock(w)
  PROVE  /\ UNCHANGED <<docVars, exportVars>>
         /\ \A v \in Workers \ {w} : req'[v] = req[v]
         /\ \/ /\ req[w].op = "reprocess" /\ req[w].stage = "loaded"
               /\ req'[w] = [req[w] EXCEPT !.stage = "detecting"]
            \/ /\ req[w].stage = "ready"
               /\ req'[w] = [req[w] EXCEPT !.stage = "locked"]
<1>1. req[w] \in Request /\ req \in [Workers -> Request]
  BY DEF IInv, TypeOK
<1>2. CASE ReprocessDetecting(w)
  BY <1>1, <1>2 DEF ReprocessDetecting
<1>3. CASE TakeOrgLock(w)
  BY <1>1, <1>3 DEF TakeOrgLock
<1>4. QED
  BY <1>2, <1>3

\* A commit ends its request; only requests that replace the version write
\* candidates, and only exports write artifacts.
LEMMA CommitShape ==
  ASSUME IInv, NEW w \in Workers, Commit(w)
  PROVE  /\ req'[w] = Idle
         /\ \A v \in Workers \ {w} : req'[v] = req[v]
         /\ \/ cands' = cands /\ version' = version
            \/ /\ req[w].op \in BumpingOps /\ req[w].stage = "locked"
               /\ version' = req[w].version + 1 /\ artifacts' = artifacts
         /\ \/ artifacts' = artifacts
            \/ /\ req[w].op = "export" /\ req[w].stage = "locked"
               /\ artifacts' = artifacts
                     \cup {[version |-> req[w].version, redacted |-> req[w].rows]}
<1>1. req \in [Workers -> Request]
  BY DEF IInv, TypeOK
<1>2. End(w)
  BY DEF Commit, EditCommit, InsertCommit, EscalateCommit, StaleRow, SignOffCommit,
         ExportCommit, ReprocessCommit
<1>3. req'[w] = Idle /\ \A v \in Workers \ {w} : req'[v] = req[v]
  BY <1>1, <1>2 DEF End
<1>4. CASE EditCommit(w) \/ \E R \in SUBSET CandIds : InsertCommit(w, R)
  BY <1>3, <1>4 DEF EditCommit, InsertCommit, CanFlush, BumpingOps, exportVars
<1>5. CASE EscalateCommit(w) \/ StaleRow(w) \/ SignOffCommit(w)
  BY <1>3, <1>5 DEF EscalateCommit, StaleRow, SignOffCommit, docVars, exportVars
<1>6. CASE ExportCommit(w)
  BY <1>3, <1>6 DEF ExportCommit, CanFlush
<1>7. CASE \E code \in Codes \cup {NoCode} : ReprocessCommit(w, code)
  BY <1>3, <1>7 DEF ReprocessCommit, CanFlush, BumpingOps, exportVars
<1>8. QED
  BY <1>4, <1>5, <1>6, <1>7 DEF Commit

\* A rollback ends its request and nothing else.
LEMMA RollbackShape ==
  ASSUME IInv, NEW w \in Workers, DeadlockVictim(w) \/ Abort(w)
  PROVE  /\ UNCHANGED <<docVars, exportVars>>
         /\ req'[w] = Idle
         /\ \A v \in Workers \ {w} : req'[v] = req[v]
BY DEF DeadlockVictim, Abort, End, IInv, TypeOK

\* There is nothing of a document whose upload has not committed.
LEMMA NothingYetInvariant == Spec => []NothingYet
<1>1. Init => NothingYet
  BY DEF Init, NothingYet, Unborn
<1>2. IInv /\ NothingYet /\ [Next]_vars => NothingYet'
  <2> SUFFICES ASSUME IInv, NothingYet, [Next]_vars, status' = "absent"
               PROVE  NothingYet'
    BY DEF NothingYet
  <2>1. CASE UploadAny
    BY <2>1 DEF UploadAny, Upload, UploadFailed
  <2>2. ASSUME NEW w \in Workers, Start(w)
        PROVE  NothingYet'
    BY <2>2, StartShape DEF docVars, exportVars, NothingYet
  <2>3. ASSUME NEW w \in Workers, Load(w)
        PROVE  NothingYet'
    BY <2>3, LoadShape DEF docVars, NothingYet
  <2>4. ASSUME NEW w \in Workers,
               \/ ReprocessDetecting(w) \/ TakeOrgLock(w) \/ DeadlockVictim(w) \/ Abort(w)
        PROVE  NothingYet'
    BY <2>4, StageShape, RollbackShape DEF docVars, exportVars, NothingYet
  <2>5. ASSUME NEW w \in Workers, Commit(w)
        PROVE  NothingYet'
    <3>1. req[w].stage = "locked"
      BY <2>5
      DEF Commit, EditCommit, InsertCommit, EscalateCommit, StaleRow, SignOffCommit,
          ExportCommit, ReprocessCommit, CanFlush
    <3>2. status # "absent"
      BY <3>1 DEF IInv, GateInv
    <3>3. status' # "absent"
      BY <2>5, <3>2
      DEF Commit, EditCommit, InsertCommit, EscalateCommit, StaleRow, SignOffCommit,
          ExportCommit, ReprocessCommit, Written, NewStatus, SignOffOps, docVars
    <3>4. QED
      BY <3>3 DEF NothingYet
  <2>6. CASE UNCHANGED vars
    BY <2>6 DEF vars, NothingYet
  <2>7. QED
    BY <2>1, <2>2, <2>3, <2>4, <2>5, <2>6 DEF Next
<1>3. QED
  BY <1>1, <1>2, Invariance, PTL DEF Spec

-----------------------------------------------------------------------------
(* Re-runs that do not overlap. *)

\* Insertion puts each new span under an id of its own.
LEMMA InsertedRows ==
  ASSUME NEW table, NEW S, NEW ids \in [S -> Fresh], Injective(ids), NEW code, NEW low
  PROVE  /\ \A s \in S :
              Inserted(table, ids, code, low)[ids[s]] = Detected(s, code, s \in low)
         /\ \A c \in CandIds : (\A s \in S : ids[s] # c)
                                  => Inserted(table, ids, code, low)[c] = table[c]
<1>1. ASSUME NEW s \in S
      PROVE  Inserted(table, ids, code, low)[ids[s]] = Detected(s, code, s \in low)
  <2> DEFINE t == CHOOSE t \in DOMAIN ids : ids[t] = ids[s]
  <2>1. t \in S /\ ids[t] = ids[s]
    OBVIOUS
  <2>2. t = s
    BY <2>1 DEF Injective
  <2>3. ids[s] \in CandIds
    BY DEF Fresh
  <2>4. Inserted(table, ids, code, low)[ids[s]] = Detected(t, code, t \in low)
    BY <2>1, <2>3 DEF Inserted
  <2> HIDE DEF t
  <2>5. QED
    BY <2>2, <2>4
<1>2. ASSUME NEW c \in CandIds, \A s \in S : ids[s] # c
      PROVE  Inserted(table, ids, code, low)[c] = table[c]
  BY <1>2 DEF Inserted
<1>3. QED
  BY <1>1, <1>2

\* Without an upload or the commit of a re-run no detected row appears, no row
\* dies, and no row changes its span.
LEMMA CalmStep ==
  ASSUME IInv, [Next]_vars, ~UploadAny,
         ~\E w \in Workers, code \in Codes \cup {NoCode} : ReprocessCommit(w, code),
         NEW c \in CandIds
  PROVE  \/ cands'[c] = cands[c]
         \/ /\ cands[c].state # "unborn" /\ cands'[c].state # "unborn"
            /\ cands'[c].human = cands[c].human /\ cands'[c].span = cands[c].span
            /\ Live(c) <=> Live(c)'
            /\ \E w \in Workers : req[w].op \in {"patch", "bulk"}
         \/ cands[c].state = "unborn" /\ cands'[c].human
<1>1. ASSUME NEW w \in Workers, EditCommit(w), c \in req[w].rows
      PROVE  /\ cands[c].state # "unborn" /\ cands'[c].state # "unborn"
             /\ cands'[c].human = cands[c].human /\ cands'[c].span = cands[c].span
             /\ Live(c) <=> Live(c)'
             /\ req[w].op \in {"patch", "bulk"}
  <2> DEFINE new == EditedRow(req[w], c)
  <2>1. /\ req[w].op \in {"patch", "bulk"} /\ req[w].stage = "locked"
        /\ \A d \in RowsNeeded(req[w]) : Live(d)
        /\ cands' = [d \in CandIds |-> IF d \in req[w].rows THEN EditedRow(req[w], d)
                                                            ELSE cands[d]]
    BY <1>1 DEF EditCommit, CanFlush
  <2>2. /\ new \in Candidate /\ cands[c] \in Candidate
        /\ cands[c].state = "gone" => new.state = "gone"
        /\ new.state # "unborn"
    BY <1>1, <2>1, EditedRowFacts DEF IInv, TypeOK
  <2>3. cands[c].state # "unborn"
    BY <1>1, <2>1 DEF IInv, CodeInv
  <2>4. new.human = cands[c].human /\ new.span = cands[c].span
    BY <2>2 DEF EditedRow, Candidate
  <2>5. new.state = Written(EditedState(req[w], c), req[w].seen[c].state, cands[c].state)
    BY <2>2 DEF EditedRow, Candidate
  <2>6. cands'[c] = new
    BY <1>1, <2>1
  <2>7. new.state = "gone" => cands[c].state = "gone"
    <3>1. req[w] \in Request
      BY DEF IInv, TypeOK
    <3>2. EditedState(req[w], c) # req[w].seen[c].state => EditedState(req[w], c) # "gone"
      BY <3>1 DEF EditedState, Request, CandStates, DecidedStates
    <3>3. QED
      BY <2>5, <3>2 DEF Written
  <2>8. Live(c) <=> new.state \in CandStates
    BY <2>2, <2>3, <2>7 DEF Live, Candidate
  <2> HIDE DEF new
  <2>9. QED
    BY <2>1, <2>2, <2>3, <2>4, <2>6, <2>8 DEF Live
<1>2. ASSUME NEW w \in Workers, EditCommit(w), c \notin req[w].rows
      PROVE  cands'[c] = cands[c]
  BY <1>2 DEF EditCommit
<1>3. ASSUME NEW w \in Workers, NEW R \in SUBSET CandIds, InsertCommit(w, R)
      PROVE  \/ cands'[c] = cands[c]
             \/ cands[c].state = "unborn" /\ cands'[c].human
  BY <1>3 DEF InsertCommit, Fresh, HumanRow
<1>4. ASSUME NEW w \in Workers,
             \/ EscalateCommit(w) \/ StaleRow(w) \/ SignOffCommit(w) \/ ExportCommit(w)
      PROVE  cands' = cands
  BY <1>4 DEF EscalateCommit, StaleRow, SignOffCommit, ExportCommit, docVars
<1>5. ASSUME NEW w \in Workers,
             \/ Start(w) \/ Load(w) \/ ReprocessDetecting(w) \/ TakeOrgLock(w)
             \/ DeadlockVictim(w) \/ Abort(w)
      PROVE  cands' = cands
  BY <1>5, StartShape, LoadShape, StageShape, RollbackShape DEF docVars
<1>6. UNCHANGED vars => cands' = cands
  BY DEF vars
<1>7. QED
  BY <1>1, <1>2, <1>3, <1>4, <1>5, <1>6 DEF Next, Commit

\* The commit of a re-run, row by row.
LEMMA RerunCommit ==
  ASSUME IInv, MatchedAreDetected, NEW w \in Workers, NEW code \in Codes \cup {NoCode},
         ReprocessCommit(w, code)
  PROVE  \E ids \in [NewSpans(req[w]) -> Fresh] :
            /\ \A s, t \in NewSpans(req[w]) : ids[s] = ids[t] => s = t
            /\ \A s \in NewSpans(req[w]) :
                  /\ cands'[ids[s]].state = "suggested" /\ cands'[ids[s]].span = s
                  /\ ~cands'[ids[s]].human
            /\ \A c \in CandIds : (\A s \in NewSpans(req[w]) : ids[s] # c) =>
                  \/ c \in Dropped(req[w]) /\ cands'[c] = Gone
                  \/ /\ c \notin Dropped(req[w])
                     /\ cands'[c].state = cands[c].state /\ cands'[c].human = cands[c].human
                     /\ cands'[c].span = cands[c].span
                     /\ c \notin Changed(req[w]) => cands'[c] = cands[c]
<1> DEFINE r == req[w]
           T == Diffed(r)
           S == NewSpans(r)
           L == r.low
<1>1. PICK ids \in [S -> Fresh] : Injective(ids) /\ cands' = Inserted(T, ids, code, L)
  BY DEF ReprocessCommit
<1>2. DOMAIN ids = S
  OBVIOUS
<1>3. ASSUME NEW c \in CandIds
      PROVE  \/ c \in Dropped(r) /\ T[c] = Gone
             \/ /\ c \notin Dropped(r)
                /\ T[c].state = cands[c].state /\ T[c].human = cands[c].human
                /\ T[c].span = cands[c].span
                /\ c \notin Changed(r) => T[c] = cands[c]
  <2>1. cands[c] \in Candidate
    BY DEF IInv, TypeOK
  <2>2. /\ RefreshedRow(r, c).state = cands[c].state
        /\ RefreshedRow(r, c).human = cands[c].human
        /\ RefreshedRow(r, c).span = cands[c].span
    BY <2>1 DEF RefreshedRow, Candidate
  <2>3. T[c] = IF c \in Dropped(r) THEN Gone
               ELSE IF c \in Changed(r) THEN RefreshedRow(r, c) ELSE cands[c]
    BY DEF Diffed
  <2> HIDE DEF T, r
  <2>4. QED
    BY <2>2, <2>3
<1>4. /\ \A s \in S : cands'[ids[s]] = Detected(s, code, s \in L)
      /\ \A c \in CandIds : (\A s \in S : ids[s] # c) => cands'[c] = T[c]
  <2> HIDE DEF T, S, L
  <2>1. QED
    BY <1>1, InsertedRows
<1>5. \A s \in S : /\ cands'[ids[s]].state = "suggested" /\ cands'[ids[s]].span = s
                   /\ ~cands'[ids[s]].human
  <2> SUFFICES ASSUME NEW s \in S
               PROVE  /\ cands'[ids[s]].state = "suggested" /\ cands'[ids[s]].span = s
                      /\ ~cands'[ids[s]].human
    OBVIOUS
  <2> DEFINE isLow == s \in L
             new == cands'[ids[s]]
  <2>1. new = Detected(s, code, isLow)
    BY <1>4
  <2> HIDE DEF isLow, new
  <2>2. new.state = "suggested" /\ new.span = s /\ new.human = FALSE
    BY <2>1 DEF Detected
  <2>3. QED
    BY <2>2 DEF new
<1>6. \A s, t \in S : ids[s] = ids[t] => s = t
  BY <1>1, <1>2 DEF Injective
<1> HIDE DEF T, S, L
<1>7. \A c \in CandIds : (\A s \in S : ids[s] # c) =>
         \/ c \in Dropped(r) /\ cands'[c] = Gone
         \/ /\ c \notin Dropped(r)
            /\ cands'[c].state = cands[c].state /\ cands'[c].human = cands[c].human
            /\ cands'[c].span = cands[c].span
            /\ c \notin Changed(r) => cands'[c] = cands[c]
  BY <1>3, <1>4
<1>8. QED
  BY <1>5, <1>6, <1>7 DEF S

-----------------------------------------------------------------------------

\* What a step leaves of a request that is a re-run with matches: its matches,
\* unless it is the step that loads them.
LEMMA RerunStep ==
  ASSUME IInv, [Next]_vars, NEW w \in Workers, HasMatched(req'[w])
  PROVE  \/ /\ HasMatched(req[w])
            /\ req'[w].rows = req[w].rows /\ req'[w].seen = req[w].seen
         \/ /\ UNCHANGED docVars
            /\ \E R \in SUBSET CandIds : ExistingByKey(R) /\ req'[w].rows = R
                                        /\ req'[w].seen = Snapshot(R)
<1>1. req[w] \in Request /\ ~HasMatched(Idle)
  BY DEF IInv, TypeOK, Idle, HasMatched
<1>2. CASE req'[w] = req[w]
  BY <1>2
<1>3. CASE UploadAny \/ UNCHANGED vars
  BY <1>2, <1>3 DEF UploadAny, Upload, UploadFailed, vars
<1>4. ASSUME NEW v \in Workers, Start(v)
      PROVE  req'[w] = req[w]
  BY <1>4, StartShape DEF HasMatched
<1>5. ASSUME Load(w)
      PROVE  \/ /\ HasMatched(req[w])
                /\ req'[w].rows = req[w].rows /\ req'[w].seen = req[w].seen
             \/ /\ UNCHANGED docVars
                /\ \E R \in SUBSET CandIds : ExistingByKey(R) /\ req'[w].rows = R
                                            /\ req'[w].seen = Snapshot(R)
  BY <1>5, LoadShape DEF HasMatched
<1>6. ASSUME NEW v \in Workers, Load(v), v # w
      PROVE  req'[w] = req[w]
  BY <1>6, LoadShape
<1>7. ASSUME ReprocessDetecting(w) \/ TakeOrgLock(w)
      PROVE  /\ HasMatched(req[w])
             /\ req'[w].rows = req[w].rows /\ req'[w].seen = req[w].seen
  <2>1. PICK s \in {"detecting", "locked"} :
           /\ req'[w] = [req[w] EXCEPT !.stage = s]
           /\ req[w].stage \in {"loaded", "ready"}
    BY <1>7, StageShape
  <2>2. /\ req'[w].op = req[w].op /\ req'[w].rows = req[w].rows
        /\ req'[w].seen = req[w].seen
    BY <1>1, <2>1 DEF Request
  <2>3. QED
    BY <2>1, <2>2 DEF HasMatched
<1>8. ASSUME NEW v \in Workers, ReprocessDetecting(v) \/ TakeOrgLock(v), v # w
      PROVE  req'[w] = req[w]
  BY <1>8, StageShape
<1>9. ASSUME NEW v \in Workers, Commit(v) \/ DeadlockVictim(v) \/ Abort(v)
      PROVE  req'[w] = req[w]
  BY <1>1, <1>9, CommitShape, RollbackShape
<1>10. QED
  BY <1>2, <1>3, <1>4, <1>5, <1>6, <1>7, <1>8, <1>9 DEF Next

\* What has just been matched is covered and alive.
LEMMA FreshMatch ==
  ASSUME IInv, NEW R \in SUBSET CandIds, ExistingByKey(R)
  PROVE  /\ \A c \in CandIds :
               HasIdentityKey(c) => \E d \in R : Snapshot(R)[d].span = cands[c].span
         /\ \A d \in R : Live(d) /\ Snapshot(R)[d] = cands[d]
<1>1. \A d \in R : Snapshot(R)[d] = cands[d]
  BY SnapshotType DEF IInv
<1>2. QED
  BY <1>1 DEF ExistingByKey, HasIdentityKey

\* A successful upload inserts one row for each span it found into a document
\* without rows; a failed one leaves no manifest.
LEMMA UploadedOnce ==
  ASSUME UploadAny, NothingYet
  PROVE  OneCandidatePerSpan'
<1> SUFFICES ASSUME version' > 0
             PROVE  \A c, d \in CandIds :
                       HasIdentityKey(c)' /\ HasIdentityKey(d)' /\ cands'[c].span = cands'[d].span
                          => c = d
  BY DEF OneCandidatePerSpan
<1>1. PICK found \in SUBSET Spans, low \in SUBSET Spans, code \in Codes \cup {NoCode} :
         \E ids \in [found -> Fresh] :
            Injective(ids) /\ cands' = Inserted(cands, ids, code, low)
  BY DEF UploadAny, Upload, UploadFailed
<1>2. PICK ids \in [found -> Fresh] :
         Injective(ids) /\ cands' = Inserted(cands, ids, code, low)
  BY <1>1
<1>3. ASSUME NEW c \in CandIds, HasIdentityKey(c)'
      PROVE  \E s \in found : ids[s] = c /\ cands'[c].span = s
  <2>1. PICK s \in found : ids[s] = c
    <3>1. (\A s \in found : ids[s] # c) => cands'[c] = cands[c]
      BY <1>2, InsertedRows
    <3>2. cands[c].state = "unborn"
      BY DEF NothingYet, UploadAny, Upload, UploadFailed
    <3>3. QED
      BY <1>3, <3>1, <3>2 DEF HasIdentityKey, Live, CandStates, DecidedStates
  <2>2. cands'[c] = Detected(s, code, s \in low)
    BY <1>2, <2>1, InsertedRows
  <2> DEFINE isLow == s \in low
             new == cands'[c]
  <2>3. new = Detected(s, code, isLow)
    BY <2>2
  <2> HIDE DEF isLow, new
  <2>4. new.span = s
    BY <2>3 DEF Detected
  <2>5. QED
    BY <2>1, <2>4 DEF new
<1>4. QED
  BY <1>3

\* The commit of a re-run leaves one row per span: what it inserts was not
\* matched, and all that existed was.
LEMMA RerunOnce ==
  ASSUME IInv, MatchedAreDetected, RerunInv, NEW w \in Workers,
         NEW code \in Codes \cup {NoCode}, ReprocessCommit(w, code)
  PROVE  OneCandidatePerSpan'
<1> DEFINE r == req[w]
           S == NewSpans(r)
<1>1. PICK ids \in [S -> Fresh] :
         /\ \A s, t \in S : ids[s] = ids[t] => s = t
         /\ \A s \in S : /\ cands'[ids[s]].state = "suggested" /\ cands'[ids[s]].span = s
                        /\ ~cands'[ids[s]].human
         /\ \A c \in CandIds : (\A s \in S : ids[s] # c) =>
               \/ c \in Dropped(r) /\ cands'[c] = Gone
               \/ /\ c \notin Dropped(r)
                  /\ cands'[c].state = cands[c].state /\ cands'[c].human = cands[c].human
                  /\ cands'[c].span = cands[c].span
                  /\ c \notin Changed(r) => cands'[c] = cands[c]
  BY RerunCommit
<1>2. MatchInv(r) /\ HasMatched(r)
  BY DEF RerunInv, ReprocessCommit, CanFlush, HasMatched
<1> HIDE DEF S
<1>3. ASSUME NEW c \in CandIds, HasIdentityKey(c)'
      PROVE  \/ \E s \in S : ids[s] = c /\ cands'[c].span = s
             \/ /\ HasIdentityKey(c) /\ cands'[c].span = cands[c].span
                /\ cands[c].span \notin S
  <2>1. CASE \E s \in S : ids[s] = c
    BY <1>1, <2>1
  <2>2. CASE \A s \in S : ids[s] # c
    <3>1. cands'[c] # Gone
      BY <1>3 DEF HasIdentityKey, Live, Gone, Unborn, CandStates, DecidedStates
    <3>2. HasIdentityKey(c) /\ cands'[c].span = cands[c].span
      BY <1>1, <1>3, <2>2, <3>1 DEF HasIdentityKey, Live
    <3>3. \E d \in r.rows : r.seen[d].span = cands[c].span
      BY <1>2, <3>2 DEF MatchInv
    <3>4. cands[c].span \notin S
      BY <3>3 DEF S, NewSpans
    <3>5. QED
      BY <3>2, <3>4
  <2>3. QED
    BY <2>1, <2>2
<1>4. ASSUME NEW c \in CandIds, NEW d \in CandIds, HasIdentityKey(c)', HasIdentityKey(d)',
             cands'[c].span = cands'[d].span
      PROVE  c = d
  <2>1. version > 0
    BY DEF RerunInv, ManifestRead, ReprocessCommit, CanFlush, BumpingOps
  <2>2. QED
    BY <1>1, <1>3, <1>4, <2>1 DEF RerunInv, OneCandidatePerSpan
<1>5. QED
  BY <1>4 DEF OneCandidatePerSpan

\* What gives a request the version to replace reads a manifest, and manifests
\* stay.
LEMMA ManifestStep ==
  ASSUME IInv, IInv', ManifestRead, [Next]_vars
  PROVE  /\ ManifestRead'
         /\ version' > 0 => version > 0 \/ UploadAny
<1>1. version \in Nat /\ version' \in Nat
  BY ConstantsAssumption DEF IInv, TypeOK
<1>2. ASSUME NEW v \in Workers, req'[v].op \in BumpingOps, req'[v].stage \in {"ready", "locked"}
      PROVE  req'[v].version > 0
  BY <1>2 DEF IInv, VersionInv
<1>3. CASE UploadAny
  BY <1>3 DEF UploadAny, Upload, UploadFailed, IInv, GateInv, ManifestRead
<1>4. ASSUME NEW w \in Workers, Start(w)
      PROVE  ManifestRead' /\ version' = version
  <2>1. ASSUME NEW v \in Workers, req'[v].op \in BumpingOps,
               req'[v].stage \in {"ready", "locked"}
        PROVE  version > 0
    <3>1. CASE v = w
      BY <1>2, <1>4, <2>1, <3>1, StartShape DEF BumpingOps
    <3>2. CASE v # w
      BY <1>4, <2>1, <3>2, StartShape DEF ManifestRead
    <3>3. QED
      BY <3>1, <3>2
  <2>2. QED
    BY <1>4, <2>1, StartShape DEF ManifestRead, docVars
<1>5. ASSUME NEW w \in Workers, Load(w)
      PROVE  ManifestRead' /\ version' = version
  <2>1. ASSUME NEW v \in Workers, req'[v].op \in BumpingOps,
               req'[v].stage \in {"ready", "locked"}
        PROVE  version > 0
    <3>1. CASE v = w
      BY <1>2, <1>5, <2>1, <3>1, LoadShape DEF BumpingOps
    <3>2. CASE v # w
      BY <1>5, <2>1, <3>2, LoadShape DEF ManifestRead
    <3>3. QED
      BY <3>1, <3>2
  <2>2. QED
    BY <1>5, <2>1, LoadShape DEF ManifestRead, docVars
<1>6. ASSUME NEW w \in Workers, ReprocessDetecting(w) \/ TakeOrgLock(w)
      PROVE  ManifestRead' /\ version' = version
  <2>1. ASSUME NEW v \in Workers, req'[v].op \in BumpingOps,
               req'[v].stage \in {"ready", "locked"}
        PROVE  version > 0
    <3>1. req[v] \in Request
      BY DEF IInv, TypeOK
    <3>2. req[v].op = req'[v].op /\ req[v].stage \in {"ready", "locked"}
      <4>1. CASE v # w
        BY <1>6, <2>1, <4>1, StageShape
      <4>2. CASE v = w
        <5>1. PICK s \in {"detecting", "locked"} :
                 /\ req'[v] = [req[v] EXCEPT !.stage = s]
                 /\ s = "locked" => req[v].stage = "ready"
          BY <1>6, <4>2, StageShape
        <5>2. req'[v].op = req[v].op /\ req'[v].stage = s
          BY <3>1, <5>1 DEF Request
        <5>3. QED
          BY <2>1, <5>1, <5>2
      <4>3. QED
        BY <4>1, <4>2
    <3>3. QED
      BY <2>1, <3>2 DEF ManifestRead
  <2>2. QED
    BY <1>6, <2>1, StageShape DEF ManifestRead, docVars
<1>7. ASSUME NEW w \in Workers, Commit(w) \/ DeadlockVictim(w) \/ Abort(w)
      PROVE  ManifestRead' /\ (version' > 0 => version > 0)
  <2>1. /\ req'[w] = Idle /\ \A v \in Workers \ {w} : req'[v] = req[v]
        /\ \/ version' = version
           \/ /\ req[w].op \in BumpingOps /\ req[w].stage = "locked"
              /\ version' = req[w].version + 1
    BY <1>7, CommitShape, RollbackShape DEF docVars
  <2>2. version > 0 => version' > 0
    BY <1>1, <2>1 DEF IInv, VersionInv
  <2>3. version' > 0 => version > 0
    BY <2>1 DEF ManifestRead
  <2>4. Idle.op \notin BumpingOps
    BY DEF Idle, BumpingOps
  <2>5. QED
    BY <2>1, <2>2, <2>3, <2>4 DEF ManifestRead
<1>8. CASE UNCHANGED vars
  BY <1>8 DEF vars, ManifestRead
<1>9. QED
  BY <1>3, <1>4, <1>5, <1>6, <1>7, <1>8 DEF Next

LEMMA RerunInvStep ==
  ASSUME IInv, IInv', MatchedAreDetected, NothingYet, OneRerun, RerunInv, [Next]_vars
  PROVE  RerunInv'
<1>0. ManifestRead' /\ (version' > 0 => version > 0 \/ UploadAny)
  BY ManifestStep DEF RerunInv
<1>1. CASE UploadAny
  <2>1. status = "absent" /\ req' = req
    BY <1>1 DEF UploadAny, Upload, UploadFailed
  <2>2. OneCandidatePerSpan'
    BY <1>1, UploadedOnce
  <2>3. \A w \in Workers : MatchInv(req[w])'
    BY <2>1 DEF IInv, GateInv, MatchInv, HasMatched
  <2>4. QED
    BY <1>0, <2>2, <2>3 DEF RerunInv
<1>2. ASSUME NEW w \in Workers, NEW code \in Codes \cup {NoCode}, ReprocessCommit(w, code)
      PROVE  RerunInv'
  <2>1. /\ req[w].op = "reprocess"
        /\ req' = [req EXCEPT ![w] = Idle]
    BY <1>2 DEF ReprocessCommit, End
  <2>2. OneCandidatePerSpan'
    BY <1>2, RerunOnce
  <2>3. ASSUME NEW v \in Workers
        PROVE  ~HasMatched(req'[v])
    <3>1. CASE v = w
      BY <2>1, <3>1 DEF IInv, TypeOK, Idle, HasMatched
    <3>2. CASE v # w
      BY <2>1, <3>2 DEF HasMatched, OneRerun, IInv, TypeOK
    <3>3. QED
      BY <3>1, <3>2
  <2>4. QED
    BY <1>0, <2>1, <2>2, <2>3 DEF RerunInv, MatchInv
<1>3. ASSUME ~UploadAny,
             ~\E w \in Workers, code \in Codes \cup {NoCode} : ReprocessCommit(w, code)
      PROVE  RerunInv'
  <2>1. ASSUME NEW c \in CandIds
        PROVE  /\ HasIdentityKey(c)' => HasIdentityKey(c) /\ cands'[c].span = cands[c].span
               /\ Live(c) => Live(c)' /\ cands'[c].span = cands[c].span
    <3>1. Live(c) => cands[c].state # "unborn"
      BY DEF Live, CandStates, DecidedStates
    <3>2. QED
      BY <1>3, <3>1, CalmStep DEF HasIdentityKey, Live
  <2>2. OneCandidatePerSpan'
    BY <1>3, <1>0, <2>1 DEF RerunInv, OneCandidatePerSpan
  <2>3. ASSUME NEW w \in Workers
        PROVE  MatchInv(req[w])'
    <3>1. CASE /\ HasMatched(req[w])
               /\ req'[w].rows = req[w].rows /\ req'[w].seen = req[w].seen
      <4>1. req[w].rows \subseteq CandIds
        BY DEF IInv, TypeOK, Request
      <4>2. MatchInv(req[w])
        BY DEF RerunInv
      <4>3. QED
        BY <2>1, <3>1, <4>1, <4>2 DEF MatchInv
    <3>2. CASE /\ UNCHANGED docVars
               /\ \E R \in SUBSET CandIds : ExistingByKey(R) /\ req'[w].rows = R
                                           /\ req'[w].seen = Snapshot(R)
      <4>1. PICK R \in SUBSET CandIds : ExistingByKey(R) /\ req'[w].rows = R
                                           /\ req'[w].seen = Snapshot(R)
        BY <3>2
      <4>2. /\ \A c \in CandIds :
                  HasIdentityKey(c) => \E d \in R : req'[w].seen[d].span = cands[c].span
            /\ \A d \in R : Live(d) /\ req'[w].seen[d] = cands[d]
        BY <4>1, FreshMatch
      <4>3. cands' = cands
        BY <3>2 DEF docVars
      <4>4. QED
        BY <4>1, <4>2, <4>3 DEF MatchInv, HasIdentityKey, Live
    <3>3. QED
      BY <3>1, <3>2, RerunStep DEF MatchInv
  <2>4. QED
    BY <1>0, <2>2, <2>3 DEF RerunInv
<1>4. QED
  BY <1>1, <1>2, <1>3

LEMMA RerunInvariant == Spec /\ []OneRerun => []RerunInv
<1>1. Init => RerunInv
  BY DEF Init, RerunInv, OneCandidatePerSpan, HasIdentityKey, Live, CandStates,
         DecidedStates, Unborn, MatchInv, HasMatched, Idle, ManifestRead, BumpingOps
<1>2. IInv /\ MatchedAreDetected /\ NothingYet /\ OneRerun /\ RerunInv /\ [Next]_vars
        => RerunInv'
  BY RerunInvStep, NextStep
<1>3. QED
  BY <1>1, <1>2, Invariance, MatchedInvariant, NothingYetInvariant, PTL DEF Spec

\* While no two re-runs overlap, a document with a manifest has one detected
\* candidate per text span, next to whatever edits, sign-offs and exports, and however
\* often they fail (reprocess_document matches by identity key).
THEOREM NoDuplicates == Spec /\ []OneRerun => []OneCandidatePerSpan
<1>1. RerunInv => OneCandidatePerSpan
  BY DEF RerunInv
<1>2. QED
  BY <1>1, RerunInvariant, PTL

\* Who writes the version writes it at the commit of its own request.
LEMMA OwnCommit ==
  ASSUME IInv, Next, NEW w \in Workers, Commits(w, "reprocess"), version' # version
  PROVE  \E code \in Codes \cup {NoCode} : ReprocessCommit(w, code)
<1>1. req[w].op = "reprocess" /\ req'[w] # req[w]
  BY DEF Commits, Idle
<1>2. ~UploadAny
  BY <1>1 DEF UploadAny, Upload, UploadFailed
<1>3. ASSUME NEW v \in Workers,
             \/ Start(v) \/ Load(v) \/ ReprocessDetecting(v) \/ TakeOrgLock(v)
             \/ DeadlockVictim(v) \/ Abort(v)
      PROVE  version' = version
  BY <1>3, StartShape, LoadShape, StageShape, RollbackShape DEF docVars
<1>4. PICK v \in Workers : Commit(v)
  BY <1>2, <1>3 DEF Next
<1>5. v = w
  BY <1>1, <1>4, CommitShape
<1>6. QED
  BY <1>1, <1>4, <1>5
  DEF Commit, EditCommit, InsertCommit, EscalateCommit, StaleRow, SignOffCommit,
      ExportCommit, SignOffOps, docVars

\* While no two re-runs overlap, every span a re-run found has a live candidate
\* when it commits: a row it relied on to stand for the span is still there.
THEOREM FindingsKept == Spec /\ []OneRerun => FindingsCovered
<1>1. IInv /\ MatchedAreDetected /\ RerunInv /\ [Next]_vars
        => [\A w \in Workers :
              Commits(w, "reprocess") /\ version' # version =>
                 \A s \in req[w].found :
                    \E c \in CandIds : Live(c)' /\ cands'[c].span = s]_vars
  <2> SUFFICES ASSUME IInv, MatchedAreDetected, RerunInv, Next, NEW w \in Workers,
                      Commits(w, "reprocess"), version' # version,
                      NEW s \in req[w].found
               PROVE  \E c \in CandIds : Live(c)' /\ cands'[c].span = s
    OBVIOUS
  <2> DEFINE r == req[w]
             S == NewSpans(r)
  <2>1. PICK code \in Codes \cup {NoCode} : ReprocessCommit(w, code)
    BY OwnCommit
  <2>2. PICK ids \in [S -> Fresh] :
         /\ \A t, u \in S : ids[t] = ids[u] => t = u
         /\ \A t \in S : /\ cands'[ids[t]].state = "suggested" /\ cands'[ids[t]].span = t
                        /\ ~cands'[ids[t]].human
         /\ \A c \in CandIds : (\A t \in S : ids[t] # c) =>
               \/ c \in Dropped(r) /\ cands'[c] = Gone
               \/ /\ c \notin Dropped(r)
                  /\ cands'[c].state = cands[c].state /\ cands'[c].human = cands[c].human
                  /\ cands'[c].span = cands[c].span
                  /\ c \notin Changed(r) => cands'[c] = cands[c]
    BY <2>1, RerunCommit
  <2> HIDE DEF S
  <2>3. CASE s \in S
    BY <2>2, <2>3 DEF Fresh, Live, CandStates
  <2>4. CASE s \notin S
    <3>1. PICK d \in r.rows : r.seen[d].span = s
      BY <2>4 DEF S, NewSpans
    <3>2. d \in CandIds /\ Live(d) /\ cands[d].span = s
      BY <2>1, <3>1
      DEF RerunInv, MatchInv, HasMatched, ReprocessCommit, CanFlush, IInv, TypeOK, Request
    <3>3. d \notin Dropped(r)
      BY <3>1 DEF Dropped
    <3>4. \A t \in S : ids[t] # d
      BY <3>2 DEF Fresh, Live, CandStates, DecidedStates
    <3>5. QED
      BY <2>2, <3>2, <3>3, <3>4 DEF Live
  <2>5. QED
    BY <2>3, <2>4
<1>2. QED
  BY <1>1, Invariance, MatchedInvariant, RerunInvariant, PTL DEF Spec, FindingsCovered

-----------------------------------------------------------------------------
(* Decisions and re-runs. *)

\* A re-run drops a row that it had or keeps its state and its code.
LEMMA RerunCode ==
  ASSUME IInv, NEW w \in Workers, NEW code \in Codes \cup {NoCode}, ReprocessCommit(w, code),
         NEW c \in CandIds, cands[c].state # "unborn"
  PROVE  \/ cands'[c] = Gone
         \/ cands'[c].state = cands[c].state /\ cands'[c].code = cands[c].code
<1> DEFINE r == req[w]
           T == Diffed(r)
           S == NewSpans(r)
           L == r.low
<1>1. PICK ids \in [S -> Fresh] : cands' = Inserted(T, ids, code, L)
  BY DEF ReprocessCommit
<1>2. r \in Request /\ S \in SUBSET Spans
  BY DEF NewSpans, IInv, TypeOK, Request
<1>3. \/ T[c] = Gone
      \/ T[c].state = cands[c].state /\ T[c].code = cands[c].code
  BY <1>2, DiffedRow
<1>4. cands'[c] = T[c]
  <2> HIDE DEF T, S, L
  <2>1. QED
    BY <1>1, <1>2, InsertedRow
<1>5. QED
  BY <1>3, <1>4

\* No step changes the span of a row that a re-run has matched, but to drop it.
LEMMA SpansAsSeenStep ==
  ASSUME IInv, MatchedAreDetected, SpansAsSeen, [Next]_vars
  PROVE  SpansAsSeen'
<1> SUFFICES ASSUME NEW w \in Workers, HasMatched(req'[w]), NEW c \in req'[w].rows
             PROVE  cands'[c].state = "gone" \/ cands'[c].span = req'[w].seen[c].span
  BY DEF SpansAsSeen, HasMatched
<1>1. CASE /\ UNCHANGED docVars
           /\ \E R \in SUBSET CandIds : ExistingByKey(R) /\ req'[w].rows = R
                                       /\ req'[w].seen = Snapshot(R)
  BY <1>1, FreshMatch DEF docVars
<1>2. CASE /\ HasMatched(req[w])
           /\ req'[w].rows = req[w].rows /\ req'[w].seen = req[w].seen
  <2>1. c \in CandIds /\ cands[c].state # "unborn"
    BY <1>2 DEF MatchedAreDetected, HasMatched, IInv, TypeOK, Request
  <2>2. cands[c].state = "gone" \/ cands[c].span = req[w].seen[c].span
    BY <1>2 DEF SpansAsSeen
  <2>3. ~UploadAny
    BY <1>2 DEF UploadAny, Upload, UploadFailed, IInv, GateInv, HasMatched
  <2>4. /\ cands[c].state = "gone" => cands'[c].state = "gone"
        /\ cands'[c].state = "gone" \/ cands'[c].span = cands[c].span
    <3>1. ASSUME NEW v \in Workers, NEW code \in Codes \cup {NoCode}, ReprocessCommit(v, code)
          PROVE  \/ cands'[c] = Gone
                 \/ cands'[c].state = cands[c].state /\ cands'[c].span = cands[c].span
      <4>1. PICK ids \in [NewSpans(req[v]) -> Fresh] :
               \A d \in CandIds : (\A s \in NewSpans(req[v]) : ids[s] # d) =>
                  \/ d \in Dropped(req[v]) /\ cands'[d] = Gone
                  \/ /\ d \notin Dropped(req[v])
                     /\ cands'[d].state = cands[d].state /\ cands'[d].human = cands[d].human
                     /\ cands'[d].span = cands[d].span
                     /\ d \notin Changed(req[v]) => cands'[d] = cands[d]
        BY <3>1, RerunCommit
      <4>2. \A s \in NewSpans(req[v]) : ids[s] # c
        BY <2>1 DEF Fresh
      <4>3. QED
        BY <2>1, <4>1, <4>2
    <3>2. CASE \E v \in Workers, code \in Codes \cup {NoCode} : ReprocessCommit(v, code)
      BY <3>1, <3>2 DEF Gone, Unborn
    <3>3. CASE ~\E v \in Workers, code \in Codes \cup {NoCode} : ReprocessCommit(v, code)
      <4>1. cands[c] \in Candidate /\ cands'[c] \in Candidate
        BY <2>1, NextStep DEF IInv, TypeOK
      <4>2. QED
        BY <2>1, <2>3, <3>3, <4>1, CalmStep DEF Live, Candidate, CandStates, DecidedStates
    <3>4. QED
      BY <3>2, <3>3
  <2>5. QED
    BY <1>2, <2>2, <2>4
<1>3. QED
  BY <1>1, <1>2, RerunStep

\* Whatever overlaps it, a re-run leaves a decision that was committed before it
\* loaded the candidates as it was, and a later one on a span that it finds
\* again keeps its state and its code (reprocess_document).
THEOREM DecisionsRespected == Spec => RerunsRespectDecisions
<1>1. Init => SpansAsSeen
  BY DEF Init, SpansAsSeen, HasMatched, Idle
<1>2. IInv /\ MatchedAreDetected /\ SpansAsSeen /\ [Next]_vars => SpansAsSeen'
  BY SpansAsSeenStep
<1>3. IInv /\ MatchedAreDetected /\ SpansAsSeen /\ [Next]_vars
        => [\A w \in Workers, c \in CandIds :
              Commits(w, "reprocess") /\ Decided(c) =>
                 /\ c \notin req[w].rows \/ req[w].seen[c].state # "suggested"
                       => cands'[c] = cands[c]
                 /\ cands[c].span \in req[w].found
                       => cands'[c].state = cands[c].state /\ cands'[c].code = cands[c].code]_vars
  <2> SUFFICES ASSUME IInv, MatchedAreDetected, SpansAsSeen, Next,
                      NEW w \in Workers, NEW c \in CandIds,
                      Commits(w, "reprocess"), Decided(c)
               PROVE  /\ c \notin req[w].rows \/ req[w].seen[c].state # "suggested"
                            => cands'[c] = cands[c]
                      /\ cands[c].span \in req[w].found
                            => cands'[c].state = cands[c].state /\ cands'[c].code = cands[c].code
    OBVIOUS
  <2>1. CASE \E code \in Codes \cup {NoCode} : ReprocessCommit(w, code)
    <3> DEFINE r == req[w]
               S == NewSpans(r)
    <3>1. PICK code \in Codes \cup {NoCode} : ReprocessCommit(w, code)
      BY <2>1
    <3>2. PICK ids \in [S -> Fresh] :
         /\ \A t, u \in S : ids[t] = ids[u] => t = u
         /\ \A t \in S : /\ cands'[ids[t]].state = "suggested" /\ cands'[ids[t]].span = t
                        /\ ~cands'[ids[t]].human
         /\ \A d \in CandIds : (\A t \in S : ids[t] # d) =>
               \/ d \in Dropped(r) /\ cands'[d] = Gone
               \/ /\ d \notin Dropped(r)
                  /\ cands'[d].state = cands[d].state /\ cands'[d].human = cands[d].human
                  /\ cands'[d].span = cands[d].span
                  /\ d \notin Changed(r) => cands'[d] = cands[d]
      BY <3>1, RerunCommit
    <3> HIDE DEF S
    <3>3. \A t \in S : ids[t] # c
      BY DEF Fresh, Decided, DecidedStates
    <3>4. ASSUME c \notin r.rows \/ r.seen[c].state # "suggested"
          PROVE  cands'[c] = cands[c]
      <4>1. c \notin Dropped(r) /\ c \notin Changed(r)
        BY <3>4 DEF Dropped, Changed, Refreshed
      <4>2. QED
        BY <3>2, <3>3, <4>1
    <3>5. ASSUME cands[c].span \in r.found
          PROVE  cands'[c].state = cands[c].state /\ cands'[c].code = cands[c].code
      <4>1. c \in r.rows => r.seen[c].span = cands[c].span
        BY <3>1
        DEF SpansAsSeen, HasMatched, ReprocessCommit, CanFlush, Decided, DecidedStates
      <4>2. c \notin Dropped(r)
        BY <3>5, <4>1 DEF Dropped
      <4>3. cands'[c] # Gone
        BY <3>2, <3>3, <4>2 DEF Gone, Unborn, Decided, DecidedStates
      <4>4. QED
        BY <3>1, <4>3, RerunCode DEF Decided, DecidedStates
    <3>6. QED
      BY <3>4, <3>5
  <2>2. CASE ~\E code \in Codes \cup {NoCode} : ReprocessCommit(w, code)
    <3>1. req[w].op = "reprocess" /\ req'[w] # req[w]
      BY DEF Commits, Idle
    <3>2. ~UploadAny
      BY <3>1 DEF UploadAny, Upload, UploadFailed
    <3>3. ASSUME NEW v \in Workers, Commit(v)
          PROVE  cands' = cands
      <4>1. v = w
        BY <3>1, <3>3, CommitShape
      <4>2. QED
        BY <2>2, <3>1, <3>3, <4>1
        DEF Commit, EditCommit, InsertCommit, EscalateCommit, StaleRow, SignOffCommit,
            ExportCommit, docVars
    <3>4. ASSUME NEW v \in Workers,
                 \/ Start(v) \/ Load(v) \/ ReprocessDetecting(v) \/ TakeOrgLock(v)
                 \/ DeadlockVictim(v) \/ Abort(v)
          PROVE  cands' = cands
      BY <3>4, StartShape, LoadShape, StageShape, RollbackShape DEF docVars
    <3>5. QED
      BY <3>2, <3>3, <3>4 DEF Next
  <2>3. QED
    BY <2>1, <2>2
<1>4. QED
  BY <1>1, <1>2, <1>3, Invariance, MatchedInvariant, PTL DEF Spec, RerunsRespectDecisions
=============================================================================
