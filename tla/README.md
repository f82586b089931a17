# A verification model of Redact2303

Redact2303 is a multi-tenant service that redacts public-records documents. A
document is uploaded, its text is extracted, detectors propose *candidates*
(boxes to black out), reviewers decide each one, a supervisor may have to
approve the review, and the approved boxes are burnt into the exported PDF.
Around that, organizations have members, rules, a plan that is metered and
capped, webhooks, retention periods and legal holds, and an end. The program is
a FastAPI application over PostgreSQL and an object store (`src/api/app`), with
a web front end and Terraform around it.

This directory holds TLA+ models of that program, TLC configurations for small
instances and TLAPS proofs for all instances. The models are written from the
source; where a document of the repository and the code disagree, the model
follows the code and section 6 says so.

Contents: 1 inventory, 2 the modules, 3 the models and the code, 4 what the runs
check, 5 what is proved, 6 where documents and code disagree, 7 what is left
out.

## 1. Inventory

Everything below runs in an API request, or in a request of the scheduler to
`routers/internal_cron.py` (retention sweep, webhook retries, usage reports,
thresholds). All share one PostgreSQL database; there is no in-process state.
One request is one READ COMMITTED transaction (`db/session.py` `org_session`):
it commits on normal return and rolls back on any exception; a few requests
open several, one after another. Nothing takes a row lock explicitly; the only
explicit lock is the per-organization advisory lock of `write_audit_event`,
held from a transaction's first audit event to its end.

| Component (`src/api/app/...`) | State it keeps | Operations | Hard behaviour | What makes it correct |
|---|---|---|---|---|
| Pipeline (`pipeline/run.py`, `merge.py`, `detect*.py`) | `documents.status`, `pages`, `redaction_candidates`, `manifests` | `process_document`, `reprocess_document` | a re-run reads rows, detects for minutes, then deletes and refreshes from what it read; failures after some flushes are committed with status `error`; overlapping findings are merged | decisions and human-authored redactions survive a re-run; no finding is lost; one candidate per span |
| Review (`services/review_service.py`, `search_service.py`) | candidates, `review_actions`, `manifests.version`, `documents.status` | patch, create, bulk, search-and-redact, complete, approve, return, escalate, resolve | concurrent reviewers with stale reads; an ORM UPDATE that names only changed columns | an approval cites an exemption code; every decision is recorded; the version identifies the content; sign-off gates hold |
| Export (`services/export_service.py`, `pipeline/export.py`) | `export_artifacts`, object store, `documents.status` | `create_export` | status checked at the start and written at the end; object written outside the transaction; error path rolls back its own audit event; a text search over another text than the detectors' | nothing is released without the sign-offs; the artifact is what was approved; what was approved is gone |
| Audit (`services/audit_service.py`) | `audit_events` hash chain | `write_audit_event`, `verify_chain` | chain order is ULID order, writers on several hosts with their own clocks | the chain is a list; verification accepts it |
| Intake (`routers/documents.py`, `pipeline/intake.py`, `email_intake.py`) | `documents`, originals in the object store | upload of a file, an archive, a message | many documents in one transaction; parts that are refused, parts that raise | every file of an upload becomes a document or is rejected by name |
| Retention and legal hold (`retention_service.py`, `legal_hold_service.py`) | content columns, holds, object store, purge events | sweep, set and clear a hold | a hold placed during a sweep; a crash between object deletes and the commit; overlapping sweeps | held documents are kept; a deletion has its certificate; what is due goes in the end |
| Offboarding (`offboarding_service.py`) | package, `plan_status` | offboard | uploads, holds, sweeps, billing events during its minutes | ends canceled, certified, held documents kept |
| Webhooks (`webhook_service.py`) | `webhook_deliveries`, subscriptions | trigger, retry tick, create, delete | inline delivery before commit; overlapping ticks; rollback after a POST; unexpected errors | retried until delivered or given up, and then left alone |
| Usage (`usage_service.py`) | `usage_records`, notices | record, cap check, report, thresholds | report before stamp; months end; jobs overlap | what is stamped was reported; a threshold is announced in the month it is reached; a pilot stops at its cap |
| Billing events (`billing_service.py`) | `plan`, `plan_status` | provider webhook | replayed and reordered events | an offboarded organization stays canceled |
| Rules (`rule_service.py`) | `rule_set_versions`, `rules` | add, patch, delete, draft, publish, clone | edits that fork, publications, processing in between | versions without gaps; a released version freezes; what runs was released |
| Manuals (`manual_service.py`) | `manuals`, draft rules | upload, accept, reject | decisions that overlap | what is accepted enters the rule sets; a decision stays |
| Organizations, members, invites (`org_service.py`, `invite_service.py`, `membership_service.py`, `platform_service.py`) | `organizations`, `memberships`, `invites` | create, provision, invite, accept, patch | check in another transaction than the insert; settings of pooled connections decide what is seen | tenants stay apart; one active organization per user; members were invited |
| Support grants (`support_grant_service.py`) | `support_grants` | request, decide | two decisions | one decision per grant |
| Encryption, identity and LLM providers, PDF drawing, front end, infrastructure | none that matters here | - | - | see section 7 |

How the parts meet: review, export and the pipeline share the candidate rows
and `documents.status`; every state change calls `write_audit_event` and so
queues on the organization's advisory lock; requests and jobs trigger webhooks;
uploads and exports write the usage records that the jobs read; retention and
offboarding delete what intake stored; billing events and offboarding write one
`plan_status`.

`PROJECT.json` ("hazards") lists, line by line, what can go wrong in these
interactions that a test hardly reaches, and which property is about it.

## 2. The modules

| Module | Models | Built on | Abstract specification | Proofs |
|---|---|---|---|---|
| `DocumentReview` | upload, re-processing, review and export of one document by concurrent requests | - | `ReviewGate` | `DocumentReview_proofs` |
| `ReviewGate` | the promise: release only after the sign-offs | - | - | - |
| `AuditChain` | hash chain under the advisory lock, ids from several clocks, verification | - | - | `AuditChain_proofs` |
| `Retention` | uploads, holds, the sweep, the object store, crashes | - | - | with `Offboarding` |
| `Offboarding` | offboarding and changes of `plan_status`, composed with all of `Retention` | `Retention` | - | `Offboarding_proofs` |
| `WebhookDelivery` | subscriptions, inline attempts, retry ticks, dead letters | - | - | `WebhookDelivery_proofs` |
| `RuleVersions` | rule packs, versions, manuals, provenance | - | - | `RuleVersions_proofs` |
| `Intake` | what an uploaded file becomes: operators, no state | - | - | - |
| `UsageMetering` | uploads and exports that record usage, the cap, reports, thresholds, months | `Intake` | - | `UsageMetering_proofs` |
| `Accounts` | organizations, members, invites, grants, sessions and row-level security | - | `Decision` | `Accounts_proofs` |
| `Decision` | the promise: each grant is decided once | - | - | - |
| `Redaction` | from findings on a page to what is left in the exported file | - | - | `Redaction_proofs` |

`MC*` modules give the instances of section 4; `WebhookDelivery` needs none.
Modules with proofs have their theorems in `*_proofs`.

## 3. The models and the code

### `DocumentReview`

One document, the requests that work on it, and the object that its exports
write. State and code:

| Variable | Code |
|---|---|
| `status` | `documents.status` (committed values; `extracting` and `detecting` are never committed) |
| `lowOcr` | a page with `ocr_confidence` below the checklist's threshold |
| `version` | `manifests.version`, 0 before the manifest exists |
| `cands` | `redaction_candidates`: state, exemption code, human-authored or detected, text span, low confidence, whose box |
| `escalated`, `acted`, `actions` | `escalated_at`; which candidates `review_actions` rows name; which document-level rows exist |
| `artifacts`, `blob` | `export_artifacts` rows; the object under `exports/{doc_id}/clean_pdf` |
| `trail`, `pager` | committed export events of the audit trail; the integrity alarm |
| `req` | per worker: the request, how far it is, and the values it has loaded |

A request goes `idle -> begun -> loaded -> ready -> locked` and ends in a commit
or a rollback. Its SELECTs happen on the way to `ready`, each in a step of its
own where another commit in between could matter. `write_audit_event` takes the
advisory lock (`TakeOrgLock`) and its own SELECT triggers the ORM's autoflush,
so for ordinary requests all UPDATEs are sent *after* the lock is held and
become visible at the commit that follows: the model writes once, out of
`locked`. Nothing is re-read after the lock, so a request writes from stale
values, and `Written` says what an ORM flush does with them: an attribute whose
new value equals the value loaded is not in the UPDATE, so the stored value of
somebody else's commit stays. A row deleted meanwhile makes the flush raise
`StaleDataError` (`StaleRow`).

`reprocess_document` is different: it flushes `status = detecting` and the
candidate diff before it asks for the advisory lock. It therefore holds row
locks while it waits (`HoldsRows`, `LockedRows`, `BlockedBy`), in the order
opposite to every other request, and PostgreSQL's deadlock detector aborts one
of the two (`DeadlockVictim`). Any request may also simply end without effect:
a crash, a disconnect, any exception (`Abort`).

Operations and actions:

| Code | Actions |
|---|---|
| `routers/documents.py` `_create_and_process_document`, `pipeline/run.py` `process_document` | `Upload` (success), `UploadFailed` (it raises after any of its flushes: `_detect_all_pages` adds every rule's findings and merges when all pages are done, so the rows that the router then commits with status `error` may be several of one span) |
| `patch_candidate` | `PatchBegin`, `PatchLoad` (404, 409, 422), `EditCommit` |
| `bulk_update_candidates` | `BulkBegin`, `BulkLoad`, `EditCommit` |
| `create_manual_candidate`, `search_and_redact` | `InsertBegin`, `InsertCommit` |
| `escalate_candidate`, `resolve_escalation` | `EscalateBegin`, `EscalateCommit` |
| `complete_review` | `CompleteBegin`, `CompleteLoad` (checklist), `SignOffCommit` |
| `approve_document`, `return_document` | `SignOffBegin`, `SignOffCommit` |
| `create_export` | `ExportBegin`, `ExportLoad`, `ExportRender` (object-store put), `ExportBlocked` (verifier fails), `ExportCommit` |
| `reprocess_document` | `ReprocessBegin`, `ReprocessLoad`, `ReprocessDetecting` (row lock), `ReprocessDiff`, `ReprocessCommit` |
| `org_session`, PostgreSQL | `TakeOrgLock`, `StaleRow`, `DeadlockVictim`, `Abort` |

Abstractions. What detection finds is any set of spans, with any subset of them
of low confidence, and a code or none. The PDF is the set of candidates burnt
into it. The verifier's verdict is nondeterministic. Encrypted display text,
coordinates, notes and the webhook calls are left out. Ids are model values that
are never reused. Candidate ids and the manifest version are bounded
(`CandIds`, `MaxVersion`): a request that would need more is not let in or, for
a re-run, ends without effect.

### `ReviewGate`

Three flags (completed, approved, released) and the order they may be raised
in. `DocumentReview` implements it under the mapping given at `Gate`.

### `AuditChain`

The `audit_events` rows of several organizations, written by overlapping
transactions of several API processes.

| Definition | Code |
|---|---|
| `events` | committed `audit_events` rows: organization, id, the id its `prev_hash` points at, and (for the properties only) the process that drew the id |
| `tx` | per writer: the open transaction, the head it has read, its uncommitted rows |
| `clock`, `lastId` | the clock of each process, the last ULID it drew |
| `Lock`, `Holds` | `pg_advisory_xact_lock(hashtext(org_id))`: kept until the transaction ends; keys of two organizations may collide (`LockKey`) |
| `ReadHead` | `ORDER BY id DESC LIMIT 1` over what READ COMMITTED shows |
| `Insert` | `new_id("aud")` and the flushed INSERT |
| `Commit`, `Rollback` | the end of `org_session` |
| `Verifies` | `verify_chain`: walk the rows by id, each `prev_hash` must be the hash of the row before |

Hashes are represented by ids (SHA-256 taken as collision-free; the table is
append-only by grants, so recomputing a stored hash agrees). A ULID is a
millisecond and random bits; one process counts up within a millisecond
(python-ulid 3, what `python-ulid>=2.2` installs), two processes are not ordered
within a millisecond, nor beyond it when their clocks differ. Clocks only move
forward: a stepped-back clock of a single process, or python-ulid 2, would break
`SingleHostVerifies` the way the mutant `NewIdsRandom` does.

### `Retention` and `Offboarding`

The transactions of one organization that create, hold and destroy documents.

| Definition | Code |
|---|---|
| `phase`, `deleted` | `documents` rows: none, in use, exported longer ago than the retention period; `deleted_at` (with it the key and the digest are null) |
| `hold` | `legal_hold` of documents and of their request |
| `store` | originals in the object store, written and deleted outside any transaction |
| `certs` | `document.retention_purged` events: the document, and whether `sha256_at_purge` is there |
| `lock`, `tx` | the advisory lock; per worker, where its transaction is and what it has loaded |
| `plan`, `org` | `plan_status`; per worker, the package and the status loaded and asked for |
| `UploadPut`, `UploadCommit` | `_create_and_process_document`: object first, row at the commit |
| `HoldBegin`, `HoldCommit` | `set_..._legal_hold`, `clear_..._legal_hold` |
| `SweepBegin`, `CheckDocument`, `CheckRequest`, `DeleteObjects`, `RecordPurge`, `SweepCommit` | `find_documents_eligible_for_purge`; `purge_document_content`: two re-checks, the deletes, the event (which takes the lock); the end of `retention_sweep_tick` |
| `OffboardBegin`, `Package`, `OffboardQuery`, the same purge loop, `LoadOrganization`, `OffboardCommit` | `offboard_org`: guard in a session of its own, package, eligibility, purges, then the organization's row |
| `StatusBegin`, `StatusCommit` | provider events and `PATCH /platform/orgs/{id}` that set `plan_status` |
| `ComeDue`, `Reopen` | the first export plus the retention period; a document that returns to review |
| `Fail` | any exception or crash: the rows roll back, the objects are gone |

The heart is that a row keeps its key until the commit, so after a crash the next
sweep finds the document again, deletes nothing a second time without an error
(`store.delete` of what is gone is none) and certifies it.

### `WebhookDelivery`

Deliveries of one organization. `rows` are the committed rows, `base` and `mine`
what a transaction has loaded and made of them, `posts` counts the POSTs really
made. `ReportBegin` opens a
request that reports a state change: it has written its audit event and holds
the lock. `NoticeBegin` is the one other caller of `trigger_event`,
`check_usage_thresholds`, which writes none and holds no lock. `Deliver` is one
round of `trigger_event`; `DeliverRaises` its broad `except`, which counts the
attempt or not, depending on where the exception came from; `FlushRaises` the
flush at its end, outside that `try`, which a subscription deleted meanwhile makes
fail. `Retry` is one round
of `retry_pending_deliveries`, which takes the lock only when it gives up
(`write_audit_event`). `Written` is the UPDATE of changed columns: a tick that
loaded a delivery as failed may write after another settled it. `BackoffElapses`
is the time until `next_retry_at`. `Fail` rolls back after any number of POSTs.
`DeleteSubscription` cascades to the deliveries.

### `RuleVersions`

`status` and `rules` are, per pack and number, the version's status and its
rules as a function of keys. A request reads (`EditBegin`, `AcceptBegin`,
`PublishBegin`, ...) and later writes all at once (`EditCommit`,
`NewVersionCommit`, `PublishCommit`): between the two it waits for the lock and
others commit. `InPlace` and `Edited` are `_ensure_draft_version`'s fork: a draft
is edited in place, any other version is cloned into the next number; the unique
constraint on (pack, number) refuses the loser of a race (`Taken`, `Refused`).
`ProcessBegin` and `ProcessCommit` are detection: `get_active_rules` reads the
latest published version of each pack, and the document records its number.
`MayOverlap` names the pairs of operations that may be open together; the run
lets all of them. What a request read is stale when it commits, so a version is
not frozen from its publication on, nor a draft rule from its decision on. They
are `Settled` and `Decided` when the last request that loaded them before has
ended, and the properties are about these.

### `Intake` and `UsageMetering`

`Intake` says, of a file and its parts, whether the upload fails whole
(`Raises`), and otherwise which documents it creates (`Received`) and which
parts it names as rejected (`Rejected`): sniffing, size limits and malware
scanning of a file (`Validated`), one level of an archive (`Entries`,
`NestedArchives`), attachments of messages (`Attachments`). TLC evaluates
`FilesAccounted` over all uploads of up to three parts.

`UsageMetering` has the requests that use this: `Receive` opens a request and
takes the file apart, `UploadDocument` creates one document after another in
that transaction (the audit event takes the lock, then the cap is checked, then
the pages are recorded), `SampleDocument` and `Export` are the other metered
routes. `ReportRead`, `ReportMetric` and `ReportCommit` are
`aggregate_and_report_usage`: one provider call per metric, then the stamp.
`NotifyRead`, `Threshold` and `NotifyCommit` are `check_usage_thresholds`, whose
"already sent" is read from the deliveries since the month began. `trigger_event`
posts at once, before the commit, and only if there is a subscription
(`Threshold`; `posted` counts, up to `MaxPosts`), and a subscription takes its
deliveries along when it is deleted (`Unsubscribe`). An allowance of `None`
(the enterprise plan) has no thresholds and no cap; one of 0, which a platform
admin may set, is divided by (`NotifyRaises`). An organization without
`stripe_customer_id` is not reported (`NoCustomer`). A job takes the time once
(`now`), a delivery's `created_at` is the start of its transaction (`began`), and
`NextMonth` happens at any moment. `OrgChanges` is the checkout that ends a pilot
and the platform's changes of plan and cap; `Orgs` are the plans and caps that an
instance has.

### `Accounts` and `Decision`

Every session is a step on some connection of the pool (`conn` is what settings
are left on it). `OrgSession`, `UserSession`, `TokenSession`, `SystemSession`
and `CertificateSession` (`verify_certificate_by_id`) are the settings of
`db/session.py` and of the services that set their own; `VisibleMemberships`,
`VisibleInvites`, `VisibleArtifacts` and `VisibleContent` are the policies of the
migrations, the last one for every other table, global rows (`org_id IS NULL`)
included. `exposed` collects, per request, the organizations of which its
sessions could read a row other than the one the request names by a token or a
certificate id: `FindInvite` reads the invite of any token, whoever presents it,
and checks the address, the expiry and the use afterwards (`Acceptable`), and
`VerifyCertificate` needs no account at all. `CreateBegin` and
`CreateAttempt` are `create_organization` with its slug retries, `FindInvite`,
`CheckFree` and `AcceptInvite` the three sessions of `accept_invite`,
`Authorize` is `get_membership` with the role check, followed by `Invite`,
`PatchMember`, or `LoadGrant` and `DecideGrant`. `CurrentStatus` is the
conditional UPDATE of `decide_grant`. `Provision`, `RequestGrant`, `ListOrgs`
and `VisitOrg` are the platform administrator's. `Abandon` is any refusal or
failure. A grant's status refines `Decision` (`Verdicts`).

### `Redaction`

One page: words on lines, their offsets in the extracted text and their boxes;
or a scan, whose text is what OCR reads (`Scans`). `RulePass` and
`ContextualPass` append findings in the pipeline's order; a model's quote is
grounded where it occurs first, or near it when it is not exact (`Grounded`).
`Merge` is `merge_overlapping`: clusters around anchors (`Anchor`), the primary
by origin and confidence (`Rank`), the union box, the first other code. `Review`
approves any of what remains, `Export` burns in (`BurntIn`), runs the integrity
check (`Passed`) and releases or blocks. Boxes are integers on a grid; a word is
atomic: the boxes of findings are unions of whole words. Boxes that reviewers
draw by hand are not in this module.

### Mutated definitions

The modules hold a few definitions that no action uses (`DroppedDecided`,
`PrimaryBox`, ...), each before the definition it is a plausible bug of: a
dropped guard, a missing reset, a filter left out. Substituting one for the
other makes the property named in `PROJECT.json` ("mutants") fail, which is how
we know that the property depends on that line of the code.

## 4. What the runs check

| Run | Instance | Distinct states | Properties |
|---|---|---|---|
| `review_concurrent` | 2 requests, 2 candidates, 1 span, version up to 3; edits, inserts, re-runs | about 2 300 000 | `ApprovedHasCode`, `DecisionHasAction`, `RerunsRespectDecisions` |
| `review_dual` | 2 requests, 2 candidates, 1 span, version up to 2, dual approval; sign-offs, returns, exports, patches, re-runs | about 710 000 | `ExportGate`, `UnreadableNeverCompleted`, `ImplementsGate` |
| `review_sequential` | 1 request at a time, 3 candidates, version up to 4 | about 950 000 | `OneCandidatePerSpan`, `ArtifactMatchesManifest`, `HumanRedactionsKept`, `FindingsCovered`, `VersionBumpsOnChange` |
| `review_liveness` | 2 requests, 1 candidate; patches, completions, escalations, re-runs, with fairness | about 77 000 | `RequestsFinish` |
| `audit_chain` | 2 writers, 2 processes, 2 organizations, 2 milliseconds of 2 ids | about 400 000 | `VerifiesIffInOrder`, `SingleHostVerifies` |
| `offboarding` | 2 documents (one of a request, one exported long ago), 2 workers, 1 crash; with fairness | about 550 000 | `DeletedIsCertified`, `HoldBlocksDeletion`, `PurgingOffboardCancels`, `DueEventuallyPurged` |
| `webhook` | 1 subscription, 2 deliveries, 3 attempts, 2 workers, 2 faults; with fairness | about 80 000 | `GivenUpAfterAllAttempts`, `ReportedChangeCommits`, `SettledStaysSettled`, `RetriedUntilSettled` |
| `rules_overlap` | a starter pack and one of the organization, 3 versions, 1 key, 1 value, 1 draft rule, 1 document, 2 workers, 1 rollback; every overlap | about 610 000 | `TypeOK` (numbers without gaps), `AcceptedEnter`, `AppliedReleased`, `VersionsSettle`, `DraftsSettle` |
| `usage` | 2 requests, or one and a job, 4 organizations, 2 records, 2 months, an archive of 2 documents, 1 rollback; with fairness | about 270 000 | `TypeOK` (who has rows holds the lock), `StampedIsBilled`, `PilotStopsAtCap`, `ReportedInItsMonth`, `ThresholdsAnnounced` |
| `accounts` | 2 users, 3 organizations, 2 invites, 1 grant, 2 slugs, 1 connection | about 390 000 | `TenantIsolation`, `JoinedByInvite`, `DecidedOnce` |
| `redaction` | 6 words on 2 lines or a misread scan of them, 3 findings | about 380 000 | `ApprovedIsGone`, `DisagreementIsShown`, `BlockedByLeftover` |
| `violates_RedactedTextIsGone` | the same page | - | must be violated: section 6 |

The first two review runs ask what survives every interleaving; the third asks
what holds as long as requests do not overlap. The separation is the point: all
of the sequential properties but `HumanRedactionsKept` are *false* for
overlapping requests (section 6), and the pair of runs says exactly which
promise depends on which assumption. Of a re-run next to decisions
`RerunsRespectDecisions` says what does hold: a row that was decided when the
re-run loaded it is left as it is, and a decision that commits later, on a span
that the re-run finds again, keeps its state and code. (What the re-run does not
find again, it deletes: `DecisionsSurviveReprocess`, section 6.)

`rules_overlap` is about what holds whichever requests overlap. What the code's
comments promise (`AtMostOnePublished`, `PublishedImmutable`, `AcceptedOnce`, and
`ProvenanceHolds`) is more; it is violated by an edit, an acceptance or a
publication next to a publication, and by two decisions on drafts (section 6),
and holds in `Rules_overlap` with `MayOverlap <- HarmlessPairs`, the pairs that
remain. Nothing in the code excludes the others, so no run and no theorem rests
on that.

Why the bounds are enough. A conflict in this code is between one transaction
that has loaded values and another that commits before it: two show every such
pair, and the third participant that a deadlock or a stale row needs is the row
itself.

- Review: one span and two candidate ids give a detected row, a human row, a
  duplicate of a span, and a deleted row whose id is not reused; three ids give
  two generations of detection next to a human row. Version 3 lets a re-run follow
  a decision and the next one overlap it; version 4 lets a sequence
  edit, complete, export, edit, re-run happen in one behaviour.
- Audit chain: two processes show every disagreement of clocks, and four ids a
  fork and what follows it. The two organizations have different lock keys.
- Offboarding: one document is due at once and one comes due after an upload;
  one belongs to the request, so both kinds of hold matter. One crash is enough
  to leave a purge half done; the digest of a document can only be lost by a
  second purge of the same document.
- Webhooks: three attempts are the first, one that fails again and the last;
  two deliveries let a tick be between two of them. Two faults let a rollback
  follow a rollback.
- Usage: the cap (and allowance) is one document, so each upload is at a
  boundary of the cap and of both thresholds; two months show what a month's end
  does. A longer archive repeats the same step. Of the four organizations two are
  known to the provider (a monthly cap, and a cap lowered to 0), two are not (a
  pilot's cap, and none), and a platform admin moves an organization between the
  two. One of the workers runs the jobs, so two calls of jobs do not overlap in
  this run: with two such workers TLC finds no violation of the safety properties
  either, and section 5 proves them for any number, but the liveness properties
  would take too long.
- Rules: one key that has its value or not is enough to tell two contents apart;
  three versions are a published one, a draft and the fork that races for the next
  number.
- Accounts: three organizations and two slugs make the last creation fail; one
  pooled connection maximises what sessions could inherit.
- Redaction: a merge of three findings is the smallest in which the anchor
  rule is not transitive; the spans include parts of a line, a whole line, one
  across the break and one that meets no word.

Fairness. A transaction's own steps are weakly fair: the event loop runs it.
Getting the advisory lock, a row lock and the commit are strongly fair:
PostgreSQL queues waiters first come, first served. The deadlock victim is weakly
fair (`deadlock_timeout`). The scheduler's calls are strongly fair: it calls
`/internal/cron/*` again and again, and a worker that is now and then free
stands for the next call. Time passes (backoff). Nothing else is: requests are
not assumed to start, to abort, nor the month to end.

Under these assumptions every review request ends although locks are taken in
two orders (`RequestsFinish`; the mutant whose deadlock detector knows only the
documents row shows that candidate-row cycles matter too); what stays due and
free of holds is purged (`DueEventuallyPurged`); a failed delivery with a next
attempt is settled (`RetriedUntilSettled`); and the jobs catch up
(`ReportedInItsMonth`, `ThresholdsAnnounced`), which is a statement about the
code because the bounds make usage stop. The first lets a month end before its
records are reported, which is what the code does (`EveryRecordReported`,
section 6). The second asks of an organization that it keeps a subscription and an
allowance other than 0: without a subscription nothing is recorded as sent, and
an allowance of 0 raises. A tick goes through all organizations in one loop, and
what one of them raises ends it for those after it: that this does not happen to
this organization forever is assumed.

Deadlock checking is off because the instances do stop: one upload per document,
bounded ids, versions, attempts and faults end every behaviour. Symmetry is used
in safety runs only, for sets that nothing orders.

## 5. What is proved

The invariants and action properties that the runs check are theorems here, two
refinements included, but for `ArtifactMatchesManifest` and
`VersionBumpsOnChange`, which hold of requests that do not overlap and are only
model-checked. What a theorem assumes beyond the named assumption on its module's
constants is said where it is listed: that is the case of two.

`DocumentReview_proofs` proves, for any sets of workers, candidates, spans and
codes and any `MaxVersion`, from `ConstantsAssumption` only:

| Theorem | States |
|---|---|
| `Invariance` | `Spec => []IInv` |
| `TypeCorrect`, `ApprovalsCited`, `GateHolds`, `ChecklistHolds` | the invariants that `IInv` implies |
| `GateImplemented` | `Spec => ImplementsGate`: initial states map to initial states, every step to a step or a stutter of `ReviewGate` |
| `DecisionsRecorded` | `DecisionHasAction` |
| `HumanRedactionsSurvive` | `HumanRedactionsKept`, an action property |
| `DecisionsRespected` | `RerunsRespectDecisions`, an action property |

and, of behaviours in which no two re-runs of the document overlap (any number of
workers, and everything else overlaps freely; nothing in the code excludes two
re-runs, so this is a condition on how the service is used):

| Theorem | States |
|---|---|
| `NoDuplicates` | `Spec /\ []OneRerun => []OneCandidatePerSpan`: of a document with a manifest; one whose upload failed has none, and may have duplicates |
| `FindingsKept` | `Spec /\ []OneRerun => FindingsCovered` |

The argument. None of the invariants is inductive: a commit writes what the
request saw long ago, so the invariant must say what requests in flight may
remember. `IInv` adds three facts per request. `VersionInv`: a request that will
bump the version saw one below the bound. `CodeInv`: a row a request is about
to edit exists, a code it saw on a row is still there unless the row is gone
(no operation nulls a code, ids are not reused), what it saw approved had a
code, and what it approves it saw or sends a code for - so `Written` can combine
stored and stale attributes without producing an approval without a code.
`GateInv`: a sign-off or an export in flight was let in by a status, and that
status stood for recorded actions, which are append-only - so a stale status
does no harm to the gate.

The proofs split each step by what it touches. `RequestOnly` covers the steps
that move one request and nothing else, `CommitOnly` the commits, and
`BystanderKept` says that a commit preserves the facts about the *other*
requests; `RowStep` states what any step can do to a row. On top of these,
`DecisionsRecorded` and `HumanRedactionsSurvive` are short; the latter needs
`MatchedAreDetected`: what a re-run matched before its detection pass is still
not human-authored when it deletes.

The second table sharpens `review_sequential`, which checks the same properties
with one request at a time. TLC finds a counterexample to both for two
unrestricted workers, and none with `OneRerun` as a state constraint. The
strengthenings say what a request in flight may still rely on: what a re-run
has matched is alive, has the span it was loaded with and, together with what
was matched before it, stands for every span that has a detected row
(`MatchInv`). `DecisionsRespected` needs only that spans do not change
(`SpansAsSeen`): what a re-run loaded is still about the span it saw, or gone.
`InsertedRows` says which row each finding becomes: findings get ids that
differ.

`AuditChain_proofs` proves, from `ConstantsAssumption` of that module:

| Theorem | States |
|---|---|
| `AuditInvariance` | `Spec => []IInv` |
| `VerificationIsOrder` | `VerifiesIffInOrder`: a chain verifies if and only if every event got a greater id than its predecessor |
| `OneProcessVerifies` | `SingleHostVerifies` |
| `PredecessorsStay` | `PredecessorsKept` |

The lemma `Extend` is the heart: chaining a row to the head of a set of rows
keeps what a chain promises (`Shape`). The invariant states it of the committed
rows *and* of what each lock holder sees, because a commit turns the second into
the first; `LockInv` says that only one writer per organization has rows to
commit. So the lock does its job, and the only way to break a chain is the
order of the ids: which is what `ChainNeverForks` (section 6) catches two
processes doing.

`Offboarding_proofs`, for any documents, holds, workers and number of crashes:
`OffboardInvariance` (`IInv`), `DeletionsCertified`, `HoldsRespectedUnderLock`,
`OffboardingCancels`. `DeletedIsCertified` is not inductive: `PurgersHoldTheLock`
says that whoever has purged something holds the lock and has deleted the
objects, and that an event without digest is about a document already deleted -
so the commit that adds it finds the other event there. `CheckedUnderLock` says
that a hold or a plan status cannot change under a purging transaction, which is
all that the re-check and the cancellation need.

`WebhookDelivery_proofs`: `WebhookInvariance` (`IInv`), `GivenUpAndLogged`
(`GivenUpAfterAllAttempts`, and that a dead delivery is in the audit trail),
`StateChangesCommit` (`ReportedChangeCommits`: the state changes of requests,
which hold the lock; not the thresholds job), `SettledForGood`. The invariant
bounds every count in flight by the POSTs really made (`CountsAreSound`):
counts get lost, none is invented, so a tick that gives up with the last
attempt has it right. `SettledForGood` needs that what a tick loaded was
failed: its UPDATE then leaves the status column alone when it fails again.

`Accounts_proofs`: `AccountsInvariance` (`IInv`), `TenantsIsolated`,
`MembersWereInvited`, `GrantsDecidedOnce` (the refinement of `Decision`),
`RefusedOnlyWhenFull`, for any users, workers, roles and connections, and any
number of requests of one user. The invariant says that connections come back
clean and that what a request found (its membership, its invite) is still true
as far as it relies on it; rows are never removed. A token or a certificate id
shows the one row that it names, and nothing else of its organization
(`NamingKeeps`).

`RuleVersions_proofs`, for any requests, packs, keys, draft rules and documents,
and whatever overlaps: `RulesInvariance` (`IInv`), `TypeCorrect`, `DraftsEnter`,
`AppliedAreReleased`, and the action properties `VersionsSettleForGood` and
`DraftsSettleForGood`. The invariant says of each open request what is left of
what it read when anything may have committed since (`ReadsHold`): the versions it
edits, publishes or archives exist, those it will archive were released, no
number below the one it will take is free, the version it applies was released,
the draft rule it decides exists. `NewDraft` is the lemma behind the numbers: an
INSERT that finds its number free finds all below taken, so it adds the next
(`NextIsFirstFree`, from `MaxOfSome`). `StepStays` is the one behind the action
properties: nobody can open a released version as a draft, or decide a decided
draft rule, so what is settled stays so.

`UsageMetering_proofs`, for any organizations, uploads and workers, however
their requests and jobs overlap and fail: `UsageTyped` (`TypeOK`),
`StampedWasBilled` (`StampedIsBilled`) and `PilotStops` (`PilotStopsAtCap`).
`UsageInv` says who may have inserted records or hold a batch. `BillingInv`
bounds the bill from below by more than what is stamped: by what is stamped or
in the batch of a report that has called the provider (`Called`), because a
commit stamps the whole batch at once. `CapInv` states the cap of every request
in progress; it survives the commits of others because nobody commits pages
while a request has inserted some (the lock), and their stamps do not change
quantities.

These three are about sums that are defined by recursion. The provers have no
induction rule, but a set of numbers that contains 0 and n + 1 with n is all of
them (`SetInduction`, from the well-foundedness of `<`), and with such sets the
proofs get what they need: the recursion defines a function (`SumExists`), a
quantity is a number, depends on the counted records only (`SameQuantity`), adds
up over disjoint parts (`QuantityAdds`) and grows with the set
(`QuantityMonotone`).

`Redaction_proofs`, for any page, scan, spans, policies, quotes and number of
findings: `RedactedIsGone` (`ApprovedIsGone`), `DisagreementsShown`
(`DisagreementIsShown`), `BlockedForCause` (`BlockedByLeftover`), and
`AllFoundIsGone`: when every candidate is approved, no word that a detector found
is left. `RedactionInv` says that every finding meets a word and is in a
candidate, that a candidate is what merging made of findings that are still the
same, that only candidates are approved and that what was exported is what the
burn-in left. The rest is geometry: least and
greatest numbers exist (`MinOf`, `MaxOf`; `PageEnds` is the bound, by induction
on the words), so a bounding box covers what it bounds (`BoundingBox`,
`FindingBox`, `ClusterBox`), and a word inside a box overlaps it
(`InsideIsUnder`). `FirstExists` says that the order of a cluster has a first
element, also among the findings that cite another code: without it
`Alternative` could be anything. The theorems need nothing about which findings
`Anchor` puts together.

Only model-checked. `ArtifactMatchesManifest` and `VersionBumpsOnChange`, as said.
Liveness and `ENABLED` are out of the prover's reach:
`RequestsFinish`, `DueEventuallyPurged`, `RetriedUntilSettled`,
`ReportedInItsMonth`, `ThresholdsAnnounced`. `Intake.FilesAccounted`, evaluated
over small uploads, is about `SelectSeq`, whose recursion is not open to the
provers.

## 6. Where documents and code disagree

One disagreement is a run that must be violated; the counterexample is the
shortest behaviour that shows it.

| Run | What the repository says | What the code does |
|---|---|---|
| `violates_RedactedTextIsGone` | `specs/05-redaction-pipeline.md:49`: full-document search for every redacted text, also in normalized variants of whitespace, finds nothing | `pipeline/export.py:141` looks for the exact string; extracted texts join words by a space, `page.get_text()` breaks lines by a newline: another occurrence across a line break is not found |

The properties below are defined in the modules and are violated by the code.
Putting the definition into the configuration named shows the behaviour;
`Review_sequential+` stands for `Review_sequential` with `Workers = {w1, w2}`
and `CandIds = {c1, c2}`.

| Property, configuration | What the repository says | What the code does |
|---|---|---|
| `DocumentReview.DecisionsSurviveReprocess`, `Review_sequential+` | `pipeline/run.py:159-160`: a human decision is never silently discarded | a candidate approved while a re-run is detecting is deleted by it |
| `DocumentReview.IfMatchHonoured`, `Review_sequential+` with `IfMatches = {0, 1}` | `specs/10-build-plan.md:19`: concurrent reviewers don't clobber | two patches with the same `If-Match` both commit |
| `DocumentReview.AwaitingBlocksExport`, `Review_dual` | `review_service.py:215`: `awaiting_approval` is a hard block on export | an export that began earlier commits over it |
| `DocumentReview.ExportedResolved`, `Review_sequential` | `specs/03-data-model.md:54`: exported requires no unresolved low-confidence candidate | patch back to `suggested` after the checklist, then export |
| `DocumentReview.ArtifactBytesKept`, `Review_sequential` | `models/export_artifact.py:14`: immutable | the next export overwrites the same object key |
| `DocumentReview.IntegrityFailureAudited`, `Review_sequential` | `specs/05-redaction-pipeline.md:52`: a failure leaves an incident audit event | the exception rolls the event back |
| `AuditChain.ChainNeverForks`, `AuditChain_two_hosts` | `tests/test_security_review_fixes.py:224`: concurrent writers leave every `prev_hash` distinct | with two processes, an event may get a smaller ULID than its predecessor, and the next one is chained to that predecessor again |
| `Offboarding.PackageThenDestruction`, `Offboarding_overlap` | specs/08: full export package, then destruction | an upload that commits after the package was built is destroyed without having been in it |
| `UsageMetering.EveryRecordReported`, `Usage_month_end` | specs/09: a daily job reports `usage_records` | only the current month is read: what the last tick of a month misses is never reported |
| `UsageMetering.ThresholdsOnce`, `Usage_month_end` with `MaxPosts = 2` | `usage_service.py:174`: at most once per threshold per billing period | a tick that rolls back has posted already, a deleted subscription takes the record of it along, and ticks that overlap do not see each other's: the notice is posted again |
| `WebhookDelivery.NeverRaises`, `Webhook_overlap` | `webhook_service.py:158`: "Never raises" | `check_usage_thresholds` holds no lock: a subscription deleted while a notice is posted makes the flush at the end fail, and the tick with it |
| `RuleVersions.AtMostOnePublished`, `RuleVersions.PublishedImmutable`, `Rules_overlap` | `rule_service.py:252`: published is immutable, one version at a time | two publications leave two published versions; an edit that loaded a draft lands in the version published meanwhile |
| `RuleVersions.ProvenanceHolds`, `Rules_overlap` | `rule_set_version_ids` of a document say which rules ran | that edit changes the rules of a version that a document was processed with |
| `RuleVersions.AcceptedOnce`, `Rules_overlap` | `manual_service.py:127-131`: a draft rule that is decided cannot be decided again | a draft accepted twice gives two rules, or is accepted and rejected |
| `Accounts.OneActiveOrg`, `Accounts_overlap` (also with `Actor <- SameUser`) | `invite_service.py:91`: a user already belongs to an organization | two acceptances of one user both pass the check, which is in another transaction than the insert; an administrator reactivates a member who has joined another organization (`membership_service.py:27-28` does not look) |

Observed while modelling, and not stated as properties:

- Review: `FindingsCovered`, `OneCandidatePerSpan`, `VersionBumpsOnChange` and
  `ArtifactMatchesManifest` also fail for overlapping requests
  (`Review_sequential+`); an upload that fails after some pages keeps their
  findings unmerged, several rows of one span, under status `error`;
  `complete_review` has no status guard and takes an exported document back to
  `review_complete`; a box patched without a decision is replaced by the next
  re-run.
- Retention: a hold that commits between the re-check and the transaction's
  first audit event is lost; overlapping sweeps write a second purge event
  whose digest is null; a failed upload leaves its object; two requests that
  set and clear a hold, or two that set `plan_status`, lose one update. A
  `subscription.canceled` event makes a later offboarding refuse, with nothing
  purged. A second package lacks the originals the first one purged.
- Webhooks: the broad `except` of `trigger_event` leaves a delivery failed
  without `next_retry_at`, which no tick picks up; overlapping ticks make more
  POSTs than `MAX_ATTEMPTS` and lose counts, and a delivered event may end
  dead; one secret that cannot be decrypted, or a subscription deleted under a
  tick, fails the whole tick; events are posted before the change they report
  commits, and while the advisory lock is held.
- Usage: a report that is rolled back, or that overlaps another, is sent twice
  (`usage_service.py:141-142` says it never double-reports); a threshold tick
  that crosses the month's end suppresses the new month's notice; pages are
  billed although detection fails afterwards; sample documents are neither
  capped nor recorded, but their exports are; an override of 0
  (`schemas/platform.py:46` accepts it) makes `usage_service.py:190` divide by
  zero, which ends the tick for this organization and for those after it, in
  every call; without a subscription nothing is recorded as sent, so a notice
  is sent late, to who subscribes later in the month. `PATCH /orgs/current`
  replaces all settings, the cap override with them.
- Intake: an encrypted or damaged entry makes `archive.read` raise outside any
  `try` and fails the whole archive, although `routers/documents.py:196-197`
  says bad entries are collected; a message attached to an `.eml` raises
  likewise (`email_intake.py:71`), one attached to a `.msg` is dropped and not
  named (`email_intake.py:112-113`).
- Manuals: a failed extraction keeps the draft rules of the pages before it;
  drafts that failed validation stay pending and can be accepted. Editing a
  published version while a draft is open forks a second draft.
- Accounts: a former member cannot be invited again (the unique constraint
  fails); the last administrator can demote itself; a slug retry leaves a
  billing customer without organization.
- Redaction: merging depends on the order of the findings, and candidates that
  remain may still overlap; only the first of several other codes is shown; the
  text of a quote grounded nearby is not the page's, so the integrity check
  cannot find it; on a scanned page there is no text to check, and the burn-in
  removes the whole image.
- The CHECK of `0002_phase1_documents.py:221-223` (approved needs a code) never
  fires: that is `ApprovedHasCode`, proved without it.

## 7. What is left out, and why

Envelope encryption (a cryptographic primitive), token checks (an external
identity provider), the LLM and OCR engines (their results are inputs of the
models), drawing in PDFs, schemas, configuration and seed data (no state),
read-only lists, summaries and reports, the web front end, Terraform and
operational scripts. Of modelled components: recurrence grouping (a label),
`PATCH /documents/{id}` (assignee and request; it could move a document to
another request under a sweep), `PATCH /orgs/current`, feature switches,
invoices and checkout sessions (stored and not read by a decision), the rule
test bench and natural-language edits (they persist no rule), export types other
than the clean PDF. The `modified` state is a decision like `rejected`
everywhere in the services and the runs use the latter. Rules that share a key
are not told apart; OCR misreads words and drops none.
