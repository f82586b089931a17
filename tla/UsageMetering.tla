---------------------------- MODULE UsageMetering ----------------------------
(***************************************************************************)
(* What one organization uses and what it is billed for                    *)
(* (services/usage_service.py, with the requests that record usage and the *)
(* scheduled jobs of routers/internal_cron.py): uploads record the pages   *)
(* of a document and stop at the pilot cap, exports record themselves, one *)
(* job reports a month's usage to the billing provider, another announces  *)
(* the thresholds of the allowance to a subscription, which comes and      *)
(* goes.  Months pass while all of them run.                               *)
(*                                                                         *)
(* A request holds the organization's advisory lock from its first audit   *)
(* event on; the jobs never take it.  Rows are written at the commit.      *)
(*                                                                         *)
(* LockIgnored, MonthsGone, MonthStamped and SentEver are plausible bugs   *)
(* in the definitions that follow them.                                    *)
(***************************************************************************)
EXTENDS Naturals, FiniteSets, Sequences, FiniteSetsExt, Intake

CONSTANTS Workers,      \* transactions that may be open at once
          Nobody,       \* "no transaction": owner of a free advisory lock
          Serves,       \* what each worker does: "request", "report", "notify"
          Uploads,      \* files that are uploaded
          Pages,        \* page counts of documents
          Included,     \* allowance of a plan, in pages (billing/plans.py)
          None,         \* no number: no allowance, no override of it
          Orgs,         \* what an organization may be: its plan, its
                        \* settings["page_cap_override"] and whether it has a
                        \* stripe_customer_id
          MaxRecords,   \* bound on usage_records
          MaxMonth,     \* bound on the calendar
          MaxPosts,     \* bound on the count of POSTs of a notice
          MaxFaults     \* bound on transactions that roll back

Plans == {"pilot", "growth", "enterprise"}
Metrics == {"pages_processed", "exports"}
Events == {"usage.threshold_95", "usage.threshold_80"}
Months == 1..MaxMonth

ASSUME ConstantsAssumption ==
  /\ Nobody \notin Workers
  /\ Serves \in [Workers -> SUBSET {"request", "report", "notify"}]
  /\ Uploads \subseteq Upload
  /\ Included \in Nat \ {0} /\ Pages \subseteq Nat \ {0}
  /\ None \notin Nat /\ Orgs # {}
  /\ Orgs \subseteq [plan : Plans, override : Nat \cup {None}, customer : BOOLEAN]
  /\ MaxPosts \in Nat /\ MaxRecords \in Nat /\ MaxMonth \in Nat \ {0} /\ MaxFaults \in Nat

VARIABLES
  month,    \* the calendar
  org,      \* the organization
  records,  \* usage_records, oldest first
  billed,   \* at the provider: reported quantity per metric and period
  subscribed, \* whether the organization has a subscription to the thresholds
  sent,     \* webhook_deliveries of an event, per month of created_at
  posted,   \* POSTs of an event for a month, up to MaxPosts
  lock,     \* owner of the organization's advisory lock
  op,       \* per worker: what it is doing
  now,      \* per worker: the month its job started in
  began,    \* per worker: the month its transaction started in
  seen,     \* per worker: the organization as it loaded it
  added,    \* per worker: the records it has inserted
  batch,    \* per worker: the records it is reporting
  todo,     \* per worker: documents left to create, metrics to report, or
            \* thresholds to look at
  notices,  \* per worker: the events whose deliveries it has inserted
  faults

txVars == <<op, now, began, seen, added, batch, todo, notices>>
noticeVars == <<subscribed, sent, posted>>
vars == <<month, org, records, billed, noticeVars, lock, txVars, faults>>

Record == [metric : Metrics, quantity : Nat, period : Months, reported : BOOLEAN]

Unloaded == CHOOSE o \in Orgs : TRUE

\* The quantities of the records of rs at the places S, together.
Quantity(rs, S) ==
  LET sum[n \in 0..Len(rs)] ==
        IF n = 0 THEN 0 ELSE sum[n - 1] + (IF n \in S THEN rs[n].quantity ELSE 0)
  IN  sum[Len(rs)]

OfMetric(rs, m) == {i \in DOMAIN rs : rs[i].metric = m}

LockIgnored(w) == TRUE

\* write_audit_event: one transaction at a time holds the lock, to its end.
LockGranted(w) == lock \in {Nobody, w}

\* The transaction of w ends.
Over(w) ==
  /\ op' = [op EXCEPT ![w] = "idle"]
  /\ added' = [added EXCEPT ![w] = <<>>]
  /\ batch' = [batch EXCEPT ![w] = {}]
  /\ todo' = [todo EXCEPT ![w] = {}]
  /\ notices' = [notices EXCEPT ![w] = {}]
  /\ now' = [now EXCEPT ![w] = 1]
  /\ began' = [began EXCEPT ![w] = 1]
  /\ seen' = [seen EXCEPT ![w] = Unloaded]
  /\ lock' = IF lock = w THEN Nobody ELSE lock

-----------------------------------------------------------------------------
(* Allowances                                                               *)

\* effective_pages_included: an override of 0 is one.
Allowance(o) ==
  CASE o.override # None -> o.override
    [] o.override = None /\ o.plan = "enterprise" -> None
    [] o.override = None /\ o.plan # "enterprise" -> Included

\* _usage_window_conditions: only a monthly cap has a window.
PagesUsed(o, p) ==
  Quantity(records, {i \in OfMetric(records, "pages_processed") :
                       o.plan = "growth" => records[i].period = p})

\* THRESHOLD_EVENTS
IsOver(o, p, e) ==
  100 * PagesUsed(o, p) >=
    Allowance(o) * (CASE e = "usage.threshold_95" -> 95
                      [] e = "usage.threshold_80" -> 80)

-----------------------------------------------------------------------------
(* Requests                                                                 *)

\* check_pilot_page_cap sees what is committed and what it inserted itself.
CapReached(w) ==
  /\ seen[w].plan = "pilot"
  /\ Quantity(records, OfMetric(records, "pages_processed"))
       + Quantity(added[w], OfMetric(added[w], "pages_processed")) >= Allowance(seen[w])

Insert(w, metric, quantity) ==
  added' = [added EXCEPT ![w] =
              Append(@, [metric |-> metric, quantity |-> quantity, period |-> month,
                         reported |-> FALSE])]

Serving(w) == "request" \in Serves[w] /\ op[w] = "idle"

\* get_org_db loads the organization, which stays in the session as it was, and
\* upload_document takes the file apart; what it refuses leaves nothing.
Receive(w, u) ==
  /\ Serving(w) /\ ~Raises(u)
  /\ op' = [op EXCEPT ![w] = "serving"]
  /\ seen' = [seen EXCEPT ![w] = org]
  /\ todo' = [todo EXCEPT ![w] = 1..Len(Received(u))]
  /\ UNCHANGED <<month, org, records, billed, noticeVars, lock, now, began, added, batch,
                 notices, faults>>

\* _create_and_process_document, for one document after another: the audit event
\* of the upload takes the lock, then the cap is checked, then usage is recorded
\* once the pages are extracted: what fails before that records nothing, what
\* fails after it does.
UploadDocument(w, pages) ==
  /\ op[w] = "serving" /\ todo[w] # {} /\ LockGranted(w)
  /\ lock' = w
  /\ todo' = [todo EXCEPT ![w] = @ \ {Max(@)}]
  /\ \/ UNCHANGED added
     \/ /\ ~CapReached(w) /\ Len(records) + Len(added[w]) < MaxRecords
        /\ Insert(w, "pages_processed", pages)
  /\ UNCHANGED <<month, org, records, billed, noticeVars, op, now, began, seen, batch,
                 notices, faults>>

\* create_sample_document: neither capped nor recorded.
SampleDocument(w) ==
  /\ Serving(w) /\ LockGranted(w)
  /\ lock' = w
  /\ op' = [op EXCEPT ![w] = "serving"]
  /\ UNCHANGED <<month, org, records, billed, noticeVars, now, began, seen, added,
                 batch, todo, notices, faults>>

\* A bound: the first record of all is of an uploaded document.
DocumentUploaded == OfMetric(records, "pages_processed") # {}

\* export_document, of any document, the sample, too.
Export(w) ==
  /\ Serving(w) /\ LockGranted(w)
  /\ DocumentUploaded
  /\ Len(records) + Len(added[w]) < MaxRecords
  /\ lock' = w
  /\ op' = [op EXCEPT ![w] = "serving"]
  /\ Insert(w, "exports", 1)
  /\ UNCHANGED <<month, org, records, billed, noticeVars, now, began, seen, batch,
                 todo, notices, faults>>

RequestCommit(w) ==
  /\ op[w] = "serving" /\ todo[w] = {}
  /\ records' = records \o added[w]
  /\ Over(w)
  /\ UNCHANGED <<month, org, billed, noticeVars, faults>>

\* checkout.completed sets the plan; a platform admin sets plan and cap.
OrgChanges(o) ==
  /\ lock = Nobody /\ org' = o /\ o # org /\ o.customer = org.customer
  /\ UNCHANGED <<month, records, billed, noticeVars, lock, txVars, faults>>

Subscribe ==
  /\ lock = Nobody /\ ~subscribed
  /\ subscribed' = TRUE
  /\ UNCHANGED <<month, org, records, billed, sent, posted, lock, txVars, faults>>

\* delete_subscription: the deliveries go with it (ON DELETE CASCADE).  One that
\* is inserted and not committed keeps the subscription's row locked.
Unsubscribe ==
  /\ lock = Nobody /\ subscribed
  /\ \A w \in Workers : notices[w] = {}
  /\ subscribed' = FALSE
  /\ sent' = [e \in Events |-> [p \in Months |-> 0]]
  /\ UNCHANGED <<month, org, records, billed, posted, lock, txVars, faults>>

-----------------------------------------------------------------------------
(* The scheduled jobs                                                       *)

\* A job takes the time once, before it goes through the organizations.
JobStart(w, job) ==
  /\ job \in Serves[w] \ {"request"} /\ op[w] = "idle"
  /\ op' = [op EXCEPT ![w] = job]
  /\ now' = [now EXCEPT ![w] = month]
  /\ UNCHANGED <<month, org, records, billed, noticeVars, lock, began, seen, added,
                 batch, todo, notices, faults>>

\* Bug: waits for a month to be over.
MonthsGone(w) ==
  {i \in DOMAIN records : ~records[i].reported /\ records[i].period < now[w]}

\* aggregate_and_report_usage reads what is unreported in the job's month, of an
\* organization that the provider knows.
Unreported(w) ==
  {i \in DOMAIN records : ~records[i].reported /\ records[i].period = now[w]}

ReportRead(w) ==
  /\ op[w] = "report" /\ org.customer
  /\ op' = [op EXCEPT ![w] = "reporting"]
  /\ batch' = [batch EXCEPT ![w] = Unreported(w)]
  /\ todo' = [todo EXCEPT ![w] = {records[i].metric : i \in Unreported(w)}]
  /\ UNCHANGED <<month, org, records, billed, noticeVars, lock, now, began, seen, added,
                 notices, faults>>

NoCustomer(w) ==
  /\ op[w] = "report" /\ ~org.customer
  /\ Over(w)
  /\ UNCHANGED <<month, org, records, billed, noticeVars, faults>>

\* One call of the provider for each metric.
ReportMetric(w, m) ==
  /\ op[w] = "reporting" /\ m \in todo[w]
  /\ billed' = [billed EXCEPT ![m][now[w]] =
                   @ + Quantity(records, batch[w] \cap OfMetric(records, m))]
  /\ todo' = [todo EXCEPT ![w] = @ \ {m}]
  /\ UNCHANGED <<month, org, records, noticeVars, lock, op, now, began, seen, added, batch,
                 notices, faults>>

\* Bug: stamps by condition what was read by condition.
MonthStamped(w) == Unreported(w)

\* reported_to_billing_at is set on the rows that were read.
Stamped(w) == batch[w]

ReportCommit(w) ==
  /\ op[w] = "reporting" /\ todo[w] = {}
  /\ records' = [i \in DOMAIN records |->
                   [records[i] EXCEPT !.reported = @ \/ i \in Stamped(w)]]
  /\ Over(w)
  /\ UNCHANGED <<month, org, billed, noticeVars, faults>>

\* The transaction of check_usage_thresholds begins: created_at of what it
\* inserts is this moment.  Without an allowance there is nothing to look at.
NotifyRead(w) ==
  /\ op[w] = "notify"
  /\ op' = [op EXCEPT ![w] = "notifying"]
  /\ began' = [began EXCEPT ![w] = month]
  /\ seen' = [seen EXCEPT ![w] = org]
  /\ todo' = [todo EXCEPT ![w] = IF Allowance(org) = None THEN {} ELSE Events]
  /\ UNCHANGED <<month, org, records, billed, noticeVars, lock, now, added, batch,
                 notices, faults>>

\* An allowance of 0 pages: the division raises ZeroDivisionError.
NotifyRaises(w) ==
  /\ op[w] = "notifying" /\ Allowance(seen[w]) = 0
  /\ Over(w)
  /\ UNCHANGED <<month, org, records, billed, noticeVars, faults>>

\* Bug: forgets created_at >= period_start.
SentEver(w, e) == \E p \in Months : sent[e][p] > 0

AlreadySent(w, e) == \E p \in Months : p >= now[w] /\ sent[e][p] > 0

\* trigger_event posts at once, and does nothing without a subscription.  (One
\* that is deleted during the POST ends the transaction: Fail.)
Threshold(w, e) ==
  /\ op[w] = "notifying" /\ e \in todo[w] /\ Allowance(seen[w]) # 0
  /\ e = "usage.threshold_80" => "usage.threshold_95" \notin todo[w]
  /\ todo' = [todo EXCEPT ![w] = @ \ {e}]
  /\ IF IsOver(seen[w], now[w], e) /\ ~AlreadySent(w, e) /\ subscribed
       THEN /\ notices' = [notices EXCEPT ![w] = @ \cup {e}]
            /\ posted' = [posted EXCEPT ![e][now[w]] = IF @ < MaxPosts THEN @ + 1 ELSE @]
       ELSE UNCHANGED <<notices, posted>>
  /\ UNCHANGED <<month, org, records, billed, subscribed, sent, lock, op, now, began,
                 seen, added, batch, faults>>

NotifyCommit(w) ==
  /\ op[w] = "notifying" /\ todo[w] = {}
  /\ sent' = [e \in Events |-> [p \in Months |->
                IF e \in notices[w] /\ p = began[w] THEN sent[e][p] + 1 ELSE sent[e][p]]]
  /\ Over(w)
  /\ UNCHANGED <<month, org, records, billed, subscribed, posted, faults>>

\* The provider, the database or the process fails: the transaction rolls back.
\* What it has posted and billed stays.
Fail(w) ==
  /\ op[w] \in {"serving", "reporting", "notifying"} /\ faults < MaxFaults
  /\ faults' = faults + 1
  /\ Over(w)
  /\ UNCHANGED <<month, org, records, billed, noticeVars>>

NextMonth ==
  /\ month < MaxMonth
  /\ month' = month + 1
  /\ UNCHANGED <<org, records, billed, noticeVars, lock, txVars, faults>>

-----------------------------------------------------------------------------
Init ==
  /\ month = 1
  /\ org \in Orgs
  /\ records = <<>>
  /\ billed = [m \in Metrics |-> [p \in Months |-> 0]]
  /\ subscribed = FALSE
  /\ sent = [e \in Events |-> [p \in Months |-> 0]]
  /\ posted = sent
  /\ lock = Nobody
  /\ op = [w \in Workers |-> "idle"]
  /\ now = [w \in Workers |-> 1]
  /\ began = [w \in Workers |-> 1]
  /\ seen = [w \in Workers |-> Unloaded]
  /\ added = [w \in Workers |-> <<>>]
  /\ batch = [w \in Workers |-> {}]
  /\ todo = [w \in Workers |-> {}]
  /\ notices = [w \in Workers |-> {}]
  /\ faults = 0

Request(w) ==
  \/ SampleDocument(w) \/ Export(w) \/ RequestCommit(w)
  \/ \E u \in Uploads : Receive(w, u)
  \/ \E pages \in Pages : UploadDocument(w, pages)

Report(w) ==
  \/ ReportRead(w) \/ NoCustomer(w) \/ ReportCommit(w)
  \/ \E m \in Metrics : ReportMetric(w, m)

Notify(w) ==
  \/ NotifyRead(w) \/ NotifyRaises(w) \/ NotifyCommit(w)
  \/ \E e \in Events : Threshold(w, e)

Next ==
  \/ NextMonth \/ Subscribe \/ Unsubscribe
  \/ \E o \in Orgs : OrgChanges(o)
  \/ \E w \in Workers :
       \/ Request(w) \/ Report(w) \/ Notify(w) \/ Fail(w)
       \/ \E job \in {"report", "notify"} : JobStart(w, job)

Spec == Init /\ [][Next]_vars

\* Requests and jobs end: who waits for the lock gets it (PostgreSQL grants it in
\* the order of arrival), which is SF of what needs it.  The scheduler starts each
\* job again and again, in between whatever else there is: a worker that is now
\* and then free for a job stands for the scheduler's next call.  (A call goes
\* through the organizations in turn: that it is not ended by an organization
\* before this one is assumed.)
Fairness ==
  \A w \in Workers :
    /\ SF_vars(Request(w) \/ Report(w) \/ Notify(w))
    /\ \A job \in Serves[w] \ {"request"} : SF_vars(JobStart(w, job))

FairSpec == Spec /\ Fairness

-----------------------------------------------------------------------------
(* Properties                                                               *)

TypeOK ==
  /\ month \in Months /\ org \in Orgs
  /\ records \in Seq(Record) /\ Len(records) <= MaxRecords
  /\ \A w \in Workers : added[w] \in Seq(Record)
  /\ lock \in Workers \cup {Nobody}
  /\ \A w \in Workers : lock # w => added[w] = <<>>

\* "blocks the NEXT document once the org is already at/over cap": whatever a
\* pilot's requests do next to each other, each commits at most one document
\* beyond the cap it read.
PilotStopsAtCap ==
  [][\A w \in Workers :
       LET more == OfMetric(added[w], "pages_processed")
       IN  (RequestCommit(w) /\ seen[w].plan = "pilot" /\ more # {}) =>
             Quantity(records, OfMetric(records, "pages_processed"))
               + Quantity(added[w], more \ {Max(more)}) < Allowance(seen[w])]_vars

\* What is stamped reported_to_billing_at was reported, to the last page: jobs
\* that overlap or fail, and records that arrive while one runs, lose nothing.
StampedIsBilled ==
  \A m \in Metrics, p \in Months :
    billed[m][p] >= Quantity(records, {i \in OfMetric(records, m) :
                                         records[i].period = p /\ records[i].reported})

\* "at most once per threshold per billing period" (usage_service.py:173).  The
\* code breaks it: a job that rolls back has posted, a deleted subscription takes
\* the deliveries along, and jobs that overlap do not see each other's.
ThresholdsOnce == \A e \in Events, p \in Months : posted[e][p] <= 1

Outstanding ==
  {i \in DOMAIN records : ~records[i].reported /\ records[i].period = month}

\* The jobs catch up with usage that stops growing (the bounds stop it): every
\* record of an organization that the provider knows is reported, or its month
\* ends first.
ReportedInItsMonth == []<>(org.customer => Outstanding = {})

Unannounced == {e \in Events : IsOver(org, month, e) /\ sent[e][month] = 0}

\* There is somebody to tell, and an allowance that usage can be compared with.
Notifiable == subscribed /\ Allowance(org) \notin {None, 0}

\* Usage over a threshold is announced, in every month that it is, to whoever
\* stays subscribed while the allowance stays other than 0.
ThresholdsAnnounced == []<>(Notifiable => Unannounced = {})

Recorded(i) == i \in DOMAIN records
Reported(i) == i \in DOMAIN records /\ records[i].reported

\* "daily job aggregates usage_records -> Stripe meter events": all of them.
EveryRecordReported == \A i \in 1..MaxRecords : Recorded(i) ~> Reported(i)

-----------------------------------------------------------------------------
(* The inductive invariants for TypeOK, StampedIsBilled and PilotStopsAtCap  *)

\* Only a request has inserted records, none of them reported, and only a report
\* in progress has a batch, of records of the month it started in.
WorkerInv(w) ==
  /\ op[w] # "serving" => added[w] = <<>>
  /\ \A i \in DOMAIN added[w] : ~added[w][i].reported
  /\ Len(records) + Len(added[w]) <= MaxRecords
  /\ batch[w] # {} => op[w] = "reporting"
  /\ \A i \in batch[w] : i \in DOMAIN records /\ records[i].period = now[w]

UsageInv ==
  /\ TypeOK
  /\ op \in [Workers -> {"idle", "serving", "report", "reporting", "notify", "notifying"}]
  /\ now \in [Workers -> Months]
  /\ seen \in [Workers -> Orgs]
  /\ added \in [Workers -> Seq(Record)]
  /\ batch \in [Workers -> SUBSET Nat]
  /\ DOMAIN todo = Workers
  /\ \A w \in Workers : WorkerInv(w)

\* The records of the metric and the month that are stamped, or in the batch of
\* a report that has called the provider for the metric.
Called(m, p) ==
  {i \in OfMetric(records, m) :
     /\ records[i].period = p
     /\ records[i].reported \/ \E w \in Workers : i \in batch[w] /\ m \notin todo[w]}

BillingInv ==
  /\ billed \in [Metrics -> [Months -> Nat]]
  /\ \A m \in Metrics, p \in Months : billed[m][p] >= Quantity(records, Called(m, p))

\* The last document a pilot has uploaded found the cap not reached.
CapInv ==
  \A w \in Workers :
    LET more == OfMetric(added[w], "pages_processed")
    IN  seen[w].plan = "pilot" /\ more # {} =>
          Quantity(records, OfMetric(records, "pages_processed"))
            + Quantity(added[w], more \ {Max(more)}) < Allowance(seen[w])

=============================================================================
