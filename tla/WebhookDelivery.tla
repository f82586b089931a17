-------------------------- MODULE WebhookDelivery --------------------------
(***************************************************************************)
(* Webhook deliveries of one organization (services/webhook_service.py):   *)
(* a request that changes a document posts to every subscription inside    *)
(* its transaction (trigger_event), and so does the job that announces     *)
(* usage thresholds; a scheduled tick posts the failed deliveries again,   *)
(* with backoff, until one succeeds or MAX_ATTEMPTS is reached;            *)
(* subscriptions come and go.  Ticks may overlap, and every transaction    *)
(* may roll back after it has posted.                                      *)
(*                                                                         *)
(* A transaction's rows are written when it commits: its row locks order   *)
(* the writers of a row as their commits do, and a deadlock of row locks   *)
(* ends in a rollback, which Fail covers.                                  *)
(*                                                                         *)
(* LockIgnored, GivesUpEarly, DuePending and WrittenWhole are plausible    *)
(* bugs in the definitions that follow them.                               *)
(***************************************************************************)
EXTENDS Naturals, FiniteSets

CONSTANTS Workers,      \* transactions that may be open at once
          Subs,         \* subscription ids
          Deliveries,   \* delivery ids (a bound)
          Nobody,       \* "no transaction": owner of a free advisory lock
          NoSub,        \* "no subscription"
          MaxAttempts,  \* MAX_ATTEMPTS
          MaxFaults     \* bound on rollbacks and undecryptable secrets

ASSUME ConstantsAssumption ==
  /\ Nobody \notin Workers
  /\ NoSub \notin Subs
  /\ MaxAttempts \in Nat \ {0, 1}
  /\ MaxFaults \in Nat

VARIABLES
  subs,     \* webhook_subscriptions: ids of the rows there are
  used,     \* subscription ids already handed out
  rows,     \* webhook_deliveries
  posts,    \* per delivery: attempts made, as far as MaxAttempts matters: POSTs,
            \* and attempts that end in an exception, maybe before the POST
  dark,     \* deliveries with a committed webhook.delivery_failed event
  lock,     \* owner of the organization's advisory lock
  op,       \* per worker: what it is doing
  todo,     \* per worker: subscriptions or deliveries it has still to post to
  base,     \* per worker: the deliveries as it loaded them
  mine,     \* per worker: the deliveries as it has changed them
  done,     \* per worker: the deliveries it has changed
  faults

tableVars == <<subs, used, rows, dark>>
txVars == <<op, todo, base, mine, done>>
vars == <<tableVars, posts, lock, txVars, faults>>

\* "gone": deleted with its subscription (ON DELETE CASCADE).
Statuses == {"absent", "pending", "success", "failed", "dead", "gone"}

\* next_retry_at: null, in the future, or past.
Row == [sub : Subs \cup {NoSub}, status : Statuses, attempts : Nat,
        retry : {"none", "later", "due"}]

Absent == [sub |-> NoSub, status |-> "absent", attempts |-> 0, retry |-> "none"]

\* Transactions in trigger_event: of a request, of the thresholds job.
Reporting == {"report", "notice"}

\* Any status but 2xx and any httpx.HTTPError are handled alike.
Outcomes == {"2xx", "error"}

LockIgnored(w) == TRUE

\* write_audit_event: one transaction at a time holds the lock, to its end.
LockGranted(w) == lock \in {Nobody, w}

Released(w) == IF lock = w THEN Nobody ELSE lock

\* The transaction ends.
Over(w) ==
  /\ op' = [op EXCEPT ![w] = "idle"]
  /\ todo' = [todo EXCEPT ![w] = {}]
  /\ base' = [base EXCEPT ![w] = [d \in Deliveries |-> Absent]]
  /\ mine' = [mine EXCEPT ![w] = [d \in Deliveries |-> Absent]]
  /\ done' = [done EXCEPT ![w] = {}]
  /\ lock' = Released(w)

-----------------------------------------------------------------------------
(* Subscriptions                                                            *)

\* create_subscription, with its audit event.
CreateSubscription(s) ==
  /\ s \notin used /\ lock = Nobody
  /\ subs' = subs \cup {s} /\ used' = used \cup {s}
  /\ UNCHANGED <<rows, posts, dark, lock, txVars, faults>>

\* The worker that deletes need not be free: it stands for one more request.
\* write_audit_event waits for the lock before anything is flushed.
DeleteSubscription(w, s) ==
  /\ s \in subs /\ op[w] = "idle" /\ LockGranted(w)
  /\ subs' = subs \ {s}
  /\ rows' = [d \in Deliveries |->
                IF rows[d].sub = s THEN [rows[d] EXCEPT !.status = "gone"]
                                   ELSE rows[d]]
  /\ UNCHANGED <<used, posts, dark, lock, txVars, faults>>

-----------------------------------------------------------------------------
(* One attempt                                                              *)

GivesUpEarly(n) == n + 1 >= MaxAttempts

GivesUp(n) == n >= MaxAttempts

Scheduled(r) == [r EXCEPT !.status = "failed", !.retry = "later"]

\* _attempt_delivery counts the attempt, posts, and sets status and
\* next_retry_at.
Attempted(r, outcome) ==
  LET counted == [r EXCEPT !.attempts = @ + 1]
  IN  CASE outcome = "2xx" ->
             [counted EXCEPT !.status = "success", !.retry = "none"]
        [] outcome # "2xx" /\ GivesUp(r.attempts + 1) ->
             [counted EXCEPT !.status = "dead", !.retry = "none"]
        [] outcome # "2xx" /\ ~GivesUp(r.attempts + 1) ->
             Scheduled(counted)

Post(d) ==
  posts' = [posts EXCEPT ![d] = IF @ < MaxAttempts THEN @ + 1 ELSE @]

-----------------------------------------------------------------------------
(* trigger_event                                                            *)

\* An id that nothing has used.
Fresh(d) == rows[d] = Absent /\ \A u \in Workers : d \notin done[u]

\* Deliveries that open transactions have still to make.
Owed == UNION {{u} \X todo[u] : u \in {v \in Workers : op[v] \in Reporting}}

\* The bound on deliveries: a report begins when there are ids for all of it.
Room ==
  Cardinality(subs) + Cardinality(Owed) <= Cardinality({d \in Deliveries : Fresh(d)})

\* process_document, reprocess_document and export_document write their audit
\* event - and so hold the lock - before trigger_event reads the subscriptions.
ReportBegin(w) ==
  /\ op[w] = "idle" /\ LockGranted(w) /\ subs # {} /\ Room
  /\ lock' = w
  /\ op' = [op EXCEPT ![w] = "report"]
  /\ todo' = [todo EXCEPT ![w] = subs]
  /\ UNCHANGED <<tableVars, posts, base, mine, done, faults>>

\* check_usage_thresholds writes no audit event: it reports without the lock.
NoticeBegin(w) ==
  /\ op[w] = "idle" /\ subs # {} /\ Room
  /\ op' = [op EXCEPT ![w] = "notice"]
  /\ todo' = [todo EXCEPT ![w] = subs]
  /\ UNCHANGED <<tableVars, posts, lock, base, mine, done, faults>>

Deliver(w, s, d, outcome) ==
  /\ op[w] \in Reporting /\ s \in todo[w] /\ Fresh(d)
  /\ Post(d)
  /\ todo' = [todo EXCEPT ![w] = @ \ {s}]
  /\ mine' = [mine EXCEPT ![w][d] =
                Attempted([Absent EXCEPT !.sub = s, !.status = "pending"], outcome)]
  /\ done' = [done EXCEPT ![w] = @ \cup {d}]
  /\ UNCHANGED <<tableVars, lock, op, base, faults>>

\* The secret cannot be decrypted, or, once the attempt is counted, anything
\* but an httpx.HTTPError is raised (httpx.InvalidURL): trigger_event swallows
\* the exception and leaves the delivery failed, without a time for the next
\* attempt.
DeliverRaises(w, s, d, counted) ==
  /\ op[w] \in Reporting /\ s \in todo[w] /\ Fresh(d) /\ faults < MaxFaults
  /\ faults' = faults + 1
  /\ IF counted = 1 THEN Post(d) ELSE UNCHANGED posts
  /\ todo' = [todo EXCEPT ![w] = @ \ {s}]
  /\ mine' = [mine EXCEPT ![w][d] = [Absent EXCEPT !.sub = s, !.status = "failed",
                                        !.attempts = counted]]
  /\ done' = [done EXCEPT ![w] = @ \cup {d}]
  /\ UNCHANGED <<tableVars, lock, op, base>>

\* The flush at the end of trigger_event is outside its try: the INSERTs need
\* their subscriptions (foreign key).
FlushRaises(w) ==
  /\ op[w] \in Reporting /\ todo[w] = {}
  /\ \E d \in done[w] : mine[w][d].sub \notin subs

\* When the flush raises, the transaction is rolled back.
ReportEnd(w) ==
  /\ op[w] \in Reporting /\ todo[w] = {}
  /\ rows' = IF ~FlushRaises(w)
               THEN [d \in Deliveries |->
                       IF d \in done[w] THEN mine[w][d] ELSE rows[d]]
               ELSE rows
  /\ Over(w)
  /\ UNCHANGED <<subs, used, posts, dark, faults>>

-----------------------------------------------------------------------------
(* The tick                                                                 *)

DuePending ==
  {d \in Deliveries : rows[d].status = "pending" /\ rows[d].retry = "due"}

Due == {d \in Deliveries : rows[d].status = "failed" /\ rows[d].retry = "due"}

BackoffElapses(d) ==
  /\ rows[d].retry = "later"
  /\ rows' = [rows EXCEPT ![d].retry = "due"]
  /\ UNCHANGED <<subs, used, dark, posts, lock, txVars, faults>>

\* retry_pending_deliveries reads what is due, without locking it.
TickBegin(w) ==
  /\ op[w] = "idle" /\ Due # {}
  /\ op' = [op EXCEPT ![w] = "tick"]
  /\ todo' = [todo EXCEPT ![w] = Due]
  /\ base' = [base EXCEPT ![w] =
                [d \in Deliveries |-> IF d \in Due THEN rows[d] ELSE Absent]]
  /\ UNCHANGED <<tableVars, posts, lock, mine, done, faults>>

\* Only an attempt that gives up writes an audit event, and takes the lock.
Retry(w, d, outcome) ==
  /\ op[w] = "tick" /\ d \in todo[w]
  /\ IF Attempted(base[w][d], outcome).status = "dead"
       THEN LockGranted(w) /\ lock' = w
       ELSE UNCHANGED lock
  /\ Post(d)
  /\ todo' = [todo EXCEPT ![w] = @ \ {d}]
  /\ mine' = [mine EXCEPT ![w][d] = Attempted(base[w][d], outcome)]
  /\ done' = [done EXCEPT ![w] = @ \cup {d}]
  /\ UNCHANGED <<tableVars, op, base, faults>>

WrittenWhole(w, d) == mine[w][d]

\* The UPDATE sets the columns that differ from what was loaded: the count and
\* next_retry_at always do, the status of a delivery that failed again not.
Written(w, d) ==
  [mine[w][d] EXCEPT !.status = IF @ = base[w][d].status THEN rows[d].status
                                                         ELSE @]

Gone(w) == {d \in done[w] : rows[d].status = "gone"}

\* The events of the deliveries that this transaction gave up.
GivenUp(w) == {d \in done[w] : mine[w][d].status = "dead"}

\* An UPDATE of a row that is gone fails the tick (StaleDataError), unless it
\* went out in a batch, whose row count is not looked at.
TickEnd(w) ==
  /\ op[w] = "tick" /\ todo[w] = {}
  /\ \/ /\ rows' = [d \in Deliveries |->
                      IF d \in done[w] \ Gone(w) THEN Written(w, d) ELSE rows[d]]
        /\ dark' = dark \cup GivenUp(w)
     \/ Gone(w) # {} /\ UNCHANGED <<rows, dark>>
  /\ Over(w)
  /\ UNCHANGED <<subs, used, posts, faults>>

\* A crash, a deadlock, a secret that a tick cannot decrypt: everything but the
\* POSTs is undone.
Fail(w) ==
  /\ op[w] # "idle" /\ faults < MaxFaults
  /\ faults' = faults + 1
  /\ Over(w)
  /\ UNCHANGED <<tableVars, posts>>

-----------------------------------------------------------------------------
Init ==
  /\ subs = {} /\ used = {}
  /\ rows = [d \in Deliveries |-> Absent]
  /\ posts = [d \in Deliveries |-> 0]
  /\ dark = {}
  /\ lock = Nobody
  /\ op = [w \in Workers |-> "idle"]
  /\ todo = [w \in Workers |-> {}]
  /\ base = [w \in Workers |-> [d \in Deliveries |-> Absent]]
  /\ mine = base
  /\ done = [w \in Workers |-> {}]
  /\ faults = 0

Report(w) ==
  \/ ReportBegin(w) \/ NoticeBegin(w)
  \/ \E s \in Subs, d \in Deliveries :
       \/ \E outcome \in Outcomes : Deliver(w, s, d, outcome)
       \/ \E counted \in {0, 1} : DeliverRaises(w, s, d, counted)
  \/ ReportEnd(w)

Tick(w) ==
  \/ TickBegin(w)
  \/ \E d \in Deliveries, outcome \in Outcomes : Retry(w, d, outcome)
  \/ TickEnd(w)

Next ==
  \/ \E s \in Subs : CreateSubscription(s)
  \/ \E w \in Workers, s \in Subs : DeleteSubscription(w, s)
  \/ \E w \in Workers : Report(w) \/ Tick(w) \/ Fail(w)
  \/ \E d \in Deliveries : BackoffElapses(d)

Spec == Init /\ [][Next]_vars

\* Time passes; the scheduler keeps calling /internal/cron/webhook-retry; an
\* open transaction goes on (a POST times out after five seconds), and gets the
\* advisory lock in the order it asked for it.
Fairness ==
  /\ \A d \in Deliveries : WF_vars(BackoffElapses(d))
  /\ \A w \in Workers :
       /\ SF_vars(TickBegin(w))
       /\ SF_vars(\E d \in Deliveries, outcome \in Outcomes : Retry(w, d, outcome))
       /\ WF_vars(TickEnd(w))
       /\ WF_vars(\E s \in Subs, d \in Deliveries, outcome \in Outcomes :
                    Deliver(w, s, d, outcome))
       /\ WF_vars(ReportEnd(w))

FairSpec == Spec /\ Fairness

-----------------------------------------------------------------------------
(* Properties                                                               *)

TypeOK ==
  /\ subs \subseteq used /\ used \subseteq Subs
  /\ rows \in [Deliveries -> Row]
  /\ posts \in [Deliveries -> 0..MaxAttempts]
  /\ dark \subseteq Deliveries
  /\ lock \in Workers \cup {Nobody}
  /\ op \in [Workers -> Reporting \cup {"idle", "tick"}]
  /\ todo \in [Workers -> SUBSET (Subs \cup Deliveries)]
  /\ base \in [Workers -> [Deliveries -> Row]]
  /\ mine \in [Workers -> [Deliveries -> Row]]
  /\ done \in [Workers -> SUBSET Deliveries]
  /\ faults \in 0..MaxFaults

\* The stored attempt count never overstates the attempts made: overlapping ticks
\* lose counts, rolled-back ones forget them, nothing adds any.  So a delivery
\* that is given up was tried MAX_ATTEMPTS times.
GivenUpAfterAllAttempts ==
  /\ \A d \in Deliveries : rows[d].status = "dead" => posts[d] = MaxAttempts
  /\ \A d \in Deliveries : rows[d].attempts <= posts[d]

\* "an admin should be able to see that in the log": a dead delivery has its
\* webhook.delivery_failed event, whichever of the overlapping ticks came last.
DeadIsInTheLog ==
  \A d \in Deliveries : rows[d].status = "dead" => d \in dark

\* "a webhook failure must not fail the state change it's reporting"
\* (webhook_service.py:158): the subscriptions that a request will insert
\* deliveries for cannot be deleted under it, because both take the
\* organization's advisory lock.  The thresholds job changes no state but the
\* deliveries, and is not meant: NeverRaises.
ReportedChangeCommits ==
  \A w \in Workers : op[w] = "report" =>
    \A d \in done[w] : mine[w][d].sub \in subs

\* "Never raises" (webhook_service.py:158), of every caller of trigger_event.
\* The code breaks it: a subscription deleted while the thresholds job, which
\* does not hold the lock, posts to it fails the flush.
NeverRaises == \A w \in Workers : ~FlushRaises(w)

\* What the open transactions have: a request that reports holds the lock, and
\* reporters add rows that are not there yet; a tick changes rows that it loaded
\* as failed.
OpenTransactions ==
  \A w \in Workers :
    /\ lock = w => op[w] # "idle"
    /\ op[w] = "idle" => done[w] = {}
    /\ \A d \in done[w] : mine[w][d].status # "absent"
    /\ op[w] = "report" => lock = w /\ todo[w] \subseteq subs
    /\ op[w] \in Reporting =>
         \A d \in done[w] : /\ rows[d].status = "absent"
                            /\ mine[w][d].status # "dead"
                            /\ \A u \in Workers \ {w} : d \notin done[u]
    /\ op[w] = "tick" => \A d \in (todo[w] \cup done[w]) \cap Deliveries :
                           rows[d].status # "absent" /\ base[w][d].status = "failed"

\* Counts: what is loaded or changed is no larger than the POSTs made, and what
\* is to be retried has attempts left.
CountsAreSound ==
  /\ \A d \in Deliveries :
       /\ rows[d].status = "failed" => rows[d].attempts < MaxAttempts
       /\ rows[d].status = "absent" => rows[d] = Absent
  /\ \A w \in Workers, d \in Deliveries :
       /\ base[w][d].attempts <= posts[d]
       /\ base[w][d].status = "failed" => base[w][d].attempts < MaxAttempts
       /\ mine[w][d].attempts <= posts[d]
       /\ mine[w][d].status = "failed" => mine[w][d].attempts < MaxAttempts
       /\ mine[w][d].status = "dead" => posts[d] = MaxAttempts

IInv == /\ TypeOK /\ GivenUpAfterAllAttempts /\ DeadIsInTheLog
        /\ ReportedChangeCommits /\ OpenTransactions /\ CountsAreSound

\* A settled delivery is never scheduled again, although a tick that loaded it
\* as failed may commit after the one that settled it.
SettledStaysSettled ==
  [][\A d \in Deliveries :
       rows[d].status \in {"success", "dead"} => rows'[d].status # "failed"]_vars

\* "retries with backoff": a failed delivery that has a next attempt ends up
\* delivered, given up or deleted, also when ticks overlap and roll back.
RetriedUntilSettled ==
  \A d \in Deliveries :
    (rows[d].status = "failed" /\ rows[d].retry # "none")
      ~> rows[d].status \in {"success", "dead", "gone"}

=============================================================================
