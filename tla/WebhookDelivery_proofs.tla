----------------------- MODULE WebhookDelivery_proofs -----------------------
(***************************************************************************)
(* Theorems about WebhookDelivery, for any numbers of transactions,        *)
(* subscriptions, deliveries, attempts and faults.                         *)
(***************************************************************************)
EXTENDS WebhookDelivery, TLAPS

USE ConstantsAssumption DEF LockGranted, Released, Reporting

LEMMA Limit == MaxAttempts \in Nat /\ MaxAttempts > 1
OBVIOUS

\* What one attempt makes of a delivery that has attempts left.
LEMMA AttemptedIs ==
  ASSUME NEW r \in Row, NEW outcome
  PROVE  /\ Attempted(r, outcome) \in Row
         /\ Attempted(r, outcome).sub = r.sub
         /\ Attempted(r, outcome).attempts = r.attempts + 1
         /\ Attempted(r, outcome).status \in {"success", "dead", "failed"}
         /\ Attempted(r, outcome).status = "failed" => r.attempts + 1 < MaxAttempts
         /\ Attempted(r, outcome).status = "dead" => r.attempts + 1 >= MaxAttempts
<1> DEFINE counted == [r EXCEPT !.attempts = @ + 1]
<1>1. /\ counted \in Row /\ counted.attempts = r.attempts + 1
      /\ counted.sub = r.sub
  BY DEF Row
<1>2. CASE outcome = "2xx"
  <2>1. Attempted(r, outcome) = [counted EXCEPT !.status = "success", !.retry = "none"]
    BY <1>2 DEF Attempted
  <2>2. QED
    BY <2>1, <1>1 DEF Row, Statuses
<1>3. CASE outcome # "2xx" /\ GivesUp(r.attempts + 1)
  <2>1. Attempted(r, outcome) = [counted EXCEPT !.status = "dead", !.retry = "none"]
    BY <1>3 DEF Attempted
  <2>2. QED
    BY <2>1, <1>1, <1>3 DEF Row, Statuses, GivesUp
<1>4. CASE outcome # "2xx" /\ ~GivesUp(r.attempts + 1)
  <2>1. Attempted(r, outcome) = [counted EXCEPT !.status = "failed", !.retry = "later"]
    BY <1>4 DEF Attempted, Scheduled
  <2>2. r.attempts + 1 < MaxAttempts
    BY <1>4 DEF GivesUp, Row
  <2>3. QED
    BY <2>1, <2>2, <1>1 DEF Row, Statuses
<1>5. QED
  BY <1>2, <1>3, <1>4

LEMMA PostCounts ==
  ASSUME TypeOK, NEW d \in Deliveries, Post(d)
  PROVE  /\ posts' \in [Deliveries -> 0..MaxAttempts]
         /\ \A e \in Deliveries : posts'[e] >= posts[e]
         /\ posts'[d] = posts[d] + 1 \/ posts'[d] = MaxAttempts
<1>1. posts \in [Deliveries -> 0..MaxAttempts] /\ MaxAttempts \in Nat
  BY DEF TypeOK
<1>2. posts' = [posts EXCEPT ![d] = IF posts[d] < MaxAttempts
                                     THEN posts[d] + 1 ELSE posts[d]]
  BY DEF Post
<1>3. posts[d] \in 0..MaxAttempts
  BY <1>1
<1>4. CASE posts[d] < MaxAttempts
  <2>1. posts[d] + 1 \in 0..MaxAttempts
    BY <1>1, <1>3, <1>4
  <2>2. posts' = [posts EXCEPT ![d] = posts[d] + 1]
    BY <1>2, <1>4
  <2>3. QED
    BY <1>1, <2>1, <2>2
<1>5. CASE ~(posts[d] < MaxAttempts)
  <2>1. posts[d] = MaxAttempts
    BY <1>1, <1>3, <1>5
  <2>2. posts' = [posts EXCEPT ![d] = posts[d]]
    BY <1>2, <1>5
  <2>3. QED
    BY <1>1, <2>1, <2>2
<1>6. QED
  BY <1>4, <1>5

\* What the end of a transaction leaves of it.
LEMMA OverIs ==
  ASSUME TypeOK, NEW w \in Workers, Over(w)
  PROVE  /\ op' = [op EXCEPT ![w] = "idle"] /\ op'[w] = "idle" /\ done'[w] = {}
         /\ \A d \in Deliveries : base'[w][d] = Absent /\ mine'[w][d] = Absent
         /\ \A u \in Workers : u # w =>
              /\ op'[u] = op[u] /\ todo'[u] = todo[u] /\ done'[u] = done[u]
              /\ base'[u] = base[u] /\ mine'[u] = mine[u]
         /\ lock' = IF lock = w THEN Nobody ELSE lock
BY DEF TypeOK, Over

LEMMA CreateSubscriptionKeeps ==
  ASSUME IInv, NEW s \in Subs, CreateSubscription(s)
  PROVE  IInv'
<1> USE DEF IInv, TypeOK, CreateSubscription, tableVars, txVars
<1>1. TypeOK'
  BY DEF Row, Statuses, Absent, GivenUpAfterAllAttempts,
     DeadIsInTheLog, ReportedChangeCommits, OpenTransactions, CountsAreSound
<1>2. GivenUpAfterAllAttempts'
  BY DEF Row, Statuses, Absent, GivenUpAfterAllAttempts,
     DeadIsInTheLog, ReportedChangeCommits, OpenTransactions, CountsAreSound
<1>3. DeadIsInTheLog'
  BY DEF Row, Statuses, Absent, GivenUpAfterAllAttempts,
     DeadIsInTheLog, ReportedChangeCommits, OpenTransactions, CountsAreSound
<1>4. ReportedChangeCommits'
  BY DEF Row, Statuses, Absent, GivenUpAfterAllAttempts,
     DeadIsInTheLog, ReportedChangeCommits, OpenTransactions, CountsAreSound
<1>5. OpenTransactions'
  BY DEF Row, Statuses, Absent, GivenUpAfterAllAttempts,
     DeadIsInTheLog, ReportedChangeCommits, OpenTransactions, CountsAreSound
<1>6. CountsAreSound'
  BY DEF Row, Statuses, Absent, GivenUpAfterAllAttempts,
     DeadIsInTheLog, ReportedChangeCommits, OpenTransactions, CountsAreSound
<1>7. QED
  BY <1>1, <1>2, <1>3, <1>4, <1>5, <1>6

LEMMA DeleteSubscriptionKeeps ==
  ASSUME IInv, NEW w \in Workers, NEW s \in Subs, DeleteSubscription(w, s)
  PROVE  IInv'
<1> USE DEF IInv, TypeOK, DeleteSubscription, tableVars, txVars
<1>1. /\ rows' \in [Deliveries -> Row]
      /\ \A d \in Deliveries : /\ rows'[d].sub = rows[d].sub
                               /\ rows'[d].attempts = rows[d].attempts
                               /\ rows'[d].retry = rows[d].retry
                               /\ rows'[d] = rows[d] \/ rows'[d].status = "gone"
  <2>1. ASSUME NEW d \in Deliveries
        PROVE  LET r == [rows[d] EXCEPT !.status = "gone"]
               IN  /\ r \in Row /\ r.status = "gone" /\ r.sub = rows[d].sub
                   /\ r.attempts = rows[d].attempts /\ r.retry = rows[d].retry
    <3>1. rows[d] \in Row
      OBVIOUS
    <3>2. QED
      BY <3>1 DEF Row, Statuses
  <2>2. \A d \in Deliveries :
          rows'[d] = rows[d] \/ rows'[d] = [rows[d] EXCEPT !.status = "gone"]
    OBVIOUS
  <2>3. rows' = [d \in Deliveries |-> rows'[d]]
    OBVIOUS
  <2>4. QED
    BY <2>1, <2>2, <2>3
<1>2. TypeOK'
  BY <1>1 DEF Row, Statuses, Absent, GivenUpAfterAllAttempts,
     DeadIsInTheLog, ReportedChangeCommits, OpenTransactions, CountsAreSound
<1>3. GivenUpAfterAllAttempts'
  BY <1>1 DEF Row, Statuses, Absent, GivenUpAfterAllAttempts,
     DeadIsInTheLog, ReportedChangeCommits, OpenTransactions, CountsAreSound
<1>4. DeadIsInTheLog'
  BY <1>1 DEF Row, Statuses, Absent, GivenUpAfterAllAttempts,
     DeadIsInTheLog, ReportedChangeCommits, OpenTransactions, CountsAreSound
<1>5. ReportedChangeCommits'
  BY <1>1 DEF Row, Statuses, Absent, GivenUpAfterAllAttempts,
     DeadIsInTheLog, ReportedChangeCommits, OpenTransactions, CountsAreSound
<1>6. OpenTransactions'
  BY <1>1 DEF Row, Statuses, Absent, GivenUpAfterAllAttempts,
     DeadIsInTheLog, ReportedChangeCommits, OpenTransactions, CountsAreSound
<1>7. CountsAreSound'
  BY <1>1 DEF Row, Statuses, Absent, GivenUpAfterAllAttempts,
     DeadIsInTheLog, ReportedChangeCommits, OpenTransactions, CountsAreSound
<1>8. QED
  BY <1>2, <1>3, <1>4, <1>5, <1>6, <1>7

LEMMA ReportBeginKeeps ==
  ASSUME IInv, NEW w \in Workers, ReportBegin(w)
  PROVE  IInv'
<1> USE DEF IInv, TypeOK, ReportBegin, tableVars, txVars
<1>1. TypeOK'
  BY DEF Row, Statuses, Absent, GivenUpAfterAllAttempts,
     DeadIsInTheLog, ReportedChangeCommits, OpenTransactions, CountsAreSound
<1>2. GivenUpAfterAllAttempts'
  BY DEF Row, Statuses, Absent, GivenUpAfterAllAttempts,
     DeadIsInTheLog, ReportedChangeCommits, OpenTransactions, CountsAreSound
<1>3. DeadIsInTheLog'
  BY DEF Row, Statuses, Absent, GivenUpAfterAllAttempts,
     DeadIsInTheLog, ReportedChangeCommits, OpenTransactions, CountsAreSound
<1>4. ReportedChangeCommits'
  BY DEF Row, Statuses, Absent, GivenUpAfterAllAttempts,
     DeadIsInTheLog, ReportedChangeCommits, OpenTransactions, CountsAreSound
<1>5. OpenTransactions'
  BY DEF Row, Statuses, Absent, GivenUpAfterAllAttempts,
     DeadIsInTheLog, ReportedChangeCommits, OpenTransactions, CountsAreSound
<1>6. CountsAreSound'
  BY DEF Row, Statuses, Absent, GivenUpAfterAllAttempts,
     DeadIsInTheLog, ReportedChangeCommits, OpenTransactions, CountsAreSound
<1>7. QED
  BY <1>1, <1>2, <1>3, <1>4, <1>5, <1>6

LEMMA NoticeBeginKeeps ==
  ASSUME IInv, NEW w \in Workers, NoticeBegin(w)
  PROVE  IInv'
<1> USE DEF IInv, TypeOK, NoticeBegin, tableVars, txVars
<1>1. TypeOK'
  BY DEF Row, Statuses, Absent, GivenUpAfterAllAttempts,
     DeadIsInTheLog, ReportedChangeCommits, OpenTransactions, CountsAreSound
<1>2. GivenUpAfterAllAttempts'
  BY DEF Row, Statuses, Absent, GivenUpAfterAllAttempts,
     DeadIsInTheLog, ReportedChangeCommits, OpenTransactions, CountsAreSound
<1>3. DeadIsInTheLog'
  BY DEF Row, Statuses, Absent, GivenUpAfterAllAttempts,
     DeadIsInTheLog, ReportedChangeCommits, OpenTransactions, CountsAreSound
<1>4. ReportedChangeCommits'
  BY DEF Row, Statuses, Absent, GivenUpAfterAllAttempts,
     DeadIsInTheLog, ReportedChangeCommits, OpenTransactions, CountsAreSound
<1>5. OpenTransactions'
  BY DEF Row, Statuses, Absent, GivenUpAfterAllAttempts,
     DeadIsInTheLog, ReportedChangeCommits, OpenTransactions, CountsAreSound
<1>6. CountsAreSound'
  BY DEF Row, Statuses, Absent, GivenUpAfterAllAttempts,
     DeadIsInTheLog, ReportedChangeCommits, OpenTransactions, CountsAreSound
<1>7. QED
  BY <1>1, <1>2, <1>3, <1>4, <1>5, <1>6

LEMMA DeliverKeeps ==
  ASSUME IInv, NEW w \in Workers, NEW s \in Subs, NEW d \in Deliveries,
         NEW outcome \in Outcomes, Deliver(w, s, d, outcome)
  PROVE  IInv'
<1> USE DEF IInv, TypeOK, Deliver, tableVars, txVars
<1> DEFINE r == [Absent EXCEPT !.sub = s, !.status = "pending"]
<1> DEFINE a == Attempted(r, outcome)
<1>1. r \in Row /\ r.sub = s /\ r.attempts = 0
  BY DEF Row, Absent, Statuses
<1>2. /\ a \in Row /\ a.sub = s /\ a.attempts = 1
      /\ a.status \in {"success", "failed"}
  <2>1. /\ a \in Row /\ a.sub = r.sub /\ a.attempts = r.attempts + 1
        /\ a.status \in {"success", "dead", "failed"}
        /\ a.status = "dead" => r.attempts + 1 >= MaxAttempts
    BY <1>1, AttemptedIs
  <2>2. ~(0 + 1 >= MaxAttempts)
    BY Limit
  <2>3. QED
    BY <1>1, <2>1, <2>2
<1> HIDE DEF a
<1>3. /\ mine' \in [Workers -> [Deliveries -> Row]]
      /\ mine'[w][d] = a
      /\ \A u \in Workers, e \in Deliveries :
           u # w \/ e # d => mine'[u][e] = mine[u][e]
  BY <1>2 DEF a
<1>4. /\ posts' \in [Deliveries -> 0..MaxAttempts]
      /\ \A e \in Deliveries : posts'[e] >= posts[e]
      /\ posts'[d] >= 1
  BY PostCounts
<1>5. /\ done' \in [Workers -> SUBSET Deliveries]
      /\ done'[w] = done[w] \cup {d}
      /\ \A u \in Workers : u # w => done'[u] = done[u]
      /\ rows[d] = Absent /\ rows[d].status = "absent"
  BY DEF Fresh, Absent
<1>6. TypeOK'
  BY <1>1, <1>2, <1>3, <1>4, <1>5 DEF Row, Statuses, Absent, GivenUpAfterAllAttempts,
     DeadIsInTheLog, ReportedChangeCommits, OpenTransactions, CountsAreSound
<1>7. GivenUpAfterAllAttempts'
  <2>1. ASSUME NEW e \in Deliveries
        PROVE  /\ rows'[e].status = "dead" => posts'[e] = MaxAttempts
               /\ rows'[e].attempts <= posts'[e]
    <3>1. /\ posts[e] \in Nat /\ posts'[e] \in Nat /\ posts'[e] >= posts[e]
          /\ posts'[e] <= MaxAttempts /\ MaxAttempts \in Nat
          /\ rows[e].attempts \in Nat /\ rows' = rows
      BY <1>4, Limit DEF Row
    <3>2. /\ rows[e].status = "dead" => posts[e] = MaxAttempts
          /\ rows[e].attempts <= posts[e]
      BY DEF GivenUpAfterAllAttempts
    <3> HIDE DEF IInv, TypeOK, Deliver, tableVars, txVars
    <3>3. QED
      BY <3>1, <3>2
  <2>2. QED
    BY <2>1 DEF GivenUpAfterAllAttempts
<1>8. DeadIsInTheLog'
  BY <1>1, <1>2, <1>3, <1>4, <1>5 DEF Row, Statuses, Absent, GivenUpAfterAllAttempts,
     DeadIsInTheLog, ReportedChangeCommits, OpenTransactions, CountsAreSound
<1>9. ReportedChangeCommits'
  BY <1>1, <1>2, <1>3, <1>4, <1>5 DEF Row, Statuses, Absent, GivenUpAfterAllAttempts,
     DeadIsInTheLog, ReportedChangeCommits, OpenTransactions, CountsAreSound
<1>10. OpenTransactions'
  <2>1. /\ op' = op /\ lock' = lock /\ rows' = rows /\ subs' = subs /\ base' = base
        /\ op[w] \in Reporting /\ Fresh(d)
        /\ \A u \in Workers : todo'[u] \subseteq todo[u]
    OBVIOUS
  <2>2. /\ a.status \notin {"absent", "dead"}
        /\ \A u \in Workers : d \notin done[u]
    BY <2>1, <1>2 DEF Fresh
  <2> HIDE DEF IInv, TypeOK, Deliver
  <2>3. ASSUME NEW u \in Workers, NEW e \in done'[u]
        PROVE  \/ u = w /\ e = d /\ mine'[u][e] = a
               \/ e \in done[u] /\ e # d /\ mine'[u][e] = mine[u][e]
    BY <2>2, <1>3, <1>5
  <2>4. \A u \in Workers : done[u] \subseteq Deliveries
    BY DEF IInv, TypeOK
  <2>5. OpenTransactions
    BY DEF IInv
  <2>6. QED
    BY <2>1, <2>2, <2>3, <2>4, <2>5, <1>3, <1>5 DEF OpenTransactions
<1>11. CountsAreSound'
  <2>1. \A e \in Deliveries :
          /\ rows'[e].status = "failed" => rows'[e].attempts < MaxAttempts
          /\ rows'[e].status = "absent" => rows'[e] = Absent
    BY DEF CountsAreSound
  <2>2. ASSUME NEW u \in Workers, NEW e \in Deliveries
        PROVE  /\ base'[u][e].attempts <= posts'[e]
               /\ base'[u][e].status = "failed" => base'[u][e].attempts < MaxAttempts
    <3>1. base[u][e].attempts \in Nat /\ posts[e] \in Nat /\ posts'[e] \in Nat
          /\ posts'[e] >= posts[e]
      BY <1>4 DEF Row
    <3>2. QED
      BY <3>1 DEF CountsAreSound
  <2>3. ASSUME NEW u \in Workers, NEW e \in Deliveries
        PROVE  /\ mine'[u][e].attempts <= posts'[e]
               /\ mine'[u][e].status = "failed" => mine'[u][e].attempts < MaxAttempts
               /\ mine'[u][e].status = "dead" => posts'[e] = MaxAttempts
    <3>1. mine[u][e].attempts \in Nat /\ posts[e] \in Nat /\ posts'[e] \in Nat
          /\ posts'[e] >= posts[e] /\ posts'[e] <= MaxAttempts
          /\ MaxAttempts \in Nat /\ MaxAttempts > 1
      BY <1>4, Limit DEF Row
    <3>2. CASE u = w /\ e = d
      BY <1>2, <1>3, <1>4, <3>1, <3>2
    <3>3. CASE u # w \/ e # d
      <4>1. mine'[u][e] = mine[u][e]
        BY <1>3, <3>3
      <4>2. /\ mine[u][e].attempts <= posts[e]
            /\ mine[u][e].status = "failed" => mine[u][e].attempts < MaxAttempts
            /\ mine[u][e].status = "dead" => posts[e] = MaxAttempts
        BY DEF CountsAreSound
      <4> HIDE DEF IInv, TypeOK, Deliver, tableVars, txVars
      <4>3. QED
        BY <3>1, <4>1, <4>2
    <3>4. QED
      BY <3>2, <3>3
  <2>4. QED
    BY <2>1, <2>2, <2>3 DEF CountsAreSound
<1>12. QED
  BY <1>6, <1>7, <1>8, <1>9, <1>10, <1>11

LEMMA DeliverRaisesKeeps ==
  ASSUME IInv, NEW w \in Workers, NEW s \in Subs, NEW d \in Deliveries,
         NEW counted \in {0, 1}, DeliverRaises(w, s, d, counted)
  PROVE  IInv'
<1> USE DEF IInv, TypeOK, DeliverRaises, tableVars, txVars
<1> DEFINE a == [Absent EXCEPT !.sub = s, !.status = "failed", !.attempts = counted]
<1>1. a \in Row /\ a.sub = s /\ a.attempts = counted /\ a.status = "failed"
  <2>1. Absent \in Row /\ counted \in Nat /\ "failed" \in Statuses
    BY DEF Row, Absent, Statuses
  <2>2. QED
    BY <2>1 DEF Row
<1> HIDE DEF a
<1>2. /\ mine' \in [Workers -> [Deliveries -> Row]]
      /\ mine'[w][d] = a
      /\ \A u \in Workers, e \in Deliveries :
           u # w \/ e # d => mine'[u][e] = mine[u][e]
  BY <1>1 DEF a
<1>3. /\ posts' \in [Deliveries -> 0..MaxAttempts]
      /\ \A e \in Deliveries : posts'[e] >= posts[e]
      /\ posts'[d] >= counted
  <2>1. CASE counted = 1
    BY <2>1, PostCounts, Limit
  <2>2. CASE counted = 0
    BY <2>2
  <2>3. QED
    BY <2>1, <2>2
<1>4. /\ done' \in [Workers -> SUBSET Deliveries]
      /\ done'[w] = done[w] \cup {d}
      /\ \A u \in Workers : u # w => done'[u] = done[u]
      /\ rows[d] = Absent /\ rows[d].status = "absent"
  BY DEF Fresh, Absent
<1>5. TypeOK'
  BY <1>1, <1>2, <1>3, <1>4 DEF Row, Statuses, Absent, GivenUpAfterAllAttempts,
     DeadIsInTheLog, ReportedChangeCommits, OpenTransactions, CountsAreSound
<1>6. GivenUpAfterAllAttempts'
  <2>1. ASSUME NEW e \in Deliveries
        PROVE  /\ rows'[e].status = "dead" => posts'[e] = MaxAttempts
               /\ rows'[e].attempts <= posts'[e]
    <3>1. /\ posts[e] \in Nat /\ posts'[e] \in Nat /\ posts'[e] >= posts[e]
          /\ posts'[e] <= MaxAttempts /\ MaxAttempts \in Nat
          /\ rows[e].attempts \in Nat /\ rows' = rows
      BY <1>3, Limit DEF Row
    <3>2. /\ rows[e].status = "dead" => posts[e] = MaxAttempts
          /\ rows[e].attempts <= posts[e]
      BY DEF GivenUpAfterAllAttempts
    <3> HIDE DEF IInv, TypeOK, DeliverRaises, tableVars, txVars
    <3>3. QED
      BY <3>1, <3>2
  <2>2. QED
    BY <2>1 DEF GivenUpAfterAllAttempts
<1>7. DeadIsInTheLog'
  BY <1>1, <1>2, <1>3, <1>4 DEF Row, Statuses, Absent, GivenUpAfterAllAttempts,
     DeadIsInTheLog, ReportedChangeCommits, OpenTransactions, CountsAreSound
<1>8. ReportedChangeCommits'
  BY <1>1, <1>2, <1>3, <1>4 DEF Row, Statuses, Absent, GivenUpAfterAllAttempts,
     DeadIsInTheLog, ReportedChangeCommits, OpenTransactions, CountsAreSound
<1>9. OpenTransactions'
  <2>1. /\ op' = op /\ lock' = lock /\ rows' = rows /\ subs' = subs /\ base' = base
        /\ op[w] \in Reporting /\ Fresh(d)
        /\ \A u \in Workers : todo'[u] \subseteq todo[u]
    OBVIOUS
  <2>2. /\ a.status \notin {"absent", "dead"}
        /\ \A u \in Workers : d \notin done[u]
    BY <2>1, <1>1 DEF Fresh
  <2> HIDE DEF IInv, TypeOK, DeliverRaises
  <2>3. ASSUME NEW u \in Workers, NEW e \in done'[u]
        PROVE  \/ u = w /\ e = d /\ mine'[u][e] = a
               \/ e \in done[u] /\ e # d /\ mine'[u][e] = mine[u][e]
    BY <2>2, <1>2, <1>4
  <2>4. \A u \in Workers : done[u] \subseteq Deliveries
    BY DEF IInv, TypeOK
  <2>5. OpenTransactions
    BY DEF IInv
  <2>6. QED
    BY <2>1, <2>2, <2>3, <2>4, <2>5, <1>2, <1>4 DEF OpenTransactions
<1>10. CountsAreSound'
  <2>1. \A e \in Deliveries :
          /\ rows'[e].status = "failed" => rows'[e].attempts < MaxAttempts
          /\ rows'[e].status = "absent" => rows'[e] = Absent
    BY DEF CountsAreSound
  <2>2. ASSUME NEW u \in Workers, NEW e \in Deliveries
        PROVE  /\ base'[u][e].attempts <= posts'[e]
               /\ base'[u][e].status = "failed" => base'[u][e].attempts < MaxAttempts
    <3>1. base[u][e].attempts \in Nat /\ posts[e] \in Nat /\ posts'[e] \in Nat
          /\ posts'[e] >= posts[e]
      BY <1>3 DEF Row
    <3>2. QED
      BY <3>1 DEF CountsAreSound
  <2>3. ASSUME NEW u \in Workers, NEW e \in Deliveries
        PROVE  /\ mine'[u][e].attempts <= posts'[e]
               /\ mine'[u][e].status = "failed" => mine'[u][e].attempts < MaxAttempts
               /\ mine'[u][e].status = "dead" => posts'[e] = MaxAttempts
    <3>1. mine[u][e].attempts \in Nat /\ posts[e] \in Nat /\ posts'[e] \in Nat
          /\ posts'[e] >= posts[e] /\ posts'[e] <= MaxAttempts
          /\ MaxAttempts \in Nat /\ MaxAttempts > 1
      BY <1>3, Limit DEF Row
    <3>2. CASE u = w /\ e = d
      BY <1>1, <1>2, <1>3, <3>1, <3>2, Limit
    <3>3. CASE u # w \/ e # d
      <4>1. mine'[u][e] = mine[u][e]
        BY <1>2, <3>3
      <4>2. /\ mine[u][e].attempts <= posts[e]
            /\ mine[u][e].status = "failed" => mine[u][e].attempts < MaxAttempts
            /\ mine[u][e].status = "dead" => posts[e] = MaxAttempts
        BY DEF CountsAreSound
      <4> HIDE DEF IInv, TypeOK, DeliverRaises, tableVars, txVars
      <4>3. QED
        BY <3>1, <4>1, <4>2
    <3>4. QED
      BY <3>2, <3>3
  <2>4. QED
    BY <2>1, <2>2, <2>3 DEF CountsAreSound
<1>11. QED
  BY <1>5, <1>6, <1>7, <1>8, <1>9, <1>10

LEMMA ReportEndKeeps ==
  ASSUME IInv, NEW w \in Workers, ReportEnd(w)
  PROVE  IInv'
<1> USE DEF IInv, TypeOK, ReportEnd, tableVars, txVars, Over
<1>1. \A d \in Deliveries : \/ rows'[d] = rows[d]
                            \/ d \in done[w] /\ rows'[d] = mine[w][d]
  OBVIOUS
<1>2. TypeOK'
  BY <1>1 DEF Row, Statuses, Absent, GivenUpAfterAllAttempts,
     DeadIsInTheLog, ReportedChangeCommits, OpenTransactions, CountsAreSound
<1>3. GivenUpAfterAllAttempts'
  BY <1>1 DEF Row, Statuses, Absent, GivenUpAfterAllAttempts,
     DeadIsInTheLog, ReportedChangeCommits, OpenTransactions, CountsAreSound
<1>4. DeadIsInTheLog'
  BY <1>1 DEF Row, Statuses, Absent, GivenUpAfterAllAttempts,
     DeadIsInTheLog, ReportedChangeCommits, OpenTransactions, CountsAreSound
<1>5. ReportedChangeCommits'
  BY <1>1 DEF Row, Statuses, Absent, GivenUpAfterAllAttempts,
     DeadIsInTheLog, ReportedChangeCommits, OpenTransactions, CountsAreSound
<1>6. OpenTransactions'
  BY <1>1 DEF Row, Statuses, Absent, GivenUpAfterAllAttempts,
     DeadIsInTheLog, ReportedChangeCommits, OpenTransactions, CountsAreSound
<1>7. CountsAreSound'
  <2>1. \A d \in Deliveries :
          /\ rows'[d].status = "failed" => rows'[d].attempts < MaxAttempts
          /\ rows'[d].status = "absent" => rows'[d] = Absent
    BY <1>1 DEF CountsAreSound, OpenTransactions, Absent
  <2>2. ASSUME NEW u \in Workers, NEW d \in Deliveries
        PROVE  /\ base'[u][d].attempts <= posts'[d]
               /\ base'[u][d].status = "failed" => base'[u][d].attempts < MaxAttempts
               /\ mine'[u][d].attempts <= posts'[d]
               /\ mine'[u][d].status = "failed" => mine'[u][d].attempts < MaxAttempts
               /\ mine'[u][d].status = "dead" => posts'[d] = MaxAttempts
    <3>1. CASE u = w
      <4>1. base'[u][d] = Absent /\ mine'[u][d] = Absent
        BY <3>1, OverIs
      <4>2. posts'[d] \in Nat
        OBVIOUS
      <4>3. QED
        BY <4>1, <4>2 DEF Absent
    <3>2. CASE u # w
      <4>1. base'[u] = base[u] /\ mine'[u] = mine[u] /\ posts' = posts
        BY <3>2, OverIs
      <4>2. QED
        BY <4>1 DEF CountsAreSound
    <3>3. QED
      BY <3>1, <3>2
  <2>3. QED
    BY <2>1, <2>2 DEF CountsAreSound
<1>8. QED
  BY <1>2, <1>3, <1>4, <1>5, <1>6, <1>7

LEMMA BackoffElapsesKeeps ==
  ASSUME IInv, NEW d \in Deliveries, BackoffElapses(d)
  PROVE  IInv'
<1> USE DEF IInv, TypeOK, BackoffElapses, tableVars, txVars
<1>1. /\ rows' \in [Deliveries -> Row]
      /\ \A e \in Deliveries : /\ rows'[e].sub = rows[e].sub
                                /\ rows'[e].attempts = rows[e].attempts
                                /\ rows'[e].status = rows[e].status
                                /\ e # d => rows'[e] = rows[e]
      /\ rows[d] # Absent
  <2>1. rows[d] \in Row /\ rows[d] # Absent
    BY DEF Absent
  <2>2. [rows[d] EXCEPT !.retry = "due"] \in Row
    BY <2>1 DEF Row
  <2>3. rows' = [rows EXCEPT ![d] = [rows[d] EXCEPT !.retry = "due"]]
    OBVIOUS
  <2>4. QED
    BY <2>1, <2>2, <2>3 DEF Row
<1>2. TypeOK'
  BY <1>1 DEF Row, Statuses, Absent, GivenUpAfterAllAttempts,
     DeadIsInTheLog, ReportedChangeCommits, OpenTransactions, CountsAreSound
<1>3. GivenUpAfterAllAttempts'
  BY <1>1 DEF Row, Statuses, Absent, GivenUpAfterAllAttempts,
     DeadIsInTheLog, ReportedChangeCommits, OpenTransactions, CountsAreSound
<1>4. DeadIsInTheLog'
  BY <1>1 DEF Row, Statuses, Absent, GivenUpAfterAllAttempts,
     DeadIsInTheLog, ReportedChangeCommits, OpenTransactions, CountsAreSound
<1>5. ReportedChangeCommits'
  BY <1>1 DEF Row, Statuses, Absent, GivenUpAfterAllAttempts,
     DeadIsInTheLog, ReportedChangeCommits, OpenTransactions, CountsAreSound
<1>6. OpenTransactions'
  BY <1>1 DEF Row, Statuses, Absent, GivenUpAfterAllAttempts,
     DeadIsInTheLog, ReportedChangeCommits, OpenTransactions, CountsAreSound
<1>7. CountsAreSound'
  BY <1>1 DEF Row, Statuses, Absent, GivenUpAfterAllAttempts,
     DeadIsInTheLog, ReportedChangeCommits, OpenTransactions, CountsAreSound
<1>8. QED
  BY <1>2, <1>3, <1>4, <1>5, <1>6, <1>7

LEMMA TickBeginKeeps ==
  ASSUME IInv, NEW w \in Workers, TickBegin(w)
  PROVE  IInv'
<1> USE DEF IInv, TypeOK, TickBegin, tableVars, txVars
<1>1. /\ base' \in [Workers -> [Deliveries -> Row]]
      /\ \A d \in Deliveries : base'[w][d] = IF d \in Due THEN rows[d] ELSE Absent
      /\ \A u \in Workers : u # w => base'[u] = base[u]
  BY DEF Row, Absent, Statuses
<1>2. /\ Due \subseteq Deliveries
      /\ \A d \in Due : rows[d].status = "failed"
      /\ todo' \in [Workers -> SUBSET (Subs \cup Deliveries)] /\ todo'[w] = Due
      /\ \A u \in Workers : u # w => todo'[u] = todo[u]
  BY DEF Due
<1>3. TypeOK'
  BY <1>1, <1>2 DEF Row, Statuses, Absent, GivenUpAfterAllAttempts,
     DeadIsInTheLog, ReportedChangeCommits, OpenTransactions, CountsAreSound
<1>4. GivenUpAfterAllAttempts'
  BY <1>1, <1>2 DEF Row, Statuses, Absent, GivenUpAfterAllAttempts,
     DeadIsInTheLog, ReportedChangeCommits, OpenTransactions, CountsAreSound
<1>5. DeadIsInTheLog'
  BY <1>1, <1>2 DEF Row, Statuses, Absent, GivenUpAfterAllAttempts,
     DeadIsInTheLog, ReportedChangeCommits, OpenTransactions, CountsAreSound
<1>6. ReportedChangeCommits'
  BY <1>1, <1>2 DEF Row, Statuses, Absent, GivenUpAfterAllAttempts,
     DeadIsInTheLog, ReportedChangeCommits, OpenTransactions, CountsAreSound
<1>7. OpenTransactions'
  BY <1>1, <1>2 DEF Row, Statuses, Absent, GivenUpAfterAllAttempts,
     DeadIsInTheLog, ReportedChangeCommits, OpenTransactions, CountsAreSound
<1>8. CountsAreSound'
  BY <1>1, <1>2 DEF Row, Statuses, Absent, GivenUpAfterAllAttempts,
     DeadIsInTheLog, ReportedChangeCommits, OpenTransactions, CountsAreSound
<1>9. QED
  BY <1>3, <1>4, <1>5, <1>6, <1>7, <1>8

LEMMA RetryKeeps ==
  ASSUME IInv, NEW w \in Workers, NEW d \in Deliveries, NEW outcome \in Outcomes,
         Retry(w, d, outcome)
  PROVE  IInv'
<1> USE DEF IInv, TypeOK, Retry, tableVars, txVars
<1> DEFINE a == Attempted(base[w][d], outcome)
<1>1. /\ base[w][d] \in Row /\ base[w][d].status = "failed"
      /\ base[w][d].attempts < MaxAttempts /\ base[w][d].attempts <= posts[d]
  BY DEF OpenTransactions, CountsAreSound
<1>2. /\ a \in Row /\ a.attempts = base[w][d].attempts + 1
      /\ a.status \in {"success", "dead", "failed"}
      /\ a.status = "failed" => a.attempts < MaxAttempts
      /\ a.status = "dead" => a.attempts >= MaxAttempts
  BY <1>1, AttemptedIs
<1> HIDE DEF a
<1>3. /\ mine' \in [Workers -> [Deliveries -> Row]]
      /\ mine'[w][d] = a
      /\ \A u \in Workers, e \in Deliveries :
           u # w \/ e # d => mine'[u][e] = mine[u][e]
  BY <1>2 DEF a
<1>4. /\ posts' \in [Deliveries -> 0..MaxAttempts]
      /\ \A e \in Deliveries : posts'[e] >= posts[e]
      /\ posts'[d] = posts[d] + 1 \/ posts'[d] = MaxAttempts
  BY PostCounts
<1>5. /\ done' \in [Workers -> SUBSET Deliveries]
      /\ done'[w] = done[w] \cup {d}
      /\ \A u \in Workers : u # w => done'[u] = done[u]
      /\ lock' \in {lock, w} /\ (lock' # lock => lock = Nobody)
  OBVIOUS
<1>6. /\ a.attempts \in Nat /\ a.attempts <= posts'[d]
      /\ a.status = "dead" => posts'[d] = MaxAttempts
  <2>1. /\ base[w][d].attempts \in Nat /\ posts[d] \in Nat /\ posts'[d] \in Nat
        /\ posts'[d] <= MaxAttempts /\ MaxAttempts \in Nat
    BY <1>1, <1>4 DEF Row
  <2>2. a.attempts \in Nat /\ a.attempts <= posts'[d]
    <3>1. base[w][d].attempts + 1 <= posts[d] + 1
      BY <1>1, <2>1
    <3>2. base[w][d].attempts + 1 <= MaxAttempts
      BY <1>1, <2>1
    <3>3. QED
      BY <1>2, <1>4, <2>1, <3>1, <3>2
  <2> HIDE DEF IInv, TypeOK, Retry, tableVars, txVars
  <2>3. QED
    BY <1>2, <2>1, <2>2
<1>7. TypeOK'
  BY <1>1, <1>2, <1>3, <1>4, <1>5, <1>6 DEF Row, Statuses, Absent, GivenUpAfterAllAttempts,
     DeadIsInTheLog, ReportedChangeCommits, OpenTransactions, CountsAreSound
<1>8. GivenUpAfterAllAttempts'
  <2>1. ASSUME NEW e \in Deliveries
        PROVE  /\ rows'[e].status = "dead" => posts'[e] = MaxAttempts
               /\ rows'[e].attempts <= posts'[e]
    <3>1. /\ posts[e] \in Nat /\ posts'[e] \in Nat /\ posts'[e] >= posts[e]
          /\ posts'[e] <= MaxAttempts /\ MaxAttempts \in Nat
          /\ rows[e].attempts \in Nat /\ rows' = rows
      BY <1>4, Limit DEF Row
    <3>2. /\ rows[e].status = "dead" => posts[e] = MaxAttempts
          /\ rows[e].attempts <= posts[e]
      BY DEF GivenUpAfterAllAttempts
    <3> HIDE DEF IInv, TypeOK, Retry, tableVars, txVars
    <3>3. QED
      BY <3>1, <3>2
  <2>2. QED
    BY <2>1 DEF GivenUpAfterAllAttempts
<1>9. DeadIsInTheLog'
  BY <1>1, <1>2, <1>3, <1>4, <1>5, <1>6 DEF Row, Statuses, Absent, GivenUpAfterAllAttempts,
     DeadIsInTheLog, ReportedChangeCommits, OpenTransactions, CountsAreSound
<1>10. ReportedChangeCommits'
  BY <1>1, <1>2, <1>3, <1>4, <1>5, <1>6 DEF Row, Statuses, Absent, GivenUpAfterAllAttempts,
     DeadIsInTheLog, ReportedChangeCommits, OpenTransactions, CountsAreSound
<1>11. OpenTransactions'
  BY <1>1, <1>2, <1>3, <1>4, <1>5, <1>6 DEF Row, Statuses, Absent, GivenUpAfterAllAttempts,
     DeadIsInTheLog, ReportedChangeCommits, OpenTransactions, CountsAreSound
<1>12. CountsAreSound'
  <2>1. \A e \in Deliveries :
          /\ rows'[e].status = "failed" => rows'[e].attempts < MaxAttempts
          /\ rows'[e].status = "absent" => rows'[e] = Absent
    BY DEF CountsAreSound
  <2>2. ASSUME NEW u \in Workers, NEW e \in Deliveries
        PROVE  /\ base'[u][e].attempts <= posts'[e]
               /\ base'[u][e].status = "failed" => base'[u][e].attempts < MaxAttempts
    <3>1. base[u][e].attempts \in Nat /\ posts[e] \in Nat /\ posts'[e] \in Nat
          /\ posts'[e] >= posts[e]
      BY <1>4 DEF Row
    <3>2. QED
      BY <3>1 DEF CountsAreSound
  <2>3. ASSUME NEW u \in Workers, NEW e \in Deliveries
        PROVE  /\ mine'[u][e].attempts <= posts'[e]
               /\ mine'[u][e].status = "failed" => mine'[u][e].attempts < MaxAttempts
               /\ mine'[u][e].status = "dead" => posts'[e] = MaxAttempts
    <3>1. mine[u][e].attempts \in Nat /\ posts[e] \in Nat /\ posts'[e] \in Nat
          /\ posts'[e] >= posts[e] /\ posts'[e] <= MaxAttempts
          /\ MaxAttempts \in Nat /\ MaxAttempts > 1
      BY <1>4, Limit DEF Row
    <3>2. CASE u = w /\ e = d
      BY <1>2, <1>3, <1>4, <1>6, <3>1, <3>2
    <3>3. CASE u # w \/ e # d
      BY <1>3, <1>4, <3>1, <3>3 DEF CountsAreSound
    <3>4. QED
      BY <3>2, <3>3
  <2>4. QED
    BY <2>1, <2>2, <2>3 DEF CountsAreSound
<1>13. QED
  BY <1>7, <1>8, <1>9, <1>10, <1>11, <1>12

LEMMA TickEndKeeps ==
  ASSUME IInv, NEW w \in Workers, TickEnd(w)
  PROVE  IInv'
<1> USE DEF IInv, TypeOK, TickEnd, tableVars, txVars, Over
<1> DEFINE W == done[w] \ Gone(w)
<1>1. W \subseteq Deliveries /\ W \subseteq done[w]
  OBVIOUS
<1>2. ASSUME NEW d \in W
      PROVE  /\ Written(w, d) \in Row
             /\ Written(w, d).attempts = mine[w][d].attempts
             /\ mine[w][d].status = "failed" => Written(w, d).status = rows[d].status
             /\ mine[w][d].status # "failed" => Written(w, d).status = mine[w][d].status
             /\ rows[d].status # "absent" /\ Written(w, d).status # "absent"
  <2>1. mine[w][d] \in Row /\ rows[d] \in Row
    BY <1>1
  <2>2. base[w][d].status = "failed" /\ rows[d].status # "absent"
    BY <1>1 DEF OpenTransactions
  <2>3. Written(w, d) = [mine[w][d] EXCEPT !.status =
            IF mine[w][d].status = "failed" THEN rows[d].status
                                            ELSE mine[w][d].status]
    BY <2>2 DEF Written
  <2>4. mine[w][d].status # "absent"
    BY <1>1 DEF OpenTransactions
  <2>5. QED
    BY <2>1, <2>2, <2>3, <2>4 DEF Row
<1>3. /\ rows' \in [Deliveries -> Row]
      /\ \A d \in Deliveries : rows'[d] = rows[d] \/ (d \in W /\ rows'[d] = Written(w, d))
  BY <1>1, <1>2
<1>4. \A d \in W : mine[w][d].status = "dead" => d \in dark' \/ rows' = rows
  BY <1>1 DEF GivenUp
<1>5. dark \subseteq dark' /\ dark' \subseteq Deliveries
  BY DEF GivenUp
<1> HIDE DEF W
<1>6. TypeOK'
  BY <1>1, <1>2, <1>3, <1>4, <1>5 DEF Row, Statuses, Absent, GivenUpAfterAllAttempts,
     DeadIsInTheLog, ReportedChangeCommits, OpenTransactions, CountsAreSound
<1>7. GivenUpAfterAllAttempts'
  <2>1. ASSUME NEW d \in Deliveries
        PROVE  /\ rows'[d].status = "dead" => posts[d] = MaxAttempts
               /\ rows'[d].attempts <= posts[d]
    <3>1. CASE rows'[d] = rows[d]
      BY <3>1 DEF GivenUpAfterAllAttempts
    <3>2. CASE d \in W /\ rows'[d] = Written(w, d)
      <4>1. /\ mine[w][d].status = "dead" => posts[d] = MaxAttempts
            /\ mine[w][d].attempts <= posts[d]
        BY DEF CountsAreSound
      <4>2. rows[d].status = "dead" => posts[d] = MaxAttempts
        BY DEF GivenUpAfterAllAttempts
      <4>3. QED
        BY <1>2, <3>2, <4>1, <4>2
    <3>3. QED
      BY <1>3, <3>1, <3>2
  <2>2. QED
    BY <2>1 DEF GivenUpAfterAllAttempts
<1>8. DeadIsInTheLog'
  <2>1. ASSUME NEW d \in Deliveries, rows'[d].status = "dead"
        PROVE  d \in dark'
    <3>1. rows[d].status = "dead" => d \in dark'
      BY <1>5 DEF DeadIsInTheLog
    <3>2. CASE rows'[d] = rows[d]
      BY <2>1, <3>1, <3>2
    <3>3. CASE d \in W /\ rows'[d] = Written(w, d) /\ rows' # rows
      <4>1. mine[w][d].status = "failed" => rows[d].status = "dead"
        BY <1>2, <2>1, <3>3
      <4>2. mine[w][d].status # "failed" => mine[w][d].status = "dead"
        BY <1>2, <2>1, <3>3
      <4>3. QED
        BY <1>4, <3>1, <3>3, <4>1, <4>2
    <3>4. QED
      BY <1>3, <3>2, <3>3
  <2>2. QED
    BY <2>1 DEF DeadIsInTheLog
<1>9. ReportedChangeCommits'
  <2>1. subs' = subs
    OBVIOUS
  <2>2. QED
    BY <2>1, OverIs DEF ReportedChangeCommits
<1>10. OpenTransactions'
  <2>1. \A d \in Deliveries : (rows'[d].status = "absent") <=> (rows[d].status = "absent")
    BY <1>2, <1>3
  <2>2. subs' = subs /\ op[w] = "tick"
    OBVIOUS
  <2>3. QED
    BY <2>1, <2>2, OverIs DEF OpenTransactions
<1>11. CountsAreSound'
  <2>1. \A d \in Deliveries :
          /\ rows'[d].status = "failed" => rows'[d].attempts < MaxAttempts
          /\ rows'[d].status = "absent" => rows'[d] = Absent
    <3>1. ASSUME NEW d \in W
          PROVE  Written(w, d).status = "failed" => Written(w, d).attempts < MaxAttempts
      <4>1. /\ Written(w, d).status = "failed" => mine[w][d].status = "failed"
            /\ Written(w, d).attempts = mine[w][d].attempts
        BY <1>2
      <4>2. mine[w][d].status = "failed" => mine[w][d].attempts < MaxAttempts
        BY <1>1 DEF CountsAreSound
      <4>3. QED
        BY <4>1, <4>2
    <3>2. QED
      BY <1>2, <1>3, <3>1 DEF CountsAreSound
  <2>2. ASSUME NEW u \in Workers, NEW d \in Deliveries
        PROVE  /\ base'[u][d].attempts <= posts'[d]
               /\ base'[u][d].status = "failed" => base'[u][d].attempts < MaxAttempts
               /\ mine'[u][d].attempts <= posts'[d]
               /\ mine'[u][d].status = "failed" => mine'[u][d].attempts < MaxAttempts
               /\ mine'[u][d].status = "dead" => posts'[d] = MaxAttempts
    <3>1. CASE u = w
      <4>1. base'[u][d] = Absent /\ mine'[u][d] = Absent
        BY <3>1, OverIs
      <4>2. posts'[d] \in Nat
        OBVIOUS
      <4>3. QED
        BY <4>1, <4>2 DEF Absent
    <3>2. CASE u # w
      <4>1. base'[u] = base[u] /\ mine'[u] = mine[u] /\ posts' = posts
        BY <3>2, OverIs
      <4>2. QED
        BY <4>1 DEF CountsAreSound
    <3>3. QED
      BY <3>1, <3>2
  <2>3. QED
    BY <2>1, <2>2 DEF CountsAreSound
<1>12. QED
  BY <1>6, <1>7, <1>8, <1>9, <1>10, <1>11

LEMMA FailKeeps ==
  ASSUME IInv, NEW w \in Workers, Fail(w)
  PROVE  IInv'
<1> USE DEF IInv, TypeOK, Fail, tableVars, txVars, Over
<1>1. TypeOK'
  BY DEF Row, Statuses, Absent, GivenUpAfterAllAttempts,
     DeadIsInTheLog, ReportedChangeCommits, OpenTransactions, CountsAreSound
<1>2. GivenUpAfterAllAttempts'
  BY DEF Row, Statuses, Absent, GivenUpAfterAllAttempts,
     DeadIsInTheLog, ReportedChangeCommits, OpenTransactions, CountsAreSound
<1>3. DeadIsInTheLog'
  BY DEF Row, Statuses, Absent, GivenUpAfterAllAttempts,
     DeadIsInTheLog, ReportedChangeCommits, OpenTransactions, CountsAreSound
<1>4. ReportedChangeCommits'
  BY DEF Row, Statuses, Absent, GivenUpAfterAllAttempts,
     DeadIsInTheLog, ReportedChangeCommits, OpenTransactions, CountsAreSound
<1>5. OpenTransactions'
  BY DEF Row, Statuses, Absent, GivenUpAfterAllAttempts,
     DeadIsInTheLog, ReportedChangeCommits, OpenTransactions, CountsAreSound
<1>6. CountsAreSound'
  BY DEF Row, Statuses, Absent, GivenUpAfterAllAttempts,
     DeadIsInTheLog, ReportedChangeCommits, OpenTransactions, CountsAreSound
<1>7. QED
  BY <1>1, <1>2, <1>3, <1>4, <1>5, <1>6

LEMMA StepKeeps == IInv /\ [Next]_vars => IInv'
<1> SUFFICES ASSUME IInv, [Next]_vars PROVE IInv'
  OBVIOUS
<1>1. CASE UNCHANGED vars
  BY <1>1 DEF vars, tableVars, txVars, IInv, TypeOK, GivenUpAfterAllAttempts,
     DeadIsInTheLog, ReportedChangeCommits, OpenTransactions, CountsAreSound
<1>2. CASE Next
  BY <1>2, CreateSubscriptionKeeps, DeleteSubscriptionKeeps, ReportBeginKeeps,
      NoticeBeginKeeps, DeliverKeeps, DeliverRaisesKeeps, ReportEndKeeps, BackoffElapsesKeeps,
      TickBeginKeeps, RetryKeeps, TickEndKeeps, FailKeeps DEF Next, Report, Tick
<1>3. QED
  BY <1>1, <1>2

\* The invariant of the module.
THEOREM WebhookInvariance == Spec => []IInv
<1>1. Init => IInv
  BY DEF Init, IInv, TypeOK, Row, Statuses, Absent, GivenUpAfterAllAttempts,
     DeadIsInTheLog, ReportedChangeCommits, OpenTransactions, CountsAreSound
<1>2. QED
  BY <1>1, StepKeeps, PTL DEF Spec

\* A delivery is given up only after MAX_ATTEMPTS POSTs, and then the log says
\* so, whatever ticks overlap and roll back.
THEOREM GivenUpAndLogged == Spec => [](GivenUpAfterAllAttempts /\ DeadIsInTheLog)
<1>1. IInv => GivenUpAfterAllAttempts /\ DeadIsInTheLog
  BY DEF IInv
<1>2. QED
  BY <1>1, WebhookInvariance, PTL

\* No request that reports a change of state to its subscribers is rolled back
\* because a subscription went away: the audit event of the change holds the
\* lock that the deletion waits for.  The thresholds job reports without it.
THEOREM StateChangesCommit == Spec => []ReportedChangeCommits
<1>1. IInv => ReportedChangeCommits
  BY DEF IInv
<1>2. QED
  BY <1>1, WebhookInvariance, PTL

\* A delivery that succeeded or was given up never becomes failed again,
\* whichever of the overlapping ticks commits last.
THEOREM SettledForGood == Spec => SettledStaysSettled
<1> DEFINE Keeps == \A d \in Deliveries :
      rows[d].status \in {"success", "dead"} => rows'[d].status # "failed"
<1>1. ASSUME IInv, [Next]_vars PROVE Keeps
  <2> USE <1>1 DEF IInv
  <2>1. CASE rows' = rows
    BY <2>1
  <2>2. ASSUME NEW w \in Workers, NEW s \in Subs, DeleteSubscription(w, s)
        PROVE  Keeps
    <3>1. \A d \in Deliveries :
            \/ rows'[d] = rows[d]
            \/ rows'[d] = [rows[d] EXCEPT !.status = "gone"]
      BY <2>2 DEF DeleteSubscription
    <3>2. \A d \in Deliveries : rows[d] \in Row
      BY DEF TypeOK
    <3>3. QED
      BY <3>1, <3>2 DEF Row
  <2>3. ASSUME NEW w \in Workers, ReportEnd(w) PROVE Keeps
    BY <2>3 DEF ReportEnd, OpenTransactions
  <2>4. ASSUME NEW d \in Deliveries, BackoffElapses(d) PROVE Keeps
    <3>1. rows \in [Deliveries -> Row]
      BY DEF TypeOK
    <3>2. rows' = [rows EXCEPT ![d] = [rows[d] EXCEPT !.retry = "due"]]
      BY <2>4 DEF BackoffElapses
    <3>3. QED
      BY <3>1, <3>2 DEF Row
  <2>5. ASSUME NEW w \in Workers, TickEnd(w) PROVE Keeps
    <3>1. ASSUME NEW d \in done[w]
          PROVE  Written(w, d).status = "failed" => rows[d].status = "failed"
      <4>1. mine[w][d] \in Row /\ base[w][d].status = "failed"
        BY <2>5 DEF TickEnd, TypeOK, OpenTransactions
      <4>2. Written(w, d) = [mine[w][d] EXCEPT !.status =
                IF mine[w][d].status = "failed" THEN rows[d].status
                                                ELSE mine[w][d].status]
        BY <4>1 DEF Written
      <4>3. QED
        BY <4>1, <4>2 DEF Row
    <3>2. \A d \in Deliveries :
            rows'[d] = rows[d] \/ (d \in done[w] /\ rows'[d] = Written(w, d))
      BY <2>5 DEF TickEnd
    <3>3. QED
      BY <3>1, <3>2
  <2>6. ASSUME NEW w \in Workers, Report(w) PROVE Keeps
    BY <2>1, <2>3, <2>6 DEF Report, tableVars, ReportBegin, NoticeBegin, Deliver, DeliverRaises
  <2>7. ASSUME NEW w \in Workers, Tick(w) \/ Fail(w) PROVE Keeps
    BY <2>1, <2>5, <2>7 DEF Tick, tableVars, TickBegin, Retry, Fail
  <2>8. ASSUME NEW s \in Subs, CreateSubscription(s) PROVE Keeps
    BY <2>1, <2>8 DEF CreateSubscription
  <2>9. CASE UNCHANGED vars
    BY <2>1, <2>9 DEF vars, tableVars
  <2>10. QED
    BY <1>1, <2>2, <2>4, <2>6, <2>7, <2>8, <2>9 DEF Next
<1>2. QED
  BY <1>1, WebhookInvariance, PTL DEF Spec, SettledStaysSettled

=============================================================================
