----------------------------- MODULE AuditChain -----------------------------
(***************************************************************************)
(* The hash chain of audit events (services/audit_service.py), written by  *)
(* concurrent transactions of several API processes.                       *)
(*                                                                         *)
(* write_audit_event takes the organization's advisory lock, reads the     *)
(* hash of the event with the greatest id, draws the id of the new event   *)
(* and inserts it.  The lock is the transaction's: it is kept until the    *)
(* commit or the rollback.  Ids are ULIDs: the host's clock in             *)
(* milliseconds, then random bits, increasing within one process; nothing  *)
(* orders the ids of two processes whose clocks differ or that draw in the *)
(* same millisecond.                                                       *)
(*                                                                         *)
(* A row's hash is represented by its id: SHA-256 is taken to be           *)
(* collision-free, and the table is append-only (migration 0002 revokes    *)
(* UPDATE and DELETE), so recomputing a stored hash always agrees.         *)
(*                                                                         *)
(* HoldsEarlyRelease and NewIdsRandom are plausible bugs in the            *)
(* definitions that follow them; nothing else uses them.                   *)
(***************************************************************************)
EXTENDS Integers

CONSTANTS
    Orgs,       \* organizations
    LockKey,    \* hashtext(org_id): two organizations may collide
    Writers,    \* concurrent transactions
    Hosts,      \* API processes
    MaxMs,      \* bound on the clocks, in milliseconds
    IdsPerMs    \* ids a millisecond has room for (a bound)

VARIABLES
    clock,      \* the clock of each host
    lastId,     \* the last id each host has drawn
    events,     \* committed audit_events rows
    tx          \* the transaction of each writer

vars == <<clock, lastId, events, tx>>

ASSUME ConstantsAssumption ==
    /\ LockKey \in [Orgs -> Nat]
    /\ MaxMs \in Nat \ {0}
    /\ IdsPerMs \in Nat \ {0}

\* prev_hash is NULL in the first row of an organization: 0.
Event == [org : Orgs, id : Nat \ {0}, prev : Nat, host : Hosts]
Holding == {"locked", "read", "written"}

Idle == [stage |-> "idle", head |-> 0, own |-> {}]
Transaction ==
    {Idle} \cup [stage : {"open"} \cup Holding, org : Orgs, host : Hosts,
                 head : Nat, own : SUBSET Event]

-----------------------------------------------------------------------------
(* What a writer sees and draws *)

HoldsEarlyRelease(w) == tx[w].stage \in {"locked", "read"}

\* pg_advisory_xact_lock is released by the end of the transaction only.
Holds(w) == tx[w].stage \in Holding

LockFree(w) ==
    \A v \in Writers \ {w} :
        Holds(v) => LockKey[tx[v].org] # LockKey[tx[w].org]

Rows(org) == {r \in events : r.org = org}

\* READ COMMITTED: what is committed when the SELECT runs, and its own rows.
Visible(w) == Rows(tx[w].org) \cup tx[w].own

Ids(S) == {r.id : r \in S}

\* ORDER BY id DESC LIMIT 1.
IsHead(p, S) ==
    IF S = {} THEN p = 0 ELSE p \in Ids(S) /\ \A r \in S : r.id <= p

Drawn == Ids(events \cup UNION {tx[w].own : w \in Writers})

\* The ids of the millisecond that the host's clock shows.
ThisMs(h) == ((clock[h] - 1) * IdsPerMs + 1)..(clock[h] * IdsPerMs)

NewIdsRandom(h) == {n \in ThisMs(h) : n \notin Drawn}

\* new_id("aud"): ULID() counts up within a millisecond of one process.
NewIds(h) == {n \in ThisMs(h) : n > lastId[h] /\ n \notin Drawn}

-----------------------------------------------------------------------------

Init ==
    /\ clock = [h \in Hosts |-> 1]
    /\ lastId = [h \in Hosts |-> 0]
    /\ events = {}
    /\ tx = [w \in Writers |-> Idle]

\* Clocks advance on their own; no two are assumed to agree.
Tick(h) ==
    /\ clock[h] < MaxMs
    /\ clock' = [clock EXCEPT ![h] = @ + 1]
    /\ UNCHANGED <<lastId, events, tx>>

\* org_session(org_id) in one process.
Begin(w, org, h) ==
    /\ tx[w].stage = "idle"
    /\ tx' = [tx EXCEPT ![w] = [stage |-> "open", org |-> org, host |-> h,
                                head |-> 0, own |-> {}]]
    /\ UNCHANGED <<clock, lastId, events>>

\* The first event of a transaction waits for the lock, later ones have it.
Lock(w) ==
    /\ tx[w].stage \in {"open", "written"}
    /\ LockFree(w)
    /\ tx' = [tx EXCEPT ![w].stage = "locked"]
    /\ UNCHANGED <<clock, lastId, events>>

ReadHead(w) ==
    /\ tx[w].stage = "locked"
    /\ \E p \in {0} \cup Ids(Visible(w)) :
          /\ IsHead(p, Visible(w))
          /\ tx' = [tx EXCEPT ![w].stage = "read", ![w].head = p]
    /\ UNCHANGED <<clock, lastId, events>>

Insert(w) ==
    /\ tx[w].stage = "read"
    /\ \E n \in NewIds(tx[w].host) :
          /\ lastId' = [lastId EXCEPT ![tx[w].host] = n]
          /\ tx' = [tx EXCEPT ![w].stage = "written",
                              ![w].own = @ \cup {[org |-> tx[w].org, id |-> n,
                                                  prev |-> tx[w].head,
                                                  host |-> tx[w].host]}]
    /\ UNCHANGED <<clock, events>>

Commit(w) ==
    /\ tx[w].stage = "written"
    /\ events' = events \cup tx[w].own
    /\ tx' = [tx EXCEPT ![w] = Idle]
    /\ UNCHANGED <<clock, lastId>>

\* Any exception, or the death of the process.
Rollback(w) ==
    /\ tx[w].stage # "idle"
    /\ tx' = [tx EXCEPT ![w] = Idle]
    /\ UNCHANGED <<clock, lastId, events>>

Next ==
    \/ \E h \in Hosts : Tick(h)
    \/ \E w \in Writers :
          \/ \E org \in Orgs, h \in Hosts : Begin(w, org, h)
          \/ Lock(w) \/ ReadHead(w) \/ Insert(w) \/ Commit(w) \/ Rollback(w)

Spec == Init /\ [][Next]_vars

-----------------------------------------------------------------------------
(* Verification *)

Below(r, S) == {s \in S : s.id < r.id}

\* verify_chain walks the rows by id and expects each prev_hash to be the hash
\* of the row before.
Verifies(S) == \A r \in S : IsHead(r.prev, Below(r, S))

\* Each event got a greater id than the one it was chained to.
InOrder(S) == \A r \in S : r.prev < r.id

-----------------------------------------------------------------------------
(* Properties *)

\* verify_chain accepts an organization's chain if and only if its ids were
\* drawn in the order of the writes: neither concurrency nor rollbacks nor other
\* organizations can break a chain, only the id source can
\* (write_audit_event's lock; verify_chain).
VerifiesIffInOrder == \A org \in Orgs : Verifies(Rows(org)) <=> InOrder(Rows(org))

\* As long as one process writes an organization's events, its chain verifies,
\* although every other process draws ids too and transactions overlap and roll
\* back (core/ids.py, write_audit_event).
OneHost(S) == \A r, s \in S : r.host = s.host
SingleHostVerifies == \A org \in Orgs : OneHost(Rows(org)) => Verifies(Rows(org))

\* An event never names a predecessor that was rolled back or belongs to
\* another organization, also when ids are out of order.
Closed(S) == \A r \in S : r.prev # 0 => r.prev \in Ids(S)
PredecessorsKept == \A org \in Orgs : Closed(Rows(org))

\* Two events never have the same predecessor.
ChainNeverForks ==
    \A org \in Orgs : \A r, s \in Rows(org) : r.prev = s.prev => r = s

TypeOK ==
    /\ clock \in [Hosts -> Nat \ {0}]
    /\ lastId \in [Hosts -> Nat]
    /\ events \subseteq Event
    /\ tx \in [Writers -> Transaction]

\* One transaction at a time extends an organization's chain, and all its rows
\* are that organization's and that process's.
LockInv ==
    \A w \in Writers :
        /\ tx[w].own # {} => Holds(w)
        /\ \A r \in tx[w].own : r.org = tx[w].org /\ r.host = tx[w].host
        /\ tx[w].stage = "read" => IsHead(tx[w].head, Visible(w))
        /\ \A v \in Writers \ {w} :
              Holds(v) /\ Holds(w) => tx[v].org # tx[w].org

\* What a chain satisfies from its first row on, committed or not.
ChainInv(S) ==
    /\ Closed(S)
    /\ InOrder(S) => Verifies(S)
    /\ OneHost(S) => InOrder(S)
    /\ \A r \in S : r.id <= lastId[r.host]

IInv ==
    /\ TypeOK
    /\ LockInv
    /\ \A org \in Orgs : ChainInv(Rows(org))
    /\ \A w \in Writers : Holds(w) => ChainInv(Visible(w))
=============================================================================
