---------------------------- MODULE RuleVersions ----------------------------
(***************************************************************************)
(* Rule packs, their versions and the rules drafted from policy manuals    *)
(* (services/rule_service.py, services/manual_service.py), and detection,  *)
(* which applies a published version and records which one.                *)
(*                                                                         *)
(* A request reads without locks, and at its first audit event waits for   *)
(* the organization's advisory lock; what it read may be stale by then.    *)
(* From there to the commit it is alone, except for readers: Begin is what *)
(* is read, Commit all that is written.  MayOverlap says which requests    *)
(* are open at the same time, so that an instance can tell the overlaps    *)
(* that are harmless from those that are not.                              *)
(*                                                                         *)
(* The rules of a version are a function of rule keys: rules that share a  *)
(* key are not told apart.                                                 *)
(*                                                                         *)
(* NextNumberTwice, EditsInPlace, AnyDraft, LeavesPending and LatestOfAny  *)
(* are plausible bugs in the definitions that follow them.                 *)
(***************************************************************************)
EXTENDS Naturals, FiniteSetsExt

CONSTANTS Workers,     \* requests that may be open at once
          Packs,       \* rule packs
          Starter,     \* a global starter pack (org_id IS NULL)
          Keys,        \* rule keys
          Values,      \* what a rule says
          Drafts,      \* draft rules extracted from manuals
          Docs,        \* documents
          MaxVersion,  \* bound on the version numbers
          MaxFaults,   \* bound on rollbacks
          MayOverlap   \* pairs of kinds of requests

None == "none"

Edits == {"add", "patch", "delete"}
Settles == {"accept", "reject"}
Ops == Edits \cup Settles \cup {"publish", "draft", "pack", "extract", "process"}

ASSUME ConstantsAssumption ==
  /\ Starter \in Packs
  /\ None \notin Values
  /\ MaxVersion \in Nat \ {0} /\ MaxFaults \in Nat
  /\ MayOverlap \subseteq Ops \X Ops

VARIABLES
  status,     \* rule_set_versions: per pack and number
  rules,      \* per pack and number: key -> value
  draft,      \* draft_rules.status
  sourced,    \* per draft rule: rules inserted with its source_ref
  applied,    \* per document: rule_set_version_ids and the rules that ran
  tx,         \* per worker: its open request
  faults

vars == <<status, rules, draft, sourced, applied, tx, faults>>

Numbers == 1..MaxVersion
Content == [Keys -> Values \cup {None}]
Empty == [k \in Keys |-> None]
Statuses == {None, "draft", "published", "archived"}

Unprocessed == [pack |-> Starter, number |-> 0, rules |-> Empty]

Idle == [op |-> "idle", pack |-> Starter, number |-> 0, was |-> None,
         next |-> 0, copy |-> Empty, prev |-> {}, key |-> None, val |-> None,
         draft |-> None]

-----------------------------------------------------------------------------
(* Reading                                                                  *)

Versions(p) == {n \in Numbers : status[p][n] # None}

\* Bug: the caller adds one as well.
NextNumberTwice(p) == IF Versions(p) = {} THEN 1 ELSE Max(Versions(p)) + 2

\* _next_version_number: max(version) + 1.
NextNumber(p) == IF Versions(p) = {} THEN 1 ELSE Max(Versions(p)) + 1

Published(p) == {n \in Numbers : status[p][n] = "published"}

\* A request of this kind comes in.
Free(w, op) ==
  /\ tx[w].op = "idle"
  /\ \A u \in Workers \ {w} :
       tx[u].op = "idle" \/ {<<tx[u].op, op>>, <<op, tx[u].op>>} \subseteq MayOverlap

Begin(w, request) ==
  /\ tx' = [tx EXCEPT ![w] = request]
  /\ UNCHANGED <<status, rules, draft, sourced, applied, faults>>

-----------------------------------------------------------------------------
(* Editing rules: add_rule, patch_rule, delete_rule, accept_draft_rule      *)

\* What an edit has read: the version's status and, when it will fork a draft,
\* the next number and the rules to clone.
Target(p, n, op) ==
  [Idle EXCEPT !.op = op, !.pack = p, !.number = n, !.was = status[p][n],
               !.next = NextNumber(p), !.copy = rules[p][n]]

\* A global pack is never edited; add is offered for new keys, patch and delete
\* for a rule that is there.
EditBegin(w, p, n, op, k, v) ==
  /\ Free(w, op) /\ p # Starter /\ n \in Versions(p)
  /\ status[p][n] # "draft" => NextNumber(p) <= MaxVersion
  /\ op = "add" <=> rules[p][n][k] = None
  /\ op = "delete" <=> v = None
  /\ Begin(w, [Target(p, n, op) EXCEPT !.key = k, !.val = v])

\* Bug: the status is not looked at.
AnyDraft(d) == draft[d] # None

\* accept_draft_rule and reject_draft_rule refuse a "Draft rule already ...".
Undecided(d) == draft[d] = "pending"

\* accept_draft_rule adds a rule to the version the payload names.
AcceptBegin(w, p, n, d, k, v) ==
  /\ Free(w, "accept") /\ p # Starter /\ n \in Versions(p)
  /\ Undecided(d) /\ v # None /\ rules[p][n][k] = None
  /\ status[p][n] # "draft" => NextNumber(p) <= MaxVersion
  /\ Begin(w, [Target(p, n, "accept") EXCEPT !.key = k, !.val = v, !.draft = d])

EditsInPlace(w) == TRUE

\* _ensure_draft_version: a version loaded as a draft is edited itself.
InPlace(w) == tx[w].was = "draft"

\* UNIQUE (rule_pack_id, version): the second INSERT of a number fails.
Taken(p, n) == status[p][n] # None

\* Writing the edit itself, and for an accepted draft its status.
Edited(w) ==
  LET t == tx[w]
      n == IF InPlace(w) THEN t.number ELSE t.next
      source == IF InPlace(w) THEN rules[t.pack][n] ELSE t.copy
  IN  /\ rules' = [rules EXCEPT ![t.pack][n] = [source EXCEPT ![t.key] = t.val]]
      /\ status' = IF InPlace(w) THEN status
                                 ELSE [status EXCEPT ![t.pack][n] = "draft"]

LeavesPending(d) == [draft EXCEPT ![d] = "pending"]

Accepted(d) == [draft EXCEPT ![d] = "accepted"]

\* An edit of a rule that is gone fails (StaleDataError), as does a number that
\* is taken: then everything rolls back.
Refused(w) ==
  LET t == tx[w]
  IN  \/ ~InPlace(w) /\ Taken(t.pack, t.next)
      \/ InPlace(w) /\ t.op = "patch" /\ rules[t.pack][t.number][t.key] = None

EditCommit(w) ==
  /\ tx[w].op \in Edits \cup {"accept"}
  /\ \/ /\ ~Refused(w) /\ Edited(w)
        /\ IF tx[w].op = "accept"
             THEN /\ draft' = Accepted(tx[w].draft)
                  /\ sourced' = [sourced EXCEPT ![tx[w].draft] = @ + 1]
             ELSE UNCHANGED <<draft, sourced>>
     \/ Refused(w) /\ UNCHANGED <<rules, status, draft, sourced>>
  /\ tx' = [tx EXCEPT ![w] = Idle]
  /\ UNCHANGED <<applied, faults>>

-----------------------------------------------------------------------------
(* Versions and packs                                                       *)

\* create_draft_version: only when the latest version is not a draft.
DraftBegin(w, p) ==
  /\ Free(w, "draft") /\ p # Starter /\ Versions(p) # {}
  /\ status[p][Max(Versions(p))] # "draft"
  /\ NextNumber(p) <= MaxVersion
  /\ Begin(w, Target(p, Max(Versions(p)), "draft"))

\* create_rule_pack clones the latest version of any pack, whatever its status,
\* or none.
PackBegin(w, p, from) ==
  /\ Free(w, "pack") /\ Versions(p) = {}
  /\ \A u \in Workers : ~(tx[u].op = "pack" /\ tx[u].pack = p)
  /\ from # p /\ Versions(from) # {}
  /\ \E copy \in {rules[from][Max(Versions(from))], Empty} :
       Begin(w, [Idle EXCEPT !.op = "pack", !.pack = p, !.next = 1, !.copy = copy])

NewVersionCommit(w) ==
  /\ tx[w].op \in {"draft", "pack"}
  /\ IF Taken(tx[w].pack, tx[w].next)
       THEN UNCHANGED <<status, rules>>
       ELSE /\ status' = [status EXCEPT ![tx[w].pack][tx[w].next] = "draft"]
            /\ rules' = [rules EXCEPT ![tx[w].pack][tx[w].next] = tx[w].copy]
  /\ tx' = [tx EXCEPT ![w] = Idle]
  /\ UNCHANGED <<draft, sourced, applied, faults>>

\* publish_version loads the draft and the published versions of its pack.
PublishBegin(w, p, n) ==
  /\ Free(w, "publish") /\ p # Starter /\ status[p][n] = "draft"
  /\ Begin(w, [Idle EXCEPT !.op = "publish", !.pack = p, !.number = n,
                           !.was = "draft", !.prev = Published(p)])

\* The versions it archives.
Superseded(w) == tx[w].prev

PublishCommit(w) ==
  /\ tx[w].op = "publish"
  /\ status' = [status EXCEPT ![tx[w].pack] =
                  [n \in Numbers |->
                     CASE n = tx[w].number -> "published"
                       [] n \in Superseded(w) \ {tx[w].number} -> "archived"
                       [] OTHER -> @[n]]]
  /\ tx' = [tx EXCEPT ![w] = Idle]
  /\ UNCHANGED <<rules, draft, sourced, applied, faults>>

-----------------------------------------------------------------------------
(* Manuals                                                                  *)

\* upload_manual and run_extraction are one transaction; when the extraction
\* fails, the draft rules of the pages before it stay all the same.  Whatever
\* the model proposes becomes a draft, grounded in the page (and valid) or not.
Extractable == {d \in Drafts : draft[d] = None}

ExtractBegin(w) ==
  /\ Free(w, "extract") /\ Extractable # {}
  /\ Begin(w, [Idle EXCEPT !.op = "extract"])

ExtractCommit(w) ==
  /\ tx[w].op = "extract"
  /\ \E found \in SUBSET Extractable :
       draft' = [d \in Drafts |-> IF d \in found THEN "pending" ELSE draft[d]]
  /\ tx' = [tx EXCEPT ![w] = Idle]
  /\ UNCHANGED <<status, rules, sourced, applied, faults>>

RejectBegin(w, d) ==
  /\ Free(w, "reject") /\ Undecided(d)
  /\ Begin(w, [Idle EXCEPT !.op = "reject", !.draft = d])

RejectCommit(w) ==
  /\ tx[w].op = "reject"
  /\ draft' = [draft EXCEPT ![tx[w].draft] = "rejected"]
  /\ tx' = [tx EXCEPT ![w] = Idle]
  /\ UNCHANGED <<status, rules, sourced, applied, faults>>

-----------------------------------------------------------------------------
(* Detection                                                                *)

LatestOfAny(p) == Versions(p)

\* get_active_rules: the latest published version of the pack ...
Candidates(p) == Published(p)

ProcessBegin(w, p) ==
  /\ Free(w, "process") /\ Candidates(p) # {}
  /\ Begin(w, [Idle EXCEPT !.op = "process", !.pack = p,
                           !.number = Max(Candidates(p))])

\* ... then, in another SELECT, its rules; the document keeps the version.
ProcessCommit(w, doc) ==
  /\ tx[w].op = "process"
  /\ applied' = [applied EXCEPT ![doc] =
                   [pack |-> tx[w].pack, number |-> tx[w].number,
                    rules |-> rules[tx[w].pack][tx[w].number]]]
  /\ tx' = [tx EXCEPT ![w] = Idle]
  /\ UNCHANGED <<status, rules, draft, sourced, faults>>

\* Any request may fail before it commits.
Fail(w) ==
  /\ tx[w].op # "idle" /\ faults < MaxFaults
  /\ faults' = faults + 1
  /\ tx' = [tx EXCEPT ![w] = Idle]
  /\ UNCHANGED <<status, rules, draft, sourced, applied>>

-----------------------------------------------------------------------------
\* The starter packs are seeded published, by a migration.
Init ==
  /\ status = [p \in Packs |->
                 [n \in Numbers |-> IF p = Starter /\ n = 1 THEN "published" ELSE None]]
  /\ \E seed \in Content \ {Empty} :
       rules = [p \in Packs |->
                  [n \in Numbers |-> IF p = Starter /\ n = 1 THEN seed ELSE Empty]]
  /\ draft = [d \in Drafts |-> None]
  /\ sourced = [d \in Drafts |-> 0]
  /\ applied = [doc \in Docs |-> Unprocessed]
  /\ tx = [w \in Workers |-> Idle]
  /\ faults = 0

Edit(w) ==
  \/ \E p \in Packs, n \in Numbers, k \in Keys, v \in Values \cup {None} :
       \/ \E op \in Edits : EditBegin(w, p, n, op, k, v)
       \/ \E d \in Drafts : AcceptBegin(w, p, n, d, k, v)
  \/ EditCommit(w)

Version(w) ==
  \/ \E p \in Packs : DraftBegin(w, p) \/ \E from \in Packs : PackBegin(w, p, from)
  \/ NewVersionCommit(w)
  \/ \E p \in Packs, n \in Numbers : PublishBegin(w, p, n)
  \/ PublishCommit(w)

Manual(w) ==
  \/ ExtractBegin(w) \/ ExtractCommit(w)
  \/ \E d \in Drafts : RejectBegin(w, d)
  \/ RejectCommit(w)

Process(w) ==
  \/ \E p \in Packs : ProcessBegin(w, p)
  \/ \E doc \in Docs : ProcessCommit(w, doc)

Next == \E w \in Workers :
  Edit(w) \/ Version(w) \/ Manual(w) \/ Process(w) \/ Fail(w)

Spec == Init /\ [][Next]_vars

-----------------------------------------------------------------------------
(* Properties                                                               *)

Request ==
  [op : Ops \cup {"idle"}, pack : Packs, number : 0..MaxVersion, was : Statuses,
   next : Nat, copy : Content, prev : SUBSET Numbers, key : Keys \cup {None},
   val : Values \cup {None}, draft : Drafts \cup {None}]

\* The types; and the version numbers of a pack are 1..n, however many forks
\* raced for the next: the number a loser read is not skipped.
TypeOK ==
  /\ status \in [Packs -> [Numbers -> Statuses]]
  /\ rules \in [Packs -> [Numbers -> Content]]
  /\ draft \in [Drafts -> {None, "pending", "accepted", "rejected"}]
  /\ sourced \in [Drafts -> Nat]
  /\ applied \in [Docs -> [pack : Packs, number : 0..MaxVersion, rules : Content]]
  /\ tx \in [Workers -> Request]
  /\ faults \in Nat
  /\ \A p \in Packs : \E n \in 0..MaxVersion : Versions(p) = 1..n

\* "at most one published version per pack at a time" (publish_version).
AtMostOnePublished == \A p \in Packs : \A m, n \in Published(p) : m = n

\* "locked at processing": the rules that ran over a document are the rules of
\* the version recorded with it, then and for good.
ProvenanceHolds ==
  \A doc \in Docs :
    applied[doc].number # 0 =>
      applied[doc].rules = rules[applied[doc].pack][applied[doc].number]

\* A rule drafted from a manual enters the rule sets when and only when it is
\* accepted, and once.
AcceptedOnce ==
  \A d \in Drafts : sourced[d] = IF draft[d] = "accepted" THEN 1 ELSE 0

Released(p, n) == n \in Numbers /\ status[p][n] \in {"published", "archived"}

\* "draft -> published (immutable) -> archived".
PublishedImmutable ==
  [][\A p \in Packs, n \in Numbers :
       Released(p, n) =>
         /\ rules'[p][n] = rules[p][n]
         /\ status'[p][n] \in {status[p][n], "archived"}]_vars

-----------------------------------------------------------------------------
(* Properties of every overlap                                              *)
(*                                                                          *)
(* A version is not immutable from its publication on, and a draft rule not *)
(* decided from its decision on: requests that loaded them before still     *)
(* commit.  They are from the moment the last such request has ended.       *)

\* Released, and nobody has it open who loaded it as a draft.
Settled(p, n) ==
  /\ Released(p, n)
  /\ \A w \in Workers :
       ~ /\ tx[w].op \in Edits \cup {"accept", "publish"} /\ tx[w].was = "draft"
         /\ tx[w].pack = p /\ tx[w].number = n

\* A settled version keeps its rules for good: it may only be archived.
VersionsSettle ==
  [][\A p \in Packs, n \in Numbers :
       Settled(p, n) =>
         /\ rules'[p][n] = rules[p][n] /\ status'[p][n] \in {status[p][n], "archived"}
         /\ Settled(p, n)']_vars

\* Accepted or rejected, and nobody is about to decide it who saw it pending.
Decided(d) ==
  /\ draft[d] \in {"accepted", "rejected"}
  /\ \A w \in Workers : ~(tx[w].op \in Settles /\ tx[w].draft = d)

\* A decided draft rule stays so for good, and enters no rule set again.
DraftsSettle ==
  [][\A d \in Drafts :
       Decided(d) => draft'[d] = draft[d] /\ sourced'[d] = sourced[d] /\ Decided(d)']_vars

\* An accepted draft rule has entered a rule set, and none enters before it is
\* decided, whoever else edits, publishes or decides.
AcceptedEnter ==
  \A d \in Drafts :
    /\ draft[d] = "accepted" => sourced[d] > 0
    /\ draft[d] \in {None, "pending"} => sourced[d] = 0

\* What ran over a document was released and never becomes a draft again.
AppliedReleased ==
  \A doc \in Docs :
    applied[doc].number # 0 => Released(applied[doc].pack, applied[doc].number)

-----------------------------------------------------------------------------
(* The inductive invariant                                                  *)

\* What remains true of what a request read, whatever overlaps: the versions it
\* edits, publishes, archives or applies exist, the number it will take is the
\* first free one or lost to another request, the draft rule it decides exists.
ReadsHold(t) ==
  /\ t.op \in Edits \cup {"accept"} /\ t.was = "draft" =>
       t.number \in Numbers /\ status[t.pack][t.number] # None
  /\ (t.op \in Edits \cup {"accept"} /\ t.was # "draft") \/ t.op \in {"draft", "pack"} =>
       /\ t.next \in Numbers
       /\ \A m \in Numbers : m < t.next => status[t.pack][m] # None
  /\ t.op = "publish" =>
       /\ t.number \in Numbers /\ status[t.pack][t.number] # None /\ t.was = "draft"
       /\ \A m \in t.prev : Released(t.pack, m)
  /\ t.op = "process" => Released(t.pack, t.number)
  /\ t.op \in Settles => t.draft \in Drafts /\ draft[t.draft] # None

IInv ==
  /\ TypeOK /\ AcceptedEnter /\ AppliedReleased
  /\ \A w \in Workers : ReadsHold(tx[w])

=============================================================================
