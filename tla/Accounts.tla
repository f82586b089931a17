------------------------------ MODULE Accounts ------------------------------
(***************************************************************************)
(* Organizations, their members, invites and support grants                *)
(* (services/org_service.py, invite_service.py, membership_service.py,     *)
(* support_grant_service.py, platform_service.py), and the sessions they   *)
(* are read and written in (auth/deps.py, db/session.py) under the row     *)
(* level security of the migrations.                                       *)
(*                                                                         *)
(* A request opens one database session after the other, each on some      *)
(* connection of the pool.  A session declares who it is in settings of    *)
(* its connection, and the policies decide from these which rows it sees.  *)
(* Between two sessions of a request anything may happen.                  *)
(*                                                                         *)
(* StaysSet, AnyInvite and LoadedStatus are plausible bugs in the          *)
(* definitions that follow them.                                           *)
(***************************************************************************)
EXTENDS Naturals, FiniteSets

CONSTANTS Workers,      \* requests that may be open at once
          Actor,        \* the user that each worker speaks for
          Users,        \* user ids
          Orgs,         \* organization ids, those not created yet included
          Invites,      \* invite ids, likewise
          Grants,       \* support grant ids, likewise
          Conns,        \* connections of the pool
          Unset,        \* a setting that is not set; no organization, user ...
          MaxAttempts,  \* MAX_SLUG_ATTEMPTS
          Roles,        \* roles an invite or an admin may give
          Statuses      \* statuses an admin may give

ASSUME ConstantsAssumption ==
  /\ Actor \in [Workers -> Users]
  /\ Unset \notin Users \cup Orgs \cup Invites \cup Grants
  /\ MaxAttempts \in Nat \ {0}
  /\ Roles \subseteq {"agency_admin", "reviewer"}
  /\ Statuses \subseteq {"active", "deactivated"}
  /\ Conns # {}

VARIABLES
  slug,     \* organizations: 0, or which candidate slug the row has
  role,     \* memberships: role, per organization and user
  status,   \* memberships: status, "none" where there is no row
  invite,   \* invites
  grant,    \* support_grants: organization and status
  conn,     \* per connection: the settings left on it
  step,     \* per worker: where its request is
  org,      \* per worker: the organization it acts in
  arg,      \* per worker: invite or grant it is about
  attempt,  \* per worker: candidate slug it tries next
  loaded,   \* per worker: the grant status it has loaded
  exposed   \* per worker: organizations of which its sessions could read rows
            \* that they did not name

tables == <<slug, role, status, invite, grant>>
requests == <<step, org, arg, attempt, loaded>>
vars == <<tables, conn, requests, exposed>>

AllRoles == {"agency_admin", "reviewer"}

Settings == [org : Orgs \cup {Unset}, user : Users \cup {Unset},
             token : Invites \cup {Unset}, certificate : Orgs \cup {Unset},
             system : BOOLEAN]

Clean == [org |-> Unset, user |-> Unset, token |-> Unset, certificate |-> Unset,
          system |-> FALSE]

-----------------------------------------------------------------------------
(* Row level security                                                       *)

\* Policies are permissive: each adds rows.  What a session s can read:
VisibleOrgs(s) == {o \in Orgs : slug[o] # 0 /\ (o = s.org \/ s.system)}

VisibleMemberships(s) ==
  {m \in Orgs \X Users :
     status[m[1]][m[2]] # "none" /\ (m[1] = s.org \/ m[2] = s.user)}

VisibleInvites(s) ==
  {i \in Invites : invite[i].org # Unset /\ (invite[i].org = s.org \/ i = s.token)}

\* Artifacts of exports; one of each organization stands for them, under its name.
VisibleArtifacts(s) ==
  {o \in Orgs : slug[o] # 0 /\ (o = s.org \/ o = s.certificate)}

\* Every other table with an org_id: documents, candidates, audit events, ...
\* Rule packs may have none (Unset): those are global, every session reads them.
VisibleContent(s) == {o \in Orgs : slug[o] # 0 /\ o = s.org} \cup {Unset}

\* The organizations of which it sees a row that is not the directory's, and not
\* the one row that the request names: the invite whose token it presents, the
\* artifact whose id it asks for.
Readable(s, named) ==
  VisibleContent(s) \cup {m[1] : m \in VisibleMemberships(s)}
                    \cup {invite[i].org : i \in VisibleInvites(s) \ named}
                    \cup (VisibleArtifacts(s) \ named)

\* Bug: set_config(..., is_local = false).
StaysSet(c, s) == [conn EXCEPT ![c] = s]

\* set_config(..., is_local = true): gone when the transaction ends.
AfterSession(c, s) == conn

\* A session s of worker w on connection c, begun and ended in one step, which
\* is about the rows it names.
SessionNaming(w, c, s, named) ==
  /\ conn' = AfterSession(c, s)
  /\ exposed' = [exposed EXCEPT ![w] = @ \cup Readable(s, named)]

Session(w, c, s) == SessionNaming(w, c, s, {})

OrgSession(c, o) == [conn[c] EXCEPT !.org = o]

UserSession(c, u) == [conn[c] EXCEPT !.user = u]

TokenSession(c, i) == [conn[c] EXCEPT !.token = i]

CertificateSession(c, o) == [conn[c] EXCEPT !.certificate = o]

SystemSession(c) == [conn[c] EXCEPT !.system = TRUE]

Done(w) ==
  /\ step' = [step EXCEPT ![w] = "idle"]
  /\ org' = [org EXCEPT ![w] = Unset]
  /\ arg' = [arg EXCEPT ![w] = Unset]
  /\ attempt' = [attempt EXCEPT ![w] = 1]
  /\ loaded' = [loaded EXCEPT ![w] = "none"]

-----------------------------------------------------------------------------
(* "One active org per user"                                                *)

\* SELECT ... WHERE user_id = ... AND status != 'deactivated', in user_session.
OwnMemberships(w, c) ==
  {m \in VisibleMemberships(UserSession(c, Actor[w])) :
     m[2] = Actor[w] /\ status[m[1]][m[2]] # "deactivated"}

\* create_org and accept_invite: a user with a membership is refused.
CheckFree(w, c, from, to) ==
  /\ step[w] = from
  /\ Session(w, c, UserSession(c, Actor[w]))
  /\ IF OwnMemberships(w, c) = {}
       THEN step' = [step EXCEPT ![w] = to] /\ UNCHANGED <<org, arg, attempt, loaded>>
       ELSE Done(w)
  /\ UNCHANGED tables

-----------------------------------------------------------------------------
(* Creating organizations                                                   *)

CreateBegin(w) ==
  /\ step[w] = "idle" /\ \E o \in Orgs : slug[o] = 0
  /\ step' = [step EXCEPT ![w] = "create"]
  /\ UNCHANGED <<tables, conn, org, arg, attempt, loaded, exposed>>

\* organizations.slug is unique: the INSERT of a candidate that is taken fails.
SlugTaken(w) == \E o \in Orgs : slug[o] = attempt[w]

\* The loop over the candidates ends.
GivesUp(w) == attempt[w] = MaxAttempts

\* One attempt, with a new organization id and a transaction of its own.
CreateAttempt(w, c, o) ==
  /\ step[w] = "creating" /\ slug[o] = 0
  /\ Session(w, c, OrgSession(c, o))
  /\ IF SlugTaken(w)
       THEN /\ UNCHANGED tables
            /\ IF GivesUp(w)
                 THEN Done(w)
                 ELSE /\ attempt' = [attempt EXCEPT ![w] = @ + 1]
                      /\ UNCHANGED <<step, org, arg, loaded>>
       ELSE /\ slug' = [slug EXCEPT ![o] = attempt[w]]
            /\ role' = [role EXCEPT ![o][Actor[w]] = "agency_admin"]
            /\ status' = [status EXCEPT ![o][Actor[w]] = "active"]
            /\ UNCHANGED <<invite, grant>>
            /\ Done(w)

\* provision_org: no member, but an invite for the owner to be.
Provision(c, o, i, u) ==
  /\ slug[o] = 0 /\ invite[i].org = Unset
  /\ \E n \in 1..MaxAttempts :
       /\ \A p \in Orgs : slug[p] # n
       /\ slug' = [slug EXCEPT ![o] = n]
  /\ invite' = [invite EXCEPT ![i] =
                  [org |-> o, email |-> u, role |-> "agency_admin", state |-> "open"]]
  /\ conn' = AfterSession(c, OrgSession(c, o))
  /\ UNCHANGED <<role, status, grant, requests, exposed>>

-----------------------------------------------------------------------------
(* Requests of members                                                      *)

\* get_membership, and require_role("agency_admin"): the role is read here and
\* the request goes on in another session.
Authorize(w, c, o) ==
  /\ step[w] = "idle"
  /\ <<o, Actor[w]>> \in OwnMemberships(w, c)
  /\ role[o][Actor[w]] = "agency_admin"
  /\ Session(w, c, UserSession(c, Actor[w]))
  /\ step' = [step EXCEPT ![w] = "authorized"]
  /\ org' = [org EXCEPT ![w] = o]
  /\ UNCHANGED <<tables, arg, attempt, loaded>>

\* create_invite
Invite(w, c, i, u, r) ==
  /\ step[w] = "authorized" /\ invite[i].org = Unset
  /\ Session(w, c, OrgSession(c, org[w]))
  /\ invite' = [invite EXCEPT ![i] =
                  [org |-> org[w], email |-> u, role |-> r, state |-> "open"]]
  /\ Done(w)
  /\ UNCHANGED <<slug, role, status, grant>>

\* update_member: role, status, both or none; an admin may change any member.
PatchMember(w, c, u, r, s) ==
  /\ step[w] = "authorized"
  /\ r \in Roles \cup {role[org[w]][u]} /\ s \in Statuses \cup {status[org[w]][u]}
  /\ <<org[w], u>> \in VisibleMemberships(OrgSession(c, org[w]))
  /\ Session(w, c, OrgSession(c, org[w]))
  /\ role' = [role EXCEPT ![org[w]][u] = r]
  /\ status' = [status EXCEPT ![org[w]][u] = s]
  /\ Done(w)
  /\ UNCHANGED <<slug, invite, grant>>

-----------------------------------------------------------------------------
(* Accepting an invite                                                      *)

\* Bug: whoever follows the link is let in.
AnyInvite(i, w) == invite[i].state = "open"

\* Not "Invite not found or already used", "expired", or for another address.
Acceptable(i, w) ==
  /\ invite[i].state = "open"
  /\ invite[i].email = Actor[w]

\* _find_invite_by_token, in a session that declares the token's hash: whoever
\* has the link reads the row, and what it says is checked then.
FindInvite(w, c, i) ==
  /\ step[w] = "idle" /\ i \in VisibleInvites(TokenSession(c, i))
  /\ SessionNaming(w, c, TokenSession(c, i), {i})
  /\ IF Acceptable(i, w)
       THEN /\ step' = [step EXCEPT ![w] = "accept"]
            /\ org' = [org EXCEPT ![w] = invite[i].org]
            /\ arg' = [arg EXCEPT ![w] = i]
            /\ UNCHANGED <<attempt, loaded>>
       ELSE UNCHANGED requests
  /\ UNCHANGED tables

\* UNIQUE (org_id, user_id): a former member cannot be inserted again.
AcceptInvite(w, c) ==
  /\ step[w] = "accepting"
  /\ Session(w, c, OrgSession(c, org[w]))
  /\ IF status[org[w]][Actor[w]] # "none"
       THEN UNCHANGED <<role, status, invite>>
       ELSE /\ role' = [role EXCEPT ![org[w]][Actor[w]] = invite[arg[w]].role]
            /\ status' = [status EXCEPT ![org[w]][Actor[w]] = "active"]
            /\ invite' = [invite EXCEPT ![arg[w]].state = "used"]
  /\ Done(w)
  /\ UNCHANGED <<slug, grant>>

InviteExpires(i) ==
  /\ invite[i].state = "open"
  /\ invite' = [invite EXCEPT ![i].state = "expired"]
  /\ UNCHANGED <<slug, role, status, grant, conn, requests, exposed>>

-----------------------------------------------------------------------------
(* Support grants                                                           *)

\* request_grant, by a platform admin.
RequestGrant(c, g, o) ==
  /\ grant[g].org = Unset /\ slug[o] # 0
  /\ grant' = [grant EXCEPT ![g] = [org |-> o, status |-> "requested"]]
  /\ conn' = AfterSession(c, OrgSession(c, o))
  /\ UNCHANGED <<slug, role, status, invite, requests, exposed>>

\* decide_grant loads the grant ...
LoadGrant(w, c, g) ==
  /\ step[w] = "authorized" /\ grant[g].org = org[w]
  /\ Session(w, c, OrgSession(c, org[w]))
  /\ step' = [step EXCEPT ![w] = "deciding"]
  /\ arg' = [arg EXCEPT ![w] = g]
  /\ loaded' = [loaded EXCEPT ![w] = grant[g].status]
  /\ UNCHANGED <<tables, org, attempt>>

\* Bug: the check and the write are apart.
LoadedStatus(w) == loaded[w]

\* ... and updates it WHERE status = 'requested': what is there now decides.
CurrentStatus(w) == grant[arg[w]].status

DecideGrant(w, verdict) ==
  /\ step[w] = "deciding"
  /\ grant' = IF CurrentStatus(w) = "requested"
                THEN [grant EXCEPT ![arg[w]].status = verdict]
                ELSE grant
  /\ Done(w)
  /\ UNCHANGED <<slug, role, status, invite, conn, exposed>>

-----------------------------------------------------------------------------
(* Sessions without a request of a member                                   *)

\* verify_certificate_by_id: public, for whoever has the id of the artifact.
VerifyCertificate(w, c, o) ==
  /\ step[w] = "idle" /\ o \in VisibleArtifacts(CertificateSession(c, o))
  /\ SessionNaming(w, c, CertificateSession(c, o), {o})
  /\ UNCHANGED <<tables, requests>>

\* list_all_org_ids, and the platform's directory of organizations.
ListOrgs(c) ==
  /\ VisibleOrgs(SystemSession(c)) # {}
  /\ conn' = AfterSession(c, SystemSession(c))
  /\ UNCHANGED <<tables, requests, exposed>>

\* A scheduled job or a billing event goes to one organization.
VisitOrg(c, o) ==
  /\ slug[o] # 0
  /\ conn' = AfterSession(c, OrgSession(c, o))
  /\ UNCHANGED <<tables, requests, exposed>>

\* A request fails, or its user goes away.
Abandon(w) ==
  /\ step[w] # "idle"
  /\ Done(w)
  /\ UNCHANGED <<tables, conn, exposed>>

-----------------------------------------------------------------------------
NoInvite == [org |-> Unset, email |-> Unset, role |-> "reviewer", state |-> "absent"]

Init ==
  /\ slug = [o \in Orgs |-> 0]
  /\ role = [o \in Orgs |-> [u \in Users |-> "reviewer"]]
  /\ status = [o \in Orgs |-> [u \in Users |-> "none"]]
  /\ invite = [i \in Invites |-> NoInvite]
  /\ grant = [g \in Grants |-> [org |-> Unset, status |-> "none"]]
  /\ conn = [c \in Conns |-> Clean]
  /\ step = [w \in Workers |-> "idle"]
  /\ org = [w \in Workers |-> Unset]
  /\ arg = [w \in Workers |-> Unset]
  /\ attempt = [w \in Workers |-> 1]
  /\ loaded = [w \in Workers |-> "none"]
  /\ exposed = [w \in Workers |-> {}]

Creating(w, c) ==
  \/ CheckFree(w, c, "create", "creating")
  \/ \E o \in Orgs : CreateAttempt(w, c, o)

Joining(w, c) ==
  \/ \E i \in Invites : FindInvite(w, c, i)
  \/ CheckFree(w, c, "accept", "accepting")
  \/ AcceptInvite(w, c)

Administering(w, c) ==
  \/ \E o \in Orgs : Authorize(w, c, o)
  \/ \E i \in Invites, u \in Users, r \in Roles : Invite(w, c, i, u, r)
  \/ \E u \in Users, r \in AllRoles, s \in {"active", "deactivated"} : PatchMember(w, c, u, r, s)

Supporting(w, c) ==
  \/ \E g \in Grants : LoadGrant(w, c, g)
  \/ \E verdict \in {"approved", "denied"} : DecideGrant(w, verdict)

Platform(c) ==
  \/ ListOrgs(c)
  \/ \E o \in Orgs :
       \/ VisitOrg(c, o)
       \/ \E g \in Grants : RequestGrant(c, g, o)
       \/ \E i \in Invites, u \in Users : Provision(c, o, i, u)

Next ==
  \/ \E w \in Workers :
       \/ CreateBegin(w) \/ Abandon(w)
       \/ \E c \in Conns :
            \/ Creating(w, c) \/ Joining(w, c) \/ Administering(w, c) \/ Supporting(w, c)
            \/ \E o \in Orgs : VerifyCertificate(w, c, o)
  \/ \E c \in Conns : Platform(c)
  \/ \E i \in Invites : InviteExpires(i)

Spec == Init /\ [][Next]_vars

-----------------------------------------------------------------------------
(* Properties                                                               *)

Active(o, u) == status[o][u] \notin {"none", "deactivated"}

\* The types; and no slug is given to two organizations.
TypeOK ==
  /\ slug \in [Orgs -> 0..MaxAttempts]
  /\ role \in [Orgs -> [Users -> AllRoles]]
  /\ status \in [Orgs -> [Users -> {"none", "active", "deactivated"}]]
  /\ invite \in [Invites ->
                  [org : Orgs \cup {Unset}, email : Users \cup {Unset}, role : AllRoles,
                   state : {"absent", "open", "used", "expired"}]]
  /\ grant \in [Grants -> [org : Orgs \cup {Unset},
                           status : {"none", "requested", "approved", "denied"}]]
  /\ conn \in [Conns -> Settings]
  /\ step \in [Workers -> {"idle", "create", "creating", "authorized", "accept",
                            "accepting", "deciding"}]
  /\ org \in [Workers -> Orgs \cup {Unset}]
  /\ arg \in [Workers -> Invites \cup Grants \cup {Unset}]
  /\ attempt \in [Workers -> 1..MaxAttempts]
  /\ loaded \in [Workers -> {"none", "requested", "approved", "denied"}]
  /\ exposed \in [Workers -> SUBSET (Orgs \cup {Unset})]
  /\ \A o, p \in Orgs : slug[o] = slug[p] /\ slug[o] # 0 => o = p

\* "v1: user belongs to one active org (enforce in service layer, not schema)".
\* Two requests of one user that both find it free break this, and so does an
\* admin who sets a membership back to "active".
OneActiveOrg ==
  \A u \in Users, o, p \in Orgs : Active(o, u) /\ Active(p, u) => o = p

\* The organizations a user may know of: where it has or had a membership, and
\* where its address is invited.  What belongs to none is everybody's.
MayRead(u) ==
  {o \in Orgs : status[o][u] # "none"}
    \cup {invite[i].org : i \in {j \in Invites : invite[j].email = u}}
    \cup {Unset}

\* Whatever order the sessions use the connections in, and whatever they declare
\* there, a user's requests read no row of another organization but the one they
\* name: not for the invite of somebody else, nor for a public certificate.
TenantIsolation == \A w \in Workers : exposed[w] \subseteq MayRead(Actor[w])

\* Rows belong to organizations that exist, and connections are given back clean.
RowsHold ==
  /\ \A o \in Orgs, u \in Users : slug[o] = 0 => status[o][u] = "none"
  /\ \A i \in Invites :
       /\ invite[i].state = "absent" <=> invite[i].org = Unset
       /\ invite[i].org \in Orgs => slug[invite[i].org] # 0
  /\ \A g \in Grants : grant[g].org = Unset <=> grant[g].status = "none"
  /\ \A c \in Conns : conn[c] = Clean

\* What a request has found still holds, as far as the next step relies on it.
RequestsHold ==
  \A w \in Workers :
    /\ step[w] \in {"authorized", "deciding"} =>
         org[w] \in Orgs /\ status[org[w]][Actor[w]] # "none"
    /\ step[w] = "deciding" => arg[w] \in Grants /\ grant[arg[w]].status # "none"
    /\ step[w] \in {"accept", "accepting"} =>
         /\ arg[w] \in Invites /\ org[w] \in Orgs
         /\ invite[arg[w]].org = org[w] /\ invite[arg[w]].email = Actor[w]

\* The inductive invariant, whatever overlaps.
IInv == TypeOK /\ RowsHold /\ RequestsHold /\ TenantIsolation

\* A member who is not the creator was invited: to this organization, by this
\* address, with this role, and the invite is used up.
JoinedByInvite ==
  [][\A o \in Orgs, u \in Users :
       (status[o][u] = "none" /\ status'[o][u] # "none" /\ slug[o] # 0) =>
         \E i \in Invites :
           /\ invite[i].org = o /\ invite[i].email = u /\ invite[i].role = role'[o][u]
           /\ invite'[i].state = "used"]_vars

\* "Could not allocate a unique slug" only when every candidate is taken, also
\* when others take them in the meantime.
RefusedWhenFull ==
  [][\A w \in Workers, c \in Conns, o \in Orgs :
       (CreateAttempt(w, c, o) /\ step'[w] = "idle" /\ slug' = slug)
         => \A n \in 1..MaxAttempts : \E p \in Orgs : slug[p] = n]_vars

\* Every grant is decided once (Decision).
Verdicts == INSTANCE Decision WITH decision <- [g \in Grants |-> grant[g].status]

DecidedOnce == Verdicts!Spec

=============================================================================
