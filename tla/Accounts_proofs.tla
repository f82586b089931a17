--------------------------- MODULE Accounts_proofs ---------------------------
(***************************************************************************)
(* Theorems about Accounts, for any numbers of requests, users,            *)
(* organizations, invites, grants and connections.                         *)
(***************************************************************************)
EXTENDS Accounts, TLAPS

USE DEF Active, Clean, AllRoles

\* The settings a session adds are gone after it; while it lasts, an
\* organization's session reads that organization, and a user's the organizations
\* it has a membership of.  The sessions of a token and of a certificate's id read
\* the row they name, and the global rows.
LEMMA SessionsAreClean ==
  ASSUME IInv, NEW w \in Workers, NEW c \in Conns, NEW s, NEW named,
         SessionNaming(w, c, s, named)
  PROVE  conn' = conn
BY DEF SessionNaming, AfterSession

LEMMA OrgSessionReads ==
  ASSUME IInv, NEW c \in Conns, NEW o \in Orgs
  PROVE  Readable(OrgSession(c, o), {}) \subseteq {o, Unset}
<1>1. conn[c] = Clean
  BY DEF IInv, RowsHold
<1>2. OrgSession(c, o).org = o /\ OrgSession(c, o).user = Unset
        /\ OrgSession(c, o).token = Unset /\ OrgSession(c, o).certificate = Unset
  BY <1>1 DEF OrgSession
<1>3. Unset \notin Users /\ Unset \notin Invites /\ Unset \notin Orgs
  BY ConstantsAssumption
<1> HIDE DEF OrgSession
<1>4. QED
  BY <1>2, <1>3
     DEF Readable, VisibleContent, VisibleMemberships, VisibleInvites, VisibleArtifacts

LEMMA UserSessionReads ==
  ASSUME IInv, NEW c \in Conns, NEW u \in Users
  PROVE  Readable(UserSession(c, u), {}) \subseteq MayRead(u)
<1>1. conn[c] = Clean
  BY DEF IInv, RowsHold
<1>2. UserSession(c, u).org = Unset /\ UserSession(c, u).user = u
        /\ UserSession(c, u).token = Unset /\ UserSession(c, u).certificate = Unset
  BY <1>1 DEF UserSession
<1>3. Unset \notin Orgs /\ Unset \notin Invites
  BY ConstantsAssumption
<1> HIDE DEF UserSession
<1>4. VisibleInvites(UserSession(c, u)) = {} /\ VisibleArtifacts(UserSession(c, u)) = {}
  BY <1>2, <1>3 DEF VisibleInvites, VisibleArtifacts, IInv, TypeOK
<1>5. \A m \in VisibleMemberships(UserSession(c, u)) : m[1] \in MayRead(u)
  BY <1>2, <1>3 DEF VisibleMemberships, MayRead
<1>6. VisibleContent(UserSession(c, u)) \subseteq MayRead(u)
  BY <1>2, <1>3 DEF VisibleContent, MayRead
<1>7. QED
  BY <1>4, <1>5, <1>6 DEF Readable

LEMMA TokenSessionReads ==
  ASSUME IInv, NEW c \in Conns, NEW i \in Invites
  PROVE  Readable(TokenSession(c, i), {i}) \subseteq {Unset}
<1>1. conn[c] = Clean
  BY DEF IInv, RowsHold
<1>2. TokenSession(c, i).org = Unset /\ TokenSession(c, i).user = Unset
        /\ TokenSession(c, i).token = i /\ TokenSession(c, i).certificate = Unset
  BY <1>1 DEF TokenSession
<1>3. Unset \notin Orgs /\ Unset \notin Users
  BY ConstantsAssumption
<1> HIDE DEF TokenSession
<1>4. QED
  BY <1>2, <1>3
     DEF Readable, VisibleContent, VisibleMemberships, VisibleInvites, VisibleArtifacts

LEMMA CertificateSessionReads ==
  ASSUME IInv, NEW c \in Conns, NEW o \in Orgs
  PROVE  Readable(CertificateSession(c, o), {o}) \subseteq {Unset}
<1>1. conn[c] = Clean
  BY DEF IInv, RowsHold
<1>2. CertificateSession(c, o).org = Unset /\ CertificateSession(c, o).user = Unset
        /\ CertificateSession(c, o).token = Unset /\ CertificateSession(c, o).certificate = o
  BY <1>1 DEF CertificateSession
<1>3. Unset \notin Orgs /\ Unset \notin Users /\ Unset \notin Invites
  BY ConstantsAssumption
<1> HIDE DEF CertificateSession
<1>4. QED
  BY <1>2, <1>3
     DEF Readable, VisibleContent, VisibleMemberships, VisibleInvites, VisibleArtifacts

\* Nobody forgets an organization: rows of memberships stay, and so do invites
\* and grants.
RowsStay ==
  /\ \A o \in Orgs, u \in Users : status[o][u] # "none" => status'[o][u] # "none"
  /\ \A i \in Invites : invite[i].org # Unset =>
       invite'[i].org = invite[i].org /\ invite'[i].email = invite[i].email
  /\ \A g \in Grants : grant[g].status # "none" => grant'[g].status # "none"

LEMMA MayReadGrows ==
  ASSUME IInv, RowsStay, NEW u \in Users, NEW o \in Orgs \cup {Unset}, o \in MayRead(u)
  PROVE  o \in MayRead(u)'
BY ConstantsAssumption DEF RowsStay, MayRead

LEMMA ReadableTyped ==
  ASSUME TypeOK, NEW s, NEW named
  PROVE  Readable(s, named) \subseteq Orgs \cup {Unset}
BY ConstantsAssumption
   DEF TypeOK, Readable, VisibleContent, VisibleMemberships, VisibleInvites,
       VisibleArtifacts

\* A step whose session reads only what its user may know keeps the isolation.
LEMMA IsolationKept ==
  ASSUME IInv, RowsStay, NEW w \in Workers, NEW s, NEW named,
         exposed' = [exposed EXCEPT ![w] = @ \cup Readable(s, named)],
         Readable(s, named) \subseteq MayRead(Actor[w])
  PROVE  TenantIsolation'
<1> SUFFICES ASSUME NEW v \in Workers, NEW o \in exposed'[v]
             PROVE  o \in MayRead(Actor[v])'
  BY DEF TenantIsolation
<1>1. Actor[v] \in Users /\ exposed \in [Workers -> SUBSET (Orgs \cup {Unset})]
  BY ConstantsAssumption DEF IInv, TypeOK
<1>2. o \in exposed[v] \/ (v = w /\ o \in Readable(s, named))
  BY <1>1
<1>3. o \in MayRead(Actor[v])
  BY <1>2 DEF IInv, TenantIsolation
<1>4. o \in Orgs \cup {Unset}
  <2>1. CASE o \in exposed[v]
    BY <1>1, <2>1
  <2>2. CASE o \in Readable(s, named) /\ v = w
    BY <2>2, ReadableTyped DEF IInv
  <2>3. QED
    BY <1>2, <2>1, <2>2
<1>5. QED
  BY <1>1, <1>3, <1>4, MayReadGrows

LEMMA IsolationUnread ==
  ASSUME IInv, RowsStay, exposed' = exposed
  PROVE  TenantIsolation'
<1> SUFFICES ASSUME NEW v \in Workers, NEW o \in exposed[v]
             PROVE  o \in MayRead(Actor[v])'
  BY DEF TenantIsolation
<1>1. Actor[v] \in Users /\ o \in Orgs \cup {Unset}
  BY ConstantsAssumption DEF IInv, TypeOK
<1>2. QED
  BY <1>1, MayReadGrows DEF IInv, TenantIsolation

LEMMA ExposedTyped ==
  ASSUME TypeOK, NEW w \in Workers, NEW s, NEW named,
         exposed' = [exposed EXCEPT ![w] = @ \cup Readable(s, named)]
  PROVE  exposed' \in [Workers -> SUBSET (Orgs \cup {Unset})]
BY ReadableTyped DEF TypeOK

\* A request that ends relies on nothing any more.
LEMMA DoneTyped ==
  ASSUME IInv, NEW w \in Workers, Done(w)
  PROVE  /\ step' \in [Workers -> {"idle", "create", "creating", "authorized", "accept",
                            "accepting", "deciding"}]
         /\ org' \in [Workers -> Orgs \cup {Unset}]
         /\ arg' \in [Workers -> Invites \cup Grants \cup {Unset}]
         /\ attempt' \in [Workers -> 1..MaxAttempts]
         /\ loaded' \in [Workers -> {"none", "requested", "approved", "denied"}]
         /\ step'[w] = "idle"
         /\ \A v \in Workers \ {w} : step'[v] = step[v] /\ org'[v] = org[v] /\ arg'[v] = arg[v]
BY ConstantsAssumption DEF Done, IInv, TypeOK

LEMMA OthersRely ==
  ASSUME IInv, RowsStay, RowsHold', conn' = conn, NEW v \in Workers,
         step'[v] = step[v], org'[v] = org[v], arg'[v] = arg[v]
  PROVE  /\ step'[v] \in {"authorized", "deciding"} =>
              org'[v] \in Orgs /\ status'[org'[v]][Actor[v]] # "none"
         /\ step'[v] = "deciding" => arg'[v] \in Grants /\ grant'[arg'[v]].status # "none"
         /\ step'[v] \in {"accept", "accepting"} =>
              /\ arg'[v] \in Invites /\ org'[v] \in Orgs
              /\ invite'[arg'[v]].org = org'[v] /\ invite'[arg'[v]].email = Actor[v]
BY ConstantsAssumption DEF IInv, RowsHold, RequestsHold, RowsStay

LEMMA DoneHolds ==
  ASSUME IInv, RowsStay, RowsHold', conn' = conn, NEW w \in Workers, Done(w)
  PROVE  RequestsHold'
<1>1. /\ step'[w] = "idle"
      /\ \A v \in Workers \ {w} : step'[v] = step[v] /\ org'[v] = org[v] /\ arg'[v] = arg[v]
  BY DoneTyped
<1>2. QED
  BY <1>1, OthersRely DEF RequestsHold

LEMMA WaitingHolds ==
  ASSUME IInv, RowsStay, RowsHold', conn' = conn, UNCHANGED requests
  PROVE  RequestsHold'
<1>1. \A v \in Workers : step'[v] = step[v] /\ org'[v] = org[v] /\ arg'[v] = arg[v]
  BY DEF requests
<1>2. QED
  BY <1>1, OthersRely DEF RequestsHold

LEMMA UnchangedTables ==
  ASSUME IInv, UNCHANGED tables, conn' = conn
  PROVE  RowsStay /\ RowsHold'
BY DEF tables, RowsStay, RowsHold, IInv

-----------------------------------------------------------------------------
(* The inductive invariant, action by action                                *)

LEMMA CheckFreeKeeps ==
  ASSUME IInv, NEW w \in Workers, NEW c \in Conns,
         CheckFree(w, c, "create", "creating") \/ CheckFree(w, c, "accept", "accepting")
  PROVE  IInv'
<1> DEFINE s == UserSession(c, Actor[w])
<1>1. /\ conn' = conn /\ exposed' = [exposed EXCEPT ![w] = @ \cup Readable(s, {})]
      /\ UNCHANGED tables
  BY DEF CheckFree, Session, SessionNaming, AfterSession
<1>2. RowsStay /\ RowsHold'
  BY <1>1, UnchangedTables
<1>3. TenantIsolation'
  BY <1>1, <1>2, UserSessionReads, IsolationKept, ConstantsAssumption
<1>4. exposed' \in [Workers -> SUBSET (Orgs \cup {Unset})]
  BY <1>1, ExposedTyped DEF IInv
<1>5. CASE Done(w)
  <2>1. TypeOK'
    BY <1>1, <1>4, <1>5, DoneTyped DEF IInv, TypeOK, tables
  <2>2. RequestsHold'
    BY <1>1, <1>5, DoneHolds, UnchangedTables
  <2>3. QED
    BY <1>2, <1>3, <2>1, <2>2 DEF IInv
<1>6. CASE ~Done(w)
  <2>1. /\ UNCHANGED <<org, arg, attempt, loaded>>
        /\ \/ step[w] = "create" /\ step' = [step EXCEPT ![w] = "creating"]
           \/ step[w] = "accept" /\ step' = [step EXCEPT ![w] = "accepting"]
    BY <1>6 DEF CheckFree
  <2>2. TypeOK'
    BY <1>1, <1>4, <2>1 DEF IInv, TypeOK, tables
  <2>3. RequestsHold'
    BY <1>1, <2>1 DEF IInv, TypeOK, RequestsHold, tables
  <2>4. QED
    BY <1>2, <1>3, <2>2, <2>3 DEF IInv
<1>7. QED
  BY <1>5, <1>6

LEMMA CreateBeginKeeps ==
  ASSUME IInv, NEW w \in Workers, CreateBegin(w)
  PROVE  IInv'
<1>1. /\ UNCHANGED <<tables, conn, org, arg, attempt, loaded, exposed>>
      /\ step' = [step EXCEPT ![w] = "create"]
  BY DEF CreateBegin
<1>2. TypeOK'
  BY <1>1 DEF IInv, TypeOK, tables
<1>3. RequestsHold'
  BY <1>1 DEF IInv, TypeOK, RequestsHold, tables
<1>4. TenantIsolation'
  BY <1>1, IsolationUnread DEF tables, RowsStay
<1>5. QED
  BY <1>1, <1>2, <1>3, <1>4, UnchangedTables DEF IInv

LEMMA AbandonKeeps ==
  ASSUME IInv, NEW w \in Workers, Abandon(w)
  PROVE  IInv'
<1>1. Done(w) /\ UNCHANGED <<tables, conn, exposed>>
  BY DEF Abandon
<1>2. TypeOK'
  BY <1>1, DoneTyped DEF IInv, TypeOK, tables
<1>3. RequestsHold'
  BY <1>1, DoneHolds, UnchangedTables
<1>4. TenantIsolation'
  BY <1>1, IsolationUnread DEF tables, RowsStay
<1>5. QED
  BY <1>1, <1>2, <1>3, <1>4, UnchangedTables DEF IInv

\* An organization's session of a worker in it, or of the one who creates it,
\* exposes only that organization.
LEMMA OrgSessionKeeps ==
  ASSUME IInv, RowsStay, NEW w \in Workers, NEW c \in Conns, NEW o \in Orgs,
         Session(w, c, OrgSession(c, o)), o \in MayRead(Actor[w])
  PROVE  /\ TenantIsolation' /\ conn' = conn
         /\ exposed' \in [Workers -> SUBSET (Orgs \cup {Unset})]
<1>1. conn' = conn /\ exposed' = [exposed EXCEPT ![w] = @ \cup Readable(OrgSession(c, o), {})]
  BY DEF Session, SessionNaming, AfterSession
<1>2. Unset \in MayRead(Actor[w])
  BY DEF MayRead
<1>3. Readable(OrgSession(c, o), {}) \subseteq MayRead(Actor[w])
  BY <1>2, OrgSessionReads
<1>4. TenantIsolation'
  BY <1>1, <1>3, IsolationKept
<1>5. QED
  BY <1>1, <1>4, ExposedTyped DEF IInv

\* Members who have been authorized, and who have been invited, may read theirs.
LEMMA ActsInItsOrg ==
  ASSUME IInv, NEW w \in Workers,
         step[w] \in {"authorized", "deciding", "accept", "accepting"}
  PROVE  org[w] \in Orgs /\ org[w] \in MayRead(Actor[w])
<1>1. CASE step[w] \in {"authorized", "deciding"}
  BY <1>1, ConstantsAssumption DEF IInv, RequestsHold, MayRead
<1>2. CASE step[w] \in {"accept", "accepting"}
  <2>1. /\ arg[w] \in Invites /\ org[w] \in Orgs
        /\ invite[arg[w]].org = org[w] /\ invite[arg[w]].email = Actor[w]
    BY <1>2 DEF IInv, RequestsHold
  <2>2. QED
    BY <2>1 DEF MayRead
<1>3. QED
  BY <1>1, <1>2

LEMMA InviteKeeps ==
  ASSUME IInv, NEW w \in Workers, NEW c \in Conns, NEW i \in Invites, NEW u \in Users,
         NEW r \in Roles, Invite(w, c, i, u, r)
  PROVE  IInv'
<1>1. org[w] \in Orgs /\ org[w] \in MayRead(Actor[w])
  BY ActsInItsOrg DEF Invite
<1>2. /\ step[w] = "authorized" /\ invite[i].org = Unset /\ Done(w) /\ Session(w, c, OrgSession(c, org[w]))
      /\ UNCHANGED <<slug, role, status, grant>>
      /\ invite' = [invite EXCEPT ![i] =
                  [org |-> org[w], email |-> u, role |-> r, state |-> "open"]]
  BY DEF Invite
<1>3. RowsStay
  BY <1>2 DEF RowsStay, IInv, TypeOK
<1>4. TenantIsolation' /\ conn' = conn /\ exposed' \in [Workers -> SUBSET (Orgs \cup {Unset})]
  BY <1>1, <1>2, <1>3, OrgSessionKeeps
<1>5. TypeOK'
  BY <1>1, <1>2, <1>4, DoneTyped, ConstantsAssumption DEF IInv, TypeOK
<1>6. RowsHold'
  <2>1. slug[org[w]] # 0 /\ org[w] # Unset
    BY <1>1, <1>2, ConstantsAssumption DEF RowsHold, IInv, RequestsHold
  <2>2. QED
    BY <1>1, <1>2, <1>4, <2>1 DEF RowsHold, IInv, TypeOK
<1>7. RequestsHold'
  BY <1>2, <1>3, <1>4, <1>6, DoneHolds
<1>8. QED
  BY <1>4, <1>5, <1>6, <1>7 DEF IInv

LEMMA CreateAttemptKeeps ==
  ASSUME IInv, NEW w \in Workers, NEW c \in Conns, NEW o \in Orgs, CreateAttempt(w, c, o)
  PROVE  IInv'
<1>1. Session(w, c, OrgSession(c, o)) /\ slug[o] = 0 /\ step[w] = "creating"
  BY DEF CreateAttempt
<1>2. CASE ~SlugTaken(w)
  <2>1. /\ slug' = [slug EXCEPT ![o] = attempt[w]]
        /\ role' = [role EXCEPT ![o][Actor[w]] = "agency_admin"]
        /\ status' = [status EXCEPT ![o][Actor[w]] = "active"]
        /\ UNCHANGED <<invite, grant>> /\ Done(w)
    BY <1>2 DEF CreateAttempt
  <2>2. RowsStay
    BY <2>1 DEF RowsStay, IInv, TypeOK
  <2>3. conn' = conn /\ exposed' = [exposed EXCEPT ![w] = @ \cup Readable(OrgSession(c, o), {})]
    BY <1>1 DEF Session, SessionNaming, AfterSession
  <2>4. Readable(OrgSession(c, o), {}) \subseteq {o, Unset}
    BY OrgSessionReads
  <2>5. {o, Unset} \subseteq MayRead(Actor[w])'
    BY <2>1, ConstantsAssumption DEF MayRead, IInv, TypeOK
  <2>6. TenantIsolation'
    <3> SUFFICES ASSUME NEW v \in Workers, NEW p \in exposed'[v]
                 PROVE  p \in MayRead(Actor[v])'
      BY DEF TenantIsolation
    <3>1. exposed \in [Workers -> SUBSET (Orgs \cup {Unset})] /\ Actor[v] \in Users
      BY ConstantsAssumption DEF IInv, TypeOK
    <3>2. CASE p \in exposed[v]
      BY <2>2, <3>1, <3>2, MayReadGrows DEF IInv, TenantIsolation
    <3>3. CASE p \notin exposed[v]
      BY <2>3, <2>4, <2>5, <3>1, <3>3
    <3>4. QED
      BY <3>2, <3>3
  <2>7. exposed' \in [Workers -> SUBSET (Orgs \cup {Unset})]
    BY <2>3, ExposedTyped DEF IInv
  <2>8. /\ slug' \in [Orgs -> 0..MaxAttempts]
        /\ role' \in [Orgs -> [Users -> AllRoles]]
        /\ status' \in [Orgs -> [Users -> {"none", "active", "deactivated"}]]
    BY <2>1, ConstantsAssumption DEF IInv, TypeOK
  <2>9. \A p, q \in Orgs : slug'[p] = slug'[q] /\ slug'[p] # 0 => p = q
    BY <1>2, <2>1 DEF IInv, TypeOK, SlugTaken
  <2>10. TypeOK'
    BY <2>1, <2>3, <2>7, <2>8, <2>9, DoneTyped DEF IInv, TypeOK
  <2>11. RowsHold'
    BY <2>1, <2>3 DEF RowsHold, IInv, TypeOK
  <2>12. RequestsHold'
    BY <2>1, <2>2, <2>3, <2>11, DoneHolds
  <2>13. QED
    BY <2>6, <2>10, <2>11, <2>12 DEF IInv
<1>3. CASE SlugTaken(w)
  <2>1. /\ UNCHANGED tables
        /\ \/ Done(w)
           \/ ~GivesUp(w) /\ attempt' = [attempt EXCEPT ![w] = @ + 1]
              /\ UNCHANGED <<step, org, arg, loaded>>
    BY <1>3 DEF CreateAttempt
  <2>2. conn' = conn /\ exposed' = [exposed EXCEPT ![w] = @ \cup Readable(OrgSession(c, o), {})]
    BY <1>1 DEF Session, SessionNaming, AfterSession
  <2>3. Readable(OrgSession(c, o), {}) \subseteq {Unset}
    <3>1. /\ OrgSession(c, o).org = o /\ OrgSession(c, o).user = Unset
          /\ OrgSession(c, o).token = Unset /\ OrgSession(c, o).certificate = Unset
      BY DEF OrgSession, IInv, RowsHold
    <3> HIDE DEF OrgSession
    <3>2. QED
      BY <1>1, <3>1, ConstantsAssumption
         DEF Readable, VisibleContent, VisibleMemberships, VisibleInvites,
             VisibleArtifacts, IInv, RowsHold
  <2>4. RowsStay /\ RowsHold'
    BY <2>1, <2>2, UnchangedTables
  <2>5. TenantIsolation' /\ exposed' \in [Workers -> SUBSET (Orgs \cup {Unset})]
    <3>1. Readable(OrgSession(c, o), {}) \subseteq MayRead(Actor[w])
      BY <2>3 DEF MayRead
    <3>2. QED
      BY <2>2, <2>4, <3>1, IsolationKept, ExposedTyped DEF IInv
  <2>6. CASE Done(w)
    <3>1. TypeOK'
      BY <2>1, <2>2, <2>5, <2>6, DoneTyped DEF IInv, TypeOK, tables
    <3>2. RequestsHold'
      BY <2>2, <2>4, <2>6, DoneHolds
    <3>3. QED
      BY <2>4, <2>5, <3>1, <3>2 DEF IInv
  <2>7. CASE ~GivesUp(w) /\ attempt' = [attempt EXCEPT ![w] = @ + 1]
              /\ UNCHANGED <<step, org, arg, loaded>>
    <3>1. attempt[w] + 1 \in 1..MaxAttempts
      <4>1. attempt[w] \in 1..MaxAttempts /\ attempt[w] # MaxAttempts
        BY <2>7 DEF GivesUp, IInv, TypeOK
      <4>2. MaxAttempts \in Nat
        BY ConstantsAssumption
      <4>3. QED
        BY <4>1, <4>2
    <3>2. TypeOK'
      BY <2>1, <2>2, <2>5, <2>7, <3>1 DEF IInv, TypeOK, tables
    <3>3. RequestsHold'
      BY <2>2, <2>4, <2>7, OthersRely DEF RequestsHold
    <3>4. QED
      BY <2>4, <2>5, <3>2, <3>3 DEF IInv
  <2>8. QED
    BY <2>1, <2>6, <2>7
<1>4. QED
  BY <1>2, <1>3

LEMMA ProvisionKeeps ==
  ASSUME IInv, NEW c \in Conns, NEW o \in Orgs, NEW i \in Invites, NEW u \in Users,
         Provision(c, o, i, u)
  PROVE  IInv'
<1>1. PICK n \in 1..MaxAttempts :
        /\ \A p \in Orgs : slug[p] # n
        /\ slug' = [slug EXCEPT ![o] = n]
  BY DEF Provision
<1>2. /\ invite[i].org = Unset /\ conn' = conn
      /\ invite' = [invite EXCEPT ![i] =
                  [org |-> o, email |-> u, role |-> "agency_admin", state |-> "open"]]
      /\ UNCHANGED <<role, status, grant, requests, exposed>>
  BY DEF Provision, AfterSession
<1>3. RowsStay
  BY <1>2 DEF RowsStay, IInv, TypeOK
<1>4. n \in 0..MaxAttempts /\ n # 0
  BY ConstantsAssumption
<1>5. slug[o] = 0
  BY DEF Provision
<1>6. RowsHold'
  <2>1. \A p \in Orgs : slug'[p] = 0 => slug[p] = 0
    BY <1>1, <1>4 DEF IInv, TypeOK
  <2>2. \A j \in Invites : invite'[j].org \in Orgs => slug'[invite'[j].org] # 0
    BY <1>1, <1>2, <1>4, <2>1 DEF IInv, TypeOK, RowsHold
  <2>3. \A j \in Invites : invite'[j].state = "absent" <=> invite'[j].org = Unset
    BY <1>2, ConstantsAssumption DEF IInv, TypeOK, RowsHold
  <2>4. QED
    BY <1>2, <2>1, <2>2, <2>3 DEF IInv, RowsHold
<1>7. RequestsHold'
  BY <1>2, <1>3, <1>6, WaitingHolds
<1>8. TypeOK'
  <2>1. slug' \in [Orgs -> 0..MaxAttempts]
    BY <1>1, <1>4 DEF IInv, TypeOK
  <2>2. \A p, q \in Orgs : slug'[p] = slug'[q] /\ slug'[p] # 0 => p = q
    BY <1>1 DEF IInv, TypeOK
  <2>3. invite' \in [Invites ->
                  [org : Orgs \cup {Unset}, email : Users \cup {Unset}, role : AllRoles,
                   state : {"absent", "open", "used", "expired"}]]
    BY <1>2 DEF IInv, TypeOK
  <2>4. QED
    BY <1>2, <2>1, <2>2, <2>3 DEF IInv, TypeOK, requests
<1>9. QED
  BY <1>2, <1>3, <1>6, <1>7, <1>8, IsolationUnread DEF IInv

LEMMA AuthorizeKeeps ==
  ASSUME IInv, NEW w \in Workers, NEW c \in Conns, NEW o \in Orgs, Authorize(w, c, o)
  PROVE  IInv'
<1> DEFINE s == UserSession(c, Actor[w])
<1>1. /\ conn' = conn /\ exposed' = [exposed EXCEPT ![w] = @ \cup Readable(s, {})]
      /\ UNCHANGED <<tables, arg, attempt, loaded>>
      /\ step' = [step EXCEPT ![w] = "authorized"]
      /\ org' = [org EXCEPT ![w] = o]
      /\ status[o][Actor[w]] # "none"
  BY DEF Authorize, Session, SessionNaming, AfterSession, OwnMemberships, VisibleMemberships
<1>2. RowsStay /\ RowsHold'
  BY <1>1, UnchangedTables
<1>3. TenantIsolation'
  BY <1>1, <1>2, UserSessionReads, IsolationKept, ConstantsAssumption
<1>4. exposed' \in [Workers -> SUBSET (Orgs \cup {Unset})]
  BY <1>1, ExposedTyped DEF IInv
<1>5. TypeOK'
  BY <1>1, <1>4 DEF IInv, TypeOK, tables
<1>6. RequestsHold'
  BY <1>1 DEF IInv, TypeOK, RequestsHold, tables
<1>7. QED
  BY <1>2, <1>3, <1>5, <1>6 DEF IInv

LEMMA PatchMemberKeeps ==
  ASSUME IInv, NEW w \in Workers, NEW c \in Conns, NEW u \in Users, NEW r \in AllRoles,
         NEW s \in {"active", "deactivated"}, PatchMember(w, c, u, r, s)
  PROVE  IInv'
<1>1. org[w] \in Orgs /\ org[w] \in MayRead(Actor[w])
  BY ActsInItsOrg DEF PatchMember
<1>2. /\ step[w] = "authorized" /\ Done(w) /\ Session(w, c, OrgSession(c, org[w]))
      /\ UNCHANGED <<slug, invite, grant>>
      /\ role' = [role EXCEPT ![org[w]][u] = r]
      /\ status' = [status EXCEPT ![org[w]][u] = s]
  BY DEF PatchMember
<1>3. RowsStay
  BY <1>1, <1>2 DEF RowsStay, IInv, TypeOK
<1>4. TenantIsolation' /\ conn' = conn /\ exposed' \in [Workers -> SUBSET (Orgs \cup {Unset})]
  BY <1>1, <1>2, <1>3, OrgSessionKeeps
<1>5. TypeOK'
  <2>1. /\ role' \in [Orgs -> [Users -> AllRoles]]
        /\ status' \in [Orgs -> [Users -> {"none", "active", "deactivated"}]]
    BY <1>1, <1>2 DEF IInv, TypeOK
  <2>2. QED
    BY <1>2, <1>4, <2>1, DoneTyped DEF IInv, TypeOK
<1>6. RowsHold'
  <2>1. slug[org[w]] # 0
    BY <1>1, <1>2, ConstantsAssumption DEF RowsHold, IInv, RequestsHold
  <2>2. QED
    BY <1>1, <1>2, <1>4, <2>1 DEF RowsHold, IInv, TypeOK
<1>7. RequestsHold'
  BY <1>2, <1>3, <1>4, <1>6, DoneHolds
<1>8. QED
  BY <1>4, <1>5, <1>6, <1>7 DEF IInv

\* A session that reads only the row it names, and the global ones.
LEMMA NamingKeeps ==
  ASSUME IInv, NEW w \in Workers, NEW c \in Conns, NEW s, NEW named,
         SessionNaming(w, c, s, named), UNCHANGED tables,
         Readable(s, named) \subseteq {Unset}
  PROVE  /\ TenantIsolation' /\ conn' = conn /\ RowsStay /\ RowsHold'
         /\ exposed' \in [Workers -> SUBSET (Orgs \cup {Unset})]
<1>1. conn' = conn /\ exposed' = [exposed EXCEPT ![w] = @ \cup Readable(s, named)]
  BY DEF SessionNaming, AfterSession
<1>2. RowsStay /\ RowsHold'
  BY <1>1, UnchangedTables
<1>3. Readable(s, named) \subseteq MayRead(Actor[w])
  BY DEF MayRead
<1>4. QED
  BY <1>1, <1>2, <1>3, IsolationKept, ExposedTyped DEF IInv

LEMMA FindInviteKeeps ==
  ASSUME IInv, NEW w \in Workers, NEW c \in Conns, NEW i \in Invites, FindInvite(w, c, i)
  PROVE  IInv'
<1>1. /\ SessionNaming(w, c, TokenSession(c, i), {i}) /\ UNCHANGED tables
      /\ invite[i].org # Unset
  BY DEF FindInvite, VisibleInvites
<1>2. /\ TenantIsolation' /\ conn' = conn /\ RowsStay /\ RowsHold'
      /\ exposed' \in [Workers -> SUBSET (Orgs \cup {Unset})]
  BY <1>1, TokenSessionReads, NamingKeeps
<1>3. CASE ~Acceptable(i, w)
  <2>1. UNCHANGED requests
    BY <1>3 DEF FindInvite
  <2>2. TypeOK'
    BY <1>1, <1>2, <2>1 DEF IInv, TypeOK, tables, requests
  <2>3. QED
    BY <1>2, <2>1, <2>2, WaitingHolds DEF IInv
<1>4. CASE Acceptable(i, w)
  <2>1. /\ UNCHANGED <<attempt, loaded>>
        /\ step' = [step EXCEPT ![w] = "accept"]
        /\ org' = [org EXCEPT ![w] = invite[i].org]
        /\ arg' = [arg EXCEPT ![w] = i]
        /\ invite[i].email = Actor[w]
    BY <1>4 DEF FindInvite, Acceptable
  <2>2. invite[i].org \in Orgs
    BY <1>1 DEF IInv, TypeOK
  <2>3. TypeOK'
    BY <1>1, <1>2, <2>1, <2>2 DEF IInv, TypeOK, tables
  <2>4. RequestsHold'
    BY <1>1, <2>1, <2>2 DEF IInv, TypeOK, RequestsHold, tables
  <2>5. QED
    BY <1>2, <2>3, <2>4 DEF IInv
<1>5. QED
  BY <1>3, <1>4

LEMMA VerifyCertificateKeeps ==
  ASSUME IInv, NEW w \in Workers, NEW c \in Conns, NEW o \in Orgs,
         VerifyCertificate(w, c, o)
  PROVE  IInv'
<1>1. /\ SessionNaming(w, c, CertificateSession(c, o), {o})
      /\ UNCHANGED tables /\ UNCHANGED requests
  BY DEF VerifyCertificate
<1>2. /\ TenantIsolation' /\ conn' = conn /\ RowsStay /\ RowsHold'
      /\ exposed' \in [Workers -> SUBSET (Orgs \cup {Unset})]
  BY <1>1, CertificateSessionReads, NamingKeeps
<1>3. TypeOK'
  BY <1>1, <1>2 DEF IInv, TypeOK, tables, requests
<1>4. QED
  BY <1>1, <1>2, <1>3, WaitingHolds DEF IInv

LEMMA AcceptInviteKeeps ==
  ASSUME IInv, NEW w \in Workers, NEW c \in Conns, AcceptInvite(w, c)
  PROVE  IInv'
<1>1. org[w] \in Orgs /\ org[w] \in MayRead(Actor[w])
  BY ActsInItsOrg DEF AcceptInvite
<1>2. /\ step[w] = "accepting" /\ Done(w) /\ Session(w, c, OrgSession(c, org[w]))
      /\ UNCHANGED <<slug, grant>>
  BY DEF AcceptInvite
<1>3. arg[w] \in Invites /\ invite[arg[w]].org = org[w] /\ Actor[w] \in Users
  BY <1>2, ConstantsAssumption DEF IInv, RequestsHold
<1>4. CASE UNCHANGED <<role, status, invite>>
  <2>1. UNCHANGED tables /\ conn' = conn
    BY <1>2, <1>4 DEF tables, Session, SessionNaming, AfterSession
  <2>2. RowsStay /\ RowsHold'
    BY <2>1, UnchangedTables
  <2>3. TenantIsolation' /\ exposed' \in [Workers -> SUBSET (Orgs \cup {Unset})]
    BY <1>1, <1>2, <2>2, OrgSessionKeeps
  <2>4. TypeOK'
    BY <1>2, <2>1, <2>3, DoneTyped DEF IInv, TypeOK, tables
  <2>5. RequestsHold'
    BY <1>2, <2>1, <2>2, DoneHolds
  <2>6. QED
    BY <2>2, <2>3, <2>4, <2>5 DEF IInv
<1>5. CASE /\ role' = [role EXCEPT ![org[w]][Actor[w]] = invite[arg[w]].role]
           /\ status' = [status EXCEPT ![org[w]][Actor[w]] = "active"]
           /\ invite' = [invite EXCEPT ![arg[w]].state = "used"]
  <2>1. RowsStay
    BY <1>1, <1>2, <1>3, <1>5 DEF RowsStay, IInv, TypeOK
  <2>2. TenantIsolation' /\ conn' = conn /\ exposed' \in [Workers -> SUBSET (Orgs \cup {Unset})]
    BY <1>1, <1>2, <2>1, OrgSessionKeeps
  <2>3. /\ role' \in [Orgs -> [Users -> AllRoles]]
        /\ status' \in [Orgs -> [Users -> {"none", "active", "deactivated"}]]
    BY <1>1, <1>3, <1>5 DEF IInv, TypeOK
  <2>4. invite' \in [Invites ->
                  [org : Orgs \cup {Unset}, email : Users \cup {Unset}, role : AllRoles,
                   state : {"absent", "open", "used", "expired"}]]
    <3>1. PICK i \in Invites : i = arg[w]
      BY <1>3
    <3>2. invite' = [invite EXCEPT ![i].state = "used"]
      BY <1>5, <3>1
    <3>3. invite \in [Invites ->
                  [org : Orgs \cup {Unset}, email : Users \cup {Unset}, role : AllRoles,
                   state : {"absent", "open", "used", "expired"}]]
      BY DEF IInv, TypeOK
    <3>4. QED
      BY <3>2, <3>3
  <2>5. TypeOK'
    BY <1>2, <2>2, <2>3, <2>4, DoneTyped DEF IInv, TypeOK
  <2>6. RowsHold'
    <3>1. slug[org[w]] # 0 /\ invite[arg[w]].org # Unset
      BY <1>1, <1>3, ConstantsAssumption DEF RowsHold, IInv
    <3>2. QED
      BY <1>1, <1>2, <1>3, <1>5, <2>2, <3>1 DEF RowsHold, IInv, TypeOK
  <2>7. RequestsHold'
    BY <1>2, <2>1, <2>2, <2>6, DoneHolds
  <2>8. QED
    BY <2>2, <2>5, <2>6, <2>7 DEF IInv
<1>6. QED
  BY <1>4, <1>5 DEF AcceptInvite

LEMMA InviteExpiresKeeps ==
  ASSUME IInv, NEW i \in Invites, InviteExpires(i)
  PROVE  IInv'
<1>1. /\ invite[i].state = "open" /\ invite' = [invite EXCEPT ![i].state = "expired"]
      /\ UNCHANGED <<slug, role, status, grant, conn, requests, exposed>>
  BY DEF InviteExpires
<1>2. RowsStay
  BY <1>1 DEF RowsStay, IInv, TypeOK
<1>3. RowsHold'
  BY <1>1 DEF RowsHold, IInv, TypeOK
<1>4. RequestsHold'
  BY <1>1, <1>2, <1>3, WaitingHolds
<1>5. invite' \in [Invites ->
                  [org : Orgs \cup {Unset}, email : Users \cup {Unset}, role : AllRoles,
                   state : {"absent", "open", "used", "expired"}]]
  <2>1. invite \in [Invites ->
                  [org : Orgs \cup {Unset}, email : Users \cup {Unset}, role : AllRoles,
                   state : {"absent", "open", "used", "expired"}]]
    BY DEF IInv, TypeOK
  <2>2. QED
    BY <1>1, <2>1
<1>6. TypeOK'
  BY <1>1, <1>5 DEF IInv, TypeOK, requests
<1>7. QED
  BY <1>1, <1>2, <1>3, <1>4, <1>6, IsolationUnread DEF IInv

LEMMA RequestGrantKeeps ==
  ASSUME IInv, NEW c \in Conns, NEW g \in Grants, NEW o \in Orgs, RequestGrant(c, g, o)
  PROVE  IInv'
<1>1. /\ grant[g].org = Unset /\ conn' = conn
      /\ grant' = [grant EXCEPT ![g] = [org |-> o, status |-> "requested"]]
      /\ UNCHANGED <<slug, role, status, invite, requests, exposed>>
  BY DEF RequestGrant, AfterSession
<1>2. RowsStay
  BY <1>1 DEF RowsStay, IInv, TypeOK
<1>3. RowsHold'
  BY <1>1, ConstantsAssumption DEF RowsHold, IInv, TypeOK
<1>4. RequestsHold'
  BY <1>1, <1>2, <1>3, WaitingHolds
<1>5. grant' \in [Grants -> [org : Orgs \cup {Unset},
                           status : {"none", "requested", "approved", "denied"}]]
  BY <1>1 DEF IInv, TypeOK
<1>6. TypeOK'
  BY <1>1, <1>5 DEF IInv, TypeOK, requests
<1>7. QED
  BY <1>1, <1>2, <1>3, <1>4, <1>6, IsolationUnread DEF IInv

LEMMA LoadGrantKeeps ==
  ASSUME IInv, NEW w \in Workers, NEW c \in Conns, NEW g \in Grants, LoadGrant(w, c, g)
  PROVE  IInv'
<1>1. org[w] \in Orgs /\ org[w] \in MayRead(Actor[w])
  BY ActsInItsOrg DEF LoadGrant
<1>2. /\ step[w] = "authorized" /\ grant[g].org = org[w]
      /\ Session(w, c, OrgSession(c, org[w]))
      /\ step' = [step EXCEPT ![w] = "deciding"]
      /\ arg' = [arg EXCEPT ![w] = g]
      /\ loaded' = [loaded EXCEPT ![w] = grant[g].status]
      /\ UNCHANGED <<tables, org, attempt>>
  BY DEF LoadGrant
<1>3. conn' = conn
  BY <1>2 DEF Session, SessionNaming, AfterSession
<1>4. RowsStay /\ RowsHold'
  BY <1>2, <1>3, UnchangedTables
<1>5. TenantIsolation' /\ exposed' \in [Workers -> SUBSET (Orgs \cup {Unset})]
  BY <1>1, <1>2, <1>4, OrgSessionKeeps
<1>6. TypeOK'
  BY <1>2, <1>3, <1>5 DEF IInv, TypeOK, tables
<1>7. grant[g].status # "none"
  BY <1>1, <1>2, ConstantsAssumption DEF IInv, RowsHold
<1>8. RequestsHold'
  BY <1>2, <1>7 DEF IInv, TypeOK, RequestsHold, tables
<1>9. QED
  BY <1>4, <1>5, <1>6, <1>8 DEF IInv

LEMMA DecideGrantKeeps ==
  ASSUME IInv, NEW w \in Workers, NEW verdict \in {"approved", "denied"},
         DecideGrant(w, verdict)
  PROVE  IInv'
<1>1. /\ step[w] = "deciding" /\ Done(w)
      /\ UNCHANGED <<slug, role, status, invite, conn, exposed>>
      /\ \/ grant' = [grant EXCEPT ![arg[w]].status = verdict]
         \/ grant' = grant
  BY DEF DecideGrant
<1>2. arg[w] \in Grants /\ grant[arg[w]].status # "none"
  BY <1>1 DEF IInv, RequestsHold
<1>3. RowsStay
  BY <1>1, <1>2 DEF RowsStay, IInv, TypeOK
<1>4. RowsHold'
  <2>1. grant \in [Grants -> [org : Orgs \cup {Unset},
                           status : {"none", "requested", "approved", "denied"}]]
    BY DEF IInv, TypeOK
  <2>2. \A g \in Grants : /\ grant'[g].org = grant[g].org
                          /\ grant'[g].status = "none" <=> grant[g].status = "none"
    BY <1>1, <1>2, <2>1
  <2>3. QED
    BY <1>1, <2>2 DEF RowsHold, IInv
<1>5. RequestsHold'
  BY <1>1, <1>3, <1>4, DoneHolds
<1>6. grant' \in [Grants -> [org : Orgs \cup {Unset},
                           status : {"none", "requested", "approved", "denied"}]]
  BY <1>1, <1>2 DEF IInv, TypeOK
<1>7. TypeOK'
  BY <1>1, <1>6, DoneTyped DEF IInv, TypeOK
<1>8. QED
  BY <1>1, <1>3, <1>4, <1>5, <1>7, IsolationUnread DEF IInv

\* The directory, a job, or a step of something else changes no row.
LEMMA QuietKeeps ==
  ASSUME IInv, UNCHANGED <<tables, conn, requests, exposed>>
  PROVE  IInv'
<1>1. RowsStay /\ RowsHold'
  BY UnchangedTables
<1>2. TypeOK'
  BY DEF IInv, TypeOK, tables, requests
<1>3. QED
  BY <1>1, <1>2, WaitingHolds, IsolationUnread DEF IInv

LEMMA PlatformKeeps ==
  ASSUME IInv, NEW c \in Conns, Platform(c)
  PROVE  IInv'
<1>1. CASE ListOrgs(c)
  BY <1>1, QuietKeeps DEF ListOrgs, AfterSession
<1>2. ASSUME NEW o \in Orgs, VisitOrg(c, o) PROVE IInv'
  BY <1>2, QuietKeeps DEF VisitOrg, AfterSession
<1>3. QED
  BY <1>1, <1>2, RequestGrantKeeps, ProvisionKeeps DEF Platform

LEMMA InitHolds == Init => IInv
<1> SUFFICES ASSUME Init PROVE IInv
  OBVIOUS
<1>1. 0 \in 0..MaxAttempts /\ 1 \in 1..MaxAttempts
  BY ConstantsAssumption
<1>2. TypeOK
  BY <1>1, ConstantsAssumption DEF Init, TypeOK, NoInvite, Settings
<1>3. RowsHold
  BY ConstantsAssumption DEF Init, RowsHold, NoInvite
<1>4. QED
  BY <1>2, <1>3 DEF Init, IInv, RequestsHold, TenantIsolation

\* The inductive invariant is kept by every step of every request.
LEMMA StepKeeps == IInv /\ [Next]_vars => IInv'
<1> SUFFICES ASSUME IInv, [Next]_vars PROVE IInv'
  OBVIOUS
<1>1. CASE UNCHANGED vars
  BY <1>1, QuietKeeps DEF vars
<1>2. ASSUME NEW w \in Workers, NEW c \in Conns, Creating(w, c) PROVE IInv'
  BY <1>2, CheckFreeKeeps, CreateAttemptKeeps DEF Creating
<1>3. ASSUME NEW w \in Workers, NEW c \in Conns, Joining(w, c) PROVE IInv'
  BY <1>3, CheckFreeKeeps, FindInviteKeeps, AcceptInviteKeeps DEF Joining
<1>4. ASSUME NEW w \in Workers, NEW c \in Conns, Administering(w, c) PROVE IInv'
  BY <1>4, AuthorizeKeeps, InviteKeeps, PatchMemberKeeps DEF Administering
<1>5. ASSUME NEW w \in Workers, NEW c \in Conns, Supporting(w, c) PROVE IInv'
  BY <1>5, LoadGrantKeeps, DecideGrantKeeps DEF Supporting
<1>6. ASSUME NEW w \in Workers, CreateBegin(w) \/ Abandon(w) PROVE IInv'
  BY <1>6, CreateBeginKeeps, AbandonKeeps
<1>7. ASSUME NEW w \in Workers, NEW c \in Conns, NEW o \in Orgs, VerifyCertificate(w, c, o)
      PROVE  IInv'
  BY <1>7, VerifyCertificateKeeps
<1>8. QED
  BY <1>1, <1>2, <1>3, <1>4, <1>5, <1>6, <1>7, PlatformKeeps, InviteExpiresKeeps DEF Next

\* Rows refer to existing organizations, connections are clean between
\* sessions, what a request has read stays true, and no request reads another
\* organization's rows, for any number of overlapping requests.
THEOREM AccountsInvariance == Spec => []IInv
BY InitHolds, StepKeeps, PTL DEF Spec

\* No request reads a row of an organization its user neither belonged to nor
\* was invited to, but for the one row it presents the token or the id of.
THEOREM TenantsIsolated == Spec => []TenantIsolation
<1>1. IInv => TenantIsolation
  BY DEF IInv
<1>2. QED
  BY <1>1, AccountsInvariance, PTL

-----------------------------------------------------------------------------
(* Who becomes a member                                                     *)

\* The steps that write memberships, and all others.
LEMMA MembershipSteps ==
  ASSUME [Next]_vars
  PROVE  \/ UNCHANGED <<role, status>>
         \/ \E w \in Workers, c \in Conns, o \in Orgs : CreateAttempt(w, c, o)
         \/ \E w \in Workers, c \in Conns : AcceptInvite(w, c)
         \/ \E w \in Workers, c \in Conns, u \in Users, r \in AllRoles,
              s \in {"active", "deactivated"} : PatchMember(w, c, u, r, s)
<1>1. ASSUME NEW w \in Workers, NEW c \in Conns, Joining(w, c), ~AcceptInvite(w, c)
      PROVE  UNCHANGED <<role, status>>
  BY <1>1 DEF Joining, FindInvite, CheckFree, tables
<1>2. ASSUME NEW w \in Workers, NEW c \in Conns, CheckFree(w, c, "create", "creating")
      PROVE  UNCHANGED <<role, status>>
  BY <1>2 DEF CheckFree, tables
<1>3. ASSUME NEW w \in Workers, NEW c \in Conns, Supporting(w, c)
      PROVE  UNCHANGED <<role, status>>
  BY <1>3 DEF Supporting, LoadGrant, DecideGrant, tables
<1>10. ASSUME NEW w \in Workers, NEW c \in Conns, NEW o \in Orgs, VerifyCertificate(w, c, o)
       PROVE  UNCHANGED <<role, status>>
  BY <1>10 DEF VerifyCertificate, tables
<1>4. ASSUME NEW c \in Conns, Platform(c)
      PROVE  UNCHANGED <<role, status>>
  BY <1>4 DEF Platform, ListOrgs, VisitOrg, RequestGrant, Provision, tables
<1>5. ASSUME NEW w \in Workers, CreateBegin(w) \/ Abandon(w)
      PROVE  UNCHANGED <<role, status>>
  BY <1>5 DEF CreateBegin, Abandon, tables
<1>6. ASSUME NEW i \in Invites, InviteExpires(i)
      PROVE  UNCHANGED <<role, status>>
  BY <1>6 DEF InviteExpires
<1>7. ASSUME NEW w \in Workers, NEW c \in Conns, NEW o \in Orgs, Authorize(w, c, o)
      PROVE  UNCHANGED <<role, status>>
  BY <1>7 DEF Authorize, tables
<1>8. ASSUME NEW w \in Workers, NEW c \in Conns, NEW i \in Invites, NEW u \in Users,
             NEW r \in Roles, Invite(w, c, i, u, r)
      PROVE  UNCHANGED <<role, status>>
  BY <1>8 DEF Invite
<1>9. CASE UNCHANGED vars
  BY <1>9 DEF vars, tables
<1>11. QED
  BY <1>1, <1>2, <1>3, <1>4, <1>5, <1>6, <1>7, <1>8, <1>9, <1>10
     DEF Next, Creating, Administering

\* An invite of the organization, addressed to the user and now used up, stands
\* behind every membership that its creation did not give.
THEOREM MembersWereInvited == Spec => JoinedByInvite
<1> DEFINE Joins(o, u) == status[o][u] = "none" /\ status'[o][u] # "none" /\ slug[o] # 0
           Invited(o, u) == \E i \in Invites :
             /\ invite[i].org = o /\ invite[i].email = u /\ invite[i].role = role'[o][u]
             /\ invite'[i].state = "used"
<1>1. ASSUME IInv, [Next]_vars, NEW o \in Orgs, NEW u \in Users, Joins(o, u)
      PROVE  Invited(o, u)
  <2>1. ~UNCHANGED <<role, status>>
    BY <1>1
  <2>2. ASSUME NEW w \in Workers, NEW c \in Conns, NEW p \in Orgs, CreateAttempt(w, c, p)
        PROVE  FALSE
    BY <1>1, <2>2 DEF CreateAttempt, tables, IInv, TypeOK
  <2>3. ASSUME NEW w \in Workers, NEW c \in Conns, NEW v \in Users, NEW r \in AllRoles,
               NEW s \in {"active", "deactivated"}, PatchMember(w, c, v, r, s)
        PROVE  FALSE
    BY <1>1, <2>3 DEF PatchMember, VisibleMemberships, IInv, TypeOK
  <2>4. ASSUME NEW w \in Workers, NEW c \in Conns, AcceptInvite(w, c)
        PROVE  Invited(o, u)
    <3>1. /\ arg[w] \in Invites /\ org[w] \in Orgs /\ Actor[w] \in Users
          /\ invite[arg[w]].org = org[w] /\ invite[arg[w]].email = Actor[w]
      BY <1>1, <2>4, ConstantsAssumption DEF AcceptInvite, IInv, RequestsHold
    <3>2. /\ role' = [role EXCEPT ![org[w]][Actor[w]] = invite[arg[w]].role]
          /\ status' = [status EXCEPT ![org[w]][Actor[w]] = "active"]
          /\ invite' = [invite EXCEPT ![arg[w]].state = "used"]
      BY <1>1, <2>1, <2>4 DEF AcceptInvite
    <3>3. o = org[w] /\ u = Actor[w]
      BY <1>1, <3>1, <3>2 DEF IInv, TypeOK
    <3>4. role'[o][u] = invite[arg[w]].role /\ invite'[arg[w]].state = "used"
      BY <1>1, <3>1, <3>2, <3>3 DEF IInv, TypeOK
    <3>5. QED
      BY <3>1, <3>3, <3>4
  <2>5. QED
    BY <1>1, <2>1, <2>2, <2>3, <2>4, MembershipSteps
<1>2. IInv /\ [Next]_vars =>
        [\A o \in Orgs, u \in Users : Joins(o, u) => Invited(o, u)]_vars
  BY <1>1
<1>3. QED
  BY <1>2, AccountsInvariance, PTL DEF Spec, JoinedByInvite

-----------------------------------------------------------------------------
(* Support grants are decided once                                          *)

LEMMA GrantSteps ==
  ASSUME [Next]_vars
  PROVE  \/ UNCHANGED grant
         \/ \E c \in Conns, g \in Grants, o \in Orgs : RequestGrant(c, g, o)
         \/ \E w \in Workers, verdict \in {"approved", "denied"} : DecideGrant(w, verdict)
<1>1. ASSUME NEW w \in Workers, NEW c \in Conns, Creating(w, c) \/ Joining(w, c)
      PROVE  UNCHANGED grant
  BY <1>1 DEF Creating, Joining, CheckFree, CreateAttempt, FindInvite, AcceptInvite, tables
<1>2. ASSUME NEW w \in Workers, NEW c \in Conns, Administering(w, c)
      PROVE  UNCHANGED grant
  BY <1>2 DEF Administering, Authorize, Invite, PatchMember, tables
<1>3. ASSUME NEW w \in Workers, NEW c \in Conns, NEW g \in Grants, LoadGrant(w, c, g)
      PROVE  UNCHANGED grant
  BY <1>3 DEF LoadGrant, tables
<1>4. ASSUME NEW w \in Workers, CreateBegin(w) \/ Abandon(w)
      PROVE  UNCHANGED grant
  BY <1>4 DEF CreateBegin, Abandon, tables
<1>5. ASSUME NEW i \in Invites, InviteExpires(i)
      PROVE  UNCHANGED grant
  BY <1>5 DEF InviteExpires
<1>6. CASE UNCHANGED vars
  BY <1>6 DEF vars, tables
<1>7. ASSUME NEW c \in Conns, ListOrgs(c) \/ \E o \in Orgs : VisitOrg(c, o)
                 \/ \E i \in Invites, u \in Users : Provision(c, o, i, u)
      PROVE  UNCHANGED grant
  BY <1>7 DEF ListOrgs, VisitOrg, Provision, tables
<1>8. ASSUME NEW w \in Workers, NEW c \in Conns, NEW o \in Orgs, VerifyCertificate(w, c, o)
      PROVE  UNCHANGED grant
  BY <1>8 DEF VerifyCertificate, tables
<1>9. QED
  BY <1>1, <1>2, <1>3, <1>4, <1>5, <1>6, <1>7, <1>8 DEF Next, Supporting, Platform

\* The requests that load and update a grant implement the abstract decision:
\* asked for once, then approved or denied, for good.
THEOREM GrantsDecidedOnce == Spec => DecidedOnce
<1> DEFINE decision == [g \in Grants |-> grant[g].status]
<1>1. Init => Verdicts!Init
  BY DEF Init, Verdicts!Init
<1>2. ASSUME IInv, [Next]_vars
      PROVE  [Verdicts!Next]_decision
  <2>1. grant \in [Grants -> [org : Orgs \cup {Unset},
                           status : {"none", "requested", "approved", "denied"}]]
    BY <1>2 DEF IInv, TypeOK
  <2>2. CASE UNCHANGED grant
    BY <2>2
  <2>3. ASSUME NEW c \in Conns, NEW g \in Grants, NEW o \in Orgs, RequestGrant(c, g, o)
        PROVE  Verdicts!Next
    <3>1. grant[g].status = "none"
      BY <1>2, <2>3 DEF RequestGrant, IInv, RowsHold
    <3>2. grant' = [grant EXCEPT ![g] = [org |-> o, status |-> "requested"]]
      BY <2>3 DEF RequestGrant
    <3>3. decision' = [decision EXCEPT ![g] = "requested"]
      BY <2>1, <3>2
    <3>4. Verdicts!Ask(g)
      BY <3>1, <3>3 DEF Verdicts!Ask
    <3>5. QED
      BY <3>4 DEF Verdicts!Next
  <2>4. ASSUME NEW w \in Workers, NEW verdict \in {"approved", "denied"},
               DecideGrant(w, verdict), ~UNCHANGED grant
        PROVE  Verdicts!Next
    <3>1. arg[w] \in Grants
      BY <1>2, <2>4 DEF DecideGrant, IInv, RequestsHold
    <3>2. /\ grant[arg[w]].status = "requested"
          /\ grant' = [grant EXCEPT ![arg[w]].status = verdict]
      BY <2>4 DEF DecideGrant, CurrentStatus
    <3>3. PICK g \in Grants : g = arg[w]
      BY <3>1
    <3>4. decision' = [decision EXCEPT ![g] = verdict]
      BY <2>1, <3>2, <3>3
    <3>5. Verdicts!Decide(g)
      BY <3>2, <3>3, <3>4 DEF Verdicts!Decide
    <3>6. QED
      BY <3>5 DEF Verdicts!Next
  <2>5. QED
    BY <1>2, <2>2, <2>3, <2>4, GrantSteps
<1>3. IInv /\ [Next]_vars => [Verdicts!Next]_decision
  BY <1>2
<1>4. QED
  BY <1>1, <1>3, AccountsInvariance, PTL DEF Spec, DecidedOnce, Verdicts!Spec

-----------------------------------------------------------------------------
(* A creation is refused only when nothing is free                          *)

\* The candidates before the one a request tries next are taken.
TriedAreTaken ==
  \A w \in Workers : \A n \in 1..MaxAttempts :
    n < attempt[w] => \E p \in Orgs : slug[p] = n

LEMMA SlugsStay ==
  ASSUME IInv, [Next]_vars, NEW p \in Orgs, slug[p] # 0
  PROVE  slug'[p] = slug[p]
<1>1. ASSUME NEW w \in Workers, NEW c \in Conns, NEW o \in Orgs, CreateAttempt(w, c, o)
      PROVE  slug'[p] = slug[p]
  BY <1>1 DEF CreateAttempt, tables, IInv, TypeOK
<1>2. ASSUME NEW c \in Conns, NEW o \in Orgs, NEW i \in Invites, NEW u \in Users,
             Provision(c, o, i, u)
      PROVE  slug'[p] = slug[p]
  BY <1>2 DEF Provision, IInv, TypeOK
<1>3. ASSUME NEW w \in Workers, NEW c \in Conns,
             Joining(w, c) \/ CheckFree(w, c, "create", "creating")
      PROVE  UNCHANGED slug
  BY <1>3 DEF Joining, CheckFree, FindInvite, AcceptInvite, tables
<1>4. ASSUME NEW w \in Workers, NEW c \in Conns, Administering(w, c)
      PROVE  UNCHANGED slug
  BY <1>4 DEF Administering, Authorize, Invite, PatchMember, tables
<1>5. ASSUME NEW w \in Workers, NEW c \in Conns, Supporting(w, c)
      PROVE  UNCHANGED slug
  BY <1>5 DEF Supporting, LoadGrant, DecideGrant, tables
<1>6. ASSUME NEW w \in Workers, CreateBegin(w) \/ Abandon(w)
      PROVE  UNCHANGED slug
  BY <1>6 DEF CreateBegin, Abandon, tables
<1>7. ASSUME NEW c \in Conns, ListOrgs(c) \/ \E o \in Orgs : VisitOrg(c, o)
                 \/ \E g \in Grants : RequestGrant(c, g, o)
      PROVE  UNCHANGED slug
  BY <1>7 DEF ListOrgs, VisitOrg, RequestGrant, tables
<1>8. CASE UNCHANGED vars \/ \E i \in Invites : InviteExpires(i)
  BY <1>8 DEF vars, tables, InviteExpires
<1>9. ASSUME NEW w \in Workers, NEW c \in Conns, NEW o \in Orgs, VerifyCertificate(w, c, o)
      PROVE  UNCHANGED slug
  BY <1>9 DEF VerifyCertificate, tables
<1>10. QED
  BY <1>1, <1>2, <1>3, <1>4, <1>5, <1>6, <1>7, <1>8, <1>9 DEF Next, Creating, Platform

\* The next candidate: the first again, the same, or the one after a taken one.
LEMMA AttemptSteps ==
  ASSUME IInv, [Next]_vars, NEW w \in Workers
  PROVE  \/ attempt'[w] = 1 \/ attempt'[w] = attempt[w]
         \/ attempt'[w] = attempt[w] + 1 /\ SlugTaken(w)
<1> DEFINE Steps == attempt'[w] = 1 \/ attempt'[w] = attempt[w]
<1>1. ASSUME NEW v \in Workers, Done(v) PROVE Steps
  BY <1>1, ConstantsAssumption DEF Done, IInv, TypeOK
<1>2. ASSUME NEW v \in Workers, NEW c \in Conns, NEW o \in Orgs, CreateAttempt(v, c, o)
      PROVE  Steps \/ (attempt'[w] = attempt[w] + 1 /\ SlugTaken(w))
  <2>1. CASE Done(v)
    BY <2>1, <1>1
  <2>2. CASE SlugTaken(v) /\ attempt' = [attempt EXCEPT ![v] = @ + 1]
    BY <2>2 DEF IInv, TypeOK
  <2>3. QED
    BY <1>2, <2>1, <2>2 DEF CreateAttempt
<1>3. ASSUME NEW v \in Workers, NEW c \in Conns,
             Joining(v, c) \/ CheckFree(v, c, "create", "creating")
      PROVE  Done(v) \/ UNCHANGED attempt
  BY <1>3 DEF Joining, CheckFree, FindInvite, AcceptInvite, requests
<1>4. ASSUME NEW v \in Workers, NEW c \in Conns, Administering(v, c)
      PROVE  Done(v) \/ UNCHANGED attempt
  BY <1>4 DEF Administering, Authorize, Invite, PatchMember
<1>5. ASSUME NEW v \in Workers, NEW c \in Conns, Supporting(v, c)
      PROVE  Done(v) \/ UNCHANGED attempt
  BY <1>5 DEF Supporting, LoadGrant, DecideGrant
<1>6. ASSUME NEW v \in Workers, CreateBegin(v) \/ Abandon(v)
      PROVE  Done(v) \/ UNCHANGED attempt
  BY <1>6 DEF CreateBegin, Abandon
<1>7. ASSUME NEW c \in Conns, Platform(c)
      PROVE  UNCHANGED attempt
  BY <1>7 DEF Platform, ListOrgs, VisitOrg, RequestGrant, Provision, requests
<1>8. CASE UNCHANGED vars \/ \E i \in Invites : InviteExpires(i)
  BY <1>8 DEF vars, requests, InviteExpires
<1>9. ASSUME NEW v \in Workers, NEW c \in Conns, NEW o \in Orgs, VerifyCertificate(v, c, o)
      PROVE  UNCHANGED attempt
  BY <1>9 DEF VerifyCertificate, requests
<1>10. QED
  BY <1>1, <1>2, <1>3, <1>4, <1>5, <1>6, <1>7, <1>8, <1>9 DEF Next, Creating

LEMMA TriedStep ==
  ASSUME IInv, [Next]_vars, TriedAreTaken
  PROVE  TriedAreTaken'
<1> SUFFICES ASSUME NEW w \in Workers, NEW n \in 1..MaxAttempts, n < attempt'[w]
             PROVE  \E p \in Orgs : slug'[p] = n
  BY DEF TriedAreTaken
<1>1. attempt[w] \in Nat /\ n \in Nat \ {0}
  BY ConstantsAssumption DEF IInv, TypeOK
<1>2. n < attempt[w] \/ (n = attempt[w] /\ SlugTaken(w))
  BY <1>1, AttemptSteps
<1>3. PICK p \in Orgs : slug[p] = n
  BY <1>2 DEF TriedAreTaken, SlugTaken
<1>4. QED
  BY <1>1, <1>3, SlugsStay

\* "Could not allocate a unique slug" is true when it is said.
THEOREM RefusedOnlyWhenFull == Spec => RefusedWhenFull
<1> DEFINE Refused == \E w \in Workers, c \in Conns, o \in Orgs :
                        CreateAttempt(w, c, o) /\ step'[w] = "idle" /\ slug' = slug
           Full == \A n \in 1..MaxAttempts : \E p \in Orgs : slug[p] = n
<1>1. Init => TriedAreTaken
  BY ConstantsAssumption DEF Init, TriedAreTaken
<1>2. ASSUME IInv, TriedAreTaken, NEW w \in Workers, NEW c \in Conns, NEW o \in Orgs,
             CreateAttempt(w, c, o), step'[w] = "idle", slug' = slug
      PROVE  Full
  <2>1. SlugTaken(w)
    <3>1. attempt[w] # 0 /\ slug[o] = 0 /\ slug \in [Orgs -> 0..MaxAttempts]
      BY <1>2, ConstantsAssumption DEF CreateAttempt, IInv, TypeOK
    <3>2. QED
      BY <1>2, <3>1 DEF CreateAttempt
  <2>2. GivesUp(w)
    BY <1>2, <2>1 DEF CreateAttempt
  <2>3. QED
    BY <1>2, <2>1, <2>2, ConstantsAssumption DEF GivesUp, SlugTaken, TriedAreTaken
<1>3. IInv /\ TriedAreTaken /\ [Next]_vars => TriedAreTaken'
  BY TriedStep
<1>4. IInv /\ TriedAreTaken /\ [Next]_vars =>
        [\A w \in Workers, c \in Conns, o \in Orgs :
           (CreateAttempt(w, c, o) /\ step'[w] = "idle" /\ slug' = slug) => Full]_vars
  BY <1>2
<1>5. QED
  BY <1>1, <1>3, <1>4, AccountsInvariance, PTL DEF Spec, RefusedWhenFull
=============================================================================
