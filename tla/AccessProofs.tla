---------------------------- MODULE AccessProofs ----------------------------
(***************************************************************************)
(* For any number of organizations, users, keys, rows and requests: no      *)
(* request reaches beyond its organization or its role, an organization     *)
(* keeps its owner, and few requests outlive the rights they run under.     *)
(***************************************************************************)
EXTENDS Access, TLAPS, FiniteSetTheorems

\* What a request holds at each stage: as whom it was admitted, and that what it
\* has found existed.
Admission ==
    /\ \A k \in Keys : key[k].status # "ABSENT" => key[k].org \in Orgs
    /\ \A r \in Requests :
          /\ request[r].stage \in {"idle", "admitted"} => request[r].target = None
          /\ request[r].stage \in {"missing", "inactive", "removable"} => request[r].target \in Users
          /\ request[r].stage # "idle" => request[r].org \in Orgs /\ request[r].by # None
          /\ request[r].by \in Keys => request[r].role = "NONE"
          /\ request[r].by \notin Keys => request[r].scopes = {}
          /\ request[r].target \in Rows => row[request[r].target].status # "ABSENT"
          /\ request[r].target \in Keys => key[request[r].target].status # "ABSENT"

Base == TypeOK /\ Admission

LEMMA BaseInit == Init => Base
  BY NamesAssumption, ChangesAssumption
  DEF Init, Base, TypeOK, Admission, Nobody, NoKey, NoRow, Idle

\* The steps of a request that read.
Reads(r) ==
    \/ \E o \in Orgs, u \in Users : RequireOrg(r, u, o)
    \/ \E k \in Keys : AuthenticateApiKey(r, k)
    \/ \E u \in Users : FindInvitee(r, u) \/ FindMember(r, u) \/ FindRemovable(r, u)
    \/ \E k \in Keys : FindKey(r, k)
    \/ \E x \in Rows, kind \in Kinds : Find(r, x, kind)

\* The steps that write, and end the request: to the members, the keys, the rows.
WritesMember(r) == (\E role \in InputRoles : InviteMember(r, role)) \/ UpdateMember(r) \/ RemoveMember(r)
WritesKey(r)    == (\E k \in Keys, s \in InputScopes : CreateApiKey(r, k, s)) \/ RevokeApiKey(r)
WritesRow(r)    == \/ \E x \in Rows, kind \in Kinds : Create(r, x, kind)
                   \/ \E kind \in Kinds : Update(r, kind) \/ Delete(r, kind)

LEMMA Steps ==
    ASSUME [Next]_vars
    PROVE  \/ \E r \in Requests : \/ Reads(r) \/ Done(r) \/ UpdateOrganization(r)
                                  \/ WritesMember(r) \/ WritesKey(r) \/ WritesRow(r)
           \/ \E o \in Orgs, u \in Users : CreateOrganization(u, o)
           \/ \E k \in Keys : KeyExpires(k)
           \/ \E x, m \in Rows : OpenIncident(x, m)
           \/ \E x \in Rows : WindowTurns(x)
           \/ UNCHANGED vars
<1>1. ASSUME NEW r \in Requests, NEW kind \in Kinds, CreateFindWrite(r, kind)
      PROVE  Reads(r) \/ WritesRow(r)
  BY <1>1 DEF CreateFindWrite, Reads, WritesRow
<1>2. ASSUME NEW r \in Requests,
             \/ MonitorService(r) \/ IncidentService(r) \/ StatusPageService(r)
             \/ AlertingService(r) \/ MaintenanceService(r) \/ WebhookService(r) \/ Groups(r)
      PROVE  \E kind \in Kinds : CreateFindWrite(r, kind)
  BY <1>2 DEF MonitorService, IncidentService, StatusPageService, AlertingService,
              MaintenanceService, WebhookService, Groups, Kinds
<1>3. ASSUME NEW r \in Requests, OrgService(r) \/ ApiKeyService(r)
      PROVE  Reads(r) \/ UpdateOrganization(r) \/ WritesMember(r) \/ WritesKey(r)
  BY <1>3 DEF OrgService, ApiKeyService, Reads, WritesMember, WritesKey
<1> QED
  BY <1>1, <1>2, <1>3 DEF Next, Reads

-----------------------------------------------------------------------------
LEMMA Answered ==
    ASSUME TypeOK, NEW r \in Requests, Answer(r)
    PROVE  /\ request'[r] = Idle
           /\ \A q \in Requests \ {r} : request'[q] = request[q]
           /\ request' \in [Requests -> [stage : {"idle", "admitted", "missing", "inactive", "found",
                                                  "removable"},
                                         by : Users \cup Keys \cup {None}, org : Orgs \cup {None},
                                         role : Roles \cup {"NONE"}, scopes : InputScopes \cup {{}},
                                         target : Users \cup Keys \cup Rows \cup {None}]]
  BY DEF TypeOK, Answer, Idle

LEMMA Changed == TypeOK /\ Change => changes' \in 0..MaxChanges
  BY ChangesAssumption DEF TypeOK, Change

\* A key that gets another status.
LEMMA KeyStatus ==
    ASSUME Base, NEW k \in Keys, key[k].status # "ABSENT",
           KeyExpires(k) \/ \E r \in Requests : RevokeApiKey(r) /\ request[r].target = k
    PROVE  /\ key' \in [Keys -> [status : {"ABSENT", "LIVE", "EXPIRED", "REVOKED"},
                                 org : Orgs \cup {None}, scopes : InputScopes \cup {{}}]]
           /\ key'[k].status \in {"EXPIRED", "REVOKED"} /\ key'[k].org = key[k].org
           /\ \A l \in Keys \ {k} : key'[l] = key[l]
<1> DEFINE Key == [status : {"ABSENT", "LIVE", "EXPIRED", "REVOKED"},
                   org : Orgs \cup {None}, scopes : InputScopes \cup {{}}]
<1>1. key \in [Keys -> Key] /\ key[k] \in Key
  BY DEF Base, TypeOK
<1>2. PICK new \in {"EXPIRED", "REVOKED"} : key' = [key EXCEPT ![k].status = new]
  BY DEF KeyExpires, RevokeApiKey
<1>3. key'[k] = [key[k] EXCEPT !.status = new] /\ \A l \in Keys \ {k} : key'[l] = key[l]
  BY <1>1, <1>2
<1>4. [key[k] EXCEPT !.status = new] = [status |-> new, org |-> key[k].org, scopes |-> key[k].scopes]
  BY <1>1
<1>5. key' \in [Keys -> Key]
  BY <1>1, <1>2, <1>3, <1>4
<1> QED
  BY <1>3, <1>4, <1>5

\* A request that is admitted.
LEMMA Admits ==
    ASSUME Base, NEW r \in Requests,
           \/ \E o \in Orgs, u \in Users : RequireOrg(r, u, o)
           \/ \E k \in Keys : AuthenticateApiKey(r, k)
    PROVE  Base'
<1>1. PICK by \in Users \cup Keys, org \in Orgs, role \in Roles \cup {"NONE"},
           scopes \in InputScopes \cup {{}} :
         /\ request' = [request EXCEPT ![r] = Admitted(by, org, role, scopes)]
         /\ by \in Keys => role = "NONE"
         /\ by \notin Keys => scopes = {}
  <2>1. CASE \E o \in Orgs, u \in Users : RequireOrg(r, u, o)
    <3> PICK o \in Orgs, u \in Users : RequireOrg(r, u, o)
      BY <2>1
    <3>1. member[o][u].role \in Roles \cup {"NONE"} /\ u \notin Keys /\ {} \in InputScopes \cup {{}}
      BY NamesAssumption DEF Base, TypeOK
    <3> QED
      BY <3>1 DEF RequireOrg
  <2>2. CASE \E k \in Keys : AuthenticateApiKey(r, k)
    <3> PICK k \in Keys : AuthenticateApiKey(r, k)
      BY <2>2
    <3>1. key[k].org \in Orgs /\ key[k].scopes \in InputScopes \cup {{}}
      BY DEF AuthenticateApiKey, Base, TypeOK, Admission
    <3> QED
      BY <3>1 DEF AuthenticateApiKey
  <2> QED
    BY <2>1, <2>2
<1>2. UNCHANGED <<member, key, rowVars, patched, changes>>
  BY DEF RequireOrg, AuthenticateApiKey
<1>3. TypeOK'
  BY <1>1, <1>2 DEF Base, TypeOK, Admitted, rowVars
<1>4. request'[r] = Admitted(by, org, role, scopes) /\ \A q \in Requests \ {r} : request'[q] = request[q]
  BY <1>1 DEF Base, TypeOK
<1>5. Admission'
  BY <1>1, <1>2, <1>4, NamesAssumption DEF Base, Admission, Admitted, rowVars
<1> QED
  BY <1>3, <1>5 DEF Base

\* A request that has found what it goes on with.
LEMMA Finds ==
    ASSUME Base, NEW r \in Requests, request[r].stage = "admitted",
           NEW stage \in {"missing", "inactive", "found", "removable"},
           NEW target \in Users \cup Keys \cup Rows, Found(r, stage, target),
           stage # "found" => target \in Users,
           target \in Keys => key[target].status # "ABSENT",
           target \in Rows => row[target].status # "ABSENT"
    PROVE  Base'
<1>1. UNCHANGED <<member, key, row, links, phase, patched, changes>>
  BY DEF Found, rowVars
<1>2. /\ request' = [request EXCEPT ![r] = [request[r] EXCEPT !.stage = stage, !.target = target]]
      /\ request'[r] = [request[r] EXCEPT !.stage = stage, !.target = target]
      /\ \A q \in Requests \ {r} : request'[q] = request[q]
  BY DEF Found, Base, TypeOK
<1>3. TypeOK'
  <2> DEFINE Asked == [stage : {"idle", "admitted", "missing", "inactive", "found", "removable"},
                       by : Users \cup Keys \cup {None}, org : Orgs \cup {None},
                       role : Roles \cup {"NONE"}, scopes : InputScopes \cup {{}},
                       target : Users \cup Keys \cup Rows \cup {None}]
  <2>1. request \in [Requests -> Asked]
    BY DEF Base, TypeOK
  <2>2. [request[r] EXCEPT !.stage = stage, !.target = target] \in Asked
    BY <2>1
  <2>3. request' \in [Requests -> Asked]
    BY <1>2, <2>1, <2>2
  <2> QED
    BY <1>1, <2>3 DEF Base, TypeOK
<1>4. /\ request'[r].stage = stage /\ request'[r].target = target
      /\ request'[r].by = request[r].by /\ request'[r].org = request[r].org
      /\ request'[r].role = request[r].role /\ request'[r].scopes = request[r].scopes
  BY <1>2 DEF Base, TypeOK
<1>5. Admission'
  BY <1>1, <1>2, <1>4, NamesAssumption DEF Base, Admission
<1> QED
  BY <1>3, <1>5 DEF Base

LEMMA BaseReads ==
    ASSUME Base, NEW r \in Requests, Reads(r)
    PROVE  /\ Base'
           /\ UNCHANGED <<member, key, rowVars, patched>>
           /\ \A q \in Requests \ {r} : request'[q] = request[q]
<1>1. UNCHANGED <<member, key, rowVars, patched, changes>>
  BY ZenonT(60) DEF Reads, RequireOrg, AuthenticateApiKey, FindInvitee, FindMember, FindRemovable, FindKey,
         Find, Found
<1>2. \A q \in Requests \ {r} : request'[q] = request[q]
  BY DEF Reads, RequireOrg, AuthenticateApiKey, FindInvitee, FindMember, FindRemovable, FindKey,
         Find, Found, Base, TypeOK
<1>3. CASE \/ \E o \in Orgs, u \in Users : RequireOrg(r, u, o)
           \/ \E k \in Keys : AuthenticateApiKey(r, k)
  BY <1>1, <1>2, <1>3, Admits
<1>4. CASE \E u \in Users : FindInvitee(r, u) \/ FindMember(r, u) \/ FindRemovable(r, u)
  <2>1. PICK u \in Users, stage \in {"missing", "inactive", "found", "removable"} :
           request[r].stage = "admitted" /\ Found(r, stage, u)
    BY <1>4 DEF FindInvitee, FindMember, FindRemovable
  <2> QED
    BY <1>1, <1>2, <2>1, Finds, NamesAssumption
<1>5. CASE \E k \in Keys : FindKey(r, k)
  <2>1. PICK k \in Keys : /\ request[r].stage = "admitted" /\ key[k].status # "ABSENT"
                          /\ Found(r, "found", k)
    BY <1>5 DEF FindKey
  <2> QED
    BY <1>1, <1>2, <2>1, Finds, NamesAssumption
<1>6. CASE \E x \in Rows, kind \in Kinds : Find(r, x, kind)
  <2>1. PICK x \in Rows : /\ request[r].stage = "admitted" /\ row[x].status # "ABSENT"
                          /\ Found(r, "found", x)
    BY <1>6 DEF Find
  <2> QED
    BY <1>1, <1>2, <2>1, Finds, NamesAssumption
<1> QED
  BY <1>3, <1>4, <1>5, <1>6 DEF Reads

\* A step that ends requests, and takes away no key and no row.
LEMMA AdmissionKept ==
    ASSUME Base, \A q \in Requests : request'[q] = request[q] \/ request'[q] = Idle,
           \A k \in Keys : key'[k].status # "ABSENT" => key'[k].org \in Orgs,
           \A k \in Keys : key[k].status # "ABSENT" => key'[k].status # "ABSENT",
           \A x \in Rows : row[x].status # "ABSENT" => row'[x].status # "ABSENT"
    PROVE  Admission'
<1>1. \A q \in Requests : request'[q] = Idle =>
         request'[q].stage = "idle" /\ request'[q].target = None /\ request'[q].by = None
            /\ request'[q].scopes = {}
  BY DEF Idle
<1> QED
  BY <1>1, NamesAssumption DEF Base, Admission

LEMMA BaseMembers ==
    ASSUME Base, \/ \E r \in Requests : WritesMember(r)
                 \/ \E o \in Orgs, u \in Users : CreateOrganization(u, o)
    PROVE  Base'
<1>1. CASE \E r \in Requests : WritesMember(r)
  <2> PICK r \in Requests : WritesMember(r)
    BY <1>1
  <2>1. Answer(r) /\ UNCHANGED <<key, rowVars>>
    BY ZenonT(60) DEF WritesMember, InviteMember, UpdateMember, RemoveMember
  <2>2. changes' \in 0..MaxChanges
    BY Changed, ZenonT(60) DEF WritesMember, InviteMember, UpdateMember, RemoveMember, Base
  <2>3. member' \in [Orgs -> [Users -> [role : Roles \cup {"NONE"}, active : BOOLEAN]]]
    <3> DEFINE Member == [role : Roles \cup {"NONE"}, active : BOOLEAN]
               o == request[r].org
               u == request[r].target
    <3>1. CASE \E role \in InputRoles : InviteMember(r, role)
      <4>1. PICK role \in InputRoles :
               member' = [member EXCEPT ![o][u] = [role |-> role, active |-> TRUE]]
        BY <3>1 DEF InviteMember
      <4>2. [role |-> role, active |-> TRUE] \in Member
        BY InputsAssumption
      <4> QED
        BY <4>1, <4>2 DEF Base, TypeOK
    <3>2. CASE UpdateMember(r)
      <4>1. PICK role \in InputRoles \cup {member[o][u].role}, active \in BOOLEAN :
               member' = [member EXCEPT ![o][u] = [role |-> role, active |-> active]]
        BY <3>2, ZenonT(60) DEF UpdateMember
      <4>2. u \in Users /\ o \in Orgs
        BY <3>2, NamesAssumption DEF UpdateMember, Base, TypeOK, Admission
      <4>3. [role |-> role, active |-> active] \in Member
        BY <4>2, InputsAssumption DEF Base, TypeOK
      <4> QED
        BY <4>1, <4>3 DEF Base, TypeOK
    <3>3. CASE RemoveMember(r)
      <4>1. u \in Users /\ o \in Orgs
        BY <3>3, NamesAssumption DEF RemoveMember, Base, TypeOK, Admission
      <4>2. member[o] \in [Users -> Member] /\ member[o][u] \in Member
        BY <4>1 DEF Base, TypeOK
      <4>3. [member[o][u] EXCEPT !.active = FALSE] \in Member
        BY <4>2
      <4>4. [member[o] EXCEPT ![u] = [member[o][u] EXCEPT !.active = FALSE]] \in [Users -> Member]
        BY <4>2, <4>3
      <4> QED
        BY <3>3, <4>4 DEF RemoveMember, Base, TypeOK
    <3> QED
      BY <3>1, <3>2, <3>3 DEF WritesMember
  <2>4. patched' \in [Orgs -> BOOLEAN]
    BY ZenonT(60) DEF WritesMember, InviteMember, UpdateMember, RemoveMember, Base, TypeOK
  <2>5. TypeOK'
    BY <2>1, <2>2, <2>3, <2>4, Answered DEF Base, TypeOK, rowVars
  <2>6. \A q \in Requests : request'[q] = request[q] \/ request'[q] = Idle
    BY <2>1, Answered DEF Base
  <2>7. Admission'
    BY <2>1, <2>6, AdmissionKept DEF Base, Admission, rowVars
  <2> QED
    BY <2>5, <2>7 DEF Base
<1>2. CASE \E o \in Orgs, u \in Users : CreateOrganization(u, o)
  BY <1>2, ChangesAssumption DEF CreateOrganization, Change, Base, TypeOK, Admission, Roles, rowVars
<1> QED
  BY <1>1, <1>2

LEMMA BaseKeys ==
    ASSUME Base, (\E r \in Requests : WritesKey(r)) \/ (\E k \in Keys : KeyExpires(k))
    PROVE  Base'
<1>1. CASE \E r \in Requests : WritesKey(r)
  <2> PICK r \in Requests : WritesKey(r)
    BY <1>1
  <2>1. Answer(r) /\ UNCHANGED <<member, rowVars, patched>>
    BY DEF WritesKey, CreateApiKey, RevokeApiKey
  <2>2. changes' \in 0..MaxChanges
    BY Changed DEF WritesKey, CreateApiKey, RevokeApiKey, Base
  <2>3. /\ key' \in [Keys -> [status : {"ABSENT", "LIVE", "EXPIRED", "REVOKED"},
                              org : Orgs \cup {None}, scopes : InputScopes \cup {{}}]]
        /\ \A k \in Keys : key[k].status # "ABSENT" => key'[k].status # "ABSENT" /\ key'[k].org = key[k].org
        /\ \A k \in Keys : key'[k].status # "ABSENT" => key'[k].org \in Orgs
    <3>1. CASE \E k \in Keys, s \in InputScopes : CreateApiKey(r, k, s)
      <4> PICK k \in Keys, s \in InputScopes : CreateApiKey(r, k, s)
        BY <3>1
      <4>1. request[r].org \in Orgs
        BY DEF CreateApiKey, Base, TypeOK, Admission
      <4> QED
        BY <4>1 DEF CreateApiKey, Base, TypeOK, Admission
    <3>2. CASE RevokeApiKey(r)
      <4>1. request[r].target \in Keys /\ key[request[r].target].status # "ABSENT"
        BY <3>2 DEF RevokeApiKey, Base, Admission
      <4> QED
        BY <3>2, <4>1, KeyStatus DEF Base, Admission
    <3> QED
      BY <3>1, <3>2 DEF WritesKey
  <2> QED
    <3>1. TypeOK'
      BY <2>1, <2>2, <2>3, Answered DEF Base, TypeOK, rowVars
    <3>2. Admission'
      BY <2>1, <2>3, Answered, NamesAssumption DEF Base, Admission, Idle, rowVars
    <3> QED
      BY <3>1, <3>2 DEF Base
<1>2. CASE \E k \in Keys : KeyExpires(k)
  <2> PICK k \in Keys : KeyExpires(k)
    BY <1>2
  <2>1. UNCHANGED <<member, rowVars, request, patched, changes>>
    BY DEF KeyExpires
  <2>2. /\ key' \in [Keys -> [status : {"ABSENT", "LIVE", "EXPIRED", "REVOKED"},
                              org : Orgs \cup {None}, scopes : InputScopes \cup {{}}]]
        /\ \A l \in Keys : /\ key[l].status # "ABSENT" <=> key'[l].status # "ABSENT"
                           /\ key'[l].org = key[l].org
    <3>1. key[k].status # "ABSENT"
      BY DEF KeyExpires
    <3> QED
      BY <3>1, KeyStatus
  <2> QED
    BY <2>1, <2>2 DEF Base, TypeOK, Admission, rowVars
<1> QED
  BY <1>1, <1>2

RowType == [status : {"ABSENT", "PRESENT", "DELETED"}, kind : Kinds \cup {"none"},
            org : Orgs \cup {None}, from : Orgs \cup {None},
            writer : Roles \cup {"NONE", "KEY", "ENGINE"}]

\* What a step leaves of the rows.
RowsTyped ==
    /\ row' \in [Rows -> RowType] /\ links' \in [Rows -> SUBSET Rows]
    /\ phase' \in [Rows -> {"before", "during", "after"}]
    /\ \A x \in Rows : row[x].status # "ABSENT" => row'[x].status # "ABSENT"

LEMMA WrittenRow ==
    ASSUME Base, NEW r \in Requests, request[r].stage # "idle", NEW y \in Rows,
           NEW status \in {"PRESENT", "DELETED"}
    PROVE  Written(r, y, status) \in RowType
  BY DEF Written, As, RowType, Base, TypeOK, Admission

LEMMA LinkedRows ==
    ASSUME NEW r \in Requests, NEW kind \in Kinds, NEW L \in LinkSets(r, kind)
    PROVE  \A y \in L : /\ y \in Rows /\ row[y].status = "PRESENT"
                        /\ kind = "policy" => row[y].org = request[r].org
                        /\ kind # "incident"
  BY DEF LinkSets, Linkable, Linked, Kinds

LEMMA BaseRows ==
    ASSUME Base, \/ \E r \in Requests : WritesRow(r)
                 \/ \E x, m \in Rows : OpenIncident(x, m)
                 \/ \E x \in Rows : WindowTurns(x)
    PROVE  Base'
<1> USE DEF RowType, RowsTyped
<1>1. RowsTyped
  <2>0. /\ row \in [Rows -> RowType] /\ links \in [Rows -> SUBSET Rows]
        /\ phase \in [Rows -> {"before", "during", "after"}]
    BY DEF Base, TypeOK
  <2>1. ASSUME NEW r \in Requests, NEW x \in Rows, NEW kind \in Kinds, Create(r, x, kind)
        PROVE  RowsTyped
    <3>1. PICK L \in LinkSets(r, kind) : links' = [links EXCEPT ![x] = L]
      BY <2>1 DEF Create
    <3>2. L \subseteq Rows
      BY LinkedRows
    <3>3. request[r].org \in Orgs /\ As(r) \in Roles \cup {"NONE", "KEY", "ENGINE"}
      BY <2>1 DEF Create, As, Base, TypeOK, Admission
    <3> QED
      BY <2>0, <2>1, <3>1, <3>2, <3>3 DEF Create
  <2>2. ASSUME NEW r \in Requests, NEW kind \in Kinds, Update(r, kind)
        PROVE  RowsTyped
    <3>1. PICK L \in {links[request[r].target]} \cup LinkSets(r, kind) :
             links' = [links EXCEPT ![request[r].target] = L]
      BY <2>2 DEF Update
    <3>2. request[r].target \in Rows /\ request[r].stage # "idle" /\ phase' = phase
      BY <2>2 DEF Update, Writes
    <3>3. L \subseteq Rows
      BY <2>0, <3>1, <3>2, LinkedRows
    <3>4. Written(r, request[r].target, "PRESENT") \in RowType
      BY <3>2, WrittenRow
    <3>5. row' = [row EXCEPT ![request[r].target] = Written(r, request[r].target, "PRESENT")]
      BY <2>2 DEF Update
    <3>6. Written(r, request[r].target, "PRESENT").status # "ABSENT"
      BY DEF Written
    <3> QED
      BY <2>0, <3>1, <3>2, <3>3, <3>4, <3>5, <3>6
  <2>3. ASSUME NEW r \in Requests, NEW kind \in Kinds, Delete(r, kind)
        PROVE  RowsTyped
    <3>1. request[r].stage # "idle" /\ phase' = phase
      BY <2>3 DEF Delete, Writes
    <3>2. \A y \in Rows : Written(r, y, "DELETED") \in RowType
                           /\ Written(r, y, "DELETED").status # "ABSENT"
      BY <3>1, WrittenRow DEF Written
    <3> DEFINE G == Gone(request[r].target)
    <3>3. /\ row' = [y \in Rows |-> IF y \in G THEN Written(r, y, "DELETED") ELSE row[y]]
          /\ links' = [y \in Rows |-> IF y \in G THEN {} ELSE links[y] \ G]
      BY <2>3 DEF Delete
    <3> HIDE DEF G
    <3> QED
      BY <2>0, <3>1, <3>2, <3>3
  <2>4. ASSUME NEW x \in Rows, NEW m \in Rows, OpenIncident(x, m)
        PROVE  RowsTyped
    <3>1. row[m].org \in Orgs \cup {None} /\ "incident" \in Kinds
      BY <2>0 DEF Kinds
    <3> QED
      BY <2>0, <2>4, <3>1 DEF OpenIncident
  <2>5. ASSUME NEW x \in Rows, WindowTurns(x)
        PROVE  RowsTyped
    BY <2>0, <2>5 DEF WindowTurns
  <2> QED
    BY <2>1, <2>2, <2>3, <2>4, <2>5 DEF WritesRow
<1>2. changes' \in 0..MaxChanges /\ UNCHANGED <<member, key, patched>>
  BY Changed, ZenonT(60)
  DEF WritesRow, Create, Update, Delete, Writes, OpenIncident, WindowTurns, Base, TypeOK
<1>3. (\E r \in Requests : Answer(r)) \/ request' = request
  BY ZenonT(60) DEF WritesRow, Create, Update, Delete, Writes, OpenIncident, WindowTurns
<1>4. TypeOK'
  BY <1>1, <1>2, <1>3, Answered DEF Base, TypeOK
<1>5. \A q \in Requests : request'[q] = request[q] \/ request'[q] = Idle
  BY <1>3, Answered DEF Base
<1>6. Admission'
  BY <1>1, <1>2, <1>5, AdmissionKept DEF Base, Admission
<1> QED
  BY <1>4, <1>6 DEF Base

LEMMA BaseNext == Base /\ [Next]_vars => Base'
<1> SUFFICES ASSUME Base, [Next]_vars PROVE Base'
  OBVIOUS
<1>1. CASE \E r \in Requests : Done(r) \/ UpdateOrganization(r)
  <2>1. changes' \in 0..MaxChanges /\ UNCHANGED <<member, key, rowVars, patched>>
    BY <1>1, ChangesAssumption DEF Done, UpdateOrganization, Change, Base, TypeOK
  <2>2. \E r \in Requests : Answer(r)
    BY <1>1 DEF Done, UpdateOrganization
  <2>3. TypeOK'
    BY <2>1, <2>2, Answered DEF Base, TypeOK, rowVars
  <2>4. \A q \in Requests : request'[q] = request[q] \/ request'[q] = Idle
    BY <2>2, Answered DEF Base
  <2>5. Admission'
    BY <2>1, <2>4, AdmissionKept DEF Base, Admission, rowVars
  <2> QED
    BY <2>3, <2>5 DEF Base
<1>2. CASE UNCHANGED vars
  BY <1>2 DEF vars, Base, TypeOK, Admission, rowVars
<1> QED
  BY <1>1, <1>2, Steps, BaseReads, BaseMembers, BaseKeys, BaseRows

LEMMA BaseInvariant == Spec => []Base
  BY BaseInit, BaseNext, PTL DEF Spec

\* Type correctness.
THEOREM AccessTypeCorrect == Spec => []TypeOK
  BY BaseInvariant, PTL DEF Base

-----------------------------------------------------------------------------
\* A request has written row x: a new row belongs to the organization of the
\* request; an old one is the row it has found, and with it go incidents and
\* webhooks.
Wrote(r, x, what) ==
    /\ row'[x].from = request[r].org /\ row'[x].writer = As(r)
    /\ May(r, row'[x].kind, what) /\ row'[x].kind \in Kinds
    /\ \/ row[x].status = "ABSENT" /\ row'[x].org = request[r].org
       \/ request[r].target = x /\ row'[x].org = row[x].org
    /\ \A y \in Rows \ {x} :
          \/ row'[y] = row[y]
          \/ /\ what = "delete" /\ request[r].target = x /\ x \in links[y]
             /\ row'[y] = Written(r, y, "DELETED")
             /\ row[y].kind \in {"incident", "webhook"}

LEMMA RowWritten ==
    ASSUME Base, NEW r \in Requests, WritesRow(r)
    PROVE  \E x \in Rows, what \in {"create", "update", "delete"} : Wrote(r, x, what)
<1>1. CASE \E x \in Rows, kind \in Kinds : Create(r, x, kind)
  BY <1>1 DEF Create, Wrote, Base, TypeOK
<1>2. ASSUME NEW kind \in Kinds, Update(r, kind)
      PROVE  \E x \in Rows, what \in {"create", "update", "delete"} : Wrote(r, x, what)
  <2> DEFINE x == request[r].target
  <2>1. x \in Rows /\ row[x].kind = kind /\ May(r, kind, "update")
    BY <1>2 DEF Update, Writes
  <2>2. row'[x] = Written(r, x, "PRESENT") /\ \A y \in Rows \ {x} : row'[y] = row[y]
    BY <1>2, <2>1 DEF Update, Base, TypeOK
  <2>3. /\ row'[x].kind = kind /\ row'[x].org = row[x].org
        /\ row'[x].from = request[r].org /\ row'[x].writer = As(r)
    BY <2>1, <2>2 DEF Written
  <2> QED
    BY <2>1, <2>2, <2>3 DEF Wrote
<1>3. ASSUME NEW kind \in Kinds, Delete(r, kind)
      PROVE  \E x \in Rows, what \in {"create", "update", "delete"} : Wrote(r, x, what)
  <2> DEFINE x == request[r].target
  <2>1. x \in Rows /\ row[x].kind = kind /\ May(r, kind, "delete")
    BY <1>3 DEF Delete, Writes
  <2>2. row' = [y \in Rows |-> IF y \in Gone(x) THEN Written(r, y, "DELETED") ELSE row[y]]
    BY <1>3 DEF Delete
  <2>3. x \in Gone(x) /\ \A y \in Gone(x) \ {x} : x \in links[y] /\ row[y].kind \in {"incident", "webhook"}
    BY DEF Gone
  <2>4. row'[x] = Written(r, x, "DELETED")
    BY <2>1, <2>2, <2>3
  <2>5. /\ row'[x].kind = kind /\ row'[x].org = row[x].org
        /\ row'[x].from = request[r].org /\ row'[x].writer = As(r)
    BY <2>1, <2>4 DEF Written
  <2>6. \A y \in Rows \ {x} : \/ row'[y] = row[y]
                             \/ /\ x \in links[y] /\ row'[y] = Written(r, y, "DELETED")
                                /\ row[y].kind \in {"incident", "webhook"}
    BY <2>2, <2>3
  <2> QED
    BY <2>1, <2>5, <2>6 DEF Wrote
<1> QED
  BY <1>1, <1>2, <1>3 DEF WritesRow

\* No key changes its organization.
LEMMA KeyKept ==
    ASSUME Base, (\E r \in Requests : WritesKey(r)) \/ (\E k \in Keys : KeyExpires(k)),
           NEW k \in Keys, key[k].status # "ABSENT"
    PROVE  key'[k].org = key[k].org
<1>1. CASE \E r \in Requests, l \in Keys, s \in InputScopes : CreateApiKey(r, l, s)
  BY <1>1 DEF CreateApiKey, Base, TypeOK
<1>2. CASE \E r \in Requests : RevokeApiKey(r)
  <2> PICK r \in Requests : RevokeApiKey(r)
    BY <1>2
  <2>1. request[r].target \in Keys /\ key[request[r].target].status # "ABSENT"
    BY DEF RevokeApiKey, Base, Admission
  <2> QED
    BY <2>1, KeyStatus
<1>3. CASE \E l \in Keys : KeyExpires(l)
  <2> PICK l \in Keys : KeyExpires(l)
    BY <1>3
  <2>1. key[l].status # "ABSENT"
    BY DEF KeyExpires
  <2> QED
    BY <2>1, KeyStatus
<1> QED
  BY <1>1, <1>2, <1>3 DEF WritesKey

\* What a request has read: it is admitted as the middleware found its caller,
\* or has found what it looked for.
LEMMA FoundFields ==
    ASSUME TypeOK, NEW r \in Requests, NEW stage, NEW target, Found(r, stage, target)
    PROVE  /\ request'[r].stage = stage /\ request'[r].target = target
           /\ request'[r].org = request[r].org /\ request'[r].by = request[r].by
           /\ request'[r].role = request[r].role
  BY DEF Found, TypeOK

LEMMA AdmittedFields ==
    ASSUME Base, NEW r \in Requests,
           \/ \E o \in Orgs, u \in Users : RequireOrg(r, u, o)
           \/ \E k \in Keys : AuthenticateApiKey(r, k)
    PROVE  /\ request'[r].stage = "admitted" /\ request'[r].target = None
           /\ \/ /\ request'[r].by \in Users
                 /\ member[request'[r].org][request'[r].by].active
                 /\ request'[r].role = member[request'[r].org][request'[r].by].role
              \/ /\ request'[r].by \in Keys /\ key[request'[r].by].status = "LIVE"
                 /\ request'[r].org = key[request'[r].by].org
<1>1. CASE \E o \in Orgs, u \in Users : RequireOrg(r, u, o)
  <2> PICK o \in Orgs, u \in Users : RequireOrg(r, u, o)
    BY <1>1
  <2>1. request'[r] = Admitted(u, o, member[o][u].role, {}) /\ member[o][u].active
    BY DEF RequireOrg, Base, TypeOK
  <2> QED
    BY <2>1 DEF Admitted
<1>2. CASE \E k \in Keys : AuthenticateApiKey(r, k)
  <2> PICK k \in Keys : AuthenticateApiKey(r, k)
    BY <1>2
  <2>1. request'[r] = Admitted(k, key[k].org, "NONE", key[k].scopes) /\ key[k].status = "LIVE"
    BY DEF AuthenticateApiKey, Base, TypeOK
  <2> QED
    BY <2>1 DEF Admitted
<1> QED
  BY <1>1, <1>2

LEMMA Lookups ==
    ASSUME Base, NEW r \in Requests,
           ~(\E o \in Orgs, u \in Users : RequireOrg(r, u, o)),
           ~(\E k \in Keys : AuthenticateApiKey(r, k)),
           Reads(r)
    PROVE  /\ request'[r].org = request[r].org /\ request'[r].by = request[r].by
           /\ request'[r].role = request[r].role
           /\ request[r].stage = "admitted" /\ request'[r].stage # "idle"
           /\ LET o == request[r].org  t == request'[r].target  stage == request'[r].stage IN
              \/ /\ t \in Users /\ stage \in {"missing", "inactive"}
                 /\ ~member[o][t].active
                 /\ stage = "inactive" => member[o][t] # Nobody
              \/ t \in Users /\ stage = "found" /\ member[o][t] # Nobody
              \/ /\ t \in Users /\ stage = "removable"
                 /\ member[o][t] # Nobody /\ member[o][t].role # "OWNER"
              \/ t \in Keys /\ stage = "found" /\ key[t].org = o
              \/ t \in Rows /\ stage = "found" /\ row[t].org = o
<1>2. CASE \E u \in Users : FindInvitee(r, u)
  <2> PICK u \in Users : FindInvitee(r, u)
    BY <1>2
  <2> DEFINE stage == IF member[request[r].org][u] = Nobody THEN "missing" ELSE "inactive"
  <2>1. /\ request[r].stage = "admitted" /\ ~member[request[r].org][u].active
        /\ Found(r, stage, u)
    BY DEF FindInvitee
  <2>2. stage \in {"missing", "inactive"} /\ (stage = "inactive" => member[request[r].org][u] # Nobody)
    OBVIOUS
  <2> HIDE DEF stage
  <2> QED
    BY <2>1, <2>2, FoundFields DEF Base
<1>3. CASE \E u \in Users : FindMember(r, u)
  <2> PICK u \in Users : FindMember(r, u)
    BY <1>3
  <2>1. /\ request[r].stage = "admitted" /\ member[request[r].org][u] # Nobody
        /\ Found(r, "found", u)
    BY DEF FindMember
  <2> QED
    BY <2>1, FoundFields DEF Base
<1>4. CASE \E u \in Users : FindRemovable(r, u)
  <2> PICK u \in Users : FindRemovable(r, u)
    BY <1>4
  <2>1. /\ request[r].stage = "admitted" /\ member[request[r].org][u] # Nobody
        /\ member[request[r].org][u].role # "OWNER" /\ Found(r, "removable", u)
    BY DEF FindRemovable
  <2> QED
    BY <2>1, FoundFields DEF Base
<1>5. CASE \E k \in Keys : FindKey(r, k)
  <2> PICK k \in Keys : FindKey(r, k)
    BY <1>5
  <2>1. request[r].stage = "admitted" /\ key[k].org = request[r].org /\ Found(r, "found", k)
    BY DEF FindKey
  <2> QED
    BY <2>1, FoundFields DEF Base
<1>6. CASE \E x \in Rows, kind \in Kinds : Find(r, x, kind)
  <2> PICK x \in Rows, kind \in Kinds : Find(r, x, kind)
    BY <1>6
  <2>1. request[r].stage = "admitted" /\ row[x].org = request[r].org /\ Found(r, "found", x)
    BY DEF Find
  <2> QED
    BY <2>1, FoundFields DEF Base
<1> QED
  BY <1>2, <1>3, <1>4, <1>5, <1>6, SMTT(60) DEF Reads

LEMMA IsolationReads ==
    ASSUME Base, Isolation, NEW r \in Requests, Reads(r)
    PROVE  Isolation'
<1>1. /\ UNCHANGED <<member, key, row, patched>>
      /\ \A q \in Requests \ {r} : request'[q] = request[q]
  BY BaseReads DEF rowVars
<1>2. /\ request'[r].target \in Rows => row[request'[r].target].org = request'[r].org
      /\ request'[r].target \in Keys => key[request'[r].target].org = request'[r].org
  <2>1. CASE \/ \E o \in Orgs, u \in Users : RequireOrg(r, u, o)
             \/ \E k \in Keys : AuthenticateApiKey(r, k)
    BY <2>1, AdmittedFields, NamesAssumption
  <2>2. CASE ~(\/ \E o \in Orgs, u \in Users : RequireOrg(r, u, o)
               \/ \E k \in Keys : AuthenticateApiKey(r, k))
    BY <2>2, Lookups, NamesAssumption
  <2> QED
    BY <2>1, <2>2
<1> QED
  BY <1>1, <1>2 DEF Isolation, WentAlong

\* The rows after a write: the incidents that go with a monitor are of its own
\* organization, and so of the one of the request.
LEMMA IsolationRows ==
    ASSUME Base, Isolation, LinksTested, NEW r \in Requests, WritesRow(r)
    PROVE  \A y \in Rows : /\ row'[y].from = row'[y].org \/ WentAlong(y)'
                           /\ row[y].status # "ABSENT" => row'[y].org = row[y].org
<1>1. PICK x \in Rows, what \in {"create", "update", "delete"} : Wrote(r, x, what)
  BY RowWritten
<1>2. row'[x].from = row'[x].org /\ (row[x].status # "ABSENT" => row'[x].org = row[x].org)
  BY <1>1 DEF Wrote, Isolation
<1>3. ASSUME NEW y \in Rows \ {x}
      PROVE  /\ row'[y].from = row'[y].org \/ WentAlong(y)'
             /\ row'[y].org = row[y].org
  <2>1. CASE row'[y] = row[y]
    BY <2>1 DEF Isolation, WentAlong
  <2>2. CASE /\ request[r].target = x /\ x \in links[y]
             /\ row'[y] = Written(r, y, "DELETED")
             /\ row[y].kind \in {"incident", "webhook"}
    <3>1. /\ row'[y].status = "DELETED" /\ row'[y].kind = row[y].kind
          /\ row'[y].org = row[y].org /\ row'[y].from = request[r].org
      BY <2>2 DEF Written
    <3>2. row[x].org = request[r].org
      BY <2>2 DEF Isolation
    <3>3. row[y].kind = "incident" => row[x].org = row[y].org
      BY <2>2 DEF LinksTested
    <3> QED
      BY <2>2, <3>1, <3>2, <3>3 DEF WentAlong
  <2> QED
    BY <1>1, <2>1, <2>2 DEF Wrote
<1> QED
  BY <1>2, <1>3

LEMMA IsolationNext == Base /\ Isolation /\ LinksTested /\ [Next]_vars => Isolation'
<1> SUFFICES ASSUME Base, Isolation, LinksTested, [Next]_vars PROVE Isolation'
  OBVIOUS
<1>1. CASE \E r \in Requests : Done(r) \/ UpdateOrganization(r) \/ WritesMember(r)
  <2>1. UNCHANGED <<key, rowVars>> /\ \E r \in Requests : Answer(r)
    BY <1>1, ZenonT(60) DEF Done, UpdateOrganization, WritesMember, InviteMember, UpdateMember, RemoveMember
  <2> QED
    BY <2>1, Answered, NamesAssumption DEF Base, Isolation, WentAlong, Idle, rowVars
<1>2. CASE (\E r \in Requests : WritesKey(r)) \/ (\E k \in Keys : KeyExpires(k))
  <2>1. row' = row /\ (request' = request \/ \E r \in Requests : Answer(r))
    BY <1>2 DEF WritesKey, CreateApiKey, RevokeApiKey, KeyExpires, rowVars
  <2>2. \A q \in Requests : request'[q] = request[q] \/ request'[q].target = None
    BY <2>1, Answered DEF Base, Idle
  <2> QED
    BY <1>2, <2>1, <2>2, KeyKept, NamesAssumption DEF Base, Admission, Isolation, WentAlong
<1>3. CASE \E r \in Requests : WritesRow(r)
  <2> PICK r \in Requests : WritesRow(r)
    BY <1>3
  <2>1. key' = key /\ Answer(r)
    BY SMTT(60) DEF WritesRow, Create, Update, Delete, Writes
  <2>2. \A y \in Rows : /\ row'[y].from = row'[y].org \/ WentAlong(y)'
                        /\ row[y].status # "ABSENT" => row'[y].org = row[y].org
    BY IsolationRows
  <2>3. \A q \in Requests : request'[q] = request[q] \/ request'[q].target = None
    BY <2>1, Answered DEF Base, Idle
  <2> QED
    BY <2>1, <2>2, <2>3, NamesAssumption DEF Base, Admission, Isolation
<1>4. CASE \E x, m \in Rows : OpenIncident(x, m)
  BY <1>4 DEF OpenIncident, Base, TypeOK, Admission, Isolation, WentAlong
<1>5. CASE \/ \E o \in Orgs, u \in Users : CreateOrganization(u, o)
           \/ \E x \in Rows : WindowTurns(x)
           \/ UNCHANGED vars
  BY <1>5 DEF CreateOrganization, WindowTurns, vars, rowVars, Isolation, WentAlong
<1> QED
  BY <1>1, <1>2, <1>3, <1>4, <1>5, Steps, IsolationReads

\* A row that is there stays what it is until it is deleted, and new links lead to
\* rows that are there.
LEMMA LinksWritten ==
    ASSUME Base, Isolation, LinksTested, NEW r \in Requests, WritesRow(r)
    PROVE  LinksTested'
<1>0. /\ links \in [Rows -> SUBSET Rows]
      /\ \A x \in Rows : row[x] \in RowType
  BY DEF Base, TypeOK, RowType
<1>1. ASSUME NEW x \in Rows, NEW kind \in Kinds, Create(r, x, kind) PROVE LinksTested'
  <2>1. PICK L \in LinkSets(r, kind) : links' = [links EXCEPT ![x] = L]
    BY <1>1 DEF Create
  <2>2. /\ row[x].status = "ABSENT" /\ \A y \in Rows \ {x} : row'[y] = row[y]
        /\ row'[x].status = "PRESENT" /\ row'[x].kind = kind /\ row'[x].org = request[r].org
    BY <1>1 DEF Create, Base, TypeOK
  <2>3. \A y \in L : y \in Rows \ {x} /\ row[y].status = "PRESENT"
                      /\ (kind = "policy" => row[y].org = request[r].org) /\ kind # "incident"
    BY <2>2, LinkedRows
  <2>4. \A y \in Rows \ {x} : links'[y] = links[y] /\ x \notin links[y] /\ links[y] \subseteq Rows
    BY <1>0, <2>1, <2>2 DEF LinksTested
  <2>5. links'[x] = L
    BY <1>0, <2>1
  <2> QED
    BY <2>2, <2>3, <2>4, <2>5 DEF LinksTested
<1>2. ASSUME NEW kind \in Kinds, Update(r, kind) PROVE LinksTested'
  <2> DEFINE x == request[r].target
  <2>1. PICK L \in {links[x]} \cup LinkSets(r, kind) : links' = [links EXCEPT ![x] = L]
    BY <1>2 DEF Update
  <2>2. /\ x \in Rows /\ row[x].kind = kind /\ row[x].status = "PRESENT"
        /\ row' = [row EXCEPT ![x] = Written(r, x, "PRESENT")]
    BY <1>2 DEF Update, Writes
  <2>3. row[x].org = request[r].org
    BY <2>2 DEF Isolation
  <2>4. \A y \in Rows : /\ row'[y].status = row[y].status /\ row'[y].kind = row[y].kind
                        /\ row'[y].org = row[y].org
    <3>1. row'[x] = Written(r, x, "PRESENT") /\ \A y \in Rows \ {x} : row'[y] = row[y]
      BY <2>2 DEF Base, TypeOK
    <3> QED
      BY <2>2, <3>1 DEF Written
  <2>5. \A y \in L : y \in Rows /\ row[y].status = "PRESENT"
                      /\ (kind \in {"policy", "incident"} => row[y].org = row[x].org)
    <3>1. CASE L = links[x]
      BY <1>0, <2>2, <3>1 DEF LinksTested
    <3>2. CASE L \in LinkSets(r, kind)
      BY <2>3, <3>2, LinkedRows
    <3> QED
      BY <2>1, <3>1, <3>2
  <2>6. links'[x] = L /\ \A y \in Rows \ {x} : links'[y] = links[y] /\ links[y] \subseteq Rows
    BY <1>0, <2>1, <2>2
  <2> HIDE DEF x
  <2> QED
    BY <2>2, <2>4, <2>5, <2>6 DEF LinksTested
<1>3. ASSUME NEW kind \in Kinds, Delete(r, kind) PROVE LinksTested'
  <2> DEFINE G == Gone(request[r].target)
  <2>1. /\ row' = [y \in Rows |-> IF y \in G THEN Written(r, y, "DELETED") ELSE row[y]]
        /\ links' = [y \in Rows |-> IF y \in G THEN {} ELSE links[y] \ G]
    BY <1>3 DEF Delete
  <2> HIDE DEF G
  <2> QED
    BY <1>0, <2>1 DEF LinksTested
<1> QED
  BY <1>1, <1>2, <1>3 DEF WritesRow

LEMMA LinksNext == Base /\ Isolation /\ LinksTested /\ [Next]_vars => LinksTested'
<1> SUFFICES ASSUME Base, Isolation, LinksTested, [Next]_vars PROVE LinksTested'
  OBVIOUS
<1>1. CASE \E x, m \in Rows : OpenIncident(x, m)
  <2> PICK x \in Rows, m \in Rows : OpenIncident(x, m)
    BY <1>1
  <2>1. /\ row[x].status = "ABSENT" /\ row[m].status = "PRESENT"
        /\ \A y \in Rows \ {x} : row'[y] = row[y] /\ links'[y] = links[y]
        /\ row'[x].status = "PRESENT" /\ row'[x].org = row[m].org /\ links'[x] = {m}
    BY DEF OpenIncident, Base, TypeOK
  <2>2. \A y \in Rows : x \notin links[y] /\ links[y] \subseteq Rows
    BY <2>1 DEF LinksTested, Base, TypeOK
  <2> QED
    BY <2>1, <2>2 DEF LinksTested
<1>2. ASSUME UNCHANGED <<row, links>> PROVE LinksTested'
  BY <1>2 DEF LinksTested
<1>3. \A r \in Requests : Reads(r) \/ Done(r) \/ UpdateOrganization(r) \/ WritesMember(r) \/ WritesKey(r)
                          => UNCHANGED rowVars
  BY BaseReads, ZenonT(60)
  DEF Done, UpdateOrganization, WritesMember, InviteMember, UpdateMember, RemoveMember, WritesKey,
      CreateApiKey, RevokeApiKey
<1>4. \/ \E o \in Orgs, u \in Users : CreateOrganization(u, o)
      \/ \E k \in Keys : KeyExpires(k)
      \/ \E x \in Rows : WindowTurns(x)
      \/ UNCHANGED vars
      => UNCHANGED <<row, links>>
  BY DEF CreateOrganization, KeyExpires, WindowTurns, vars, rowVars
<1>5. UNCHANGED rowVars => UNCHANGED <<row, links>>
  BY DEF rowVars
<1> QED
  BY <1>1, <1>2, <1>3, <1>4, <1>5, Steps, LinksWritten

LEMMA IsolationInvariant == Spec => [](Isolation /\ LinksTested)
<1>1. Init => Isolation /\ LinksTested
  BY NamesAssumption DEF Init, Isolation, LinksTested, Idle, NoRow
<1> QED
  BY <1>1, BaseInvariant, IsolationNext, LinksNext, PTL DEF Spec

\* By the ids in its URL a request finds and writes rows of its own organization
\* only, although it writes them by their id alone; of another one it takes
\* along the webhooks of a monitor it deletes.
THEOREM OrgsAreIsolated == Spec => []Isolation
  BY IsolationInvariant, PTL

\* By the ids in its body it links policies to channels of its own organization
\* only, and no link outlives the row it leads to; but pages, windows, webhooks and
\* monitors may lead into another one.
THEOREM PoliciesStayInside == Spec => []LinksTested
  BY IsolationInvariant, PTL

-----------------------------------------------------------------------------
\* What the routes demand of those who change anything.
LEMMA Demands ==
    ASSUME NEW r \in Requests, NEW kind \in Kinds, NEW what \in {"create", "update", "delete"},
           May(r, kind, what), request[r].role \in Roles \cup {"NONE"}
    PROVE  \/ request[r].role \in {"ADMIN", "OWNER"}
           \/ request[r].role = "DEVELOPER" /\ kind \in {"monitor", "group", "incident"}
           \/ request[r].scopes # {} /\ kind = "monitor" /\ what # "delete"
<1>1. CASE \E p \in Permissions : /\ p.on = kind /\ p.does = what
                                  /\ RoleAtLeast(request[r].role, p.role)
  <2> PICK p \in Permissions : p.on = kind /\ p.does = what /\ RoleAtLeast(request[r].role, p.role)
    BY <1>1
  <2>1. \/ p.role = "ADMIN"
        \/ p.role = "DEVELOPER" /\ kind \in {"monitor", "group", "incident"}
    BY DEF Permissions, OrgRoutes, MonitorRoutes, IncidentRoutes, StatusPageRoutes, AlertingRoutes,
           WindowRoutes, GroupRoutes, ApiKeyRoutes, Needs
  <2> QED
    BY <2>1 DEF RoleAtLeast, Rank, Roles
<1>2. CASE \E p \in ApiV1Routes : p.on = kind /\ p.does = what /\ p.scope \in request[r].scopes
  BY <1>2 DEF ApiV1Routes
<1> QED
  BY <1>1, <1>2 DEF May

LEMMA WritersNext == Base /\ WritersHaveTheRole /\ [Next]_vars => WritersHaveTheRole'
<1> SUFFICES ASSUME Base, WritersHaveTheRole, [Next]_vars PROVE WritersHaveTheRole'
  OBVIOUS
<1>1. CASE \E r \in Requests : WritesRow(r)
  <2> PICK r \in Requests : WritesRow(r)
    BY <1>1
  <2>1. PICK x \in Rows, what \in {"create", "update", "delete"} : Wrote(r, x, what)
    BY RowWritten
  <2>2. /\ request[r].role \in Roles \cup {"NONE"}
        /\ request[r].by \in Keys => request[r].role = "NONE"
        /\ request[r].by \notin Keys => request[r].scopes = {}
    BY DEF Base, TypeOK, Admission
  <2>3. \/ request[r].role \in {"ADMIN", "OWNER"}
        \/ request[r].role = "DEVELOPER" /\ row'[x].kind \in {"monitor", "group", "incident"}
        \/ request[r].scopes # {} /\ row'[x].kind = "monitor" /\ what # "delete"
    BY <2>1, <2>2, Demands DEF Wrote
  <2>4. \/ As(r) \in {"ADMIN", "OWNER"}
        \/ As(r) = "DEVELOPER" /\ row'[x].kind \in {"monitor", "group", "incident"}
        \/ As(r) = "KEY" /\ row'[x].kind = "monitor" /\ what # "delete"
    BY <2>2, <2>3 DEF As
  <2>5. /\ row'[x].writer # "VIEWER"
        /\ row'[x].writer = "KEY" => row'[x].kind = "monitor"
        /\ row'[x].kind \in {"none", "monitor", "group", "incident"} \/ row'[x].writer \in {"ADMIN", "OWNER"}
    BY <2>1, <2>4 DEF Wrote
  <2>6. ASSUME NEW y \in Rows \ {x}
        PROVE  /\ row'[y].writer # "VIEWER"
               /\ row'[y].writer = "KEY" => row'[y].kind = "monitor"
               /\ row'[y].kind \in {"none", "monitor", "group", "incident"} \/ WentAlong(y)'
                     \/ row'[y].writer \in {"ADMIN", "OWNER"}
    <3>1. CASE row'[y] = row[y]
      BY <3>1 DEF WritersHaveTheRole, WentAlong
    <3>2. CASE /\ what = "delete" /\ row'[y] = Written(r, y, "DELETED")
               /\ row[y].kind \in {"incident", "webhook"}
      <4>1. /\ row'[y].status = "DELETED" /\ row'[y].kind \in {"incident", "webhook"}
            /\ row'[y].writer = As(r)
        BY <3>2 DEF Written
      <4> QED
        BY <2>4, <3>2, <4>1 DEF WentAlong
    <3> QED
      BY <2>1, <3>1, <3>2 DEF Wrote
  <2> QED
    BY <2>5, <2>6 DEF WritersHaveTheRole
<1>2. CASE \E x, m \in Rows : OpenIncident(x, m)
  BY <1>2 DEF OpenIncident, Base, TypeOK, WritersHaveTheRole, WentAlong
<1>3. CASE UNCHANGED row
  BY <1>3 DEF WritersHaveTheRole, WentAlong
<1>4. \A r \in Requests : Reads(r) \/ Done(r) \/ UpdateOrganization(r) \/ WritesMember(r) \/ WritesKey(r)
                          => UNCHANGED row
  <2>1. UNCHANGED rowVars => UNCHANGED row
    BY DEF rowVars
  <2> QED
    BY <2>1, BaseReads, ZenonT(60)
    DEF Done, UpdateOrganization, WritesMember, InviteMember, UpdateMember, RemoveMember, WritesKey,
        CreateApiKey, RevokeApiKey
<1>5. \/ \E o \in Orgs, u \in Users : CreateOrganization(u, o)
      \/ \E k \in Keys : KeyExpires(k)
      \/ \E x \in Rows : WindowTurns(x)
      \/ UNCHANGED vars
      => UNCHANGED row
  BY DEF CreateOrganization, KeyExpires, WindowTurns, vars, rowVars
<1> QED
  BY <1>1, <1>2, <1>3, <1>4, <1>5, Steps

\* Through all routers and services, a row is written by those its kind is open
\* to, whoever overlaps with whom.
THEOREM RolesAreEnforced == Spec => []WritersHaveTheRole
<1>1. Init => WritersHaveTheRole
  BY DEF Init, WritersHaveTheRole, NoRow
<1> QED
  BY <1>1, BaseInvariant, WritersNext, PTL DEF Spec

-----------------------------------------------------------------------------
StaleOnes == {r \in Requests : Stale(r)}

LEMMA Fewer ==
    ASSUME NEW S, NEW r \in Requests, S \subseteq Requests \ {r}
    PROVE  Cardinality(S) < Cardinality(Requests)
<1>1. IsFiniteSet(Requests \ {r}) /\ Cardinality(Requests \ {r}) = Cardinality(Requests) - 1
  BY RequestsAssumption, FS_RemoveElement
<1>2. Cardinality(S) <= Cardinality(Requests \ {r})
  BY <1>1, FS_Subset
<1>3. Cardinality(S) \in Nat /\ Cardinality(Requests) \in Nat
  BY <1>1, RequestsAssumption, FS_Subset, FS_CardinalityType
<1> QED
  BY <1>1, <1>2, <1>3

LEMMA NoMore ==
    ASSUME NEW S, NEW T, T \subseteq S, S \subseteq Requests, Cardinality(S) < Cardinality(Requests)
    PROVE  Cardinality(T) < Cardinality(Requests)
<1>1. IsFiniteSet(S)
  BY RequestsAssumption, FS_Subset
<1>2. Cardinality(T) <= Cardinality(S)
  BY <1>1, FS_Subset
<1>3. Cardinality(S) \in Nat /\ Cardinality(T) \in Nat /\ Cardinality(Requests) \in Nat
  BY <1>1, RequestsAssumption, FS_Subset, FS_CardinalityType
<1> QED
  BY <1>2, <1>3

\* A request that looks something up is as stale as it was; one that is admitted is not.
LEMMA StaleReads ==
    ASSUME Base, NEW r \in Requests, Reads(r)
    PROVE  StaleOnes' \subseteq StaleOnes
<1>1. /\ UNCHANGED <<member, key>>
      /\ \A q \in Requests \ {r} : request'[q] = request[q]
  BY BaseReads
<1>2. \A q \in Requests \ {r} : Stale(q)' = Stale(q)
  BY <1>1 DEF Stale
<1>3. CASE \/ \E o \in Orgs, u \in Users : RequireOrg(r, u, o)
           \/ \E k \in Keys : AuthenticateApiKey(r, k)
  <2>1. ~Stale(r)'
    <3>1. CASE request'[r].by \in Keys /\ key[request'[r].by].status = "LIVE"
      BY <1>1, <3>1 DEF Stale
    <3>2. CASE /\ request'[r].by \in Users
               /\ member[request'[r].org][request'[r].by].active
               /\ request'[r].role = member[request'[r].org][request'[r].by].role
      <4>1. request'[r].role \in Roles \cup {"NONE"} /\ request'[r].by \notin Keys
        BY <3>2, BaseReads, NamesAssumption DEF Base, TypeOK
      <4>2. ~(Rank[request'[r].role] < Rank[request'[r].role])
        BY <4>1 DEF Rank, Roles
      <4> QED
        BY <1>1, <3>2, <4>1, <4>2 DEF Stale
    <3> QED
      BY <1>3, <3>1, <3>2, AdmittedFields
  <2> QED
    BY <1>2, <2>1 DEF StaleOnes
<1>4. CASE ~(\/ \E o \in Orgs, u \in Users : RequireOrg(r, u, o)
             \/ \E k \in Keys : AuthenticateApiKey(r, k))
  <2>1. /\ request'[r].org = request[r].org /\ request'[r].by = request[r].by
        /\ request'[r].role = request[r].role
        /\ request[r].stage # "idle" /\ request'[r].stage # "idle"
    BY <1>4, Lookups
  <2>2. Stale(r)' = Stale(r)
    BY <1>1, <2>1 DEF Stale
  <2> QED
    BY <1>2, <2>2 DEF StaleOnes
<1> QED
  BY <1>3, <1>4

LEMMA StaleNext == Base /\ StaleRightsBounded /\ [Next]_vars => StaleRightsBounded'
<1> SUFFICES ASSUME Base, StaleRightsBounded, [Next]_vars
             PROVE  Cardinality(StaleOnes') < Cardinality(Requests)
  BY DEF StaleRightsBounded, StaleOnes
<1>1. CASE \E r \in Requests : Done(r) \/ UpdateOrganization(r) \/ WritesMember(r) \/ WritesKey(r) \/ WritesRow(r)
  <2>1. PICK r \in Requests : Answer(r)
    BY <1>1, ZenonT(60) DEF Done, UpdateOrganization, WritesMember, InviteMember, UpdateMember, RemoveMember,
                WritesKey, CreateApiKey, RevokeApiKey, WritesRow, Create, Update, Delete,
                Writes
  <2>2. ~Stale(r)'
    BY <2>1, Answered DEF Base, Stale, Idle
  <2>3. StaleOnes' \subseteq Requests \ {r}
    BY <2>2 DEF StaleOnes
  <2> QED
    BY <2>3, Fewer
<1>2. CASE StaleOnes' \subseteq StaleOnes
  <2>1. Cardinality(StaleOnes) < Cardinality(Requests) /\ StaleOnes \subseteq Requests
    BY DEF StaleRightsBounded, StaleOnes
  <2> QED
    BY <1>2, <2>1, NoMore
<1>3. CASE \E o \in Orgs, u \in Users : CreateOrganization(u, o)
  <2> PICK o \in Orgs, u \in Users : CreateOrganization(u, o)
    BY <1>3
  <2>1. ~member[o][u].active
    BY DEF CreateOrganization, Founded, Nobody
  <2>2. \A p \in Orgs, v \in Users : p # o \/ v # u => member'[p][v] = member[p][v]
    BY DEF CreateOrganization, Base, TypeOK
  <2>3. UNCHANGED <<key, request>>
    BY DEF CreateOrganization
  <2>4. \A q \in Requests : request[q].stage # "idle" =>
            request[q].org \in Orgs /\ request[q].by \in Users \cup Keys
    BY DEF Base, TypeOK, Admission
  <2>5. ASSUME NEW q \in Requests, Stale(q)' PROVE Stale(q)
    BY <2>1, <2>2, <2>3, <2>4, <2>5 DEF Stale
  <2> QED
    BY <1>2, <2>5 DEF StaleOnes
<1>4. CASE \E k \in Keys : KeyExpires(k)
  <2> PICK k \in Keys : KeyExpires(k)
    BY <1>4
  <2>1. key[k].status # "ABSENT" /\ UNCHANGED <<member, request>>
    BY DEF KeyExpires
  <2>2. \A l \in Keys : key'[l].status = "REVOKED" => key[l].status = "REVOKED"
    <3>1. key'[k].status = "EXPIRED"
      BY DEF KeyExpires, Base, TypeOK
    <3>2. \A l \in Keys \ {k} : key'[l] = key[l]
      BY <2>1, KeyStatus
    <3> QED
      BY <3>1, <3>2
  <2>3. \A q \in Requests : Stale(q)' => Stale(q)
    BY <2>1, <2>2 DEF Stale
  <2> QED
    BY <1>2, <2>3 DEF StaleOnes
<1>5. CASE \/ \E x, m \in Rows : OpenIncident(x, m)
           \/ \E x \in Rows : WindowTurns(x)
           \/ UNCHANGED vars
  <2>1. UNCHANGED <<member, key, request>>
    BY <1>5 DEF OpenIncident, WindowTurns, vars
  <2> QED
    BY <1>2, <2>1, ZenonT(60) DEF StaleOnes, Stale
<1> QED
  BY <1>1, <1>2, <1>3, <1>4, <1>5, Steps, StaleReads

\* Whoever takes rights away is a request that ends: the others, at most, go on
\* under them.
THEOREM StaleRightsAreBounded == Spec => []StaleRightsBounded
<1>1. Init => StaleRightsBounded
  <2> SUFFICES ASSUME Init PROVE StaleRightsBounded
    OBVIOUS
  <2>1. {r \in Requests : Stale(r)} = {}
    BY DEF Init, Stale, Idle
  <2>2. PICK r \in Requests : TRUE
    BY RequestsAssumption
  <2> QED
    BY <2>1, <2>2, Fewer DEF StaleRightsBounded
<1> QED
  BY <1>1, BaseInvariant, StaleNext, PTL DEF Spec

-----------------------------------------------------------------------------
Staffed(o) == \E u \in Users : member[o][u].role # "NONE"

\* As long as no PATCH addresses the owner: who invites or removes a member has
\* looked at one who is not the owner, and cannot have become it since, because
\* an organization that has members is not created again.
Kept ==
    /\ \A o \in Orgs, u \in Users :
          /\ member[o][u].role = "NONE" => ~member[o][u].active
          /\ member[o][u].role = "OWNER" /\ ~patched[o] => member[o][u].active
    /\ \A o \in Orgs : Staffed(o) /\ ~patched[o] => \E u \in Users : member[o][u].role = "OWNER"
    /\ \A k \in Keys : key[k].status # "ABSENT" => Staffed(key[k].org)
    /\ \A r \in Requests :
          LET o == request[r].org  u == request[r].target  stage == request[r].stage IN
          /\ stage # "idle" => Staffed(o)
          /\ stage \in {"found", "removable"} /\ u \in Users => member[o][u].role # "NONE"
          /\ stage \in {"missing", "inactive", "removable"} /\ ~patched[o] => member[o][u].role # "OWNER"

LEMMA IsNobody ==
    ASSUME TypeOK, NEW o \in Orgs, NEW u \in Users
    PROVE  member[o][u] = Nobody <=> member[o][u].role = "NONE" /\ ~member[o][u].active
<1> DEFINE m == member[o][u]
<1>1. m \in [role : Roles \cup {"NONE"}, active : BOOLEAN]
  BY DEF TypeOK
<1>2. m = [role |-> m.role, active |-> m.active] /\ m.active \in BOOLEAN
  BY <1>1
<1> HIDE DEF m
<1>3. m = Nobody => m.role = "NONE" /\ ~m.active
  BY DEF Nobody
<1>4. m.role = "NONE" /\ ~m.active => m = Nobody
  BY <1>2 DEF Nobody
<1> QED
  BY <1>3, <1>4 DEF m

\* A write to a membership, however late.
LEMMA MemberWritten ==
    ASSUME Base, Kept, NEW r \in Requests, WritesMember(r)
    PROVE  \E o \in Orgs, u \in Users :
              /\ o = request[r].org
              /\ \A p \in Orgs, v \in Users : p # o \/ v # u => member'[p][v] = member[p][v]
              /\ member'[o][u].role # "NONE"
              /\ ~patched'[o] => /\ ~patched[o]
                                /\ member[o][u].role # "OWNER"
                                /\ member'[o][u].role # "OWNER"
              /\ \A p \in Orgs \ {o} : patched'[p] = patched[p]
<1> DEFINE o == request[r].org
           u == request[r].target
<1>0. "NONE" \notin InputRoles /\ "OWNER" \notin InputRoles
  BY InputsAssumption DEF Roles
<1>1. CASE \E role \in InputRoles : InviteMember(r, role)
  <2>1. PICK role \in InputRoles :
           member' = [member EXCEPT ![o][u] = [role |-> role, active |-> TRUE]]
    BY <1>1 DEF InviteMember
  <2>2. u \in Users /\ o \in Orgs /\ patched' = patched /\ (~patched[o] => member[o][u].role # "OWNER")
    BY <1>1 DEF InviteMember, Base, Admission, Kept
  <2>3. /\ member'[o][u] = [role |-> role, active |-> TRUE]
        /\ \A p \in Orgs, v \in Users : p # o \/ v # u => member'[p][v] = member[p][v]
    BY <2>1, <2>2 DEF Base, TypeOK
  <2>4. o = request[r].org
    OBVIOUS
  <2> HIDE DEF o, u
  <2>5. member'[o][u].role = role
    BY <2>3
  <2> QED
    BY <1>0, <2>2, <2>3, <2>4, <2>5
<1>2. CASE UpdateMember(r)
  <2>1. PICK role \in InputRoles \cup {member[o][u].role}, active \in BOOLEAN :
           member' = [member EXCEPT ![o][u] = [role |-> role, active |-> active]]
    BY <1>2, ZenonT(60) DEF UpdateMember
  <2>2. u \in Users /\ o \in Orgs /\ member[o][u].role # "NONE"
    BY <1>2, SMTT(60) DEF UpdateMember, Base, Admission, Kept
  <2>3. /\ member'[o][u] = [role |-> role, active |-> active]
        /\ \A p \in Orgs, v \in Users : p # o \/ v # u => member'[p][v] = member[p][v]
    BY <2>1, <2>2 DEF Base, TypeOK
  <2>4. /\ o = request[r].org
        /\ ~patched'[o] => ~patched[o] /\ member[o][u].role # "OWNER"
        /\ \A p \in Orgs \ {o} : patched'[p] = patched[p]
    BY <1>2, <2>2, ZenonT(60) DEF UpdateMember, Base, TypeOK
  <2> HIDE DEF o, u
  <2>5. member'[o][u].role # "NONE"
    BY <1>0, <2>1, <2>2, <2>3
  <2>6. ~patched'[o] => ~patched[o] /\ member[o][u].role # "OWNER" /\ member'[o][u].role # "OWNER"
    BY <1>0, <2>1, <2>3, <2>4
  <2> QED
    BY <2>2, <2>3, <2>4, <2>5, <2>6
<1>3. CASE RemoveMember(r)
  <2>1. /\ o = request[r].org
        /\ u \in Users /\ o \in Orgs /\ patched' = patched /\ member[o][u].role # "NONE"
        /\ ~patched[o] => member[o][u].role # "OWNER"
    BY <1>3 DEF RemoveMember, Base, Admission, Kept
  <2>2. member' = [member EXCEPT ![o] = [member[o] EXCEPT ![u] = [member[o][u] EXCEPT !.active = FALSE]]]
    BY <1>3 DEF RemoveMember
  <2>3. /\ member'[o][u].role = member[o][u].role
        /\ \A p \in Orgs, v \in Users : p # o \/ v # u => member'[p][v] = member[p][v]
    BY <2>1, <2>2 DEF Base, TypeOK
  <2> HIDE DEF o, u
  <2> QED
    BY <2>1, <2>3
<1> QED
  BY <1>1, <1>2, <1>3 DEF WritesMember

LEMMA KeptMembers ==
    ASSUME Base, Kept, NEW r \in Requests, WritesMember(r)
    PROVE  Kept'
<1>1. PICK o \in Orgs, u \in Users :
         /\ o = request[r].org
         /\ \A p \in Orgs, v \in Users : p # o \/ v # u => member'[p][v] = member[p][v]
         /\ member'[o][u].role # "NONE"
         /\ ~patched'[o] => /\ ~patched[o]
                           /\ member[o][u].role # "OWNER"
                           /\ member'[o][u].role # "OWNER"
         /\ \A p \in Orgs \ {o} : patched'[p] = patched[p]
  BY MemberWritten
<1>2. key' = key /\ Answer(r)
  BY ZenonT(60) DEF WritesMember, InviteMember, UpdateMember, RemoveMember
<1>3. /\ request'[r] = Idle
      /\ \A q \in Requests \ {r} : request'[q] = request[q]
  BY <1>2, Answered DEF Base
<1>4. \A p \in Orgs, v \in Users : member[p][v].role # "NONE" => member'[p][v].role # "NONE"
  BY <1>1
<1>5. \A p \in Orgs : Staffed(p) => Staffed(p)'
  BY <1>4 DEF Staffed
<1>6. \A p \in Orgs : ~patched'[p] => ~patched[p]
  BY <1>1
<1>7. \A p \in Orgs, v \in Users :
         ~patched'[p] => /\ member[p][v].role = "OWNER" => member'[p][v] = member[p][v]
                         /\ member'[p][v].role = "OWNER" => member[p][v] = member'[p][v]
  BY <1>1
<1>8. \A p \in Orgs, v \in Users :
         /\ member'[p][v].role = "NONE" => ~member'[p][v].active
         /\ member'[p][v].role = "OWNER" /\ ~patched'[p] => member'[p][v].active
  BY <1>1, <1>6, <1>7 DEF Kept
<1>9. \A p \in Orgs : Staffed(p)' /\ ~patched'[p] => \E v \in Users : member'[p][v].role = "OWNER"
  <2> SUFFICES ASSUME NEW p \in Orgs, Staffed(p)', ~patched'[p]
               PROVE  \E v \in Users : member'[p][v].role = "OWNER"
    OBVIOUS
  <2>1. Staffed(p)
    <3>1. CASE p # o
      BY <1>1, <3>1 DEF Staffed
    <3>2. CASE p = o
      <4>1. Staffed(request[r].org) /\ request[r].org \in Orgs
        BY ZenonT(60) DEF WritesMember, InviteMember, UpdateMember, RemoveMember, Base, Admission, Kept
      <4> QED
        BY <1>1, <3>2, <4>1
    <3> QED
      BY <3>1, <3>2
  <2>2. PICK v \in Users : member[p][v].role = "OWNER"
    BY <1>6, <2>1 DEF Kept
  <2> QED
    BY <1>7, <2>2
<1>10. \A k \in Keys : key'[k].status # "ABSENT" => \E v \in Users : member'[key'[k].org][v].role # "NONE"
  BY <1>2, <1>5 DEF Kept, Base, Admission, Staffed
<1>11. \A q \in Requests :
          LET p == request'[q].org  v == request'[q].target  stage == request'[q].stage IN
          /\ stage # "idle" => \E w \in Users : member'[p][w].role # "NONE"
          /\ stage \in {"found", "removable"} /\ v \in Users => member'[p][v].role # "NONE"
          /\ stage \in {"missing", "inactive", "removable"} /\ ~patched'[p] => member'[p][v].role # "OWNER"
  <2> SUFFICES ASSUME NEW q \in Requests, request'[q].stage # "idle"
               PROVE  LET p == request'[q].org  v == request'[q].target  stage == request'[q].stage IN
                      /\ \E w \in Users : member'[p][w].role # "NONE"
                      /\ stage \in {"found", "removable"} /\ v \in Users => member'[p][v].role # "NONE"
                      /\ stage \in {"missing", "inactive", "removable"} /\ ~patched'[p] => member'[p][v].role # "OWNER"
    OBVIOUS
  <2>1. request'[q] = request[q]
    BY <1>3 DEF Idle
  <2> DEFINE p == request[q].org
             v == request[q].target
             stage == request[q].stage
  <2>2. /\ p \in Orgs
        /\ stage \in {"missing", "inactive", "removable"} => v \in Users
    BY <2>1 DEF Base, Admission
  <2>3. /\ Staffed(p)
        /\ stage \in {"found", "removable"} /\ v \in Users => member[p][v].role # "NONE"
        /\ stage \in {"missing", "inactive", "removable"} /\ ~patched[p] => member[p][v].role # "OWNER"
    BY <2>1 DEF Kept
  <2> HIDE DEF p, v, stage
  <2>4. \E w \in Users : member'[p][w].role # "NONE"
    BY <1>4, <2>2, <2>3 DEF Staffed
  <2>5. stage \in {"found", "removable"} /\ v \in Users => member'[p][v].role # "NONE"
    BY <1>4, <2>2, <2>3
  <2>6. stage \in {"missing", "inactive", "removable"} /\ ~patched'[p] => member'[p][v].role # "OWNER"
    <3> SUFFICES ASSUME stage \in {"missing", "inactive", "removable"}, ~patched'[p],
                        member'[p][v].role = "OWNER"
                 PROVE  FALSE
      OBVIOUS
    <3>1. v \in Users /\ ~patched[p]
      BY <1>6, <2>2
    <3>2. member[p][v] = member'[p][v]
      BY <1>7, <2>2, <3>1
    <3> QED
      BY <2>3, <3>1, <3>2
  <2> QED
    BY <2>1, <2>4, <2>5, <2>6 DEF p, v, stage
<1> QED
  BY <1>8, <1>9, <1>10, <1>11 DEF Kept, Staffed

LEMMA KeptReads ==
    ASSUME Base, Kept, NEW r \in Requests, Reads(r)
    PROVE  Kept'
<1>1. /\ UNCHANGED <<member, key, patched>>
      /\ \A q \in Requests \ {r} : request'[q] = request[q]
  BY BaseReads
<1>2. LET o == request'[r].org  u == request'[r].target  stage == request'[r].stage IN
      /\ stage # "idle" => \E w \in Users : member[o][w].role # "NONE"
      /\ stage \in {"found", "removable"} /\ u \in Users => member[o][u].role # "NONE"
      /\ stage \in {"missing", "inactive", "removable"} /\ ~patched[o] => member[o][u].role # "OWNER"
  <2>1. CASE \/ \E o \in Orgs, u \in Users : RequireOrg(r, u, o)
             \/ \E k \in Keys : AuthenticateApiKey(r, k)
    <3>1. request'[r].stage = "admitted" /\ request'[r].org \in Orgs
      BY <2>1, AdmittedFields, BaseReads DEF Base, Admission
    <3>2. \E w \in Users : member[request'[r].org][w].role # "NONE"
      <4>1. CASE /\ request'[r].by \in Users
                 /\ member[request'[r].org][request'[r].by].active
        BY <3>1, <4>1 DEF Kept
      <4>2. CASE /\ request'[r].by \in Keys /\ key[request'[r].by].status = "LIVE"
                 /\ request'[r].org = key[request'[r].by].org
        BY <4>2 DEF Kept, Staffed
      <4> QED
        BY <2>1, <4>1, <4>2, AdmittedFields
    <3> QED
      BY <3>1, <3>2
  <2>2. CASE ~(\/ \E o \in Orgs, u \in Users : RequireOrg(r, u, o)
               \/ \E k \in Keys : AuthenticateApiKey(r, k))
    <3> DEFINE o == request[r].org
               t == request'[r].target
               stage == request'[r].stage
    <3>1. /\ request'[r].org = o /\ request[r].stage = "admitted"
          /\ \/ /\ t \in Users /\ stage \in {"missing", "inactive"}
                /\ ~member[o][t].active
                /\ stage = "inactive" => member[o][t] # Nobody
             \/ t \in Users /\ stage = "found" /\ member[o][t] # Nobody
             \/ /\ t \in Users /\ stage = "removable"
                /\ member[o][t] # Nobody /\ member[o][t].role # "OWNER"
             \/ t \in Keys /\ stage = "found" /\ key[t].org = o
             \/ t \in Rows /\ stage = "found" /\ row[t].org = o
      BY <2>2, Lookups
    <3>2. o \in Orgs /\ \E w \in Users : member[o][w].role # "NONE"
      BY <3>1, ZenonT(60) DEF Base, Admission, Kept, Staffed
    <3>3. t \in Users /\ member[o][t] # Nobody => member[o][t].role # "NONE"
      BY <3>2, IsNobody DEF Base, Kept
    <3>4. t \in Users /\ ~member[o][t].active /\ ~patched[o] => member[o][t].role # "OWNER"
      BY <3>2 DEF Kept
    <3> HIDE DEF o, t, stage
    <3>5. /\ stage \in {"found", "removable"} /\ t \in Users => member[o][t].role # "NONE"
          /\ stage \in {"missing", "inactive", "removable"} /\ ~patched[o] => member[o][t].role # "OWNER"
      BY <3>1, <3>3, <3>4, NamesAssumption
    <3> QED
      BY <3>1, <3>2, <3>5, SMTT(60) DEF o, t, stage
  <2> QED
    BY <2>1, <2>2
<1> QED
  BY <1>1, <1>2 DEF Kept, Staffed

LEMMA KeptKeys ==
    ASSUME Base, Kept, (\E r \in Requests : WritesKey(r)) \/ (\E k \in Keys : KeyExpires(k))
    PROVE  \A k \in Keys : key'[k].status # "ABSENT" =>
              \/ Staffed(key[k].org) /\ key'[k].org = key[k].org
              \/ \E r \in Requests : request[r].stage # "idle" /\ key'[k].org = request[r].org
<1>1. CASE \E r \in Requests, l \in Keys, s \in InputScopes : CreateApiKey(r, l, s)
  BY <1>1 DEF CreateApiKey, Base, TypeOK, Kept
<1>2. CASE \E r \in Requests : RevokeApiKey(r)
  <2> PICK r \in Requests : RevokeApiKey(r)
    BY <1>2
  <2>1. request[r].target \in Keys /\ key[request[r].target].status # "ABSENT"
    BY DEF RevokeApiKey, Base, Admission
  <2> QED
    BY <2>1, KeyStatus DEF Kept
<1>3. CASE \E l \in Keys : KeyExpires(l)
  <2> PICK l \in Keys : KeyExpires(l)
    BY <1>3
  <2>1. key[l].status # "ABSENT"
    BY DEF KeyExpires
  <2> QED
    BY <2>1, KeyStatus DEF Kept
<1> QED
  BY <1>1, <1>2, <1>3 DEF WritesKey

LEMMA KeptNext == Base /\ Kept /\ [Next]_vars => Kept'
<1> SUFFICES ASSUME Base, Kept, [Next]_vars PROVE Kept'
  OBVIOUS
<1>1. CASE \E r \in Requests : Done(r) \/ UpdateOrganization(r) \/ WritesRow(r)
  <2>1. UNCHANGED <<member, key, patched>> /\ \E r \in Requests : Answer(r)
    BY <1>1, SMTT(60) DEF Done, UpdateOrganization, WritesRow, Create, Update, Delete, Writes
  <2>2. \A q \in Requests : request'[q] = request[q] \/ request'[q].stage = "idle"
    BY <2>1, Answered DEF Base, Idle
  <2> QED
    BY <2>1, <2>2 DEF Kept, Staffed
<1>2. CASE (\E r \in Requests : WritesKey(r)) \/ (\E k \in Keys : KeyExpires(k))
  <2>1. /\ UNCHANGED <<member, patched>>
        /\ request' = request \/ \E r \in Requests : Answer(r)
    BY <1>2 DEF WritesKey, CreateApiKey, RevokeApiKey, KeyExpires
  <2>2. \A q \in Requests : request'[q] = request[q] \/ request'[q].stage = "idle"
    BY <2>1, Answered DEF Base, Idle
  <2>3. \A k \in Keys : key'[k].status # "ABSENT" => Staffed(key'[k].org)
    BY <1>2, KeptKeys DEF Kept
  <2> QED
    BY <2>1, <2>2, <2>3 DEF Kept, Staffed
<1>3. CASE \E o \in Orgs, u \in Users : CreateOrganization(u, o)
  <2> PICK o \in Orgs, u \in Users : CreateOrganization(u, o)
    BY <1>3
  <2>1. UNCHANGED <<key, request, patched>>
    BY DEF CreateOrganization
  <2>2. ~Staffed(o)
    BY DEF CreateOrganization, Founded, Nobody, Staffed
  <2>3. /\ member'[o][u] = [role |-> "OWNER", active |-> TRUE]
        /\ \A p \in Orgs, v \in Users : p # o \/ v # u => member'[p][v] = member[p][v]
    BY DEF CreateOrganization, Base, TypeOK
  <2>4. \A p \in Orgs, v \in Users :
           /\ member'[p][v].role = "NONE" => ~member'[p][v].active
           /\ member'[p][v].role = "OWNER" /\ ~patched'[p] => member'[p][v].active
    BY <2>1, <2>3 DEF Kept
  <2>5. \A p \in Orgs : Staffed(p) => p # o
    BY <2>2
  <2>6. \A p \in Orgs, v \in Users : p # o => member'[p][v] = member[p][v]
    BY <2>3
  <2>7. \A p \in Orgs : (\E v \in Users : member'[p][v].role # "NONE") /\ ~patched'[p]
                       => \E v \in Users : member'[p][v].role = "OWNER"
    BY <2>1, <2>3, <2>6 DEF Kept, Staffed
  <2>8. \A k \in Keys : key[k].status # "ABSENT" => \E v \in Users : member'[key[k].org][v].role # "NONE"
    BY <2>5, <2>6 DEF Kept, Base, Admission, Staffed
  <2>9. \A r \in Requests :
          LET p == request[r].org  v == request[r].target  stage == request[r].stage IN
          /\ stage # "idle" => \E w \in Users : member'[p][w].role # "NONE"
          /\ stage \in {"found", "removable"} /\ v \in Users => member'[p][v].role # "NONE"
          /\ stage \in {"missing", "inactive", "removable"} /\ ~patched[p] => member'[p][v].role # "OWNER"
    <3> SUFFICES ASSUME NEW r \in Requests, request[r].stage # "idle"
                 PROVE  LET p == request[r].org  v == request[r].target  stage == request[r].stage IN
                        /\ \E w \in Users : member'[p][w].role # "NONE"
                        /\ stage \in {"found", "removable"} /\ v \in Users => member'[p][v].role # "NONE"
                        /\ stage \in {"missing", "inactive", "removable"} /\ ~patched[p] => member'[p][v].role # "OWNER"
      OBVIOUS
    <3>1. request[r].org \in Orgs /\ Staffed(request[r].org)
      BY DEF Base, Admission, Kept
    <3>2. \A v \in Users : member'[request[r].org][v] = member[request[r].org][v]
      BY <2>5, <2>6, <3>1
    <3>3. request[r].stage \in {"missing", "inactive", "removable"} => request[r].target \in Users
      BY DEF Base, Admission
    <3> QED
      BY <3>1, <3>2, <3>3 DEF Kept, Staffed
  <2> QED
    BY <2>1, <2>4, <2>7, <2>8, <2>9 DEF Kept, Staffed
<1>4. CASE \/ \E x, m \in Rows : OpenIncident(x, m)
           \/ \E x \in Rows : WindowTurns(x)
           \/ UNCHANGED vars
  <2>1. UNCHANGED <<member, key, request, patched>>
    BY <1>4 DEF OpenIncident, WindowTurns, vars
  <2> QED
    BY <2>1 DEF Kept, Staffed
<1> QED
  BY <1>1, <1>2, <1>3, <1>4, Steps, KeptReads, KeptMembers

\* An organization keeps its owner, whatever invitations and removals overlap.
THEOREM OwnerStays == Spec => []OwnerKept
<1>1. Init => Kept
  BY NamesAssumption DEF Init, Kept, Staffed, Nobody, NoKey, Idle
<1>2. Base /\ Kept => OwnerKept
  <2> SUFFICES ASSUME Base, Kept, NEW o \in Orgs, Founded(o), ~patched[o]
               PROVE  \E u \in Users : member[o][u] = [role |-> "OWNER", active |-> TRUE]
    BY DEF OwnerKept
  <2>1. PICK v \in Users : member[o][v] # Nobody
    BY DEF Founded
  <2>2. Staffed(o)
    BY <2>1, IsNobody DEF Base, Kept, Staffed
  <2>3. PICK u \in Users : member[o][u].role = "OWNER" /\ member[o][u].active
    BY <2>2 DEF Kept
  <2>4. member[o][u] \in [role : Roles \cup {"NONE"}, active : BOOLEAN]
    BY DEF Base, TypeOK
  <2>5. member[o][u] = [role |-> member[o][u].role, active |-> member[o][u].active]
    BY <2>4
  <2>6. member[o][u].active = TRUE
    BY <2>3, <2>4
  <2> QED
    BY <2>3, <2>5, <2>6
<1> QED
  BY <1>1, <1>2, BaseInvariant, KeptNext, PTL DEF Spec
=============================================================================
