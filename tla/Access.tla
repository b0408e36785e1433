------------------------------- MODULE Access -------------------------------
(***************************************************************************)
(* Organizations, their members and API keys, and the way of every request  *)
(* to the rows of an organization: the middleware that admits it            *)
(* (server/src/middleware), the routers (server/src/routes), and the        *)
(* services that look a row up by id and organization and then write it by  *)
(* its id alone.                                                            *)
(*                                                                          *)
(* The middleware reads the membership, or the key, once; the request goes  *)
(* on with the role or the scopes it has read while others change them.     *)
(* requireRole and requireScope decide in the same step as the read.  Which *)
(* of the routes open to it a request is for is chosen when its handler     *)
(* gets that far: nothing before depends on it.                             *)
(*                                                                          *)
(* A row is named by its kind and its organization, and leads to other rows: *)
(* what a page shows, a window covers or a webhook is for, what a monitor   *)
(* depends on, its group and policy, the channels of a policy.  Tags (names *)
(* of an organization, never looked up by id), other columns and the audit  *)
(* log are left out.                                                        *)
(***************************************************************************)
EXTENDS Naturals, FiniteSets

CONSTANTS
    Users,         \* accounts (see Sessions)
    Orgs,          \* bound: organizations ever created
    Keys, Rows,    \* bound: API keys and other rows ever created
    Requests,      \* requests in progress at once
    None,          \* no target
    InputRoles,    \* bound: the roles that callers assign
    InputScopes,   \* bound: the sets of scopes that callers ask for
    MaxChanges     \* bound: writes to organizations, members, keys and rows
                   \* (the founding of an organization not counted)

Roles  == {"VIEWER", "DEVELOPER", "ADMIN", "OWNER"}
Scopes == {"monitors:read", "monitors:write", "incidents:read", "incidents:write",
           "status:read", "checks:read"}
Kinds  == {"monitor", "group", "incident", "page", "channel", "policy", "window", "webhook"}

\* OWNER is not among the roles validation accepts; a key has one scope at least.
ASSUME InputsAssumption ==
    /\ InputRoles \subseteq Roles \ {"OWNER"}
    /\ InputScopes \subseteq SUBSET Scopes /\ {} \notin InputScopes
ASSUME NamesAssumption ==
    /\ None \notin Users \cup Keys \cup Rows \cup Orgs
    /\ Users \cap Keys = {} /\ Users \cap Rows = {} /\ Keys \cap Rows = {}
ASSUME RequestsAssumption == IsFiniteSet(Requests) /\ Requests # {}
ASSUME ChangesAssumption == MaxChanges \in Nat

VARIABLES
    member,    \* organization_members: [Orgs -> [Users -> role and status]]
    key,       \* api_keys
    row,       \* the other rows of an organization, with the role of the last writer
    links,     \* [Rows -> the rows a row leads to]
    phase,     \* of a maintenance window: its time is to come, is now, or is over
    request,   \* each request: how far it is, as whom it was admitted, what it has found
    patched,   \* history: a PATCH has addressed the owner of the organization
    changes    \* writes so far (see MaxChanges)

rowVars == <<row, links, phase>>
vars    == <<member, key, rowVars, request, patched, changes>>

Nobody == [role |-> "NONE", active |-> FALSE]
NoKey  == [status |-> "ABSENT", org |-> None, scopes |-> {}]
NoRow  == [status |-> "ABSENT", kind |-> "none", org |-> None, from |-> None, writer |-> "NONE"]
Idle   == [stage |-> "idle", by |-> None, org |-> None, role |-> "NONE", scopes |-> {},
           target |-> None]

TypeOK ==
    /\ member \in [Orgs -> [Users -> [role : Roles \cup {"NONE"}, active : BOOLEAN]]]
    /\ key \in [Keys -> [status : {"ABSENT", "LIVE", "EXPIRED", "REVOKED"},
                         org : Orgs \cup {None}, scopes : InputScopes \cup {{}}]]
    /\ row \in [Rows -> [status : {"ABSENT", "PRESENT", "DELETED"}, kind : Kinds \cup {"none"},
                         org : Orgs \cup {None}, from : Orgs \cup {None},
                         writer : Roles \cup {"NONE", "KEY", "ENGINE"}]]
    /\ links \in [Rows -> SUBSET Rows]
    /\ phase \in [Rows -> {"before", "during", "after"}]
    /\ request \in [Requests -> [stage : {"idle", "admitted", "missing", "inactive", "found",
                                          "removable"},
                                 by : Users \cup Keys \cup {None}, org : Orgs \cup {None},
                                 role : Roles \cup {"NONE"}, scopes : InputScopes \cup {{}},
                                 target : Users \cup Keys \cup Rows \cup {None}]]
    /\ patched \in [Orgs -> BOOLEAN]
    /\ changes \in 0..MaxChanges

Init ==
    /\ member = [o \in Orgs |-> [u \in Users |-> Nobody]]
    /\ key = [k \in Keys |-> NoKey]
    /\ row = [x \in Rows |-> NoRow]
    /\ links = [x \in Rows |-> {}]
    /\ phase = [x \in Rows |-> "before"]
    /\ request = [r \in Requests |-> Idle]
    /\ patched = [o \in Orgs |-> FALSE]
    /\ changes = 0

-----------------------------------------------------------------------------
(***************************************************************************)
(* The routes of a router: what it does to which rows, and the role that    *)
(* requireRole asks for, or the scope that requireScope asks for.           *)
(***************************************************************************)
Rank == [NONE |-> 0, VIEWER |-> 1, DEVELOPER |-> 2, ADMIN |-> 3, OWNER |-> 4]
RoleAtLeast(role, required) == Rank[role] >= Rank[required]

Needs(role, on, what) == {[on |-> x, does |-> d, role |-> role] : x \in on, d \in what}

OrgRoutes == Needs("VIEWER", {"organization", "member"}, {"read"})
        \cup Needs("ADMIN", {"organization"}, {"update"})
        \cup Needs("ADMIN", {"member"}, {"create", "update", "delete"})

\* Mutant: editing and pausing are open to every member.
MonitorRoutesOpen == Needs("VIEWER", {"monitor"}, {"read", "update"})
                \cup Needs("DEVELOPER", {"monitor"}, {"create", "delete"})

MonitorRoutes == Needs("VIEWER", {"monitor"}, {"read"})
            \cup Needs("DEVELOPER", {"monitor"}, {"create", "update", "delete"})

IncidentRoutes == Needs("VIEWER", {"incident"}, {"read"})
             \cup Needs("DEVELOPER", {"incident"}, {"update"})

StatusPageRoutes == Needs("VIEWER", {"page"}, {"read"})
               \cup Needs("ADMIN", {"page"}, {"create", "update", "delete"})

AlertingRoutes == Needs("VIEWER", {"channel", "policy"}, {"read"})
             \cup Needs("ADMIN", {"channel", "policy"}, {"create", "update", "delete"})

WindowRoutes == Needs("VIEWER", {"window", "webhook"}, {"read"})
           \cup Needs("ADMIN", {"window", "webhook"}, {"create", "delete"})

GroupRoutes == Needs("VIEWER", {"group"}, {"read"})
          \cup Needs("DEVELOPER", {"group"}, {"create"})

ApiKeyRoutes == Needs("ADMIN", {"key"}, {"read", "create", "delete"})

Permissions == OrgRoutes \cup MonitorRoutes \cup IncidentRoutes \cup StatusPageRoutes
          \cup AlertingRoutes \cup WindowRoutes \cup GroupRoutes \cup ApiKeyRoutes

\* The routes under /api/v1; no route asks for incidents:write.
ApiV1Routes == {[on |-> "monitor", does |-> "read", scope |-> s] :
                   s \in {"monitors:read", "status:read", "checks:read"}}
          \cup {[on |-> "monitor", does |-> d, scope |-> "monitors:write"] : d \in {"create", "update"}}
          \cup {[on |-> "incident", does |-> "read", scope |-> "incidents:read"]}

\* The request was admitted to a route that does this.
May(r, on, does) ==
    \/ \E p \in Permissions :
          p.on = on /\ p.does = does /\ RoleAtLeast(request[r].role, p.role)
    \/ \E p \in ApiV1Routes :
          p.on = on /\ p.does = does /\ p.scope \in request[r].scopes

-----------------------------------------------------------------------------
\* What the middleware leaves in the request.
Admitted(by, org, role, scopes) ==
    [stage |-> "admitted", by |-> by, org |-> org, role |-> role, scopes |-> scopes, target |-> None]

Answer(r) == request' = [request EXCEPT ![r] = Idle]

Change == changes < MaxChanges /\ changes' = changes + 1

\* Mutant: the status of the membership is not tested.
RequireOrgAnyStatus(r, u, o) ==
    /\ request[r].stage = "idle"
    /\ member[o][u] # Nobody
    /\ request' = [request EXCEPT ![r] = Admitted(u, o, member[o][u].role, {})]
    /\ UNCHANGED <<member, key, rowVars, patched, changes>>

\* requireAuth and requireOrg: the user is an ACTIVE member.
RequireOrg(r, u, o) ==
    /\ request[r].stage = "idle"
    /\ member[o][u].active
    /\ request' = [request EXCEPT ![r] = Admitted(u, o, member[o][u].role, {})]
    /\ UNCHANGED <<member, key, rowVars, patched, changes>>

\* authenticateApiKey; lastUsedAt is written by a call nobody waits for.
AuthenticateApiKey(r, k) ==
    /\ request[r].stage = "idle"
    /\ key[k].status = "LIVE"
    /\ request' = [request EXCEPT ![r] = Admitted(k, key[k].org, "NONE", key[k].scopes)]
    /\ UNCHANGED <<member, key, rowVars, patched, changes>>

\* A list has been read, a lookup has found nothing, a call throws, or the
\* process dies.
Done(r) ==
    /\ request[r].stage # "idle"
    /\ Answer(r)
    /\ UNCHANGED <<member, key, rowVars, patched, changes>>

\* The lookup has found what the handler goes on with.
Found(r, stage, target) ==
    /\ request' = [request EXCEPT ![r].stage = stage, ![r].target = target]
    /\ UNCHANGED <<member, key, rowVars, patched, changes>>

-----------------------------------------------------------------------------
(***************************************************************************)
(* org.service.ts                                                           *)
(***************************************************************************)
Founded(o) == \E u \in Users : member[o][u] # Nobody

\* One transaction: the organization and its OWNER.  Any user may.
CreateOrganization(u, o) ==
    /\ ~Founded(o)
    /\ member' = [member EXCEPT ![o][u] = [role |-> "OWNER", active |-> TRUE]]
    /\ UNCHANGED <<key, rowVars, request, patched, changes>>

\* The columns of the organization are left out.
UpdateOrganization(r) ==
    /\ request[r].stage = "admitted" /\ May(r, "organization", "update")
    /\ Answer(r) /\ Change
    /\ UNCHANGED <<member, key, rowVars, patched>>

\* inviteMember looks for a membership; an active one is a conflict.
FindInvitee(r, u) ==
    /\ request[r].stage = "admitted" /\ May(r, "member", "create")
    /\ ~member[request[r].org][u].active
    /\ Found(r, IF member[request[r].org][u] = Nobody THEN "missing" ELSE "inactive", u)

\* It creates the membership, which throws when there is one by now, or
\* updates the one it has found.
InviteMember(r, role) ==
    LET o == request[r].org  u == request[r].target IN
    /\ request[r].stage \in {"missing", "inactive"}
    /\ request[r].stage = "missing" => member[o][u] = Nobody
    /\ member' = [member EXCEPT ![o][u] = [role |-> role, active |-> TRUE]]
    /\ Answer(r) /\ Change
    /\ UNCHANGED <<key, rowVars, patched>>

\* updateMember looks for the membership, the owner's included.
FindMember(r, u) ==
    /\ request[r].stage = "admitted" /\ May(r, "member", "update")
    /\ member[request[r].org][u] # Nobody
    /\ Found(r, "found", u)

\* It writes the role, the status, or both.
UpdateMember(r) ==
    LET o == request[r].org  u == request[r].target IN
    /\ request[r].stage = "found" /\ u \in Users
    /\ \E role \in InputRoles \cup {member[o][u].role}, active \in BOOLEAN :
          member' = [member EXCEPT ![o][u] = [role |-> role, active |-> active]]
    /\ patched' = [patched EXCEPT ![o] = @ \/ member[o][u].role = "OWNER"]
    /\ Answer(r) /\ Change
    /\ UNCHANGED <<key, rowVars>>

\* Mutant: the owner is not spared.
FindRemovableAnyone(r, u) ==
    /\ request[r].stage = "admitted" /\ May(r, "member", "delete")
    /\ member[request[r].org][u] # Nobody
    /\ Found(r, "removable", u)

\* removeMember looks for the membership and refuses the owner's.
FindRemovable(r, u) ==
    /\ request[r].stage = "admitted" /\ May(r, "member", "delete")
    /\ member[request[r].org][u] # Nobody
    /\ member[request[r].org][u].role # "OWNER"
    /\ Found(r, "removable", u)

\* It deactivates the membership, whatever has become of it.
RemoveMember(r) ==
    /\ request[r].stage = "removable"
    /\ member' = [member EXCEPT ![request[r].org][request[r].target].active = FALSE]
    /\ Answer(r) /\ Change
    /\ UNCHANGED <<key, rowVars, patched>>

OrgService(r) ==
    \/ \E u \in Users : FindInvitee(r, u) \/ FindMember(r, u) \/ FindRemovable(r, u)
    \/ \E role \in InputRoles : InviteMember(r, role)
    \/ UpdateOrganization(r) \/ UpdateMember(r) \/ RemoveMember(r)

-----------------------------------------------------------------------------
(***************************************************************************)
(* api-key.service.ts                                                       *)
(***************************************************************************)
CreateApiKey(r, k, scopes) ==
    /\ request[r].stage = "admitted" /\ May(r, "key", "create")
    /\ key[k].status = "ABSENT"
    /\ key' = [key EXCEPT ![k] = [status |-> "LIVE", org |-> request[r].org, scopes |-> scopes]]
    /\ Answer(r) /\ Change
    /\ UNCHANGED <<member, rowVars, patched>>

FindKey(r, k) ==
    /\ request[r].stage = "admitted" /\ May(r, "key", "delete")
    /\ key[k].status # "ABSENT" /\ key[k].org = request[r].org
    /\ Found(r, "found", k)

\* Mutant: the key gets the status of other rows.
RevokeDeletes(r) ==
    /\ request[r].stage = "found" /\ request[r].target \in Keys
    /\ key' = [key EXCEPT ![request[r].target].status = "DELETED"]
    /\ Answer(r) /\ Change
    /\ UNCHANGED <<member, rowVars, patched>>

RevokeApiKey(r) ==
    /\ request[r].stage = "found" /\ request[r].target \in Keys
    /\ key' = [key EXCEPT ![request[r].target].status = "REVOKED"]
    /\ Answer(r) /\ Change
    /\ UNCHANGED <<member, rowVars, patched>>

\* expiresAt passes.
KeyExpires(k) ==
    /\ key[k].status = "LIVE"
    /\ key' = [key EXCEPT ![k].status = "EXPIRED"]
    /\ UNCHANGED <<member, rowVars, request, patched, changes>>

ApiKeyService(r) ==
    \/ \E k \in Keys : FindKey(r, k) \/ \E s \in InputScopes : CreateApiKey(r, k, s)
    \/ RevokeApiKey(r)

-----------------------------------------------------------------------------
(***************************************************************************)
(* The services of the other rows, which all go the same way.               *)
(***************************************************************************)
As(r) == IF request[r].by \in Keys THEN "KEY" ELSE request[r].role

\* The kinds of row that the body of a request may link a row of a kind to, and
\* those links that are a column and not a table.
Linked  == [monitor |-> {"monitor", "group", "policy"}, group |-> {"group"},
            page |-> {"monitor"}, window |-> {"monitor"}, webhook |-> {"monitor"},
            policy |-> {"channel"}, channel |-> {}, incident |-> {}]
Columns == {<<"monitor", "group">>, <<"monitor", "policy">>, <<"group", "group">>,
            <<"webhook", "monitor">>}

\* Mutant: upsertPolicy takes the channels as they are named, too.
LinkableAny(r, kind) == {y \in Rows : row[y].status = "PRESENT" /\ row[y].kind \in Linked[kind]}

\* The rows it may link it to: those that are there, of whichever organization.
\* Only upsertPolicy looks them up by organization.
Linkable(r, kind) ==
    {y \in Rows : /\ row[y].status = "PRESENT" /\ row[y].kind \in Linked[kind]
                  /\ kind = "policy" => row[y].org = request[r].org}

LinkSets(r, kind) ==
    {L \in SUBSET Linkable(r, kind) :
        \A k \in Kinds : <<kind, k>> \in Columns => Cardinality({y \in L : row[y].kind = k}) <= 1}

\* A new row.  A page has no monitors yet; a window may be for any time to come.
Create(r, x, kind) ==
    /\ request[r].stage = "admitted" /\ row[x].status = "ABSENT"
    /\ May(r, kind, "create")
    /\ row' = [row EXCEPT ![x] = [status |-> "PRESENT", kind |-> kind, org |-> request[r].org,
                                  from |-> request[r].org, writer |-> As(r)]]
    /\ \E L \in LinkSets(r, kind) :
          /\ kind = "page" => L = {}
          /\ links' = [links EXCEPT ![x] = L]
    /\ Answer(r) /\ Change
    /\ UNCHANGED <<member, key, phase, patched>>

\* Mutant: the row is looked up by its id.
FindById(r, x, kind) ==
    /\ request[r].stage = "admitted" /\ May(r, kind, "read")
    /\ row[x].status = "PRESENT" /\ row[x].kind = kind
    /\ Found(r, "found", x)

\* findFirst by id and organization; a route that reads ends with it, and
\* answers with the rows this one leads to.
Find(r, x, kind) ==
    /\ request[r].stage = "admitted"
    /\ row[x].status = "PRESENT" /\ row[x].kind = kind
    /\ row[x].org = request[r].org
    /\ \E what \in {"read", "update", "delete"} : May(r, kind, what)
    /\ Found(r, "found", x)

\* A write by id alone, which throws when the row is gone: from where, as whom.
Writes(r, kind, what) ==
    LET x == request[r].target IN
    /\ request[r].stage = "found" /\ x \in Rows
    /\ row[x].kind = kind /\ row[x].status = "PRESENT"
    /\ May(r, kind, what)
    /\ Answer(r) /\ Change
    /\ UNCHANGED <<member, key, phase, patched>>

Written(r, y, status) ==
    [status |-> status, kind |-> row[y].kind, org |-> row[y].org,
     from |-> request[r].org, writer |-> As(r)]

\* The columns, and the links when the body names them.
Update(r, kind) ==
    LET x == request[r].target IN
    /\ Writes(r, kind, "update")
    /\ row' = [row EXCEPT ![x] = Written(r, x, "PRESENT")]
    /\ \E L \in {links[x]} \cup LinkSets(r, kind) : links' = [links EXCEPT ![x] = L]

\* What goes with a row (onDelete: Cascade): the incidents and webhooks of a
\* monitor, whosever they are.
Gone(x) == {x} \cup {y \in Rows : row[y].kind \in {"incident", "webhook"} /\ x \in links[y]}

\* The links to it go as well.
Delete(r, kind) ==
    LET G == Gone(request[r].target) IN
    /\ Writes(r, kind, "delete")
    /\ row' = [y \in Rows |-> IF y \in G THEN Written(r, y, "DELETED") ELSE row[y]]
    /\ links' = [y \in Rows |-> IF y \in G THEN {} ELSE links[y] \ G]

CreateFindWrite(r, kind) ==
    \/ \E x \in Rows : Create(r, x, kind) \/ Find(r, x, kind)
    \/ Update(r, kind) \/ Delete(r, kind)

\* createMonitor, getMonitor, updateMonitor, setPaused, deleteMonitor.
MonitorService(r) == CreateFindWrite(r, "monitor")

\* acknowledgeIncident, addNote; the status is in IncidentEngine.
IncidentService(r) == CreateFindWrite(r, "incident")

\* createStatusPage, updateStatusPage, setStatusPageMonitors, deleteStatusPage.
StatusPageService(r) == CreateFindWrite(r, "page")

\* Channels and policies: createChannel, updateChannel, deleteChannel,
\* upsertPolicy, deletePolicy.
AlertingService(r) == \E kind \in {"channel", "policy"} : CreateFindWrite(r, kind)

MaintenanceService(r) == CreateFindWrite(r, "window")

WebhookService(r) == CreateFindWrite(r, "webhook")

\* Groups have no service: their router creates them.
Groups(r) == CreateFindWrite(r, "group")

\* Time goes on for a window.
WindowTurns(x) ==
    /\ row[x].kind = "window" /\ row[x].status = "PRESENT" /\ phase[x] # "after"
    /\ phase' = [phase EXCEPT ![x] = IF @ = "before" THEN "during" ELSE "after"]
    /\ UNCHANGED <<member, key, row, links, request, patched, changes>>

\* The engine opens an incident of a monitor (see IncidentEngine) that no window
\* covers at the time, of whichever organization the window is.
OpenIncident(x, m) ==
    /\ row[x].status = "ABSENT"
    /\ row[m].kind = "monitor" /\ row[m].status = "PRESENT"
    /\ \A w \in Rows : row[w].kind = "window" /\ m \in links[w] => phase[w] # "during"
    /\ row' = [row EXCEPT ![x] = [status |-> "PRESENT", kind |-> "incident", org |-> row[m].org,
                                  from |-> row[m].org, writer |-> "ENGINE"]]
    /\ links' = [links EXCEPT ![x] = {m}]
    /\ Change
    /\ UNCHANGED <<member, key, phase, request, patched>>

-----------------------------------------------------------------------------
Next ==
    \/ \E o \in Orgs, u \in Users : CreateOrganization(u, o)
    \/ \E r \in Requests :
          \/ \E o \in Orgs, u \in Users : RequireOrg(r, u, o)
          \/ \E k \in Keys : AuthenticateApiKey(r, k)
          \/ OrgService(r) \/ ApiKeyService(r)
          \/ MonitorService(r) \/ IncidentService(r) \/ StatusPageService(r)
          \/ AlertingService(r) \/ MaintenanceService(r) \/ WebhookService(r) \/ Groups(r)
          \/ Done(r)
    \/ \E x, m \in Rows : OpenIncident(x, m)
    \/ \E x \in Rows : WindowTurns(x)
    \/ \E k \in Keys : KeyExpires(k)

Spec == Init /\ [][Next]_vars

-----------------------------------------------------------------------------
(***************************************************************************)
(* Properties.                                                              *)
(***************************************************************************)

\* A webhook that went with its monitor: the one thing a request does to a row it
\* has not looked up.
WentAlong(x) == row[x].kind = "webhook" /\ row[x].status = "DELETED"

\* "Changing an ID in the URL cannot cross org boundaries" (README.md): the row a
\* request has found belongs to the organization it was admitted to, and still
\* does when it is written by its id alone.  What is written from another
\* organization is a webhook that goes with a monitor of that one, and no other row.
Isolation ==
    /\ \A r \in Requests :
          /\ request[r].target \in Rows => row[request[r].target].org = request[r].org
          /\ request[r].target \in Keys => key[request[r].target].org = request[r].org
    /\ \A x \in Rows : row[x].from = row[x].org \/ WentAlong(x)

\* The ids in the body: a policy leads to channels of its own organization only,
\* an incident to its own organization's monitor, and no link outlives the row it
\* leads to.  Nothing of the kind holds for the others: what a page shows, a window
\* covers or a webhook is for, and what a monitor depends on, its group and its
\* policy may be another organization's ("backend-enforced isolation", README.md).
LinksTested ==
    \A x \in Rows : \A y \in links[x] :
        /\ row[x].status = "PRESENT" /\ row[y].status = "PRESENT"
        /\ row[x].kind \in {"policy", "incident"} => row[y].org = row[x].org

\* "Owner / Admin / Developer / Viewer, enforced server-side" (README.md): viewers
\* and keys change nothing but, with its scope, a monitor; developers change
\* monitors, groups and incidents; the settings of an organization are written by
\* its administrators, by whichever of its many routes, but for a webhook that goes
\* with its monitor.
WritersHaveTheRole ==
    \A x \in Rows :
        /\ row[x].writer # "VIEWER"
        /\ row[x].writer = "KEY" => row[x].kind = "monitor"
        /\ row[x].kind \in {"none", "monitor", "group", "incident"} \/ WentAlong(x)
              \/ row[x].writer \in {"ADMIN", "OWNER"}

\* Requests in progress under more rights than their caller has by now.
Stale(r) ==
    /\ request[r].stage # "idle"
    /\ IF request[r].by \in Keys
       THEN key[request[r].by].status = "REVOKED"
       ELSE LET m == member[request[r].org][request[r].by] IN
            ~m.active \/ Rank[m.role] < Rank[request[r].role]

\* A member who is removed or demoted and a key that is revoked lose their rights
\* at once, but for the requests admitted before: these are fewer than the
\* requests in progress at once, however often rights are taken and given back,
\* because whoever takes them was one.
StaleRightsBounded == Cardinality({r \in Requests : Stale(r)}) < Cardinality(Requests)

\* "The organization owner cannot be removed." (removeMember): an organization
\* keeps its active OWNER, whatever invitations and removals overlap, as long
\* as no PATCH of a membership has addressed the owner's; updateMember spares
\* nobody, and neither it nor an invitation can make another one.
OwnerKept ==
    \A o \in Orgs : Founded(o) /\ ~patched[o] =>
        \E u \in Users : member[o][u] = [role |-> "OWNER", active |-> TRUE]
=============================================================================
