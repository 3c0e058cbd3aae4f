--------------------------- MODULE AccessControl ----------------------------
(***************************************************************************)
(* Accounts, groups, roles and project access of auth-service: the tables  *)
(* behind /admin, what /verify answers from them, and the seeding that     *)
(* every start of the service repeats.                                     *)
(*                                                                         *)
(* As in module Sessions a request is one action when its reads are still  *)
(* true when it commits (or a constraint of the database makes it fail     *)
(* when they are not), and a check followed by a later commit when they    *)
(* may be stale by then.  Users are the ordinary accounts; a superuser can *)
(* always act, so only what a group administrator does differently needs   *)
(* an actor.  Accounts and groups are not created again after a deletion.  *)
(***************************************************************************)
EXTENDS Naturals, FiniteSets

CONSTANTS Users, Groups, Roles, Projects, Services, RoleNames, Handlers,
          NoGroup, NoRole,
          Editor, Viewer     \* names of the roles that seeding provides

Accounts == {"none", "pending", "approved", "deleted"}

GroupStates == {"unused", "active", "disabled", "deleted"}

Levels == {"none", "view", "edit"}

RoleRow == [group : Groups, name : RoleNames, active : BOOLEAN, access : [Services -> Levels]]

ASSUME AccessAssumption ==
  /\ NoGroup \notin Groups
  /\ NoRole \notin RoleRow
  /\ Editor # Viewer

VARIABLES account,    \* users: is there a row, and is it approved
          requested,  \* users.requested_group_id
          groups,     \* groups, with is_active
          operation,  \* the group named Operation, or NoGroup
          members,    \* user_groups
          admins,     \* user_groups with is_group_admin
          roles,      \* roles with their role_access rows, or NoRole
          assigned,   \* user_roles
          pool,       \* group_project_access
          grants,     \* user_project_access
          origin,     \* history: how each grant came about
          req         \* requests between their check and their commit

groupVars == <<groups, operation>>
memberVars == <<members, admins>>
projectVars == <<pool, grants, origin>>
vars == <<account, requested, groupVars, memberVars, roles, assigned, projectVars, req>>

Idle == [step |-> "idle"]

Request ==
       {Idle, [step |-> "migrate"]}
  \cup [step : {"deny"}, user : Users]
  \cup [step : {"approve"}, user : Users, group : Groups \cup {NoGroup}, member : BOOLEAN]
  \cup [step : {"assign"}, user : Users, role : Roles]
  \cup [step : {"grant"}, user : Users, project : Projects]
  \cup [step : {"revoke"}, group : Groups, project : Projects,
         strip : SUBSET (Users \X Projects), gone : SUBSET (Users \X Projects)]
  \cup [step : {"drop"}, group : Groups,
         strip : SUBSET (Users \X Projects), gone : SUBSET (Users \X Projects)]
  \cup [step : {"level"}, user : Users, service : Services, held : Levels]

TypeOK ==
  /\ account \in [Users -> Accounts]
  /\ requested \in [Users -> Groups \cup {NoGroup}]
  /\ groups \in [Groups -> GroupStates]
  /\ operation \in Groups \cup {NoGroup}
  /\ members \subseteq Users \X Groups
  /\ admins \subseteq members
  /\ roles \in [Roles -> RoleRow \cup {NoRole}]
  /\ assigned \subseteq Users \X Roles
  /\ pool \subseteq Groups \X Projects
  /\ grants \subseteq Users \X Projects
  /\ origin \in [Users \X Projects -> {"none", "superuser", "admin", "left"}]
  /\ req \in [Handlers -> Request]

-----------------------------------------------------------------------------
(***************************************************************************)
(* The tables as the queries see them.                                     *)
(***************************************************************************)
Existing == {u \in Users : account[u] \in {"pending", "approved"}}

LiveGroups == {g \in Groups : groups[g] \in {"active", "disabled"}}

LiveRoles == {r \in Roles : roles[r] # NoRole}

RolesIn(g) == {r \in LiveRoles : roles[r].group = g}

\* Identities for new roles: a deleted one serves again once nothing in
\* flight remembers it.
NewRoles == {r \in Roles : /\ roles[r] = NoRole
                           /\ \A h \in Handlers : req[h].step = "assign" => req[h].role # r}

MembersOf(g) == {u \in Users : <<u, g>> \in members}

Covers(g, u, p) == <<u, g>> \in members /\ <<g, p>> \in pool

Covered(u, p) == \E g \in Groups : Covers(g, u, p)

\* Groups that an administrator shares with u: any admin of g will do.
Administered(g) == \E a \in Users : <<a, g>> \in admins /\ account[a] = "approved"

\* What the active roles of u in active groups grant (the join of authz.py).
GrantedLevels(u, s) ==
  {roles[r].access[s] : r \in {x \in LiveRoles : /\ <<u, x>> \in assigned
                                                 /\ roles[x].active
                                                 /\ groups[roles[x].group] = "active"}}
  \ {"none"}

HasServiceAccess(u, s) == GrantedLevels(u, s) # {}

HeldLevel(u, s) == IF "edit" \in GrantedLevels(u, s) THEN "edit"
                   ELSE IF HasServiceAccess(u, s) THEN "view" ELSE "none"

\* get_user_access_level: no grant to check means "edit".
AccessLevel(u, s) == IF HeldLevel(u, s) = "none" THEN "edit" ELSE HeldLevel(u, s)

NoAccess == [s \in Services |-> "none"]

\* faulty: members keep a project when any group has it, their own or not
StrippedUnlessPooled(g, p) ==
  {<<u, p>> : u \in {v \in MembersOf(g) : \A g2 \in Groups \ {g} : <<g2, p>> \notin pool}}

\* faulty: what another group still covers is stripped as well
StrippedAll(g, p) == MembersOf(g) \X {p}

\* The grants that end with g's claim on p: those of its members that no
\* other group of theirs covers.
Stripped(g, p) ==
  {<<u, p>> : u \in {v \in MembersOf(g) : \A g2 \in Groups \ {g} : ~Covers(g2, v, p)}}

\* Rows that a statement has deleted are locked until its request commits or
\* fails: another statement that deletes or inserts them waits.
Stripping == {h \in Handlers : req[h].step \in {"revoke", "drop"}}

Locked == UNION {req[h].gone : h \in Stripping}

DropGrants(G) ==
  /\ grants' = grants \ G
  /\ origin' = [k \in Users \X Projects |-> IF k \in G THEN "none" ELSE origin[k]]

-----------------------------------------------------------------------------
\* The state after the first start of the service: Operation and its roles.
Init ==
  /\ account = [u \in Users |-> "none"]
  /\ requested = [u \in Users |-> NoGroup]
  /\ operation \in Groups
  /\ groups = [g \in Groups |-> IF g = operation THEN "active" ELSE "unused"]
  /\ members = {} /\ admins = {}
  /\ \E f \in [RoleNames \cap {Editor, Viewer} -> Roles] :
       /\ \A m, n \in DOMAIN f : f[m] = f[n] => m = n
       /\ roles = [r \in Roles |->
            IF \E n \in DOMAIN f : f[n] = r
              THEN LET n == CHOOSE n \in DOMAIN f : f[n] = r
                   IN  [group |-> operation, name |-> n, active |-> TRUE,
                        access |-> [s \in Services |-> IF n = Editor THEN "edit" ELSE "view"]]
              ELSE NoRole]
  /\ assigned = {}
  /\ pool = {} /\ grants = {}
  /\ origin = [k \in Users \X Projects |-> "none"]
  /\ req = [h \in Handlers |-> Idle]

Begin(h, r) == req[h] = Idle /\ req' = [req EXCEPT ![h] = r]

End(h) == req' = [req EXCEPT ![h] = Idle]

-----------------------------------------------------------------------------
(***************************************************************************)
(* Accounts.                                                               *)
(***************************************************************************)
\* POST /register
Register(u, g) ==
  /\ account[u] = "none"
  /\ g \in LiveGroups \cup {NoGroup}
  /\ account' = [account EXCEPT ![u] = "pending"]
  /\ requested' = [requested EXCEPT ![u] = g]
  /\ UNCHANGED <<groupVars, memberVars, roles, assigned, projectVars, req>>

\* POST /users
CreateUser(u) ==
  /\ account[u] = "none"
  /\ account' = [account EXCEPT ![u] = "approved"]
  /\ UNCHANGED <<requested, groupVars, memberVars, roles, assigned, projectVars, req>>

\* POST /groups/{id}/users, with the roles (one or none) given at once
CreateUserInGroup(u, g, asAdmin, R) ==
  /\ account[u] = "none"
  /\ g \in LiveGroups
  /\ R \subseteq RolesIn(g) /\ Cardinality(R) <= 1
  /\ account' = [account EXCEPT ![u] = "approved"]
  /\ members' = members \cup {<<u, g>>}
  /\ admins' = IF asAdmin THEN admins \cup {<<u, g>>} ELSE admins
  /\ assigned' = assigned \cup ({u} \X R)
  /\ UNCHANGED <<requested, groupVars, roles, projectVars, req>>

\* POST /users/{id}/approve: the account and its membership are read...
ApproveCheck(h, u) ==
  /\ u \in Existing
  /\ Begin(h, [step |-> "approve", user |-> u, group |-> requested[u],
               member |-> <<u, requested[u]>> \in members])
  /\ UNCHANGED <<account, requested, groupVars, memberVars, roles, assigned, projectVars>>

\* faulty: a membership is added even if no group was requested
ApproveCommitAnyGroup(h) ==
  LET u == req[h].user
  IN  /\ req[h].step = "approve"
      /\ u \in Existing
      /\ account' = [account EXCEPT ![u] = "approved"]
      /\ members' = members \cup {<<u, req[h].group>>}
      /\ End(h)
      /\ UNCHANGED <<requested, groupVars, admins, roles, assigned, projectVars>>

\* ... and written in one commit, which fails as a whole when the account or
\* the group is gone, or the membership was added meanwhile.
ApproveCommit(h) ==
  LET u == req[h].user
      g == req[h].group
      joins == g # NoGroup /\ ~req[h].member
  IN  /\ req[h].step = "approve"
      /\ IF u \in Existing /\ (joins => g \in LiveGroups /\ <<u, g>> \notin members)
           THEN /\ account' = [account EXCEPT ![u] = "approved"]
                /\ members' = IF joins THEN members \cup {<<u, g>>} ELSE members
           ELSE UNCHANGED <<account, members>>
      /\ End(h)
      /\ UNCHANGED <<requested, groupVars, admins, roles, assigned, projectVars>>

\* POST /users/{id}/deny and /reject: only a pending registration...
DenyCheck(h, u) ==
  /\ account[u] = "pending"
  /\ Begin(h, [step |-> "deny", user |-> u])
  /\ UNCHANGED <<account, requested, groupVars, memberVars, roles, assigned, projectVars>>

\* ... but the row is deleted by its id, with everything that refers to it.
DenyCommit(h) ==
  LET u == req[h].user
  IN  /\ req[h].step = "deny"
      /\ ({u} \X Projects) \cap Locked = {}
      /\ account' = [account EXCEPT ![u] = "deleted"]
      /\ members' = members \ ({u} \X Groups)
      /\ admins' = admins \ ({u} \X Groups)
      /\ assigned' = assigned \ ({u} \X Roles)
      /\ DropGrants({u} \X Projects)
      /\ End(h)
      /\ UNCHANGED <<requested, groupVars, roles, pool>>

-----------------------------------------------------------------------------
(***************************************************************************)
(* Groups and their members.                                               *)
(***************************************************************************)
\* POST /groups
CreateGroup(g) ==
  /\ groups[g] = "unused"
  /\ groups' = [groups EXCEPT ![g] = "active"]
  /\ operation' \in {operation} \cup (IF operation = NoGroup THEN {g} ELSE {})
  /\ UNCHANGED <<account, requested, memberVars, roles, assigned, projectVars, req>>

\* PATCH /groups/{id}/active
SetGroupActive(g, s) ==
  /\ g \in LiveGroups
  /\ groups' = [groups EXCEPT ![g] = s]
  /\ UNCHANGED <<account, requested, operation, memberVars, roles, assigned, projectVars, req>>

\* DELETE /groups/{id}: which grants end with the group is read, deleted by one
\* statement for each project (StripGrants)...
DeleteGroupCheck(h, g) ==
  /\ g \in LiveGroups
  /\ Begin(h, [step |-> "drop", group |-> g,
               strip |-> UNION {Stripped(g, p) : p \in {q \in Projects : <<g, q>> \in pool}},
               gone |-> {}])
  /\ UNCHANGED <<account, requested, groupVars, memberVars, roles, assigned, projectVars>>

\* faulty: the roles of the group go, their assignments stay
DeleteGroupKeepingAssignments(h) ==
  LET g == req[h].group
  IN  /\ req[h].step = "drop" /\ req[h].strip = {}
      /\ groups' = [groups EXCEPT ![g] = "deleted"]
      /\ operation' = IF operation = g THEN NoGroup ELSE operation
      /\ requested' = [u \in Users |-> IF requested[u] = g THEN NoGroup ELSE requested[u]]
      /\ members' = members \ (Users \X {g})
      /\ admins' = admins \ (Users \X {g})
      /\ roles' = [r \in Roles |-> IF r \in RolesIn(g) THEN NoRole ELSE roles[r]]
      /\ pool' = pool \ ({g} \X Projects)
      /\ DropGrants(req[h].gone)
      /\ End(h)
      /\ UNCHANGED <<account, assigned>>

\* ... and committed with it, its members, its roles and its pool.
DeleteGroupCommit(h) ==
  LET g == req[h].group
  IN  /\ req[h].step = "drop" /\ req[h].strip = {}
      /\ groups' = [groups EXCEPT ![g] = "deleted"]
      /\ operation' = IF operation = g THEN NoGroup ELSE operation
      /\ requested' = [u \in Users |-> IF requested[u] = g THEN NoGroup ELSE requested[u]]
      /\ members' = members \ (Users \X {g})
      /\ admins' = admins \ (Users \X {g})
      /\ roles' = [r \in Roles |-> IF r \in RolesIn(g) THEN NoRole ELSE roles[r]]
      /\ assigned' = assigned \ (Users \X RolesIn(g))
      /\ pool' = pool \ ({g} \X Projects)
      /\ DropGrants(req[h].gone)
      /\ End(h)
      /\ UNCHANGED account

\* POST /groups/{id}/members (the account need not be approved)
AddMember(u, g, asAdmin) ==
  /\ u \in Existing
  /\ g \in LiveGroups
  /\ <<u, g>> \notin members
  /\ members' = members \cup {<<u, g>>}
  /\ admins' = IF asAdmin THEN admins \cup {<<u, g>>} ELSE admins
  /\ UNCHANGED <<account, requested, groupVars, roles, assigned, projectVars, req>>

\* The grants of a user who leaves a group are not looked at any more.
LeaveGrants(u) ==
  origin' = [k \in Users \X Projects |-> IF k[1] = u /\ k \in grants THEN "left" ELSE origin[k]]

\* faulty: the roles of the group stay assigned
RemoveMemberKeepingRoles(u, g) ==
  /\ <<u, g>> \in members
  /\ members' = members \ {<<u, g>>}
  /\ admins' = admins \ {<<u, g>>}
  /\ LeaveGrants(u)
  /\ UNCHANGED <<account, requested, groupVars, roles, assigned, pool, grants, req>>

\* DELETE /groups/{id}/members/{name}: the roles go, project grants stay.
RemoveMember(u, g) ==
  /\ <<u, g>> \in members
  /\ members' = members \ {<<u, g>>}
  /\ admins' = admins \ {<<u, g>>}
  /\ assigned' = assigned \ ({u} \X RolesIn(g))
  /\ LeaveGrants(u)
  /\ UNCHANGED <<account, requested, groupVars, roles, pool, grants, req>>

-----------------------------------------------------------------------------
(***************************************************************************)
(* Roles.                                                                  *)
(***************************************************************************)
NameFree(g, n) == \A r \in RolesIn(g) : roles[r].name # n

\* POST /groups/{id}/roles
CreateRole(r, g, n) ==
  /\ r \in NewRoles
  /\ g \in LiveGroups
  /\ NameFree(g, n)
  /\ roles' = [roles EXCEPT ![r] = [group |-> g, name |-> n, active |-> TRUE, access |-> NoAccess]]
  /\ UNCHANGED <<account, requested, groupVars, memberVars, assigned, projectVars, req>>

\* PATCH /roles/{id}/rename, PATCH /roles/{id}/active
EditRole(r, n, b) ==
  /\ r \in LiveRoles
  /\ n # roles[r].name => NameFree(roles[r].group, n)
  /\ roles' = [roles EXCEPT ![r].name = n, ![r].active = b]
  /\ UNCHANGED <<account, requested, groupVars, memberVars, assigned, projectVars, req>>

\* DELETE /roles/{id}
DeleteRole(r) ==
  /\ r \in LiveRoles
  /\ roles' = [roles EXCEPT ![r] = NoRole]
  /\ assigned' = assigned \ (Users \X {r})
  /\ UNCHANGED <<account, requested, groupVars, memberVars, projectVars, req>>

\* POST /roles/{id}/access (a level), DELETE /roles/{id}/access/{service} (none)
SetAccess(r, s, l) ==
  /\ r \in LiveRoles
  /\ roles' = [roles EXCEPT ![r].access[s] = l]
  /\ UNCHANGED <<account, requested, groupVars, memberVars, assigned, projectVars, req>>

\* faulty: anybody may be given a role
AssignCheckAnybody(h, u, r) ==
  /\ u \in Existing
  /\ r \in LiveRoles
  /\ <<u, r>> \notin assigned
  /\ Begin(h, [step |-> "assign", user |-> u, role |-> r])
  /\ UNCHANGED <<account, requested, groupVars, memberVars, roles, assigned, projectVars>>

\* POST /roles/{id}/assign: the membership is read...
AssignCheck(h, u, r) ==
  /\ u \in Existing
  /\ r \in LiveRoles
  /\ <<u, roles[r].group>> \in members
  /\ <<u, r>> \notin assigned
  /\ Begin(h, [step |-> "assign", user |-> u, role |-> r])
  /\ UNCHANGED <<account, requested, groupVars, memberVars, roles, assigned, projectVars>>

\* ... and the assignment inserted; foreign keys still need both ends.
AssignCommit(h) ==
  /\ req[h].step = "assign"
  /\ assigned' = IF req[h].user \in Existing /\ req[h].role \in LiveRoles
                   THEN assigned \cup {<<req[h].user, req[h].role>>}
                   ELSE assigned
  /\ End(h)
  /\ UNCHANGED <<account, requested, groupVars, memberVars, roles, projectVars>>

\* DELETE /roles/{id}/assign/{name}
UnassignRole(u, r) ==
  /\ <<u, r>> \in assigned
  /\ assigned' = assigned \ {<<u, r>>}
  /\ UNCHANGED <<account, requested, groupVars, memberVars, roles, projectVars, req>>

-----------------------------------------------------------------------------
(***************************************************************************)
(* Project access: the pools of groups and the grants of users.            *)
(***************************************************************************)
\* POST /groups/{id}/project-access
GrantPool(g, p) ==
  /\ g \in LiveGroups
  /\ pool' = pool \cup {<<g, p>>}
  /\ UNCHANGED <<account, requested, groupVars, memberVars, roles, assigned, grants, origin, req>>

\* DELETE /groups/{id}/project-access/{project}: whom to strip is read...
RevokePoolCheck(h, g, p) ==
  /\ <<g, p>> \in pool
  /\ Begin(h, [step |-> "revoke", group |-> g, project |-> p, strip |-> Stripped(g, p), gone |-> {}])
  /\ UNCHANGED <<account, requested, groupVars, memberVars, roles, assigned, projectVars>>

\* ... their grants of the project, as they are by then, are deleted by a
\* statement of its own (here and in DELETE /groups/{id}); one that is inserted
\* after it stays...
StripGrants(h, p) ==
  LET rows == {k \in req[h].strip : k[2] = p}
  IN  /\ h \in Stripping
      /\ rows # {} /\ rows \cap Locked = {}
      /\ req' = [req EXCEPT ![h].strip = @ \ rows, ![h].gone = @ \cup (rows \cap grants)]
      /\ UNCHANGED <<account, requested, groupVars, memberVars, roles, assigned, projectVars>>

\* ... and that is committed together with the pool's loss of the project.
RevokePoolCommit(h) ==
  /\ req[h].step = "revoke" /\ req[h].strip = {}
  /\ pool' = pool \ {<<req[h].group, req[h].project>>}
  /\ DropGrants(req[h].gone)
  /\ End(h)
  /\ UNCHANGED <<account, requested, groupVars, memberVars, roles, assigned>>

\* POST /users/{id}/project-access by a superuser
GrantProject(u, p) ==
  /\ u \in Existing
  /\ <<u, p>> \notin grants
  /\ grants' = grants \cup {<<u, p>>}
  /\ origin' = [origin EXCEPT ![<<u, p>>] = "superuser"]
  /\ UNCHANGED <<account, requested, groupVars, memberVars, roles, assigned, pool, req>>

\* The same by a group administrator: the group's pool is read...
DelegateCheck(h, u, p) ==
  /\ u \in Existing
  /\ \E g \in LiveGroups : Administered(g) /\ Covers(g, u, p)
  /\ <<u, p>> \notin grants
  /\ Begin(h, [step |-> "grant", user |-> u, project |-> p])
  /\ UNCHANGED <<account, requested, groupVars, memberVars, roles, assigned, projectVars>>

\* ... and the grant inserted, unless the account is gone or has it by now.
DelegateCommit(h) ==
  LET k == <<req[h].user, req[h].project>>
  IN  /\ req[h].step = "grant"
      /\ k \notin Locked
      /\ IF req[h].user \in Existing /\ k \notin grants
           THEN /\ grants' = grants \cup {k}
                /\ origin' = [origin EXCEPT ![k] = "admin"]
           ELSE UNCHANGED <<grants, origin>>
      /\ End(h)
      /\ UNCHANGED <<account, requested, groupVars, memberVars, roles, assigned, pool>>

\* DELETE /users/{id}/project-access/{project}
RevokeProject(u, p) ==
  /\ <<u, p>> \in grants \ Locked
  /\ DropGrants({<<u, p>>})
  /\ UNCHANGED <<account, requested, groupVars, memberVars, roles, assigned, pool, req>>

-----------------------------------------------------------------------------
(***************************************************************************)
(* GET /verify for service s: whether there is access, then at which       *)
(* level, are two queries.                                                 *)
(***************************************************************************)
VerifyAccess(h, u, s) ==
  /\ account[u] = "approved"
  /\ HasServiceAccess(u, s)
  /\ Begin(h, [step |-> "level", user |-> u, service |-> s, held |-> HeldLevel(u, s)])
  /\ UNCHANGED <<account, requested, groupVars, memberVars, roles, assigned, projectVars>>

VerifyLevel(h) ==
  /\ req[h].step = "level"
  /\ End(h)
  /\ UNCHANGED <<account, requested, groupVars, memberVars, roles, assigned, projectVars>>

-----------------------------------------------------------------------------
(***************************************************************************)
(* A start of the service (again, or of another replica).                  *)
(***************************************************************************)
\* The names of the two roles that a group lacks.
MissingNames(g) == {n \in RoleNames \cap {Editor, Viewer} : NameFree(g, n)}

\* The row of r once f has given identities to the roles that g lacks.
ProvidedRow(g, f, r) ==
  IF \E n \in DOMAIN f : f[n] = r
    THEN [group |-> g, name |-> CHOOSE n \in DOMAIN f : f[n] = r, active |-> TRUE,
          access |-> NoAccess]
    ELSE roles[r]

\* The two roles get a grant of every service they have none of.
ProvidedAccess(r) ==
  [r EXCEPT !.access = [s \in Services |->
     IF r.access[s] # "none" THEN r.access[s]
     ELSE IF r.name = Editor THEN "edit" ELSE "view"]]

IsDefault(r, g) == r # NoRole /\ r.group = g /\ r.name \in {Editor, Viewer}

\* Operation, its two roles and their grants are provided where missing...
SeedGroup(h, g, f) ==
  /\ \A m, n \in DOMAIN f : f[m] = f[n] => m = n
  /\ operation' = g
  /\ groups' = IF g \in LiveGroups THEN groups ELSE [groups EXCEPT ![g] = "active"]
  /\ roles' = [r \in Roles |-> IF IsDefault(ProvidedRow(g, f, r), g)
                                 THEN ProvidedAccess(ProvidedRow(g, f, r))
                                 ELSE ProvidedRow(g, f, r)]
  /\ Begin(h, [step |-> "migrate"])
  /\ UNCHANGED <<account, requested, memberVars, assigned, projectVars>>

SeedDefaults(h) ==
  \E g \in Groups :
    /\ IF operation = NoGroup THEN groups[g] = "unused" ELSE g = operation
    /\ \E f \in [MissingNames(g) -> NewRoles] : SeedGroup(h, g, f)

\* ... and in a second commit the members of Operation lose their grants.
MigrateOperation(h) ==
  LET rows == IF operation = NoGroup THEN {} ELSE MembersOf(operation) \X Projects
  IN  /\ req[h].step = "migrate"
      /\ rows \cap Locked = {}
      /\ DropGrants(rows)
      /\ End(h)
      /\ UNCHANGED <<account, requested, groupVars, memberVars, roles, assigned, pool>>

\* The process or its connection dies before the commit, or the database ends
\* one of two requests that wait for each other's rows.
Crash(h) ==
  /\ req[h] # Idle
  /\ End(h)
  /\ UNCHANGED <<account, requested, groupVars, memberVars, roles, assigned, projectVars>>

-----------------------------------------------------------------------------
FreeSlot == \E h \in Handlers : req[h] = Idle

ManageAccounts ==
  \/ FreeSlot /\ \E u \in Users :
       \/ \E g \in Groups \cup {NoGroup} : Register(u, g)
       \/ CreateUser(u)
       \/ \E g \in Groups, asAdmin \in BOOLEAN, R \in SUBSET Roles :
            CreateUserInGroup(u, g, asAdmin, R)
  \/ \E h \in Handlers : \/ \E u \in Users : ApproveCheck(h, u) \/ DenyCheck(h, u)
                         \/ ApproveCommit(h)
                         \/ DenyCommit(h)

ManageGroups ==
  \/ FreeSlot /\ \E g \in Groups :
       \/ CreateGroup(g)
       \/ \E s \in {"active", "disabled"} : SetGroupActive(g, s)
       \/ \E u \in Users : RemoveMember(u, g)
       \/ \E u \in Users, asAdmin \in BOOLEAN : AddMember(u, g, asAdmin)
  \/ \E h \in Handlers : (\E g \in Groups : DeleteGroupCheck(h, g)) \/ DeleteGroupCommit(h)

ManageRoles ==
  \/ FreeSlot /\ \E r \in Roles :
       \/ \E g \in Groups, n \in RoleNames : CreateRole(r, g, n)
       \/ \E n \in RoleNames, b \in BOOLEAN : EditRole(r, n, b)
       \/ DeleteRole(r)
       \/ \E s \in Services, l \in Levels : SetAccess(r, s, l)
       \/ \E u \in Users : UnassignRole(u, r)
  \/ \E h \in Handlers : (\E u \in Users, r \in Roles : AssignCheck(h, u, r)) \/ AssignCommit(h)

ManageProjects ==
  \/ FreeSlot /\ \E p \in Projects :
       \/ \E g \in Groups : GrantPool(g, p)
       \/ \E u \in Users : GrantProject(u, p) \/ RevokeProject(u, p)
  \/ \E h \in Handlers :
       \/ \E g \in Groups, p \in Projects : RevokePoolCheck(h, g, p)
       \/ \E u \in Users, p \in Projects : DelegateCheck(h, u, p)
       \/ \E p \in Projects : StripGrants(h, p)
       \/ RevokePoolCommit(h) \/ DelegateCommit(h)

Verify == \E h \in Handlers : (\E u \in Users, s \in Services : VerifyAccess(h, u, s)) \/ VerifyLevel(h)

Start == \E h \in Handlers : SeedDefaults(h) \/ MigrateOperation(h)

Next == \/ ManageAccounts \/ ManageGroups \/ ManageRoles \/ ManageProjects \/ Verify \/ Start
        \/ \E h \in Handlers : Crash(h)

Spec == Init /\ [][Next]_vars

-----------------------------------------------------------------------------
(***************************************************************************)
(* Properties.                                                             *)
(***************************************************************************)
\* No row refers to an account, a group or a role that is gone, however a
\* deletion races the requests that insert such rows (the foreign keys and
\* cascades of models.py).
ReferencesHold ==
  /\ \A k \in members : k[1] \in Existing /\ k[2] \in LiveGroups
  /\ \A r \in LiveRoles : roles[r].group \in LiveGroups
  /\ \A k \in assigned : k[1] \in Existing /\ k[2] \in LiveRoles
  /\ \A k \in pool : k[1] \in LiveGroups
  /\ \A k \in grants : k[1] \in Existing
  /\ operation # NoGroup => operation \in LiveGroups

\* Nobody holds a role of a group without being its member (assign_role,
\* remove_member).
AssignedAreMembers == \A k \in assigned : <<k[1], roles[k[2]].group>> \in members

\* Once no assignment is in flight for a user who is not a member of a group,
\* the user gains no role of the group without joining it, whatever else
\* interleaves: what a removal leaves open is exactly the assignments that
\* had passed their check (assign_role, remove_member).
RolesHeld(u, g) == {r \in RolesIn(g) : <<u, r>> \in assigned}

Outsider(u, g) ==
  /\ <<u, g>> \notin members
  /\ ~\E h \in Handlers : /\ req[h].step = "assign"
                         /\ req[h].user = u
                         /\ req[h].role \in RolesIn(g)

OutsidersGainNoRole ==
  [][ \A u \in Users, g \in Groups :
        Outsider(u, g) /\ <<u, g>> \notin members' =>
          Outsider(u, g)' /\ RolesHeld(u, g)' \subseteq RolesHeld(u, g) ]_vars

\* An approved account is never deleted (admin.py:377-379: "User Control
\* requires that an approved account can never be deleted, only deactivated").
ApprovedAccountsStay ==
  [][ \A u \in Users : account[u] = "approved" => account[u]' = "approved" ]_vars

\* What a group administrator granted stays within the pools of the user's
\* groups, as long as the user leaves none of them: revoking a pool and
\* deleting a group leave no orphaned grant (revoke_group_project_access).
DelegatedGrantsCovered ==
  \A u \in Users, p \in Projects : origin[<<u, p>>] = "admin" => Covered(u, p)

\* What an account holds in a group rests on its membership.
HoldingsRestOnMembership == AssignedAreMembers /\ DelegatedGrantsCovered

\* When a pool or a group ends, no grant is lost that another group of the
\* user's still covers (revoke_group_project_access, delete_group).
CoveredGrantsStay ==
  [][ (\E h \in Handlers : RevokePoolCommit(h) \/ DeleteGroupCommit(h))
        => \A k \in grants \ grants' : ~Covered(k[1], k[2])' ]_vars

\* /verify answers "edit" only for a user who held it at one of its two
\* queries (get_user_access_level).  Two requests break it: a role that is lost
\* between the queries turns "view" into the "edit" of no grant to check.
EditIsHeld ==
  [][ \A h \in Handlers : VerifyLevel(h) =>
        LET u == req[h].user
            s == req[h].service
        IN  AccessLevel(u, s) = "edit" => "edit" \in {req[h].held, HeldLevel(u, s)} ]_vars

\* Starting the service again takes no grant away (seed.py:112-114: "every
\* run after that finds nothing left to remove and is a no-op").
RestartKeepsGrants ==
  [][ \A h \in Handlers : MigrateOperation(h) => grants' = grants ]_vars
=============================================================================
