------------------------- MODULE AccessControlProofs -------------------------
(***************************************************************************)
(* Proofs about AccessControl, for any number of accounts, groups, roles,  *)
(* projects and requests in flight, with every interleaving and every      *)
(* crash.  References hold by the inductive invariant AccessInv: the rows  *)
(* a request inserts are checked against the tables once more when it      *)
(* commits, by the foreign keys.                                           *)
(*                                                                         *)
(* What rests on a check made before a commit needs that one request runs  *)
(* at a time: AloneInv, in the last section, says that what it has read is *)
(* what the tables still have.                                             *)
(***************************************************************************)
EXTENDS AccessControl, TLAPS

AccessInv == TypeOK /\ ReferencesHold

-----------------------------------------------------------------------------
\* What a request in flight remembers.
LEMMA RequestFacts ==
  ASSUME TypeOK, NEW h \in Handlers
  PROVE  /\ req[h].step = "deny" => req[h].user \in Users
         /\ req[h].step = "approve" =>
              req[h].user \in Users /\ req[h].group \in Groups \cup {NoGroup}
         /\ req[h].step = "assign" => req[h].user \in Users /\ req[h].role \in Roles
         /\ req[h].step = "grant" => req[h].user \in Users /\ req[h].project \in Projects
         /\ req[h].step = "revoke" =>
              /\ req[h].group \in Groups /\ req[h].project \in Projects
              /\ req[h].strip \subseteq Users \X Projects
              /\ req[h].gone \subseteq Users \X Projects
         /\ req[h].step = "drop" =>
              /\ req[h].group \in Groups
              /\ req[h].strip \subseteq Users \X Projects
              /\ req[h].gone \subseteq Users \X Projects
  BY DEF TypeOK, Request, Idle

\* Removing grants keeps the two tables of grants well typed.
LEMMA DropFacts ==
  ASSUME TypeOK, NEW G, DropGrants(G)
  PROVE  /\ grants' \subseteq grants
         /\ grants' \subseteq Users \X Projects
         /\ origin' \in [Users \X Projects -> {"none", "superuser", "admin", "left"}]
  BY DEF TypeOK, DropGrants

\* Ending a request, or beginning one that is well formed.
LEMMA EndTyped ==
  ASSUME TypeOK, NEW h \in Handlers, End(h)
  PROVE  req' \in [Handlers -> Request]
  BY DEF TypeOK, End, Request

LEMMA BeginTyped ==
  ASSUME TypeOK, NEW h \in Handlers, NEW r \in Request, Begin(h, r)
  PROVE  req' \in [Handlers -> Request]
  BY DEF TypeOK, Begin

\* A statement that strips grants moves rows of the request it belongs to.
LEMMA StripTyped ==
  ASSUME TypeOK, NEW h \in Handlers, NEW p \in Projects, StripGrants(h, p)
  PROVE  req' \in [Handlers -> Request]
<1> DEFINE rows == {k \in req[h].strip : k[2] = p}
           next == [req[h] EXCEPT !.strip = @ \ rows, !.gone = @ \cup (rows \cap grants)]
<1>1. req' = [req EXCEPT ![h] = next]
  BY DEF StripGrants, TypeOK
<1>2. grants \subseteq Users \X Projects
  BY DEF TypeOK
<1>3. CASE req[h].step = "revoke"
  <2>1. req[h] \in [step : {"revoke"}, group : Groups, project : Projects,
                    strip : SUBSET (Users \X Projects), gone : SUBSET (Users \X Projects)]
    BY <1>3 DEF TypeOK, Request, Idle
  <2>2. next \in [step : {"revoke"}, group : Groups, project : Projects,
                  strip : SUBSET (Users \X Projects), gone : SUBSET (Users \X Projects)]
    BY <1>2, <2>1
  <2>3. QED
    BY <1>1, <2>2 DEF TypeOK, Request
<1>4. CASE req[h].step = "drop"
  <2>1. req[h] \in [step : {"drop"}, group : Groups,
                    strip : SUBSET (Users \X Projects), gone : SUBSET (Users \X Projects)]
    BY <1>4 DEF TypeOK, Request, Idle
  <2>2. next \in [step : {"drop"}, group : Groups,
                  strip : SUBSET (Users \X Projects), gone : SUBSET (Users \X Projects)]
    BY <1>2, <2>1
  <2>3. QED
    BY <1>1, <2>2 DEF TypeOK, Request
<1>5. QED
  BY <1>3, <1>4 DEF StripGrants, Stripping

\* The request stays what it is; rows leave what it has still to strip.
LEMMA StripStep ==
  ASSUME TypeOK, NEW h \in Handlers, NEW p \in Projects, StripGrants(h, p)
  PROVE  LET rows == {k \in req[h].strip : k[2] = p}
         IN  /\ req[h].step \in {"revoke", "drop"} /\ req'[h].step = req[h].step
             /\ req'[h].group = req[h].group
             /\ req[h].step = "revoke" => req'[h].project = req[h].project
             /\ req'[h].strip = req[h].strip \ rows
             /\ req'[h].gone = req[h].gone \cup (rows \cap grants)
<1> DEFINE rows == {k \in req[h].strip : k[2] = p}
<1>1. req[h].step \in {"revoke", "drop"} /\ req[h] \in Request
  BY DEF StripGrants, Stripping, TypeOK
<1>2. req'[h] = [req[h] EXCEPT !.strip = @ \ rows, !.gone = @ \cup (rows \cap grants)]
  BY DEF StripGrants, TypeOK
<1>3. CASE req[h].step = "revoke"
  <2>1. req[h] \in [step : {"revoke"}, group : Groups, project : Projects,
                    strip : SUBSET (Users \X Projects), gone : SUBSET (Users \X Projects)]
    BY <1>1, <1>3 DEF Request, Idle
  <2>2. QED
    BY <1>2, <1>3, <2>1
<1>4. CASE req[h].step = "drop"
  <2>1. req[h] \in [step : {"drop"}, group : Groups,
                    strip : SUBSET (Users \X Projects), gone : SUBSET (Users \X Projects)]
    BY <1>1, <1>4 DEF Request, Idle
  <2>2. QED
    BY <1>2, <1>4, <2>1
<1>5. QED
  BY <1>1, <1>3, <1>4

LEMMA LiveRolesTyped ==
  ASSUME TypeOK
  PROVE  /\ \A r \in LiveRoles : roles[r] \in RoleRow
         /\ \A r \in Roles : roles[r] \in RoleRow => r \in LiveRoles
  BY AccessAssumption DEF TypeOK, LiveRoles

LEMMA StrippedTyped ==
  ASSUME NEW g \in Groups, NEW p \in Projects
  PROVE  Stripped(g, p) \subseteq Users \X Projects
<1> SUFFICES ASSUME NEW k \in Stripped(g, p) PROVE k \in Users \X Projects
  OBVIOUS
<1>1. PICK u \in MembersOf(g) : k = <<u, p>>
  BY DEF Stripped
<1>2. QED
  BY <1>1 DEF MembersOf

-----------------------------------------------------------------------------
\* The service keeps its types: accounts, ...
LEMMA AccountsTyped == TypeOK /\ ManageAccounts => TypeOK'
<1> SUFFICES ASSUME TypeOK, ManageAccounts PROVE TypeOK'
  OBVIOUS
<1>1. ASSUME NEW u \in Users, NEW g \in Groups \cup {NoGroup}, Register(u, g)
      PROVE  TypeOK'
  BY <1>1 DEF TypeOK, Register, Accounts, groupVars, memberVars, projectVars
<1>2. ASSUME NEW u \in Users, CreateUser(u)
      PROVE  TypeOK'
  BY <1>2 DEF TypeOK, CreateUser, Accounts, groupVars, memberVars, projectVars
<1>3. ASSUME NEW u \in Users, NEW g \in Groups, NEW asAdmin \in BOOLEAN, NEW R \in SUBSET Roles,
             CreateUserInGroup(u, g, asAdmin, R)
      PROVE  TypeOK'
  BY <1>3 DEF TypeOK, CreateUserInGroup, Accounts, groupVars, memberVars, projectVars
<1>4. ASSUME NEW h \in Handlers, NEW u \in Users, ApproveCheck(h, u)
      PROVE  TypeOK'
  <2>1. [step |-> "approve", user |-> u, group |-> requested[u],
         member |-> <<u, requested[u]>> \in members] \in Request
    BY DEF Request, TypeOK
  <2>2. req' \in [Handlers -> Request]
    BY <1>4, <2>1, BeginTyped DEF ApproveCheck
  <2>3. QED
    BY <1>4, <2>2 DEF TypeOK, ApproveCheck, groupVars, memberVars, projectVars
<1>5. ASSUME NEW h \in Handlers, NEW u \in Users, DenyCheck(h, u)
      PROVE  TypeOK'
  <2>1. [step |-> "deny", user |-> u] \in Request
    BY DEF Request
  <2>2. req' \in [Handlers -> Request]
    BY <1>5, <2>1, BeginTyped DEF DenyCheck
  <2>3. QED
    BY <1>5, <2>2 DEF TypeOK, DenyCheck, groupVars, memberVars, projectVars
<1>6. ASSUME NEW h \in Handlers, ApproveCommit(h)
      PROVE  TypeOK'
  <2>1. req[h].user \in Users /\ req[h].group \in Groups \cup {NoGroup}
    BY <1>6, RequestFacts DEF ApproveCommit
  <2>2. req' \in [Handlers -> Request]
    BY <1>6, EndTyped DEF ApproveCommit
  <2>3. account' \in [Users -> Accounts]
    BY <1>6 DEF ApproveCommit, TypeOK, Accounts
  <2>4. members' \subseteq Users \X Groups /\ members \subseteq members'
    BY <1>6, <2>1 DEF ApproveCommit, TypeOK
  <2>5. QED
    BY <1>6, <2>2, <2>3, <2>4 DEF TypeOK, ApproveCommit, groupVars, memberVars, projectVars
<1>7. ASSUME NEW h \in Handlers, DenyCommit(h)
      PROVE  TypeOK'
  <2>1. req' \in [Handlers -> Request]
    BY <1>7, EndTyped DEF DenyCommit
  <2>2. /\ grants' \subseteq Users \X Projects
        /\ origin' \in [Users \X Projects -> {"none", "superuser", "admin", "left"}]
    BY <1>7, DropFacts DEF DenyCommit
  <2>3. account' \in [Users -> Accounts]
    BY <1>7 DEF DenyCommit, TypeOK, Accounts
  <2>4. members' \subseteq Users \X Groups /\ admins' \subseteq members'
    BY <1>7 DEF DenyCommit, TypeOK
  <2>5. QED
    BY <1>7, <2>1, <2>2, <2>3, <2>4 DEF TypeOK, DenyCommit, groupVars
<1>8. QED
  BY <1>1, <1>2, <1>3, <1>4, <1>5, <1>6, <1>7 DEF ManageAccounts

\* ... groups, ...
LEMMA GroupsTyped == TypeOK /\ ManageGroups => TypeOK'
<1> SUFFICES ASSUME TypeOK, ManageGroups PROVE TypeOK'
  OBVIOUS
<1>1. ASSUME NEW g \in Groups, CreateGroup(g)
      PROVE  TypeOK'
  BY <1>1 DEF TypeOK, CreateGroup, GroupStates, memberVars, projectVars
<1>2. ASSUME NEW g \in Groups, NEW s \in {"active", "disabled"}, SetGroupActive(g, s)
      PROVE  TypeOK'
  BY <1>2 DEF TypeOK, SetGroupActive, GroupStates, memberVars, projectVars
<1>3. ASSUME NEW g \in Groups, NEW u \in Users, RemoveMember(u, g)
      PROVE  TypeOK'
  <2>1. origin' \in [Users \X Projects -> {"none", "superuser", "admin", "left"}]
    BY <1>3 DEF RemoveMember, LeaveGrants, TypeOK
  <2>2. QED
    BY <1>3, <2>1 DEF TypeOK, RemoveMember, groupVars
<1>4. ASSUME NEW g \in Groups, NEW u \in Users, NEW asAdmin \in BOOLEAN, AddMember(u, g, asAdmin)
      PROVE  TypeOK'
  BY <1>4 DEF TypeOK, AddMember, groupVars, projectVars
<1>5. ASSUME NEW h \in Handlers, NEW g \in Groups, DeleteGroupCheck(h, g)
      PROVE  TypeOK'
  <2> DEFINE strip == UNION {Stripped(g, p) : p \in {q \in Projects : <<g, q>> \in pool}}
  <2>1. strip \subseteq Users \X Projects
    BY StrippedTyped
  <2>2. [step |-> "drop", group |-> g, strip |-> strip, gone |-> {}] \in Request
    BY <2>1 DEF Request
  <2>3. req' \in [Handlers -> Request]
    BY <1>5, <2>2, BeginTyped DEF DeleteGroupCheck
  <2>4. QED
    BY <1>5, <2>3 DEF TypeOK, DeleteGroupCheck, groupVars, memberVars, projectVars
<1>6. ASSUME NEW h \in Handlers, DeleteGroupCommit(h)
      PROVE  TypeOK'
  <2>1. req' \in [Handlers -> Request]
    BY <1>6, EndTyped DEF DeleteGroupCommit
  <2>2. /\ grants' \subseteq Users \X Projects
        /\ origin' \in [Users \X Projects -> {"none", "superuser", "admin", "left"}]
    BY <1>6, DropFacts DEF DeleteGroupCommit
  <2>3. /\ groups' \in [Groups -> GroupStates]
        /\ operation' \in Groups \cup {NoGroup}
        /\ requested' \in [Users -> Groups \cup {NoGroup}]
        /\ roles' \in [Roles -> RoleRow \cup {NoRole}]
    BY <1>6 DEF DeleteGroupCommit, TypeOK, GroupStates
  <2>4. /\ members' \subseteq Users \X Groups /\ admins' \subseteq members'
        /\ assigned' \subseteq Users \X Roles
        /\ pool' \subseteq Groups \X Projects
    BY <1>6 DEF DeleteGroupCommit, TypeOK
  <2>5. QED
    BY <1>6, <2>1, <2>2, <2>3, <2>4 DEF TypeOK, DeleteGroupCommit
<1>7. QED
  BY <1>1, <1>2, <1>3, <1>4, <1>5, <1>6 DEF ManageGroups

\* ... roles, ...
LEMMA RolesTyped == TypeOK /\ ManageRoles => TypeOK'
<1> SUFFICES ASSUME TypeOK, ManageRoles PROVE TypeOK'
  OBVIOUS
<1>1. ASSUME NEW r \in Roles, NEW g \in Groups, NEW n \in RoleNames, CreateRole(r, g, n)
      PROVE  TypeOK'
  <2>1. [group |-> g, name |-> n, active |-> TRUE, access |-> NoAccess] \in RoleRow
    BY DEF RoleRow, NoAccess, Levels
  <2>2. QED
    BY <1>1, <2>1 DEF TypeOK, CreateRole, groupVars, memberVars, projectVars
<1>2. ASSUME NEW r \in Roles, NEW n \in RoleNames, NEW b \in BOOLEAN, EditRole(r, n, b)
      PROVE  TypeOK'
  <2>1. roles[r] \in RoleRow
    BY <1>2, LiveRolesTyped DEF EditRole
  <2>2. [roles[r] EXCEPT !.name = n, !.active = b] \in RoleRow
    BY <2>1 DEF RoleRow
  <2>3. roles' = [roles EXCEPT ![r] = [roles[r] EXCEPT !.name = n, !.active = b]]
    BY <1>2, <2>1 DEF EditRole, TypeOK, RoleRow
  <2>4. QED
    BY <1>2, <2>2, <2>3 DEF TypeOK, EditRole, groupVars, memberVars, projectVars
<1>3. ASSUME NEW r \in Roles, DeleteRole(r)
      PROVE  TypeOK'
  BY <1>3 DEF TypeOK, DeleteRole, groupVars, memberVars, projectVars
<1>4. ASSUME NEW r \in Roles, NEW s \in Services, NEW l \in Levels, SetAccess(r, s, l)
      PROVE  TypeOK'
  <2>1. roles[r] \in RoleRow
    BY <1>4, LiveRolesTyped DEF SetAccess
  <2>2. [roles[r] EXCEPT !.access[s] = l] \in RoleRow
    BY <2>1 DEF RoleRow
  <2>3. QED
    BY <1>4, <2>2 DEF TypeOK, SetAccess, groupVars, memberVars, projectVars
<1>5. ASSUME NEW r \in Roles, NEW u \in Users, UnassignRole(u, r)
      PROVE  TypeOK'
  BY <1>5 DEF TypeOK, UnassignRole, groupVars, memberVars, projectVars
<1>6. ASSUME NEW h \in Handlers, NEW u \in Users, NEW r \in Roles, AssignCheck(h, u, r)
      PROVE  TypeOK'
  <2>1. [step |-> "assign", user |-> u, role |-> r] \in Request
    BY DEF Request
  <2>2. req' \in [Handlers -> Request]
    BY <1>6, <2>1, BeginTyped DEF AssignCheck
  <2>3. QED
    BY <1>6, <2>2 DEF TypeOK, AssignCheck, groupVars, memberVars, projectVars
<1>7. ASSUME NEW h \in Handlers, AssignCommit(h)
      PROVE  TypeOK'
  <2>1. req' \in [Handlers -> Request]
    BY <1>7, EndTyped DEF AssignCommit
  <2>2. assigned' \subseteq Users \X Roles
    BY <1>7, RequestFacts DEF AssignCommit, TypeOK
  <2>3. QED
    BY <1>7, <2>1, <2>2 DEF TypeOK, AssignCommit, groupVars, memberVars, projectVars
<1>8. QED
  BY <1>1, <1>2, <1>3, <1>4, <1>5, <1>6, <1>7 DEF ManageRoles

\* ... project access, ...
LEMMA ProjectsTyped == TypeOK /\ ManageProjects => TypeOK'
<1> SUFFICES ASSUME TypeOK, ManageProjects PROVE TypeOK'
  OBVIOUS
<1>1. ASSUME NEW p \in Projects, NEW g \in Groups, GrantPool(g, p)
      PROVE  TypeOK'
  BY <1>1 DEF TypeOK, GrantPool, groupVars, memberVars
<1>2. ASSUME NEW p \in Projects, NEW u \in Users, GrantProject(u, p)
      PROVE  TypeOK'
  BY <1>2 DEF TypeOK, GrantProject, groupVars, memberVars
<1>3. ASSUME NEW p \in Projects, NEW u \in Users, RevokeProject(u, p)
      PROVE  TypeOK'
  <2>1. /\ grants' \subseteq Users \X Projects
        /\ origin' \in [Users \X Projects -> {"none", "superuser", "admin", "left"}]
    BY <1>3, DropFacts DEF RevokeProject
  <2>2. QED
    BY <1>3, <2>1 DEF TypeOK, RevokeProject, groupVars, memberVars
<1>4. ASSUME NEW h \in Handlers, NEW g \in Groups, NEW p \in Projects, RevokePoolCheck(h, g, p)
      PROVE  TypeOK'
  <2>1. [step |-> "revoke", group |-> g, project |-> p, strip |-> Stripped(g, p), gone |-> {}]
          \in Request
    BY StrippedTyped DEF Request
  <2>2. req' \in [Handlers -> Request]
    BY <1>4, <2>1, BeginTyped DEF RevokePoolCheck
  <2>3. QED
    BY <1>4, <2>2 DEF TypeOK, RevokePoolCheck, groupVars, memberVars, projectVars
<1>5. ASSUME NEW h \in Handlers, NEW u \in Users, NEW p \in Projects, DelegateCheck(h, u, p)
      PROVE  TypeOK'
  <2>1. [step |-> "grant", user |-> u, project |-> p] \in Request
    BY DEF Request
  <2>2. req' \in [Handlers -> Request]
    BY <1>5, <2>1, BeginTyped DEF DelegateCheck
  <2>3. QED
    BY <1>5, <2>2 DEF TypeOK, DelegateCheck, groupVars, memberVars, projectVars
<1>6. ASSUME NEW h \in Handlers, RevokePoolCommit(h)
      PROVE  TypeOK'
  <2>1. req' \in [Handlers -> Request]
    BY <1>6, EndTyped DEF RevokePoolCommit
  <2>2. /\ grants' \subseteq Users \X Projects
        /\ origin' \in [Users \X Projects -> {"none", "superuser", "admin", "left"}]
    BY <1>6, DropFacts DEF RevokePoolCommit
  <2>3. QED
    BY <1>6, <2>1, <2>2 DEF TypeOK, RevokePoolCommit, groupVars, memberVars
<1>7. ASSUME NEW h \in Handlers, DelegateCommit(h)
      PROVE  TypeOK'
  <2>1. req' \in [Handlers -> Request]
    BY <1>7, EndTyped DEF DelegateCommit
  <2>2. <<req[h].user, req[h].project>> \in Users \X Projects
    BY <1>7, RequestFacts DEF DelegateCommit
  <2>3. QED
    BY <1>7, <2>1, <2>2 DEF TypeOK, DelegateCommit, groupVars, memberVars
<1>8. ASSUME NEW h \in Handlers, NEW p \in Projects, StripGrants(h, p)
      PROVE  TypeOK'
  BY <1>8, StripTyped DEF TypeOK, StripGrants, groupVars, memberVars, projectVars
<1>9. QED
  BY <1>1, <1>2, <1>3, <1>4, <1>5, <1>6, <1>7, <1>8 DEF ManageProjects

\* ... and a start of the service, whose roles are well formed.
LEMMA ProvidedRowTyped ==
  ASSUME TypeOK, NEW g \in Groups, NEW f \in [MissingNames(g) -> NewRoles], NEW r \in Roles
  PROVE  ProvidedRow(g, f, r) \in RoleRow \cup {NoRole}
<1>1. CASE \E n \in DOMAIN f : f[n] = r
  <2>1. PICK m : m \in DOMAIN f /\ m = CHOOSE n \in DOMAIN f : f[n] = r
    BY <1>1
  <2>2. m \in RoleNames
    BY <2>1 DEF MissingNames
  <2>3. ProvidedRow(g, f, r) = [group |-> g, name |-> m, active |-> TRUE, access |-> NoAccess]
    BY <1>1, <2>1 DEF ProvidedRow
  <2>4. QED
    BY <2>2, <2>3 DEF RoleRow, NoAccess, Levels
<1>2. CASE ~\E n \in DOMAIN f : f[n] = r
  BY <1>2 DEF ProvidedRow, TypeOK
<1>3. QED
  BY <1>1, <1>2

LEMMA ProvidedAccessTyped ==
  ASSUME NEW r \in RoleRow
  PROVE  ProvidedAccess(r) \in RoleRow
  BY DEF ProvidedAccess, RoleRow, Levels

LEMMA StartTyped == TypeOK /\ Start => TypeOK'
<1> SUFFICES ASSUME TypeOK, NEW h \in Handlers, SeedDefaults(h) \/ MigrateOperation(h)
             PROVE  TypeOK'
  BY DEF Start
<1>1. ASSUME NEW g \in Groups, NEW f \in [MissingNames(g) -> NewRoles], SeedGroup(h, g, f)
      PROVE  TypeOK'
  <2>1. \A r \in Roles : ProvidedRow(g, f, r) \in RoleRow \cup {NoRole}
    BY ProvidedRowTyped
  <2>2. \A r \in Roles : IsDefault(ProvidedRow(g, f, r), g) =>
          ProvidedAccess(ProvidedRow(g, f, r)) \in RoleRow
    BY <2>1, ProvidedAccessTyped DEF IsDefault
  <2>3. roles' \in [Roles -> RoleRow \cup {NoRole}]
    BY <1>1, <2>1, <2>2 DEF SeedGroup
  <2>4. [step |-> "migrate"] \in Request
    BY DEF Request
  <2>5. req' \in [Handlers -> Request]
    BY <1>1, <2>4, BeginTyped DEF SeedGroup
  <2>6. groups' \in [Groups -> GroupStates] /\ operation' \in Groups
    BY <1>1 DEF SeedGroup, TypeOK, GroupStates
  <2>7. QED
    BY <1>1, <2>3, <2>5, <2>6 DEF SeedGroup, TypeOK, memberVars, projectVars
<1>2. CASE MigrateOperation(h)
  <2>1. req' \in [Handlers -> Request]
    BY <1>2, EndTyped DEF MigrateOperation
  <2>2. /\ grants' \subseteq Users \X Projects
        /\ origin' \in [Users \X Projects -> {"none", "superuser", "admin", "left"}]
    BY <1>2, DropFacts DEF MigrateOperation
  <2>3. QED
    BY <1>2, <2>1, <2>2 DEF TypeOK, MigrateOperation, groupVars, memberVars
<1>3. QED
  BY <1>1, <1>2 DEF SeedDefaults

LEMMA TypeStep == TypeOK /\ [Next]_vars => TypeOK'
<1> SUFFICES ASSUME TypeOK, [Next]_vars PROVE TypeOK'
  OBVIOUS
<1>1. CASE UNCHANGED vars
  BY <1>1 DEF TypeOK, vars, groupVars, memberVars, projectVars
<1>2. ASSUME NEW h \in Handlers, Crash(h)
      PROVE  TypeOK'
  <2>1. req' \in [Handlers -> Request]
    BY <1>2, EndTyped DEF Crash
  <2>2. QED
    BY <1>2, <2>1 DEF TypeOK, Crash, groupVars, memberVars, projectVars
<1>3. ASSUME NEW h \in Handlers, NEW u \in Users, NEW s \in Services, VerifyAccess(h, u, s)
      PROVE  TypeOK'
  <2>1. [step |-> "level", user |-> u, service |-> s, held |-> HeldLevel(u, s)] \in Request
    BY DEF Request, HeldLevel, Levels
  <2>2. req' \in [Handlers -> Request]
    BY <1>3, <2>1, BeginTyped DEF VerifyAccess
  <2>3. QED
    BY <1>3, <2>2 DEF TypeOK, VerifyAccess, groupVars, memberVars, projectVars
<1>4. ASSUME NEW h \in Handlers, VerifyLevel(h)
      PROVE  TypeOK'
  <2>1. req' \in [Handlers -> Request]
    BY <1>4, EndTyped DEF VerifyLevel
  <2>2. QED
    BY <1>4, <2>1 DEF TypeOK, VerifyLevel, groupVars, memberVars, projectVars
<1>5. QED
  BY <1>1, <1>2, <1>3, <1>4, AccountsTyped, GroupsTyped, RolesTyped, ProjectsTyped, StartTyped
  DEF Next, Verify

-----------------------------------------------------------------------------
\* Nothing that only forgets rows on the referring side breaks a reference.
LEMMA FewerReferences ==
  ASSUME ReferencesHold, UNCHANGED <<account, groups, roles, operation>>,
         members' \subseteq members, assigned' \subseteq assigned,
         pool' \subseteq pool, grants' \subseteq grants
  PROVE  ReferencesHold'
<1>1. Existing' = Existing /\ LiveGroups' = LiveGroups /\ LiveRoles' = LiveRoles
  BY DEF Existing, LiveGroups, LiveRoles
<1>2. QED
  BY <1>1 DEF ReferencesHold

LEMMA AccountsReferences == AccessInv /\ ManageAccounts => ReferencesHold'
<1> SUFFICES ASSUME TypeOK, ReferencesHold, ManageAccounts PROVE ReferencesHold'
  BY DEF AccessInv
<1>1. ASSUME NEW u \in Users, account[u] = "none",
             account' \in {[account EXCEPT ![u] = "pending"], [account EXCEPT ![u] = "approved"]},
             UNCHANGED <<groupVars, memberVars, roles, assigned, projectVars>>
      PROVE  ReferencesHold'
  <2>1. Existing \subseteq Existing'
    BY <1>1 DEF Existing, TypeOK
  <2>2. LiveGroups' = LiveGroups /\ LiveRoles' = LiveRoles
    BY <1>1 DEF LiveGroups, LiveRoles, groupVars
  <2>3. QED
    BY <1>1, <2>1, <2>2 DEF ReferencesHold, groupVars, memberVars, projectVars
<1>2. ASSUME NEW u \in Users, NEW g \in Groups \cup {NoGroup}, Register(u, g)
      PROVE  ReferencesHold'
  BY <1>1, <1>2 DEF Register
<1>3. ASSUME NEW u \in Users, CreateUser(u)
      PROVE  ReferencesHold'
  BY <1>1, <1>3 DEF CreateUser
<1>4. ASSUME NEW u \in Users, NEW g \in Groups, NEW asAdmin \in BOOLEAN, NEW R \in SUBSET Roles,
             CreateUserInGroup(u, g, asAdmin, R)
      PROVE  ReferencesHold'
  <2>1. Existing \subseteq Existing' /\ u \in Existing'
    BY <1>4 DEF CreateUserInGroup, Existing, TypeOK
  <2>2. LiveGroups' = LiveGroups /\ LiveRoles' = LiveRoles
    BY <1>4 DEF CreateUserInGroup, LiveGroups, LiveRoles, groupVars
  <2>3. R \subseteq LiveRoles /\ g \in LiveGroups
    BY <1>4 DEF CreateUserInGroup, RolesIn
  <2>4. \A k \in members' : k[1] \in Existing' /\ k[2] \in LiveGroups'
    BY <1>4, <2>1, <2>2, <2>3 DEF CreateUserInGroup, ReferencesHold
  <2>5. \A k \in assigned' : k[1] \in Existing' /\ k[2] \in LiveRoles'
    BY <1>4, <2>1, <2>2, <2>3 DEF CreateUserInGroup, ReferencesHold
  <2>6. QED
    BY <1>4, <2>1, <2>2, <2>4, <2>5 DEF CreateUserInGroup, ReferencesHold, groupVars, projectVars
<1>5. ASSUME NEW h \in Handlers, NEW u \in Users, ApproveCheck(h, u) \/ DenyCheck(h, u)
      PROVE  ReferencesHold'
  BY <1>5, FewerReferences DEF ApproveCheck, DenyCheck, groupVars, memberVars, projectVars
<1>6. ASSUME NEW h \in Handlers, ApproveCommit(h)
      PROVE  ReferencesHold'
  <2>1. Existing' = Existing
    BY <1>6 DEF ApproveCommit, Existing, TypeOK
  <2>2. LiveGroups' = LiveGroups /\ LiveRoles' = LiveRoles
    BY <1>6 DEF ApproveCommit, LiveGroups, LiveRoles, groupVars
  <2>3. \A k \in members' : k[1] \in Existing' /\ k[2] \in LiveGroups'
    BY <1>6, <2>1, <2>2 DEF ApproveCommit, ReferencesHold
  <2>4. QED
    BY <1>6, <2>1, <2>2, <2>3 DEF ApproveCommit, ReferencesHold, groupVars, projectVars
<1>7. ASSUME NEW h \in Handlers, DenyCommit(h)
      PROVE  ReferencesHold'
  <2> DEFINE u == req[h].user
  <2>1. u \in Users /\ Existing' = Existing \ {u}
    BY <1>7, RequestFacts DEF DenyCommit, Existing, TypeOK
  <2>2. LiveGroups' = LiveGroups /\ LiveRoles' = LiveRoles
    BY <1>7 DEF DenyCommit, LiveGroups, LiveRoles, groupVars
  <2>3. \A k \in members' : k[1] \in Existing' /\ k[2] \in LiveGroups'
    BY <1>7, <2>1, <2>2 DEF DenyCommit, ReferencesHold, TypeOK
  <2>4. \A k \in assigned' : k[1] \in Existing' /\ k[2] \in LiveRoles'
    BY <1>7, <2>1, <2>2 DEF DenyCommit, ReferencesHold, TypeOK
  <2>5. \A k \in grants' : k[1] \in Existing'
    BY <1>7, <2>1 DEF DenyCommit, DropGrants, ReferencesHold, TypeOK
  <2>6. QED
    BY <1>7, <2>2, <2>3, <2>4, <2>5 DEF DenyCommit, ReferencesHold, groupVars
<1>8. QED
  BY <1>2, <1>3, <1>4, <1>5, <1>6, <1>7 DEF ManageAccounts

LEMMA GroupsReferences == AccessInv /\ ManageGroups => ReferencesHold'
<1> SUFFICES ASSUME TypeOK, ReferencesHold, ManageGroups PROVE ReferencesHold'
  BY DEF AccessInv
<1>1. ASSUME NEW g \in Groups, CreateGroup(g)
      PROVE  ReferencesHold'
  <2>1. LiveGroups' = LiveGroups \cup {g}
    BY <1>1 DEF CreateGroup, LiveGroups, TypeOK
  <2>2. Existing' = Existing /\ LiveRoles' = LiveRoles
    BY <1>1 DEF CreateGroup, Existing, LiveRoles
  <2>3. QED
    BY <1>1, <2>1, <2>2 DEF CreateGroup, ReferencesHold, memberVars, projectVars
<1>2. ASSUME NEW g \in Groups, NEW s \in {"active", "disabled"}, SetGroupActive(g, s)
      PROVE  ReferencesHold'
  <2>1. LiveGroups' = LiveGroups
    BY <1>2 DEF SetGroupActive, LiveGroups, TypeOK
  <2>2. Existing' = Existing /\ LiveRoles' = LiveRoles
    BY <1>2 DEF SetGroupActive, Existing, LiveRoles
  <2>3. QED
    BY <1>2, <2>1, <2>2 DEF SetGroupActive, ReferencesHold, memberVars, projectVars
<1>3. ASSUME NEW g \in Groups, NEW u \in Users, RemoveMember(u, g)
      PROVE  ReferencesHold'
  BY <1>3, FewerReferences DEF RemoveMember, groupVars
<1>4. ASSUME NEW g \in Groups, NEW u \in Users, NEW asAdmin \in BOOLEAN, AddMember(u, g, asAdmin)
      PROVE  ReferencesHold'
  <2>1. Existing' = Existing /\ LiveGroups' = LiveGroups /\ LiveRoles' = LiveRoles
    BY <1>4 DEF AddMember, Existing, LiveGroups, LiveRoles, groupVars
  <2>2. \A k \in members' : k[1] \in Existing /\ k[2] \in LiveGroups
    BY <1>4 DEF AddMember, ReferencesHold
  <2>3. QED
    BY <1>4, <2>1, <2>2 DEF AddMember, ReferencesHold, groupVars, projectVars
<1>5. ASSUME NEW h \in Handlers, NEW g \in Groups, DeleteGroupCheck(h, g)
      PROVE  ReferencesHold'
  BY <1>5, FewerReferences DEF DeleteGroupCheck, groupVars, memberVars, projectVars
<1>6. ASSUME NEW h \in Handlers, DeleteGroupCommit(h)
      PROVE  ReferencesHold'
  <2> DEFINE g == req[h].group
  <2>1. g \in Groups /\ LiveGroups' = LiveGroups \ {g}
    BY <1>6, RequestFacts DEF DeleteGroupCommit, LiveGroups, TypeOK
  <2>2. Existing' = Existing
    BY <1>6 DEF DeleteGroupCommit, Existing
  <2>3. LiveRoles' = LiveRoles \ RolesIn(g)
    BY <1>6, AccessAssumption DEF DeleteGroupCommit, LiveRoles, TypeOK
  <2>4. \A r \in LiveRoles' : roles'[r] = roles[r] /\ roles[r].group # g
    BY <1>6, <2>3 DEF DeleteGroupCommit, LiveRoles, RolesIn
  <2>5. \A k \in members' : k[1] \in Existing' /\ k[2] \in LiveGroups'
    BY <1>6, <2>1, <2>2 DEF DeleteGroupCommit, ReferencesHold, TypeOK
  <2>6. \A k \in assigned' : k[1] \in Existing' /\ k[2] \in LiveRoles'
    BY <1>6, <2>2, <2>3 DEF DeleteGroupCommit, ReferencesHold, TypeOK
  <2>7. \A k \in pool' : k[1] \in LiveGroups'
    BY <1>6, <2>1 DEF DeleteGroupCommit, ReferencesHold, TypeOK
  <2>8. \A k \in grants' : k[1] \in Existing'
    BY <1>6, <2>2 DEF DeleteGroupCommit, DropGrants, ReferencesHold
  <2>9. \A r \in LiveRoles' : roles'[r].group \in LiveGroups'
    BY <2>1, <2>3, <2>4 DEF ReferencesHold
  <2>10. operation' # NoGroup => operation' \in LiveGroups'
    BY <1>6, <2>1 DEF DeleteGroupCommit, ReferencesHold
  <2>11. QED
    BY <2>5, <2>6, <2>7, <2>8, <2>9, <2>10 DEF ReferencesHold
<1>7. QED
  BY <1>1, <1>2, <1>3, <1>4, <1>5, <1>6 DEF ManageGroups

LEMMA RolesReferences == AccessInv /\ ManageRoles => ReferencesHold'
<1> SUFFICES ASSUME TypeOK, ReferencesHold, ManageRoles PROVE ReferencesHold'
  BY DEF AccessInv
<1>1. ASSUME NEW r \in Roles, NEW g \in Groups, NEW n \in RoleNames, CreateRole(r, g, n)
      PROVE  ReferencesHold'
  <2> DEFINE row == [group |-> g, name |-> n, active |-> TRUE, access |-> NoAccess]
  <2>1. row \in RoleRow
    BY DEF RoleRow, NoAccess, Levels
  <2>2. row # NoRole
    BY <2>1, AccessAssumption
  <2>3. LiveRoles' = LiveRoles \cup {r} /\ r \notin LiveRoles
    BY <1>1, <2>2 DEF CreateRole, LiveRoles, NewRoles, TypeOK
  <2>4. Existing' = Existing /\ LiveGroups' = LiveGroups
    BY <1>1 DEF CreateRole, Existing, LiveGroups, groupVars
  <2>5. \A x \in LiveRoles' : roles'[x].group \in LiveGroups
    BY <1>1, <2>3 DEF CreateRole, ReferencesHold, LiveRoles, TypeOK
  <2>6. QED
    BY <1>1, <2>3, <2>4, <2>5 DEF CreateRole, ReferencesHold, groupVars, memberVars, projectVars
<1>2. ASSUME NEW r \in LiveRoles, NEW row \in RoleRow, row.group = roles[r].group,
             roles' = [roles EXCEPT ![r] = row],
             UNCHANGED <<account, groupVars, memberVars, assigned, projectVars>>
      PROVE  ReferencesHold'
  <2>1. LiveRoles' = LiveRoles
    BY <1>2, AccessAssumption DEF LiveRoles, TypeOK
  <2>2. Existing' = Existing /\ LiveGroups' = LiveGroups
    BY <1>2 DEF Existing, LiveGroups, groupVars
  <2>3. \A x \in LiveRoles : roles'[x].group = roles[x].group
    BY <1>2 DEF LiveRoles, TypeOK
  <2>4. QED
    BY <1>2, <2>1, <2>2, <2>3 DEF ReferencesHold, groupVars, memberVars, projectVars
<1>3. ASSUME NEW r \in Roles, NEW n \in RoleNames, NEW b \in BOOLEAN, EditRole(r, n, b)
      PROVE  ReferencesHold'
  <2> DEFINE row == [roles[r] EXCEPT !.name = n, !.active = b]
  <2>1. r \in LiveRoles /\ roles[r] \in RoleRow
    BY <1>3, LiveRolesTyped DEF EditRole
  <2>2. row \in RoleRow /\ row.group = roles[r].group
    BY <2>1 DEF RoleRow
  <2>3. roles' = [roles EXCEPT ![r] = row]
    BY <1>3, <2>1 DEF EditRole, TypeOK, RoleRow
  <2>4. QED
    BY <1>2, <1>3, <2>1, <2>2, <2>3 DEF EditRole
<1>4. ASSUME NEW r \in Roles, NEW s \in Services, NEW l \in Levels, SetAccess(r, s, l)
      PROVE  ReferencesHold'
  <2> DEFINE row == [roles[r] EXCEPT !.access[s] = l]
  <2>1. r \in LiveRoles /\ roles[r] \in RoleRow
    BY <1>4, LiveRolesTyped DEF SetAccess
  <2>2. row \in RoleRow /\ row.group = roles[r].group
    BY <2>1 DEF RoleRow
  <2>3. roles' = [roles EXCEPT ![r] = row]
    BY <1>4 DEF SetAccess
  <2>4. QED
    BY <1>2, <1>4, <2>1, <2>2, <2>3 DEF SetAccess
<1>5. ASSUME NEW r \in Roles, DeleteRole(r)
      PROVE  ReferencesHold'
  <2>1. LiveRoles' = LiveRoles \ {r} /\ \A x \in LiveRoles' : roles'[x] = roles[x]
    BY <1>5 DEF DeleteRole, LiveRoles, TypeOK
  <2>2. Existing' = Existing /\ LiveGroups' = LiveGroups
    BY <1>5 DEF DeleteRole, Existing, LiveGroups, groupVars
  <2>3. \A k \in assigned' : k[1] \in Existing /\ k[2] \in LiveRoles'
    BY <1>5, <2>1 DEF DeleteRole, ReferencesHold, TypeOK
  <2>4. QED
    BY <1>5, <2>1, <2>2, <2>3 DEF DeleteRole, ReferencesHold, groupVars, memberVars, projectVars
<1>6. ASSUME NEW r \in Roles, NEW u \in Users, UnassignRole(u, r)
      PROVE  ReferencesHold'
  BY <1>6, FewerReferences DEF UnassignRole, groupVars, memberVars, projectVars
<1>7. ASSUME NEW h \in Handlers, NEW u \in Users, NEW r \in Roles, AssignCheck(h, u, r)
      PROVE  ReferencesHold'
  BY <1>7, FewerReferences DEF AssignCheck, groupVars, memberVars, projectVars
<1>8. ASSUME NEW h \in Handlers, AssignCommit(h)
      PROVE  ReferencesHold'
  <2>1. Existing' = Existing /\ LiveGroups' = LiveGroups /\ LiveRoles' = LiveRoles
    BY <1>8 DEF AssignCommit, Existing, LiveGroups, LiveRoles, groupVars
  <2>2. \A k \in assigned' : k[1] \in Existing /\ k[2] \in LiveRoles
    BY <1>8 DEF AssignCommit, ReferencesHold
  <2>3. QED
    BY <1>8, <2>1, <2>2 DEF AssignCommit, ReferencesHold, groupVars, memberVars, projectVars
<1>9. QED
  BY <1>1, <1>3, <1>4, <1>5, <1>6, <1>7, <1>8 DEF ManageRoles

LEMMA ProjectsReferences == AccessInv /\ ManageProjects => ReferencesHold'
<1> SUFFICES ASSUME TypeOK, ReferencesHold, ManageProjects PROVE ReferencesHold'
  BY DEF AccessInv
<1>1. ASSUME UNCHANGED <<account, groups, roles, operation, members, assigned>>,
             \A k \in pool' \ pool : k[1] \in LiveGroups,
             \A k \in grants' \ grants : k[1] \in Existing
      PROVE  ReferencesHold'
  <2>1. Existing' = Existing /\ LiveGroups' = LiveGroups /\ LiveRoles' = LiveRoles
    BY <1>1 DEF Existing, LiveGroups, LiveRoles
  <2>2. QED
    BY <1>1, <2>1 DEF ReferencesHold
<1>2. ASSUME NEW p \in Projects, NEW g \in Groups, GrantPool(g, p)
      PROVE  ReferencesHold'
  BY <1>1, <1>2 DEF GrantPool, groupVars, memberVars
<1>3. ASSUME NEW p \in Projects, NEW u \in Users, GrantProject(u, p)
      PROVE  ReferencesHold'
  BY <1>1, <1>3 DEF GrantProject, groupVars, memberVars
<1>4. ASSUME NEW p \in Projects, NEW u \in Users, RevokeProject(u, p)
      PROVE  ReferencesHold'
  BY <1>1, <1>4 DEF RevokeProject, DropGrants, groupVars, memberVars
<1>5. ASSUME NEW h \in Handlers, NEW p \in Projects,
             \/ \E g \in Groups : RevokePoolCheck(h, g, p)
             \/ \E u \in Users : DelegateCheck(h, u, p)
             \/ StripGrants(h, p)
      PROVE  ReferencesHold'
  BY <1>1, <1>5 DEF RevokePoolCheck, DelegateCheck, StripGrants, groupVars, memberVars, projectVars
<1>6. ASSUME NEW h \in Handlers, RevokePoolCommit(h)
      PROVE  ReferencesHold'
  BY <1>1, <1>6 DEF RevokePoolCommit, DropGrants, groupVars, memberVars
<1>7. ASSUME NEW h \in Handlers, DelegateCommit(h)
      PROVE  ReferencesHold'
  BY <1>1, <1>7 DEF DelegateCommit, groupVars, memberVars
<1>8. QED
  BY <1>2, <1>3, <1>4, <1>5, <1>6, <1>7 DEF ManageProjects

LEMMA StartReferences == AccessInv /\ Start => ReferencesHold'
<1> SUFFICES ASSUME TypeOK, ReferencesHold, NEW h \in Handlers, SeedDefaults(h) \/ MigrateOperation(h)
             PROVE  ReferencesHold'
  BY DEF Start, AccessInv
<1>1. ASSUME NEW g \in Groups, NEW f \in [MissingNames(g) -> NewRoles], SeedGroup(h, g, f),
             IF operation = NoGroup THEN groups[g] = "unused" ELSE g = operation
      PROVE  ReferencesHold'
  <2>1. g \in LiveGroups' /\ LiveGroups \subseteq LiveGroups'
    BY <1>1 DEF SeedGroup, LiveGroups, ReferencesHold, TypeOK
  <2>2. Existing' = Existing
    BY <1>1 DEF SeedGroup, Existing
  <2>3. ASSUME NEW r \in Roles
        PROVE  /\ roles'[r] # NoRole => roles'[r].group \in LiveGroups'
               /\ roles[r] # NoRole => roles'[r] # NoRole
    <3> DEFINE row == ProvidedRow(g, f, r)
    <3>1. row \in RoleRow \cup {NoRole}
      BY ProvidedRowTyped
    <3>2. row # NoRole => row.group \in LiveGroups'
      BY <2>1 DEF ProvidedRow, ReferencesHold, LiveRoles
    <3>3. IsDefault(row, g) => /\ ProvidedAccess(row) # NoRole
                              /\ ProvidedAccess(row).group = row.group
      BY <3>1, ProvidedAccessTyped, AccessAssumption DEF IsDefault, ProvidedAccess, RoleRow
    <3>4. roles'[r] = IF IsDefault(row, g) THEN ProvidedAccess(row) ELSE row
      BY <1>1 DEF SeedGroup
    <3>5. roles[r] # NoRole => row # NoRole
      BY DEF ProvidedRow, NewRoles
    <3>6. QED
      BY <3>2, <3>3, <3>4, <3>5 DEF IsDefault
  <2>4. LiveRoles \subseteq LiveRoles'
    BY <2>3 DEF LiveRoles
  <2>5. \A r \in LiveRoles' : roles'[r].group \in LiveGroups'
    BY <2>3 DEF LiveRoles
  <2>6. operation' = g
    BY <1>1 DEF SeedGroup
  <2>7. UNCHANGED <<members, assigned, pool, grants>>
    BY <1>1 DEF SeedGroup, memberVars, projectVars
  <2>8. QED
    BY <2>1, <2>2, <2>4, <2>5, <2>6, <2>7 DEF ReferencesHold
<1>2. CASE MigrateOperation(h)
  BY <1>2, FewerReferences DEF MigrateOperation, DropGrants, groupVars, memberVars
<1>3. QED
  BY <1>1, <1>2 DEF SeedDefaults

LEMMA AccessInvStep == AccessInv /\ [Next]_vars => AccessInv'
<1> SUFFICES ASSUME AccessInv, [Next]_vars PROVE AccessInv'
  OBVIOUS
<1>1. TypeOK'
  BY TypeStep DEF AccessInv
<1>2. CASE UNCHANGED vars
  BY <1>1, <1>2, FewerReferences DEF AccessInv, vars, groupVars, memberVars, projectVars
<1>3. ASSUME NEW h \in Handlers, Crash(h)
      PROVE  ReferencesHold'
  BY <1>3, FewerReferences DEF AccessInv, Crash, groupVars, memberVars, projectVars
<1>4. CASE Verify
  <2>1. PICK h \in Handlers : (\E u \in Users, s \in Services : VerifyAccess(h, u, s))
                              \/ VerifyLevel(h)
    BY <1>4 DEF Verify
  <2>2. ASSUME NEW u, NEW s, VerifyAccess(h, u, s)
        PROVE  ReferencesHold'
    BY <2>2, FewerReferences DEF AccessInv, VerifyAccess, groupVars, memberVars, projectVars
  <2>3. ASSUME VerifyLevel(h)
        PROVE  ReferencesHold'
    BY <2>3, FewerReferences DEF AccessInv, VerifyLevel, groupVars, memberVars, projectVars
  <2>4. QED
    BY <1>1, <2>1, <2>2, <2>3 DEF AccessInv
<1>5. QED
  BY <1>1, <1>2, <1>3, <1>4, AccountsReferences, GroupsReferences, RolesReferences,
     ProjectsReferences, StartReferences DEF AccessInv, Next

LEMMA AccessInvInit == Init => AccessInv
<1> SUFFICES ASSUME Init PROVE AccessInv
  OBVIOUS
<1>1. PICK f \in [RoleNames \cap {Editor, Viewer} -> Roles] :
        roles = [r \in Roles |->
            IF \E n \in DOMAIN f : f[n] = r
              THEN LET n == CHOOSE n \in DOMAIN f : f[n] = r
                   IN  [group |-> operation, name |-> n, active |-> TRUE,
                        access |-> [s \in Services |-> IF n = Editor THEN "edit" ELSE "view"]]
              ELSE NoRole]
  BY DEF Init
<1>2. ASSUME NEW r \in Roles
      PROVE  roles[r] \in RoleRow \cup {NoRole} /\ (roles[r] # NoRole => roles[r].group = operation)
  <2>1. CASE \E n \in DOMAIN f : f[n] = r
    <3>1. PICK m : m \in DOMAIN f /\ m = CHOOSE n \in DOMAIN f : f[n] = r
      BY <2>1
    <3>2. roles[r] = [group |-> operation, name |-> m, active |-> TRUE,
                      access |-> [s \in Services |-> IF m = Editor THEN "edit" ELSE "view"]]
      BY <1>1, <2>1, <3>1
    <3>3. QED
      BY <3>1, <3>2 DEF Init, RoleRow, Levels
  <2>2. CASE ~\E n \in DOMAIN f : f[n] = r
    BY <1>1, <2>2
  <2>3. QED
    BY <2>1, <2>2
<1>3. roles \in [Roles -> RoleRow \cup {NoRole}]
  BY <1>1, <1>2
<1>4. Idle \in Request
  BY DEF Request
<1>5. TypeOK
  BY <1>3, <1>4 DEF Init, TypeOK, Accounts, GroupStates
<1>6. ReferencesHold
  BY <1>2 DEF Init, ReferencesHold, LiveRoles, LiveGroups
<1>7. QED
  BY <1>5, <1>6 DEF AccessInv

THEOREM AccessInvariance == Spec => []AccessInv
<1>1. Init => AccessInv
  BY AccessInvInit
<1>2. AccessInv /\ [Next]_vars => AccessInv'
  BY AccessInvStep
<1>3. QED
  BY <1>1, <1>2, PTL DEF Spec

\* Every state is well typed, for any number of accounts, groups, roles,
\* projects and requests in flight.
THEOREM AccessTyped == Spec => []TypeOK
<1>1. AccessInv => TypeOK
  BY DEF AccessInv
<1>2. QED
  BY <1>1, AccessInvariance, PTL

\* No row of auth-service refers to an account, group or role that is gone,
\* however deletions race the requests that insert such rows.
THEOREM AccessReferences == Spec => []ReferencesHold
<1>1. AccessInv => ReferencesHold
  BY DEF AccessInv
<1>2. QED
  BY <1>1, AccessInvariance, PTL

-----------------------------------------------------------------------------
\* Roles keep their group; a new one has an identity that no request in
\* flight remembers.
RolesKeepGroups ==
  \A r \in LiveRoles' : r \in NewRoles \/ (r \in LiveRoles /\ roles'[r].group = roles[r].group)

\* A role is assigned by a request that had passed its check, or to someone
\* who is a member from then on.
AssignmentsChecked ==
  \A k \in assigned' \ assigned :
    \/ \E h \in Handlers : req[h].step = "assign" /\ req[h].user = k[1] /\ req[h].role = k[2]
    \/ k[2] \in LiveRoles /\ <<k[1], roles[k[2]].group>> \in members'

\* The check is for membership.
RequestsChecked ==
  \A h \in Handlers : req'[h].step = "assign" =>
    \/ req'[h] = req[h]
    \/ /\ <<req'[h].user, roles[req'[h].role].group>> \in members
       /\ req'[h].role \in LiveRoles
       /\ roles' = roles

LEMMA RequestsKept ==
  ASSUME UNCHANGED req
  PROVE  RequestsChecked
  BY DEF RequestsChecked

LEMMA RolesUnchanged ==
  ASSUME UNCHANGED roles
  PROVE  RolesKeepGroups
  BY DEF RolesKeepGroups, LiveRoles

LEMMA NothingAssigned ==
  ASSUME assigned' \subseteq assigned
  PROVE  AssignmentsChecked
  BY DEF AssignmentsChecked

LEMMA RequestEnded ==
  ASSUME TypeOK, NEW h \in Handlers, End(h)
  PROVE  RequestsChecked
  BY DEF TypeOK, End, Idle, RequestsChecked

LEMMA RequestBegun ==
  ASSUME TypeOK, NEW h \in Handlers, NEW r, r.step # "assign", Begin(h, r)
  PROVE  RequestsChecked
  BY DEF TypeOK, Begin, RequestsChecked

LEMMA AccessStepShape ==
  TypeOK /\ [Next]_vars => RolesKeepGroups /\ AssignmentsChecked /\ RequestsChecked
<1> SUFFICES ASSUME TypeOK, [Next]_vars
             PROVE  RolesKeepGroups /\ AssignmentsChecked /\ RequestsChecked
  OBVIOUS
<1>1. CASE UNCHANGED vars
  BY <1>1, RolesUnchanged, NothingAssigned, RequestsKept DEF vars
<1>2. CASE ManageAccounts
  <2>1. RolesKeepGroups
    BY <1>2, RolesUnchanged
    DEF ManageAccounts, Register, CreateUser, CreateUserInGroup, ApproveCheck, DenyCheck,
        ApproveCommit, DenyCommit
  <2>2. ASSUME NEW u \in Users,
               \/ \E g \in Groups \cup {NoGroup} : Register(u, g)
               \/ CreateUser(u)
        PROVE  AssignmentsChecked /\ RequestsChecked
    BY <2>2, NothingAssigned, RequestsKept DEF Register, CreateUser
  <2>3. ASSUME NEW u \in Users, NEW g \in Groups, NEW asAdmin \in BOOLEAN,
               NEW R \in SUBSET Roles, CreateUserInGroup(u, g, asAdmin, R)
        PROVE  AssignmentsChecked /\ RequestsChecked
    <3>1. RequestsChecked
      BY <2>3, RequestsKept DEF CreateUserInGroup
    <3>2. \A r \in R : r \in LiveRoles /\ roles[r].group = g
      BY <2>3 DEF CreateUserInGroup, RolesIn
    <3>3. \A k \in assigned' \ assigned : k[1] = u /\ k[2] \in R
      BY <2>3 DEF CreateUserInGroup
    <3>4. <<u, g>> \in members'
      BY <2>3 DEF CreateUserInGroup
    <3>5. QED
      BY <3>1, <3>2, <3>3, <3>4 DEF AssignmentsChecked
  <2>4. ASSUME NEW h \in Handlers, NEW u \in Users, ApproveCheck(h, u) \/ DenyCheck(h, u)
        PROVE  AssignmentsChecked /\ RequestsChecked
    BY <2>4, NothingAssigned, RequestBegun DEF ApproveCheck, DenyCheck
  <2>5. ASSUME NEW h \in Handlers, ApproveCommit(h) \/ DenyCommit(h)
        PROVE  AssignmentsChecked /\ RequestsChecked
    BY <2>5, NothingAssigned, RequestEnded DEF ApproveCommit, DenyCommit
  <2>6. QED
    BY <1>2, <2>1, <2>2, <2>3, <2>4, <2>5 DEF ManageAccounts
<1>3. CASE ManageGroups
  <2>1. ASSUME NEW g \in Groups, NEW u \in Users,
               \/ RemoveMember(u, g)
               \/ \E asAdmin \in BOOLEAN : AddMember(u, g, asAdmin)
        PROVE  RolesKeepGroups /\ AssignmentsChecked /\ RequestsChecked
    BY <2>1, RolesUnchanged, NothingAssigned, RequestsKept DEF RemoveMember, AddMember
  <2>2. ASSUME NEW g \in Groups,
               CreateGroup(g) \/ \E s \in {"active", "disabled"} : SetGroupActive(g, s)
        PROVE  RolesKeepGroups /\ AssignmentsChecked /\ RequestsChecked
    BY <2>2, RolesUnchanged, NothingAssigned, RequestsKept DEF CreateGroup, SetGroupActive
  <2>3. ASSUME NEW h \in Handlers, NEW g \in Groups, DeleteGroupCheck(h, g)
        PROVE  RolesKeepGroups /\ AssignmentsChecked /\ RequestsChecked
    BY <2>3, RolesUnchanged, NothingAssigned, RequestBegun DEF DeleteGroupCheck
  <2>4. ASSUME NEW h \in Handlers, DeleteGroupCommit(h)
        PROVE  RolesKeepGroups /\ AssignmentsChecked /\ RequestsChecked
    <3>1. RolesKeepGroups
      BY <2>4 DEF DeleteGroupCommit, RolesKeepGroups, LiveRoles
    <3>2. QED
      BY <2>4, <3>1, NothingAssigned, RequestEnded DEF DeleteGroupCommit
  <2>5. QED
    BY <1>3, <2>1, <2>2, <2>3, <2>4 DEF ManageGroups
<1>4. CASE ManageRoles
  <2>1. ASSUME NEW r \in Roles, NEW g \in Groups, NEW n \in RoleNames, CreateRole(r, g, n)
        PROVE  RolesKeepGroups /\ AssignmentsChecked /\ RequestsChecked
    <3>1. RolesKeepGroups
      BY <2>1 DEF CreateRole, RolesKeepGroups, LiveRoles, TypeOK
    <3>2. QED
      BY <2>1, <3>1, NothingAssigned, RequestsKept DEF CreateRole
  <2>2. ASSUME NEW r \in Roles, NEW n \in RoleNames, NEW b \in BOOLEAN, EditRole(r, n, b)
        PROVE  RolesKeepGroups /\ AssignmentsChecked /\ RequestsChecked
    <3>1. roles[r] \in RoleRow
      BY <2>2, LiveRolesTyped DEF EditRole
    <3>2. RolesKeepGroups
      BY <2>2, <3>1 DEF EditRole, RolesKeepGroups, LiveRoles, TypeOK, RoleRow
    <3>3. QED
      BY <2>2, <3>2, NothingAssigned, RequestsKept DEF EditRole
  <2>3. ASSUME NEW r \in Roles, NEW s \in Services, NEW l \in Levels, SetAccess(r, s, l)
        PROVE  RolesKeepGroups /\ AssignmentsChecked /\ RequestsChecked
    <3>1. roles[r] \in RoleRow
      BY <2>3, LiveRolesTyped DEF SetAccess
    <3>2. RolesKeepGroups
      BY <2>3, <3>1 DEF SetAccess, RolesKeepGroups, LiveRoles, TypeOK, RoleRow
    <3>3. QED
      BY <2>3, <3>2, NothingAssigned, RequestsKept DEF SetAccess
  <2>4. ASSUME NEW r \in Roles, DeleteRole(r)
        PROVE  RolesKeepGroups /\ AssignmentsChecked /\ RequestsChecked
    <3>1. RolesKeepGroups
      BY <2>4 DEF DeleteRole, RolesKeepGroups, LiveRoles, TypeOK
    <3>2. QED
      BY <2>4, <3>1, NothingAssigned, RequestsKept DEF DeleteRole
  <2>5. ASSUME NEW r \in Roles, NEW u \in Users, UnassignRole(u, r)
        PROVE  RolesKeepGroups /\ AssignmentsChecked /\ RequestsChecked
    BY <2>5, RolesUnchanged, NothingAssigned, RequestsKept DEF UnassignRole
  <2>6. ASSUME NEW h \in Handlers, NEW u \in Users, NEW r \in Roles, AssignCheck(h, u, r)
        PROVE  RolesKeepGroups /\ AssignmentsChecked /\ RequestsChecked
    <3>1. RequestsChecked
      BY <2>6 DEF AssignCheck, Begin, RequestsChecked, TypeOK
    <3>2. QED
      BY <2>6, <3>1, RolesUnchanged, NothingAssigned DEF AssignCheck
  <2>7. ASSUME NEW h \in Handlers, AssignCommit(h)
        PROVE  RolesKeepGroups /\ AssignmentsChecked /\ RequestsChecked
    <3>1. AssignmentsChecked
      BY <2>7 DEF AssignCommit, AssignmentsChecked
    <3>2. QED
      BY <2>7, <3>1, RolesUnchanged, RequestEnded DEF AssignCommit
  <2>8. QED
    BY <1>4, <2>1, <2>2, <2>3, <2>4, <2>5, <2>6, <2>7 DEF ManageRoles
<1>5. CASE ManageProjects
  <2>1. RolesKeepGroups /\ AssignmentsChecked
    BY <1>5, RolesUnchanged, NothingAssigned
    DEF ManageProjects, GrantPool, GrantProject, RevokeProject, RevokePoolCheck, DelegateCheck,
        StripGrants, RevokePoolCommit, DelegateCommit
  <2>2. ASSUME NEW h \in Handlers, NEW p \in Projects,
               \/ \E g \in Groups : RevokePoolCheck(h, g, p)
               \/ \E u \in Users : DelegateCheck(h, u, p)
        PROVE  RequestsChecked
    BY <2>2, RequestBegun DEF RevokePoolCheck, DelegateCheck
  <2>3. ASSUME NEW h \in Handlers, RevokePoolCommit(h) \/ DelegateCommit(h)
        PROVE  RequestsChecked
    BY <2>3, RequestEnded DEF RevokePoolCommit, DelegateCommit
  <2>4. ASSUME NEW p \in Projects,
               \/ \E g \in Groups : GrantPool(g, p)
               \/ \E u \in Users : GrantProject(u, p) \/ RevokeProject(u, p)
        PROVE  RequestsChecked
    BY <2>4, RequestsKept DEF GrantPool, GrantProject, RevokeProject
  <2>5. ASSUME NEW h \in Handlers, NEW p \in Projects, StripGrants(h, p)
        PROVE  RequestsChecked
    <3>1. \A g \in Handlers : g # h => req'[g] = req[g]
      BY <2>5 DEF StripGrants, TypeOK
    <3>2. req'[h].step # "assign"
      BY <2>5, StripStep
    <3>3. QED
      BY <3>1, <3>2 DEF RequestsChecked
  <2>6. QED
    BY <1>5, <2>1, <2>2, <2>3, <2>4, <2>5 DEF ManageProjects
<1>6. CASE Verify
  BY <1>6, RolesUnchanged, NothingAssigned, RequestBegun, RequestEnded
  DEF Verify, VerifyAccess, VerifyLevel
<1>7. ASSUME NEW h \in Handlers, NEW g \in Groups, NEW f \in [MissingNames(g) -> NewRoles],
             SeedGroup(h, g, f)
      PROVE  RolesKeepGroups /\ AssignmentsChecked /\ RequestsChecked
  <2>1. ASSUME NEW r \in LiveRoles', r \notin NewRoles
        PROVE  r \in LiveRoles /\ roles'[r].group = roles[r].group
    <3>1. r \in Roles
      BY <2>1 DEF LiveRoles
    <3>2. ProvidedRow(g, f, r) = roles[r]
      BY <2>1 DEF ProvidedRow
    <3>3. roles'[r] = IF IsDefault(roles[r], g) THEN ProvidedAccess(roles[r]) ELSE roles[r]
      BY <1>7, <3>1, <3>2 DEF SeedGroup
    <3>4. roles[r] # NoRole
      BY <2>1, <3>3 DEF LiveRoles, IsDefault
    <3>5. roles[r] \in RoleRow
      BY <3>1, <3>4 DEF TypeOK
    <3>6. QED
      BY <3>1, <3>3, <3>4, <3>5 DEF LiveRoles, ProvidedAccess, RoleRow
  <2>2. RolesKeepGroups
    BY <2>1 DEF RolesKeepGroups
  <2>3. QED
    BY <1>7, <2>2, NothingAssigned, RequestBegun DEF SeedGroup
<1>8. ASSUME NEW h \in Handlers, MigrateOperation(h) \/ Crash(h)
      PROVE  RolesKeepGroups /\ AssignmentsChecked /\ RequestsChecked
  BY <1>8, RolesUnchanged, NothingAssigned, RequestEnded DEF MigrateOperation, Crash
<1>9. QED
  BY <1>1, <1>2, <1>3, <1>4, <1>5, <1>6, <1>7, <1>8 DEF Next, Start, SeedDefaults

\* Whoever is no member of a group, and has no assignment in flight, gains no
\* role of it without joining, for any number of requests in flight.
THEOREM NoRoleForOutsiders == Spec => OutsidersGainNoRole
<1> DEFINE Gains ==
      \A u \in Users, g \in Groups :
        Outsider(u, g) /\ <<u, g>> \notin members' =>
          Outsider(u, g)' /\ RolesHeld(u, g)' \subseteq RolesHeld(u, g)
<1>1. AccessInv /\ [Next]_vars => Gains
  <2> SUFFICES ASSUME AccessInv, [Next]_vars, NEW u \in Users, NEW g \in Groups,
                      Outsider(u, g), <<u, g>> \notin members'
               PROVE  Outsider(u, g)' /\ RolesHeld(u, g)' \subseteq RolesHeld(u, g)
    OBVIOUS
  <2>1. RolesKeepGroups /\ AssignmentsChecked /\ RequestsChecked
    BY AccessStepShape DEF AccessInv
  <2>2. ASSUME NEW r \in RolesIn(g)'
        PROVE  r \in RolesIn(g) \/ r \in NewRoles
    BY <2>1, <2>2 DEF RolesKeepGroups, RolesIn
  <2>3. ASSUME NEW h \in Handlers, req'[h].step = "assign", req'[h].user = u,
               req'[h].role \in RolesIn(g)'
        PROVE  FALSE
    <3>1. CASE req'[h] = req[h]
      <4>1. req[h].role \in NewRoles
        BY <2>2, <2>3, <3>1 DEF Outsider
      <4>2. QED
        BY <2>3, <3>1, <4>1 DEF NewRoles
    <3>2. CASE /\ <<req'[h].user, roles[req'[h].role].group>> \in members
               /\ req'[h].role \in LiveRoles
               /\ roles' = roles
      BY <2>3, <3>2 DEF Outsider, RolesIn
    <3>3. QED
      BY <2>1, <2>3, <3>1, <3>2 DEF RequestsChecked
  <2>4. Outsider(u, g)'
    BY <2>3 DEF Outsider
  <2>5. ASSUME NEW r \in RolesHeld(u, g)'
        PROVE  r \in RolesHeld(u, g)
    <3>1. r \in RolesIn(g)' /\ <<u, r>> \in assigned'
      BY <2>5 DEF RolesHeld
    <3>2. r \in RolesIn(g) \/ r \in NewRoles
      BY <2>2, <3>1
    <3>3. r \in NewRoles => roles[r] = NoRole
      BY DEF NewRoles
    <3>4. CASE <<u, r>> \in assigned
      <4>1. r \in LiveRoles
        BY <3>4 DEF AccessInv, ReferencesHold
      <4>2. QED
        BY <3>2, <3>3, <3>4, <4>1 DEF RolesHeld, LiveRoles
    <3>5. ASSUME NEW h \in Handlers,
                 req[h].step = "assign", req[h].user = u, req[h].role = r
          PROVE  FALSE
      BY <3>2, <3>5 DEF Outsider, NewRoles
    <3>6. CASE r \in LiveRoles /\ <<u, roles[r].group>> \in members'
      BY <3>2, <3>3, <3>6 DEF RolesIn, LiveRoles
    <3>7. QED
      BY <2>1, <3>1, <3>4, <3>5, <3>6 DEF AssignmentsChecked
  <2>6. QED
    BY <2>4, <2>5
<1>2. AccessInv /\ [Next]_vars => [Gains]_vars
  BY <1>1
<1>3. QED
  BY <1>2, AccessInvariance, PTL DEF Spec, OutsidersGainNoRole

-----------------------------------------------------------------------------
(***************************************************************************)
(* One request at a time.  With a single request slot what a request read  *)
(* is still true when it commits, whatever crashes and restarts: then      *)
(* roles and delegated grants rest on memberships, and nothing is taken    *)
(* away that should stay.                                                  *)
(***************************************************************************)
OneAtATime == \A g, h \in Handlers : g = h

\* The grants that end with g: what each of its projects strips.
DroppedGrants(g) == UNION {Stripped(g, p) : p \in {q \in Projects : <<g, q>> \in pool}}

\* Of the rows G that end, the request has deleted those there were, or is
\* about to.
StrippedSoFar(h, G) == req[h].strip \subseteq G /\ req[h].gone = (G \ req[h].strip) \cap grants

\* What the request in slot h read is still true.
Current(h) ==
  /\ req[h].step = "assign" => <<req[h].user, roles[req[h].role].group>> \in members
  /\ req[h].step = "grant" => Covered(req[h].user, req[h].project)
  /\ req[h].step = "revoke" => StrippedSoFar(h, Stripped(req[h].group, req[h].project))
  /\ req[h].step = "drop" => StrippedSoFar(h, DroppedGrants(req[h].group))

RequestsCurrent == \A h \in Handlers : Current(h)

\* The history names an administrator only for grants that exist.
AdminGrantsStand == \A k \in Users \X Projects : origin[k] = "admin" => k \in grants

AloneInv ==
  /\ AccessInv
  /\ RequestsCurrent
  /\ AdminGrantsStand
  /\ HoldingsRestOnMembership

-----------------------------------------------------------------------------
\* A slot that is busy after a step has just begun its request, or stripped.
LEMMA JustBegun ==
  ASSUME OneAtATime, TypeOK, [Next]_vars, NEW h \in Handlers
  PROVE  \/ req'[h] = Idle
         \/ UNCHANGED vars
         \/ \E u \in Users : ApproveCheck(h, u) \/ DenyCheck(h, u)
         \/ \E g \in Groups : DeleteGroupCheck(h, g)
         \/ \E u \in Users, r \in Roles : AssignCheck(h, u, r)
         \/ \E g \in Groups, p \in Projects : RevokePoolCheck(h, g, p)
         \/ \E u \in Users, p \in Projects : DelegateCheck(h, u, p)
         \/ \E p \in Projects : StripGrants(h, p)
         \/ \E u \in Users, s \in Services : VerifyAccess(h, u, s)
         \/ SeedDefaults(h)
<1>1. ASSUME NEW g \in Handlers PROVE g = h
  BY DEF OneAtATime
<1>2. FreeSlot => req[h] = Idle
  BY <1>1 DEF FreeSlot
<1>3. End(h) => req'[h] = Idle
  BY DEF End, TypeOK
<1>4. ASSUME ApproveCommit(h) \/ DenyCommit(h) \/ DeleteGroupCommit(h) \/ AssignCommit(h)
             \/ RevokePoolCommit(h) \/ DelegateCommit(h) \/ VerifyLevel(h)
             \/ MigrateOperation(h) \/ Crash(h)
      PROVE  req'[h] = Idle
  BY <1>3, <1>4 DEF ApproveCommit, DenyCommit, DeleteGroupCommit, AssignCommit, RevokePoolCommit,
                    DelegateCommit, VerifyLevel, MigrateOperation, Crash
<1>5. ASSUME FreeSlot, UNCHANGED req
      PROVE  req'[h] = Idle
  BY <1>2, <1>5
<1>6. CASE ManageAccounts
  BY <1>1, <1>4, <1>5, <1>6 DEF ManageAccounts, Register, CreateUser, CreateUserInGroup
<1>7. CASE ManageGroups
  BY <1>1, <1>4, <1>5, <1>7 DEF ManageGroups, CreateGroup, SetGroupActive, RemoveMember, AddMember
<1>8. CASE ManageRoles
  BY <1>1, <1>4, <1>5, <1>8 DEF ManageRoles, CreateRole, EditRole, DeleteRole, SetAccess, UnassignRole
<1>9. CASE ManageProjects
  BY <1>1, <1>4, <1>5, <1>9 DEF ManageProjects, GrantPool, GrantProject, RevokeProject
<1>10. CASE Verify \/ Start
  BY <1>1, <1>4, <1>10 DEF Verify, Start
<1>11. QED
  BY <1>1, <1>4, <1>6, <1>7, <1>8, <1>9, <1>10 DEF Next

\* Nothing happens between what a request reads and its first step.
LEMMA CurrentStep ==
  ASSUME OneAtATime, AloneInv, [Next]_vars
  PROVE  RequestsCurrent'
<1> SUFFICES ASSUME NEW h \in Handlers PROVE Current(h)'
  BY DEF RequestsCurrent
<1>1. TypeOK
  BY DEF AloneInv, AccessInv
<1>2. CASE req'[h] = Idle
  BY <1>2 DEF Current, Idle
<1>3. CASE UNCHANGED vars
  <2>1. UNCHANGED <<req, roles, members, pool, grants>>
    BY <1>3 DEF vars, memberVars, projectVars
  <2>2. Current(h)
    BY DEF AloneInv, RequestsCurrent
  <2>3. ASSUME NEW g, NEW p
        PROVE  Stripped(g, p)' = Stripped(g, p) /\ DroppedGrants(g)' = DroppedGrants(g)
    BY <2>1 DEF Stripped, MembersOf, Covers, DroppedGrants
  <2>4. QED
    BY <2>1, <2>2, <2>3 DEF Current, StrippedSoFar, Covered, Covers
<1>4. ASSUME NEW u \in Users, ApproveCheck(h, u) \/ DenyCheck(h, u)
      PROVE  Current(h)'
  BY <1>1, <1>4 DEF ApproveCheck, DenyCheck, Begin, TypeOK, Current
<1>5. ASSUME NEW g \in Groups, DeleteGroupCheck(h, g)
      PROVE  Current(h)'
  <2>1. req'[h] = [step |-> "drop", group |-> g, strip |-> DroppedGrants(g), gone |-> {}]
    BY <1>1, <1>5 DEF DeleteGroupCheck, Begin, TypeOK, DroppedGrants
  <2>2. DroppedGrants(g)' = DroppedGrants(g)
    BY <1>5 DEF DeleteGroupCheck, memberVars, projectVars, DroppedGrants, Stripped, MembersOf, Covers
  <2>3. StrippedSoFar(h, DroppedGrants(g))'
    BY <2>1, <2>2 DEF StrippedSoFar
  <2>4. QED
    BY <2>1, <2>3 DEF Current
<1>6. ASSUME NEW u \in Users, NEW r \in Roles, AssignCheck(h, u, r)
      PROVE  Current(h)'
  BY <1>1, <1>6 DEF AssignCheck, Begin, TypeOK, Current, memberVars
<1>7. ASSUME NEW g \in Groups, NEW p \in Projects, RevokePoolCheck(h, g, p)
      PROVE  Current(h)'
  <2>1. req'[h] = [step |-> "revoke", group |-> g, project |-> p, strip |-> Stripped(g, p),
                   gone |-> {}]
    BY <1>1, <1>7 DEF RevokePoolCheck, Begin, TypeOK
  <2>2. Stripped(g, p)' = Stripped(g, p)
    BY <1>7 DEF RevokePoolCheck, memberVars, projectVars, Stripped, MembersOf, Covers
  <2>3. StrippedSoFar(h, Stripped(g, p))'
    BY <2>1, <2>2 DEF StrippedSoFar
  <2>4. QED
    BY <2>1, <2>3 DEF Current
<1>8. ASSUME NEW u \in Users, NEW p \in Projects, DelegateCheck(h, u, p)
      PROVE  Current(h)'
  <2>1. req'[h] = [step |-> "grant", user |-> u, project |-> p]
    BY <1>1, <1>8 DEF DelegateCheck, Begin, TypeOK
  <2>2. Covered(u, p)'
    BY <1>8 DEF DelegateCheck, memberVars, projectVars, Covered, Covers, LiveGroups
  <2>3. QED
    BY <2>1, <2>2 DEF Current
<1>9. ASSUME NEW u \in Users, NEW s \in Services, VerifyAccess(h, u, s)
      PROVE  Current(h)'
  BY <1>1, <1>9 DEF VerifyAccess, Begin, TypeOK, Current
<1>10. ASSUME NEW p \in Projects, StripGrants(h, p)
       PROVE  Current(h)'
  <2> DEFINE rows == {k \in req[h].strip : k[2] = p}
  <2>1. /\ req[h].step \in {"revoke", "drop"} /\ req'[h].step = req[h].step
        /\ req'[h].group = req[h].group
        /\ req[h].step = "revoke" => req'[h].project = req[h].project
        /\ req'[h].strip = req[h].strip \ rows
        /\ req'[h].gone = req[h].gone \cup (rows \cap grants)
    BY <1>1, <1>10, StripStep
  <2>2. UNCHANGED <<members, pool, grants>>
    BY <1>10 DEF StripGrants, memberVars, projectVars
  <2>3. ASSUME NEW g, NEW x
        PROVE  Stripped(g, x)' = Stripped(g, x) /\ DroppedGrants(g)' = DroppedGrants(g)
    BY <2>2 DEF Stripped, MembersOf, Covers, DroppedGrants
  <2>4. ASSUME NEW G, NEW H, StrippedSoFar(h, G), H = G
        PROVE  req'[h].strip \subseteq H /\ req'[h].gone = (H \ req'[h].strip) \cap grants'
    BY <2>1, <2>2, <2>4 DEF StrippedSoFar
  <2>5. CASE req[h].step = "revoke"
    <3>1. StrippedSoFar(h, Stripped(req[h].group, req[h].project))
      BY <2>5 DEF AloneInv, RequestsCurrent, Current
    <3>2. StrippedSoFar(h, Stripped(req[h].group, req[h].project))'
      BY <2>1, <2>3, <2>4, <2>5, <3>1 DEF StrippedSoFar
    <3>3. QED
      BY <2>1, <2>5, <3>2 DEF Current
  <2>6. CASE req[h].step = "drop"
    <3>1. StrippedSoFar(h, DroppedGrants(req[h].group))
      BY <2>6 DEF AloneInv, RequestsCurrent, Current
    <3>2. StrippedSoFar(h, DroppedGrants(req[h].group))'
      BY <2>1, <2>3, <2>4, <2>6, <3>1 DEF StrippedSoFar
    <3>3. QED
      BY <2>1, <2>6, <3>2 DEF Current
  <2>7. QED
    BY <2>1, <2>5, <2>6
<1>11. CASE SeedDefaults(h)
  <2>1. req'[h] = [step |-> "migrate"]
    BY <1>1, <1>11 DEF SeedDefaults, SeedGroup, Begin, TypeOK
  <2>2. QED
    BY <2>1 DEF Current
<1>12. QED
  BY <1>1, <1>2, <1>3, <1>4, <1>5, <1>6, <1>7, <1>8, <1>9, <1>10, <1>11, JustBegun

-----------------------------------------------------------------------------
\* Only four operations take a membership or a project of a pool away.
LEMMA LeavingSteps ==
  [Next]_vars =>
    \/ members \subseteq members' /\ pool \subseteq pool'
    \/ \E h \in Handlers : DenyCommit(h) \/ DeleteGroupCommit(h) \/ RevokePoolCommit(h)
    \/ \E u \in Users, g \in Groups : RemoveMember(u, g)
<1> DEFINE Stay == members \subseteq members' /\ pool \subseteq pool'
<1>1. ManageAccounts => Stay \/ \E h \in Handlers : DenyCommit(h)
  BY DEF ManageAccounts, Register, CreateUser, CreateUserInGroup, ApproveCheck, DenyCheck,
         ApproveCommit, memberVars, projectVars
<1>2. ManageGroups => \/ Stay
                      \/ \E h \in Handlers : DeleteGroupCommit(h)
                      \/ \E u \in Users, g \in Groups : RemoveMember(u, g)
  BY DEF ManageGroups, CreateGroup, SetGroupActive, AddMember, DeleteGroupCheck,
         memberVars, projectVars
<1>3. ManageRoles => Stay
  BY DEF ManageRoles, CreateRole, EditRole, DeleteRole, SetAccess, UnassignRole, AssignCheck,
         AssignCommit, memberVars, projectVars
<1>4. ManageProjects => Stay \/ \E h \in Handlers : RevokePoolCommit(h)
  BY DEF ManageProjects, GrantPool, GrantProject, RevokeProject, RevokePoolCheck, DelegateCheck,
         StripGrants, DelegateCommit, memberVars, projectVars
<1>5. Verify => Stay
  BY DEF Verify, VerifyAccess, VerifyLevel, memberVars, projectVars
<1>6. Start => Stay
  BY DEF Start, SeedDefaults, SeedGroup, MigrateOperation, memberVars, projectVars
<1>7. (\E h \in Handlers : Crash(h)) \/ UNCHANGED vars => Stay
  BY DEF Crash, vars, memberVars, projectVars
<1>8. QED
  BY <1>1, <1>2, <1>3, <1>4, <1>5, <1>6, <1>7 DEF Next

\* Whoever leaves a group keeps none of its roles.
LEMMA RolesLeaveWithMembers ==
  ASSUME TypeOK, [Next]_vars, NEW u \in Users, NEW g \in Groups,
         <<u, g>> \in members, <<u, g>> \notin members', NEW r \in RolesIn(g)
  PROVE  <<u, r>> \notin assigned'
<1>1. r \in Roles
  BY DEF RolesIn, LiveRoles
<1>2. ASSUME NEW h \in Handlers, DenyCommit(h)
      PROVE  <<u, r>> \notin assigned'
  BY <1>1, <1>2, RequestFacts DEF DenyCommit
<1>3. ASSUME NEW h \in Handlers, DeleteGroupCommit(h)
      PROVE  <<u, r>> \notin assigned'
  <2>1. g = req[h].group
    BY <1>3 DEF DeleteGroupCommit
  <2>2. QED
    BY <1>3, <2>1 DEF DeleteGroupCommit
<1>4. ASSUME NEW v \in Users, NEW z \in Groups, RemoveMember(v, z)
      PROVE  <<u, r>> \notin assigned'
  <2>1. u = v /\ g = z
    BY <1>4 DEF RemoveMember
  <2>2. QED
    BY <1>4, <2>1 DEF RemoveMember
<1>5. ASSUME NEW h \in Handlers, RevokePoolCommit(h)
      PROVE  FALSE
  BY <1>5 DEF RevokePoolCommit, memberVars
<1>6. QED
  BY <1>2, <1>3, <1>4, <1>5, LeavingSteps

\* Roles stay with members: what is assigned was checked, and leaves with the
\* membership.
LEMMA AssignedStep ==
  ASSUME AccessInv, AccessInv', RequestsCurrent, AssignedAreMembers, [Next]_vars
  PROVE  AssignedAreMembers'
<1> SUFFICES ASSUME NEW k \in assigned'
             PROVE  <<k[1], roles'[k[2]].group>> \in members'
  BY DEF AssignedAreMembers
<1> DEFINE u == k[1]
           r == k[2]
           g == roles[r].group
<1>1. TypeOK /\ RolesKeepGroups /\ AssignmentsChecked
  BY AccessStepShape DEF AccessInv
<1>2. k = <<u, r>> /\ u \in Users /\ r \in Roles /\ r \in LiveRoles'
  BY DEF AccessInv, TypeOK, ReferencesHold
<1>3. ASSUME r \in LiveRoles, <<u, g>> \in members
      PROVE  <<u, roles'[r].group>> \in members'
  <2>1. roles'[r].group = g
    BY <1>1, <1>2, <1>3 DEF RolesKeepGroups, NewRoles, LiveRoles
  <2>2. g \in Groups /\ r \in RolesIn(g)
    BY <1>1, <1>3, LiveRolesTyped DEF RolesIn, RoleRow
  <2>3. QED
    BY <1>1, <1>2, <1>3, <2>1, <2>2, RolesLeaveWithMembers
<1>4. CASE k \in assigned
  <2>1. r \in LiveRoles /\ <<u, g>> \in members
    BY <1>4 DEF AccessInv, ReferencesHold, AssignedAreMembers
  <2>2. QED
    BY <1>3, <2>1
<1>5. ASSUME NEW h \in Handlers, req[h].step = "assign", req[h].user = u, req[h].role = r
      PROVE  <<u, roles'[r].group>> \in members'
  <2>1. <<u, g>> \in members
    BY <1>5 DEF RequestsCurrent, Current
  <2>2. r \in LiveRoles
    BY <1>1, <1>2, <1>5 DEF RolesKeepGroups, NewRoles
  <2>3. QED
    BY <1>3, <2>1, <2>2
<1>6. CASE r \in LiveRoles /\ <<u, g>> \in members'
  <2>1. roles'[r].group = g
    BY <1>1, <1>2, <1>6 DEF RolesKeepGroups, NewRoles, LiveRoles
  <2>2. QED
    BY <1>6, <2>1
<1>7. QED
  BY <1>1, <1>4, <1>5, <1>6 DEF AssignmentsChecked

-----------------------------------------------------------------------------
\* A grant counts as an administrator's from the commit of a request that had
\* passed the check, and no longer than it exists.
AdminGrantsChecked ==
  \A k \in Users \X Projects : origin'[k] = "admin" =>
    \/ origin[k] = "admin" /\ (k \in grants => k \in grants')
    \/ /\ k \in grants'
       /\ \E h \in Handlers : req[h].step = "grant" /\ k = <<req[h].user, req[h].project>>

LEMMA GrantsKept ==
  ASSUME UNCHANGED <<grants, origin>>
  PROVE  AdminGrantsChecked
  BY DEF AdminGrantsChecked

LEMMA GrantsDropped ==
  ASSUME NEW G, DropGrants(G)
  PROVE  AdminGrantsChecked
  BY DEF DropGrants, AdminGrantsChecked

LEMMA AdminGrantSteps ==
  ASSUME TypeOK, [Next]_vars
  PROVE  AdminGrantsChecked
<1>1. CASE ManageAccounts
  <2>1. ASSUME NEW h \in Handlers, DenyCommit(h)
        PROVE  AdminGrantsChecked
    BY <2>1, GrantsDropped DEF DenyCommit
  <2>2. QED
    BY <1>1, <2>1, GrantsKept
    DEF ManageAccounts, Register, CreateUser, CreateUserInGroup, ApproveCheck, DenyCheck,
        ApproveCommit, projectVars
<1>2. CASE ManageGroups
  <2>1. ASSUME NEW h \in Handlers, DeleteGroupCommit(h)
        PROVE  AdminGrantsChecked
    BY <2>1, GrantsDropped DEF DeleteGroupCommit
  <2>2. ASSUME NEW u \in Users, NEW g \in Groups, RemoveMember(u, g)
        PROVE  AdminGrantsChecked
    BY <2>2 DEF RemoveMember, LeaveGrants, AdminGrantsChecked
  <2>3. QED
    BY <1>2, <2>1, <2>2, GrantsKept
    DEF ManageGroups, CreateGroup, SetGroupActive, AddMember, DeleteGroupCheck, projectVars
<1>3. CASE ManageRoles
  BY <1>3, GrantsKept
  DEF ManageRoles, CreateRole, EditRole, DeleteRole, SetAccess, UnassignRole, AssignCheck,
      AssignCommit, projectVars
<1>4. CASE ManageProjects
  <2>1. ASSUME NEW h \in Handlers, RevokePoolCommit(h)
        PROVE  AdminGrantsChecked
    BY <2>1, GrantsDropped DEF RevokePoolCommit
  <2>2. ASSUME NEW u \in Users, NEW p \in Projects, RevokeProject(u, p)
        PROVE  AdminGrantsChecked
    BY <2>2, GrantsDropped DEF RevokeProject
  <2>3. ASSUME NEW u \in Users, NEW p \in Projects, GrantProject(u, p)
        PROVE  AdminGrantsChecked
    BY <2>3 DEF GrantProject, AdminGrantsChecked, TypeOK
  <2>4. ASSUME NEW h \in Handlers, DelegateCommit(h)
        PROVE  AdminGrantsChecked
    <3>1. CASE UNCHANGED <<grants, origin>>
      BY <3>1, GrantsKept
    <3>2. CASE /\ grants' = grants \cup {<<req[h].user, req[h].project>>}
               /\ origin' = [origin EXCEPT ![<<req[h].user, req[h].project>>] = "admin"]
      BY <2>4, <3>2 DEF DelegateCommit, AdminGrantsChecked, TypeOK
    <3>3. QED
      BY <2>4, <3>1, <3>2 DEF DelegateCommit
  <2>5. QED
    BY <1>4, <2>1, <2>2, <2>3, <2>4, GrantsKept
    DEF ManageProjects, GrantPool, RevokePoolCheck, DelegateCheck, StripGrants, projectVars
<1>5. CASE Verify
  BY <1>5, GrantsKept DEF Verify, VerifyAccess, VerifyLevel, projectVars
<1>6. ASSUME NEW h \in Handlers, SeedDefaults(h) \/ MigrateOperation(h)
      PROVE  AdminGrantsChecked
  <2>1. ASSUME MigrateOperation(h) PROVE AdminGrantsChecked
    BY <2>1, GrantsDropped DEF MigrateOperation
  <2>2. QED
    BY <1>6, <2>1, GrantsKept DEF SeedDefaults, SeedGroup, projectVars
<1>7. CASE (\E h \in Handlers : Crash(h)) \/ UNCHANGED vars
  BY <1>7, GrantsKept DEF Crash, vars, projectVars
<1>8. QED
  BY <1>1, <1>2, <1>3, <1>4, <1>5, <1>6, <1>7 DEF Next, Start

\* A grant that loses its last cover is no administrator's any more: it ends
\* with the cover, or its user has left the group.
LEMMA CoverLost ==
  ASSUME AccessInv, RequestsCurrent, AdminGrantsStand, [Next]_vars,
         NEW u \in Users, NEW p \in Projects, Covered(u, p), ~Covered(u, p)'
  PROVE  origin'[<<u, p>>] # "admin"
<1>1. TypeOK /\ <<u, p>> \in Users \X Projects
  BY DEF AccessInv
<1>2. ASSUME NEW g \in Groups, Covers(g, u, p)
      PROVE  <<u, g>> \in members /\ <<g, p>> \in pool
             /\ (<<u, g>> \notin members' \/ <<g, p>> \notin pool')
  BY <1>2 DEF Covered, Covers
<1>3. PICK g \in Groups : Covers(g, u, p)
  BY DEF Covered
<1>4. ASSUME NEW h \in Handlers, DenyCommit(h)
      PROVE  origin'[<<u, p>>] # "admin"
  <2>1. u = req[h].user
    BY <1>2, <1>3, <1>4 DEF DenyCommit
  <2>2. QED
    BY <1>1, <1>4, <2>1 DEF DenyCommit, DropGrants
<1>5. ASSUME NEW h \in Handlers, DeleteGroupCommit(h)
      PROVE  origin'[<<u, p>>] # "admin"
  <2>1. \A x \in Groups : Covers(x, u, p) => x = req[h].group
    BY <1>2, <1>5 DEF DeleteGroupCommit
  <2>2. g = req[h].group
    BY <1>3, <2>1
  <2>3. <<u, p>> \in Stripped(g, p)
    BY <1>2, <1>3, <2>1, <2>2 DEF Stripped, MembersOf
  <2>4. <<u, p>> \in DroppedGrants(g)
    BY <1>2, <1>3, <2>3 DEF DroppedGrants
  <2>5. req[h].gone = DroppedGrants(g) \cap grants
    BY <1>5, <2>2 DEF DeleteGroupCommit, RequestsCurrent, Current, StrippedSoFar
  <2>6. QED
    BY <1>1, <1>5, <2>4, <2>5 DEF DeleteGroupCommit, DropGrants, AdminGrantsStand
<1>6. ASSUME NEW h \in Handlers, RevokePoolCommit(h)
      PROVE  origin'[<<u, p>>] # "admin"
  <2>1. \A x \in Groups : Covers(x, u, p) => x = req[h].group /\ p = req[h].project
    BY <1>2, <1>6 DEF RevokePoolCommit, memberVars
  <2>2. g = req[h].group /\ p = req[h].project
    BY <1>3, <2>1
  <2>3. <<u, p>> \in Stripped(g, p)
    BY <1>2, <1>3, <2>1, <2>2 DEF Stripped, MembersOf
  <2>4. req[h].gone = Stripped(g, p) \cap grants
    BY <1>6, <2>2 DEF RevokePoolCommit, RequestsCurrent, Current, StrippedSoFar
  <2>5. QED
    BY <1>1, <1>6, <2>3, <2>4 DEF RevokePoolCommit, DropGrants, AdminGrantsStand
<1>7. ASSUME NEW v \in Users, NEW z \in Groups, RemoveMember(v, z)
      PROVE  origin'[<<u, p>>] # "admin"
  <2>1. u = v
    BY <1>2, <1>3, <1>7 DEF RemoveMember
  <2>2. QED
    BY <1>1, <1>7, <2>1 DEF RemoveMember, LeaveGrants, AdminGrantsStand
<1>8. QED
  BY <1>2, <1>3, <1>4, <1>5, <1>6, <1>7, LeavingSteps

LEMMA AloneStep ==
  ASSUME OneAtATime, AloneInv, [Next]_vars
  PROVE  AloneInv'
<1> USE DEF AloneInv
<1>1. AccessInv'
  BY AccessInvStep
<1>2. AdminGrantsChecked
  BY AdminGrantSteps DEF AccessInv
<1>3. AssignedAreMembers'
  BY <1>1, AssignedStep DEF HoldingsRestOnMembership
<1>4. AdminGrantsStand'
  BY <1>2 DEF AdminGrantsChecked, AdminGrantsStand
<1>5. ASSUME NEW u \in Users, NEW p \in Projects, origin'[<<u, p>>] = "admin"
      PROVE  Covered(u, p)'
  <2>1. CASE origin[<<u, p>>] = "admin"
    BY <1>5, <2>1, CoverLost DEF HoldingsRestOnMembership, DelegatedGrantsCovered
  <2>2. ASSUME NEW h \in Handlers, req[h].step = "grant", <<u, p>> = <<req[h].user, req[h].project>>
        PROVE  Covered(u, p)'
    <3>1. Covered(u, p)
      BY <2>2 DEF RequestsCurrent, Current
    <3>2. QED
      BY <1>5, <3>1, CoverLost
  <2>3. QED
    BY <1>2, <1>5, <2>1, <2>2 DEF AdminGrantsChecked
<1>6. HoldingsRestOnMembership'
  BY <1>3, <1>5 DEF HoldingsRestOnMembership, DelegatedGrantsCovered
<1>7. QED
  BY <1>1, <1>4, <1>6, CurrentStep

LEMMA AloneInit == Init => AloneInv
<1> SUFFICES ASSUME Init PROVE AloneInv
  OBVIOUS
<1>1. RequestsCurrent
  BY DEF Init, Idle, RequestsCurrent, Current
<1>2. AdminGrantsStand /\ HoldingsRestOnMembership
  BY DEF Init, AdminGrantsStand, HoldingsRestOnMembership, AssignedAreMembers, DelegatedGrantsCovered
<1>3. QED
  BY <1>1, <1>2, AccessInvInit DEF AloneInv

\* With one request at a time, nobody holds a role of a group without being
\* its member, and what a group administrator granted stays within the pools
\* of the user's groups (assign_role, remove_member, grant_user_project_access,
\* revoke_group_project_access, delete_group).
THEOREM HoldingsAlone == OneAtATime /\ Spec => []HoldingsRestOnMembership
<1> SUFFICES ASSUME OneAtATime PROVE Spec => []HoldingsRestOnMembership
  OBVIOUS
<1>1. AloneInv /\ [Next]_vars => AloneInv'
  BY AloneStep
<1>2. AloneInv => HoldingsRestOnMembership
  BY DEF AloneInv
<1>3. QED
  BY AloneInit, <1>1, <1>2, PTL DEF Spec

-----------------------------------------------------------------------------
\* With one request at a time, the end of a pool or of a group takes no grant
\* away that another group of the user's still covers (delete_group,
\* revoke_group_project_access).
THEOREM CoveredStayAlone == OneAtATime /\ Spec => CoveredGrantsStay
<1> SUFFICES ASSUME OneAtATime PROVE Spec => CoveredGrantsStay
  OBVIOUS
<1> DEFINE Stay == (\E h \in Handlers : RevokePoolCommit(h) \/ DeleteGroupCommit(h))
                     => \A k \in grants \ grants' : ~Covered(k[1], k[2])'
<1>1. AloneInv /\ [Next]_vars => AloneInv' /\ Stay
  <2> SUFFICES ASSUME AloneInv, [Next]_vars, NEW h \in Handlers,
                      RevokePoolCommit(h) \/ DeleteGroupCommit(h), NEW k \in grants \ grants'
               PROVE  ~Covered(k[1], k[2])'
    BY AloneStep
  <2>1. Current(h)
    BY DEF AloneInv, RequestsCurrent
  <2>2. ASSUME NEW g \in Groups, NEW p, k \in Stripped(g, p),
               <<k[1], g>> \notin members' \/ <<g, p>> \notin pool',
               members' \subseteq members, pool' \subseteq pool
        PROVE  ~Covered(k[1], k[2])'
    <3>1. PICK u \in MembersOf(g) : /\ k = <<u, p>>
                                   /\ \A x \in Groups \ {g} : ~Covers(x, u, p)
      BY <2>2 DEF Stripped
    <3>2. \A x \in Groups : <<u, x>> \notin members' \/ <<x, p>> \notin pool'
      BY <2>2, <3>1 DEF Covers
    <3>3. k[1] = u /\ k[2] = p
      BY <3>1
    <3>4. QED
      BY <3>2, <3>3 DEF Covered, Covers
  <2>3. CASE RevokePoolCommit(h)
    <3>1. k \in Stripped(req[h].group, req[h].project) /\ req[h].group \in Groups
      BY <2>1, <2>3, RequestFacts DEF RevokePoolCommit, DropGrants, Current, StrippedSoFar, AloneInv, AccessInv
    <3>2. QED
      BY <2>2, <2>3, <3>1 DEF RevokePoolCommit, memberVars
  <2>4. CASE DeleteGroupCommit(h)
    <3>1. k \in DroppedGrants(req[h].group) /\ req[h].group \in Groups
      BY <2>1, <2>4, RequestFacts DEF DeleteGroupCommit, DropGrants, Current, StrippedSoFar, AloneInv, AccessInv
    <3>2. PICK p \in Projects : k \in Stripped(req[h].group, p)
      BY <3>1 DEF DroppedGrants
    <3>3. <<req[h].group, p>> \notin pool' /\ members' \subseteq members /\ pool' \subseteq pool
      BY <2>4 DEF DeleteGroupCommit
    <3>4. QED
      BY <2>2, <3>1, <3>2, <3>3
  <2>5. QED
    BY <2>3, <2>4
<1>2. QED
  BY AloneInit, <1>1, PTL DEF Spec, CoveredGrantsStay
=============================================================================
