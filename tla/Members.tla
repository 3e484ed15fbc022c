------------------------------- MODULE Members -------------------------------
(***************************************************************************)
(* Organisation and project membership of the Go issue tracker             *)
(* (src/tracker/impl/go-1/orgs.go, projects.go), for one organisation, one *)
(* project and one issue of it.                                            *)
(*                                                                         *)
(* A handler first reads the caller's role, in a statement of its own, and *)
(* acts on what it read.  The handlers that change or remove a member lock *)
(* the row of the organisation; an INSERT that refers to the organisation  *)
(* waits for that lock, every other statement does not.                    *)
(*                                                                         *)
(* Transactions are READ COMMITTED: a statement sees what was committed    *)
(* when it began, its writes are seen from the Commit on, and a row that   *)
(* it has written makes every other writer of that row wait until then.    *)
(*                                                                         *)
(* Roles are numbers, as in the code: member 1, admin 2, owner 3 in the    *)
(* organisation; viewer 1, developer 2, admin 3 in the project; 0 is none. *)
(***************************************************************************)
EXTENDS Naturals, FiniteSets

CONSTANTS
  Handlers,   \* requests served at the same time
  People,     \* registered users
  OrgRoles,   \* roles that requests ask for, a subset of 1..3
  ProjRoles,  \* the same for the project
  MaxRequests \* requests; bounds the model

NoOne == "none"
Uncreated == "not created"

ASSUME MembersAssumption ==
  /\ OrgRoles \subseteq 1..3 /\ ProjRoles \subseteq 1..3
  /\ {NoOne, Uncreated} \cap (Handlers \cup People) = {} /\ MaxRequests \in Nat

VARIABLES
  orgRole,   \* org_members.role
  pmRole,    \* project_members.role
  project,   \* the project's row: whether it is there, visibility, name
  assignee,  \* the assignee_id of the project's first issue, if there is one
  lock,      \* the handler whose transaction holds the row of the organisation
  found,     \* the rows that the removal under way has written: the project member, the issue;
             \* history: late, if a request about the person was stored since
  ask,       \* what each handler is doing
  asked,     \* requests so far
  raced,     \* history: removed while a request that had checked them was not yet stored
  clashes    \* history: patches of the project on their way when another was stored

memberTables == <<orgRole, pmRole, project, assignee>>
memberVars == <<memberTables, lock, found, ask, asked, raced, clashes>>

NoProject == [id |-> 0, there |-> FALSE, vis |-> 0, name |-> 0]
NoAsk == [at |-> "idle", by |-> NoOne, who |-> NoOne, role |-> 0, my |-> 0, p |-> NoProject]

Owners == {u \in People : orgRole[u] = 3}

\* effRole
EffRole(org, vis, pm) ==
  IF org >= 2 THEN 3
  ELSE IF org = 1 /\ vis = 0 /\ pm < 2 THEN 2 ELSE pm

\* projectAccess: 404 without a membership of the organisation.
Access(u) ==
  IF orgRole[u] = 0 \/ ~ project.there THEN 0
  ELSE EffRole(orgRole[u], project.vis, pmRole[u])

\* The people whom a request has checked and will make a member or an assignee.
Coming ==
  {ask[h].who : h \in {g \in Handlers : ask[g].at \in {"put", "newproject", "assign", "reassign"}}}

\* The first statement of a handler has read the caller's role.
Begin(h, at, by, who, role) ==
  /\ ask[h].at = "idle" /\ asked < MaxRequests
  /\ asked' = asked + 1
  /\ ask' = [ask EXCEPT ![h] = [at |-> at, by |-> by, who |-> who, role |-> role,
                                my |-> orgRole[by], p |-> project]]
  /\ UNCHANGED <<memberTables, lock, found, raced, clashes>>

Finish(h) == ask' = [ask EXCEPT ![h] = NoAsk]

\* An INSERT with a reference to the organisation takes a key share lock on it.
OrgFree == lock = NoOne

MembersInit ==
  /\ orgRole = [u \in People |-> 0]
  /\ pmRole = [u \in People |-> 0]
  /\ project = NoProject
  /\ assignee = Uncreated
  /\ lock = NoOne /\ found = {}
  /\ ask = [h \in Handlers |-> NoAsk]
  /\ asked = 0
  /\ raced = {} /\ clashes = {}

-----------------------------------------------------------------------------
\* The project a request has read is still there: a new one has another id.
Same(h) == project.there /\ project.id = ask[h].p.id

\* Whom a project request that is refused or finished leaves alone.
Rest == UNCHANGED <<lock, found, asked, raced, clashes>>

\* POST /orgs: the organisation and its owner in one transaction; the unique
\* index on the slug refuses a second one.
CreateOrg(u) ==
  /\ \A v \in People : orgRole[v] = 0
  /\ orgRole' = [orgRole EXCEPT ![u] = 3]
  /\ UNCHANGED <<pmRole, project, assignee, lock, found, ask, asked, raced, clashes>>

\* POST /orgs/{slug}/members
AddAccess(h, u, w, r) ==
  /\ orgRole[u] >= 2 /\ (r >= 2 => orgRole[u] = 3)
  /\ Begin(h, "add", u, w, r)

AddOrgMember(h) ==
  /\ ask[h].at = "add" /\ OrgFree
  /\ orgRole' = IF orgRole[ask[h].who] = 0      \* else already_member
                THEN [orgRole EXCEPT ![ask[h].who] = ask[h].role] ELSE orgRole
  /\ Finish(h)
  /\ UNCHANGED <<pmRole, project, assignee>> /\ Rest

\* PATCH /orgs/{slug}/members/{id}
PatchAccess(h, u, w, r) == orgRole[u] >= 2 /\ Begin(h, "patch", u, w, r)

\* What hPatchOrgMember answers once it has read the current role: 404, 403,
\* last_owner or nothing against it.
PatchAllowed(my, cur, r, owners) ==
  /\ cur # 0
  /\ ~ ((r >= 2 \/ cur >= 2) /\ my < 3 /\ r # cur)
  /\ ~ (cur = 3 /\ r # 3 /\ owners <= 1)

\* DELETE /orgs/{slug}/members/{id}: by an admin, or by the member.
DeleteAccess(h, u, w) ==
  /\ orgRole[u] # 0 /\ (u = w \/ orgRole[u] >= 2)
  /\ Begin(h, "delete", u, w, 0)

DeleteAllowed(my, cur, self, owners) ==
  /\ cur # 0
  /\ ~ (~ self /\ cur >= 2 /\ my < 3)
  /\ ~ (cur = 3 /\ owners <= 1)

\* Fault: the row of the organisation is only read.
TakeNoLock(h) == lock' = lock

\* SELECT ... FOR UPDATE.
TakeLock(h) == lock = NoOne /\ lock' = h

\* The transaction has the lock, reads the member and decides.
Decide(h, allowed, next) ==
  IF allowed
  THEN TakeLock(h) /\ ask' = [ask EXCEPT ![h].at = next]
  ELSE OrgFree /\ Finish(h) /\ UNCHANGED lock

PatchDecide(h) ==
  /\ ask[h].at = "patch"
  /\ Decide(h, PatchAllowed(ask[h].my, orgRole[ask[h].who], ask[h].role, Cardinality(Owners)),
            "patching")
  /\ UNCHANGED <<memberTables, found, asked, raced, clashes>>

DeleteDecide(h) ==
  /\ ask[h].at = "delete"
  /\ Decide(h, DeleteAllowed(ask[h].my, orgRole[ask[h].who], ask[h].by = ask[h].who,
                             Cardinality(Owners)), "deleting")
  /\ UNCHANGED <<memberTables, found, asked, raced, clashes>>

Unlock(h) == lock' = NoOne /\ found' = {} /\ Finish(h)

PatchWrite(h) ==
  /\ ask[h].at = "patching"
  /\ orgRole' = [orgRole EXCEPT ![ask[h].who] = ask[h].role]
  /\ Unlock(h)
  /\ UNCHANGED <<pmRole, project, assignee, asked, raced, clashes>>

\* The transaction goes on to its next statement.
Advance(h, next) == ask' = [ask EXCEPT ![h].at = next] /\ UNCHANGED lock

\* DELETE FROM org_members, whose row only the holder of the lock writes, and DELETE FROM
\* project_members: the membership that is committed by now.
DeleteRows(h) ==
  /\ ask[h].at = "deleting" /\ Advance(h, "unassign")
  /\ found' = IF pmRole[ask[h].who] # 0 THEN {"member"} ELSE {}
  /\ UNCHANGED <<memberTables, asked, raced, clashes>>

\* No transaction has written or locked the row of the issue.
RowFree == "issue" \notin found /\ \A g \in Handlers : ask[g].at # "reassign"

\* unassignAll: the UPDATE finds the issue if it is assigned to the person by now.
Unassign(h) ==
  /\ ask[h].at = "unassign" /\ Advance(h, "removed")
  /\ IF assignee = ask[h].who THEN RowFree /\ found' = found \cup {"issue"} ELSE found' = found
  /\ UNCHANGED <<memberTables, asked, raced, clashes>>

\* Fault: the project memberships are forgotten.
RemoveOrgOnly(w) ==
  /\ orgRole' = [orgRole EXCEPT ![w] = 0]
  /\ assignee' = IF "issue" \in found THEN NoOne ELSE assignee
  /\ UNCHANGED pmRole

\* What the statements have found is gone from now on, and nothing else.
RemoveMember(w) ==
  /\ orgRole' = [orgRole EXCEPT ![w] = 0]
  /\ pmRole' = IF "member" \in found THEN [pmRole EXCEPT ![w] = 0] ELSE pmRole
  /\ assignee' = IF "issue" \in found THEN NoOne ELSE assignee

\* Commit.
DeleteWrite(h) ==
  /\ ask[h].at = "removed"
  /\ RemoveMember(ask[h].who)
  /\ raced' = IF "late" \in found \/ ask[h].who \in Coming
               THEN raced \cup {ask[h].who} ELSE raced
  /\ Unlock(h)
  /\ UNCHANGED <<project, asked, clashes>>

\* A request about somebody is stored: history, whether a removal of the same person is past
\* the statement that would have found it.
NoteLate(h, past) ==
  found' = IF \E g \in Handlers : ask[g].at \in past /\ ask[g].who = ask[h].who
           THEN found \cup {"late"} ELSE found

\* The project membership of w is a row that the removal under way has deleted.
Deleted(w) ==
  "member" \in found /\ \E g \in Handlers : ask[g].at \in {"unassign", "removed"} /\ ask[g].who = w

-----------------------------------------------------------------------------
\* POST /orgs/{slug}/projects: any member; the creator becomes its admin.
CreateAccess(h, u) == orgRole[u] # 0 /\ Begin(h, "newproject", u, u, 3)

CreateProject(h) ==
  /\ ask[h].at = "newproject" /\ OrgFree
  /\ IF project.there THEN UNCHANGED <<project, pmRole>>     \* key_taken
     ELSE \E vis \in {0, 1} :
            /\ project' = [id |-> project.id + 1, there |-> TRUE, vis |-> vis, name |-> 0]
            /\ pmRole' = [pmRole EXCEPT ![ask[h].who] = 3]
  /\ Finish(h)
  /\ UNCHANGED <<orgRole, assignee>> /\ Rest

\* Fault: a field that the body leaves out gets its default.
PatchProjectAccessBlank(h, u, field, val) ==
  /\ Access(u) = 3 /\ ask[h].at = "idle" /\ asked < MaxRequests
  /\ asked' = asked + 1
  /\ ask' = [ask EXCEPT ![h] = [at |-> "pproject", by |-> u, who |-> NoOne, role |-> 0,
                                my |-> orgRole[u],
                                p |-> [project EXCEPT !.vis = 0, !.name = 0, ![field] = val]]]
  /\ UNCHANGED <<memberTables, lock, found, raced, clashes>>

\* PATCH of a project reads every field and writes every field.
PatchProjectAccess(h, u, field, val) ==
  /\ Access(u) = 3 /\ ask[h].at = "idle" /\ asked < MaxRequests
  /\ asked' = asked + 1
  /\ ask' = [ask EXCEPT ![h] = [at |-> "pproject", by |-> u, who |-> NoOne, role |-> 0,
                                my |-> orgRole[u], p |-> [project EXCEPT ![field] = val]]]
  /\ UNCHANGED <<memberTables, lock, found, raced, clashes>>

PatchProject(h) ==
  /\ ask[h].at = "pproject"
  /\ project' = IF Same(h) THEN ask[h].p ELSE project
  /\ clashes' = (clashes \ {h}) \cup {g \in Handlers \ {h} : ask[g].at = "pproject"}
  /\ Finish(h)
  /\ UNCHANGED <<orgRole, pmRole, assignee, lock, found, asked, raced>>

\* DELETE of a project takes its members and its issues with it, once no other transaction
\* has written one of them.
DeleteProjectAccess(h, u) == Access(u) = 3 /\ Begin(h, "dproject", u, NoOne, 0)

DeleteProject(h) ==
  /\ ask[h].at = "dproject"
  /\ IF Same(h)
     THEN /\ "member" \notin found /\ RowFree
          /\ project' = [project EXCEPT !.there = FALSE]
          /\ pmRole' = [u \in People |-> 0]
          /\ assignee' = Uncreated
     ELSE UNCHANGED <<project, pmRole, assignee>>
  /\ Finish(h)
  /\ UNCHANGED orgRole /\ Rest

\* PUT of a project member: the target must be in the organisation when looked
\* up; the INSERT comes later and refers to the project only.
PutAccess(h, u, w, r) ==
  /\ Access(u) = 3 /\ orgRole[w] # 0
  /\ Begin(h, "put", u, w, r)

PutProjectMember(h) ==
  /\ ask[h].at = "put"
  /\ IF Same(h)
     THEN /\ ~ Deleted(ask[h].who)
          /\ pmRole' = [pmRole EXCEPT ![ask[h].who] = ask[h].role]
          /\ NoteLate(h, {"unassign", "removed"})
     ELSE UNCHANGED <<pmRole, found>>
  /\ Finish(h)
  /\ UNCHANGED <<orgRole, project, assignee, lock, asked, raced, clashes>>

DropAccess(h, u, w) == Access(u) = 3 /\ Begin(h, "drop", u, w, 0)

DeleteProjectMember(h) ==
  /\ ask[h].at = "drop"
  /\ IF Same(h)
     THEN ~ Deleted(ask[h].who) /\ pmRole' = [pmRole EXCEPT ![ask[h].who] = 0]
     ELSE UNCHANGED pmRole
  /\ Finish(h)
  /\ UNCHANGED <<orgRole, project, assignee>> /\ Rest

\* An issue is created with an assignee, or a PATCH gives it another one.
AssignAccess(h, u, w) == Access(u) >= 2 /\ Begin(h, "eligible", u, w, 0)

\* eligibleAssignees, with the visibility of the project that was read; null may always be stored.
Eligible(h) ==
  LET w == ask[h].who IN
  w # NoOne => /\ orgRole[w] # 0
               /\ EffRole(orgRole[w], ask[h].p.vis, IF Same(h) THEN pmRole[w] ELSE 0) >= 2

\* The check, a statement before the write; a PATCH has locked the row of the issue.
Check(h, ok) ==
  /\ \E next \in {"assign", "reassign"} :
       /\ next = "reassign" => /\ Same(h) /\ RowFree
                               /\ assignee \notin {Uncreated, ask[h].who}
       /\ ask' = [ask EXCEPT ![h] = IF ok THEN [@ EXCEPT !.at = next] ELSE NoAsk]
  /\ UNCHANGED memberTables /\ Rest

AssignCheck(h) == ask[h].at = "eligible" /\ Check(h, Eligible(h))

\* The write: the INSERT of an issue, of which the model follows the first, or the UPDATE.
Assign(h) ==
  /\ ask[h].at \in {"assign", "reassign"}
  /\ IF Same(h) /\ (ask[h].at = "assign" => assignee = Uncreated)
     THEN assignee' = ask[h].who /\ NoteLate(h, {"removed"})
     ELSE UNCHANGED <<assignee, found>>
  /\ Finish(h)
  /\ UNCHANGED <<orgRole, pmRole, project, lock, asked, raced, clashes>>

\* A statement of a transaction fails, or the caller is gone: Rollback.
MemberFails(h) ==
  /\ ask[h].at # "idle"
  /\ IF lock = h THEN lock' = NoOne /\ found' = {} ELSE UNCHANGED <<lock, found>>
  /\ Finish(h)
  /\ clashes' = clashes \ {h}
  /\ UNCHANGED <<memberTables, asked, raced>>

MembersNext ==
  \/ \E u \in People : CreateOrg(u)
  \/ \E h \in Handlers :
       \/ \E u, w \in People :
            \/ \E r \in OrgRoles : AddAccess(h, u, w, r) \/ PatchAccess(h, u, w, r)
            \/ \E r \in ProjRoles : PutAccess(h, u, w, r)
            \/ DeleteAccess(h, u, w) \/ DropAccess(h, u, w)
       \/ \E u \in People, w \in People \cup {NoOne} : AssignAccess(h, u, w)
       \/ \E u \in People :
            \/ CreateAccess(h, u) \/ DeleteProjectAccess(h, u)
            \/ \E val \in {0, 1} : \E field \in {"vis", "name"} :
                 PatchProjectAccess(h, u, field, val)
       \/ AddOrgMember(h) \/ PatchDecide(h) \/ PatchWrite(h)
       \/ DeleteDecide(h) \/ DeleteRows(h) \/ Unassign(h) \/ DeleteWrite(h)
       \/ CreateProject(h) \/ PatchProject(h) \/ DeleteProject(h)
       \/ PutProjectMember(h) \/ DeleteProjectMember(h)
       \/ AssignCheck(h) \/ Assign(h)
       \/ MemberFails(h)

MembersSpec == MembersInit /\ [][MembersNext]_memberVars

-----------------------------------------------------------------------------
\* Where a removal is under way, and where a request holds the row of the organisation.
Removing == {"deleting", "unassign", "removed"}
HoldsOrg == {"patching"} \cup Removing

\* Roles, rows and requests have values the code can store; the organisation is locked by a
\* transaction that is under way, and what refers to the project goes with it.
MembersTypeOK ==
  /\ orgRole \in [People -> 0..3] /\ pmRole \in [People -> 0..3]
  /\ project \in [id : Nat, there : BOOLEAN, vis : {0, 1}, name : {0, 1}]
  /\ assignee \in People \cup {NoOne, Uncreated}
  /\ lock \in {NoOne} \cup {h \in Handlers : ask[h].at \in HoldsOrg}
  /\ found \subseteq {"member", "issue", "late"}
  /\ ~ project.there => assignee = Uncreated /\ \A u \in People : pmRole[u] = 0
  /\ raced \subseteq People /\ clashes \subseteq Handlers
  /\ asked \in 0..MaxRequests

\* hPatchOrgMember and hDeleteOrgMember (last_owner): an organisation keeps an owner, whoever
\* leaves, is removed or is demoted at the same time.
HasOwner == (\E u \in People : orgRole[u] # 0) => Owners # {}

\* HasOwner as an induction sees it: requests are on their way only once the organisation has
\* an owner, and who is about to write holds the lock and leaves an owner.
ProjectRows == [id : Nat, there : BOOLEAN, vis : {0, 1}, name : {0, 1}]
Stages == {"idle", "add", "patch", "patching", "delete", "deleting", "unassign", "removed",
           "newproject", "pproject", "dproject", "put", "drop", "eligible", "assign", "reassign",
           "load-pproject", "load-dproject", "load-put", "check-put", "load-drop", "load-assign"}
Asks == [at : Stages, by : People \cup {NoOne}, who : People \cup {NoOne}, role : 0..3,
         my : 0..3, p : ProjectRows]

OwnerStays(who, role) == role = 3 \/ \E u \in Owners : u # who

OwnersInv ==
  /\ orgRole \in [People -> 0..3] /\ project \in ProjectRows /\ ask \in [Handlers -> Asks]
  /\ \/ Owners # {}
     \/ (\A u \in People : orgRole[u] = 0) /\ (\A h \in Handlers : ask[h].at = "idle")
  /\ \A h \in Handlers :
       /\ ask[h].at \in {"add", "patch", "delete"} \cup HoldsOrg => ask[h].who \in People
       /\ ask[h].at = "patching" => lock = h /\ OwnerStays(ask[h].who, ask[h].role)
       /\ ask[h].at \in Removing => lock = h /\ OwnerStays(ask[h].who, 0)

\* hDeleteOrgMember against hPutProjectMember and hCreateProject: membership of the project
\* without membership of the organisation comes only from a request that had checked the
\* person before the removal was committed, and was stored after the removal had looked.
StrayOnlyByRace == \A u \in People : pmRole[u] # 0 /\ orgRole[u] = 0 => u \in raced

\* unassignAll against eligibleAssignees: the same for the assignee of an issue.
AssigneeStrayOnlyByRace ==
  assignee \in People => orgRole[assignee] # 0 \/ assignee \in raced

\* hDeleteOrgMember (orgs.go:368) removes a member with everything that refers to the member,
\* but for what comes between its statements and its commit.
RemovalComplete == MembersTypeOK /\ StrayOnlyByRace /\ AssigneeStrayOnlyByRace

\* hPatchProject writes all columns: a PATCH of one field of the project changes another
\* field only if a second PATCH was stored between its read and its write.
PatchKeepsOthers ==
  [][\A h \in Handlers \ clashes :
       ask[h].at = "pproject" /\ ask'[h].at = "idle" /\ project.there
       => project'.vis = project.vis \/ project'.name = project.name]_memberVars
=============================================================================
