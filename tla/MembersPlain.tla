---------------------------- MODULE MembersPlain ----------------------------
(***************************************************************************)
(* Membership in the second Go tracker (src/tracker/impl/go-plain-1/       *)
(* orgs.go, projects.go), over the tables of Members.                      *)
(*                                                                         *)
(* loadOrg reads the caller's role and loadProject, a statement later, the *)
(* project: the effective role is made of values read at different times.  *)
(***************************************************************************)
EXTENDS Members

\* Fault: an admin of the organisation has no role of its own in the project.
EffectiveRoleOwner(org, explicit, vis) ==
  LET implied == CASE org = 3 -> 3
                   [] org < 3 /\ vis = 0 -> 2
                   [] OTHER -> 0
  IN  IF implied > explicit THEN implied ELSE explicit

\* effectiveRole: the stronger of the explicit role and the one implied.
EffectiveRole(org, explicit, vis) ==
  LET implied == CASE org >= 2 -> 3
                   [] org = 1 /\ vis = 0 -> 2
                   [] OTHER -> 0
  IN  IF implied > explicit THEN implied ELSE explicit

\* loadOrg: 404 for who is not a member.
LoadOrg(h, at, by, who, role) == orgRole[by] # 0 /\ Begin(h, at, by, who, role)

\* loadProject with the role that loadOrg has read.
Effective(h) ==
  IF project.there THEN EffectiveRole(ask[h].my, pmRole[ask[h].by], project.vis) ELSE 0

\* Step of a handler that only reads: go on to at, or answer 403, 404 or 422.
GoOn(h, ok, at) ==
  /\ ask' = [ask EXCEPT ![h] = IF ok THEN [@ EXCEPT !.at = at, !.p = project] ELSE NoAsk]
  /\ UNCHANGED memberTables /\ Rest

-----------------------------------------------------------------------------
\* createOrg: the organisation and its owner in one transaction, or slug_taken.
PlainCreateOrg(u) ==
  /\ \A v \in People : orgRole[v] = 0
  /\ orgRole' = [orgRole EXCEPT ![u] = 3]
  /\ UNCHANGED <<pmRole, project, assignee, ask>> /\ Rest

PlainAdd(h) ==
  /\ ask[h].at = "add" /\ OrgFree
  /\ orgRole' = IF /\ ask[h].my >= 2 /\ (ask[h].role # 1 => ask[h].my = 3)
                   /\ orgRole[ask[h].who] = 0           \* ON CONFLICT DO NOTHING
                THEN [orgRole EXCEPT ![ask[h].who] = ask[h].role] ELSE orgRole
  /\ Finish(h)
  /\ UNCHANGED <<pmRole, project, assignee>> /\ Rest

PlainPatchAllowed(my, cur, r, owners) ==
  /\ my >= 2 /\ cur # 0
  /\ ~ ((cur # 1 \/ r # 1) /\ my # 3)
  /\ ~ (cur = 3 /\ r # 3 /\ owners <= 1)

PlainDeleteAllowed(my, cur, self, owners) ==
  /\ (self \/ my >= 2) /\ cur # 0
  /\ ~ (~ self /\ cur # 1 /\ my # 3)
  /\ ~ (cur = 3 /\ owners <= 1)

\* lockOrgMember and the checks that follow it.
PlainPatchDecide(h) ==
  /\ ask[h].at = "patch"
  /\ Decide(h, PlainPatchAllowed(ask[h].my, orgRole[ask[h].who], ask[h].role,
                                 Cardinality(Owners)), "patching")
  /\ UNCHANGED <<memberTables, found, asked, raced, clashes>>

PlainDeleteDecide(h) ==
  /\ ask[h].at = "delete"
  /\ Decide(h, PlainDeleteAllowed(ask[h].my, orgRole[ask[h].who], ask[h].by = ask[h].who,
                                  Cardinality(Owners)), "deleting")
  /\ UNCHANGED <<memberTables, found, asked, raced, clashes>>

PlainPatchWrite(h) ==
  /\ ask[h].at = "patching"
  /\ orgRole' = [orgRole EXCEPT ![ask[h].who] = ask[h].role]
  /\ Unlock(h)
  /\ UNCHANGED <<pmRole, project, assignee, asked, raced, clashes>>

\* DELETE from both tables, in two statements that find what is committed.
PlainDeleteRows(h) ==
  /\ ask[h].at = "deleting" /\ Advance(h, "unassign")
  /\ found' = IF pmRole[ask[h].who] # 0 THEN {"member"} ELSE {}
  /\ UNCHANGED <<memberTables, asked, raced, clashes>>

\* unassignInOrg: SELECT ... FOR UPDATE of the person's issues, and the UPDATE of each.
PlainUnassignInOrg(h) ==
  /\ ask[h].at = "unassign" /\ Advance(h, "removed")
  /\ IF assignee = ask[h].who THEN RowFree /\ found' = found \cup {"issue"} ELSE found' = found
  /\ UNCHANGED <<memberTables, asked, raced, clashes>>

\* Commit of inTx.
PlainDeleteWrite(h) ==
  /\ ask[h].at = "removed"
  /\ RemoveMember(ask[h].who)
  /\ raced' = IF "late" \in found \/ ask[h].who \in Coming
               THEN raced \cup {ask[h].who} ELSE raced
  /\ Unlock(h)
  /\ UNCHANGED <<project, asked, clashes>>

PlainCreateProject(h) ==
  /\ ask[h].at = "newproject" /\ OrgFree
  /\ IF project.there THEN UNCHANGED <<project, pmRole>>     \* key_taken
     ELSE \E vis \in {0, 1} :
            /\ project' = [id |-> project.id + 1, there |-> TRUE, vis |-> vis, name |-> 0]
            /\ pmRole' = [pmRole EXCEPT ![ask[h].who] = 3]
  /\ Finish(h)
  /\ UNCHANGED <<orgRole, assignee>> /\ Rest

\* loadProject of a PATCH: the row that will be written is the one read here.
PlainPatchLoad(h, field, val) ==
  /\ ask[h].at = "load-pproject"
  /\ ask' = [ask EXCEPT ![h] =
               IF Effective(h) = 3
               THEN [@ EXCEPT !.at = "pproject", !.p = [project EXCEPT ![field] = val]]
               ELSE NoAsk]
  /\ UNCHANGED memberTables /\ Rest

PlainPatchProject(h) ==
  /\ ask[h].at = "pproject"
  /\ project' = IF Same(h) THEN ask[h].p ELSE project
  /\ clashes' = (clashes \ {h}) \cup {g \in Handlers \ {h} : ask[g].at = "pproject"}
  /\ Finish(h)
  /\ UNCHANGED <<orgRole, pmRole, assignee, lock, found, asked, raced>>

PlainDeleteLoad(h) ==
  ask[h].at = "load-dproject" /\ GoOn(h, Effective(h) = 3, "dproject")

PlainDeleteProject(h) ==
  /\ ask[h].at = "dproject"
  /\ IF Same(h)
     THEN /\ "member" \notin found /\ RowFree
          /\ project' = [project EXCEPT !.there = FALSE]
          /\ pmRole' = [u \in People |-> 0]
          /\ assignee' = Uncreated
     ELSE UNCHANGED <<project, pmRole, assignee>>
  /\ Finish(h)
  /\ UNCHANGED orgRole /\ Rest

PlainPutLoad(h) ==
  ask[h].at = "load-put" /\ GoOn(h, Effective(h) = 3, "check-put")

\* The target is looked up in the organisation, in a statement of its own.
PlainPutCheck(h) ==
  /\ ask[h].at = "check-put"
  /\ ask' = [ask EXCEPT ![h] = IF orgRole[@.who] # 0 THEN [@ EXCEPT !.at = "put"] ELSE NoAsk]
  /\ UNCHANGED memberTables /\ Rest

PlainPut(h) ==
  /\ ask[h].at = "put"
  /\ IF Same(h)
     THEN /\ ~ Deleted(ask[h].who)
          /\ pmRole' = [pmRole EXCEPT ![ask[h].who] = ask[h].role]
          /\ NoteLate(h, {"unassign", "removed"})
     ELSE UNCHANGED <<pmRole, found>>
  /\ Finish(h)
  /\ UNCHANGED <<orgRole, project, assignee, lock, asked, raced, clashes>>

PlainDropLoad(h) ==
  ask[h].at = "load-drop" /\ GoOn(h, Effective(h) = 3, "drop")

PlainDrop(h) ==
  /\ ask[h].at = "drop"
  /\ IF Same(h)
     THEN ~ Deleted(ask[h].who) /\ pmRole' = [pmRole EXCEPT ![ask[h].who] = 0]
     ELSE UNCHANGED pmRole
  /\ Finish(h)
  /\ UNCHANGED <<orgRole, project, assignee>> /\ Rest

\* orgAndProject or loadIssueCtx, then assigneeEligible in the transaction that writes.
PlainAssignLoad(h) ==
  ask[h].at = "load-assign" /\ GoOn(h, Effective(h) >= 2, "eligible")

\* assigneeEligible, with the visibility of the project that was loaded.
PlainEligible(h) ==
  LET w == ask[h].who IN
  w # NoOne => /\ orgRole[w] # 0
               /\ EffectiveRole(orgRole[w], IF Same(h) THEN pmRole[w] ELSE 0, ask[h].p.vis) >= 2

PlainAssignCheck(h) == ask[h].at = "eligible" /\ Check(h, PlainEligible(h))

\* insertIssues or saveIssueUpdate, and the commit.
PlainAssign(h) ==
  /\ ask[h].at \in {"assign", "reassign"}
  /\ IF Same(h) /\ (ask[h].at = "assign" => assignee = Uncreated)
     THEN assignee' = ask[h].who /\ NoteLate(h, {"removed"})
     ELSE UNCHANGED <<assignee, found>>
  /\ Finish(h)
  /\ UNCHANGED <<orgRole, pmRole, project, lock, asked, raced, clashes>>

PlainMembersNext ==
  \/ \E u \in People : PlainCreateOrg(u)
  \/ \E h \in Handlers :
       \/ \E u, w \in People :
            \/ \E r \in OrgRoles : \/ LoadOrg(h, "add", u, w, r)
                                   \/ LoadOrg(h, "patch", u, w, r)
            \/ \E r \in ProjRoles : LoadOrg(h, "load-put", u, w, r)
            \/ LoadOrg(h, "delete", u, w, 0) \/ LoadOrg(h, "load-drop", u, w, 0)
       \/ \E u \in People, w \in People \cup {NoOne} : LoadOrg(h, "load-assign", u, w, 0)
       \/ \E u \in People : \/ LoadOrg(h, "newproject", u, u, 3)
                            \/ LoadOrg(h, "load-pproject", u, NoOne, 0)
                            \/ LoadOrg(h, "load-dproject", u, NoOne, 0)
       \/ \E val \in {0, 1} : \E field \in {"vis", "name"} : PlainPatchLoad(h, field, val)
       \/ PlainAdd(h) \/ PlainPatchDecide(h) \/ PlainPatchWrite(h)
       \/ PlainDeleteDecide(h) \/ PlainDeleteRows(h) \/ PlainUnassignInOrg(h) \/ PlainDeleteWrite(h)
       \/ PlainCreateProject(h) \/ PlainPatchProject(h)
       \/ PlainDeleteLoad(h) \/ PlainDeleteProject(h)
       \/ PlainPutLoad(h) \/ PlainPutCheck(h) \/ PlainPut(h)
       \/ PlainDropLoad(h) \/ PlainDrop(h)
       \/ PlainAssignLoad(h) \/ PlainAssignCheck(h) \/ PlainAssign(h) \/ MemberFails(h)

PlainMembersSpec == MembersInit /\ [][PlainMembersNext]_memberVars

-----------------------------------------------------------------------------
\* Whatever either tracker has made of the tables, both give each person the same role in the
\* project, and both take the same decision on a request to change or remove a member, save
\* for a PATCH that changes nothing.
SameDecisions ==
  /\ \A u \in People : orgRole[u] # 0 =>
       EffRole(orgRole[u], project.vis, pmRole[u])
         = EffectiveRole(orgRole[u], pmRole[u], project.vis)
  /\ \A h \in Handlers :
       LET my  == ask[h].my
           cur == orgRole[ask[h].who]
           r   == ask[h].role
           own == ask[h].by = ask[h].who
           n   == Cardinality(Owners)
       IN  /\ ask[h].at = "delete" /\ (my >= 2 \/ own) =>
                (DeleteAllowed(my, cur, own, n) <=> PlainDeleteAllowed(my, cur, own, n))
           /\ ask[h].at = "patch" /\ my >= 2 /\ r # cur =>
                (PatchAllowed(my, cur, r, n) <=> PlainPatchAllowed(my, cur, r, n))
=============================================================================
