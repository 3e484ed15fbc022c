---------------------------- MODULE AccountProofs ----------------------------
(***************************************************************************)
(* Members and sessions of both trackers, for any number of people, tokens *)
(* and requests served at the same time.  An organisation keeps an owner,  *)
(* a removal is complete but for requests that come between its statements *)
(* and its commit, and a PATCH of a project keeps the fields it does not   *)
(* name but for a PATCH it overlaps.  A chain of refresh tokens is a line  *)
(* of which the last alone is good, and a revoked chain stays revoked.     *)
(* The two trackers decide alike on members, and list the same issues.     *)
(***************************************************************************)
EXTENDS SessionsPlain, MembersPlain, IssueFilter, FiniteSetTheorems, TLAPS

-----------------------------------------------------------------------------
(* Members of organisations.                                                *)

USE DEF HoldsOrg, Removing

\* A step that moves one request on, and may take or release the lock.
LEMMA AskKeeps ==
  ASSUME OwnersInv, NEW h \in Handlers, NEW r \in Asks,
         ask' = [ask EXCEPT ![h] = r], orgRole' = orgRole, project' \in ProjectRows,
         \/ lock' = lock
         \/ lock \in {NoOne, h},
         r.at # "idle" => Owners # {},
         r.at \in {"add", "patch", "delete"} \cup HoldsOrg => r.who \in People,
         r.at = "patching" => lock' = h /\ OwnerStays(r.who, r.role),
         r.at \in Removing => lock' = h /\ OwnerStays(r.who, 0)
  PROVE  OwnersInv'
<1>1. ask' \in [Handlers -> Asks] /\ ask'[h] = r
      /\ \A g \in Handlers \ {h} : ask'[g] = ask[g]
  BY DEF OwnersInv
<1>2. Owners' = Owners
  BY DEF Owners
<1>3. \A g \in Handlers : ask[g].at \in HoldsOrg => lock = g
  BY DEF OwnersInv
<1>4. \A g \in Handlers \ {h} : ask[g].at \in HoldsOrg => lock' = g
  BY <1>3, MembersAssumption
<1>5. \A who, role : OwnerStays(who, role)' <=> OwnerStays(who, role)
  BY <1>2 DEF OwnerStays
<1> QED BY <1>1, <1>2, <1>4, <1>5 DEF OwnersInv, OwnerStays

\* A step that stores a role and ends its request, while nobody else holds the lock.
LEMMA WriteKeeps ==
  ASSUME OwnersInv, NEW h \in Handlers, NEW c \in 0..3, ask[h].who \in People,
         ask' = [ask EXCEPT ![h] = NoAsk], NoAsk \in Asks, project' = project,
         orgRole' = [orgRole EXCEPT ![ask[h].who] = c],
         lock \in {NoOne, h}, OwnerStays(ask[h].who, c)
  PROVE  OwnersInv'
<1>1. ask' \in [Handlers -> Asks] /\ ask'[h] = NoAsk
      /\ \A g \in Handlers \ {h} : ask'[g] = ask[g]
  BY DEF OwnersInv
<1>2. orgRole' \in [People -> 0..3]
  BY DEF OwnersInv
<1>3. Owners' # {}
  BY DEF OwnersInv, OwnerStays, Owners
<1>4. \A g \in Handlers : ask'[g].at \notin HoldsOrg
  BY <1>1, MembersAssumption DEF OwnersInv, NoAsk
<1>5. \A g \in Handlers : ask'[g].at \in {"add", "patch", "delete"} => ask'[g].who \in People
  BY <1>1 DEF OwnersInv, NoAsk
<1>6. project' \in ProjectRows
  BY DEF OwnersInv
<1> QED BY <1>1, <1>2, <1>3, <1>4, <1>5, <1>6 DEF OwnersInv

LEMMA NoAskType == NoAsk \in Asks
<1>1. NoProject \in ProjectRows
  <2>1. 0 \in Nat /\ 0 \in {0, 1}
    OBVIOUS
  <2>2. FALSE \in BOOLEAN
    OBVIOUS
  <2> QED BY <2>1, <2>2, SMT DEF NoProject, ProjectRows
<1>2. "idle" \in Stages /\ 0 \in 0..3
  BY DEF Stages
<1> QED BY <1>1, <1>2, Zenon DEF NoAsk, Asks

\* The end of a request that stores no role in the organisation.
LEMMA FinishKeeps ==
  ASSUME OwnersInv, NEW h \in Handlers, Finish(h), orgRole' = orgRole, project' \in ProjectRows,
         lock' = lock \/ lock = h
  PROVE  OwnersInv'
<1>1. NoAsk.at = "idle"
  BY DEF NoAsk
<1> QED BY <1>1, AskKeeps, NoAskType DEF Finish

\* The rule of the last owner: unless the owner that goes is the only one, one stays.
LEMMA LastOwner ==
  ASSUME OwnersInv, NEW who \in People, NEW r \in 0..3, Owners # {},
         ~ (orgRole[who] = 3 /\ r # 3 /\ Cardinality(Owners) <= 1)
  PROVE  OwnerStays(who, r)
<1> SUFFICES ASSUME ~ OwnerStays(who, r) PROVE FALSE
  OBVIOUS
<1>1. Owners = {who} /\ r # 3
  BY DEF OwnerStays
<1>2. Cardinality(Owners) = 1
  BY <1>1, FS_Singleton
<1>3. orgRole[who] = 3
  BY <1>1 DEF Owners
<1> QED BY <1>1, <1>2, <1>3

\* The first statement of a handler.
LEMMA BeginKeeps ==
  ASSUME OwnersInv, NEW h \in Handlers, NEW at \in Stages, NEW by \in People,
         NEW who \in People \cup {NoOne}, NEW role \in 0..3, NEW q \in ProjectRows,
         ask' = [ask EXCEPT ![h] = [at |-> at, by |-> by, who |-> who, role |-> role,
                                    my |-> orgRole[by], p |-> q]],
         UNCHANGED <<memberTables, lock>>, orgRole[by] # 0,
         at \notin HoldsOrg,
         at \in {"add", "patch", "delete"} => who \in People
  PROVE  OwnersInv'
<1> DEFINE r == [at |-> at, by |-> by, who |-> who, role |-> role, my |-> orgRole[by], p |-> q]
<1>1. r \in Asks
  BY DEF OwnersInv, Asks
<1>2. Owners # {}
  BY DEF OwnersInv
<1>3. project' \in ProjectRows /\ orgRole' = orgRole /\ lock' = lock
  BY DEF memberTables, OwnersInv
<1>4. r.at = at /\ r.who = who
  OBVIOUS
<1> HIDE DEF r
<1>5. ask' = [ask EXCEPT ![h] = r]
  BY DEF r
<1> QED BY <1>1, <1>2, <1>3, <1>4, <1>5, AskKeeps

\* The locked part of a PATCH or DELETE of a member: the decision, then the write.
LEMMA DecideKeeps ==
  ASSUME OwnersInv, NEW h \in Handlers, NEW ok \in BOOLEAN, NEW next \in {"patching", "deleting"},
         Decide(h, ok, next), UNCHANGED <<orgRole, project>>, ask[h].who \in People,
         ask[h].at # "idle",
         ok => IF next = "patching" THEN OwnerStays(ask[h].who, ask[h].role)
                                    ELSE OwnerStays(ask[h].who, 0)
  PROVE  OwnersInv'
<1>0. project' \in ProjectRows
  BY DEF OwnersInv
<1>1. CASE ~ ok
  BY <1>0, <1>1, FinishKeeps DEF Decide
<1>2. CASE ok
  <2> DEFINE r == [ask[h] EXCEPT !.at = next]
  <2>1. ask[h] \in Asks
    BY DEF OwnersInv
  <2>2. r \in Asks /\ r.at = next /\ r.who = ask[h].who /\ r.role = ask[h].role
    <3>1. next \in Stages
      BY DEF Stages
    <3>2. \A n \in Stages : [ask[h] EXCEPT !.at = n] \in Asks
      BY <2>1 DEF Asks
    <3>3. r \in Asks
      BY <3>1, <3>2
    <3> QED BY <2>1, <3>3 DEF Asks
  <2>3. ask' = [ask EXCEPT ![h] = r] /\ lock = NoOne /\ lock' = h
    BY <1>2 DEF Decide, TakeLock
  <2>4. Owners # {}
    BY DEF OwnersInv
  <2> HIDE DEF r
  <2> QED BY <1>0, <1>2, <2>2, <2>3, <2>4, AskKeeps
<1> QED BY <1>1, <1>2

LEMMA WorkerFails ==
  ASSUME OwnersInv, NEW h \in Handlers, MemberFails(h)
  PROVE  OwnersInv'
<1>1. lock' = lock \/ lock = h
  BY DEF MemberFails
<1>2. orgRole' = orgRole /\ project' \in ProjectRows /\ Finish(h)
  BY DEF MemberFails, memberTables, OwnersInv
<1> QED BY <1>1, <1>2, FinishKeeps

\* The organisation appears with its owner, while no request about it is on its way.
LEMMA OrgKeeps ==
  ASSUME OwnersInv, NEW u \in People, \A v \in People : orgRole[v] = 0,
         orgRole' = [orgRole EXCEPT ![u] = 3], UNCHANGED <<project, ask, lock>>
  PROVE  OwnersInv'
<1>1. orgRole' \in [People -> 0..3] /\ orgRole'[u] = 3
  BY DEF OwnersInv
<1>2. Owners' # {}
  BY <1>1 DEF Owners
<1>3. Owners = {}
  BY DEF Owners
<1>4. \A h \in Handlers : ask'[h].at = "idle"
  BY <1>3 DEF OwnersInv
<1>5. project' \in ProjectRows /\ ask' \in [Handlers -> Asks]
  BY DEF OwnersInv
<1> QED BY <1>1, <1>2, <1>4, <1>5 DEF OwnersInv

\* The INSERT of a member: nobody holds the lock, and somebody who is no member is no owner.
LEMMA AddKeeps ==
  ASSUME OwnersInv, NEW h \in Handlers, ask[h].at = "add", OrgFree, NEW ok \in BOOLEAN,
         ok => orgRole[ask[h].who] = 0,
         orgRole' = IF ok THEN [orgRole EXCEPT ![ask[h].who] = ask[h].role] ELSE orgRole,
         Finish(h), UNCHANGED <<project, lock>>
  PROVE  OwnersInv'
<1>1. CASE ~ ok
  <2>1. orgRole' = orgRole /\ project' \in ProjectRows
    BY <1>1 DEF OwnersInv
  <2> QED BY <2>1, FinishKeeps
<1>2. CASE ok
  <2>1. ask[h].who \in People /\ ask[h].role \in 0..3 /\ Owners # {}
    BY DEF OwnersInv, Asks
  <2>2. OwnerStays(ask[h].who, ask[h].role)
    BY <1>2, <2>1 DEF OwnerStays, Owners
  <2> QED BY <1>2, <2>1, <2>2, WriteKeeps, NoAskType DEF Finish, OrgFree
<1> QED BY <1>1, <1>2

\* The UPDATE and the DELETE of a member, by the holder of the lock.
LEMMA PatchKeeps ==
  ASSUME OwnersInv, NEW h \in Handlers, ask[h].at = "patching",
         orgRole' = [orgRole EXCEPT ![ask[h].who] = ask[h].role], Unlock(h), project' = project
  PROVE  OwnersInv'
<1>1. ask[h].who \in People /\ ask[h].role \in 0..3 /\ lock = h
      /\ OwnerStays(ask[h].who, ask[h].role)
  BY DEF OwnersInv, Asks
<1> QED BY <1>1, WriteKeeps, NoAskType DEF Finish, Unlock

LEMMA DeleteKeeps ==
  ASSUME OwnersInv, NEW h \in Handlers, ask[h].at = "removed",
         orgRole' = [orgRole EXCEPT ![ask[h].who] = 0], Unlock(h), project' = project
  PROVE  OwnersInv'
<1>1. ask[h].who \in People /\ lock = h /\ OwnerStays(ask[h].who, 0) /\ 0 \in 0..3
  BY DEF OwnersInv, Asks
<1> QED BY <1>1, WriteKeeps, NoAskType DEF Finish, Unlock

\* The statements of a removal between its decision and its commit.
LEMMA AdvanceKeeps ==
  ASSUME OwnersInv, NEW h \in Handlers, NEW next \in {"unassign", "removed"},
         ask[h].at \in {"deleting", "unassign"}, Advance(h, next), UNCHANGED memberTables
  PROVE  OwnersInv'
<1>1. ask[h] \in Asks /\ next \in Stages /\ Owners # {}
  BY DEF OwnersInv, Stages
<1>2. PICK r \in Asks : r = [ask[h] EXCEPT !.at = next]
  BY <1>1 DEF Asks
<1>3. r.at = next /\ r.who = ask[h].who
  BY <1>1, <1>2 DEF Asks
<1>4. ask[h].who \in People /\ lock = h /\ OwnerStays(ask[h].who, 0)
  BY DEF OwnersInv
<1>5. /\ ask' = [ask EXCEPT ![h] = r] /\ lock' = lock
      /\ orgRole' = orgRole /\ project' \in ProjectRows
  BY <1>2 DEF Advance, memberTables, OwnersInv
<1> QED BY <1>1, <1>3, <1>4, <1>5, AskKeeps

LEMMA MembersStart == MembersInit => OwnersInv
<1> SUFFICES ASSUME MembersInit PROVE OwnersInv
  OBVIOUS
<1>1. NoAsk.at = "idle" /\ NoAsk.p = NoProject
  BY DEF NoAsk
<1>2. project \in ProjectRows
  BY NoAskType, <1>1 DEF MembersInit, Asks
<1>3. ask \in [Handlers -> Asks] /\ \A h \in Handlers : ask[h].at = "idle"
  BY <1>1, NoAskType DEF MembersInit
<1>4. orgRole \in [People -> 0..3] /\ \A u \in People : orgRole[u] = 0
  BY DEF MembersInit
<1> QED BY <1>2, <1>3, <1>4 DEF OwnersInv

\* PATCH of a project writes one field of the row it has read.
LEMMA FieldType ==
  ASSUME OwnersInv, NEW val \in {0, 1}, NEW field \in {"vis", "name"}
  PROVE  [project EXCEPT ![field] = val] \in ProjectRows
<1>1. project \in ProjectRows
  BY DEF OwnersInv
<1>2. CASE field = "vis"
  BY <1>1, <1>2 DEF ProjectRows
<1>3. CASE field = "name"
  BY <1>1, <1>3 DEF ProjectRows
<1> QED BY <1>2, <1>3

\* The statements that create, change and delete the project keep its row typed.
LEMMA ProjectType ==
  ASSUME OwnersInv, NEW h \in Handlers
  PROVE  /\ project \in ProjectRows /\ ask[h].p \in ProjectRows
         /\ [project EXCEPT !.there = FALSE] \in ProjectRows
         /\ \A vis \in {0, 1} :
              [id |-> project.id + 1, there |-> TRUE, vis |-> vis, name |-> 0] \in ProjectRows
<1>1. project \in ProjectRows /\ ask[h].p \in ProjectRows
  BY DEF OwnersInv, Asks
<1>2. [project EXCEPT !.there = FALSE] \in ProjectRows
  BY <1>1 DEF ProjectRows
<1>3. \A vis \in {0, 1} :
        [id |-> project.id + 1, there |-> TRUE, vis |-> vis, name |-> 0] \in ProjectRows
  BY <1>1 DEF ProjectRows
<1> QED BY <1>1, <1>2, <1>3

\* A step that only reads, and goes on or ends the request.
LEMMA ReadKeeps ==
  ASSUME OwnersInv, NEW h \in Handlers, ask[h].at # "idle", NEW ok \in BOOLEAN,
         NEW next \in Stages \ ({"add", "patch", "delete"} \cup HoldsOrg),
         NEW q \in ProjectRows,
         ask' = [ask EXCEPT ![h] = IF ok THEN [ask[h] EXCEPT !.at = next, !.p = q] ELSE NoAsk],
         UNCHANGED <<orgRole, project, lock>>
  PROVE  OwnersInv'
<1>1. project' \in ProjectRows
  BY DEF OwnersInv
<1>2. CASE ~ ok
  BY <1>1, <1>2, FinishKeeps DEF Finish
<1>3. CASE ok
  <2>1. ask[h] \in Asks /\ Owners # {}
    BY DEF OwnersInv
  <2>2. PICK r \in Asks : r = [ask[h] EXCEPT !.at = next, !.p = q]
    BY <2>1 DEF Asks
  <2>3. r.at = next
    BY <2>1, <2>2 DEF Asks
  <2>4. ask' = [ask EXCEPT ![h] = r]
    BY <1>3, <2>2
  <2> QED BY <1>1, <2>1, <2>3, <2>4, AskKeeps
<1> QED BY <1>2, <1>3

LEMMA CheckKeeps ==
  ASSUME OwnersInv, NEW h \in Handlers, ask[h].at = "eligible", NEW ok \in BOOLEAN, Check(h, ok)
  PROVE  OwnersInv'
<1>1. PICK next \in {"assign", "reassign"} :
        ask' = [ask EXCEPT ![h] = IF ok THEN [ask[h] EXCEPT !.at = next] ELSE NoAsk]
  BY DEF Check, OwnersInv
<1>2. ask[h] \in Asks /\ ask[h].p \in ProjectRows
  BY DEF OwnersInv, Asks
<1>3. [ask[h] EXCEPT !.at = next] = [ask[h] EXCEPT !.at = next, !.p = ask[h].p]
  BY <1>2 DEF Asks
<1>4. UNCHANGED <<orgRole, project, lock>>
      /\ next \in Stages \ ({"add", "patch", "delete"} \cup HoldsOrg)
  BY DEF Check, Rest, memberTables, Stages
<1>5. ask' = [ask EXCEPT ![h] =
                IF ok THEN [ask[h] EXCEPT !.at = next, !.p = ask[h].p] ELSE NoAsk]
  BY <1>1, <1>3
<1>6. ask[h].at # "idle"
  OBVIOUS
<1> QED BY <1>2, <1>4, <1>5, <1>6, ReadKeeps

LEMMA MembersStep == OwnersInv /\ [MembersNext]_memberVars => OwnersInv'
<1> SUFFICES ASSUME OwnersInv, [MembersNext]_memberVars PROVE OwnersInv'
  OBVIOUS
<1>1. ASSUME NEW u \in People, CreateOrg(u) PROVE OwnersInv'
  BY <1>1, OrgKeeps DEF CreateOrg
<1>2. ASSUME NEW h \in Handlers, NEW at \in Stages \ HoldsOrg, NEW by \in People,
             NEW who \in People \cup {NoOne}, NEW role \in 0..3, Begin(h, at, by, who, role),
             orgRole[by] # 0, at \in {"add", "patch", "delete"} => who \in People
      PROVE  OwnersInv'
  BY <1>2, ProjectType, BeginKeeps DEF Begin
<1>3. ASSUME NEW h \in Handlers, NEW u \in People, NEW w \in People, NEW r \in OrgRoles,
             AddAccess(h, u, w, r) \/ PatchAccess(h, u, w, r)
      PROVE  OwnersInv'
  <2>1. r \in 0..3
    BY MembersAssumption
  <2>2. orgRole[u] # 0
    BY <1>3 DEF AddAccess, PatchAccess, OwnersInv
  <2>3. {"add", "patch"} \subseteq Stages \ HoldsOrg
    BY DEF Stages
  <2> QED BY <1>2, <1>3, <2>1, <2>2, <2>3 DEF AddAccess, PatchAccess
<1>4. \A u \in People : Access(u) # 0 => orgRole[u] # 0
  BY DEF Access
<1>5. ASSUME NEW h \in Handlers, NEW u \in People, NEW w \in People, NEW r \in ProjRoles,
             PutAccess(h, u, w, r)
      PROVE  OwnersInv'
  <2>1. r \in 0..3
    BY MembersAssumption
  <2>2. orgRole[u] # 0
    BY <1>4, <1>5 DEF PutAccess
  <2>3. "put" \in Stages \ HoldsOrg
    BY DEF Stages
  <2> QED BY <1>2, <1>5, <2>1, <2>2, <2>3 DEF PutAccess
<1>6. ASSUME NEW h \in Handlers, NEW u \in People, NEW w \in People,
             DeleteAccess(h, u, w) \/ DropAccess(h, u, w)
      PROVE  OwnersInv'
  <2>1. CASE DeleteAccess(h, u, w)
    <3>1. "delete" \in Stages \ HoldsOrg /\ 0 \in 0..3
      BY DEF Stages
    <3> QED BY <1>2, <2>1, <3>1 DEF DeleteAccess
  <2>2. CASE DropAccess(h, u, w)
    <3>1. "drop" \in Stages \ HoldsOrg /\ 0 \in 0..3
      BY DEF Stages
    <3> QED BY <1>2, <1>4, <2>2, <3>1 DEF DropAccess
  <2> QED BY <1>6, <2>1, <2>2
<1>7. ASSUME NEW h \in Handlers, NEW u \in People,
             CreateAccess(h, u) \/ DeleteProjectAccess(h, u)
      PROVE  OwnersInv'
  <2>1. {"newproject", "dproject"} \subseteq Stages \ HoldsOrg
        /\ {0, 3} \subseteq 0..3
    BY DEF Stages
  <2>2. CASE CreateAccess(h, u)
    BY <1>2, <2>1, <2>2 DEF CreateAccess
  <2>3. CASE DeleteProjectAccess(h, u)
    BY <1>2, <1>4, <2>1, <2>3 DEF DeleteProjectAccess
  <2> QED BY <1>7, <2>2, <2>3
<1>8. ASSUME NEW h \in Handlers, NEW u \in People, NEW val \in {0, 1},
             NEW field \in {"vis", "name"}, PatchProjectAccess(h, u, field, val)
      PROVE  OwnersInv'
  <2>1. "pproject" \in Stages /\ 0 \in 0..3
    BY DEF Stages
  <2>2. orgRole[u] # 0
    BY <1>4, <1>8 DEF PatchProjectAccess
  <2>3. [project EXCEPT ![field] = val] \in ProjectRows
    BY FieldType
  <2>4. PICK q \in ProjectRows : q = [project EXCEPT ![field] = val]
    BY <2>3
  <2>5. /\ ask' = [ask EXCEPT ![h] = [at |-> "pproject", by |-> u, who |-> NoOne, role |-> 0,
                                      my |-> orgRole[u], p |-> q]]
        /\ UNCHANGED <<memberTables, lock>>
    BY <1>8, <2>4 DEF PatchProjectAccess
  <2> QED BY <2>1, <2>2, <2>5, BeginKeeps, ZenonT(40)
<1>9. ASSUME NEW h \in Handlers, AddOrgMember(h) PROVE OwnersInv'
  <2> DEFINE ok == orgRole[ask[h].who] = 0
  <2>1. ok \in BOOLEAN
    OBVIOUS
  <2> QED BY <1>9, <2>1, AddKeeps DEF AddOrgMember, Rest
<1>10. ASSUME NEW h \in Handlers, PatchDecide(h) PROVE OwnersInv'
  <2> DEFINE ok == PatchAllowed(ask[h].my, orgRole[ask[h].who], ask[h].role, Cardinality(Owners))
  <2>1. ok \in BOOLEAN
    BY DEF PatchAllowed
  <2>2. ask[h].who \in People /\ ask[h].role \in 0..3 /\ Owners # {}
    BY <1>10 DEF PatchDecide, OwnersInv, Asks
  <2>3. ok => OwnerStays(ask[h].who, ask[h].role)
    BY <2>2, LastOwner DEF PatchAllowed
  <2> QED BY <1>10, <2>1, <2>2, <2>3, DecideKeeps DEF PatchDecide, memberTables
<1>11. ASSUME NEW h \in Handlers, DeleteDecide(h) PROVE OwnersInv'
  <2> DEFINE ok == DeleteAllowed(ask[h].my, orgRole[ask[h].who], ask[h].by = ask[h].who,
                                 Cardinality(Owners))
  <2>1. ok \in BOOLEAN
    BY DEF DeleteAllowed
  <2>2. ask[h].who \in People /\ 0 \in 0..3 /\ Owners # {}
    BY <1>11 DEF DeleteDecide, OwnersInv, Asks
  <2>3. ok => OwnerStays(ask[h].who, 0)
    BY <2>2, LastOwner DEF DeleteAllowed
  <2> QED BY <1>11, <2>1, <2>2, <2>3, DecideKeeps DEF DeleteDecide, memberTables
<1>12. ASSUME NEW h \in Handlers, PatchWrite(h) PROVE OwnersInv'
  BY <1>12, PatchKeeps DEF PatchWrite
<1>13. ASSUME NEW h \in Handlers, DeleteWrite(h) PROVE OwnersInv'
  BY <1>13, DeleteKeeps DEF DeleteWrite, RemoveMember
<1>18. ASSUME NEW h \in Handlers, DeleteRows(h) \/ Unassign(h) PROVE OwnersInv'
  BY <1>18, AdvanceKeeps DEF DeleteRows, Unassign
<1>19. ASSUME NEW h \in Handlers, NEW u \in People, NEW w \in People \cup {NoOne},
              AssignAccess(h, u, w)
       PROVE  OwnersInv'
  <2>1. "eligible" \in Stages \ HoldsOrg /\ 0 \in 0..3
    BY DEF Stages
  <2>2. Access(u) # 0
    BY <1>19 DEF AssignAccess
  <2> QED BY <1>2, <1>4, <1>19, <2>1, <2>2 DEF AssignAccess
<1>20. ASSUME NEW h \in Handlers, AssignCheck(h) PROVE OwnersInv'
  <2>1. PICK ok \in BOOLEAN : ok <=> Eligible(h)
    OBVIOUS
  <2>2. ask[h].at = "eligible" /\ Check(h, ok)
    BY <1>20, <2>1 DEF AssignCheck, Check
  <2> QED BY <2>2, CheckKeeps
<1>14. ASSUME NEW h \in Handlers, CreateProject(h) PROVE OwnersInv'
  <2>1. project' \in ProjectRows
    BY <1>14, ProjectType DEF CreateProject
  <2> QED BY <1>14, <2>1, FinishKeeps DEF CreateProject, Rest
<1>15. ASSUME NEW h \in Handlers,
              PatchProject(h) \/ PutProjectMember(h) \/ DeleteProjectMember(h) \/ Assign(h)
       PROVE  OwnersInv'
  <2>1. project' \in ProjectRows
    BY <1>15, ProjectType DEF PatchProject, PutProjectMember, DeleteProjectMember, Assign
  <2> QED BY <1>15, <2>1, FinishKeeps
         DEF PatchProject, PutProjectMember, DeleteProjectMember, Assign, Rest
<1>16. ASSUME NEW h \in Handlers, DeleteProject(h) PROVE OwnersInv'
  <2>1. project' \in ProjectRows
    BY <1>16, ProjectType DEF DeleteProject
  <2> QED BY <1>16, <2>1, FinishKeeps DEF DeleteProject, Rest
<1>17. CASE UNCHANGED memberVars
  BY <1>17 DEF memberVars, memberTables, OwnersInv, Owners, OwnerStays
<1> QED BY <1>1, <1>3, <1>5, <1>6, <1>7, <1>8, <1>9, <1>10, <1>11, <1>12, <1>13, <1>14, <1>15,
           <1>16, <1>17, <1>18, <1>19, <1>20, WorkerFails DEF MembersNext

LEMMA PlainMembersStep == OwnersInv /\ [PlainMembersNext]_memberVars => OwnersInv'
<1> SUFFICES ASSUME OwnersInv, [PlainMembersNext]_memberVars PROVE OwnersInv'
  OBVIOUS
<1>0. project \in ProjectRows
  BY DEF OwnersInv
<1>1. ASSUME NEW u \in People, PlainCreateOrg(u) PROVE OwnersInv'
  BY <1>1, OrgKeeps DEF PlainCreateOrg, Rest
<1>2. ASSUME NEW h \in Handlers, NEW at \in Stages \ HoldsOrg, NEW by \in People,
             NEW who \in People \cup {NoOne}, NEW role \in 0..3, LoadOrg(h, at, by, who, role),
             at \in {"add", "patch", "delete"} => who \in People
      PROVE  OwnersInv'
  BY <1>0, <1>2, BeginKeeps DEF LoadOrg, Begin
<1>3. {"add", "patch", "delete", "load-put", "load-drop", "newproject", "load-pproject",
       "load-dproject", "load-assign"} \subseteq Stages \ HoldsOrg
  BY DEF Stages
<1>4. ASSUME NEW h \in Handlers, NEW u \in People, NEW w \in People, NEW r \in OrgRoles,
             LoadOrg(h, "add", u, w, r) \/ LoadOrg(h, "patch", u, w, r)
      PROVE  OwnersInv'
  <2>1. r \in 0..3
    BY MembersAssumption
  <2> QED BY <1>2, <1>3, <1>4, <2>1
<1>5. ASSUME NEW h \in Handlers, NEW u \in People, NEW w \in People, NEW r \in ProjRoles,
             LoadOrg(h, "load-put", u, w, r)
      PROVE  OwnersInv'
  <2>1. r \in 0..3
    BY MembersAssumption
  <2> QED BY <1>2, <1>3, <1>5, <2>1
<1>6. ASSUME NEW h \in Handlers, NEW u \in People, NEW w \in People,
             LoadOrg(h, "delete", u, w, 0) \/ LoadOrg(h, "load-drop", u, w, 0)
      PROVE  OwnersInv'
  <2>1. 0 \in 0..3
    OBVIOUS
  <2> QED BY <1>2, <1>3, <1>6, <2>1
<1>7. ASSUME NEW h \in Handlers, NEW u \in People,
             \/ LoadOrg(h, "newproject", u, u, 3)
             \/ LoadOrg(h, "load-pproject", u, NoOne, 0)
             \/ LoadOrg(h, "load-dproject", u, NoOne, 0)
      PROVE  OwnersInv'
  <2>1. {0, 3} \subseteq 0..3
    OBVIOUS
  <2> QED BY <1>2, <1>3, <1>7, <2>1
<1>8. {"pproject", "dproject", "check-put", "put", "drop", "eligible"}
        \subseteq Stages \ ({"add", "patch", "delete"} \cup HoldsOrg)
  BY DEF Stages
<1>9. ASSUME NEW h \in Handlers, NEW val \in {0, 1}, NEW field \in {"vis", "name"},
             PlainPatchLoad(h, field, val)
      PROVE  OwnersInv'
  <2>1. PICK q \in ProjectRows : q = [project EXCEPT ![field] = val]
    BY FieldType
  <2>2. PICK ok \in BOOLEAN : ok <=> Effective(h) = 3
    OBVIOUS
  <2>3. ask' = [ask EXCEPT ![h] = IF ok THEN [ask[h] EXCEPT !.at = "pproject", !.p = q] ELSE NoAsk]
    BY <1>9, <2>1, <2>2 DEF PlainPatchLoad, OwnersInv
  <2>4. UNCHANGED <<orgRole, project, lock>> /\ ask[h].at # "idle"
        /\ "pproject" \in Stages \ ({"add", "patch", "delete"} \cup HoldsOrg)
    BY <1>8, <1>9 DEF PlainPatchLoad, Rest, memberTables
  <2> QED BY <2>3, <2>4, ReadKeeps
<1>10. ASSUME NEW h \in Handlers, NEW ok \in BOOLEAN,
              NEW at \in {"dproject", "check-put", "drop", "eligible"},
              GoOn(h, ok, at), ask[h].at # "idle"
       PROVE  OwnersInv'
  <2>1. ask' = [ask EXCEPT ![h] = IF ok THEN [ask[h] EXCEPT !.at = at, !.p = project] ELSE NoAsk]
    BY <1>10 DEF GoOn, OwnersInv
  <2>2. UNCHANGED <<orgRole, project, lock>>
        /\ at \in Stages \ ({"add", "patch", "delete"} \cup HoldsOrg)
    BY <1>8, <1>10 DEF GoOn, Rest, memberTables
  <2> QED BY <1>0, <1>10, <2>1, <2>2, ReadKeeps
<1>11. ASSUME NEW h \in Handlers,
              PlainDeleteLoad(h) \/ PlainPutLoad(h) \/ PlainDropLoad(h) \/ PlainAssignLoad(h)
       PROVE  OwnersInv'
  <2>1. PICK ok \in BOOLEAN : ok <=> Effective(h) = 3
    OBVIOUS
  <2>2. PICK able \in BOOLEAN : able <=> Effective(h) >= 2
    OBVIOUS
  <2>3. ASSUME PlainAssignLoad(h) PROVE OwnersInv'
    <3>1. GoOn(h, able, "eligible") /\ ask[h].at # "idle"
      BY <2>2, <2>3 DEF PlainAssignLoad, GoOn
    <3> QED BY <1>10, <3>1
  <2>4. ASSUME PlainDeleteLoad(h) \/ PlainPutLoad(h) \/ PlainDropLoad(h) PROVE OwnersInv'
    <3>1. PICK at \in {"dproject", "check-put", "drop"} : GoOn(h, ok, at) /\ ask[h].at # "idle"
      BY <2>1, <2>4 DEF PlainDeleteLoad, PlainPutLoad, PlainDropLoad, GoOn
    <3> QED BY <1>10, <3>1
  <2> QED BY <1>11, <2>3, <2>4
<1>12. ASSUME NEW h \in Handlers, PlainPutCheck(h) PROVE OwnersInv'
  <2>1. PICK ok \in BOOLEAN : ok <=> orgRole[ask[h].who] # 0
    OBVIOUS
  <2>2. ask[h] \in Asks /\ ask[h].p \in ProjectRows
    BY DEF OwnersInv, Asks
  <2>3. [ask[h] EXCEPT !.at = "put"] = [ask[h] EXCEPT !.at = "put", !.p = ask[h].p]
    BY <2>2 DEF Asks
  <2>4. ask' = [ask EXCEPT ![h] =
                  IF ok THEN [ask[h] EXCEPT !.at = "put", !.p = ask[h].p] ELSE NoAsk]
    BY <1>12, <2>1, <2>3 DEF PlainPutCheck, OwnersInv
  <2>5. UNCHANGED <<orgRole, project, lock>> /\ ask[h].at # "idle"
        /\ "put" \in Stages \ ({"add", "patch", "delete"} \cup HoldsOrg)
    BY <1>8, <1>12 DEF PlainPutCheck, Rest, memberTables
  <2> QED BY <2>2, <2>4, <2>5, ReadKeeps
<1>13. ASSUME NEW h \in Handlers, PlainAdd(h) PROVE OwnersInv'
  <2>1. PICK ok \in BOOLEAN : ok <=> /\ ask[h].my >= 2 /\ (ask[h].role # 1 => ask[h].my = 3)
                                     /\ orgRole[ask[h].who] = 0
    OBVIOUS
  <2>2. orgRole' = IF ok THEN [orgRole EXCEPT ![ask[h].who] = ask[h].role] ELSE orgRole
    BY <1>13, <2>1 DEF PlainAdd
  <2> QED BY <1>13, <2>1, <2>2, AddKeeps DEF PlainAdd, Rest
<1>14. ASSUME NEW h \in Handlers, PlainPatchDecide(h) PROVE OwnersInv'
  <2> DEFINE ok == PlainPatchAllowed(ask[h].my, orgRole[ask[h].who], ask[h].role,
                                     Cardinality(Owners))
  <2>1. ok \in BOOLEAN
    BY DEF PlainPatchAllowed
  <2>2. ask[h].who \in People /\ ask[h].role \in 0..3 /\ Owners # {}
    BY <1>14 DEF PlainPatchDecide, OwnersInv, Asks
  <2>3. ok => OwnerStays(ask[h].who, ask[h].role)
    BY <2>2, LastOwner DEF PlainPatchAllowed
  <2> QED BY <1>14, <2>1, <2>2, <2>3, DecideKeeps DEF PlainPatchDecide, memberTables
<1>15. ASSUME NEW h \in Handlers, PlainDeleteDecide(h) PROVE OwnersInv'
  <2> DEFINE ok == PlainDeleteAllowed(ask[h].my, orgRole[ask[h].who], ask[h].by = ask[h].who,
                                      Cardinality(Owners))
  <2>1. ok \in BOOLEAN
    BY DEF PlainDeleteAllowed
  <2>2. ask[h].who \in People /\ 0 \in 0..3 /\ Owners # {}
    BY <1>15 DEF PlainDeleteDecide, OwnersInv, Asks
  <2>3. ok => OwnerStays(ask[h].who, 0)
    BY <2>2, LastOwner DEF PlainDeleteAllowed
  <2> QED BY <1>15, <2>1, <2>2, <2>3, DecideKeeps DEF PlainDeleteDecide, memberTables
<1>16. ASSUME NEW h \in Handlers, PlainPatchWrite(h) PROVE OwnersInv'
  BY <1>16, PatchKeeps DEF PlainPatchWrite
<1>17. ASSUME NEW h \in Handlers, PlainDeleteWrite(h) PROVE OwnersInv'
  BY <1>17, DeleteKeeps DEF PlainDeleteWrite, RemoveMember
<1>22. ASSUME NEW h \in Handlers, PlainDeleteRows(h) \/ PlainUnassignInOrg(h) PROVE OwnersInv'
  BY <1>22, AdvanceKeeps DEF PlainDeleteRows, PlainUnassignInOrg
<1>23. ASSUME NEW h \in Handlers, NEW u \in People, NEW w \in People \cup {NoOne},
              LoadOrg(h, "load-assign", u, w, 0)
       PROVE  OwnersInv'
  <2>1. 0 \in 0..3
    OBVIOUS
  <2> QED BY <1>2, <1>3, <1>23, <2>1
<1>24. ASSUME NEW h \in Handlers, PlainAssignCheck(h) PROVE OwnersInv'
  <2>1. PICK ok \in BOOLEAN : ok <=> PlainEligible(h)
    OBVIOUS
  <2>2. ask[h].at = "eligible" /\ Check(h, ok)
    BY <1>24, <2>1 DEF PlainAssignCheck, Check
  <2> QED BY <2>2, CheckKeeps
<1>18. ASSUME NEW h \in Handlers, PlainCreateProject(h) PROVE OwnersInv'
  <2>1. project' \in ProjectRows
    BY <1>18, ProjectType DEF PlainCreateProject
  <2> QED BY <1>18, <2>1, FinishKeeps DEF PlainCreateProject, Rest
<1>19. ASSUME NEW h \in Handlers,
              PlainPatchProject(h) \/ PlainPut(h) \/ PlainDrop(h) \/ PlainAssign(h)
       PROVE  OwnersInv'
  <2>1. project' \in ProjectRows
    BY <1>19, ProjectType DEF PlainPatchProject, PlainPut, PlainDrop, PlainAssign
  <2> QED BY <1>19, <2>1, FinishKeeps
         DEF PlainPatchProject, PlainPut, PlainDrop, PlainAssign, Rest
<1>20. ASSUME NEW h \in Handlers, PlainDeleteProject(h) PROVE OwnersInv'
  <2>1. project' \in ProjectRows
    BY <1>20, ProjectType DEF PlainDeleteProject
  <2> QED BY <1>20, <2>1, FinishKeeps DEF PlainDeleteProject, Rest
<1>21. CASE UNCHANGED memberVars
  BY <1>21 DEF memberVars, memberTables, OwnersInv, Owners, OwnerStays
<1> QED BY <1>1, <1>4, <1>5, <1>6, <1>7, <1>9, <1>11, <1>12, <1>13, <1>14, <1>15, <1>16, <1>17,
           <1>18, <1>19, <1>20, <1>21, <1>22, <1>23, <1>24, WorkerFails DEF PlainMembersNext

LEMMA OwnersInvImplies == OwnersInv => HasOwner
  BY DEF OwnersInv, HasOwner

\* hPatchOrgMember and hDeleteOrgMember of the first tracker (orgs.go:301, 368): an
\* organisation with members always has an owner, however many requests demote, remove and
\* add people at the same time, because the decision and the write are under one lock.
THEOREM OwnerAlways == MembersSpec => []HasOwner
<1>1. OwnersInv /\ [MembersNext]_memberVars => OwnersInv'
  BY MembersStep
<1> QED BY MembersStart, <1>1, OwnersInvImplies, PTL DEF MembersSpec

\* The same of patchOrgMember and deleteOrgMember of the plain tracker, whose handlers check
\* the caller's role with values that are older still.
THEOREM PlainOwnerAlways == PlainMembersSpec => []HasOwner
<1>1. OwnersInv /\ [PlainMembersNext]_memberVars => OwnersInv'
  BY PlainMembersStep
<1> QED BY MembersStart, <1>1, OwnersInvImplies, PTL DEF PlainMembersSpec

-----------------------------------------------------------------------------
(* What refers to a member goes with the member. *)

\* Requests that name a person, and requests that have checked the person whom they will store.
Naming == {"put", "newproject", "drop", "load-put", "check-put", "load-drop"}
Arriving == {"put", "newproject", "assign", "reassign"}

\* The tables agree, but for the people removed while a request about them was on its way.
TablesAgree ==
  /\ pmRole \in [People -> 0..3] /\ assignee \in People \cup {NoOne, Uncreated}
  /\ raced \subseteq People /\ clashes \subseteq Handlers /\ asked \in 0..MaxRequests
  /\ ~ project.there => assignee = Uncreated /\ \A u \in People : pmRole[u] = 0
  /\ StrayOnlyByRace /\ AssigneeStrayOnlyByRace

LockHeld == lock \in {NoOne} \cup {h \in Handlers : ask[h].at \in HoldsOrg}

\* The removal that a request carries out has written every row about the person that its
\* statements have passed, or somebody stored one after them.
Covered(r) ==
  /\ r.at \in {"unassign", "removed"} /\ pmRole[r.who] # 0 => "member" \in found \/ "late" \in found
  /\ r.at = "removed" /\ assignee = r.who => "issue" \in found \/ "late" \in found

RemovalSoFar ==
  /\ found \subseteq {"member", "issue", "late"}
  /\ "issue" \in found => project.there
  /\ \A h \in Handlers : Covered(ask[h])

\* A PATCH on its way differs in one field from the project it would overwrite.
OneField(h, p) ==
  /\ p.there /\ p.id <= project.id
  /\ h \notin clashes /\ project.there /\ p.id = project.id
       => p.vis = project.vis \/ p.name = project.name

\* What a request on its way has checked still holds, or the race is on record.
Checked(h, r) ==
  /\ r.at \in Naming => r.who \in People
  /\ r.at \in Arriving => r.who = NoOne \/ orgRole[r.who] # 0 \/ r.who \in raced
  /\ r.at \in {"patch", "patching"} => r.role # 0
  /\ r.at = "pproject" => OneField(h, r.p)

RemovalInv ==
  TablesAgree /\ LockHeld /\ RemovalSoFar /\ \A h \in Handlers : Checked(h, ask[h])

\* The requests that a step of h does not move.
LEMMA OthersChecked ==
  ASSUME OwnersInv, RemovalInv, NEW h \in Handlers, NEW r \in Asks,
         ask' = [ask EXCEPT ![h] = r], raced \subseteq raced',
         \A u \in People : orgRole'[u] = 0 => orgRole[u] = 0 \/ u \notin Coming \/ u \in raced',
         \/ project' = project /\ clashes' = clashes
         \/ project' = project /\ clashes' = clashes \ {h}
         \/ clashes' = clashes /\ project'.id = project.id /\ ~ project'.there
         \/ clashes' = clashes /\ project'.id = project.id + 1
         \/ /\ project'.id = project.id
            /\ \A g \in Handlers \ {h} : ask[g].at = "pproject" => g \in clashes'
  PROVE  \A g \in Handlers \ {h} : ask'[g] = ask[g] /\ Checked(g, ask[g])'
<1> SUFFICES ASSUME NEW g \in Handlers \ {h}
             PROVE  ask'[g] = ask[g] /\ Checked(g, ask[g])'
  OBVIOUS
<1>1. ask'[g] = ask[g]
  BY DEF OwnersInv
<1>2. PICK q \in Asks : q = ask[g]
  BY DEF OwnersInv
<1>3. Checked(g, q) /\ q.p \in ProjectRows /\ project \in ProjectRows
  BY <1>2 DEF RemovalInv, OwnersInv, Asks
<1>4. ASSUME q.at \in Arriving
      PROVE  q.who = NoOne \/ orgRole'[q.who] # 0 \/ q.who \in raced'
  <2>1. q.who \in Coming
    BY <1>2, <1>4 DEF Coming, Arriving
  <2>2. q.who = NoOne \/ (q.who \in People /\ (orgRole[q.who] # 0 \/ q.who \in raced))
    BY <1>3, <1>4 DEF Checked, Asks
  <2> QED BY <2>1, <2>2
<1>5. ASSUME q.at = "pproject"
      PROVE  OneField(g, q.p)'
  <2>1. OneField(g, q.p) /\ q.p.id \in Nat /\ project.id \in Nat
    BY <1>3, <1>5 DEF Checked, ProjectRows
  <2>2. CASE project' = project
    <3>1. g \notin clashes' => g \notin clashes
      BY <1>2, <1>5, <2>2
    <3> QED BY <2>1, <2>2, <3>1 DEF OneField
  <2>3. CASE project'.id = project.id /\ ~ project'.there
    BY <2>1, <2>3 DEF OneField
  <2>4. CASE project'.id = project.id + 1
    BY <2>1, <2>4 DEF OneField
  <2>5. CASE project'.id = project.id /\ g \in clashes'
    BY <2>1, <2>5 DEF OneField
  <2> QED BY <1>2, <1>5, <2>2, <2>3, <2>4, <2>5
<1>6. Checked(g, q)'
  BY <1>3, <1>4, <1>5 DEF Checked
<1> QED BY <1>1, <1>2, <1>6

\* ... and the row of the organisation stays locked by a request that is under way.
LEMMA LockStays ==
  ASSUME OwnersInv, RemovalInv, NEW h \in Handlers, NEW r \in Asks,
         ask' = [ask EXCEPT ![h] = r],
         \/ lock' = NoOne
         \/ lock' = h /\ r.at \in HoldsOrg
         \/ lock' = lock /\ (ask[h].at \notin HoldsOrg \/ lock # h)
  PROVE  LockHeld'
<1>1. ask'[h] = r /\ \A g \in Handlers \ {h} : ask'[g] = ask[g]
  BY DEF OwnersInv
<1> QED BY <1>1 DEF RemovalInv, LockHeld

\* A removal past the statement that would find a row about u.
Past(stages, u) == \E g \in Handlers : ask[g].at \in stages /\ ask[g].who = u

LEMMA LateNoted ==
  ASSUME NEW h \in Handlers, NEW stages, NoteLate(h, stages), RemovalSoFar
  PROVE  /\ found \subseteq found' /\ found' \subseteq {"member", "issue", "late"}
         /\ "issue" \in found' => "issue" \in found
         /\ Past(stages, ask[h].who) => "late" \in found'
BY DEF NoteLate, Past, RemovalSoFar

\* ... and the removal under way still covers what the tables say: it has ended with this
\* step, or a row about the person came with the record that it is late.
LEMMA StillCovered ==
  ASSUME OwnersInv, RemovalInv, NEW h \in Handlers, NEW r \in Asks,
         ask' = [ask EXCEPT ![h] = r], r.at \notin {"unassign", "removed"},
         \/ lock = h /\ found' = {}
         \/ /\ found \subseteq found' /\ found' \subseteq {"member", "issue", "late"}
            /\ "issue" \in found' => "issue" \in found /\ project'.there
            /\ \A u \in People : \/ pmRole'[u] # 0 => pmRole[u] # 0
                                 \/ Past({"unassign", "removed"}, u) => "late" \in found'
            /\ \/ assignee' = assignee \/ assignee' \notin People
               \/ Past({"removed"}, assignee') => "late" \in found'
  PROVE  RemovalSoFar'
<1>1. ask'[h] = r /\ \A g \in Handlers \ {h} : ask'[g] = ask[g]
  BY DEF OwnersInv
<1>2. Covered(ask[h])'
  BY <1>1 DEF Covered
<1>3. CASE lock = h /\ found' = {}
  <2>1. ASSUME NEW g \in Handlers \ {h} PROVE Covered(ask[g])'
    <3>1. ask'[g].at \notin Removing
      BY <1>1, <1>3 DEF OwnersInv
    <3> QED BY <3>1 DEF Covered
  <2> QED BY <1>2, <1>3, <2>1 DEF RemovalSoFar
<1>4. CASE /\ found \subseteq found' /\ found' \subseteq {"member", "issue", "late"}
           /\ "issue" \in found' => "issue" \in found /\ project'.there
           /\ \A u \in People : \/ pmRole'[u] # 0 => pmRole[u] # 0
                                \/ Past({"unassign", "removed"}, u) => "late" \in found'
           /\ \/ assignee' = assignee \/ assignee' \notin People
              \/ Past({"removed"}, assignee') => "late" \in found'
  <2>1. ASSUME NEW g \in Handlers \ {h} PROVE Covered(ask[g])'
    <3>1. Covered(ask[g]) /\ ask'[g] = ask[g]
      BY <1>1 DEF RemovalInv, RemovalSoFar
    <3>2. ask[g].at \in {"unassign", "removed"} => ask[g].who \in People
      BY DEF OwnersInv
    <3>3. ask[g].at \in {"unassign", "removed"} => Past({"unassign", "removed"}, ask[g].who)
      BY DEF Past
    <3>4. ask[g].at = "removed" => Past({"removed"}, ask[g].who)
      BY DEF Past
    <3> QED BY <1>4, <3>1, <3>2, <3>3, <3>4 DEF Covered
  <2> QED BY <1>2, <1>4, <2>1 DEF RemovalSoFar
<1> QED BY <1>3, <1>4

\* A step of a request, taken together.
LEMMA StepChecked ==
  ASSUME OwnersInv, RemovalInv, NEW h \in Handlers, NEW r \in Asks,
         ask' = [ask EXCEPT ![h] = r], Checked(h, r)', LockHeld', TablesAgree', RemovalSoFar',
         \A g \in Handlers \ {h} : ask'[g] = ask[g] /\ Checked(g, ask[g])'
  PROVE  RemovalInv'
<1>1. ask'[h] = r
  BY DEF OwnersInv
<1>2. Checked(h, ask[h])'
  BY <1>1 DEF Checked, OneField
<1> QED BY <1>2 DEF RemovalInv

\* A step that writes no table.
LEMMA QuietStep ==
  ASSUME OwnersInv, RemovalInv, NEW h \in Handlers, NEW r \in Asks,
         ask' = [ask EXCEPT ![h] = r], UNCHANGED <<memberTables, raced>>,
         clashes' = clashes \/ clashes' = clashes \ {h}, asked' \in 0..MaxRequests,
         found' = found \/ (lock = h /\ found' = {}), r.at \notin {"unassign", "removed"},
         \/ lock' = NoOne
         \/ lock' = h /\ r.at \in HoldsOrg
         \/ lock' = lock /\ (ask[h].at \notin HoldsOrg \/ lock # h),
         r.at \in Naming => r.who \in People,
         r.at \in Arriving => r.who = NoOne \/ orgRole[r.who] # 0 \/ r.who \in raced,
         r.at \in {"patch", "patching"} => r.role # 0,
         r.at = "pproject" => /\ r.p.there /\ r.p.id = project.id
                              /\ r.p.vis = project.vis \/ r.p.name = project.name
  PROVE  RemovalInv'
<1>1. UNCHANGED <<orgRole, pmRole, project, assignee, raced>>
  BY DEF memberTables
<1>2. TablesAgree'
  BY <1>1 DEF RemovalInv, TablesAgree, StrayOnlyByRace, AssigneeStrayOnlyByRace
<1>3. LockHeld'
  BY LockStays
<1>4. \A g \in Handlers \ {h} : ask'[g] = ask[g] /\ Checked(g, ask[g])'
  BY <1>1, OthersChecked
<1>6. RemovalSoFar'
  BY <1>1, StillCovered DEF RemovalInv, RemovalSoFar
<1>5. Checked(h, r)'
  <2>1. project.id \in Nat
    BY DEF OwnersInv, ProjectRows
  <2>2. r.at = "pproject" => r.p.id <= project.id
    BY <2>1
  <2> QED BY <1>1, <2>2 DEF Checked, OneField
<1> QED BY <1>2, <1>3, <1>4, <1>5, <1>6, StepChecked

\* A request ends; it wrote at most what its lemma says.
LEMMA NoAskChecked ==
  /\ NoAsk \in Asks /\ NoAsk.at = "idle"
  /\ \A h \in Handlers : Checked(h, NoAsk) /\ Checked(h, NoAsk)'
<1>1. NoAsk.at = "idle"
  BY DEF NoAsk
<1> QED BY <1>1, NoAskType DEF Checked, Naming, Arriving

LEMMA EndsChecked ==
  ASSUME OwnersInv, RemovalInv, NEW h \in Handlers, Finish(h), TablesAgree', RemovalSoFar',
         \/ lock' = NoOne
         \/ lock' = lock /\ (ask[h].at \notin HoldsOrg \/ lock # h),
         raced \subseteq raced',
         \A u \in People : orgRole'[u] = 0 => orgRole[u] = 0 \/ u \notin Coming \/ u \in raced',
         \/ project' = project /\ clashes' = clashes
         \/ project' = project /\ clashes' = clashes \ {h}
         \/ clashes' = clashes /\ project'.id = project.id /\ ~ project'.there
         \/ clashes' = clashes /\ project'.id = project.id + 1
         \/ /\ project'.id = project.id
            /\ \A g \in Handlers \ {h} : ask[g].at = "pproject" => g \in clashes'
  PROVE  RemovalInv'
<1>1. ask' = [ask EXCEPT ![h] = NoAsk]
  BY DEF Finish
<1>2. LockHeld'
  BY <1>1, NoAskChecked, LockStays
<1>3. \A g \in Handlers \ {h} : ask'[g] = ask[g] /\ Checked(g, ask[g])'
  BY <1>1, NoAskChecked, OthersChecked
<1> QED BY <1>1, <1>2, <1>3, NoAskChecked, StepChecked

\* The first statement of a handler.
LEMMA BeginChecked ==
  ASSUME OwnersInv, RemovalInv, NEW h \in Handlers, NEW at \in Stages, NEW by \in People,
         NEW who \in People \cup {NoOne}, NEW role \in 0..3,
         Begin(h, at, by, who, role),
         at \notin {"pproject"} \cup HoldsOrg,
         at \in Naming => who \in People,
         at \in Arriving => orgRole[who] # 0,
         at = "patch" => role # 0
  PROVE  RemovalInv'
<1> DEFINE r == [at |-> at, by |-> by, who |-> who, role |-> role, my |-> orgRole[by],
                 p |-> project]
<1>1. /\ ask' = [ask EXCEPT ![h] = r] /\ ask[h].at = "idle" /\ asked' = asked + 1
      /\ asked < MaxRequests /\ UNCHANGED <<memberTables, lock, found, raced, clashes>>
  BY DEF Begin
<1>2. r \in Asks /\ r.at = at /\ r.who = who /\ r.role = role
  BY DEF OwnersInv, Asks
<1>3. asked' \in 0..MaxRequests
  BY <1>1, MembersAssumption DEF RemovalInv, TablesAgree
<1> HIDE DEF r
<1> QED BY <1>1, <1>2, <1>3, QuietStep

\* A PATCH of the project has read the row, and changes one field of what it has read.
LEMMA FieldFacts ==
  ASSUME OwnersInv, NEW val \in {0, 1}, NEW field \in {"vis", "name"}, project.there
  PROVE  \E q \in ProjectRows :
           /\ q = [project EXCEPT ![field] = val]
           /\ q.there /\ q.id = project.id /\ (q.vis = project.vis \/ q.name = project.name)
<1>1. project \in ProjectRows /\ [project EXCEPT ![field] = val] \in ProjectRows
  BY FieldType DEF OwnersInv
<1>2. CASE field = "vis"
  BY <1>1, <1>2 DEF ProjectRows
<1>3. CASE field = "name"
  BY <1>1, <1>3 DEF ProjectRows
<1> QED BY <1>2, <1>3

LEMMA PatchAccessChecked ==
  ASSUME OwnersInv, RemovalInv, NEW h \in Handlers, NEW u \in People, NEW val \in {0, 1},
         NEW field \in {"vis", "name"}, PatchProjectAccess(h, u, field, val)
  PROVE  RemovalInv'
<1>1. project.there
  BY DEF PatchProjectAccess, Access
<1>2. PICK q \in ProjectRows :
        /\ q = [project EXCEPT ![field] = val]
        /\ q.there /\ q.id = project.id /\ (q.vis = project.vis \/ q.name = project.name)
  BY <1>1, FieldFacts
<1> DEFINE r == [at |-> "pproject", by |-> u, who |-> NoOne, role |-> 0,
                 my |-> orgRole[u], p |-> q]
<1>3. /\ ask' = [ask EXCEPT ![h] = r] /\ ask[h].at = "idle" /\ asked' = asked + 1
      /\ asked < MaxRequests /\ UNCHANGED <<memberTables, lock, found, raced, clashes>>
  BY <1>2 DEF PatchProjectAccess
<1>4. r \in Asks /\ r.at = "pproject" /\ r.p = q
  <2>1. "pproject" \in Stages /\ 0 \in 0..3 /\ orgRole[u] \in 0..3
    BY DEF Stages, OwnersInv
  <2> QED BY <2>1 DEF Asks
<1>5. asked' \in 0..MaxRequests
  BY <1>3, MembersAssumption DEF RemovalInv, TablesAgree
<1>6. r.at \notin Naming \cup Arriving
  BY <1>4 DEF Naming, Arriving
<1> HIDE DEF r
<1> QED BY <1>2, <1>3, <1>4, <1>5, <1>6, QuietStep

\* The decision of a PATCH or a DELETE of a member.
LEMMA DecideChecked ==
  ASSUME OwnersInv, RemovalInv, NEW h \in Handlers, NEW ok \in BOOLEAN,
         NEW next \in {"patching", "deleting"}, Decide(h, ok, next),
         ask[h].at = IF next = "patching" THEN "patch" ELSE "delete",
         UNCHANGED <<memberTables, found, asked, raced, clashes>>
  PROVE  RemovalInv'
<1>1. asked' \in 0..MaxRequests
  BY DEF RemovalInv, TablesAgree
<1>2. CASE ~ ok
  <2>1. ask' = [ask EXCEPT ![h] = NoAsk] /\ lock' = lock
    BY <1>2 DEF Decide, Finish
  <2>2. NoAsk.at \notin Naming \cup Arriving \cup HoldsOrg \cup {"patch", "pproject"}
    BY NoAskChecked DEF Naming, Arriving
  <2> QED BY <1>1, <2>1, <2>2, NoAskChecked, QuietStep
<1>3. CASE ok
  <2> DEFINE r == [ask[h] EXCEPT !.at = next]
  <2>1. ask[h] \in Asks /\ next \in Stages
    BY DEF OwnersInv, Stages
  <2>2. r \in Asks /\ r.at = next /\ r.role = ask[h].role
    BY <2>1 DEF Asks
  <2>3. ask' = [ask EXCEPT ![h] = r] /\ lock' = h
    BY <1>3 DEF Decide, TakeLock
  <2>4. ask[h].at = "patch" => ask[h].role # 0
    BY DEF RemovalInv, Checked
  <2> HIDE DEF r
  <2>5. /\ r.at \notin Naming \cup Arriving /\ r.at \in HoldsOrg
        /\ r.at \in {"patch", "patching"} => r.role # 0
    BY <2>2, <2>4 DEF Naming, Arriving
  <2> QED BY <1>1, <2>2, <2>3, <2>5, QuietStep
<1> QED BY <1>2, <1>3

\* A failed request leaves the tables alone and gives up the lock.
LEMMA FailsChecked ==
  ASSUME OwnersInv, RemovalInv, NEW h \in Handlers, MemberFails(h)
  PROVE  RemovalInv'
<1>1. /\ Finish(h) /\ clashes' = clashes \ {h}
      /\ UNCHANGED <<orgRole, pmRole, project, assignee, asked, raced>>
      /\ \/ lock' = NoOne /\ lock = h /\ found' = {}
         \/ lock' = lock /\ lock # h /\ found' = found
  BY DEF MemberFails, memberTables
<1>2. TablesAgree'
  BY <1>1 DEF RemovalInv, TablesAgree, StrayOnlyByRace, AssigneeStrayOnlyByRace
<1>3. RemovalSoFar'
  BY <1>1, NoAskChecked, StillCovered DEF RemovalInv, RemovalSoFar, Finish
<1> QED BY <1>1, <1>2, <1>3, EndsChecked

\* The DELETEs and the unassignment have found the rows there are now.
LEMMA RowsChecked ==
  ASSUME OwnersInv, RemovalInv, NEW h \in Handlers, NEW next \in {"unassign", "removed"},
         Advance(h, next), UNCHANGED <<memberTables, asked, raced, clashes>>,
         ask[h].at \in {"deleting", "unassign"}, found' \subseteq {"member", "issue", "late"},
         "issue" \in found' => project.there,
         pmRole[ask[h].who] # 0 => "member" \in found' \/ "late" \in found',
         next = "removed" /\ assignee = ask[h].who => "issue" \in found'
  PROVE  RemovalInv'
<1>1. UNCHANGED <<orgRole, pmRole, project, assignee, asked, raced, clashes>>
  BY DEF memberTables
<1>2. ask[h] \in Asks /\ next \in Stages /\ lock = h
  BY DEF OwnersInv, Stages
<1>3. PICK r \in Asks : r = [ask[h] EXCEPT !.at = next]
  BY <1>2 DEF Asks
<1>4. r.at = next /\ r.who = ask[h].who
  BY <1>2, <1>3 DEF Asks
<1>5. ask' = [ask EXCEPT ![h] = r] /\ lock' = lock
  BY <1>3 DEF Advance
<1>6. ask'[h] = r /\ \A g \in Handlers \ {h} : ask'[g] = ask[g]
  BY <1>5 DEF OwnersInv
<1>7. TablesAgree'
  BY <1>1 DEF RemovalInv, TablesAgree, StrayOnlyByRace, AssigneeStrayOnlyByRace
<1>8. LockHeld'
  BY <1>2, <1>4, <1>5, LockStays
<1>9. \A g \in Handlers \ {h} : ask'[g] = ask[g] /\ Checked(g, ask[g])'
  BY <1>1, <1>5, OthersChecked
<1>10. Checked(h, r)'
  BY <1>4 DEF Checked, Naming, Arriving
<1>11. RemovalSoFar'
  <2>1. Covered(ask[h])'
    BY <1>1, <1>4, <1>6 DEF Covered
  <2>2. ASSUME NEW g \in Handlers \ {h} PROVE Covered(ask[g])'
    <3>1. ask'[g].at \notin Removing
      BY <1>2, <1>6 DEF OwnersInv
    <3> QED BY <3>1 DEF Covered
  <2> QED BY <1>1, <2>1, <2>2 DEF RemovalSoFar
<1> QED BY <1>5, <1>7, <1>8, <1>9, <1>10, <1>11, StepChecked

LEMMA DeleteRowsChecked ==
  ASSUME OwnersInv, RemovalInv, NEW h \in Handlers, DeleteRows(h) \/ PlainDeleteRows(h)
  PROVE  RemovalInv'
<1>1. /\ ask[h].at = "deleting" /\ Advance(h, "unassign")
      /\ found' = IF pmRole[ask[h].who] # 0 THEN {"member"} ELSE {}
      /\ UNCHANGED <<memberTables, asked, raced, clashes>>
  BY DEF DeleteRows, PlainDeleteRows
<1> QED BY <1>1, RowsChecked

LEMMA UnassignChecked ==
  ASSUME OwnersInv, RemovalInv, NEW h \in Handlers, Unassign(h) \/ PlainUnassignInOrg(h)
  PROVE  RemovalInv'
<1>1. /\ ask[h].at = "unassign" /\ Advance(h, "removed")
      /\ found' = IF assignee = ask[h].who THEN found \cup {"issue"} ELSE found
      /\ UNCHANGED <<memberTables, asked, raced, clashes>>
  BY DEF Unassign, PlainUnassignInOrg
<1>2. ask[h].who \in People
  BY <1>1 DEF OwnersInv
<1>3. assignee = ask[h].who => project.there
  BY <1>2, MembersAssumption DEF RemovalInv, TablesAgree
<1>4. Covered(ask[h]) /\ RemovalSoFar
  BY DEF RemovalInv, RemovalSoFar
<1>5. pmRole[ask[h].who] # 0 => "member" \in found' \/ "late" \in found'
  BY <1>1, <1>4 DEF Covered
<1>6. found' \subseteq {"member", "issue", "late"} /\ ("issue" \in found' => project.there)
  BY <1>1, <1>3, <1>4 DEF RemovalSoFar
<1> QED BY <1>1, <1>5, <1>6, RowsChecked

\* The organisation appears: nobody loses a role.
LEMMA OrgChecked ==
  ASSUME OwnersInv, RemovalInv, NEW u \in People, orgRole' = [orgRole EXCEPT ![u] = 3],
         UNCHANGED <<pmRole, project, assignee, lock, found, ask, asked, raced, clashes>>
  PROVE  RemovalInv'
<1>1. \A v \in People : orgRole'[v] = 0 => orgRole[v] = 0
  BY DEF OwnersInv
<1>2. TablesAgree'
  BY <1>1 DEF RemovalInv, TablesAgree, StrayOnlyByRace, AssigneeStrayOnlyByRace
<1>3. LockHeld'
  BY DEF RemovalInv, LockHeld
<1>4. ASSUME NEW g \in Handlers PROVE Checked(g, ask[g])'
  <2>1. Checked(g, ask[g])
    BY DEF RemovalInv
  <2>2. ask[g].who \in People \cup {NoOne}
    BY DEF OwnersInv, Asks
  <2> QED BY <1>1, <2>1, <2>2 DEF Checked, OneField
<1>5. RemovalSoFar'
  BY DEF RemovalInv, RemovalSoFar, Covered
<1> QED BY <1>2, <1>3, <1>4, <1>5 DEF RemovalInv

\* A role is stored that takes nobody out of the organisation.
LEMMA RoleChecked ==
  ASSUME OwnersInv, RemovalInv, NEW h \in Handlers, NEW w \in People, NEW c \in 0..3,
         \/ orgRole' = orgRole
         \/ orgRole' = [orgRole EXCEPT ![w] = c] /\ (c # 0 \/ orgRole[w] = 0),
         Finish(h), UNCHANGED <<pmRole, project, assignee, asked, raced, clashes>>,
         \/ lock' = NoOne /\ lock = h /\ found' = {}
         \/ lock' = lock /\ ask[h].at \notin HoldsOrg /\ found' = found
  PROVE  RemovalInv'
<1>1. \A v \in People : orgRole'[v] = 0 => orgRole[v] = 0
  BY DEF OwnersInv
<1>2. TablesAgree'
  BY <1>1 DEF RemovalInv, TablesAgree, StrayOnlyByRace, AssigneeStrayOnlyByRace
<1>3. RemovalSoFar'
  BY NoAskChecked, StillCovered DEF RemovalInv, RemovalSoFar, Finish
<1> QED BY <1>1, <1>2, <1>3, EndsChecked

LEMMA AddChecked ==
  ASSUME OwnersInv, RemovalInv, NEW h \in Handlers, AddOrgMember(h) \/ PlainAdd(h)
  PROVE  RemovalInv'
<1>1. /\ ask[h].at = "add" /\ Finish(h)
      /\ UNCHANGED <<pmRole, project, assignee, lock, found, asked, raced, clashes>>
      /\ \/ orgRole' = orgRole
         \/ /\ orgRole' = [orgRole EXCEPT ![ask[h].who] = ask[h].role]
            /\ orgRole[ask[h].who] = 0
  BY DEF AddOrgMember, PlainAdd, Rest
<1>2. ask[h].who \in People /\ ask[h].role \in 0..3
  BY <1>1 DEF OwnersInv, Asks
<1> QED BY <1>1, <1>2, RoleChecked

LEMMA PatchChecked ==
  ASSUME OwnersInv, RemovalInv, NEW h \in Handlers, PatchWrite(h) \/ PlainPatchWrite(h)
  PROVE  RemovalInv'
<1>1. /\ ask[h].at = "patching" /\ Finish(h) /\ lock' = NoOne /\ found' = {}
      /\ UNCHANGED <<pmRole, project, assignee, asked, raced, clashes>>
      /\ orgRole' = [orgRole EXCEPT ![ask[h].who] = ask[h].role]
  BY DEF PatchWrite, PlainPatchWrite, Unlock
<1>2. ask[h].who \in People /\ ask[h].role \in 0..3 /\ ask[h].role # 0 /\ lock = h
  BY <1>1 DEF OwnersInv, Asks, RemovalInv, Checked
<1> QED BY <1>1, <1>2, RoleChecked

\* The removal is committed: whom a request still names, or was stored late, goes on record.
LEMMA DeleteChecked ==
  ASSUME OwnersInv, RemovalInv, NEW h \in Handlers, DeleteWrite(h) \/ PlainDeleteWrite(h)
  PROVE  RemovalInv'
<1>1. PICK w : w = ask[h].who
  OBVIOUS
<1>2. /\ ask[h].at = "removed" /\ Finish(h) /\ lock' = NoOne /\ found' = {}
      /\ UNCHANGED <<project, asked, clashes>>
      /\ raced' = IF "late" \in found \/ w \in Coming THEN raced \cup {w} ELSE raced
      /\ orgRole' = [orgRole EXCEPT ![w] = 0]
      /\ pmRole' = IF "member" \in found THEN [pmRole EXCEPT ![w] = 0] ELSE pmRole
      /\ assignee' = IF "issue" \in found THEN NoOne ELSE assignee
  BY <1>1 DEF DeleteWrite, PlainDeleteWrite, RemoveMember, Unlock
<1>3. w \in People /\ lock = h
  BY <1>1, <1>2 DEF OwnersInv
<1>4. /\ \A u \in People : u # w => orgRole'[u] = orgRole[u] /\ pmRole'[u] = pmRole[u]
      /\ pmRole'[w] = 0 \/ (pmRole'[w] = pmRole[w] /\ "member" \notin found)
      /\ pmRole' \in [People -> 0..3]
  BY <1>2, <1>3 DEF OwnersInv, RemovalInv, TablesAgree
<1>5. /\ pmRole[w] # 0 => "member" \in found \/ "late" \in found
      /\ assignee = w => "issue" \in found \/ "late" \in found
      /\ "issue" \in found => project.there
  BY <1>1, <1>2 DEF RemovalInv, RemovalSoFar, Covered
<1>6. TablesAgree'
  <2>1. StrayOnlyByRace'
    BY <1>2, <1>4, <1>5 DEF RemovalInv, TablesAgree, StrayOnlyByRace
  <2>2. AssigneeStrayOnlyByRace'
    BY <1>2, <1>4, <1>5, MembersAssumption DEF RemovalInv, TablesAgree, AssigneeStrayOnlyByRace
  <2>3. raced' \subseteq People
    BY <1>2, <1>3 DEF RemovalInv, TablesAgree
  <2>4. ~ project'.there => assignee' = Uncreated /\ \A u \in People : pmRole'[u] = 0
    BY <1>2, <1>4, <1>5 DEF RemovalInv, TablesAgree
  <2> QED BY <1>2, <1>4, <2>1, <2>2, <2>3, <2>4 DEF RemovalInv, TablesAgree
<1>7. \A u \in People : orgRole'[u] = 0 => orgRole[u] = 0 \/ u \notin Coming \/ u \in raced'
  BY <1>2, <1>4
<1>8. RemovalSoFar'
  BY <1>2, <1>3, NoAskChecked, StillCovered DEF Finish
<1>9. raced \subseteq raced'
  BY <1>2
<1> QED BY <1>2, <1>6, <1>7, <1>8, <1>9, EndsChecked

\* The project is created, with its creator as a member, while no removal is under way.
LEMMA CreateChecked ==
  ASSUME OwnersInv, RemovalInv, NEW h \in Handlers, CreateProject(h) \/ PlainCreateProject(h)
  PROVE  RemovalInv'
<1>1. /\ ask[h].at = "newproject" /\ Finish(h) /\ lock = NoOne
      /\ UNCHANGED <<orgRole, assignee, lock, found, asked, raced, clashes>>
  BY DEF CreateProject, PlainCreateProject, Rest, OrgFree
<1>2. \A u : ~ Past({"unassign", "removed"}, u)
  BY <1>1, MembersAssumption DEF Past, OwnersInv
<1>3. CASE project.there
  <2>1. UNCHANGED <<project, pmRole>>
    BY <1>3 DEF CreateProject, PlainCreateProject
  <2>2. TablesAgree'
    BY <1>1, <2>1 DEF RemovalInv, TablesAgree, StrayOnlyByRace, AssigneeStrayOnlyByRace
  <2>3. RemovalSoFar'
    BY <1>1, <2>1, NoAskChecked, StillCovered DEF RemovalInv, RemovalSoFar, Finish
  <2> QED BY <1>1, <2>1, <2>2, <2>3, EndsChecked
<1>4. CASE ~ project.there
  <2>1. PICK w : w = ask[h].who
    OBVIOUS
  <2>2. /\ project'.there /\ project'.id = project.id + 1
        /\ pmRole' = [pmRole EXCEPT ![w] = 3]
    BY <1>4, <2>1 DEF CreateProject, PlainCreateProject
  <2>3. w \in People /\ (orgRole[w] # 0 \/ w \in raced)
    BY <1>1, <2>1, MembersAssumption DEF RemovalInv, Checked, Naming, Arriving
  <2>4. pmRole' \in [People -> 0..3] /\ \A u \in People : u # w => pmRole'[u] = pmRole[u]
    <3>1. 3 \in 0..3 /\ pmRole \in [People -> 0..3]
      BY DEF RemovalInv, TablesAgree
    <3> QED BY <2>2, <3>1
  <2>5. TablesAgree'
    BY <1>1, <2>2, <2>3, <2>4
       DEF RemovalInv, TablesAgree, StrayOnlyByRace, AssigneeStrayOnlyByRace
  <2>6. RemovalSoFar'
    BY <1>1, <1>2, <2>2, NoAskChecked, StillCovered DEF RemovalInv, RemovalSoFar, Finish
  <2> QED BY <1>1, <2>2, <2>5, <2>6, EndsChecked
<1> QED BY <1>3, <1>4

\* The project is overwritten with the row the request has read, but for one field.
LEMMA ProjectChecked ==
  ASSUME OwnersInv, RemovalInv, NEW h \in Handlers, PatchProject(h) \/ PlainPatchProject(h)
  PROVE  RemovalInv'
<1>1. /\ ask[h].at = "pproject" /\ Finish(h)
      /\ project' = IF Same(h) THEN ask[h].p ELSE project
      /\ clashes' = (clashes \ {h}) \cup {g \in Handlers \ {h} : ask[g].at = "pproject"}
      /\ UNCHANGED <<orgRole, pmRole, assignee, lock, found, asked, raced>>
  BY DEF PatchProject, PlainPatchProject
<1>2. project'.id = project.id /\ (~ project'.there => ~ project.there)
  BY <1>1 DEF Same, RemovalInv, Checked, OneField
<1>3. TablesAgree'
  BY <1>1, <1>2 DEF RemovalInv, TablesAgree, StrayOnlyByRace, AssigneeStrayOnlyByRace
<1>4. RemovalSoFar'
  BY <1>1, <1>2, NoAskChecked, StillCovered DEF RemovalInv, RemovalSoFar, Finish
<1> QED BY <1>1, <1>2, <1>3, <1>4, EndsChecked

\* The project goes with its members and its issues, but not under a removal's hands.
LEMMA DropProjectChecked ==
  ASSUME OwnersInv, RemovalInv, NEW h \in Handlers, DeleteProject(h) \/ PlainDeleteProject(h)
  PROVE  RemovalInv'
<1>1. /\ ask[h].at = "dproject" /\ Finish(h)
      /\ UNCHANGED <<orgRole, lock, found, asked, raced, clashes>>
      /\ \/ UNCHANGED <<project, pmRole, assignee>>
         \/ /\ project' = [project EXCEPT !.there = FALSE] /\ "issue" \notin found
            /\ pmRole' = [u \in People |-> 0] /\ assignee' = Uncreated
  BY DEF DeleteProject, PlainDeleteProject, Rest, RowFree
<1>2. CASE UNCHANGED <<project, pmRole, assignee>>
  <2>1. TablesAgree'
    BY <1>1, <1>2 DEF RemovalInv, TablesAgree, StrayOnlyByRace, AssigneeStrayOnlyByRace
  <2>2. RemovalSoFar'
    BY <1>1, <1>2, NoAskChecked, StillCovered DEF RemovalInv, RemovalSoFar, Finish
  <2> QED BY <1>1, <1>2, <2>1, <2>2, EndsChecked
<1>3. CASE /\ project' = [project EXCEPT !.there = FALSE] /\ "issue" \notin found
           /\ pmRole' = [u \in People |-> 0] /\ assignee' = Uncreated
  <2>1. project'.id = project.id /\ ~ project'.there /\ assignee' \notin People
    BY <1>3, MembersAssumption DEF OwnersInv, ProjectRows
  <2>2. TablesAgree'
    BY <1>1, <1>3, <2>1 DEF RemovalInv, TablesAgree, StrayOnlyByRace, AssigneeStrayOnlyByRace
  <2>3. RemovalSoFar'
    BY <1>1, <1>3, <2>1, NoAskChecked, StillCovered DEF RemovalInv, RemovalSoFar, Finish
  <2> QED BY <1>1, <2>1, <2>2, <2>3, EndsChecked
<1> QED BY <1>1, <1>2, <1>3

\* A membership of the project is stored or dropped.
LEMMA PutChecked ==
  ASSUME OwnersInv, RemovalInv, NEW h \in Handlers,
         \/ PutProjectMember(h) \/ DeleteProjectMember(h)
         \/ PlainPut(h) \/ PlainDrop(h)
  PROVE  RemovalInv'
<1>1. PICK w, c : /\ w = ask[h].who
                  /\ \/ c = ask[h].role /\ ask[h].at = "put"
                     \/ c = 0 /\ ask[h].at = "drop"
                  /\ pmRole' = IF Same(h) THEN [pmRole EXCEPT ![w] = c] ELSE pmRole
                  /\ \/ NoteLate(h, {"unassign", "removed"})
                     \/ found' = found /\ (pmRole' = pmRole \/ c = 0)
  BY DEF PutProjectMember, DeleteProjectMember, PlainPut, PlainDrop, Rest
<1>2. Finish(h) /\ UNCHANGED <<orgRole, project, assignee, lock, asked, raced, clashes>>
  BY DEF PutProjectMember, DeleteProjectMember, PlainPut, PlainDrop, Rest
<1>3. w \in People /\ c \in 0..3 /\ (c # 0 => orgRole[w] # 0 \/ w \in raced)
  BY <1>1, MembersAssumption DEF RemovalInv, Checked, Naming, Arriving, OwnersInv, Asks
<1>4. /\ pmRole' \in [People -> 0..3]
      /\ \A u \in People : pmRole'[u] = pmRole[u] \/ (u = w /\ pmRole'[u] = c)
      /\ ~ project.there => pmRole' = pmRole
  BY <1>1, <1>3 DEF RemovalInv, TablesAgree, Same
<1>5. TablesAgree'
  BY <1>2, <1>3, <1>4 DEF RemovalInv, TablesAgree, StrayOnlyByRace, AssigneeStrayOnlyByRace
<1>6. RemovalSoFar /\ ("issue" \in found => project.there)
  BY DEF RemovalInv, RemovalSoFar
<1>7. /\ found \subseteq found' /\ found' \subseteq {"member", "issue", "late"}
      /\ "issue" \in found' => "issue" \in found /\ project'.there
      /\ \A u \in People : \/ pmRole'[u] # 0 => pmRole[u] # 0
                           \/ Past({"unassign", "removed"}, u) => "late" \in found'
  <2>1. CASE NoteLate(h, {"unassign", "removed"})
    <3>1. /\ found \subseteq found' /\ found' \subseteq {"member", "issue", "late"}
          /\ "issue" \in found' => "issue" \in found
          /\ Past({"unassign", "removed"}, ask[h].who) => "late" \in found'
      BY <1>6, <2>1, LateNoted
    <3> QED BY <1>1, <1>2, <1>4, <1>6, <3>1
  <2>2. CASE found' = found /\ (pmRole' = pmRole \/ c = 0)
    BY <1>2, <1>4, <1>6, <2>2 DEF RemovalSoFar
  <2> QED BY <1>1, <2>1, <2>2
<1>8. RemovalSoFar'
  BY <1>2, <1>7, NoAskChecked, StillCovered DEF Finish
<1> QED BY <1>1, <1>2, <1>5, <1>8, EndsChecked

\* The assignee that was checked is stored.
LEMMA AssignChecked ==
  ASSUME OwnersInv, RemovalInv, NEW h \in Handlers, Assign(h) \/ PlainAssign(h)
  PROVE  RemovalInv'
<1>1. /\ ask[h].at \in {"assign", "reassign"} /\ Finish(h)
      /\ \/ Same(h) /\ assignee' = ask[h].who /\ NoteLate(h, {"removed"})
         \/ UNCHANGED <<assignee, found>>
      /\ UNCHANGED <<orgRole, pmRole, project, lock, asked, raced, clashes>>
  BY DEF Assign, PlainAssign
<1>2. /\ ask[h].who \in People \cup {NoOne}
      /\ ask[h].who = NoOne \/ orgRole[ask[h].who] # 0 \/ ask[h].who \in raced
  BY <1>1 DEF RemovalInv, Checked, Arriving, OwnersInv, Asks
<1>3. TablesAgree'
  <2>1. AssigneeStrayOnlyByRace' /\ (~ project'.there => assignee' = assignee)
        /\ assignee' \in People \cup {NoOne, Uncreated}
    BY <1>1, <1>2, MembersAssumption DEF RemovalInv, TablesAgree, AssigneeStrayOnlyByRace, Same
  <2> QED BY <1>1, <2>1 DEF RemovalInv, TablesAgree, StrayOnlyByRace
<1>4. RemovalSoFar /\ ("issue" \in found => project.there)
  BY DEF RemovalInv, RemovalSoFar
<1>5. /\ found \subseteq found' /\ found' \subseteq {"member", "issue", "late"}
      /\ "issue" \in found' => "issue" \in found /\ project'.there
      /\ assignee' = assignee \/ (Past({"removed"}, assignee') => "late" \in found')
  <2>1. CASE Same(h) /\ assignee' = ask[h].who /\ NoteLate(h, {"removed"})
    <3>1. /\ found \subseteq found' /\ found' \subseteq {"member", "issue", "late"}
          /\ "issue" \in found' => "issue" \in found
          /\ Past({"removed"}, ask[h].who) => "late" \in found'
      BY <1>4, <2>1, LateNoted
    <3> QED BY <1>1, <1>4, <2>1, <3>1
  <2>2. CASE UNCHANGED <<assignee, found>>
    BY <1>1, <1>4, <2>2 DEF RemovalSoFar
  <2> QED BY <1>1, <2>1, <2>2
<1>6. RemovalSoFar'
  BY <1>1, <1>5, NoAskChecked, StillCovered DEF Finish
<1> QED BY <1>1, <1>3, <1>6, EndsChecked

\* A step that only reads, and goes on or ends the request.
LEMMA ReadChecked ==
  ASSUME OwnersInv, RemovalInv, NEW h \in Handlers, ask[h].at \notin HoldsOrg,
         NEW ok \in BOOLEAN,
         NEW next \in {"pproject", "dproject", "check-put", "put", "drop", "eligible", "assign",
                       "reassign"},
         NEW q \in ProjectRows,
         ask' = [ask EXCEPT ![h] = IF ok THEN [ask[h] EXCEPT !.at = next, !.p = q] ELSE NoAsk],
         UNCHANGED <<memberTables, lock, found, asked, raced, clashes>>,
         ok /\ next = "pproject" => /\ q.there /\ q.id = project.id
                                    /\ q.vis = project.vis \/ q.name = project.name,
         next \in Naming => ask[h].at \in Naming,
         ok /\ next \in Arriving => ask[h].who = NoOne \/ orgRole[ask[h].who] # 0
  PROVE  RemovalInv'
<1>1. asked' \in 0..MaxRequests
  BY DEF RemovalInv, TablesAgree
<1>2. CASE ~ ok
  <2>1. ask' = [ask EXCEPT ![h] = NoAsk]
    BY <1>2
  <2>2. NoAsk.at \notin Naming \cup Arriving \cup HoldsOrg \cup {"patch", "pproject"}
    BY NoAskChecked DEF Naming, Arriving
  <2> QED BY <1>1, <2>1, <2>2, NoAskChecked, QuietStep
<1>3. CASE ok
  <2>1. ask[h] \in Asks /\ next \in Stages
    BY DEF OwnersInv, Stages
  <2> DEFINE r == [ask[h] EXCEPT !.at = next, !.p = q]
  <2>2. r \in Asks /\ r.at = next /\ r.p = q /\ r.who = ask[h].who
    BY <2>1 DEF Asks
  <2>3. ask' = [ask EXCEPT ![h] = r]
    BY <1>3
  <2>4. next \in Naming => ask[h].who \in People
    BY DEF RemovalInv, Checked
  <2> HIDE DEF r
  <2>5. /\ r.at \in Naming => r.who \in People
        /\ r.at \in Arriving => r.who = NoOne \/ orgRole[r.who] # 0 \/ r.who \in raced
        /\ r.at \notin {"patch"} \cup HoldsOrg
        /\ r.at = "pproject" => /\ r.p.there /\ r.p.id = project.id
                                /\ r.p.vis = project.vis \/ r.p.name = project.name
    BY <1>3, <2>2, <2>4
  <2> QED BY <1>1, <2>2, <2>3, <2>5, QuietStep
<1> QED BY <1>2, <1>3

LEMMA PlainPatchLoadChecked ==
  ASSUME OwnersInv, RemovalInv, NEW h \in Handlers, NEW val \in {0, 1},
         NEW field \in {"vis", "name"}, PlainPatchLoad(h, field, val)
  PROVE  RemovalInv'
<1>1. PICK ok \in BOOLEAN : ok <=> Effective(h) = 3
  OBVIOUS
<1>2. PICK q \in ProjectRows :
        /\ q = [project EXCEPT ![field] = val]
        /\ project.there => /\ q.there /\ q.id = project.id
                            /\ q.vis = project.vis \/ q.name = project.name
  BY FieldFacts, FieldType
<1>3. ask' = [ask EXCEPT ![h] = IF ok THEN [ask[h] EXCEPT !.at = "pproject", !.p = q] ELSE NoAsk]
  BY <1>1, <1>2 DEF PlainPatchLoad, OwnersInv
<1>4. /\ UNCHANGED <<memberTables, lock, found, asked, raced, clashes>>
      /\ ask[h].at \notin HoldsOrg
      /\ "pproject" \notin Naming \cup Arriving
  BY DEF PlainPatchLoad, Rest, Naming, Arriving
<1>5. ok => project.there
  BY <1>1 DEF Effective
<1> QED BY <1>2, <1>3, <1>4, <1>5, ReadChecked

LEMMA GoOnChecked ==
  ASSUME OwnersInv, RemovalInv, NEW h \in Handlers,
         PlainDeleteLoad(h) \/ PlainPutLoad(h) \/ PlainDropLoad(h) \/ PlainAssignLoad(h)
  PROVE  RemovalInv'
<1>1. project \in ProjectRows
  BY DEF OwnersInv
<1>2. PICK ok \in BOOLEAN, next \in {"dproject", "check-put", "drop", "eligible"} :
        /\ GoOn(h, ok, next) /\ ask[h].at \notin HoldsOrg
        /\ next \in Naming => ask[h].at \in Naming
  <2>1. {"load-put", "load-drop", "check-put", "drop"} \subseteq Naming
        /\ {"dproject", "eligible"} \cap Naming = {}
    BY DEF Naming
  <2>2. PICK admin \in BOOLEAN : admin = (Effective(h) = 3)
    OBVIOUS
  <2>3. PICK able \in BOOLEAN : able = (Effective(h) >= 2)
    <3>1. (Effective(h) >= 2) = TRUE \/ (Effective(h) >= 2) = FALSE
      OBVIOUS
    <3> QED BY ONLY <3>1, Zenon
  <2>4. CASE PlainAssignLoad(h)
    BY <2>1, <2>3, <2>4 DEF PlainAssignLoad
  <2>5. CASE PlainDeleteLoad(h)
    BY <2>1, <2>2, <2>5 DEF PlainDeleteLoad
  <2>6. CASE PlainPutLoad(h)
    BY <2>1, <2>2, <2>6 DEF PlainPutLoad
  <2>7. CASE PlainDropLoad(h)
    BY <2>1, <2>2, <2>7 DEF PlainDropLoad
  <2> QED BY <2>4, <2>5, <2>6, <2>7
<1>3. next \notin Arriving
  BY DEF Arriving
<1>4. /\ ask' = [ask EXCEPT ![h] = IF ok THEN [ask[h] EXCEPT !.at = next, !.p = project]
                                   ELSE NoAsk]
      /\ UNCHANGED <<memberTables, lock, found, asked, raced, clashes>>
  BY <1>2 DEF GoOn, Rest, OwnersInv
<1> QED BY <1>1, <1>2, <1>3, <1>4, ReadChecked

\* The check of an assignee, by either tracker.
LEMMA CheckChecked ==
  ASSUME OwnersInv, RemovalInv, NEW h \in Handlers, AssignCheck(h) \/ PlainAssignCheck(h)
  PROVE  RemovalInv'
<1>1. PICK ok \in BOOLEAN : /\ ask[h].at = "eligible" /\ Check(h, ok)
                            /\ ok => ask[h].who = NoOne \/ orgRole[ask[h].who] # 0
  <2>1. PICK able \in BOOLEAN : able = Eligible(h)
    BY DEF Eligible
  <2>2. PICK fit \in BOOLEAN : fit = PlainEligible(h)
    BY DEF PlainEligible
  <2>3. CASE AssignCheck(h)
    BY <2>1, <2>3 DEF AssignCheck, Eligible
  <2>4. CASE PlainAssignCheck(h)
    BY <2>2, <2>4 DEF PlainAssignCheck, PlainEligible
  <2> QED BY <2>3, <2>4
<1>2. PICK next \in {"assign", "reassign"} :
        ask' = [ask EXCEPT ![h] = IF ok THEN [ask[h] EXCEPT !.at = next] ELSE NoAsk]
  BY <1>1 DEF Check, OwnersInv
<1>3. ask[h] \in Asks /\ ask[h].p \in ProjectRows
  BY DEF OwnersInv, Asks
<1>4. [ask[h] EXCEPT !.at = next] = [ask[h] EXCEPT !.at = next, !.p = ask[h].p]
  BY <1>3 DEF Asks
<1>5. UNCHANGED <<memberTables, lock, found, asked, raced, clashes>>
      /\ ask[h].at \notin HoldsOrg /\ next \notin Naming
  BY <1>1 DEF Check, Rest, Naming
<1> QED BY <1>1, <1>2, <1>3, <1>4, <1>5, ReadChecked

LEMMA PutCheckChecked ==
  ASSUME OwnersInv, RemovalInv, NEW h \in Handlers, PlainPutCheck(h)
  PROVE  RemovalInv'
<1>1. PICK ok \in BOOLEAN : ok <=> orgRole[ask[h].who] # 0
  OBVIOUS
<1>2. ask[h] \in Asks /\ ask[h].p \in ProjectRows
  BY DEF OwnersInv, Asks
<1>3. [ask[h] EXCEPT !.at = "put"] = [ask[h] EXCEPT !.at = "put", !.p = ask[h].p]
  BY <1>2 DEF Asks
<1>4. ask' = [ask EXCEPT ![h] = IF ok THEN [ask[h] EXCEPT !.at = "put", !.p = ask[h].p] ELSE NoAsk]
  BY <1>1, <1>3 DEF PlainPutCheck, OwnersInv
<1>5. /\ UNCHANGED <<memberTables, lock, found, asked, raced, clashes>>
      /\ ask[h].at \notin HoldsOrg /\ ask[h].at \in Naming
  BY DEF PlainPutCheck, Rest, Naming
<1> QED BY <1>1, <1>2, <1>4, <1>5, ReadChecked

-----------------------------------------------------------------------------
LEMMA RemovalStart == MembersInit => RemovalInv
<1> SUFFICES ASSUME MembersInit PROVE RemovalInv
  OBVIOUS
<1>1. ~ project.there
  BY DEF MembersInit, NoProject
<1>2. TablesAgree
  BY <1>1, MembersAssumption
     DEF MembersInit, TablesAgree, StrayOnlyByRace, AssigneeStrayOnlyByRace
<1>3. LockHeld
  BY DEF MembersInit, LockHeld
<1>4. \A h \in Handlers : ask[h] = NoAsk
  BY DEF MembersInit
<1>5. RemovalSoFar
  BY <1>4, NoAskChecked DEF MembersInit, RemovalSoFar, Covered
<1> QED BY <1>2, <1>3, <1>4, <1>5, NoAskChecked DEF RemovalInv

LEMMA RemovalStutter ==
  ASSUME RemovalInv, UNCHANGED memberVars
  PROVE  RemovalInv'
<1>1. UNCHANGED <<orgRole, pmRole, project, assignee, lock, found, ask, asked, raced, clashes>>
  BY DEF memberVars, memberTables
<1>2. TablesAgree' /\ LockHeld' /\ RemovalSoFar'
  BY <1>1 DEF RemovalInv, TablesAgree, StrayOnlyByRace, AssigneeStrayOnlyByRace, LockHeld,
     RemovalSoFar, Covered
<1> QED BY <1>1, <1>2 DEF RemovalInv, Checked, OneField

LEMMA RemovalStep ==
  ASSUME OwnersInv, RemovalInv, [MembersNext]_memberVars
  PROVE  RemovalInv'
<1>1. /\ {0, 3} \subseteq 0..3 /\ OrgRoles \subseteq 0..3 /\ ProjRoles \subseteq 0..3
      /\ \A r \in OrgRoles : r # 0
  BY MembersAssumption
<1>2. {"add", "patch", "delete", "put", "drop", "eligible", "newproject", "dproject"} \subseteq Stages
  BY DEF Stages
<1>3. {"add", "patch", "delete", "dproject", "eligible"} \cap (Naming \cup Arriving) = {}
      /\ "drop" \notin Arriving
  BY DEF Naming, Arriving
<1>4. \A u \in People : Access(u) # 0 => orgRole[u] # 0
  BY DEF Access
<1>5. ASSUME NEW h \in Handlers, NEW u \in People, NEW w \in People, NEW r \in OrgRoles,
             AddAccess(h, u, w, r) \/ PatchAccess(h, u, w, r)
      PROVE  RemovalInv'
  <2>1. r \in 0..3 /\ r # 0
    BY <1>1
  <2> QED BY <1>2, <1>3, <1>5, <2>1, BeginChecked DEF AddAccess, PatchAccess
<1>6. ASSUME NEW h \in Handlers, NEW u \in People, NEW w \in People, NEW r \in ProjRoles,
             PutAccess(h, u, w, r)
      PROVE  RemovalInv'
  BY <1>1, <1>2, <1>6, BeginChecked DEF PutAccess
<1>7. ASSUME NEW h \in Handlers, NEW u \in People, NEW w \in People, DeleteAccess(h, u, w)
      PROVE  RemovalInv'
  BY <1>1, <1>2, <1>3, <1>7, BeginChecked DEF DeleteAccess
<1>8. ASSUME NEW h \in Handlers, NEW u \in People, NEW w \in People, DropAccess(h, u, w)
      PROVE  RemovalInv'
  BY <1>1, <1>2, <1>3, <1>8, BeginChecked DEF DropAccess
<1>9. ASSUME NEW h \in Handlers, NEW u \in People, NEW w \in People \cup {NoOne},
             AssignAccess(h, u, w)
      PROVE  RemovalInv'
  BY <1>1, <1>2, <1>3, <1>9, BeginChecked DEF AssignAccess
<1>10. ASSUME NEW h \in Handlers, NEW u \in People, CreateAccess(h, u)
       PROVE  RemovalInv'
  BY <1>1, <1>2, <1>10, BeginChecked DEF CreateAccess
<1>11. ASSUME NEW h \in Handlers, NEW u \in People, DeleteProjectAccess(h, u)
       PROVE  RemovalInv'
  BY <1>1, <1>2, <1>3, <1>11, BeginChecked DEF DeleteProjectAccess
<1>12. ASSUME NEW h \in Handlers, PatchDecide(h) \/ DeleteDecide(h)
       PROVE  RemovalInv'
  <2>1. ASSUME PatchDecide(h) PROVE RemovalInv'
    <3> DEFINE ok == PatchAllowed(ask[h].my, orgRole[ask[h].who], ask[h].role,
                                  Cardinality(Owners))
    <3>1. ok \in BOOLEAN
      BY DEF PatchAllowed
    <3> QED BY <2>1, <3>1, DecideChecked DEF PatchDecide
  <2>2. ASSUME DeleteDecide(h) PROVE RemovalInv'
    <3> DEFINE ok == DeleteAllowed(ask[h].my, orgRole[ask[h].who], ask[h].by = ask[h].who,
                                   Cardinality(Owners))
    <3>1. ok \in BOOLEAN
      BY DEF DeleteAllowed
    <3> QED BY <2>2, <3>1, DecideChecked DEF DeleteDecide
  <2> QED BY <1>12, <2>1, <2>2
<1>13. ASSUME NEW u \in People, CreateOrg(u) PROVE RemovalInv'
  BY <1>13, OrgChecked DEF CreateOrg
<1> QED BY <1>5, <1>6, <1>7, <1>8, <1>9, <1>10, <1>11, <1>12, <1>13, PatchAccessChecked,
           AddChecked, PatchChecked, DeleteChecked, CreateChecked, ProjectChecked,
           DropProjectChecked, PutChecked, CheckChecked, AssignChecked, DeleteRowsChecked,
           UnassignChecked, FailsChecked, RemovalStutter
       DEF MembersNext

LEMMA PlainRemovalStep ==
  ASSUME OwnersInv, RemovalInv, [PlainMembersNext]_memberVars
  PROVE  RemovalInv'
<1>1. /\ {0, 3} \subseteq 0..3 /\ OrgRoles \subseteq 0..3 /\ ProjRoles \subseteq 0..3
      /\ \A r \in OrgRoles : r # 0
  BY MembersAssumption
<1>2. {"add", "patch", "delete", "load-put", "load-drop", "newproject", "load-pproject",
       "load-dproject", "load-assign"} \subseteq Stages
  BY DEF Stages
<1>3. {"add", "patch", "delete", "load-pproject", "load-dproject", "load-assign"}
        \cap (Naming \cup Arriving) = {}
      /\ {"load-put", "load-drop"} \cap Arriving = {}
  BY DEF Naming, Arriving
<1>4. ASSUME NEW h \in Handlers, NEW u \in People, NEW w \in People, NEW r \in OrgRoles,
             LoadOrg(h, "add", u, w, r) \/ LoadOrg(h, "patch", u, w, r)
      PROVE  RemovalInv'
  <2>1. r \in 0..3 /\ r # 0
    BY <1>1
  <2> QED BY <1>2, <1>3, <1>4, <2>1, BeginChecked DEF LoadOrg
<1>5. ASSUME NEW h \in Handlers, NEW u \in People, NEW w \in People, NEW r \in ProjRoles,
             LoadOrg(h, "load-put", u, w, r)
      PROVE  RemovalInv'
  BY <1>1, <1>2, <1>3, <1>5, BeginChecked DEF LoadOrg
<1>6. ASSUME NEW h \in Handlers, NEW u \in People, NEW w \in People,
             LoadOrg(h, "delete", u, w, 0) \/ LoadOrg(h, "load-drop", u, w, 0)
      PROVE  RemovalInv'
  BY <1>1, <1>2, <1>3, <1>6, BeginChecked DEF LoadOrg
<1>7. ASSUME NEW h \in Handlers, NEW u \in People, LoadOrg(h, "newproject", u, u, 3)
      PROVE  RemovalInv'
  BY <1>1, <1>2, <1>7, BeginChecked DEF LoadOrg
<1>8. ASSUME NEW h \in Handlers, NEW u \in People,
             LoadOrg(h, "load-pproject", u, NoOne, 0) \/ LoadOrg(h, "load-dproject", u, NoOne, 0)
      PROVE  RemovalInv'
  BY <1>1, <1>2, <1>3, <1>8, BeginChecked DEF LoadOrg
<1>9. ASSUME NEW h \in Handlers, PlainPatchDecide(h) \/ PlainDeleteDecide(h)
      PROVE  RemovalInv'
  <2>1. ASSUME PlainPatchDecide(h) PROVE RemovalInv'
    <3> DEFINE ok == PlainPatchAllowed(ask[h].my, orgRole[ask[h].who], ask[h].role,
                                       Cardinality(Owners))
    <3>1. ok \in BOOLEAN
      BY DEF PlainPatchAllowed
    <3> QED BY <2>1, <3>1, DecideChecked DEF PlainPatchDecide
  <2>2. ASSUME PlainDeleteDecide(h) PROVE RemovalInv'
    <3> DEFINE ok == PlainDeleteAllowed(ask[h].my, orgRole[ask[h].who],
                                        ask[h].by = ask[h].who, Cardinality(Owners))
    <3>1. ok \in BOOLEAN
      BY DEF PlainDeleteAllowed
    <3> QED BY <2>2, <3>1, DecideChecked DEF PlainDeleteDecide
  <2> QED BY <1>9, <2>1, <2>2
<1>10. ASSUME NEW u \in People, PlainCreateOrg(u) PROVE RemovalInv'
  BY <1>10, OrgChecked DEF PlainCreateOrg, Rest
<1>11. ASSUME NEW h \in Handlers, NEW u \in People, NEW w \in People \cup {NoOne},
              LoadOrg(h, "load-assign", u, w, 0)
       PROVE  RemovalInv'
  BY <1>1, <1>2, <1>3, <1>11, BeginChecked DEF LoadOrg
<1> QED BY <1>4, <1>5, <1>6, <1>7, <1>8, <1>9, <1>10, <1>11, PlainPatchLoadChecked, GoOnChecked,
           PutCheckChecked, AddChecked, PatchChecked, DeleteRowsChecked, UnassignChecked,
           DeleteChecked, CreateChecked, ProjectChecked, DropProjectChecked, PutChecked,
           CheckChecked, AssignChecked, FailsChecked, RemovalStutter
       DEF PlainMembersNext

LEMMA RemovalSuffices == OwnersInv /\ RemovalInv => RemovalComplete
  BY DEF OwnersInv, RemovalInv, TablesAgree, LockHeld, RemovalSoFar, RemovalComplete,
     MembersTypeOK, ProjectRows

LEMMA RemovalInductive == MembersSpec => [](OwnersInv /\ RemovalInv)
<1>1. OwnersInv /\ RemovalInv /\ [MembersNext]_memberVars => OwnersInv' /\ RemovalInv'
  BY MembersStep, RemovalStep
<1> QED BY <1>1, MembersStart, RemovalStart, PTL DEF MembersSpec

LEMMA PlainRemovalInductive == PlainMembersSpec => [](OwnersInv /\ RemovalInv)
<1>1. OwnersInv /\ RemovalInv /\ [PlainMembersNext]_memberVars => OwnersInv' /\ RemovalInv'
  BY PlainMembersStep, PlainRemovalStep
<1> QED BY <1>1, MembersStart, RemovalStart, PTL DEF PlainMembersSpec

\* hDeleteOrgMember of go-1 (orgs.go:368), whose transaction is several statements and a
\* commit: for any number of people and requests, a row about somebody who is no member of the
\* organisation was stored by a request that had checked the membership before the commit,
\* after the statement that would have found the row; no other row is left behind.
THEOREM RemovalSafe == MembersSpec => []RemovalComplete
BY RemovalInductive, RemovalSuffices, PTL

\* deleteOrgMember of go-plain-1: the same, although put and assign check the person a
\* statement after they have read the project, and store a statement after that.
THEOREM PlainRemovalSafe == PlainMembersSpec => []RemovalComplete
BY PlainRemovalInductive, RemovalSuffices, PTL

\* The two formulas for a role in the project, and the two sets of rules for a change of a
\* member, come to the same for the values the tables can have.
LEMMA SameRole ==
  ASSUME NEW org \in 1..3, NEW vis \in {0, 1}, NEW pm \in 0..3
  PROVE  EffRole(org, vis, pm) = EffectiveRole(org, pm, vis)
<1>1. CASE org >= 2
  BY <1>1 DEF EffRole, EffectiveRole
<1>2. CASE org = 1 /\ vis = 0
  BY <1>2 DEF EffRole, EffectiveRole
<1>3. CASE org = 1 /\ vis # 0
  BY <1>3 DEF EffRole, EffectiveRole
<1> QED BY <1>1, <1>2, <1>3

LEMMA SamePatch ==
  ASSUME NEW my \in 2..3, NEW cur \in 0..3, NEW r \in 1..3, r # cur, NEW n
  PROVE  PatchAllowed(my, cur, r, n) <=> PlainPatchAllowed(my, cur, r, n)
BY DEF PatchAllowed, PlainPatchAllowed

LEMMA DecisionsSame ==
  ASSUME OwnersInv, RemovalInv
  PROVE  SameDecisions
<1>1. /\ orgRole \in [People -> 0..3] /\ pmRole \in [People -> 0..3]
      /\ project.vis \in {0, 1} /\ ask \in [Handlers -> Asks]
  BY DEF OwnersInv, RemovalInv, TablesAgree, ProjectRows
<1>2. PICK n : n = Cardinality(Owners)
  OBVIOUS
<1>3. ASSUME NEW u \in People, orgRole[u] # 0
      PROVE  EffRole(orgRole[u], project.vis, pmRole[u])
               = EffectiveRole(orgRole[u], pmRole[u], project.vis)
  <2>1. orgRole[u] \in 1..3 /\ pmRole[u] \in 0..3
    BY <1>1, <1>3
  <2> QED BY <1>1, <2>1, SameRole
<1>4. ASSUME NEW h \in Handlers
      PROVE  ask[h].my \in 0..3 /\ ask[h].role \in 0..3
             /\ (ask[h].at = "patch" => ask[h].role \in 1..3)
             /\ (ask[h].at \in {"patch", "delete"} => orgRole[ask[h].who] \in 0..3)
  <2>1. ask[h].my \in 0..3 /\ ask[h].role \in 0..3
    BY <1>1 DEF Asks
  <2>2. ask[h].at = "patch" => ask[h].role # 0
    BY DEF RemovalInv, Checked
  <2>3. ask[h].at \in {"patch", "delete"} => ask[h].who \in People
    BY DEF OwnersInv
  <2> QED BY <1>1, <2>1, <2>2, <2>3
<1>5. ASSUME NEW h \in Handlers, ask[h].at = "delete", ask[h].my >= 2 \/ ask[h].by = ask[h].who
      PROVE  DeleteAllowed(ask[h].my, orgRole[ask[h].who], ask[h].by = ask[h].who, n)
               <=> PlainDeleteAllowed(ask[h].my, orgRole[ask[h].who], ask[h].by = ask[h].who, n)
  <2>1. ask[h].my \in 0..3 /\ orgRole[ask[h].who] \in 0..3
    BY <1>4, <1>5
  <2> QED BY <1>5, <2>1 DEF DeleteAllowed, PlainDeleteAllowed
<1>6. ASSUME NEW h \in Handlers, ask[h].at = "patch", ask[h].my >= 2,
             ask[h].role # orgRole[ask[h].who]
      PROVE  PatchAllowed(ask[h].my, orgRole[ask[h].who], ask[h].role, n)
               <=> PlainPatchAllowed(ask[h].my, orgRole[ask[h].who], ask[h].role, n)
  <2>1. ask[h].my \in 2..3 /\ orgRole[ask[h].who] \in 0..3 /\ ask[h].role \in 1..3
    BY <1>4, <1>6
  <2> QED BY <1>6, <2>1, SamePatch
<1> QED BY <1>2, <1>3, <1>5, <1>6 DEF SameDecisions

\* effRole (orgs.go) and the rules of hPatchOrgMember and hDeleteOrgMember (orgs.go:301, 368)
\* against effectiveRole, patchOrgMember and deleteOrgMember of go-plain-1: in every state
\* that go-1 can bring the tables to, both decide alike.
THEOREM DecideAlike == MembersSpec => []SameDecisions
<1>1. OwnersInv /\ RemovalInv => SameDecisions
  BY DecisionsSame
<1> QED BY <1>1, RemovalInductive, PTL

\* The same in every state that go-plain-1 can bring them to.
THEOREM PlainDecideAlike == PlainMembersSpec => []SameDecisions
<1>1. OwnersInv /\ RemovalInv => SameDecisions
  BY DecisionsSame
<1> QED BY <1>1, PlainRemovalInductive, PTL

\* What a PATCH writes, and what a step does to the request of somebody else.
LEMMA PatchWrites ==
  ASSUME OwnersInv, RemovalInv, NEW h \in Handlers \ clashes, ask[h].at = "pproject",
         ask'[h].at = "idle", project.there, NEW g \in Handlers,
         PatchProject(g) \/ PlainPatchProject(g)
  PROVE  project'.vis = project.vis \/ project'.name = project.name
<1>1. /\ ask' = [ask EXCEPT ![g] = NoAsk]
      /\ project' = IF Same(g) THEN ask[g].p ELSE project
  BY DEF PatchProject, PlainPatchProject, Finish
<1>2. g = h
  BY <1>1 DEF OwnersInv
<1>3. OneField(h, ask[h].p)
  BY DEF RemovalInv, Checked
<1> QED BY <1>1, <1>2, <1>3 DEF OneField, Same

\* Who creates or deletes the project is not at a PATCH.
LEMMA OthersWrite ==
  ASSUME OwnersInv, NEW h \in Handlers, ask[h].at = "pproject", ask'[h].at = "idle",
         NEW g \in Handlers, Finish(g), ask[g].at \in {"newproject", "dproject"}
  PROVE  FALSE
<1>1. ask' = [ask EXCEPT ![g] = NoAsk] /\ g # h
  BY DEF Finish
<1> QED BY <1>1 DEF OwnersInv

\* hPatchProject of go-1 (projects.go), which writes every column: a PATCH of one field
\* changes another only if a second PATCH was stored between its read and its write.
THEOREM PatchSafe == MembersSpec => PatchKeepsOthers
<1>1. OwnersInv /\ RemovalInv /\ [MembersNext]_memberVars =>
        [\A h \in Handlers \ clashes :
           ask[h].at = "pproject" /\ ask'[h].at = "idle" /\ project.there
           => project'.vis = project.vis \/ project'.name = project.name]_memberVars
  <2> SUFFICES ASSUME OwnersInv, RemovalInv, MembersNext, NEW h \in Handlers \ clashes,
                      ask[h].at = "pproject", ask'[h].at = "idle", project.there
               PROVE  project'.vis = project.vis \/ project'.name = project.name
    OBVIOUS
  <2>1. ASSUME NEW g \in Handlers, CreateProject(g) \/ DeleteProject(g) PROVE FALSE
    BY <2>1, OthersWrite DEF CreateProject, DeleteProject
  <2>2. ASSUME project' # project
        PROVE  \E g \in Handlers : CreateProject(g) \/ DeleteProject(g) \/ PatchProject(g)
    BY <2>2, SMTT(20) DEF MembersNext, CreateOrg, AddAccess, PatchAccess, PutAccess, DeleteAccess,
       DropAccess, AssignAccess, CreateAccess, DeleteProjectAccess, PatchProjectAccess, Begin,
       AddOrgMember, PatchDecide, PatchWrite, DeleteDecide, DeleteRows, Unassign, DeleteWrite,
       PutProjectMember, DeleteProjectMember, AssignCheck, Check, Assign, MemberFails, memberTables
  <2> QED BY <2>1, <2>2, PatchWrites
<1> QED BY <1>1, RemovalInductive, PTL DEF MembersSpec, PatchKeepsOthers

\* patchProject of go-plain-1: the same.
THEOREM PlainPatchSafe == PlainMembersSpec => PatchKeepsOthers
<1>1. OwnersInv /\ RemovalInv /\ [PlainMembersNext]_memberVars =>
        [\A h \in Handlers \ clashes :
           ask[h].at = "pproject" /\ ask'[h].at = "idle" /\ project.there
           => project'.vis = project.vis \/ project'.name = project.name]_memberVars
  <2> SUFFICES ASSUME OwnersInv, RemovalInv, PlainMembersNext, NEW h \in Handlers \ clashes,
                      ask[h].at = "pproject", ask'[h].at = "idle", project.there
               PROVE  project'.vis = project.vis \/ project'.name = project.name
    OBVIOUS
  <2>1. ASSUME NEW g \in Handlers, PlainCreateProject(g) \/ PlainDeleteProject(g) PROVE FALSE
    BY <2>1, OthersWrite DEF PlainCreateProject, PlainDeleteProject
  <2>2. ASSUME project' # project
        PROVE  \E g \in Handlers :
                 PlainCreateProject(g) \/ PlainDeleteProject(g) \/ PlainPatchProject(g)
    <3>1. ASSUME NEW g \in Handlers,
                 \/ \E val \in {0, 1} : \E field \in {"vis", "name"} : PlainPatchLoad(g, field, val)
                 \/ PlainDeleteLoad(g) \/ PlainPutLoad(g) \/ PlainPutCheck(g) \/ PlainDropLoad(g)
                 \/ PlainAssignLoad(g) \/ PlainAssignCheck(g)
          PROVE  project' = project
      BY <3>1 DEF PlainPatchLoad, PlainDeleteLoad, PlainPutLoad, PlainPutCheck, PlainDropLoad,
         PlainAssignLoad, PlainAssignCheck, Check, GoOn, memberTables
    <3>2. ASSUME NEW g \in Handlers,
                 \/ PlainAdd(g) \/ PlainPatchDecide(g) \/ PlainPatchWrite(g)
                 \/ PlainDeleteDecide(g) \/ PlainDeleteRows(g) \/ PlainUnassignInOrg(g)
                 \/ PlainDeleteWrite(g) \/ PlainPut(g) \/ PlainDrop(g) \/ PlainAssign(g)
                 \/ MemberFails(g)
          PROVE  project' = project
      BY <3>2 DEF PlainAdd, PlainPatchDecide, PlainPatchWrite, PlainDeleteDecide,
         PlainDeleteRows, PlainUnassignInOrg, PlainDeleteWrite, PlainPut, PlainDrop, PlainAssign,
         MemberFails, memberTables
    <3>3. ASSUME NEW g \in Handlers, NEW at, NEW by, NEW who, NEW role,
                 LoadOrg(g, at, by, who, role)
          PROVE  project' = project
      BY <3>3 DEF LoadOrg, Begin, memberTables
    <3>4. ASSUME NEW u \in People, PlainCreateOrg(u) PROVE project' = project
      BY <3>4 DEF PlainCreateOrg
    <3> QED BY <2>2, <3>1, <3>2, <3>3, <3>4 DEF PlainMembersNext
  <2> QED BY <2>1, <2>2, PatchWrites
<1> QED BY <1>1, PlainRemovalInductive, PTL DEF PlainMembersSpec, PatchKeepsOthers

HIDE DEF HoldsOrg, Removing

-----------------------------------------------------------------------------
(* Sessions.                                                                *)

SessionReqs ==
  [at : {"idle", "mark", "probe", "reuse", "swap", "locked", "update"},
   tok : 0..MaxTokens, rows : SUBSET Tokens, held : SUBSET Tokens]

\* The tables have their types.
RowTypes ==
  /\ users \subseteq Users
  /\ made \in 0..MaxTokens
  /\ chainOf \in [Tokens -> 0..MaxTokens] /\ parent \in [Tokens -> 0..MaxTokens]
  /\ used \subseteq Made /\ revoked \subseteq Made /\ expired \subseteq Made
  /\ broken \subseteq Made /\ dead \subseteq Made
  /\ errors \in 0..MaxErrors

\* A request names tokens that exist.
ReqTypes ==
  /\ req \in [Clients -> SessionReqs]
  /\ \A c \in Clients :
       /\ req[c].tok <= made /\ (req[c].at \notin {"idle", "update"} => req[c].tok # 0)
       /\ req[c].rows \subseteq Made /\ req[c].held \subseteq Made

\* A chain is named by its first token; a token descends from a spent one of its chain.
Lineage ==
  \A t \in Made :
    /\ chainOf[t] \in 1..t /\ chainOf[chainOf[t]] = chainOf[t]
    /\ parent[t] < t
    /\ parent[t] # 0 => parent[t] \in used /\ chainOf[parent[t]] = chainOf[t]

\* Two tokens of a chain are not both good.
OneLive ==
  \A s, t \in Made : chainOf[s] = chainOf[t] /\ Live(s) /\ Live(t) => s = t

\* No token of a dead chain is good.
DeadRevoked == \A t \in Made : chainOf[t] \in dead => t \in revoked

\* What both trackers keep of the tables.
TablesInv == RowTypes /\ Lineage /\ SingleUse /\ OneLive /\ DeadRevoked

\* go-1: an exchange under way has spent the last token of its chain, alone.
Marks ==
  \A c \in Clients : req[c].at = "mark" =>
    /\ req[c].tok \in used
    /\ \A s \in Made : parent[s] # req[c].tok
    /\ \A s \in Made : chainOf[s] = chainOf[req[c].tok] => ~ Live(s)
    /\ chainOf[req[c].tok] \notin dead
    /\ \A d \in Clients :
         req[d].at = "mark" /\ chainOf[req[d].tok] = chainOf[req[c].tok] => c = d

SessionInv ==
  /\ TablesInv /\ ReqTypes /\ Marks /\ SpentForSuccessor
  /\ made + Promised <= MaxTokens

\* go-plain-1: no two transactions hold a row; the row of an exchange under way is good.
Swaps ==
  /\ \A c \in Clients :
       /\ req[c].at # "mark"
       /\ req[c].at # "update" => req[c].rows = {}
       /\ req[c].at = "update" => req[c].rows \cup req[c].held # {}
       /\ req[c].at \in {"swap", "locked"} => req[c].held = {req[c].tok}
       /\ req[c].at = "swap" => Live(req[c].tok)
  /\ \A c, d \in Clients : c # d => req[c].held \cap req[d].held = {}

PlainInv ==
  /\ TablesInv /\ ReqTypes /\ Swaps /\ SpentForSuccessor
  /\ made + InsertsPromised <= MaxTokens

-----------------------------------------------------------------------------
(* Sets of at most one element, and of one element more or less. *)

LEMMA AtMostOne ==
  ASSUME NEW S, \A x, y \in S : x = y
  PROVE  IsFiniteSet(S) /\ Cardinality(S) \in 0..1 /\ (S = {} => Cardinality(S) = 0)
<1>1. CASE S = {}
  BY <1>1, FS_EmptySet
<1>2. CASE S # {}
  <2>1. PICK x : x \in S
    BY <1>2
  <2>2. S = {x}
    BY <2>1
  <2> QED BY <1>2, <2>2, FS_Singleton
<1> QED BY <1>1, <1>2

LEMMA OneMore ==
  ASSUME NEW S, NEW T, IsFiniteSet(S), NEW x, T \subseteq S \cup {x}
  PROVE  /\ Cardinality(S) \in Nat /\ Cardinality(T) \in Nat
         /\ Cardinality(T) <= Cardinality(S) + 1
<1>0. Cardinality(S) \in Nat
  BY FS_CardinalityType
<1>1. IsFiniteSet(S \cup {x}) /\ Cardinality(S \cup {x}) <= Cardinality(S) + 1
  <2>1. CASE x \in S
    <3>1. S \cup {x} = S
      BY <2>1
    <3> QED BY <1>0, <3>1
  <2>2. CASE x \notin S
    <3>1. IsFiniteSet(S \cup {x}) /\ Cardinality(S \cup {x}) = Cardinality(S) + 1
      BY <2>2, FS_AddElement, Zenon
    <3> QED BY <1>0, <3>1
  <2> QED BY <2>1, <2>2
<1>2. IsFiniteSet(T) /\ Cardinality(T) <= Cardinality(S \cup {x})
  BY <1>1, FS_Subset
<1> QED BY <1>1, <1>2, FS_CardinalityType

LEMMA OneLess ==
  ASSUME NEW S, NEW T, IsFiniteSet(S), NEW x \in S, T \subseteq S \ {x}
  PROVE  /\ Cardinality(S) \in Nat /\ Cardinality(T) \in Nat
         /\ Cardinality(T) + 1 <= Cardinality(S)
<1>1. IsFiniteSet(S \ {x}) /\ Cardinality(S \ {x}) = Cardinality(S) - 1
  BY FS_RemoveElement
<1>2. IsFiniteSet(T) /\ Cardinality(T) <= Cardinality(S \ {x})
  BY <1>1, FS_Subset
<1> QED BY <1>1, <1>2, FS_CardinalityType

LEMMA NoMore ==
  ASSUME NEW S, NEW T, IsFiniteSet(S), T \subseteq S
  PROVE  Cardinality(S) \in Nat /\ Cardinality(T) \in Nat /\ Cardinality(T) <= Cardinality(S)
BY FS_Subset, FS_CardinalityType

-----------------------------------------------------------------------------
(* The invariants imply what the runs check. *)

LEMMA InvSuffices ==
  ASSUME TablesInv, ReqTypes, Marks, SpentForSuccessor
  PROVE  ChainsSound /\ DeadStaysDead
<1> USE SessionAssumption
<1>1. SessionTypeOK
  <2>1. \A c \in Clients :
          /\ req[c].at \in {"idle", "mark", "probe", "reuse", "swap", "locked", "update"}
          /\ req[c].tok \in 0..made /\ (req[c].at \notin {"idle", "update"} => req[c].tok # 0)
          /\ req[c].rows \cup req[c].held \subseteq Made
    BY DEF ReqTypes, SessionReqs, TablesInv, RowTypes
  <2> QED BY <2>1 DEF TablesInv, RowTypes, Lineage, SessionTypeOK
<1>2. ASSUME NEW ch \in Made
      PROVE  Cardinality({t \in Chain(ch) : Live(t)}) + Cardinality(Exchanging(ch)) <= 1
  <2> DEFINE A == {t \in Chain(ch) : Live(t)}
             B == Exchanging(ch)
  <2>1. \A x, y \in A : x = y
    BY DEF TablesInv, OneLive, Chain
  <2>2. \A x, y \in B : x = y
    BY DEF Marks, Exchanging
  <2>3. A = {} \/ B = {}
    BY DEF Marks, Exchanging, Chain
  <2>4. Cardinality(A) \in 0..1 /\ (A = {} => Cardinality(A) = 0)
    BY <2>1, AtMostOne
  <2>5. Cardinality(B) \in 0..1 /\ (B = {} => Cardinality(B) = 0)
    BY <2>2, AtMostOne
  <2> HIDE DEF A, B
  <2>6. Cardinality(A) + Cardinality(B) <= 1
    BY <2>3, <2>4, <2>5
  <2> QED BY <2>6 DEF A, B
<1>3. DeadStaysDead
  BY DEF DeadStaysDead, TablesInv, DeadRevoked, RowTypes, Marks, Chain, Exchanging
<1> QED BY <1>1, <1>2, <1>3 DEF ChainsSound, NoFork, TablesInv

-----------------------------------------------------------------------------
(* What the statements do to the tables, in either tracker. *)

\* A statement that writes no row of refresh_tokens.
LEMMA TablesKept ==
  ASSUME TablesInv, UNCHANGED <<made, chainOf, used, revoked, broken, dead, parent>>,
         users' \subseteq Users, expired' \subseteq Made, errors' \in 0..MaxErrors
  PROVE  TablesInv'
BY DEF TablesInv, RowTypes, Lineage, SingleUse, OneLive, DeadRevoked, Made, Live

\* The INSERT of a token, for a login or in exchange for a token without successor.
LEMMA Inserted ==
  ASSUME TablesInv, NEW ch, NEW from, Insert(ch, from), made < MaxTokens,
         UNCHANGED <<users, revoked, expired, broken, dead, errors>>,
         \/ from = 0 /\ ch = made + 1 /\ used' = used
         \/ /\ from \in Made /\ ch = chainOf[from] /\ used' = used \cup {from}
            /\ ch \notin dead
            /\ \A s \in Made : parent[s] # from
            /\ \A s \in Made : chainOf[s] = ch => ~ Live(s) \/ s = from
  PROVE  TablesInv'
<1> USE SessionAssumption
<1>1. /\ made' = made + 1 /\ made \in Nat /\ made + 1 \in Tokens /\ Made' = Made \cup {made + 1}
      /\ ch \in 1..(made + 1)
  <2>1. made' = made + 1 /\ made \in Nat /\ made + 1 \in 1..MaxTokens
    BY DEF TablesInv, RowTypes, Insert
  <2>2. Made' = Made \cup {made + 1}
    BY <2>1 DEF Made
  <2>3. ch \in 1..(made + 1)
    <3>1. CASE from = 0 /\ ch = made + 1
      BY <2>1, <3>1
    <3>2. CASE from \in Made /\ ch = chainOf[from]
      <4>1. from \in 1..made /\ ch \in 1..from
        BY <3>2 DEF TablesInv, Lineage, Made
      <4> QED BY <2>1, <4>1
    <3> QED BY <3>1, <3>2
  <2> QED BY <2>1, <2>2, <2>3 DEF Tokens
<1>2. RowTypes'
  <2>1. from \in 0..MaxTokens /\ ch \in 0..MaxTokens /\ used' \subseteq Made
    <3>1. ch \in 0..MaxTokens
      BY <1>1
    <3>2. from \in 0..made /\ (from # 0 => from \in Made)
      BY <1>1 DEF Made
    <3>3. used' \subseteq Made
      BY <3>2 DEF TablesInv, RowTypes
    <3> QED BY <1>1, <3>1, <3>2, <3>3
  <2>2. chainOf' \in [Tokens -> 0..MaxTokens] /\ parent' \in [Tokens -> 0..MaxTokens]
    BY <2>1 DEF TablesInv, RowTypes, Insert
  <2>3. made' \in 0..MaxTokens
    BY <1>1
  <2> QED BY <1>1, <2>1, <2>2, <2>3 DEF TablesInv, RowTypes
<1>3. /\ chainOf'[made + 1] = ch /\ parent'[made + 1] = from
      /\ \A t \in Made : t # made + 1 /\ chainOf'[t] = chainOf[t] /\ parent'[t] = parent[t]
  BY <1>1 DEF TablesInv, RowTypes, Insert, Made, Tokens
<1>4. used \subseteq used'
  OBVIOUS
<1>5. Lineage'
  <2>1. ASSUME NEW t \in Made
        PROVE  /\ chainOf'[t] \in 1..t /\ chainOf'[chainOf'[t]] = chainOf'[t]
               /\ parent'[t] < t
               /\ parent'[t] # 0 => parent'[t] \in used' /\ chainOf'[parent'[t]] = chainOf'[t]
    <3>1. /\ chainOf[t] \in Made /\ chainOf[t] \in 1..t /\ chainOf[chainOf[t]] = chainOf[t]
          /\ parent[t] < t
          /\ parent[t] # 0 => parent[t] \in used /\ chainOf[parent[t]] = chainOf[t]
      BY DEF TablesInv, Lineage, RowTypes, Made
    <3>2. used \subseteq Made
      BY DEF TablesInv, RowTypes
    <3> QED BY <1>3, <1>4, <3>1, <3>2
  <2>2. /\ ch \in 1..(made + 1) /\ chainOf'[ch] = ch
        /\ from < made + 1
        /\ from # 0 => from \in used' /\ chainOf'[from] = ch
    BY <1>1, <1>3 DEF TablesInv, Lineage, Made
  <2> QED BY <1>1, <1>3, <2>1, <2>2 DEF Lineage
<1>6. SingleUse'
  <2>1. \A s \in Made : from # 0 => parent[s] # from
    BY DEF TablesInv, Lineage
  <2> QED BY <1>1, <1>3, <2>1 DEF TablesInv, SingleUse
<1>7. OneLive'
  <2>1. \A s \in Made : chainOf[s] # made + 1
    BY <1>1 DEF TablesInv, Lineage, Made
  <2>2. \A s \in Made : chainOf[s] = ch => ~ Live(s)'
    BY <2>1 DEF Live
  <2>3. \A s \in Made : Live(s)' => Live(s)
    BY <1>4 DEF Live
  <2> QED BY <1>1, <1>3, <2>2, <2>3 DEF TablesInv, OneLive
<1>8. DeadRevoked'
  <2>1. made + 1 \notin dead
    BY <1>1 DEF TablesInv, RowTypes, Made
  <2> QED BY <1>1, <1>3, <2>1 DEF TablesInv, DeadRevoked
<1> QED BY <1>2, <1>5, <1>6, <1>7, <1>8 DEF TablesInv

\* A token is marked.
LEMMA Marked ==
  ASSUME TablesInv, NEW t \in Made, used' = used \cup {t},
         UNCHANGED <<users, made, chainOf, revoked, expired, errors, parent, broken, dead>>
  PROVE  TablesInv'
BY DEF TablesInv, RowTypes, Lineage, SingleUse, OneLive, DeadRevoked, Made, Live

\* Rows are revoked; a chain counts as dead only when all of its rows are.
LEMMA Revoked ==
  ASSUME TablesInv, NEW R \in SUBSET Made, NEW ch \in Made, revoked' = revoked \cup R,
         \/ dead' = dead
         \/ dead' = dead \cup {ch} /\ Chain(ch) \subseteq R,
         UNCHANGED <<users, made, chainOf, used, expired, errors, parent, broken>>
  PROVE  TablesInv'
<1>1. RowTypes' /\ Lineage' /\ SingleUse'
  BY DEF TablesInv, RowTypes, Lineage, SingleUse, Made
<1>2. OneLive'
  BY DEF TablesInv, OneLive, Made, Live
<1>3. DeadRevoked'
  BY DEF TablesInv, DeadRevoked, Made, Chain
<1> QED BY <1>1, <1>2, <1>3 DEF TablesInv

\* A request moves on.
LEMMA ReqMoves ==
  ASSUME RowTypes, RowTypes', made <= made', ReqTypes, NEW c \in Clients, NEW k \in SessionReqs,
         req' = [req EXCEPT ![c] = k],
         k.tok <= made', k.at \notin {"idle", "update"} => k.tok # 0,
         k.rows \subseteq Made', k.held \subseteq Made'
  PROVE  ReqTypes'
<1>1. req' \in [Clients -> SessionReqs] /\ req'[c] = k
      /\ \A d \in Clients : d # c => req'[d] = req[d]
  BY DEF ReqTypes
<1>2. Made \subseteq Made'
  BY SessionAssumption DEF RowTypes, Made
<1>3. \A d \in Clients : req[d].tok \in Nat
  BY SessionAssumption DEF ReqTypes, SessionReqs
<1>4. \A d \in Clients : req[d].tok <= made'
  BY SessionAssumption, <1>3 DEF ReqTypes, RowTypes
<1> QED BY <1>1, <1>2, <1>4 DEF ReqTypes

\* The token of a request is one of its chain.
LEMMA ReqNames ==
  ASSUME TablesInv, ReqTypes, NEW c \in Clients, req[c].at \notin {"idle", "update"}
  PROVE  req[c].tok \in Made /\ req[c].tok \in Tokens /\ chainOf[req[c].tok] \in Made
<1>1. req[c].tok \in 1..made /\ made \in 0..MaxTokens
  BY SessionAssumption DEF TablesInv, RowTypes, ReqTypes, SessionReqs
<1>2. req[c].tok \in Made /\ req[c].tok \in Tokens
  BY <1>1, SessionAssumption DEF Made, Tokens
<1>3. chainOf[req[c].tok] \in 1..req[c].tok
  BY <1>2 DEF TablesInv, Lineage
<1> QED BY <1>1, <1>2, <1>3 DEF Made

\* The records a request takes on.
LEMMA ReqRecords ==
  /\ Idle \in SessionReqs /\ Idle.at = "idle" /\ Idle.tok = 0
  /\ Idle.rows = {} /\ Idle.held = {}
  /\ \A where \in {"mark", "probe", "reuse"}, t \in Tokens :
       /\ At(where, t) \in SessionReqs /\ At(where, t).at = where /\ At(where, t).tok = t
       /\ At(where, t).rows = {} /\ At(where, t).held = {}
  /\ \A where \in {"swap", "locked"}, t \in Tokens :
       /\ Holding(where, t) \in SessionReqs /\ Holding(where, t).at = where
       /\ Holding(where, t).tok = t
       /\ Holding(where, t).rows = {} /\ Holding(where, t).held = {t}
<1> USE SessionAssumption
<1>1. /\ Idle \in SessionReqs /\ Idle.at = "idle" /\ Idle.tok = 0
      /\ Idle.rows = {} /\ Idle.held = {}
  BY DEF SessionReqs, Idle
<1>3. ASSUME NEW where \in {"mark", "probe", "reuse"}, NEW t \in Tokens
      PROVE  /\ At(where, t) \in SessionReqs /\ At(where, t).at = where /\ At(where, t).tok = t
             /\ At(where, t).rows = {} /\ At(where, t).held = {}
  BY DEF SessionReqs, Tokens, At
<1>4. ASSUME NEW where \in {"swap", "locked"}, NEW t \in Tokens
      PROVE  /\ Holding(where, t) \in SessionReqs /\ Holding(where, t).at = where
             /\ Holding(where, t).tok = t
             /\ Holding(where, t).rows = {} /\ Holding(where, t).held = {t}
  <2>1. Holding(where, t) = [at |-> where, tok |-> t, rows |-> {}, held |-> {t}]
    BY DEF Holding, At
  <2> QED BY <2>1 DEF SessionReqs, Tokens
<1> QED BY <1>1, <1>3, <1>4

-----------------------------------------------------------------------------
(* The tracker go-1. *)

Marking == {c \in Clients : req[c].at = "mark"}

\* Statements beside the exchanges: they spend no token and store none.
LEMMA BesideExchanges ==
  ASSUME SessionInv, TablesInv', ReqTypes',
         UNCHANGED <<made, chainOf, used, parent, broken>>, revoked \subseteq revoked',
         \A d \in Clients : req'[d].at = "mark" <=> req[d].at = "mark",
         \A d \in Clients : req[d].at = "mark" =>
           req'[d].tok = req[d].tok /\ chainOf[req[d].tok] \notin dead'
  PROVE  SessionInv'
<1>1. Marks'
  BY DEF SessionInv, Marks, Made, Live
<1>2. SpentForSuccessor'
  BY DEF SessionInv, SpentForSuccessor, Made
<1>3. Marking' = Marking
  BY DEF Marking
<1>4. made' + Promised' <= MaxTokens
  BY <1>3 DEF SessionInv, Promised, Marking
<1> QED BY <1>1, <1>2, <1>4 DEF SessionInv

\* ... and in particular what moves a request that is not at an exchange.
LEMMA AsideKeeps ==
  ASSUME SessionInv, TablesInv', NEW c \in Clients, req[c].at # "mark", NEW k \in SessionReqs,
         req' = [req EXCEPT ![c] = k], k.at # "mark",
         k.tok \in Made \/ (k.tok = 0 /\ k.at = "idle"), k.rows = {}, k.held = {},
         UNCHANGED <<made, chainOf, used, parent, broken>>, revoked \subseteq revoked',
         \A d \in Clients : req[d].at = "mark" => chainOf[req[d].tok] \notin dead'
  PROVE  SessionInv'
<1>1. RowTypes /\ RowTypes' /\ ReqTypes /\ made \in Nat
  BY DEF SessionInv, TablesInv, RowTypes
<1>2. ReqTypes'
  <2>1. k.tok <= made' /\ made <= made' /\ k.rows \subseteq Made' /\ k.held \subseteq Made'
    BY <1>1 DEF Made
  <2>2. k.at \notin {"idle", "update"} => k.tok # 0
    BY <1>1 DEF Made
  <2> QED BY <1>1, <2>1, <2>2, ReqMoves
<1>3. /\ \A d \in Clients : req'[d].at = "mark" <=> req[d].at = "mark"
      /\ \A d \in Clients : req[d].at = "mark" => req'[d].tok = req[d].tok
  BY <1>1 DEF ReqTypes
<1> QED BY <1>2, <1>3, BesideExchanges

LEMMA RegisterKeeps ==
  ASSUME SessionInv, NEW u \in Users, Register(u)
  PROVE  SessionInv'
<1>1. /\ UNCHANGED <<made, chainOf, used, revoked, expired, req, errors, parent, broken, dead>>
      /\ users' = users \cup {u}
  BY DEF Register, past
<1>2. TablesInv'
  BY <1>1, TablesKept DEF SessionInv, TablesInv, RowTypes
<1>3. ReqTypes'
  BY <1>1 DEF SessionInv, ReqTypes, Made
<1> QED BY <1>1, <1>2, <1>3, BesideExchanges DEF SessionInv, Marks

LEMMA ExpireKeeps ==
  ASSUME SessionInv, NEW t \in Tokens, Expire(t)
  PROVE  SessionInv'
<1>1. /\ UNCHANGED <<users, made, chainOf, used, revoked, req, errors, parent, broken, dead>>
      /\ expired' = expired \cup {t} /\ t \in Made
  BY DEF Expire, past
<1>2. TablesInv'
  BY <1>1, TablesKept DEF SessionInv, TablesInv, RowTypes
<1>3. ReqTypes'
  BY <1>1 DEF SessionInv, ReqTypes, Made
<1> QED BY <1>1, <1>2, <1>3, BesideExchanges DEF SessionInv, Marks

\* Revoking a chain disturbs no exchange: the chain of one is not dead yet.
LEMMA RevokeKeeps ==
  ASSUME SessionInv, NEW ch \in Made, Revoke(ch),
         UNCHANGED <<users, made, chainOf, used, expired, errors, parent, broken>>
  PROVE  /\ TablesInv' /\ revoked \subseteq revoked'
         /\ \A d \in Clients : req[d].at = "mark" => chainOf[req[d].tok] \notin dead'
<1>1. Chain(ch) \in SUBSET Made
  BY DEF Chain
<1>2. TablesInv'
  BY <1>1, Revoked DEF Revoke, SessionInv
<1>3. \A d \in Clients : req[d].at = "mark" => chainOf[req[d].tok] \notin dead'
  BY DEF Revoke, Exchanging, SessionInv, Marks
<1> QED BY <1>2, <1>3 DEF Revoke

LEMMA LogoutKeeps ==
  ASSUME SessionInv, NEW t \in Tokens, Logout(t)
  PROVE  SessionInv'
<1>1. chainOf[t] \in Made
  BY SessionAssumption DEF Logout, SessionInv, TablesInv, Lineage, RowTypes, Made
<1>2. /\ TablesInv' /\ revoked \subseteq revoked'
      /\ \A d \in Clients : req[d].at = "mark" => chainOf[req[d].tok] \notin dead'
  BY <1>1, RevokeKeeps DEF Logout
<1>3. ReqTypes' /\ UNCHANGED <<made, chainOf, used, req, parent, broken>>
  BY DEF SessionInv, ReqTypes, Made, Logout
<1> QED BY <1>2, <1>3, BesideExchanges

LEMMA ProbeKeeps ==
  ASSUME SessionInv, NEW c \in Clients, Probe(c)
  PROVE  SessionInv'
<1>1. /\ UNCHANGED <<users, made, chainOf, used, revoked, expired, errors, parent, broken, dead>>
      /\ req[c].at = "probe"
  BY DEF Probe, past, table
<1>2. req[c].tok \in Made /\ req[c].tok \in Tokens
  BY <1>1, ReqNames DEF SessionInv
<1>3. PICK k \in SessionReqs :
        /\ req' = [req EXCEPT ![c] = k] /\ k.at # "mark" /\ k.rows = {} /\ k.held = {}
        /\ k.tok \in Made \/ (k.tok = 0 /\ k.at = "idle")
  <2>1. CASE req[c].tok \in used \ revoked
    <3>1. req' = [req EXCEPT ![c] = At("reuse", req[c].tok)]
      BY <2>1 DEF Probe
    <3>2. /\ At("reuse", req[c].tok) \in SessionReqs /\ At("reuse", req[c].tok).at # "mark"
          /\ At("reuse", req[c].tok).tok \in Made
          /\ At("reuse", req[c].tok).rows = {} /\ At("reuse", req[c].tok).held = {}
      BY <1>2, ReqRecords
    <3> QED BY <3>1, <3>2
  <2>2. CASE req[c].tok \notin used \ revoked
    <3>1. req' = [req EXCEPT ![c] = Idle]
      BY <2>2 DEF Probe
    <3>2. Idle \in SessionReqs /\ Idle.at # "mark" /\ Idle.rows = {} /\ Idle.held = {}
          /\ Idle.tok = 0 /\ Idle.at = "idle"
      BY ReqRecords
    <3> QED BY <3>1, <3>2
  <2> QED BY <2>1, <2>2
<1>4. TablesInv'
  BY <1>1, TablesKept DEF SessionInv, TablesInv, RowTypes
<1>5. \A d \in Clients : req[d].at = "mark" => chainOf[req[d].tok] \notin dead'
  BY <1>1 DEF SessionInv, Marks
<1> QED BY <1>1, <1>3, <1>4, <1>5, AsideKeeps

LEMMA ReuseKeeps ==
  ASSUME SessionInv, NEW c \in Clients, Reuse(c) \/ ReuseFails(c)
  PROVE  SessionInv'
<1>1. /\ req' = [req EXCEPT ![c] = Idle] /\ req[c].at = "reuse"
      /\ UNCHANGED <<users, made, chainOf, used, expired, parent, broken>>
  BY DEF Reuse, ReuseFails, table
<1>3. chainOf[req[c].tok] \in Made
  BY <1>1, ReqNames DEF SessionInv
<1>4. /\ TablesInv' /\ revoked \subseteq revoked'
      /\ \A d \in Clients : req[d].at = "mark" => chainOf[req[d].tok] \notin dead'
  <2>1. CASE Reuse(c)
    BY <1>3, <2>1, RevokeKeeps DEF Reuse
  <2>2. CASE ReuseFails(c)
    <3>1. /\ UNCHANGED <<users, made, chainOf, used, revoked, expired, parent, broken, dead>>
          /\ errors' \in 0..MaxErrors
      BY <2>2, SessionAssumption DEF ReuseFails, table, Fails, SessionInv, TablesInv, RowTypes
    <3>2. TablesInv'
      BY <3>1, TablesKept DEF SessionInv, TablesInv, RowTypes
    <3> QED BY <3>1, <3>2 DEF SessionInv, Marks
  <2> QED BY <2>1, <2>2
<1>5. /\ Idle \in SessionReqs /\ Idle.at # "mark" /\ Idle.rows = {} /\ Idle.held = {}
      /\ Idle.tok = 0 /\ Idle.at = "idle"
  BY ReqRecords
<1> QED BY <1>1, <1>4, <1>5, AsideKeeps

\* The rows that exist keep their chain and their parent.
LEMMA InsertFacts ==
  ASSUME TablesInv, NEW ch, NEW from, Insert(ch, from), made < MaxTokens
  PROVE  /\ made \in Nat /\ made' = made + 1 /\ made + 1 \in Tokens
         /\ Made' = Made \cup {made + 1} /\ made + 1 \notin Made
         /\ chainOf'[made + 1] = ch /\ parent'[made + 1] = from
         /\ \A t \in Made : chainOf'[t] = chainOf[t] /\ parent'[t] = parent[t]
<1> USE SessionAssumption
<1>1. made \in Nat /\ made' = made + 1 /\ made + 1 \in Tokens
  BY DEF TablesInv, RowTypes, Insert, Tokens
<1>2. Made' = Made \cup {made + 1} /\ made + 1 \notin Made
  BY <1>1 DEF Made
<1>3. \A t \in Made : t \in Tokens /\ t # made + 1
  BY <1>1 DEF Made, Tokens
<1> QED BY <1>1, <1>2, <1>3 DEF TablesInv, RowTypes, Insert

\* A login starts a chain beside the others.
LEMMA LoginKeeps ==
  ASSUME SessionInv, NEW u \in Users, Login(u)
  PROVE  SessionInv'
<1>1. Cardinality(Marking) \in Nat /\ IsFiniteSet(Marking)
  BY SessionAssumption, FS_Subset, FS_CardinalityType DEF Marking
<1>2. /\ Insert(made + 1, 0)
      /\ UNCHANGED <<users, used, revoked, expired, req, errors, broken, dead>>
      /\ made + Cardinality(Marking) < MaxTokens
  BY DEF Login, Promised, Marking
<1>3. made \in Nat /\ made < MaxTokens
  BY <1>1, <1>2, SessionAssumption DEF SessionInv, TablesInv, RowTypes
<1>4. TablesInv'
  BY <1>2, <1>3, Inserted DEF SessionInv
<1>5. /\ made' = made + 1 /\ Made' = Made \cup {made + 1} /\ made + 1 \notin Made
      /\ chainOf'[made + 1] = made + 1 /\ parent'[made + 1] = 0
      /\ \A t \in Made : chainOf'[t] = chainOf[t] /\ parent'[t] = parent[t]
  BY <1>2, <1>3, InsertFacts DEF SessionInv
<1>6. ReqTypes'
  <2>1. \A d \in Clients : req[d].tok \in Nat
    BY SessionAssumption DEF SessionInv, ReqTypes, SessionReqs
  <2>2. \A d \in Clients : req[d].tok <= made'
    BY <1>3, <1>5, <2>1 DEF SessionInv, ReqTypes
  <2> QED BY <1>2, <1>5, <2>2 DEF SessionInv, ReqTypes
<1>7. Marks'
  <2>1. \A d \in Clients : req[d].at = "mark" =>
          req[d].tok \in Made /\ chainOf[req[d].tok] \in Made /\ req[d].tok # 0
    BY ReqNames DEF SessionInv, ReqTypes
  <2>2. \A s \in Made : Live(s)' <=> Live(s)
    BY <1>2 DEF Live
  <2>3. \A d \in Clients : req[d].at = "mark" =>
          /\ \A s \in Made' : parent'[s] # req[d].tok
          /\ \A s \in Made' : chainOf'[s] = chainOf[req[d].tok] => ~ Live(s)'
    BY <1>5, <2>1, <2>2 DEF SessionInv, Marks
  <2> QED BY <1>2, <1>5, <2>1, <2>3 DEF SessionInv, Marks
<1>8. SpentForSuccessor'
  <2>1. used \subseteq Made
    BY DEF SessionInv, TablesInv, RowTypes
  <2> QED BY <1>2, <1>5, <2>1 DEF SessionInv, SpentForSuccessor
<1>9. made' + Promised' <= MaxTokens
  <2>1. Marking' = Marking
    BY <1>2 DEF Marking
  <2> QED BY <1>1, <1>2, <1>3, <1>5, <2>1, SessionAssumption DEF Promised, Marking
<1> QED BY <1>4, <1>6, <1>7, <1>8, <1>9 DEF SessionInv

\* The first statement of a refresh: it spends the good token of its chain, or none.
LEMMA RefreshKeeps ==
  ASSUME SessionInv, NEW c \in Clients, NEW t \in Tokens, Refresh(c, t)
  PROVE  SessionInv'
<1>1. /\ req[c].at = "idle" /\ t \in Made
      /\ UNCHANGED <<users, made, chainOf, revoked, expired, errors, parent, broken, dead>>
      /\ made + Promised < MaxTokens
  BY DEF Refresh, past
<1>2. CASE ~ Exchangeable(t)
  <2>1. req' = [req EXCEPT ![c] = At("probe", t)] /\ used' = used
    BY <1>2 DEF Refresh
  <2>2. TablesInv'
    BY <1>1, <2>1, TablesKept DEF SessionInv, TablesInv, RowTypes
  <2>3. /\ At("probe", t) \in SessionReqs /\ At("probe", t).at # "mark"
        /\ At("probe", t).tok \in Made /\ At("probe", t).rows = {} /\ At("probe", t).held = {}
    BY <1>1, ReqRecords
  <2>4. \A d \in Clients : req[d].at = "mark" => chainOf[req[d].tok] \notin dead'
    BY <1>1 DEF SessionInv, Marks
  <2> QED BY <1>1, <2>1, <2>2, <2>3, <2>4, AsideKeeps
<1>3. CASE Exchangeable(t)
  <2>1. PICK k \in SessionReqs :
          req' = [req EXCEPT ![c] = k] /\ k.at = "mark" /\ k.tok = t /\ k.rows = {} /\ k.held = {}
    <3>1. req' = [req EXCEPT ![c] = At("mark", t)]
      BY <1>3 DEF Refresh
    <3>2. /\ At("mark", t) \in SessionReqs /\ At("mark", t).at = "mark"
          /\ At("mark", t).tok = t /\ At("mark", t).rows = {} /\ At("mark", t).held = {}
      BY ReqRecords
    <3> QED BY <3>1, <3>2
  <2>2. used' = used \cup {t} /\ Live(t) /\ t \notin used
    BY <1>3 DEF Refresh, Exchangeable, Live
  <2>3. TablesInv'
    BY <1>1, <2>2, Marked DEF SessionInv
  <2>4. ReqTypes'
    <3>1. made \in Nat /\ RowTypes /\ RowTypes' /\ ReqTypes /\ Made' = Made
      BY <1>1, <2>3 DEF SessionInv, TablesInv, RowTypes, Made
    <3>2. k.tok <= made' /\ made <= made' /\ k.tok # 0
      BY <1>1, <2>1, <3>1 DEF Made
    <3> QED BY <2>1, <3>1, <3>2, ReqMoves
  <2>5. req'[c] = k /\ \A d \in Clients : d # c => req'[d] = req[d]
    BY <2>1 DEF SessionInv, ReqTypes
  <2>6. \A d \in Clients : req[d].at = "mark" => chainOf[req[d].tok] # chainOf[t]
    BY <1>1, <2>2 DEF SessionInv, Marks
  <2>7. \A s \in Made : /\ Live(s)' => Live(s)
                        /\ chainOf[s] = chainOf[t] => ~ Live(s)'
    BY <1>1, <2>2 DEF SessionInv, TablesInv, OneLive, Live
  <2>8. \A s \in Made : parent[s] # t
    BY <1>1, <2>2 DEF SessionInv, TablesInv, Lineage, Made
  <2>9. chainOf[t] \notin dead
    BY <1>1, <2>2 DEF SessionInv, TablesInv, DeadRevoked, Live
  <2>10. Marks'
    <3>1. Made' = Made
      BY <1>1 DEF Made
    <3>2. ASSUME NEW d \in Clients, req'[d].at = "mark"
          PROVE  /\ req'[d].tok \in used'
                 /\ \A s \in Made : parent[s] # req'[d].tok
                 /\ \A s \in Made : chainOf[s] = chainOf[req'[d].tok] => ~ Live(s)'
                 /\ chainOf[req'[d].tok] \notin dead
      BY <2>1, <2>2, <2>5, <2>7, <2>8, <2>9, <3>2 DEF SessionInv, Marks
    <3>3. ASSUME NEW d \in Clients, NEW e \in Clients, req'[d].at = "mark", req'[e].at = "mark",
                 chainOf[req'[e].tok] = chainOf[req'[d].tok]
          PROVE  d = e
      BY <2>1, <2>5, <2>6, <3>3 DEF SessionInv, Marks
    <3> QED BY <1>1, <3>1, <3>2, <3>3 DEF Marks
  <2>11. SpentForSuccessor'
    BY <1>1, <2>1, <2>2, <2>5 DEF SessionInv, SpentForSuccessor, Made
  <2>12. made' + Promised' <= MaxTokens
    <3>1. Marking' \subseteq Marking \cup {c} /\ IsFiniteSet(Marking)
      BY <2>5, SessionAssumption, FS_Subset DEF Marking
    <3>2. /\ Cardinality(Marking) \in Nat /\ Cardinality(Marking') \in Nat
          /\ Cardinality(Marking') <= Cardinality(Marking) + 1
      BY <3>1, OneMore
    <3>3. made + Cardinality(Marking) < MaxTokens /\ made \in Nat
      BY <1>1 DEF Promised, Marking, SessionInv, TablesInv, RowTypes
    <3> QED BY <1>1, <3>2, <3>3, SessionAssumption DEF Promised, Marking
  <2> QED BY <2>3, <2>4, <2>10, <2>11, <2>12 DEF SessionInv
<1> QED BY <1>2, <1>3

\* An exchange ends: nobody else is at one of its chain.
LEMMA ExchangeEnds ==
  ASSUME SessionInv, NEW c \in Clients, req[c].at = "mark", req' = [req EXCEPT ![c] = Idle]
  PROVE  /\ req'[c].at = "idle" /\ \A d \in Clients : d # c => req'[d] = req[d]
         /\ \A d \in Clients : req'[d].at = "mark" =>
              /\ d # c /\ req[d].at = "mark" /\ chainOf[req[d].tok] # chainOf[req[c].tok]
         /\ Cardinality(Marking) \in Nat /\ Cardinality(Marking') \in Nat
         /\ Cardinality(Marking') + 1 <= Cardinality(Marking)
<1>1. req'[c] = Idle /\ Idle.at = "idle" /\ \A d \in Clients : d # c => req'[d] = req[d]
  BY ReqRecords DEF SessionInv, ReqTypes
<1>2. \A d \in Clients : req'[d].at = "mark" =>
        /\ d # c /\ req[d].at = "mark" /\ chainOf[req[d].tok] # chainOf[req[c].tok]
  BY <1>1 DEF SessionInv, Marks
<1>3. c \in Marking /\ Marking' \subseteq Marking \ {c} /\ IsFiniteSet(Marking)
  BY <1>1, <1>2, SessionAssumption, FS_Subset DEF Marking
<1> QED BY <1>1, <1>2, <1>3, OneLess

\* newPair stores the successor of the token an exchange has spent.
LEMMA NewPairKeeps ==
  ASSUME SessionInv, NEW c \in Clients, NewPair(c)
  PROVE  SessionInv'
<1> DEFINE t == req[c].tok
<1>1. /\ req[c].at = "mark" /\ Insert(chainOf[t], t) /\ req' = [req EXCEPT ![c] = Idle]
      /\ UNCHANGED <<users, used, revoked, expired, errors, broken, dead>>
  BY DEF NewPair
<1>2. /\ t \in Made /\ t \in Tokens /\ chainOf[t] \in Made
  BY <1>1, ReqNames DEF SessionInv
<1>3. /\ t \in used /\ chainOf[t] \notin dead
      /\ \A s \in Made : parent[s] # t
      /\ \A s \in Made : chainOf[s] = chainOf[t] => ~ Live(s)
  BY <1>1 DEF SessionInv, Marks
<1> HIDE DEF t
<1>4. /\ req'[c].at = "idle" /\ \A d \in Clients : d # c => req'[d] = req[d]
      /\ \A d \in Clients : req'[d].at = "mark" =>
           /\ d # c /\ req[d].at = "mark" /\ chainOf[req[d].tok] # chainOf[t]
      /\ Cardinality(Marking) \in Nat /\ Cardinality(Marking') \in Nat
      /\ Cardinality(Marking') + 1 <= Cardinality(Marking)
  BY <1>1, ExchangeEnds DEF t
<1>5. made \in Nat /\ made < MaxTokens /\ made + Cardinality(Marking) <= MaxTokens
  BY <1>4, SessionAssumption DEF SessionInv, TablesInv, RowTypes, Promised, Marking
<1>6. TablesInv'
  <2>1. used' = used \cup {t}
    BY <1>1, <1>3
  <2> QED BY <1>1, <1>2, <1>3, <1>5, <2>1, Inserted DEF SessionInv
<1>7. /\ made' = made + 1 /\ Made' = Made \cup {made + 1} /\ made + 1 \notin Made
      /\ chainOf'[made + 1] = chainOf[t] /\ parent'[made + 1] = t
      /\ \A s \in Made : chainOf'[s] = chainOf[s] /\ parent'[s] = parent[s]
  BY <1>1, <1>5, InsertFacts DEF SessionInv
<1>8. ReqTypes'
  <2>1. /\ Idle \in SessionReqs /\ Idle.rows = {} /\ Idle.held = {}
        /\ Idle.tok = 0 /\ Idle.at = "idle"
    BY ReqRecords
  <2>2. Idle.tok <= made' /\ made <= made'
    BY <1>5, <1>7, <2>1
  <2>3. RowTypes /\ RowTypes' /\ ReqTypes
    BY <1>6 DEF SessionInv, TablesInv
  <2> QED BY <1>1, <2>1, <2>2, <2>3, ReqMoves
<1>9. Marks'
  <2>1. \A d \in Clients : req[d].at = "mark" => req[d].tok \in Made
    BY ReqNames DEF SessionInv
  <2>2. \A s \in Made : Live(s)' <=> Live(s)
    BY <1>1 DEF Live
  <2>3. ASSUME NEW d \in Clients, req'[d].at = "mark"
        PROVE  /\ req'[d].tok \in used' /\ req'[d].tok = req[d].tok /\ req[d].tok \in Made
               /\ \A s \in Made' : parent'[s] # req[d].tok
               /\ \A s \in Made' : chainOf'[s] = chainOf[req[d].tok] => ~ Live(s)'
               /\ chainOf[req[d].tok] \notin dead'
    BY <1>1, <1>4, <1>7, <2>1, <2>2, <2>3 DEF SessionInv, Marks
  <2>4. ASSUME NEW d \in Clients, NEW e \in Clients, req'[d].at = "mark", req'[e].at = "mark",
               chainOf[req[e].tok] = chainOf[req[d].tok]
        PROVE  d = e
    BY <1>4, <2>4 DEF SessionInv, Marks
  <2> QED BY <1>7, <2>3, <2>4 DEF Marks
<1>10. SpentForSuccessor'
  <2>1. ASSUME NEW s \in used
        PROVE  \/ \E r \in Made' : parent'[r] = s /\ chainOf'[r] = chainOf'[s]
               \/ \E d \in Clients : req'[d].at = "mark" /\ req'[d].tok = s
               \/ s \in broken'
    <3>1. s \in Made
      BY DEF SessionInv, TablesInv, RowTypes
    <3>2. CASE s = t
      BY <1>2, <1>7, <3>2
    <3>3. CASE s # t
      BY <1>1, <1>4, <1>7, <3>1, <3>3 DEF SessionInv, SpentForSuccessor, t
    <3> QED BY <3>2, <3>3
  <2> QED BY <1>1, <2>1 DEF SpentForSuccessor
<1>11. made' + Promised' <= MaxTokens
  BY <1>4, <1>5, <1>7, SessionAssumption DEF Promised, Marking
<1> QED BY <1>6, <1>8, <1>9, <1>10, <1>11 DEF SessionInv

\* newPair fails: the chain is left without a good token.
LEMMA NewPairFailsKeeps ==
  ASSUME SessionInv, NEW c \in Clients, NewPairFails(c)
  PROVE  SessionInv'
<1>1. /\ req[c].at = "mark" /\ req' = [req EXCEPT ![c] = Idle]
      /\ broken' = broken \cup {req[c].tok} /\ errors' \in 0..MaxErrors
      /\ UNCHANGED <<users, made, chainOf, used, revoked, expired, parent, dead>>
  BY SessionAssumption DEF NewPairFails, Fails, table, SessionInv, TablesInv, RowTypes
<1>2. req[c].tok \in Made /\ Made' = Made
  BY <1>1, ReqNames DEF SessionInv, Made
<1>3. TablesInv'
  BY <1>1, <1>2 DEF SessionInv, TablesInv, RowTypes, Lineage, SingleUse, OneLive, DeadRevoked, Live
<1>4. /\ req'[c].at = "idle" /\ \A d \in Clients : d # c => req'[d] = req[d]
      /\ \A d \in Clients : req'[d].at = "mark" => d # c /\ req[d].at = "mark"
      /\ Cardinality(Marking) \in Nat /\ Cardinality(Marking') \in Nat
      /\ Cardinality(Marking') + 1 <= Cardinality(Marking)
  BY <1>1, ExchangeEnds
<1>5. ReqTypes'
  <2>1. /\ Idle \in SessionReqs /\ Idle.rows = {} /\ Idle.held = {}
        /\ Idle.tok = 0 /\ Idle.at = "idle"
    BY ReqRecords
  <2>2. RowTypes /\ RowTypes' /\ ReqTypes /\ Idle.tok <= made' /\ made <= made'
    BY <1>1, <1>3, <2>1 DEF SessionInv, TablesInv, RowTypes
  <2> QED BY <1>1, <2>1, <2>2, ReqMoves
<1>6. Marks'
  <2>1. \A s \in Made : Live(s)' <=> Live(s)
    BY <1>1 DEF Live
  <2> QED BY <1>1, <1>2, <1>4, <2>1 DEF SessionInv, Marks
<1>7. SpentForSuccessor'
  BY <1>1, <1>2, <1>4 DEF SessionInv, SpentForSuccessor
<1>8. made' + Promised' <= MaxTokens
  BY <1>1, <1>4, SessionAssumption DEF Promised, Marking, SessionInv, TablesInv, RowTypes
<1> QED BY <1>3, <1>5, <1>6, <1>7, <1>8 DEF SessionInv

LEMMA NoTokens ==
  ASSUME SessionInit
  PROVE  SessionInv /\ PlainInv
<1> USE SessionAssumption
<1>1. /\ made = 0 /\ Made = {} /\ used = {} /\ req \in [Clients -> SessionReqs]
      /\ \A c \in Clients : req[c] = Idle
  BY ReqRecords DEF SessionInit, Made
<1>2. TablesInv
  BY <1>1 DEF SessionInit, TablesInv, RowTypes, Lineage, SingleUse, OneLive, DeadRevoked
<1>3. ReqTypes /\ Marks /\ Swaps
  BY <1>1, ReqRecords DEF ReqTypes, Marks, Swaps
<1>4. {c \in Clients : req[c].at = "mark"} = {} /\ {c \in Clients : req[c].at = "swap"} = {}
  BY <1>1, ReqRecords
<1>5. Promised = 0 /\ InsertsPromised = 0
  BY <1>4, FS_EmptySet DEF Promised, InsertsPromised
<1> QED BY <1>1, <1>2, <1>3, <1>5 DEF SessionInv, PlainInv, SpentForSuccessor

\* The invariant of go-1 is inductive.
LEMMA SessionInductive == SessionSpec => []SessionInv
<1>1. SessionInit => SessionInv
  BY NoTokens
<1>2. SessionInv /\ [SessionNext]_sessionVars => SessionInv'
  <2> SUFFICES ASSUME SessionInv, [SessionNext]_sessionVars
               PROVE  SessionInv'
    OBVIOUS
  <2>1. CASE UNCHANGED sessionVars
    <3>1. UNCHANGED <<users, made, chainOf, used, revoked, expired, req, errors, parent,
                      broken, dead>>
      BY <2>1 DEF sessionVars, table, past
    <3>2. TablesInv' /\ ReqTypes'
      BY <3>1, TablesKept DEF SessionInv, TablesInv, RowTypes, ReqTypes, Made
    <3> QED BY <3>1, <3>2, BesideExchanges DEF SessionInv, Marks
  <2>2. ASSUME NEW u \in Users, Register(u) \/ Login(u)
        PROVE  SessionInv'
    BY <2>2, RegisterKeeps, LoginKeeps
  <2>3. ASSUME NEW t \in Tokens, Logout(t) \/ Expire(t)
        PROVE  SessionInv'
    BY <2>3, LogoutKeeps, ExpireKeeps
  <2>4. ASSUME NEW c \in Clients, NEW t \in Tokens, Refresh(c, t)
        PROVE  SessionInv'
    BY <2>4, RefreshKeeps
  <2>5. ASSUME NEW c \in Clients,
               NewPair(c) \/ NewPairFails(c) \/ Probe(c) \/ Reuse(c) \/ ReuseFails(c)
        PROVE  SessionInv'
    BY <2>5, NewPairKeeps, NewPairFailsKeeps, ProbeKeeps, ReuseKeeps
  <2> QED BY <2>1, <2>2, <2>3, <2>4, <2>5 DEF SessionNext
<1> QED BY <1>1, <1>2, PTL DEF SessionSpec

\* auth.go of go-1 (hLogin:279, hRefresh:334): whatever the requests do at the same time, a
\* refresh token is exchanged once, a chain never has two good tokens, and a token is spent
\* for its successor unless the statement that stores the successor fails.
THEOREM SessionChains == SessionSpec => []ChainsSound
<1>1. SessionInv => ChainsSound
  BY InvSuffices DEF SessionInv
<1> QED BY <1>1, SessionInductive, PTL

\* auth.go of go-1 (hLogout:373 and the reuse branch of hRefresh:362): a chain revoked while
\* no exchange of it was on stays revoked.
THEOREM SessionDead == SessionSpec => []DeadStaysDead
<1>1. SessionInv => DeadStaysDead
  BY InvSuffices DEF SessionInv
<1> QED BY <1>1, SessionInductive, PTL

-----------------------------------------------------------------------------
(* The tracker go-plain-1. *)

Swapping == {c \in Clients : req[c].at = "swap"}

\* A step that stores no token and moves at most one request.
LEMMA PlainMoves ==
  ASSUME PlainInv, TablesInv', NEW c \in Clients, NEW k \in SessionReqs,
         req' = [req EXCEPT ![c] = k],
         UNCHANGED <<made, chainOf, used, parent, broken>>,
         k.tok \in Made \/ (k.tok = 0 /\ k.at \in {"idle", "update"}),
         k.rows \subseteq Made, k.held \subseteq Made,
         k.at # "mark", k.at # "update" => k.rows = {},
         k.at = "update" => k.rows \cup k.held # {},
         k.at \in {"swap", "locked"} => k.held = {k.tok},
         k.at = "swap" => k.tok \notin used' \cup revoked' /\ made + InsertsPromised < MaxTokens,
         \A d \in Clients \ {c} : k.held \cap req[d].held = {},
         \A d \in Clients \ {c} : req[d].at = "swap" => req[d].tok \notin used' \cup revoked'
  PROVE  PlainInv'
<1>1. /\ RowTypes /\ RowTypes' /\ ReqTypes /\ made \in Nat /\ Made' = Made
  BY DEF PlainInv, TablesInv, RowTypes, Made
<1>2. req'[c] = k /\ \A d \in Clients : d # c => req'[d] = req[d]
  BY <1>1 DEF ReqTypes
<1>3. ReqTypes'
  <2>1. k.tok <= made' /\ made <= made' /\ (k.at \notin {"idle", "update"} => k.tok # 0)
    BY <1>1 DEF Made
  <2> QED BY <1>1, <2>1, ReqMoves
<1>4. Swaps'
  <2>1. ASSUME NEW d \in Clients
        PROVE  /\ req'[d].at # "mark"
               /\ req'[d].at # "update" => req'[d].rows = {}
               /\ req'[d].at = "update" => req'[d].rows \cup req'[d].held # {}
               /\ req'[d].at \in {"swap", "locked"} => req'[d].held = {req'[d].tok}
               /\ req'[d].at = "swap" => req'[d].tok \notin used' \cup revoked'
    <3>1. CASE d = c
      BY <1>2, <3>1 DEF Live
    <3>2. CASE d # c
      BY <1>2, <3>2 DEF PlainInv, Swaps, Live
    <3> QED BY <3>1, <3>2
  <2>2. ASSUME NEW d \in Clients, NEW e \in Clients, d # e
        PROVE  req'[d].held \cap req'[e].held = {}
    BY <1>2, <2>2 DEF PlainInv, Swaps
  <2> QED BY <2>1, <2>2 DEF Swaps, Live
<1>5. SpentForSuccessor'
  <2>1. \A d \in Clients : req[d].at # "mark"
    BY DEF PlainInv, Swaps
  <2> QED BY <1>1, <2>1 DEF PlainInv, SpentForSuccessor
<1>6. made' + InsertsPromised' <= MaxTokens
  <2>1. IsFiniteSet(Swapping)
    BY SessionAssumption, FS_Subset DEF Swapping
  <2>2. CASE k.at = "swap"
    <3>1. Swapping' \subseteq Swapping \cup {c}
      BY <1>2 DEF Swapping
    <3>2. /\ Cardinality(Swapping) \in Nat /\ Cardinality(Swapping') \in Nat
          /\ Cardinality(Swapping') <= Cardinality(Swapping) + 1
      BY <2>1, <3>1, OneMore
    <3>3. made + Cardinality(Swapping) < MaxTokens
      BY <2>2 DEF InsertsPromised, Swapping
    <3> QED BY <1>1, <3>2, <3>3, SessionAssumption DEF InsertsPromised, Swapping
  <2>3. CASE k.at # "swap"
    <3>1. Swapping' \subseteq Swapping
      BY <1>2, <2>3 DEF Swapping
    <3>2. /\ Cardinality(Swapping) \in Nat /\ Cardinality(Swapping') \in Nat
          /\ Cardinality(Swapping') <= Cardinality(Swapping)
      BY <2>1, <3>1, NoMore
    <3>3. made + Cardinality(Swapping) <= MaxTokens
      BY DEF PlainInv, InsertsPromised, Swapping
    <3> QED BY <1>1, <3>2, <3>3, SessionAssumption DEF InsertsPromised, Swapping
  <2> QED BY <2>2, <2>3
<1> QED BY <1>3, <1>4, <1>5, <1>6 DEF PlainInv

\* Steps that leave the requests alone and neither spend, revoke nor store a token.
LEMMA PlainAside ==
  ASSUME PlainInv, TablesInv',
         UNCHANGED <<made, chainOf, used, revoked, req, parent, broken>>
  PROVE  PlainInv'
<1>1. Made' = Made
  BY DEF Made
<1>2. ReqTypes' /\ Swaps'
  BY <1>1 DEF PlainInv, ReqTypes, Swaps, Live
<1>3. SpentForSuccessor' /\ made' + InsertsPromised' <= MaxTokens
  BY <1>1 DEF PlainInv, SpentForSuccessor, InsertsPromised
<1> QED BY <1>2, <1>3 DEF PlainInv

\* The transaction of a request ends without a write.
LEMMA PlainEnds ==
  ASSUME PlainInv, NEW c \in Clients, req' = [req EXCEPT ![c] = Idle],
         errors' \in 0..MaxErrors, UNCHANGED <<table, past>>
  PROVE  PlainInv'
<1>1. UNCHANGED <<users, made, chainOf, used, revoked, expired, parent, broken, dead>>
  BY DEF table, past
<1>2. TablesInv'
  BY <1>1, TablesKept DEF PlainInv, TablesInv, RowTypes
<1>3. /\ Idle \in SessionReqs /\ Idle.at = "idle" /\ Idle.tok = 0
      /\ Idle.rows = {} /\ Idle.held = {}
  BY ReqRecords
<1>4. \A d \in Clients \ {c} : req[d].at = "swap" => req[d].tok \notin used' \cup revoked'
  BY <1>1 DEF PlainInv, Swaps, Live
<1> QED BY <1>1, <1>2, <1>3, <1>4, PlainMoves

\* register, and the passing of time.
LEMMA PlainRegisterKeeps ==
  ASSUME PlainInv, \/ \E u \in Users : PlainRegister(u)
                   \/ \E t \in Tokens : Expire(t)
  PROVE  PlainInv'
<1>1. /\ UNCHANGED <<made, chainOf, used, revoked, req, errors, parent, broken, dead>>
      /\ users' \subseteq Users /\ expired' \subseteq Made
  BY DEF PlainRegister, Expire, past, PlainInv, TablesInv, RowTypes
<1>2. TablesInv'
  BY <1>1, TablesKept DEF PlainInv, TablesInv, RowTypes
<1> QED BY <1>1, <1>2, PlainAside

\* refresh locks the row of its token, which is nobody else's then.
LEMMA PlainRefreshKeeps ==
  ASSUME PlainInv, NEW c \in Clients, NEW t \in Tokens, PlainRefresh(c, t)
  PROVE  PlainInv'
<1>1. /\ t \in Made /\ ~ Locked(c, t) /\ made + InsertsPromised < MaxTokens
      /\ UNCHANGED <<users, made, chainOf, used, revoked, expired, errors, parent, broken, dead>>
  BY DEF PlainRefresh, table, past
<1>2. TablesInv'
  BY <1>1, TablesKept DEF PlainInv, TablesInv, RowTypes
<1>3. CASE UNCHANGED req
  BY <1>1, <1>2, <1>3, PlainAside
<1>4. ASSUME NEW where \in {"swap", "locked"}, req' = [req EXCEPT ![c] = Holding(where, t)],
             where = "swap" => t \notin used \cup revoked
      PROVE  PlainInv'
  <2>1. PICK k \in SessionReqs : /\ req' = [req EXCEPT ![c] = k] /\ k.at = where
                                 /\ k.tok = t /\ k.rows = {} /\ k.held = {t}
    <3>1. /\ Holding(where, t) \in SessionReqs /\ Holding(where, t).at = where
          /\ Holding(where, t).tok = t
          /\ Holding(where, t).rows = {} /\ Holding(where, t).held = {t}
      BY ReqRecords
    <3> QED BY <1>4, <3>1
  <2>2. \A d \in Clients \ {c} : k.held \cap req[d].held = {}
    BY <1>1, <2>1 DEF Locked
  <2>3. \A d \in Clients \ {c} : req[d].at = "swap" => req[d].tok \notin used' \cup revoked'
    BY <1>1 DEF PlainInv, Swaps, Live
  <2>4. k.at = "swap" => k.tok \notin used' \cup revoked' /\ made + InsertsPromised < MaxTokens
    BY <1>1, <1>4, <2>1
  <2> QED BY <1>1, <1>2, <2>1, <2>2, <2>3, <2>4, PlainMoves
<1>5. \/ UNCHANGED req
      \/ req' = [req EXCEPT ![c] = Holding("locked", t)]
      \/ req' = [req EXCEPT ![c] = Holding("swap", t)] /\ t \notin used \cup revoked
  <2>1. CASE t \in used
    BY <2>1 DEF PlainRefresh, Exchangeable
  <2>2. CASE Exchangeable(t)
    BY <2>2 DEF PlainRefresh, Exchangeable
  <2>3. CASE t \notin used /\ ~ Exchangeable(t)
    BY <2>3 DEF PlainRefresh
  <2> QED BY <2>1, <2>2, <2>3
<1> QED BY <1>3, <1>4, <1>5

\* refresh of a spent token, and logout, begin to revoke the chain.
LEMMA PlainRevokingKeeps ==
  ASSUME PlainInv, NEW c \in Clients,
         PlainReuse(c) \/ \E t \in Tokens : PlainLogout(c, t)
  PROVE  PlainInv'
<1>1. UNCHANGED <<users, made, chainOf, used, revoked, expired, errors, parent, broken, dead>>
  BY DEF PlainReuse, PlainLogout, table, past
<1>2. TablesInv'
  BY <1>1, TablesKept DEF PlainInv, TablesInv, RowTypes
<1>3. Made \subseteq Tokens /\ req[c] \in SessionReqs /\ Tokens \subseteq 0..MaxTokens
  BY SessionAssumption DEF PlainInv, TablesInv, RowTypes, ReqTypes, Made, Tokens
<1>4. PICK ch \in Made, tok \in Made \cup {0}, mine \in SUBSET Made :
        /\ req' = [req EXCEPT ![c] = Revoking(ch, tok, mine)]
        /\ Chain(ch) # {}
        /\ mine = {} \/ mine = req[c].held
  <2>1. CASE PlainReuse(c)
    <3>1. req[c].tok \in Made /\ chainOf[req[c].tok] \in Made /\ req[c].held \in SUBSET Made
      BY <2>1, ReqNames DEF PlainInv, PlainReuse, ReqTypes
    <3>2. req[c].tok \in Chain(chainOf[req[c].tok])
      BY <3>1 DEF Chain
    <3>3. req' = [req EXCEPT ![c] = Revoking(chainOf[req[c].tok], req[c].tok, req[c].held)]
      BY <2>1 DEF PlainReuse, PlainInv, ReqTypes
    <3> QED BY <3>1, <3>2, <3>3
  <2>2. ASSUME NEW t \in Tokens, PlainLogout(c, t)
        PROVE  \E ch \in Made : req' = [req EXCEPT ![c] = Revoking(ch, 0, {})] /\ Chain(ch) # {}
    <3>1. t \in Made /\ chainOf[t] \in Made
      BY <2>2, SessionAssumption DEF PlainLogout, PlainInv, TablesInv, RowTypes, Lineage, Made
    <3>2. t \in Chain(chainOf[t])
      BY <3>1 DEF Chain
    <3> QED BY <2>2, <3>1, <3>2 DEF PlainLogout
  <2> QED BY <2>1, <2>2
<1> DEFINE k == Revoking(ch, tok, mine)
<1>5. /\ k \in SessionReqs /\ k.at = "update" /\ k.tok = tok
      /\ k.rows = Chain(ch) \ mine /\ k.held = mine
  <2>1. Chain(ch) \ mine \in SUBSET Tokens /\ mine \in SUBSET Tokens /\ tok \in 0..MaxTokens
    <3>1. Chain(ch) \ mine \subseteq Made
      BY DEF Chain
    <3>2. tok \in 0..MaxTokens
      BY <1>3, SessionAssumption
    <3> QED BY <1>3, <3>1, <3>2
  <2> QED BY <2>1 DEF Revoking, SessionReqs
<1>6. req' = [req EXCEPT ![c] = k]
  BY <1>4
<1> HIDE DEF k
<1>7. k.rows \subseteq Made /\ k.held \subseteq Made /\ k.rows \cup k.held # {}
  BY <1>4, <1>5 DEF Chain
<1>8. \A d \in Clients \ {c} : k.held \cap req[d].held = {}
  BY <1>4, <1>5 DEF PlainInv, Swaps
<1>9. \A d \in Clients \ {c} : req[d].at = "swap" => req[d].tok \notin used' \cup revoked'
  BY <1>1 DEF PlainInv, Swaps, Live
<1>10. /\ k.tok \in Made \/ (k.tok = 0 /\ k.at \in {"idle", "update"})
       /\ k.at # "mark" /\ k.at \notin {"swap", "locked"} /\ k.at # "swap"
  BY <1>5
<1> QED BY <1>1, <1>2, <1>5, <1>6, <1>7, <1>8, <1>9, <1>10, PlainMoves

\* The UPDATE of a chain locks one more of its rows.
LEMMA LockRowKeeps ==
  ASSUME PlainInv, NEW c \in Clients, NEW t \in Tokens, LockRow(c, t)
  PROVE  PlainInv'
<1>1. /\ t \in req[c].rows /\ ~ Locked(c, t)
      /\ UNCHANGED <<users, made, chainOf, used, revoked, expired, errors, parent, broken, dead>>
  BY DEF LockRow, table, past
<1>2. TablesInv'
  BY <1>1, TablesKept DEF PlainInv, TablesInv, RowTypes
<1>3. /\ req[c] \in SessionReqs /\ req[c].at = "update"
      /\ req[c].rows \subseteq Made /\ req[c].held \subseteq Made
      /\ req[c].tok \in Made \/ req[c].tok = 0
  <2>1. req[c] \in SessionReqs /\ req[c].rows \subseteq Made /\ req[c].held \subseteq Made
        /\ req[c].tok <= made /\ made \in Nat
    BY DEF PlainInv, ReqTypes, TablesInv, RowTypes
  <2>2. req[c].at = "update"
    BY <1>1 DEF PlainInv, Swaps
  <2> QED BY <2>1, <2>2, SessionAssumption DEF SessionReqs, Made
<1> DEFINE k == [req[c] EXCEPT !.rows = req[c].rows \ {t}, !.held = req[c].held \cup {t}]
<1>4. req' = [req EXCEPT ![c] = k]
  BY DEF LockRow, PlainInv, ReqTypes
<1>5. /\ k \in SessionReqs /\ k.at = "update" /\ k.tok = req[c].tok
      /\ k.rows = req[c].rows \ {t} /\ k.held = req[c].held \cup {t}
  BY <1>3 DEF SessionReqs
<1> HIDE DEF k
<1>6. \A d \in Clients \ {c} : k.held \cap req[d].held = {}
  BY <1>1, <1>5 DEF PlainInv, Swaps, Locked
<1>7. \A d \in Clients \ {c} : req[d].at = "swap" => req[d].tok \notin used' \cup revoked'
  BY <1>1 DEF PlainInv, Swaps, Live
<1>8. /\ k.tok \in Made \/ (k.tok = 0 /\ k.at \in {"idle", "update"})
      /\ k.at # "mark" /\ k.at \notin {"swap", "locked"} /\ k.at # "swap"
  BY <1>3, <1>5
<1>9. k.rows \subseteq Made /\ k.held \subseteq Made /\ k.rows \cup k.held # {}
  BY <1>1, <1>3, <1>5
<1> QED BY <1>1, <1>2, <1>4, <1>5, <1>6, <1>7, <1>8, <1>9, PlainMoves

\* The revocation commits: none of its rows was being exchanged.
LEMMA PlainRevokeKeeps ==
  ASSUME PlainInv, NEW c \in Clients, PlainRevoke(c)
  PROVE  PlainInv'
<1> DEFINE R  == req[c].held
           ch == chainOf[CHOOSE t \in R : TRUE]
<1>1. /\ req[c].at = "update" /\ req[c].rows = {} /\ revoked' = revoked \cup R
      /\ dead' = IF Chain(ch) \subseteq R THEN dead \cup {ch} ELSE dead
      /\ req' = [req EXCEPT ![c] = Idle]
      /\ UNCHANGED <<users, made, chainOf, used, expired, errors, parent, broken>>
  BY DEF PlainRevoke
<1>2. R # {} /\ R \in SUBSET Made
  BY <1>1 DEF PlainInv, Swaps, ReqTypes
<1>3. ch \in Made
  <2>1. (CHOOSE t \in R : TRUE) \in Made
    BY <1>2
  <2> QED BY <2>1, SessionAssumption DEF PlainInv, TablesInv, RowTypes, Lineage, Made
<1>4. \A d \in Clients \ {c} : req[d].at = "swap" => req[d].tok \notin R
  BY DEF PlainInv, Swaps
<1> HIDE DEF R, ch
<1>5. TablesInv'
  BY <1>1, <1>2, <1>3, Revoked DEF PlainInv
<1>6. \A d \in Clients \ {c} : req[d].at = "swap" => req[d].tok \notin used' \cup revoked'
  BY <1>1, <1>4 DEF PlainInv, Swaps, Live
<1>7. /\ Idle \in SessionReqs /\ Idle.at = "idle" /\ Idle.tok = 0
      /\ Idle.rows = {} /\ Idle.held = {}
  BY ReqRecords
<1> QED BY <1>1, <1>5, <1>6, <1>7, PlainMoves

\* login: a chain beside the others.
LEMMA PlainLoginKeeps ==
  ASSUME PlainInv, NEW u \in Users, PlainLogin(u)
  PROVE  PlainInv'
<1>1. Cardinality(Swapping) \in Nat /\ IsFiniteSet(Swapping)
  BY SessionAssumption, FS_Subset, FS_CardinalityType DEF Swapping
<1>2. /\ Insert(made + 1, 0)
      /\ UNCHANGED <<users, used, revoked, expired, req, errors, broken, dead>>
      /\ made + Cardinality(Swapping) < MaxTokens
  BY DEF PlainLogin, InsertsPromised, Swapping
<1>3. made \in Nat /\ made < MaxTokens
  BY <1>1, <1>2, SessionAssumption DEF PlainInv, TablesInv, RowTypes
<1>4. TablesInv'
  BY <1>2, <1>3, Inserted DEF PlainInv
<1>5. /\ made' = made + 1 /\ Made' = Made \cup {made + 1} /\ made + 1 \notin Made
      /\ \A t \in Made : chainOf'[t] = chainOf[t] /\ parent'[t] = parent[t]
  BY <1>2, <1>3, InsertFacts DEF PlainInv
<1>6. ReqTypes'
  <2>1. \A d \in Clients : req[d].tok \in Nat
    BY SessionAssumption DEF PlainInv, ReqTypes, SessionReqs
  <2>2. \A d \in Clients : req[d].tok <= made'
    BY <1>3, <1>5, <2>1 DEF PlainInv, ReqTypes
  <2> QED BY <1>2, <1>5, <2>2 DEF PlainInv, ReqTypes
<1>7. Swaps'
  BY <1>2 DEF PlainInv, Swaps, Live
<1>8. SpentForSuccessor'
  <2>1. used \subseteq Made
    BY DEF PlainInv, TablesInv, RowTypes
  <2> QED BY <1>2, <1>5, <2>1 DEF PlainInv, SpentForSuccessor
<1>9. made' + InsertsPromised' <= MaxTokens
  <2>1. Swapping' = Swapping
    BY <1>2 DEF Swapping
  <2> QED BY <1>1, <1>2, <1>3, <1>5, <2>1, SessionAssumption DEF InsertsPromised, Swapping
<1> QED BY <1>4, <1>6, <1>7, <1>8, <1>9 DEF PlainInv

\* refresh commits: the token it holds was good to the end, and is spent with its successor.
LEMMA PlainCommitKeeps ==
  ASSUME PlainInv, NEW c \in Clients, PlainCommit(c)
  PROVE  PlainInv'
<1> DEFINE t == req[c].tok
<1>1. /\ req[c].at = "swap" /\ used' = used \cup {t} /\ Insert(chainOf[t], t)
      /\ req' = [req EXCEPT ![c] = Idle]
      /\ UNCHANGED <<users, revoked, expired, errors, broken, dead>>
  BY DEF PlainCommit
<1>2. t \in Made /\ chainOf[t] \in Made
  BY <1>1, ReqNames DEF PlainInv
<1>3. /\ Live(t) /\ req[c].held = {t}
      /\ \A d \in Clients : d # c /\ req[d].at = "swap" => req[d].tok # t /\ Live(req[d].tok)
  BY <1>1 DEF PlainInv, Swaps
<1> HIDE DEF t
<1>4. /\ chainOf[t] \notin dead
      /\ \A s \in Made : parent[s] # t
      /\ \A s \in Made : chainOf[s] = chainOf[t] => ~ Live(s) \/ s = t
  <2>1. chainOf[t] \notin dead
    BY <1>2, <1>3 DEF PlainInv, TablesInv, DeadRevoked, Live
  <2>2. \A s \in Made : parent[s] # t
    BY <1>2, <1>3 DEF PlainInv, TablesInv, Lineage, Live, Made
  <2>3. \A s \in Made : chainOf[s] = chainOf[t] => ~ Live(s) \/ s = t
    BY <1>2, <1>3 DEF PlainInv, TablesInv, OneLive
  <2> QED BY <2>1, <2>2, <2>3
<1>5. req'[c] = Idle /\ Idle.at = "idle" /\ \A d \in Clients : d # c => req'[d] = req[d]
  BY <1>1, ReqRecords DEF PlainInv, ReqTypes
<1>6. /\ Cardinality(Swapping) \in Nat /\ Cardinality(Swapping') \in Nat
      /\ Cardinality(Swapping') + 1 <= Cardinality(Swapping)
  <2>1. c \in Swapping /\ Swapping' \subseteq Swapping \ {c} /\ IsFiniteSet(Swapping)
    BY <1>1, <1>5, SessionAssumption, FS_Subset DEF Swapping
  <2> QED BY <2>1, OneLess
<1>7. made \in Nat /\ made < MaxTokens /\ made + Cardinality(Swapping) <= MaxTokens
  BY <1>6, SessionAssumption DEF PlainInv, TablesInv, RowTypes, InsertsPromised, Swapping
<1>8. TablesInv'
  BY <1>1, <1>2, <1>4, <1>7, Inserted DEF PlainInv
<1>9. /\ made' = made + 1 /\ Made' = Made \cup {made + 1} /\ made + 1 \notin Made
      /\ chainOf'[made + 1] = chainOf[t] /\ parent'[made + 1] = t
      /\ \A s \in Made : chainOf'[s] = chainOf[s] /\ parent'[s] = parent[s]
  BY <1>1, <1>7, InsertFacts DEF PlainInv
<1>10. ReqTypes'
  <2>1. /\ Idle \in SessionReqs /\ Idle.rows = {} /\ Idle.held = {}
        /\ Idle.tok = 0 /\ Idle.at = "idle"
    BY ReqRecords
  <2>2. Idle.tok <= made' /\ made <= made'
    BY <1>7, <1>9, <2>1
  <2>3. RowTypes /\ RowTypes' /\ ReqTypes
    BY <1>8 DEF PlainInv, TablesInv
  <2> QED BY <1>1, <2>1, <2>2, <2>3, ReqMoves
<1>11. Swaps'
  <2>1. Idle.rows = {} /\ Idle.held = {}
    BY ReqRecords
  <2>2. \A d \in Clients : req'[d].at = "swap" => req'[d].tok \notin used' \cup revoked'
    BY <1>1, <1>3, <1>5 DEF Live
  <2> QED BY <1>5, <2>1, <2>2 DEF PlainInv, Swaps, Live
<1>12. SpentForSuccessor'
  <2>1. ASSUME NEW s \in used'
        PROVE  \/ \E r \in Made' : parent'[r] = s /\ chainOf'[r] = chainOf'[s]
               \/ s \in broken'
    <3>1. CASE s = t
      BY <1>2, <1>9, <3>1
    <3>2. CASE s # t
      <4>1. s \in used /\ s \in Made /\ \A d \in Clients : req[d].at # "mark"
        BY <1>1, <3>2 DEF PlainInv, TablesInv, RowTypes, Swaps
      <4> QED BY <1>1, <1>9, <4>1 DEF PlainInv, SpentForSuccessor
    <3> QED BY <3>1, <3>2
  <2> QED BY <2>1 DEF SpentForSuccessor
<1>13. made' + InsertsPromised' <= MaxTokens
  BY <1>6, <1>7, <1>9, SessionAssumption DEF InsertsPromised, Swapping
<1> QED BY <1>8, <1>10, <1>11, <1>12, <1>13 DEF PlainInv

\* The invariant of go-plain-1 is inductive.
LEMMA PlainInductive == PlainSessionSpec => []PlainInv
<1>1. SessionInit => PlainInv
  BY NoTokens
<1>2. PlainInv /\ [PlainSessionNext]_sessionVars => PlainInv'
  <2> SUFFICES ASSUME PlainInv, [PlainSessionNext]_sessionVars
               PROVE  PlainInv'
    OBVIOUS
  <2>1. CASE UNCHANGED sessionVars
    <3>1. UNCHANGED <<users, made, chainOf, used, revoked, expired, req, errors, parent,
                      broken, dead>>
      BY <2>1 DEF sessionVars, table, past
    <3>2. TablesInv'
      BY <3>1, TablesKept DEF PlainInv, TablesInv, RowTypes
    <3> QED BY <3>1, <3>2, PlainAside
  <2>2. ASSUME NEW u \in Users, PlainRegister(u) \/ PlainLogin(u)
        PROVE  PlainInv'
    BY <2>2, PlainRegisterKeeps, PlainLoginKeeps
  <2>3. ASSUME NEW t \in Tokens, Expire(t)
        PROVE  PlainInv'
    BY <2>3, PlainRegisterKeeps
  <2>4. ASSUME NEW c \in Clients, NEW t \in Tokens,
               PlainRefresh(c, t) \/ PlainLogout(c, t) \/ LockRow(c, t)
        PROVE  PlainInv'
    BY <2>4, PlainRefreshKeeps, PlainRevokingKeeps, LockRowKeeps
  <2>5. ASSUME NEW c \in Clients, PlainAbort(c) \/ PlainDeadlock(c)
        PROVE  PlainInv'
    <3>1. /\ req' = [req EXCEPT ![c] = Idle] /\ errors' \in 0..MaxErrors
          /\ UNCHANGED <<table, past>>
      BY <2>5, SessionAssumption
         DEF PlainAbort, PlainDeadlock, Fails, PlainInv, TablesInv, RowTypes
    <3> QED BY <3>1, PlainEnds
  <2>6. ASSUME NEW c \in Clients, PlainCommit(c) \/ PlainReuse(c) \/ PlainRevoke(c)
        PROVE  PlainInv'
    BY <2>6, PlainCommitKeeps, PlainRevokingKeeps, PlainRevokeKeeps
  <2> QED BY <2>1, <2>2, <2>3, <2>4, <2>5, <2>6 DEF PlainSessionNext
<1> QED BY <1>1, <1>2, PTL DEF PlainSessionSpec

\* No exchange of go-plain-1 lets go of its row half done.
LEMMA PlainSuffices ==
  ASSUME PlainInv
  PROVE  ChainsSound /\ DeadStaysDead
<1>1. Marks
  BY DEF PlainInv, Swaps, Marks
<1> QED BY <1>1, InvSuffices DEF PlainInv

\* auth.go of go-plain-1 (login:187, refresh:219): the same of the rotation in one
\* transaction that holds the row of its token, under READ COMMITTED.
THEOREM PlainChains == PlainSessionSpec => []ChainsSound
<1>1. PlainInv => ChainsSound
  BY PlainSuffices
<1> QED BY <1>1, PlainInductive, PTL

\* auth.go of go-plain-1 (refresh:219, logout:271): a chain all of whose rows an UPDATE has
\* revoked stays revoked: a rotation that could add to it would hold one of those rows.
THEOREM PlainDead == PlainSessionSpec => []DeadStaysDead
<1>1. PlainInv => DeadStaysDead
  BY PlainSuffices
<1> QED BY <1>1, PlainInductive, PTL

-----------------------------------------------------------------------------
(* The filters of a list.                                                   *)

\* Without empty parts, dropping them changes nothing.
LEMMA NothingDropped ==
  ASSUME NEW q \in NoBlanks
  PROVE  /\ q.project \ {Blank} = q.project /\ q.status \ {Blank} = q.status
         /\ q.label \ {Blank} = q.label /\ (Refused(q) <=> SearchRefused(q))
<1>1. Blank \notin q.project /\ Blank \notin q.status /\ Blank \notin q.label
  BY DEF NoBlanks
<1>2. Refused(q) <=> SearchRefused(q)
  BY <1>1 DEF Refused, SearchRefused
<1> QED BY <1>1, <1>2

\* The projects that the search is about are those of the list.
LEMMA SameProjects ==
  ASSUME NEW a \in Askers, NEW q \in NoBlanks
  PROVE  /\ {p \in Visible(a) : q.project = {} \/ p \in q.project} = Wanted(a, q)
         /\ AllProjects(a, q) => Wanted(a, q) = Projects
BY DEF Wanted, AllProjects, Visible

LEMMA SameAnswers ==
  ASSUME NEW a \in Askers, NEW q \in NoBlanks
  PROVE  \/ ListAnswer(a, q) = SearchAnswer(a, q)
         \/ ListAnswer(a, q) = {} /\ SearchAnswer(a, q) = Invalid /\ Wanted(a, q) = {}
<1> DEFINE Others(x) == /\ q.status = {} \/ x.status \in q.status
                        /\ UserMatch(a, x, q.assignee)
                        /\ q.label = {} \/ x.labels \cap q.label # {}
           L == {x \in Issues : (AllProjects(a, q) \/ x.proj \in Wanted(a, q)) /\ Others(x)}
           S == {x \in Issues : x.proj \in Wanted(a, q) /\ Others(x)}
<1>1. SearchAnswer(a, q) = IF Refused(q) THEN Invalid ELSE S
  BY NothingDropped, SameProjects DEF SearchAnswer
<1>2. ListAnswer(a, q) = IF ~ AllProjects(a, q) /\ Wanted(a, q) = {} THEN {}
                         ELSE IF Refused(q) THEN Invalid ELSE L
  BY DEF ListAnswer
<1>3. L = S
  <2>1. \A x \in Issues : x.proj \in Projects
    BY DEF Issues
  <2> HIDE DEF Others
  <2> QED BY <2>1, SameProjects
<1>4. Wanted(a, q) = {} => S = {}
  OBVIOUS
<1> HIDE DEF L, S
<1> QED BY <1>1, <1>2, <1>3, <1>4

\* What has been answered is what both say of one query.
FilterInv ==
  \/ answers = Unasked
  \/ \E a \in Askers, q \in NoBlanks :
       answers = [list |-> ListAnswer(a, q), search |-> SearchAnswer(a, q), wanted |-> Wanted(a, q)]

\* hListIssues (list.go:55-139) and searchIssues of go-plain-1, for any projects, callers
\* and filters: they list the same issues, but where go-1 answers before it validates.
THEOREM FilterAlike == FilterSpec => []FiltersAgree
<1>1. FilterInit => FilterInv
  BY DEF FilterInit, FilterInv
<1>2. FilterInv /\ [FilterNext]_answers => FilterInv'
  BY DEF FilterInv, FilterNext, Ask
<1>3. FilterInv => FiltersAgree
  BY SameAnswers DEF FilterInv, FiltersAgree, Unasked
<1> QED BY <1>1, <1>2, <1>3, PTL DEF FilterSpec
=============================================================================
