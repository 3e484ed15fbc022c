---------------------------- MODULE IssueProofs ----------------------------
(***************************************************************************)
(* Proofs about issues in both trackers, for any number of requests,       *)
(* comments and versions and any sizes of bulks:                           *)
(*   - the row of an issue agrees with its history and its comments, and   *)
(*     no accepted PATCH is lost (IssueRows);                              *)
(*   - issues are numbered without a gap or a repetition, in the order of  *)
(*     their commits; and a key makes one issue a day, but for the DELETE  *)
(*     of go-1 (IssueNumbers);                                             *)
(*   - newID makes rising ids for every width of its counter, however      *)
(*     often the clock is set back (Identifiers);                          *)
(*   - a walk over the pages of a list shows each row that stays as it is  *)
(*     once and in its place (IssueList).                                  *)
(***************************************************************************)
EXTENDS IssueRows, IssueNumbers, Identifiers, IssueList, SequenceTheorems, FiniteSetTheorems, TLAPS

-----------------------------------------------------------------------------
(***************************************************************************)
(* The row of an issue.  What it stores cannot be shown to be right from   *)
(* step to step without saying that a worker that holds its lock has read  *)
(* the present row (Locks): then the version it writes is the next one.    *)
(***************************************************************************)

\* The row of an issue, and what a worker is at.
IssueRecs == [there : {TRUE, FALSE}, version : 0..MaxVersion, status : 0..2,
              resolved : {TRUE, FALSE}, count : Nat, updated : Nat]
WithIssue   == {"patch", "move", "remove", "comment", "plain-patch", "plain-move"}
WithComment == {"edit", "uncomment"}
Jobs == [at : WithIssue \cup WithComment \cup {"idle", "unassign", "drop"}, read : IssueRecs,
         match : 0..MaxVersion, c : CommentIds \cup {Free}, now : Nat]

RowsTypes ==
  /\ issue \in IssueRecs /\ history \in Nat
  /\ comments \subseteq CommentIds /\ spare \subseteq CommentIds /\ comments \cap spare = {}
  /\ iLock \in Workers \cup {Free} /\ cLock \in [CommentIds -> Workers \cup {Free}]
  /\ job \in [Workers -> Jobs]
  /\ clock \in 0..MaxClock
  /\ wins \in [1..MaxVersion -> Nat]

\* Who holds the row of the issue has read it, and it has not changed since; who holds the row
\* of a comment holds that of an existing one.
Locks ==
  /\ \A w \in Workers : job[w].at \in WithIssue => iLock = w /\ job[w].read = issue /\ issue.there
  /\ \A w \in Workers :
       job[w].at \in WithIssue \ {"remove", "comment"} => issue.version < MaxVersion
  /\ \A w \in Workers : iLock = w => job[w].at \in WithIssue
  /\ \A w \in Workers, c \in CommentIds :
       cLock[c] = w => job[w].at \in WithComment /\ job[w].c = c /\ c \in comments
  /\ \A w \in Workers : job[w].at = "uncomment" => job[w].c \in CommentIds /\ cLock[job[w].c] = w
  /\ \A w \in Workers : job[w].at \in WithComment \cup {"drop"} => job[w].c \in CommentIds

\* The row agrees with what it counts; no PATCH has been accepted for this version or a later one.
Agrees ==
  /\ issue.version = history
  /\ issue.count = Cardinality(comments)
  /\ issue.resolved <=> issue.status = 2
  /\ issue.there => issue.version >= 1 /\ \A v \in 1..MaxVersion : v >= issue.version => wins[v] = 0
  /\ ~ issue.there => comments = {} /\ issue = NoIssue
  /\ \A v \in 1..MaxVersion : wins[v] <= 1

RowsInv == RowsTypes /\ Locks /\ Agrees

\* The records that stand for no issue and no job.
LEMMA NoRecords ==
  /\ NoIssue \in IssueRecs /\ ~ NoIssue.there /\ NoIssue.version = 0 /\ NoIssue.count = 0
  /\ NoIssue.status = 0 /\ ~ NoIssue.resolved
  /\ NoJob \in Jobs /\ NoJob.at = "idle"
<1>1. NoIssue \in IssueRecs
  BY RowsAssumption DEF NoIssue, IssueRecs
<1>2. NoJob \in Jobs
  BY <1>1, RowsAssumption DEF NoJob, Jobs
<1>3. /\ ~ NoIssue.there /\ NoIssue.version = 0 /\ NoIssue.count = 0
      /\ NoIssue.status = 0 /\ ~ NoIssue.resolved /\ NoJob.at = "idle"
  BY DEF NoIssue, NoJob
<1> QED BY <1>1, <1>2, <1>3

\* A transaction ends: what it has changed nobody else has locked.
LEMMA EndKeeps ==
  ASSUME RowsInv, NEW w \in Workers, EndJob(w),
         issue' \in IssueRecs, history' \in Nat,
         issue' = issue \/ iLock \in {Free, w},
         comments' \subseteq CommentIds, spare' \subseteq CommentIds, comments' \cap spare' = {},
         \A c \in comments : cLock[c] \in {Free, w} \/ c \in comments',
         clock' = clock, wins' \in [1..MaxVersion -> Nat]
  PROVE  RowsTypes' /\ Locks'
<1> USE NoRecords, RowsAssumption DEF RowsInv, EndJob
<1>1. RowsTypes'
  BY DEF RowsTypes
<1>2. \A g \in Workers : g # w => job'[g] = job[g]
  BY DEF RowsTypes
<1>3. job'[w].at = "idle"
  BY DEF RowsTypes
<1>4. ASSUME NEW g \in Workers, job'[g].at \in WithIssue
      PROVE  g # w /\ job[g].at \in WithIssue /\ iLock = g /\ iLock' = g /\ issue' = issue
  BY <1>2, <1>3, <1>4 DEF Locks, WithIssue
<1>5. ASSUME NEW g \in Workers, NEW c \in CommentIds, cLock'[c] = g
      PROVE  job'[g].at \in WithComment /\ job'[g].c = c /\ c \in comments'
  <2>1. g # w /\ cLock[c] = g /\ g # Free
    BY <1>5 DEF RowsTypes
  <2> QED BY <2>1, <1>2 DEF Locks
<1>6. ASSUME NEW g \in Workers, job'[g].at \in WithComment \cup {"drop"}
      PROVE  g # w /\ job'[g] = job[g] /\ job'[g].c \in CommentIds
  BY <1>2, <1>3, <1>6 DEF Locks, WithComment
<1>7. \A g \in Workers : job'[g].at = "uncomment" => cLock'[job'[g].c] = g
  BY <1>6 DEF Locks, RowsTypes, WithComment
<1>8. \A g \in Workers : iLock' = g => job'[g].at \in WithIssue
  BY <1>2 DEF Locks, RowsTypes
<1>9. Locks'
  BY <1>2, <1>4, <1>5, <1>6, <1>7, <1>8 DEF Locks, WithComment
<1> QED BY <1>1, <1>9

\* A worker answers without a change.
LEMMA AnswerKeeps ==
  ASSUME RowsInv, NEW w \in Workers, Answer(w)
  PROVE  RowsInv'
<1>1. RowsTypes' /\ Locks'
  BY EndKeeps DEF Answer, RowsInv, RowsTypes
<1>2. Agrees'
  BY DEF RowsInv, Agrees, Answer
<1> QED BY <1>1, <1>2 DEF RowsInv

\* The time goes on.
LEMMA TickKeeps == RowsInv /\ Tick => RowsInv'
  BY DEF RowsInv, RowsTypes, Locks, Agrees, Tick

\* A worker begins; only the lock of the issue or of one comment may be taken with it.
LEMMA JobKeeps ==
  ASSUME RowsInv, NEW w \in Workers, NEW k \in Jobs, job[w].at = "idle",
         job' = [job EXCEPT ![w] = k],
         UNCHANGED <<issue, history, comments, spare, clock, wins>>,
         \/ /\ k.at \in WithIssue /\ k.read = issue /\ issue.there /\ iLock = Free /\ iLock' = w
            /\ k.at \in {"remove", "comment"} \/ issue.version < MaxVersion
            /\ cLock' = cLock
         \/ /\ k.at \in WithComment /\ k.c \in comments /\ cLock[k.c] = Free
            /\ cLock' = [cLock EXCEPT ![k.c] = w] /\ iLock' = iLock
         \/ /\ k.at = "unassign" \/ (k.at \in {"edit", "drop"} /\ k.c \in CommentIds)
            /\ UNCHANGED <<iLock, cLock>>
  PROVE  RowsInv'
<1> USE RowsAssumption DEF RowsInv
<1>0. \A g \in Workers : g # w => job'[g] = job[g]
  BY DEF RowsTypes
<1>1. job'[w] = k /\ iLock # w /\ (\A c \in CommentIds : cLock[c] # w)
  BY DEF RowsTypes, Locks, WithIssue, WithComment
<1>2. RowsTypes'
  BY DEF RowsTypes
<1>3. Agrees'
  BY DEF Agrees
<1>4. ASSUME k.at \in WithIssue, k.read = issue, issue.there, iLock = Free, iLock' = w,
             k.at \in {"remove", "comment"} \/ issue.version < MaxVersion, cLock' = cLock
      PROVE  Locks'
  BY <1>0, <1>1, <1>4 DEF Locks, WithIssue, WithComment
<1>5. ASSUME k.at \in WithComment, k.c \in comments, cLock[k.c] = Free,
             cLock' = [cLock EXCEPT ![k.c] = w], iLock' = iLock
      PROVE  Locks'
  <2>1. k.c \in CommentIds /\ k.at \notin WithIssue
    BY <1>5 DEF RowsTypes, WithIssue, WithComment
  <2>2. \A c \in CommentIds : cLock'[c] = IF c = k.c THEN w ELSE cLock[c]
    BY <1>5, <2>1 DEF RowsTypes
  <2>3. \A g \in Workers : job'[g].at = "uncomment" =>
          job'[g].c \in CommentIds /\ cLock'[job'[g].c] = g
    BY <1>0, <1>1, <1>5, <2>1, <2>2 DEF Locks
  <2>4. \A g \in Workers, c \in CommentIds : cLock'[c] = g =>
          job'[g].at \in WithComment /\ job'[g].c = c /\ c \in comments
    BY <1>0, <1>1, <1>5, <2>1, <2>2 DEF Locks
  <2>5. \A g \in Workers : job'[g].at \in WithIssue => g # w
    BY <1>1, <2>1
  <2>6. \A g \in Workers : iLock = g => g # w
    BY <1>1
  <2>7. \A g \in Workers : job'[g].at \in WithComment \cup {"drop"} => job'[g].c \in CommentIds
    BY <1>0, <1>1, <2>1 DEF Locks
  <2> QED BY <1>0, <1>5, <2>3, <2>4, <2>5, <2>6, <2>7 DEF Locks
<1>6. ASSUME k.at = "unassign" \/ (k.at \in {"edit", "drop"} /\ k.c \in CommentIds),
             UNCHANGED <<iLock, cLock>>
      PROVE  Locks'
  BY <1>0, <1>1, <1>6 DEF Locks, WithIssue, WithComment
<1>7. Locks'
  BY <1>4, <1>5, <1>6
<1> QED BY <1>2, <1>3, <1>7

\* issueAccess and lockIssue.
LEMMA AccessKeeps ==
  ASSUME RowsInv, NEW w \in Workers, NEW at \in WithIssue, NEW m \in 0..MaxVersion,
         at \in {"remove", "comment"} \/ Room,
         IssueAccess(w, at, m) \/ PlainLockIssue(w, at, m)
  PROVE  RowsInv'
<1> DEFINE k == [NoJob EXCEPT !.at = at, !.read = issue, !.match = m]
<1>1. k \in Jobs /\ k.at = at /\ k.read = issue
  <2>1. PICK r \in IssueRecs : r = issue
    BY DEF RowsInv, RowsTypes
  <2>2. PICK j \in Jobs : j = NoJob
    BY NoRecords
  <2>3. /\ [j EXCEPT !.at = at, !.read = r, !.match = m] \in Jobs
        /\ [j EXCEPT !.at = at, !.read = r, !.match = m].at = at
        /\ [j EXCEPT !.at = at, !.read = r, !.match = m].read = r
    BY DEF Jobs
  <2> QED BY <2>1, <2>2, <2>3
<1> HIDE DEF k
<1>2. /\ job[w].at = "idle" /\ issue.there /\ iLock = Free /\ iLock' = w
      /\ job' = [job EXCEPT ![w] = k]
      /\ UNCHANGED <<issue, history, comments, spare, cLock, clock, wins>>
  BY DEF IssueAccess, PlainLockIssue, k
<1>3. k.at \in WithIssue /\ (k.at \in {"remove", "comment"} \/ issue.version < MaxVersion)
  BY <1>1 DEF Room
<1> QED BY <1>1, <1>2, <1>3, JobKeeps

\* commentAccess, and loadComment, which takes no lock.
LEMMA CommentKeeps ==
  ASSUME RowsInv, NEW w \in Workers, NEW at \in WithComment \cup {"drop"}, NEW c \in CommentIds,
         \/ at \in WithComment /\ CommentAccess(w, at, c)
         \/ at \in {"edit", "drop"} /\ PlainLoadComment(w, at, c)
  PROVE  RowsInv'
<1> DEFINE k == [NoJob EXCEPT !.at = at, !.c = c]
<1>1. k \in Jobs /\ k.at = at /\ k.c = c
  <2>1. PICK j \in Jobs : j = NoJob
    BY NoRecords
  <2>2. /\ [j EXCEPT !.at = at, !.c = c] \in Jobs
        /\ [j EXCEPT !.at = at, !.c = c].at = at /\ [j EXCEPT !.at = at, !.c = c].c = c
    BY DEF Jobs
  <2> QED BY <2>1, <2>2
<1> HIDE DEF k
<1>2. CASE at \in WithComment /\ CommentAccess(w, at, c)
  <2>1. /\ job[w].at = "idle" /\ c \in comments /\ cLock[c] = Free
        /\ cLock' = [cLock EXCEPT ![c] = w] /\ job' = [job EXCEPT ![w] = k]
        /\ UNCHANGED <<issue, history, comments, spare, iLock, clock, wins>>
    BY <1>2 DEF CommentAccess, k
  <2> QED BY <1>1, <1>2, <2>1, JobKeeps
<1>3. CASE at \in {"edit", "drop"} /\ PlainLoadComment(w, at, c)
  <2>1. /\ job[w].at = "idle" /\ job' = [job EXCEPT ![w] = k]
        /\ UNCHANGED <<issue, history, comments, spare, iLock, cLock, clock, wins>>
    BY <1>3 DEF PlainLoadComment, k
  <2> QED BY <1>1, <1>3, <2>1, JobKeeps
<1> QED BY <1>2, <1>3

\* hDeleteOrgMember takes the time.
LEMMA LeaveOrgKeeps ==
  ASSUME RowsInv, NEW w \in Workers, LeaveOrg(w)
  PROVE  RowsInv'
<1> DEFINE k == [NoJob EXCEPT !.at = "unassign", !.now = clock]
<1>1. k \in Jobs /\ k.at = "unassign"
  <2>1. clock \in Nat
    BY RowsAssumption DEF RowsInv, RowsTypes
  <2>2. PICK j \in Jobs : j = NoJob
    BY NoRecords
  <2>3. /\ [j EXCEPT !.at = "unassign", !.now = clock] \in Jobs
        /\ [j EXCEPT !.at = "unassign", !.now = clock].at = "unassign"
    BY <2>1 DEF Jobs
  <2> QED BY <2>2, <2>3
<1> HIDE DEF k
<1>2. /\ job[w].at = "idle" /\ job' = [job EXCEPT ![w] = k]
      /\ UNCHANGED <<issue, history, comments, spare, iLock, cLock, clock, wins>>
  BY DEF LeaveOrg, k
<1> QED BY <1>1, <1>2, JobKeeps

\* PATCH and transition: the version that was read is the present one, so that at most one
\* request that names it is accepted.
LEMMA StoreKeeps ==
  ASSUME RowsInv, NEW w \in Workers, NEW s \in 0..2,
         job[w].at \in {"patch", "move", "plain-patch", "plain-move"},
         job[w].match = 0 \/ Matches(w),
         Store(w, s) \/ PlainSave(w, s)
  PROVE  RowsInv'
<1> DEFINE u == IF Store(w, s) THEN Stamp(issue) ELSE clock
           m == job[w].match
<1>1. /\ iLock = w /\ job[w].read = issue /\ issue.there /\ issue.version < MaxVersion
      /\ issue \in IssueRecs /\ m \in 0..MaxVersion
  BY DEF RowsInv, Locks, WithIssue, RowsTypes, Jobs
<1>2. issue.version \in Nat /\ issue.version + 1 \in 0..MaxVersion /\ issue.updated \in Nat
  BY <1>1, RowsAssumption DEF IssueRecs
<1>3. u \in Nat
  BY <1>2, RowsAssumption DEF RowsInv, RowsTypes, Stamp, Later
<1>4. /\ issue' = [issue EXCEPT !.version = issue.version + 1, !.updated = u,
                                !.status = s, !.resolved = (s = 2)]
      /\ history' = history + 1
      /\ wins' = IF m = 0 THEN wins ELSE [wins EXCEPT ![m] = @ + 1]
      /\ EndJob(w) /\ UNCHANGED <<comments, spare, clock>>
  BY <1>1 DEF Store, PlainSave
<1> HIDE DEF u, m
<1>5. /\ issue' \in IssueRecs /\ issue'.version = issue.version + 1 /\ issue'.status = s
      /\ issue'.resolved <=> s = 2
      /\ issue'.there = issue.there /\ issue'.count = issue.count
  <2>1. PICK v \in 0..MaxVersion : v = issue.version + 1
    BY <1>2
  <2>2. PICK t \in Nat : t = u
    BY <1>3
  <2>3. PICK i \in IssueRecs : i = issue
    BY <1>1
  <2> DEFINE k == [i EXCEPT !.version = v, !.updated = t, !.status = s, !.resolved = (s = 2)]
  <2>4. issue' = k
    BY <1>4, <2>1, <2>2, <2>3
  <2>5. k \in IssueRecs
    BY DEF IssueRecs
  <2>6. /\ k.version = v /\ k.status = s /\ k.there = i.there /\ k.count = i.count
        /\ k.resolved <=> s = 2
    BY DEF IssueRecs
  <2> HIDE DEF k
  <2> QED BY <2>1, <2>3, <2>4, <2>5, <2>6
<1>6. wins' \in [1..MaxVersion -> Nat] /\ history' \in Nat
  BY <1>1, <1>4 DEF RowsInv, RowsTypes
<1>7. RowsTypes' /\ Locks'
  BY <1>1, <1>4, <1>5, <1>6, EndKeeps DEF RowsInv, RowsTypes
<1>8. Agrees'
  <2>1. m = 0 \/ (m = issue.version /\ m \in 1..MaxVersion)
    BY <1>1 DEF Matches, m
  <2>2. \A v \in 1..MaxVersion : wins'[v] <= 1
    BY <1>4, <2>1, <1>1 DEF RowsInv, RowsTypes, Agrees
  <2>3. \A v \in 1..MaxVersion : v >= issue.version + 1 => wins'[v] = 0
    BY <1>1, <1>2, <1>4, <2>1 DEF RowsInv, RowsTypes, Agrees
  <2>4. issue'.version = history' /\ issue'.version >= 1 /\ issue'.there
    BY <1>1, <1>2, <1>4, <1>5 DEF RowsInv, Agrees
  <2>5. issue'.count = Cardinality(comments')
    BY <1>4, <1>5 DEF RowsInv, Agrees
  <2> QED BY <1>5, <2>2, <2>3, <2>4, <2>5 DEF Agrees
<1> QED BY <1>7, <1>8 DEF RowsInv

\* A member leaves, and the issue has one version more; nobody has its row.
LEMMA TouchKeeps ==
  ASSUME RowsInv, issue.there, iLock = Free, issue.version < MaxVersion, NEW u \in Nat,
         issue' = [issue EXCEPT !.version = @ + 1, !.updated = u], history' = history + 1,
         UNCHANGED <<comments, wins>>
  PROVE  issue' \in IssueRecs /\ history' \in Nat /\ Agrees'
<1>1. issue \in IssueRecs /\ history \in Nat /\ wins \in [1..MaxVersion -> Nat]
  BY DEF RowsInv, RowsTypes
<1>2. issue.version \in Nat
  BY <1>1 DEF IssueRecs
<1>3. PICK v \in 0..MaxVersion : v = issue.version + 1
  BY <1>2, RowsAssumption
<1>4. PICK i \in IssueRecs : i = issue
  BY <1>1
<1> DEFINE k == [i EXCEPT !.version = v, !.updated = u]
<1>5. issue' = k
  BY <1>3, <1>4
<1>6. k \in IssueRecs
  BY DEF IssueRecs
<1>7. /\ k.version = v /\ k.status = i.status /\ k.there = i.there /\ k.count = i.count
      /\ k.resolved = i.resolved
  BY DEF IssueRecs
<1> HIDE DEF k
<1>8. /\ issue' \in IssueRecs /\ issue'.version = issue.version + 1
      /\ issue'.status = issue.status /\ issue'.there = issue.there /\ issue'.count = issue.count
      /\ issue'.resolved = issue.resolved
  BY <1>3, <1>4, <1>5, <1>6, <1>7
<1>9. issue'.version = history' /\ issue'.version >= 1
  BY <1>2, <1>8 DEF RowsInv, Agrees
<1>10. \A n \in 1..MaxVersion : n >= issue'.version => wins'[n] = 0
  BY <1>1, <1>2, <1>8 DEF RowsInv, Agrees
<1> QED BY <1>1, <1>8, <1>9, <1>10 DEF RowsInv, Agrees

\* The count of the issue changes with its comments.
LEMMA RecountKeeps ==
  ASSUME RowsInv, issue.there, NEW n \in Nat, n = Cardinality(comments'),
         issue' = [issue EXCEPT !.count = n], UNCHANGED <<history, wins>>
  PROVE  issue' \in IssueRecs /\ Agrees'
<1>1. PICK i \in IssueRecs : i = issue
  BY DEF RowsInv, RowsTypes
<1> DEFINE k == [i EXCEPT !.count = n]
<1>2. k \in IssueRecs
  BY DEF IssueRecs
<1>3. /\ k.version = i.version /\ k.status = i.status /\ k.there = i.there /\ k.count = n
      /\ k.resolved = i.resolved
  BY DEF IssueRecs
<1>4. issue' = k
  BY <1>1
<1> HIDE DEF k
<1> QED BY <1>1, <1>2, <1>3, <1>4 DEF RowsInv, Agrees

\* unassignAll waits for the row.
LEMMA UnassignAllKeeps ==
  ASSUME RowsInv, NEW w \in Workers, UnassignAll(w)
  PROVE  RowsInv'
<1>1. iLock = Free /\ EndJob(w) /\ UNCHANGED <<comments, spare, clock, wins>>
  BY DEF UnassignAll
<1>2. issue' \in IssueRecs /\ history' \in Nat /\ Agrees'
  <2>1. CASE /\ issue.there /\ issue.version < MaxVersion
             /\ issue' = [issue EXCEPT !.version = @ + 1, !.updated = job[w].now]
             /\ history' = history + 1
    <3>1. PICK u \in Nat : u = job[w].now
      BY DEF RowsInv, RowsTypes, Jobs
    <3> QED BY <3>1, <2>1, <1>1, TouchKeeps
  <2>2. CASE UNCHANGED <<issue, history>>
    BY <2>2, <1>1 DEF RowsInv, RowsTypes, Agrees
  <2> QED BY <2>1, <2>2 DEF UnassignAll
<1>3. RowsTypes' /\ Locks'
  BY <1>1, <1>2, EndKeeps DEF RowsInv, RowsTypes
<1> QED BY <1>2, <1>3 DEF RowsInv

\* unassignInOrg of go-plain-1, in one transaction.
LEMMA PlainUnassignKeeps ==
  ASSUME RowsInv, NEW w \in Workers, PlainUnassign(w)
  PROVE  RowsInv'
<1>1. /\ issue.there /\ iLock = Free /\ issue.version < MaxVersion
      /\ UNCHANGED <<comments, spare, iLock, cLock, job, clock, wins>>
  BY DEF PlainUnassign, Room
<1>2. issue' \in IssueRecs /\ history' \in Nat /\ Agrees'
  <2>1. PICK u \in Nat : u = clock
    BY RowsAssumption DEF RowsInv, RowsTypes
  <2> QED BY <2>1, <1>1, TouchKeeps DEF PlainUnassign
<1>3. RowsTypes'
  BY <1>1, <1>2 DEF RowsInv, RowsTypes
<1>4. Locks'
  BY <1>1, RowsAssumption DEF RowsInv, Locks
<1> QED BY <1>2, <1>3, <1>4 DEF RowsInv

\* The comments and their count go with the issue, when no comment is locked.
LEMMA DeleteIssueKeeps ==
  ASSUME RowsInv, NEW w \in Workers, DeleteIssue(w) \/ PlainDeleteIssue(w)
  PROVE  RowsInv'
<1>1. /\ job[w].at = "remove" /\ \A c \in comments : cLock[c] \in {Free, w}
      /\ issue' = NoIssue /\ history' = 0 /\ comments' = {} /\ EndJob(w)
      /\ UNCHANGED <<spare, clock, wins>>
  BY DEF DeleteIssue, PlainDeleteIssue
<1>2. iLock = w
  BY <1>1 DEF RowsInv, Locks, WithIssue
<1>3. RowsTypes' /\ Locks'
  BY <1>1, <1>2, NoRecords, EndKeeps DEF RowsInv, RowsTypes
<1>4. Agrees'
  BY <1>1, NoRecords, FS_EmptySet DEF RowsInv, Agrees
<1> QED BY <1>3, <1>4 DEF RowsInv

\* A new comment is counted while the issue is locked.
LEMMA CreateCommentKeeps ==
  ASSUME RowsInv, NEW w \in Workers, CreateComment(w) \/ PlainCreateComment(w)
  PROVE  RowsInv'
<1>1. /\ job[w].at = "comment" /\ EndJob(w) /\ UNCHANGED <<history, clock, wins>>
  BY DEF CreateComment, PlainCreateComment
<1>2. PICK c \in spare : /\ comments' = comments \cup {c} /\ spare' = spare \ {c}
                         /\ issue' = [issue EXCEPT !.count = @ + 1]
  BY DEF CreateComment, PlainCreateComment
<1>3. iLock = w /\ issue.there
  BY <1>1 DEF RowsInv, Locks, WithIssue
<1>4. comments \subseteq CommentIds /\ c \in CommentIds /\ c \notin comments
  BY <1>2 DEF RowsInv, RowsTypes
<1>5. IsFiniteSet(comments)
  BY <1>4, RowsAssumption, FS_Subset
<1>6. Cardinality(comments') = Cardinality(comments) + 1 /\ Cardinality(comments) \in Nat
  BY <1>2, <1>4, <1>5, FS_AddElement, FS_CardinalityType
<1>7. PICK n \in Nat : n = issue.count + 1 /\ n = Cardinality(comments')
  BY <1>6 DEF RowsInv, Agrees
<1>8. issue' \in IssueRecs /\ Agrees'
  BY <1>1, <1>2, <1>3, <1>7, RecountKeeps
<1>9. RowsTypes' /\ Locks'
  BY <1>1, <1>2, <1>3, <1>4, <1>8, EndKeeps DEF RowsInv, RowsTypes
<1> QED BY <1>8, <1>9 DEF RowsInv

\* A comment that is removed was there, locked, and counted; nobody has the issue's row.
LEMMA DeleteCommentKeeps ==
  ASSUME RowsInv, NEW w \in Workers, DeleteComment(w) \/ PlainDeleteComment(w)
  PROVE  RowsInv'
<1> DEFINE c == job[w].c
<1>1. /\ job[w].at = "uncomment" /\ iLock \in {Free, w} /\ EndJob(w)
      /\ comments' = comments \ {c} /\ UNCHANGED <<history, spare, clock, wins>>
  BY DEF DeleteComment, PlainDeleteComment
<1>2. c \in CommentIds /\ cLock[c] = w /\ c \in comments /\ issue.there
  BY <1>1 DEF RowsInv, Locks, Agrees
<1>3. issue' = [issue EXCEPT !.count = @ - 1]
  BY <1>2 DEF DeleteComment, PlainDeleteComment
<1> HIDE DEF c
<1>4. comments \subseteq CommentIds
  BY DEF RowsInv, RowsTypes
<1>5. IsFiniteSet(comments)
  BY <1>4, RowsAssumption, FS_Subset
<1>6. /\ Cardinality(comments') = Cardinality(comments) - 1
      /\ Cardinality(comments) \in Nat /\ Cardinality(comments') \in Nat
  <2>1. IsFiniteSet(comments') /\ Cardinality(comments') = Cardinality(comments) - 1
    BY <1>1, <1>2, <1>5, FS_RemoveElement
  <2> QED BY <2>1, <1>5, FS_CardinalityType
<1>7. PICK n \in Nat : n = issue.count - 1 /\ n = Cardinality(comments')
  BY <1>6 DEF RowsInv, Agrees
<1>8. issue' \in IssueRecs /\ Agrees'
  BY <1>1, <1>2, <1>3, <1>7, RecountKeeps
<1>9. \A d \in comments : cLock[d] \in {Free, w} \/ d \in comments'
  BY <1>1, <1>2
<1>10. RowsTypes' /\ Locks'
  BY <1>1, <1>4, <1>8, <1>9, EndKeeps DEF RowsInv, RowsTypes
<1> QED BY <1>8, <1>10 DEF RowsInv

\* DELETE of a comment in go-plain-1 locks its row, if it is still there.
LEMMA DropKeeps ==
  ASSUME RowsInv, NEW w \in Workers, PlainDropComment(w)
  PROVE  RowsInv'
<1> DEFINE c == job[w].c
<1>1. CASE c \notin comments
  BY <1>1, AnswerKeeps DEF PlainDropComment
<1>2. CASE c \in comments
  <2>1. /\ job[w].at = "drop" /\ cLock[c] = Free
        /\ cLock' = [cLock EXCEPT ![c] = w] /\ job' = [job EXCEPT ![w].at = "uncomment"]
        /\ UNCHANGED <<issue, history, comments, spare, iLock, clock, wins>>
    BY <1>2 DEF PlainDropComment
  <2>2. c \in CommentIds /\ job[w] \in Jobs
    BY <2>1 DEF RowsInv, Locks, RowsTypes
  <2>3. PICK j \in Jobs : j = job[w]
    BY <2>2
  <2> DEFINE k == [j EXCEPT !.at = "uncomment"]
  <2>4. k \in Jobs /\ k.at = "uncomment" /\ k.c = j.c
    BY DEF Jobs, WithComment
  <2>5. job' = [job EXCEPT ![w] = k]
    BY <2>1, <2>3
  <2> HIDE DEF k
  <2>6. k.c = c
    BY <2>3, <2>4
  <2> HIDE DEF c
  <2>7. RowsTypes' /\ Agrees'
    BY <2>1, <2>2, <2>4, <2>5 DEF RowsInv, RowsTypes, Agrees
  <2>8. /\ \A g \in Workers : job'[g] = IF g = w THEN k ELSE job[g]
        /\ \A d \in CommentIds : cLock'[d] = IF d = c THEN w ELSE cLock[d]
        /\ \A d \in CommentIds : cLock[d] # w
        /\ iLock # w
    BY <2>1, <2>2, <2>5 DEF RowsInv, RowsTypes, Locks, WithComment, WithIssue
  <2>9. Locks'
    <3>1. \A g \in Workers : job'[g].at \in WithIssue => g # w /\ job[g].at \in WithIssue
      BY <2>4, <2>8 DEF WithIssue
    <3>2. \A g \in Workers, d \in CommentIds :
            cLock'[d] = g => job'[g].at \in WithComment /\ job'[g].c = d /\ d \in comments
      <4> SUFFICES ASSUME NEW g \in Workers, NEW d \in CommentIds, cLock'[d] = g
                   PROVE  job'[g].at \in WithComment /\ job'[g].c = d /\ d \in comments
        OBVIOUS
      <4>1. CASE d = c
        <5>1. g = w /\ job'[g] = k
          BY <4>1, <2>8
        <5> QED BY <5>1, <4>1, <1>2, <2>4, <2>6 DEF WithComment
      <4>2. CASE d # c
        <5>1. cLock[d] = g /\ g # w /\ job'[g] = job[g]
          BY <4>2, <2>8
        <5> QED BY <5>1 DEF RowsInv, Locks
      <4> QED BY <4>1, <4>2
    <3>3. \A g \in Workers : job'[g].at \in WithComment \cup {"drop"} => job'[g].c \in CommentIds
      BY <2>2, <2>4, <2>6, <2>8 DEF RowsInv, Locks
    <3>4. \A g \in Workers : job'[g].at = "uncomment" => cLock'[job'[g].c] = g
      <4> SUFFICES ASSUME NEW g \in Workers, job'[g].at = "uncomment"
                   PROVE  cLock'[job'[g].c] = g
        OBVIOUS
      <4>1. CASE g = w
        BY <4>1, <2>2, <2>6, <2>8
      <4>2. CASE g # w
        <5>1. job'[g] = job[g] /\ job[g].c \in CommentIds /\ cLock[job[g].c] = g
          BY <4>2, <2>8 DEF RowsInv, Locks
        <5>2. job[g].c # c
          BY <5>1, <2>1, RowsAssumption
        <5> QED BY <5>1, <5>2, <2>8
      <4> QED BY <4>1, <4>2
    <3>5. \A g \in Workers : iLock' = g => job'[g].at \in WithIssue
      BY <2>1, <2>8 DEF RowsInv, Locks
    <3> QED BY <2>1, <2>8, <3>1, <3>2, <3>3, <3>4, <3>5 DEF RowsInv, Locks, WithComment
  <2> QED BY <2>7, <2>9 DEF RowsInv
<1> QED BY <1>1, <1>2

\* Before the first request.
LEMMA RowsStart == RowsInit => RowsInv
<1> SUFFICES ASSUME RowsInit PROVE RowsInv
  OBVIOUS
<1>1. PICK i \in IssueRecs : i = NoIssue
  BY NoRecords
<1> DEFINE k == [i EXCEPT !.there = TRUE, !.version = 1]
<1>2. k \in IssueRecs
  <2>1. PICK v \in 0..MaxVersion : v = 1
    BY RowsAssumption
  <2>2. PICK b \in {TRUE, FALSE} : b = TRUE
    OBVIOUS
  <2>3. [i EXCEPT !.there = b, !.version = v] \in IssueRecs
    BY DEF IssueRecs
  <2> QED BY <2>1, <2>2, <2>3
<1>3. /\ k.there /\ k.version = 1
      /\ k.count = i.count /\ k.status = i.status /\ k.resolved = i.resolved
  BY DEF IssueRecs
<1>4. issue = k
  BY <1>1 DEF RowsInit
<1> HIDE DEF k
<1>5. RowsTypes
  BY <1>2, <1>4, NoRecords, RowsAssumption DEF RowsInit, RowsTypes
<1>6. Locks
  BY NoRecords, RowsAssumption DEF RowsInit, Locks, WithIssue, WithComment
<1>7. Agrees
  BY <1>1, <1>3, <1>4, NoRecords, FS_EmptySet DEF RowsInit, Agrees
<1> QED BY <1>5, <1>6, <1>7 DEF RowsInv

\* PATCH, accepted or not.
LEMMA PatchKeeps ==
  ASSUME RowsInv, NEW w \in Workers, PatchIssue(w) \/ PlainPatchIssue(w)
  PROVE  RowsInv'
<1>1. job[w].at \in {"patch", "plain-patch"}
  BY DEF PatchIssue, PlainPatchIssue
<1>2. job[w].read.status \in 0..2
  BY DEF RowsInv, RowsTypes, Jobs, IssueRecs
<1>3. CASE Answer(w)
  BY <1>3, AnswerKeeps
<1>4. CASE Matches(w) /\ (Store(w, job[w].read.status) \/ PlainSave(w, job[w].read.status))
  BY <1>1, <1>2, <1>4, StoreKeeps
<1> QED BY <1>3, <1>4 DEF PatchIssue, PlainPatchIssue

\* transition, accepted or not.
LEMMA MoveKeeps ==
  ASSUME RowsInv, NEW w \in Workers, NEW to \in 0..2, Transition(w, to) \/ PlainTransition(w, to)
  PROVE  RowsInv'
<1>1. job[w].at \in {"move", "plain-move"}
  BY DEF Transition, PlainTransition
<1>2. CASE Answer(w)
  BY <1>2, AnswerKeeps
<1>3. CASE (job[w].match = 0 \/ Matches(w)) /\ (Store(w, to) \/ PlainSave(w, to))
  BY <1>1, <1>3, StoreKeeps
<1> QED BY <1>2, <1>3 DEF Transition, PlainTransition

\* The first tracker keeps the invariant.
LEMMA RowsStep == RowsInv /\ [RowsNext]_rowVars => RowsInv'
<1> SUFFICES ASSUME RowsInv, [RowsNext]_rowVars PROVE RowsInv'
  OBVIOUS
<1>1. ASSUME NEW w \in Workers, Step(w) PROVE RowsInv'
  <2>1. CASE PatchIssue(w)
    BY <2>1, PatchKeeps
  <2>2. CASE PatchComment(w) \/ Rollback(w)
    BY <2>2, AnswerKeeps DEF PatchComment, Rollback
  <2>3. CASE DeleteIssue(w)
    BY <2>3, DeleteIssueKeeps
  <2>4. CASE CreateComment(w)
    BY <2>4, CreateCommentKeeps
  <2>5. CASE DeleteComment(w)
    BY <2>5, DeleteCommentKeeps
  <2>6. CASE UnassignAll(w)
    BY <2>6, UnassignAllKeeps
  <2>7. ASSUME NEW to \in 0..2, Transition(w, to) PROVE RowsInv'
    BY <2>7, MoveKeeps
  <2> QED BY <1>1, <2>1, <2>2, <2>3, <2>4, <2>5, <2>6, <2>7 DEF Step
<1>2. ASSUME NEW w \in Workers,
             \/ Room /\ \E v \in 1..MaxVersion : IssueAccess(w, "patch", v)
             \/ Room /\ \E v \in 0..MaxVersion : IssueAccess(w, "move", v)
             \/ IssueAccess(w, "remove", 0)
             \/ IssueAccess(w, "comment", 0)
      PROVE  RowsInv'
  <2>1. 0 \in 0..MaxVersion /\ \A v \in 1..MaxVersion : v \in 0..MaxVersion
    BY RowsAssumption
  <2> QED BY <1>2, <2>1, AccessKeeps DEF WithIssue
<1>3. ASSUME NEW w \in Workers, NEW c \in CommentIds,
             CommentAccess(w, "edit", c) \/ CommentAccess(w, "uncomment", c)
      PROVE  RowsInv'
  BY <1>3, CommentKeeps DEF WithComment
<1>4. ASSUME NEW w \in Workers, LeaveOrg(w) PROVE RowsInv'
  BY <1>4, LeaveOrgKeeps
<1>5. CASE Tick
  BY <1>5, TickKeeps
<1>6. CASE UNCHANGED rowVars
  BY <1>6 DEF RowsInv, RowsTypes, Locks, Agrees, rowVars
<1> QED BY <1>1, <1>2, <1>3, <1>4, <1>5, <1>6 DEF RowsNext

\* So does the plain one.
LEMMA PlainRowsStep == RowsInv /\ [PlainRowsNext]_rowVars => RowsInv'
<1> SUFFICES ASSUME RowsInv, [PlainRowsNext]_rowVars PROVE RowsInv'
  OBVIOUS
<1>1. ASSUME NEW w \in Workers,
             PlainPatchIssue(w) \/ PlainDeleteIssue(w) \/ PlainCreateComment(w)
      PROVE  RowsInv'
  BY <1>1, PatchKeeps, DeleteIssueKeeps, CreateCommentKeeps
<1>2. ASSUME NEW w \in Workers,
             PlainPatchComment(w) \/ PlainDropComment(w) \/ PlainDeleteComment(w)
      PROVE  RowsInv'
  BY <1>2, AnswerKeeps, DropKeeps, DeleteCommentKeeps DEF PlainPatchComment
<1>3. ASSUME NEW w \in Workers, PlainUnassign(w) \/ Rollback(w) PROVE RowsInv'
  BY <1>3, PlainUnassignKeeps, AnswerKeeps DEF Rollback
<1>4. ASSUME NEW w \in Workers, NEW to \in 0..2, PlainTransition(w, to) PROVE RowsInv'
  BY <1>4, MoveKeeps
<1>5. ASSUME NEW w \in Workers,
             \/ Room /\ \E v \in 1..MaxVersion : PlainLockIssue(w, "plain-patch", v)
             \/ Room /\ \E v \in 0..MaxVersion : PlainLockIssue(w, "plain-move", v)
             \/ PlainLockIssue(w, "remove", 0)
             \/ PlainLockIssue(w, "comment", 0)
      PROVE  RowsInv'
  <2>1. 0 \in 0..MaxVersion /\ \A v \in 1..MaxVersion : v \in 0..MaxVersion
    BY RowsAssumption
  <2> QED BY <1>5, <2>1, AccessKeeps DEF WithIssue
<1>6. ASSUME NEW w \in Workers, NEW c \in CommentIds,
             PlainLoadComment(w, "edit", c) \/ PlainLoadComment(w, "drop", c)
      PROVE  RowsInv'
  BY <1>6, CommentKeeps DEF WithComment
<1>7. CASE Tick
  BY <1>7, TickKeeps
<1>8. CASE UNCHANGED rowVars
  BY <1>8 DEF RowsInv, RowsTypes, Locks, Agrees, rowVars
<1> QED BY <1>1, <1>2, <1>3, <1>4, <1>5, <1>6, <1>7, <1>8 DEF PlainRowsNext

\* The invariant says what the row must be, and who can wait for whom.
LEMMA RowsMean == RowsInv => RowSound /\ OnlyKnownDeadlock
<1> SUFFICES ASSUME RowsInv PROVE RowSound /\ OnlyKnownDeadlock
  OBVIOUS
<1>1. issue.version \in 0..MaxVersion /\ issue.status \in 0..2
  BY DEF RowsInv, RowsTypes, IssueRecs
<1>2. issue.count \in 0..Cardinality(CommentIds)
  <2>1. comments \subseteq CommentIds /\ issue.count = Cardinality(comments)
    BY DEF RowsInv, RowsTypes, Agrees
  <2>2. IsFiniteSet(comments) /\ Cardinality(comments) <= Cardinality(CommentIds)
    BY <2>1, RowsAssumption, FS_Subset
  <2>3. Cardinality(comments) \in Nat /\ Cardinality(CommentIds) \in Nat
    BY <2>2, RowsAssumption, FS_CardinalityType
  <2> QED BY <2>1, <2>2, <2>3
<1>3. RowsTypeOK
  BY <1>1, <1>2 DEF RowsInv, RowsTypes, RowsTypeOK
<1>4. VersionCountsHistory /\ CommentCountRight /\ NoLostUpdate /\ ResolvedIffDone
  BY DEF RowsInv, Agrees, VersionCountsHistory, CommentCountRight, NoLostUpdate, ResolvedIffDone
<1>5. OnlyKnownDeadlock
  <2> SUFFICES ASSUME NEW w \in Workers, job[w].at = "remove",
                      NEW c \in comments, cLock[c] # Free, job[cLock[c]].at # "edit"
               PROVE  Deadlocked(w, cLock[c])
    BY DEF OnlyKnownDeadlock
  <2>1. c \in CommentIds /\ cLock[c] \in Workers
    BY DEF RowsInv, RowsTypes
  <2>2. /\ job[cLock[c]].at = "uncomment" /\ job[cLock[c]].c = c /\ iLock = w
    BY <2>1 DEF RowsInv, Locks, WithComment, WithIssue
  <2> QED BY <2>1, <2>2 DEF Deadlocked
<1> QED BY <1>3, <1>4, <1>5 DEF RowSound

\* go-1, for any number of requests and comments: the row of an issue has the version of its
\* history and the count of its comments, and of the PATCHes that name a version one at most is
\* accepted, whatever is rolled back or aborted in between.
THEOREM RowsSafe == RowsSpec => []RowSound
<1>1. RowsInv => RowSound
  BY RowsMean
<1> QED BY <1>1, RowsStart, RowsStep, PTL DEF RowsSpec

\* The same of go-plain-1, where a comment is read without a lock and found gone when it is
\* removed.
THEOREM PlainRowsSafe == PlainRowsSpec => []RowSound
<1>1. RowsInv => RowSound
  BY RowsMean
<1> QED BY <1>1, RowsStart, PlainRowsStep, PTL DEF PlainRowsSpec

\* DELETE of an issue waits for comments only; only a DELETE of a comment of it waits for it in
\* turn.
THEOREM DeadlockKnown == RowsSpec => []OnlyKnownDeadlock
<1>1. RowsInv => OnlyKnownDeadlock
  BY RowsMean
<1> QED BY <1>1, RowsStart, RowsStep, PTL DEF RowsSpec

\* The same of go-plain-1.
THEOREM PlainDeadlockKnown == PlainRowsSpec => []OnlyKnownDeadlock
<1>1. RowsInv => OnlyKnownDeadlock
  BY RowsMean
<1> QED BY <1>1, RowsStart, PlainRowsStep, PTL DEF PlainRowsSpec

\* Who ends a job of w: only a step of w itself.
LEMMA OwnStep ==
  ASSUME RowsInv, RowsNext, NEW w \in Workers, job[w].at \in {"patch", "move"},
         job'[w].at = "idle"
  PROVE  PatchIssue(w) \/ Rollback(w) \/ \E to \in 0..2 : Transition(w, to)
<1>1. ASSUME NEW v \in Workers, v # w, EndJob(v) PROVE FALSE
  BY <1>1 DEF EndJob, RowsInv, RowsTypes
<1>2. ASSUME NEW v \in Workers, NEW k, job[v].at = "idle", job' = [job EXCEPT ![v] = k] PROVE FALSE
  BY <1>2 DEF RowsInv, RowsTypes
<1>3. job' # job
  OBVIOUS
<1>4. ASSUME NEW v \in Workers, Step(v), v # w PROVE FALSE
  BY <1>1, <1>4
  DEF Step, PatchIssue, DeleteIssue, CreateComment, PatchComment, DeleteComment, UnassignAll,
      Rollback, Transition, Store, Answer
<1>5. ASSUME NEW v \in Workers, NEW at, NEW m, IssueAccess(v, at, m) PROVE FALSE
  BY <1>2, <1>5 DEF IssueAccess
<1>6. ASSUME NEW v \in Workers, NEW at, NEW c, CommentAccess(v, at, c) \/ LeaveOrg(v) PROVE FALSE
  BY <1>2, <1>6 DEF CommentAccess, LeaveOrg
<1>7. ~ Tick
  BY <1>3 DEF Tick
<1>8. Step(w)
  BY <1>4, <1>5, <1>6, <1>7 DEF RowsNext
<1> QED BY <1>8
    DEF Step, DeleteIssue, CreateComment, PatchComment, DeleteComment, UnassignAll

\* hPatchIssue and hTransition of go-1: a new version is later than the one before, although the
\* clock may stand still or be set back.
THEOREM UpdatedOn == RowsSpec => UpdatedMovesOn
<1>1. ASSUME RowsInv, [RowsNext]_rowVars
      PROVE  [\A w \in Workers :
                job[w].at \in {"patch", "move"} /\ job'[w].at = "idle"
                  /\ issue'.version > issue.version
                => issue'.updated > issue.updated]_rowVars
  <2> SUFFICES ASSUME RowsNext, NEW w \in Workers, job[w].at \in {"patch", "move"},
                      job'[w].at = "idle", issue'.version > issue.version
               PROVE  issue'.updated > issue.updated
    BY <1>1
  <2>1. issue \in IssueRecs /\ job[w].read = issue /\ clock \in Nat
    BY <1>1, RowsAssumption DEF RowsInv, RowsTypes, Locks, WithIssue
  <2>2. issue.updated \in Nat /\ issue.version \in Nat
    BY <2>1 DEF IssueRecs
  <2>3. CASE Answer(w)
    BY <2>2, <2>3 DEF Answer
  <2>4. ASSUME NEW s, Store(w, s) PROVE issue'.updated > issue.updated
    <3>1. issue'.updated = Stamp(issue)
      BY <2>1, <2>4 DEF Store, IssueRecs
    <3> QED BY <2>1, <2>2, <3>1 DEF Stamp, Later
  <2> QED BY <1>1, <2>3, <2>4, OwnStep DEF PatchIssue, Rollback, Transition
<1> QED BY <1>1, RowsStart, RowsStep, PTL DEF RowsSpec, UpdatedMovesOn

-----------------------------------------------------------------------------
(* Numbers and keys.                                                       *)

\* Consecutive numbers appended to consecutive numbers.
LEMMA Consecutive ==
  ASSUME NEW s \in Nat, NEW n \in Nat
  PROVE  [i \in 1..s |-> i] \o [i \in 1..n |-> s + n - n + i] = [i \in 1..(s + n) |-> i]
<1> DEFINE a == [i \in 1..s |-> i]
           b == [i \in 1..n |-> s + n - n + i]
           c == [i \in 1..(s + n) |-> i]
<1>1. a \in Seq(Nat) /\ Len(a) = s
  OBVIOUS
<1>2. b \in Seq(Nat) /\ Len(b) = n
  OBVIOUS
<1>3. c \in Seq(Nat) /\ Len(c) = s + n
  OBVIOUS
<1>4. a \o b \in Seq(Nat) /\ Len(a \o b) = s + n
  BY <1>1, <1>2, ConcatProperties
<1>5. ASSUME NEW i \in 1..(s + n) PROVE (a \o b)[i] = c[i]
  BY <1>1, <1>2, ConcatProperties
<1> QED BY <1>3, <1>4, <1>5, SeqEqual

\* A step that only moves a request on, and takes no number.
LEMMA MovesKeep ==
  ASSUME NumbersInv, NEW r \in Requests,
         create' = [create EXCEPT ![r] = create'[r]],
         create'[r] \in Creations, create'[r].at # "insert",
         create'[r].at # "idle" => create'[r].n >= 1,
         UNCHANGED <<seq, log, seqHolder>>, create[r].at # "insert",
         keyHolder' \in Requests \cup {Nobody},
         key' \in KeyRows, key'.there => key'.hash \in Bodies /\ key'.num \in 1..seq
  PROVE  NumbersInv'
<1>1. NumbersTypeOK'
  BY DEF NumbersInv, NumberingSound, NumbersTypeOK
<1>2. NumbersTaken'
  BY DEF NumbersInv, NumberingSound, NumbersTypeOK, NumbersTaken
<1> QED BY <1>1, <1>2 DEF NumbersInv, NumberingSound, NumbersInOrder

\* hCreateIssue, hBulkCreate and their counterparts begin.
LEMMA BeginKeeps ==
  ASSUME NumbersInv, NEW r \in Requests,
         \/ \E hash \in Bodies \cup {0} : CreateIssue(r, hash)
         \/ \E n \in 1..MaxBulk : BulkCreate(r, n) \/ PlainBulkCreate(r, n)
  PROVE  NumbersInv'
<1> USE NumbersAssumption
<1>1. create \in [Requests -> Creations] /\ create[r].at = "idle"
  BY DEF NumbersInv, NumberingSound, NumbersTypeOK, CreateIssue, BulkCreate, PlainBulkCreate
<1>2. /\ create'[r] \in Creations /\ create'[r].at \in {"seq", "try"} /\ create'[r].n >= 1
      /\ create' = [create EXCEPT ![r] = create'[r]]
  <2>1. ASSUME NEW hash \in Bodies \cup {0},
               create' = [create EXCEPT ![r] = [at |-> IF hash = 0 THEN "seq" ELSE "try",
                                         hash |-> hash, n |-> 1, num |-> 0, tries |-> 0]]
        PROVE  /\ create'[r] \in Creations /\ create'[r].at \in {"seq", "try"} /\ create'[r].n >= 1
               /\ create' = [create EXCEPT ![r] = create'[r]]
    BY <1>1, <2>1 DEF Creations
  <2>2. ASSUME NEW n \in 1..MaxBulk,
               create' = [create EXCEPT ![r] = [Resting EXCEPT !.at = "seq", !.n = n]]
        PROVE  /\ create'[r] \in Creations /\ create'[r].at \in {"seq", "try"} /\ create'[r].n >= 1
               /\ create' = [create EXCEPT ![r] = create'[r]]
    <3>1. Resting \in Creations
      BY DEF Resting, Creations
    <3>2. create'[r] = [Resting EXCEPT !.at = "seq", !.n = n] /\ n \in 0..MaxBulk /\ n >= 1
      BY <1>1, <2>2
    <3>3. create' = [create EXCEPT ![r] = create'[r]]
      BY <1>1, <2>2
    <3>4. create'[r] \in Creations
      BY <3>1, <3>2 DEF Creations
    <3>5. create'[r].at = "seq" /\ create'[r].n >= 1
      BY <3>1, <3>2 DEF Creations
    <3> QED BY <3>3, <3>4, <3>5
  <2> QED BY <2>1, <2>2 DEF CreateIssue, BulkCreate, PlainBulkCreate
<1>3. UNCHANGED <<seq, log, seqHolder, key, keyHolder>>
  BY DEF CreateIssue, BulkCreate, PlainBulkCreate
<1> QED BY <1>1, <1>2, <1>3, MovesKeep DEF NumbersInv, NumberingSound, NumbersTypeOK

\* The statements about the key of both trackers.
LEMMA KeyStepKeeps ==
  ASSUME NumbersInv, NEW r \in Requests,
         TryKey(r) \/ LookKey(r) \/ PurgeKey(r) \/ PlainTryKey(r) \/ PlainLookKey(r)
  PROVE  NumbersInv'
<1> USE NumbersAssumption
<1>1. /\ create \in [Requests -> Creations] /\ create[r].at \in {"try", "look", "purge"}
      /\ create[r].n >= 1
  BY DEF NumbersInv, NumberingSound, NumbersTypeOK, NumbersTaken, TryKey, LookKey, PurgeKey,
         PlainTryKey, PlainLookKey
<1>2. Goes(r, "look") \/ Goes(r, "seq") \/ Goes(r, "purge") \/ Ends(r) \/ Again(r)
  BY DEF TryKey, LookKey, PurgeKey, PlainTryKey, PlainLookKey
<1>3. /\ create'[r] \in Creations /\ create'[r].at # "insert"
      /\ create'[r].at # "idle" => create'[r].n >= 1
      /\ create' = [create EXCEPT ![r] = create'[r]]
  <2>1. CASE Goes(r, "look") \/ Goes(r, "seq") \/ Goes(r, "purge")
    BY <1>1, <2>1 DEF Goes, Creations
  <2>2. CASE Ends(r)
    BY <1>1, <2>2 DEF Ends, Resting, Creations
  <2>3. CASE Again(r)
    <3>1. create' = [create EXCEPT ![r] =
                       IF create[r].tries + 1 = Attempts THEN Resting
                       ELSE [create[r] EXCEPT !.at = "try", !.tries = create[r].tries + 1]]
      BY <2>3 DEF Again
    <3>2. create' = [create EXCEPT ![r] = create'[r]]
      BY <1>1, <3>1
    <3>3. CASE create[r].tries + 1 = Attempts
      <4>1. create'[r] = Resting
        BY <1>1, <3>1, <3>3
      <4> QED BY <3>2, <4>1 DEF Resting, Creations
    <3>4. CASE create[r].tries + 1 # Attempts
      <4>1. create'[r] = [create[r] EXCEPT !.at = "try", !.tries = create[r].tries + 1]
        BY <1>1, <3>1, <3>4
      <4>2. create[r].tries + 1 \in 0..(Attempts - 1)
        BY <1>1, <3>4 DEF Creations
      <4>3. create'[r] \in Creations
        BY <1>1, <4>1, <4>2 DEF Creations
      <4>4. create'[r].at = "try" /\ create'[r].n = create[r].n
        BY <1>1, <4>1 DEF Creations
      <4> QED BY <1>1, <3>2, <4>3, <4>4
    <3> QED BY <3>3, <3>4
  <2> QED BY <1>2, <2>1, <2>2, <2>3
<1>4. UNCHANGED <<seq, log, seqHolder>> /\ keyHolder' \in Requests \cup {Nobody}
  BY DEF NumbersInv, NumberingSound, NumbersTypeOK, TryKey, LookKey, PurgeKey, PlainTryKey,
         PlainLookKey
<1>5. UNCHANGED key \/ key' = NoKey
  BY DEF TryKey, LookKey, PurgeKey, PlainTryKey, PlainLookKey
<1>6. key' \in KeyRows /\ (key'.there => key'.hash \in Bodies /\ key'.num \in 1..seq)
  <2>1. CASE key' = NoKey
    BY <2>1 DEF NoKey, KeyRows
  <2>2. CASE key' = key
    BY <2>2 DEF NumbersInv, NumberingSound, NumbersTypeOK
  <2> QED BY <1>5, <2>1, <2>2
<1> QED BY <1>1, <1>3, <1>4, <1>6, MovesKeep

\* The UPDATE that takes the numbers holds the row of the project.
LEMMA TakeKeeps ==
  ASSUME NumbersInv, NEW r \in Requests, TakeNumber(r) \/ PlainTakeNumber(r)
  PROVE  NumbersInv'
<1>1. /\ create[r].at = "seq" /\ seqHolder = Nobody /\ seqHolder' = r
      /\ create' = [create EXCEPT ![r].at = "insert", ![r].num = seq + create[r].n]
      /\ UNCHANGED <<seq, log, key, keyHolder>>
  BY DEF TakeNumber, PlainTakeNumber
<1>2. create \in [Requests -> Creations] /\ seq \in Nat
  BY DEF NumbersInv, NumberingSound, NumbersTypeOK
<1>3. create' \in [Requests -> Creations]
  <2>1. seq + create[r].n \in Nat
    BY <1>2, NumbersAssumption DEF Creations
  <2> QED BY <1>1, <1>2, <2>1 DEF Creations
<1>4. NumbersTypeOK'
  BY <1>1, <1>3 DEF NumbersInv, NumberingSound, NumbersTypeOK
<1>5. NumbersTaken'
  <2> SUFFICES ASSUME NEW q \in Requests
               PROVE  /\ create'[q].at # "idle" => create'[q].n >= 1
                      /\ create'[q].at = "insert" =>
                           seqHolder' = q /\ create'[q].num = seq' + create'[q].n
    BY DEF NumbersTaken
  <2>1. CASE q = r
    BY <1>1, <1>2, <2>1 DEF NumbersInv, NumbersTaken, Creations
  <2>2. CASE q # r
    BY <1>1, <1>2, <2>2, NumbersAssumption DEF NumbersInv, NumbersTaken
  <2> QED BY <2>1, <2>2
<1> QED BY <1>1, <1>4, <1>5 DEF NumbersInv, NumberingSound, NumbersInOrder

\* The end of a transaction leaves nobody who has taken a number.
LEMMA ReleaseKeeps ==
  ASSUME NumbersInv, NEW r \in Requests, Release(r), create[r].at \in {"seq", "insert"},
         seq' \in Nat, seq' = seq \/ create[r].at = "insert"
  PROVE  /\ NumbersTaken' /\ create' \in [Requests -> Creations]
         /\ {seqHolder', keyHolder'} \subseteq Requests \cup {Nobody}
<1> USE NumbersAssumption
<1>1. /\ create \in [Requests -> Creations]
      /\ create' = [create EXCEPT ![r] = Resting]
      /\ seqHolder' = IF seqHolder = r THEN Nobody ELSE seqHolder
  BY DEF NumbersInv, NumberingSound, NumbersTypeOK, Release, Ends
<1>2. Resting \in Creations /\ Resting.at = "idle"
  BY DEF Resting, Creations
<1>3. NumbersTaken'
  BY <1>1, <1>2 DEF NumbersInv, NumbersTaken
<1>4. {seqHolder', keyHolder'} \subseteq Requests \cup {Nobody}
  BY DEF NumbersInv, NumberingSound, NumbersTypeOK, Release
<1> QED BY <1>1, <1>2, <1>3, <1>4

\* A transaction that fails leaves no trace of its numbers.
LEMMA AbortKeeps ==
  ASSUME NumbersInv, NEW r \in Requests, AbortIssues(r)
  PROVE  NumbersInv'
<1>1. NumbersTaken' /\ create' \in [Requests -> Creations]
      /\ {seqHolder', keyHolder'} \subseteq Requests \cup {Nobody}
  BY ReleaseKeeps DEF AbortIssues, NumbersInv, NumberingSound, NumbersTypeOK
<1> QED BY <1>1 DEF AbortIssues, NumbersInv, NumberingSound, NumbersTypeOK, NumbersInOrder

\* A transaction that commits appends the numbers it has taken.
LEMMA CommitKeeps ==
  ASSUME NumbersInv, NEW r \in Requests, CommitIssues(r) \/ PlainCommitIssues(r)
  PROVE  NumbersInv'
<1> DEFINE n == create[r].n
<1>1. /\ create[r].at = "insert" /\ Release(r) /\ seq' = create[r].num
      /\ log' = log \o [i \in 1..n |-> create[r].num - n + i]
  BY DEF CommitIssues, PlainCommitIssues
<1>2. /\ seq \in Nat /\ n \in Nat /\ n >= 1 /\ create[r].num = seq + n /\ log = [i \in 1..seq |-> i]
      /\ create[r].hash \in Bodies \cup {0} /\ create \in [Requests -> Creations]
  BY <1>1 DEF NumbersInv, NumberingSound, NumbersTypeOK, NumbersInOrder, NumbersTaken, Creations
<1>3. NumbersInOrder'
  BY <1>1, <1>2, Consecutive DEF NumbersInOrder
<1>4. NumbersTaken' /\ create' \in [Requests -> Creations]
      /\ {seqHolder', keyHolder'} \subseteq Requests \cup {Nobody}
  BY <1>1, <1>2, ReleaseKeeps
<1>5. key' \in KeyRows /\ (key'.there => key'.hash \in Bodies /\ key'.num \in 1..seq')
  <2>1. CASE create[r].hash = 0
    <3>1. key' = key
      BY <2>1 DEF CommitIssues, PlainCommitIssues
    <3> QED BY <1>1, <1>2, <3>1 DEF NumbersInv, NumberingSound, NumbersTypeOK, KeyRows
  <2>2. CASE create[r].hash # 0
    <3>1. key' = [there |-> TRUE, hash |-> create[r].hash, num |-> create[r].num, old |-> FALSE]
      BY <2>2 DEF CommitIssues, PlainCommitIssues
    <3> QED BY <1>1, <1>2, <2>2, <3>1 DEF KeyRows
  <2> QED BY <2>1, <2>2
<1> QED BY <1>1, <1>2, <1>3, <1>4, <1>5 DEF NumbersInv, NumberingSound, NumbersTypeOK

\* The key grows a day old.
LEMMA AgesKeep == NumbersInv /\ KeyAges => NumbersInv'
<1> SUFFICES ASSUME NumbersInv, KeyAges PROVE NumbersInv'
  OBVIOUS
<1>1. key \in KeyRows /\ key' = [key EXCEPT !.old = TRUE]
  BY DEF KeyAges, NumbersInv, NumberingSound, NumbersTypeOK
<1>2. key' \in KeyRows /\ key'.there = key.there /\ key'.hash = key.hash /\ key'.num = key.num
  BY <1>1 DEF KeyRows
<1>3. NumbersTypeOK'
  BY <1>2 DEF KeyAges, NumbersInv, NumberingSound, NumbersTypeOK
<1> QED BY <1>3 DEF KeyAges, NumbersInv, NumberingSound, NumbersInOrder, NumbersTaken

\* Nothing has been created.
LEMMA InitNumbers == NumbersInit => NumbersInv
<1> SUFFICES ASSUME NumbersInit PROVE NumbersInv
  OBVIOUS
<1>1. NumbersTypeOK /\ NumbersTaken
  BY NumbersAssumption
  DEF NumbersInit, NumbersTypeOK, NumbersTaken, NoKey, KeyRows, Resting, Creations
<1>2. NumbersInOrder
  BY DEF NumbersInit, NumbersInOrder
<1> QED BY <1>1, <1>2 DEF NumbersInv, NumberingSound

\* A step that changes nothing.
LEMMA StutterKeeps == NumbersInv /\ UNCHANGED numberVars => NumbersInv'
BY DEF NumbersInv, NumberingSound, NumbersTypeOK, NumbersInOrder, NumbersTaken, numberVars

\* hCreateIssue and hBulkCreate of go-1: issues are numbered 1, 2, 3... in the order in which
\* readers come to see them, whatever fails and however many requests run.
THEOREM NumberedInOrder == NumbersSpec => []NumberingSound
<1>1. NumbersInv /\ [NumbersNext]_numberVars => NumbersInv'
  BY BeginKeeps, KeyStepKeeps, TakeKeeps, CommitKeeps, AbortKeeps, AgesKeep, StutterKeeps
  DEF NumbersNext
<1>2. NumbersInv => NumberingSound
  BY DEF NumbersInv
<1> QED BY <1>1, <1>2, InitNumbers, PTL DEF NumbersSpec

\* createIssue and bulkCreateIssues of go-plain-1: the same.
THEOREM PlainNumberedInOrder == PlainNumbersSpec => []NumberingSound
<1>1. NumbersInv /\ [PlainNumbersNext]_numberVars => NumbersInv'
  BY BeginKeeps, KeyStepKeeps, TakeKeeps, CommitKeeps, AbortKeeps, AgesKeep, StutterKeeps
  DEF PlainNumbersNext
<1>2. NumbersInv => NumberingSound
  BY DEF NumbersInv
<1> QED BY <1>1, <1>2, InitNumbers, PTL DEF PlainNumbersSpec

-----------------------------------------------------------------------------
(* The Idempotency-Key. *)

\* A request that goes on to make an issue with the key.
Creating(r) == create[r].at \in {"seq", "insert"} /\ create[r].hash # 0

\* It holds the row of the key, which is not there or a day old.
KeyHeld ==
  \A r \in Requests : Creating(r) => keyHolder = r /\ (key.there => key.old)

\* Until a young row is deleted, the issue made today is the one the row names.
OnceToday ==
  \/ purged
  \/ today = {}
  \/ key.there /\ ~ key.old /\ today = {key.num}

KeyInv == purged \in BOOLEAN /\ KeyHeld /\ OnceToday

\* A request moves on without an issue; a row that vanishes was old, or is on record.
LEMMA KeyMoves ==
  ASSUME NumbersInv, KeyInv, NEW r \in Requests, create' = [create EXCEPT ![r] = create'[r]],
         Creating(r)' => keyHolder' = r /\ (key'.there => key'.old),
         keyHolder' = keyHolder \/ keyHolder \in {Nobody, r},
         key' = key \/ key' = NoKey, today' = today, purged' \in BOOLEAN, purged => purged',
         key' # key => purged' \/ (key.there => key.old)
  PROVE  KeyInv'
<1>1. \A q \in Requests : q # r => create'[q] = create[q]
  BY DEF NumbersInv, NumberingSound, NumbersTypeOK
<1>2. ~ NoKey.there
  BY DEF NoKey
<1>3. KeyHeld'
  <2> SUFFICES ASSUME NEW q \in Requests, Creating(q)'
               PROVE  keyHolder' = q /\ (key'.there => key'.old)
    BY DEF KeyHeld
  <2>1. CASE q = r
    BY <2>1
  <2>2. CASE q # r
    <3>1. Creating(q)
      BY <1>1, <2>2 DEF Creating
    <3>2. keyHolder = q /\ (key.there => key.old) /\ q # Nobody
      BY <3>1, NumbersAssumption DEF KeyInv, KeyHeld
    <3> QED BY <1>2, <2>2, <3>2
  <2> QED BY <2>1, <2>2
<1>4. OnceToday'
  BY <1>2 DEF KeyInv, OnceToday
<1> QED BY <1>3, <1>4 DEF KeyInv

\* Where a request can go.
LEMMA Onward ==
  ASSUME NumbersInv, NEW r \in Requests
  PROVE  /\ \A at : Goes(r, at) => create'[r].at = at /\ create'[r].hash = create[r].hash
         /\ Ends(r) => create'[r].at = "idle"
         /\ Again(r) => create'[r].at \in {"idle", "try"}
         /\ Ends(r) \/ Again(r) \/ (\E at : Goes(r, at)) =>
              create' = [create EXCEPT ![r] = create'[r]]
<1>1. create \in [Requests -> Creations]
  BY DEF NumbersInv, NumberingSound, NumbersTypeOK
<1>2. ASSUME NEW at, Goes(r, at)
      PROVE  /\ create'[r].at = at /\ create'[r].hash = create[r].hash
             /\ create' = [create EXCEPT ![r] = create'[r]]
  <2>1. create'[r] = [create[r] EXCEPT !.at = at] /\ create' = [create EXCEPT ![r] = create'[r]]
    BY <1>1, <1>2 DEF Goes
  <2> QED BY <1>1, <2>1 DEF Creations
<1>3. ASSUME Ends(r)
      PROVE  create'[r].at = "idle" /\ create' = [create EXCEPT ![r] = create'[r]]
  BY <1>1, <1>3 DEF Ends, Resting
<1>4. ASSUME Again(r)
      PROVE  create'[r].at \in {"idle", "try"} /\ create' = [create EXCEPT ![r] = create'[r]]
  <2> DEFINE d == [create[r] EXCEPT !.at = "try", !.tries = create[r].tries + 1]
  <2>1. d.at = "try"
    BY <1>1 DEF Creations
  <2>2. \/ create' = [create EXCEPT ![r] = Resting]
        \/ create' = [create EXCEPT ![r] = d]
    BY <1>4 DEF Again
  <2> HIDE DEF d
  <2>3. CASE create' = [create EXCEPT ![r] = Resting]
    BY <1>1, <2>3 DEF Resting
  <2>4. CASE create' = [create EXCEPT ![r] = d]
    BY <1>1, <2>1, <2>4
  <2> QED BY <2>2, <2>3, <2>4
<1> QED BY <1>2, <1>3, <1>4

\* A request begins beside the others.
LEMMA BeginKey ==
  ASSUME NumbersInv, KeyInv, NEW r \in Requests,
         \/ \E hash \in Bodies \cup {0} : CreateIssue(r, hash)
         \/ \E n \in 1..MaxBulk : BulkCreate(r, n) \/ PlainBulkCreate(r, n)
  PROVE  KeyInv'
<1>1. /\ UNCHANGED <<key, keyHolder, today, purged>>
      /\ create \in [Requests -> Creations]
  BY DEF CreateIssue, BulkCreate, PlainBulkCreate, NumbersInv, NumberingSound, NumbersTypeOK
<1>2. create' = [create EXCEPT ![r] = create'[r]] /\ ~ Creating(r)'
  <2>1. ASSUME NEW hash \in Bodies \cup {0}, CreateIssue(r, hash)
        PROVE  create' = [create EXCEPT ![r] = create'[r]] /\ ~ Creating(r)'
    BY <1>1, <2>1 DEF CreateIssue, Creating
  <2>2. ASSUME NEW n \in 1..MaxBulk, BulkCreate(r, n) \/ PlainBulkCreate(r, n)
        PROVE  create' = [create EXCEPT ![r] = create'[r]] /\ ~ Creating(r)'
    <3> DEFINE d == [Resting EXCEPT !.at = "seq", !.n = n]
    <3>1. create' = [create EXCEPT ![r] = d]
      BY <2>2 DEF BulkCreate, PlainBulkCreate
    <3>2. d.hash = 0
      BY DEF Resting
    <3> HIDE DEF d
    <3> QED BY <1>1, <3>1, <3>2 DEF Creating
  <2> QED BY <2>1, <2>2
<1> QED BY <1>1, <1>2, KeyMoves DEF KeyInv

\* The statements about the key: the first to insert it holds its row.
LEMMA KeyStepKey ==
  ASSUME NumbersInv, KeyInv, NEW r \in Requests,
         TryKey(r) \/ LookKey(r) \/ PurgeKey(r) \/ PlainTryKey(r) \/ PlainLookKey(r)
  PROVE  KeyInv'
<1>1. CASE TryKey(r) \/ PlainTryKey(r)
  <2>1. /\ keyHolder = Nobody /\ UNCHANGED <<key, today, purged>>
        /\ \/ Goes(r, "look")
           \/ Goes(r, "seq") /\ keyHolder' = r /\ (key.there => key.old)
    BY <1>1 DEF TryKey, PlainTryKey
  <2>2. /\ create' = [create EXCEPT ![r] = create'[r]]
        /\ Creating(r)' => keyHolder' = r /\ (key'.there => key'.old)
    BY <2>1, Onward DEF Creating
  <2> QED BY <2>1, <2>2, KeyMoves DEF KeyInv
<1>2. CASE LookKey(r) \/ PlainLookKey(r)
  <2>1. /\ UNCHANGED <<key, keyHolder, today, purged>>
        /\ Again(r) \/ Goes(r, "purge") \/ Ends(r)
    BY <1>2 DEF LookKey, PlainLookKey
  <2>2. create' = [create EXCEPT ![r] = create'[r]] /\ ~ Creating(r)'
    BY <2>1, Onward DEF Creating
  <2> QED BY <2>1, <2>2, KeyMoves DEF KeyInv
<1>3. CASE PurgeKey(r)
  <2>1. /\ UNCHANGED <<keyHolder, today>> /\ Again(r)
        /\ \/ key' = NoKey /\ purged' = (purged \/ (key.there /\ ~ key.old))
           \/ UNCHANGED <<key, purged>>
    BY <1>3 DEF PurgeKey
  <2>2. create' = [create EXCEPT ![r] = create'[r]] /\ ~ Creating(r)'
    BY <2>1, Onward DEF Creating
  <2>3. /\ purged' \in BOOLEAN /\ (purged => purged')
        /\ key' # key => purged' \/ (key.there => key.old)
    <3>1. CASE UNCHANGED <<key, purged>>
      BY <3>1 DEF KeyInv
    <3>2. CASE purged' = (purged \/ (key.there /\ ~ key.old))
      <4>1. purged' \in BOOLEAN
        BY <3>2
      <4>2. (purged => purged') /\ (purged' \/ (key.there => key.old))
        BY <3>2
      <4> QED BY <4>1, <4>2
    <3> QED BY <2>1, <3>1, <3>2
  <2> QED BY <2>1, <2>2, <2>3, KeyMoves
<1> QED BY <1>1, <1>2, <1>3

\* Taking a number leaves the key alone.
LEMMA TakeKey ==
  ASSUME NumbersInv, KeyInv, NEW r \in Requests, TakeNumber(r) \/ PlainTakeNumber(r)
  PROVE  KeyInv'
<1>1. /\ create[r].at = "seq" /\ UNCHANGED <<key, keyHolder, today, purged>>
      /\ create' = [create EXCEPT ![r].at = "insert", ![r].num = seq + create[r].n]
  BY DEF TakeNumber, PlainTakeNumber
<1>2. create \in [Requests -> Creations]
  BY DEF NumbersInv, NumberingSound, NumbersTypeOK
<1>3. create' = [create EXCEPT ![r] = create'[r]] /\ create'[r].hash = create[r].hash
  BY <1>1, <1>2 DEF Creations
<1>4. Creating(r)' => Creating(r)
  BY <1>1, <1>3 DEF Creating
<1> QED BY <1>1, <1>3, <1>4, KeyMoves DEF KeyInv, KeyHeld

\* A transaction that fails gives the row back.
LEMMA AbortKey ==
  ASSUME NumbersInv, KeyInv, NEW r \in Requests, AbortIssues(r)
  PROVE  KeyInv'
<1>1. /\ UNCHANGED <<key, today, purged>> /\ Ends(r)
      /\ keyHolder' = keyHolder \/ keyHolder = r
  BY DEF AbortIssues, Release
<1>2. create' = [create EXCEPT ![r] = create'[r]] /\ ~ Creating(r)'
  BY <1>1, Onward DEF Creating
<1> QED BY <1>1, <1>2, KeyMoves DEF KeyInv

\* A transaction that commits with the key was the only one of today.
LEMMA CommitKey ==
  ASSUME NumbersInv, KeyInv, NEW r \in Requests, CommitIssues(r) \/ PlainCommitIssues(r)
  PROVE  KeyInv'
<1>1. /\ create[r].at = "insert" /\ Release(r) /\ purged' = purged
      /\ IF create[r].hash = 0 THEN UNCHANGED <<key, today>>
         ELSE /\ key' = [there |-> TRUE, hash |-> create[r].hash, num |-> create[r].num,
                         old |-> FALSE]
              /\ today' = today \cup {create[r].num}
  BY DEF CommitIssues, PlainCommitIssues
<1>2. Ends(r) /\ (keyHolder' = keyHolder \/ keyHolder = r)
  BY <1>1 DEF Release
<1>3. create' = [create EXCEPT ![r] = create'[r]] /\ ~ Creating(r)'
  BY <1>2, Onward DEF Creating
<1>4. CASE create[r].hash = 0
  BY <1>1, <1>2, <1>3, <1>4, KeyMoves DEF KeyInv
<1>5. CASE create[r].hash # 0
  <2>1. Creating(r) /\ keyHolder = r /\ (key.there => key.old)
    BY <1>1, <1>5 DEF Creating, KeyInv, KeyHeld
  <2>2. \A q \in Requests : q # r => ~ Creating(q) /\ create'[q] = create[q]
    BY <1>3, <2>1 DEF KeyInv, KeyHeld, NumbersInv, NumberingSound, NumbersTypeOK
  <2>3. KeyHeld'
    BY <1>3, <2>2 DEF KeyHeld, Creating
  <2>4. purged \/ today = {}
    BY <2>1 DEF KeyInv, OnceToday
  <2>5. /\ key'.there /\ ~ key'.old /\ key'.num = create[r].num
        /\ today' = today \cup {create[r].num}
    BY <1>1, <1>5
  <2>6. OnceToday'
    BY <1>1, <2>4, <2>5 DEF OnceToday
  <2> QED BY <1>1, <2>3, <2>6 DEF KeyInv
<1> QED BY <1>4, <1>5

\* A day passes: nobody is about to use the key, whose row is young.
LEMMA AgesKey ==
  ASSUME NumbersInv, KeyInv, KeyAges
  PROVE  KeyInv'
<1>1. /\ key.there /\ ~ key.old /\ today' = {} /\ UNCHANGED <<keyHolder, create, purged>>
  BY DEF KeyAges
<1>2. \A r \in Requests : ~ Creating(r)
  BY <1>1 DEF KeyInv, KeyHeld
<1>3. KeyHeld' /\ OnceToday'
  BY <1>1, <1>2 DEF KeyHeld, OnceToday, Creating
<1> QED BY <1>1, <1>3 DEF KeyInv

\* Initially no key has made an issue.
LEMMA InitKey == NumbersInit => KeyInv
<1> SUFFICES ASSUME NumbersInit PROVE KeyInv
  OBVIOUS
<1>1. purged \in BOOLEAN
  BY Zenon DEF NumbersInit
<1>2. \A r \in Requests : create[r].at = "idle"
  BY DEF NumbersInit, Resting
<1> QED BY <1>1, <1>2 DEF NumbersInit, KeyInv, KeyHeld, OnceToday, Creating

\* A step of somebody else changes nothing of it.
LEMMA StutterKey == KeyInv /\ UNCHANGED numberVars => KeyInv'
BY DEF KeyInv, KeyHeld, OnceToday, Creating, numberVars

\* The invariant says what the property says.
LEMMA OnceSuffices == KeyInv => TwiceOnlyByPurge
<1> SUFFICES ASSUME KeyInv PROVE TwiceOnlyByPurge
  OBVIOUS
<1>1. Cardinality({}) = 0 /\ \A x : Cardinality({x}) = 1
  BY FS_EmptySet, FS_Singleton
<1>2. CASE purged
  BY <1>2 DEF TwiceOnlyByPurge
<1>3. CASE today = {}
  <2>1. Cardinality(today) = 0
    BY <1>1, <1>3
  <2> QED BY <2>1 DEF TwiceOnlyByPurge
<1>4. CASE today = {key.num}
  <2>1. Cardinality(today) = 1
    BY <1>1, <1>4
  <2> QED BY <2>1 DEF TwiceOnlyByPurge
<1> QED BY <1>2, <1>3, <1>4 DEF KeyInv, OnceToday

\* hCreateIssue of go-1 with an Idempotency-Key (issues.go): whatever the requests do, a
\* second issue within a day comes only of a DELETE that meets a row made since it was read.
THEOREM KeyOnceADay == NumbersSpec => []TwiceOnlyByPurge
<1>1. NumbersInv /\ KeyInv /\ [NumbersNext]_numberVars => NumbersInv' /\ KeyInv'
  BY BeginKeeps, KeyStepKeeps, TakeKeeps, CommitKeeps, AbortKeeps, AgesKeep, StutterKeeps,
     BeginKey, KeyStepKey, TakeKey, CommitKey, AbortKey, AgesKey, StutterKey
  DEF NumbersNext
<1> QED BY <1>1, InitNumbers, InitKey, OnceSuffices, PTL DEF NumbersSpec

\* In go-plain-1 nothing deletes the row of a key.
PlainKeyInv == NumbersInv /\ KeyInv /\ ~ purged

\* createIssue of go-plain-1: its transaction takes over an old row instead of deleting it,
\* so a key makes one issue a day, whatever the requests do.
THEOREM PlainKeyOnceADay == PlainNumbersSpec => [](TwiceOnlyByPurge /\ ~ purged)
<1>1. NumbersInit => PlainKeyInv
  BY InitNumbers, InitKey DEF NumbersInit, PlainKeyInv
<1>2. PlainKeyInv /\ [PlainNumbersNext]_numberVars => PlainKeyInv'
  <2>1. [PlainNumbersNext]_numberVars => purged' = purged
    BY DEF PlainNumbersNext, numberVars, KeyAges, CreateIssue, PlainBulkCreate, PlainTryKey,
           PlainLookKey, PlainTakeNumber, PlainCommitIssues, AbortIssues
  <2>2. NumbersInv /\ KeyInv /\ [PlainNumbersNext]_numberVars => NumbersInv' /\ KeyInv'
    BY BeginKeeps, KeyStepKeeps, TakeKeeps, CommitKeeps, AbortKeeps, AgesKeep, StutterKeeps,
       BeginKey, KeyStepKey, TakeKey, CommitKey, AbortKey, AgesKey, StutterKey
    DEF PlainNumbersNext
  <2> QED BY <2>1, <2>2 DEF PlainKeyInv
<1>3. PlainKeyInv => TwiceOnlyByPurge /\ ~ purged
  BY OnceSuffices DEF PlainKeyInv
<1> QED BY <1>1, <1>2, <1>3, PTL DEF PlainNumbersSpec

-----------------------------------------------------------------------------
(* Identifiers.                                                            *)

\* A later millisecond is worth at least as many counters.
LEMMA Scaled ==
  ASSUME NEW k \in Nat, NEW a \in Nat, NEW b \in Nat, a <= b
  PROVE  k * a <= k * b
<1>1. PICK d \in Nat : b = a + d
  BY b - a \in Nat
<1>2. k * b = k * a + k * d
  BY <1>1
<1>3. k * d \in Nat /\ k * a \in Nat
  OBVIOUS
<1> QED BY <1>2, <1>3

\* newID keeps the invariant in each of its three branches.
LEMMA NewIDKeeps == IdsInv /\ NewID => IdsInv'
<1> SUFFICES ASSUME IdsInv, NewID PROVE IdsInv'
  OBVIOUS
<1> USE IdsAssumption
<1> DEFINE k == SeqMax + 1
<1>1. /\ now \in 1..MaxNow /\ idLastMs \in Nat /\ idSeq \in 0..SeqMax /\ ids \in Nat
      /\ lastId = <<idLastMs, idSeq>> /\ risen
      /\ k * idLastMs + idSeq <= k * MaxNow + ids
  BY DEF IdsInv, IdsRise
<1>2. now' = now /\ ids' = ids + 1 /\ lastId' = <<idLastMs', idSeq'>>
  BY DEF NewID, NextSeq
<1>3. CASE now > idLastMs
  <2>1. IdLess(lastId, <<now, 0>>)
    BY <1>1, <1>3 DEF IdLess
  <2>2. ~(now <= idLastMs)
    BY <1>1, <1>3
  <2>3. idLastMs' = now /\ idSeq' = 0 /\ risen' = (risen /\ IdLess(lastId, <<now, 0>>))
    BY <2>2 DEF NewID
  <2>4. idLastMs' = now /\ idSeq' = 0 /\ risen'
    BY <1>1, <2>1, <2>3
  <2>5. k * now <= k * MaxNow
    BY <1>1, Scaled
  <2>6. k * now \in Nat /\ k * MaxNow \in Nat
    BY <1>1
  <2> QED BY <1>1, <1>2, <2>4, <2>5, <2>6 DEF IdsInv, IdsRise
<1>4. CASE now <= idLastMs /\ idSeq = SeqMax
  <2>1. NextSeq = <<idLastMs + 1, 0>>
    BY <1>1, <1>4 DEF NextSeq
  <2>2. IdLess(lastId, NextSeq)
    BY <1>1, <2>1 DEF IdLess
  <2>3. idLastMs' = NextSeq[1] /\ idSeq' = NextSeq[2] /\ risen' = (risen /\ IdLess(lastId, NextSeq))
    BY <1>1, <1>4 DEF NewID
  <2>4. idLastMs' = idLastMs + 1 /\ idSeq' = 0 /\ risen'
    BY <1>1, <2>1, <2>2, <2>3
  <2>5. k * (idLastMs + 1) = k * idLastMs + k
    BY <1>1
  <2>6. k * idLastMs \in Nat /\ k * MaxNow \in Nat
    BY <1>1
  <2> QED BY <1>1, <1>2, <1>4, <2>4, <2>5, <2>6 DEF IdsInv, IdsRise
<1>5. CASE now <= idLastMs /\ idSeq < SeqMax
  <2>1. NextSeq = <<idLastMs, idSeq + 1>>
    BY <1>1, <1>5 DEF NextSeq
  <2>2. IdLess(lastId, NextSeq)
    BY <1>1, <2>1 DEF IdLess
  <2>3. idLastMs' = NextSeq[1] /\ idSeq' = NextSeq[2] /\ risen' = (risen /\ IdLess(lastId, NextSeq))
    BY <1>1, <1>5 DEF NewID
  <2>4. idLastMs' = idLastMs /\ idSeq' = idSeq + 1 /\ risen'
    BY <1>1, <2>1, <2>2, <2>3
  <2>5. k * idLastMs \in Nat /\ k * MaxNow \in Nat
    BY <1>1
  <2> QED BY <1>1, <1>2, <1>5, <2>4, <2>5 DEF IdsInv, IdsRise
<1> QED BY <1>1, <1>3, <1>4, <1>5

\* newID (util.go:32): for every width of the counter and every course of the clock, the ids
\* of a process rise, and run ahead of the clock by no more than the counters used up.
THEOREM IdsAlwaysRise == IdsSpec => []IdsRise
<1>1. IdsInit => IdsInv
  BY IdsAssumption DEF IdsInit, IdsInv, IdsRise
<1>2. IdsInv /\ [IdsNext]_idVars => IdsInv'
  <2>1. IdsInv /\ Clock => IdsInv'
    BY IdsAssumption DEF IdsInv, IdsRise, Clock
  <2>2. IdsInv /\ UNCHANGED idVars => IdsInv'
    BY DEF IdsInv, IdsRise, idVars
  <2> QED BY <2>1, <2>2, NewIDKeeps DEF IdsNext
<1>3. IdsInv => IdsRise
  BY DEF IdsInv
<1> QED BY <1>1, <1>2, <1>3, PTL DEF IdsSpec

-----------------------------------------------------------------------------
(***************************************************************************)
(* Pages of a list.  That a row is shown once when the walk is over has to *)
(* be said of every page: of the rows that stay, exactly those up to the   *)
(* cursor have been shown (CursorInv); of a list that does not change,     *)
(* exactly the prefix that the offset counts (OffsetInv), which rests on   *)
(* there being one order only (SortedUnique).                              *)
(***************************************************************************)
Lists == {"issues"} \cup Ascending \cup Descending \cup PlainLists

WalkRecs == [at : {"idle", "walking", "counted", "done"}, list : Lists, byCol : {TRUE, FALSE},
             desc : {TRUE, FALSE}, limit : Nat \ {0}, cursor : [col : Nat, key : Nat],
             offset : Nat, seen : Seq(RowKeys), total : Nat]

ListTypes ==
  /\ listed \subseteq RowKeys /\ column \in [RowKeys -> Columns] /\ touched \subseteq RowKeys
  /\ edits \in Nat /\ walk \in WalkRecs

\* The rows that the client has been shown.
Shown == {walk.seen[k] : k \in DOMAIN walk.seen}
Walking == walk.at \in {"walking", "counted"}

\* By cursor: of the rows that stay, those up to the cursor have been shown.
CursorInv == walk.list \notin PlainLists /\ walk.at # "idle" =>
  /\ \A x \in Shown \ touched : x \in listed /\ (Walking => ~ After(x))
  /\ \A x \in listed \ touched : walk.at = "done" \/ ~ After(x) => x \in Shown

\* By offset: of a list that does not change, a prefix has been shown.
OffsetInv == walk.list \in PlainLists /\ touched = {} =>
  /\ Walking => \A rows \in Sorted(listed) :
                  walk.offset <= Len(rows) /\ walk.seen = SubSeq(rows, 1, walk.offset)
  /\ walk.at = "done" => walk.seen \in Sorted(listed)

TotalInv ==
  walk.list \in {"issues", "plain-issues"} /\ walk.at \in {"counted", "done"} /\ touched = {} =>
    walk.total = Cardinality(listed)

PageInv == Walking => Len(walk.seen) % walk.limit = 0

StartInv == walk.at = "idle" => walk.seen = <<>> /\ touched = {}

WalkInv == ListTypes /\ StayersInOrder /\ CursorInv /\ OffsetInv /\ TotalInv /\ PageInv /\ StartInv

-----------------------------------------------------------------------------
\* The order of a list is total and strict.
LEMMA OrderTotal ==
  ASSUME ListTypes
  PROVE  \A x, y, z \in RowKeys :
           /\ ~ Ordered(x, x)
           /\ Ordered(x, y) \/ Ordered(y, x) \/ x = y
           /\ Ordered(x, y) => ~ Ordered(y, x)
           /\ Ordered(x, y) /\ Ordered(y, z) => Ordered(x, z)
<1>1. \A x \in RowKeys : x \in Nat /\ column[x] \in Nat
  BY ListAssumption DEF ListTypes
<1>2. CASE walk.byCol
  BY <1>1, <1>2 DEF Ordered
<1>3. CASE ~ walk.byCol
  BY <1>1, <1>3 DEF Ordered
<1> QED BY <1>2, <1>3

\* The cursor cuts the list in two.
LEMMA AfterCuts ==
  ASSUME ListTypes
  PROVE  \A x, y \in RowKeys :
           /\ After(x) /\ Ordered(x, y) => After(y)
           /\ ~ After(x) /\ After(y) => Ordered(x, y)
<1>1. \A x \in RowKeys : x \in Nat /\ column[x] \in Nat
  BY ListAssumption DEF ListTypes
<1>2. walk.cursor.col \in Nat /\ walk.cursor.key \in Nat
  BY DEF ListTypes, WalkRecs
<1>3. CASE walk.cursor = NoCursor
  BY <1>3 DEF After
<1>4. CASE walk.cursor # NoCursor /\ walk.byCol
  BY <1>1, <1>2, <1>4 DEF Ordered, After
<1>5. CASE walk.cursor # NoCursor /\ ~ walk.byCol
  BY <1>1, <1>2, <1>5 DEF Ordered, After
<1> QED BY <1>3, <1>4, <1>5

\* A sorted list has each row of S once, in order.
LEMMA SortedFacts ==
  ASSUME ListTypes, NEW S \in SUBSET RowKeys, NEW rows \in Sorted(S)
  PROVE  /\ rows \in Seq(RowKeys) /\ Len(rows) = Cardinality(S) /\ Len(rows) \in Nat
         /\ \A x \in S : \E i \in 1..Len(rows) : rows[i] = x
         /\ \A i \in 1..Len(rows) : rows[i] \in S
         /\ \A i, j \in 1..Len(rows) : i < j => Ordered(rows[i], rows[j])
         /\ \A i, j \in 1..Len(rows) : rows[i] = rows[j] => i = j
<1> DEFINE n == Cardinality(S)
<1>1. IsFiniteSet(S) /\ n \in Nat
  BY ListAssumption, FS_Subset, FS_CardinalityType
<1>2. rows \in [1..n -> S] /\ \A j, k \in 1..n : j < k => Ordered(rows[j], rows[k])
  BY <1>1 DEF Sorted
<1>3. rows \in Seq(RowKeys) /\ Len(rows) = n
  BY <1>1, <1>2
<1>4. \A i, j \in 1..n : rows[i] = rows[j] => i = j
  <2>1. SUFFICES ASSUME NEW i \in 1..n, NEW j \in 1..n, rows[i] = rows[j], i # j PROVE FALSE
    OBVIOUS
  <2>2. rows[i] \in RowKeys
    BY <1>2
  <2>3. i < j \/ j < i
    BY <1>1, <2>1
  <2> QED BY <1>2, <2>1, <2>2, <2>3, OrderTotal
<1>5. rows \in Injection(1..n, S)
  BY <1>2, <1>4 DEF Injection, IsInjective
<1>6. Cardinality(1..n) = n
  BY <1>1, FS_Interval
<1>7. rows \in Surjection(1..n, S)
  BY <1>1, <1>5, <1>6, FS_Injection
<1>8. \A x \in S : \E i \in 1..n : rows[i] = x
  BY <1>7 DEF Surjection
<1> QED BY <1>1, <1>2, <1>3, <1>4, <1>8

\* The rows before the ith are those that the order puts before it.
LEMMA Rank ==
  ASSUME ListTypes, NEW S \in SUBSET RowKeys, NEW rows \in Sorted(S), NEW i \in 1..Len(rows)
  PROVE  Cardinality({y \in S : Ordered(y, rows[i])}) = i - 1
<1> DEFINE B == {y \in S : Ordered(y, rows[i])}
           f == [j \in 1..(i - 1) |-> rows[j]]
<1>1. /\ rows \in Seq(RowKeys) /\ Len(rows) \in Nat
      /\ \A x \in S : \E j \in 1..Len(rows) : rows[j] = x
      /\ \A j \in 1..Len(rows) : rows[j] \in S
      /\ \A j, k \in 1..Len(rows) : j < k => Ordered(rows[j], rows[k])
      /\ \A j, k \in 1..Len(rows) : rows[j] = rows[k] => j = k
  BY SortedFacts
<1>2. \A j \in 1..(i - 1) : j \in 1..Len(rows) /\ j < i
  BY <1>1
<1>3. \A j \in 1..(i - 1) : f[j] \in B
  BY <1>1, <1>2
<1>4. ASSUME NEW y \in B PROVE \E j \in 1..(i - 1) : f[j] = y
  <2>1. PICK j \in 1..Len(rows) : rows[j] = y
    BY <1>1
  <2>2. ~ (j = i) /\ ~ (i < j)
    <3>1. y \in RowKeys /\ rows[i] \in RowKeys
      BY <1>1
    <3>2. Ordered(y, rows[i])
      OBVIOUS
    <3> QED BY <1>1, <2>1, <3>1, <3>2, OrderTotal
  <2>3. j \in 1..(i - 1)
    BY <1>1, <2>2
  <2> QED BY <2>1, <2>3
<1>5. \A j, k \in 1..(i - 1) : f[j] = f[k] => j = k
  BY <1>1, <1>2
<1> HIDE DEF f, B
<1>6. f \in [1..(i - 1) -> B]
  BY <1>3 DEF f
<1>7. f \in Bijection(1..(i - 1), B)
  BY <1>4, <1>5, <1>6 DEF Bijection, Injection, IsInjective, Surjection
<1>8. IsFiniteSet(1..(i - 1)) /\ Cardinality(1..(i - 1)) = i - 1
  <2>1. i \in Int /\ i - 1 \in Int /\ i >= 1
    BY <1>1
  <2> QED BY <2>1, FS_Interval
<1>9. Cardinality(B) = i - 1
  BY <1>7, <1>8, FS_Bijection DEF ExistsBijection
<1> QED BY <1>9 DEF B

\* There is only one way to sort.
LEMMA SortedUnique ==
  ASSUME ListTypes, NEW S \in SUBSET RowKeys, NEW r \in Sorted(S), NEW s \in Sorted(S)
  PROVE  r = s
<1>1. /\ r \in Seq(RowKeys) /\ s \in Seq(RowKeys) /\ Len(r) = Len(s) /\ Len(r) \in Nat
      /\ \A i \in 1..Len(r) : r[i] \in S /\ s[i] \in S
  BY SortedFacts
<1>2. ASSUME NEW i \in 1..Len(r), NEW x \in S, NEW y \in S, Ordered(x, y),
             Cardinality({z \in S : Ordered(z, x)}) = i - 1,
             Cardinality({z \in S : Ordered(z, y)}) = i - 1
      PROVE  FALSE
  <2> DEFINE A == {z \in S : Ordered(z, x)}
             B == {z \in S : Ordered(z, y)}
  <2>1. A \subseteq B /\ x \in B /\ x \notin A
    BY <1>2, OrderTotal
  <2>2. IsFiniteSet(B)
    BY ListAssumption, FS_Subset
  <2> HIDE DEF A, B
  <2>3. A = B
    BY <1>2, <2>1, <2>2, FS_Subset DEF A, B
  <2> QED BY <2>1, <2>3
<1>3. ASSUME NEW i \in 1..Len(r) PROVE r[i] = s[i]
  <2>1. r[i] \in S /\ s[i] \in S /\ i \in 1..Len(s)
    BY <1>1
  <2>2. Cardinality({z \in S : Ordered(z, r[i])}) = i - 1
    BY Rank
  <2>3. Cardinality({z \in S : Ordered(z, s[i])}) = i - 1
    BY <2>1, Rank
  <2>4. ~ Ordered(r[i], s[i]) /\ ~ Ordered(s[i], r[i])
    BY <1>2, <2>1, <2>2, <2>3
  <2>5. r[i] \in RowKeys /\ s[i] \in RowKeys
    BY <2>1
  <2> QED BY <2>4, <2>5, OrderTotal
<1> QED BY <1>1, <1>3

\* The steps: whichever list it is, a page goes on after a cursor or at an offset.
ListCases ==
  \/ \E list \in Lists, byCol, desc \in BOOLEAN, n \in PageSizes : BeginWalk(list, byCol, desc, n)
  \/ CountIssues \/ PlainCount
  \/ \E from \in {"walking", "counted"} :
       /\ walk.list \in {"issues", "plain-issues"} => from = "counted"
       /\ \/ walk.list \notin PlainLists /\ KeysetPage(from, "walking")
          \/ walk.list \in PlainLists /\ OffsetPage(from)
  \/ \E x \in RowKeys : Edit(x)

\* Every step of ListNext is one of these.
LEMMA ListSplit == ListNext => ListCases
<1> SUFFICES ASSUME ListNext PROVE ListCases
  OBVIOUS
<1> USE DEF ListCases
<1>1. ASSUME NEW n \in PageSizes, BeginIssues(n) \/ BeginList(n) \/ BeginPlain(n) PROVE ListCases
  BY <1>1 DEF BeginIssues, BeginList, BeginPlain, Lists, PlainLists
<1>2. CASE \/ ListIssues \/ ListOrgs \/ ListMembers \/ ListProjects \/ ListComments
           \/ ListHooks \/ History \/ ListDeliveries
  <2>1. \E from \in {"walking", "counted"} :
          /\ walk.list = "issues" => from = "counted"
          /\ walk.list \in {"issues"} \cup Ascending \cup Descending
          /\ KeysetPage(from, "walking")
    BY <1>2 DEF ListIssues, ListOrgs, ListMembers, ListProjects, ListComments, ListHooks,
                History, ListDeliveries, Ascending, Descending
  <2>2. walk.list \in {"issues"} \cup Ascending \cup Descending =>
          walk.list \notin PlainLists /\ walk.list # "plain-issues"
    BY DEF Ascending, Descending, PlainLists, PlainAscending, PlainDescending
  <2> QED BY <2>1, <2>2
<1>3. CASE \/ SearchIssues \/ PlainOrgs \/ PlainOrgMembers \/ PlainProjects \/ PlainProjMembers
           \/ PlainComments \/ PlainHooks \/ PlainHistory \/ PlainDeliveries
  <2>1. \E from \in {"walking", "counted"} :
          /\ walk.list = "plain-issues" => from = "counted"
          /\ walk.list \in PlainLists
          /\ OffsetPage(from)
    BY <1>3 DEF SearchIssues, PlainOrgs, PlainOrgMembers, PlainProjects, PlainProjMembers,
                PlainComments, PlainHooks, PlainHistory, PlainDeliveries,
                PlainLists, PlainAscending, PlainDescending
  <2>2. walk.list \in PlainLists => walk.list # "issues"
    BY DEF PlainLists, PlainAscending, PlainDescending
  <2> QED BY <2>1, <2>2
<1> QED BY <1>1, <1>2, <1>3 DEF ListNext

\* How many of n rows a page shows.
Cut(n) == IF walk.limit < n THEN walk.limit ELSE n

\* Upto takes that many rows.
LEMMA FirstRows ==
  ASSUME ListTypes, NEW rows \in Seq(RowKeys)
  PROVE  /\ Cut(Len(rows)) \in Nat /\ Cut(Len(rows)) <= Len(rows)
         /\ Upto(rows, walk.limit) = SubSeq(rows, 1, Cut(Len(rows)))
         /\ Upto(rows, walk.limit) \in Seq(RowKeys)
         /\ Len(Upto(rows, walk.limit)) = Cut(Len(rows))
         /\ \A i \in 1..Cut(Len(rows)) : Upto(rows, walk.limit)[i] = rows[i]
<1>1. walk.limit \in Nat \ {0} /\ Len(rows) \in Nat
  BY DEF ListTypes, WalkRecs
<1>2. Cut(Len(rows)) \in Nat /\ Cut(Len(rows)) <= Len(rows)
  BY <1>1 DEF Cut
<1>3. Upto(rows, walk.limit) = SubSeq(rows, 1, Cut(Len(rows)))
  BY DEF Upto, Cut
<1>4. \A i \in 1..Cut(Len(rows)) : rows[i] \in RowKeys
  BY <1>1, <1>2
<1> QED BY <1>2, <1>3, <1>4, SubSeqProperties

\* The parts of the walk after a page of a list with a cursor.
LEMMA KeysetFields ==
  ASSUME ListTypes, NEW from \in {"walking", "counted"}, KeysetPage(from, "walking")
  PROVE  \E rows \in Sorted({x \in listed : After(x)}) :
           /\ walk.at = from /\ walk' \in WalkRecs
           /\ walk'.seen = walk.seen \o Upto(rows, walk.limit)
           /\ walk'.list = walk.list /\ walk'.byCol = walk.byCol /\ walk'.desc = walk.desc
           /\ walk'.limit = walk.limit /\ walk'.total = walk.total
           /\ Len(rows) > walk.limit =>
                /\ walk'.at = "walking"
                /\ walk'.cursor = [col |-> column[rows[walk.limit]], key |-> rows[walk.limit]]
           /\ ~ (Len(rows) > walk.limit) => walk'.at = "done" /\ walk'.cursor = walk.cursor
           /\ UNCHANGED <<listed, column, edits, touched>>
<1>1. PICK rows \in Sorted({x \in listed : After(x)}) :
        LET items == Upto(rows, walk.limit)
            more  == Len(rows) > walk.limit
            last  == items[Len(items)]
        IN  walk' = [walk EXCEPT !.seen = @ \o items, !.at = IF more THEN "walking" ELSE "done",
                       !.cursor = IF more THEN [col |-> column[last], key |-> last] ELSE @]
  BY DEF KeysetPage
<1>2. walk.at = from /\ UNCHANGED <<listed, column, edits, touched>>
  BY DEF KeysetPage
<1>3. {x \in listed : After(x)} \in SUBSET RowKeys
  BY DEF ListTypes
<1>4. rows \in Seq(RowKeys) /\ Len(rows) \in Nat
  BY <1>3, SortedFacts
<1>5. walk \in WalkRecs /\ walk.limit \in Nat \ {0} /\ walk.seen \in Seq(RowKeys)
  BY DEF ListTypes, WalkRecs
<1> DEFINE items == Upto(rows, walk.limit)
<1>6. items \in Seq(RowKeys) /\ Len(items) = Cut(Len(rows))
  BY <1>4, FirstRows
<1>7. ASSUME Len(rows) > walk.limit
      PROVE  /\ Len(items) = walk.limit /\ items[Len(items)] = rows[walk.limit]
             /\ rows[walk.limit] \in RowKeys
             /\ column[rows[walk.limit]] \in Nat /\ rows[walk.limit] \in Nat
  <2>1. Len(items) = walk.limit
    BY <1>4, <1>5, <1>6, <1>7 DEF Cut
  <2>2. walk.limit \in 1..Cut(Len(rows))
    BY <1>5, <1>6, <2>1
  <2>3. items[walk.limit] = rows[walk.limit]
    BY <1>4, <2>2, FirstRows
  <2>4. rows[walk.limit] \in RowKeys
    BY <1>4, <1>5, <1>7
  <2> QED BY <2>1, <2>3, <2>4, ListAssumption DEF ListTypes
<1> HIDE DEF items
<1> DEFINE cur == IF Len(rows) > walk.limit
                  THEN [col |-> column[rows[walk.limit]], key |-> rows[walk.limit]]
                  ELSE walk.cursor
<1>8. cur \in [col : Nat, key : Nat]
  BY <1>5, <1>7 DEF WalkRecs
<1>9. walk.seen \o items \in Seq(RowKeys)
  BY <1>5, <1>6, ConcatProperties
<1>10. walk' = [walk EXCEPT !.seen = @ \o items,
                            !.at = IF Len(rows) > walk.limit THEN "walking" ELSE "done",
                            !.cursor = cur]
  BY <1>1, <1>7 DEF items
<1> HIDE DEF cur
<1>11. /\ walk' \in WalkRecs
       /\ walk'.seen = walk.seen \o items /\ walk'.cursor = cur
       /\ walk'.at = IF Len(rows) > walk.limit THEN "walking" ELSE "done"
       /\ walk'.list = walk.list /\ walk'.byCol = walk.byCol /\ walk'.desc = walk.desc
       /\ walk'.limit = walk.limit /\ walk'.total = walk.total
  BY <1>5, <1>8, <1>9, <1>10 DEF WalkRecs
<1> QED BY <1>2, <1>11 DEF items, cur

\* ... and with an offset.
LEMMA OffsetFields ==
  ASSUME ListTypes, NEW from \in {"walking", "counted"}, OffsetPage(from)
  PROVE  \E rows \in Sorted(listed) :
           LET rest == SubSeq(rows, walk.offset + 1, Len(rows))
           IN  /\ walk.at = from /\ walk' \in WalkRecs /\ rest \in Seq(RowKeys)
               /\ walk'.seen = walk.seen \o Upto(rest, walk.limit)
               /\ walk'.list = walk.list /\ walk'.byCol = walk.byCol /\ walk'.desc = walk.desc
               /\ walk'.limit = walk.limit /\ walk'.total = walk.total
               /\ Len(rest) > walk.limit =>
                    walk'.at = "walking" /\ walk'.offset = walk.offset + walk.limit
               /\ ~ (Len(rest) > walk.limit) => walk'.at = "done"
               /\ UNCHANGED <<listed, column, edits, touched>>
<1>1. PICK rows \in Sorted(listed) :
        LET rest  == SubSeq(rows, walk.offset + 1, Len(rows))
            items == Upto(rest, walk.limit)
            more  == Len(rest) > walk.limit
        IN  walk' = [walk EXCEPT !.seen = @ \o items, !.at = IF more THEN "walking" ELSE "done",
                       !.offset = IF more THEN NextOffset ELSE @]
  BY DEF OffsetPage
<1>2. walk.at = from /\ UNCHANGED <<listed, column, edits, touched>>
  BY DEF OffsetPage
<1>3. rows \in Seq(RowKeys) /\ Len(rows) \in Nat
  BY SortedFacts DEF ListTypes
<1>4. /\ walk \in WalkRecs /\ walk.limit \in Nat \ {0} /\ walk.seen \in Seq(RowKeys)
      /\ walk.offset \in Nat
  BY DEF ListTypes, WalkRecs
<1> DEFINE rest == SubSeq(rows, walk.offset + 1, Len(rows))
           items == Upto(rest, walk.limit)
<1>5. rest \in Seq(RowKeys)
  <2>1. \A i \in (walk.offset + 1)..Len(rows) : rows[i] \in RowKeys
    BY <1>3, <1>4
  <2> QED BY <1>3, <1>4, <2>1, SubSeqProperties
<1> HIDE DEF rest
<1>6. items \in Seq(RowKeys)
  BY <1>5, FirstRows
<1>7. walk.seen \o items \in Seq(RowKeys)
  BY <1>4, <1>6, ConcatProperties
<1> DEFINE off == IF Len(rest) > walk.limit THEN walk.offset + walk.limit ELSE walk.offset
<1>8. walk' = [walk EXCEPT !.seen = @ \o items,
                           !.at = IF Len(rest) > walk.limit THEN "walking" ELSE "done",
                           !.offset = off]
  BY <1>1 DEF rest, NextOffset
<1>10. off \in Nat
  BY <1>4
<1> HIDE DEF items, off
<1>9. /\ walk' \in WalkRecs
      /\ walk'.seen = walk.seen \o items
      /\ walk'.at = IF Len(rest) > walk.limit THEN "walking" ELSE "done"
      /\ walk'.offset = off
      /\ walk'.list = walk.list /\ walk'.byCol = walk.byCol /\ walk'.desc = walk.desc
      /\ walk'.limit = walk.limit /\ walk'.total = walk.total
  BY <1>4, <1>7, <1>8, <1>10 DEF WalkRecs
<1> QED BY <1>2, <1>5, <1>9 DEF rest, items, off

\* Whole pages: the next page keeps the number of rows a multiple of the limit.
LEMMA WholePages ==
  ASSUME NEW a \in Nat, NEW n \in Nat \ {0}, a % n = 0
  PROVE  (a + n) % n = 0
<1>1. PICK q \in Int : a = n * q
  OBVIOUS
<1>2. a + n = n * (q + 1)
  BY <1>1
<1>3. \A p \in Int : (n * p) % n = 0
  OBVIOUS
<1> QED BY <1>2, <1>3

-----------------------------------------------------------------------------
\* A page after a cursor: the rows shown and those between the old and the new cursor.
LEMMA KeysetStep ==
  ASSUME WalkInv, NEW from \in {"walking", "counted"}, KeysetPage(from, "walking"),
         walk.list \notin PlainLists,
         walk.list \in {"issues", "plain-issues"} => from = "counted"
  PROVE  WalkInv'
<1> USE DEF WalkInv
<1>1. PICK rows \in Sorted({x \in listed : After(x)}) :
        /\ walk.at = from /\ walk' \in WalkRecs
        /\ walk'.seen = walk.seen \o Upto(rows, walk.limit)
        /\ walk'.list = walk.list /\ walk'.byCol = walk.byCol /\ walk'.desc = walk.desc
        /\ walk'.limit = walk.limit /\ walk'.total = walk.total
        /\ Len(rows) > walk.limit =>
             /\ walk'.at = "walking"
             /\ walk'.cursor = [col |-> column[rows[walk.limit]], key |-> rows[walk.limit]]
        /\ ~ (Len(rows) > walk.limit) => walk'.at = "done" /\ walk'.cursor = walk.cursor
        /\ UNCHANGED <<listed, column, edits, touched>>
  BY KeysetFields
<1> DEFINE S == {x \in listed : After(x)}
           items == Upto(rows, walk.limit)
           m == Cut(Len(rows))
<1>2. S \in SUBSET RowKeys /\ walk.limit \in Nat \ {0} /\ walk.seen \in Seq(RowKeys)
  BY DEF ListTypes, WalkRecs
<1>3. /\ rows \in Seq(RowKeys) /\ Len(rows) \in Nat
      /\ \A x \in S : \E i \in 1..Len(rows) : rows[i] = x
      /\ \A i \in 1..Len(rows) : rows[i] \in S
      /\ \A i, j \in 1..Len(rows) : i < j => Ordered(rows[i], rows[j])
  <2>1. rows \in Sorted(S)
    BY <1>1
  <2> HIDE DEF S
  <2> QED BY <1>2, <2>1, SortedFacts
<1>4. /\ m \in Nat /\ m <= Len(rows) /\ items \in Seq(RowKeys) /\ Len(items) = m
      /\ \A i \in 1..m : items[i] = rows[i]
  BY <1>3, FirstRows
<1>5. ListTypes'
  BY <1>1 DEF ListTypes
<1>6. \A x, y : Ordered(x, y)' <=> Ordered(x, y)
  BY <1>1 DEF Ordered
<1>7. walk.at \in {"walking", "counted"} /\ walk'.at \in {"walking", "done"} /\ Walking
  BY <1>1 DEF Walking
<1>8. \A x \in RowKeys : x \in Shown \ touched => x \in listed /\ ~ After(x)
  BY <1>7 DEF CursorInv
<1>9. \A x \in listed \ touched : ~ After(x) => x \in Shown
  BY <1>7 DEF CursorInv
<1>10. \A x \in Shown : x \in RowKeys
  BY <1>2 DEF Shown
<1>11. /\ walk'.seen \in Seq(RowKeys) /\ Len(walk'.seen) = Len(walk.seen) + m
       /\ \A k \in 1..Len(walk.seen) : walk'.seen[k] = walk.seen[k]
       /\ \A k \in 1..m : walk'.seen[Len(walk.seen) + k] = rows[k]
       /\ \A k \in DOMAIN walk'.seen : \/ k \in 1..Len(walk.seen)
                                       \/ k - Len(walk.seen) \in 1..m
  <2> HIDE DEF items, m
  <2>1. Len(walk.seen) \in Nat
    BY <1>2
  <2>2. walk'.seen = walk.seen \o items
    BY <1>1 DEF items
  <2>3. /\ walk.seen \o items \in Seq(RowKeys)
        /\ Len(walk.seen \o items) = Len(walk.seen) + m
        /\ \A k \in 1..(Len(walk.seen) + m) :
             (walk.seen \o items)[k] = IF k <= Len(walk.seen) THEN walk.seen[k]
                                       ELSE items[k - Len(walk.seen)]
    <3>1. walk.seen \in Seq(RowKeys) /\ items \in Seq(RowKeys) /\ Len(items) = m
      BY <1>2, <1>4
    <3> QED BY ONLY <3>1, ConcatProperties
  <2>4. \A k \in 1..m : Len(walk.seen) + k \in 1..(Len(walk.seen) + m)
                       /\ ~ (Len(walk.seen) + k <= Len(walk.seen))
                       /\ (Len(walk.seen) + k) - Len(walk.seen) = k
    BY <1>4, <2>1
  <2>5. \A k \in 1..m : walk'.seen[Len(walk.seen) + k] = rows[k]
    BY <1>4, <2>2, <2>3, <2>4
  <2>6. \A k \in 1..Len(walk.seen) : walk'.seen[k] = walk.seen[k]
    BY <1>4, <2>1, <2>2, <2>3
  <2>7. DOMAIN walk'.seen = 1..(Len(walk.seen) + m)
    BY <2>2, <2>3
  <2>8. \A k \in 1..(Len(walk.seen) + m) : k \in 1..Len(walk.seen) \/ k - Len(walk.seen) \in 1..m
    BY <1>4, <2>1
  <2> QED BY <2>2, <2>3, <2>5, <2>6, <2>7, <2>8
<1>12. \A x : x \in Shown' <=> x \in Shown \/ \E i \in 1..m : rows[i] = x
  <2> HIDE DEF items, m
  <2>1. Len(walk.seen) \in Nat /\ DOMAIN walk.seen = 1..Len(walk.seen)
        /\ DOMAIN walk'.seen = 1..(Len(walk.seen) + m)
    BY <1>2, <1>4, <1>11
  <2>2. ASSUME NEW x \in Shown' PROVE x \in Shown \/ \E i \in 1..m : rows[i] = x
    <3>1. PICK k \in DOMAIN walk'.seen : walk'.seen[k] = x
      BY DEF Shown
    <3>2. CASE k \in 1..Len(walk.seen)
      BY <1>11, <2>1, <3>1, <3>2 DEF Shown
    <3>3. CASE k - Len(walk.seen) \in 1..m
      <4>1. k = Len(walk.seen) + (k - Len(walk.seen))
        BY <2>1, <3>1
      <4> QED BY <1>11, <3>1, <3>3, <4>1
    <3> QED BY <1>11, <3>1, <3>2, <3>3
  <2>3. ASSUME NEW x \in Shown PROVE x \in Shown'
    <3>1. PICK k \in DOMAIN walk.seen : walk.seen[k] = x
      BY DEF Shown
    <3>2. k \in DOMAIN walk'.seen /\ walk'.seen[k] = x
      BY <1>4, <1>11, <2>1, <3>1
    <3> QED BY <3>2 DEF Shown
  <2>4. ASSUME NEW i \in 1..m PROVE rows[i] \in Shown'
    <3>1. Len(walk.seen) + i \in DOMAIN walk'.seen /\ walk'.seen[Len(walk.seen) + i] = rows[i]
      BY <1>4, <1>11, <2>1
    <3> QED BY <3>1 DEF Shown
  <2> QED BY <2>2, <2>3, <2>4
<1>13. StayersInOrder'
  <2> HIDE DEF items, m, S
  <2>1. SUFFICES ASSUME NEW j \in DOMAIN walk'.seen, NEW k \in DOMAIN walk'.seen, j < k,
                        {walk'.seen[j], walk'.seen[k]} \cap touched = {}
                 PROVE  Ordered(walk'.seen[j], walk'.seen[k])
    BY <1>1, <1>6 DEF StayersInOrder
  <2>2. j \in Nat /\ k \in Nat /\ Len(walk.seen) \in Nat /\ DOMAIN walk.seen = 1..Len(walk.seen)
    BY <1>2, <1>11
  <2>3. CASE k \in 1..Len(walk.seen)
    <3>1. j \in 1..Len(walk.seen)
      BY <1>11, <2>1, <2>2, <2>3
    <3> QED BY <1>11, <2>1, <2>2, <2>3, <3>1 DEF StayersInOrder
  <2>4. CASE j \in 1..Len(walk.seen) /\ k - Len(walk.seen) \in 1..m
    <3>1. walk'.seen[j] \in Shown \ touched
      BY <1>11, <2>1, <2>2, <2>4 DEF Shown
    <3>2. walk'.seen[k] = rows[k - Len(walk.seen)]
      <4>1. k = Len(walk.seen) + (k - Len(walk.seen))
        BY <2>2
      <4> QED BY <1>11, <2>4, <4>1
    <3>3. walk'.seen[k] \in S
      BY <1>3, <1>4, <2>4, <3>2
    <3>4. walk'.seen[k] \in RowKeys /\ After(walk'.seen[k])
      BY <1>2, <3>3 DEF S
    <3> QED BY <1>8, <1>10, <3>1, <3>4, AfterCuts
  <2>5. CASE j - Len(walk.seen) \in 1..m /\ k - Len(walk.seen) \in 1..m
    <3>1. /\ j = Len(walk.seen) + (j - Len(walk.seen)) /\ k = Len(walk.seen) + (k - Len(walk.seen))
          /\ j - Len(walk.seen) < k - Len(walk.seen)
      BY <2>1, <2>2
    <3>2. walk'.seen[j] = rows[j - Len(walk.seen)] /\ walk'.seen[k] = rows[k - Len(walk.seen)]
      BY <1>11, <2>5, <3>1
    <3>3. j - Len(walk.seen) \in 1..Len(rows) /\ k - Len(walk.seen) \in 1..Len(rows)
      BY <1>3, <1>4, <2>5
    <3>4. Ordered(rows[j - Len(walk.seen)], rows[k - Len(walk.seen)])
      BY <1>3, <3>1, <3>3
    <3> QED BY <3>2, <3>4
  <2> QED BY <1>11, <2>1, <2>2, <2>3, <2>4, <2>5
<1>14. CursorInv'
  <2>1. CASE Len(rows) > walk.limit
    <3> DEFINE last == rows[walk.limit]
    <3>1. m = walk.limit /\ walk.limit \in 1..Len(rows)
      BY <1>2, <1>3, <2>1 DEF Cut
    <3>2. last \in S /\ last \in RowKeys /\ After(last) /\ last # 0
      BY <1>2, <1>3, <3>1, ListAssumption
    <3>3. walk'.at = "walking" /\ walk'.cursor = [col |-> column[last], key |-> last]
      BY <1>1, <2>1
    <3>4. walk'.cursor # NoCursor
      BY <3>2, <3>3 DEF NoCursor
    <3>5. \A x \in RowKeys : After(x)' <=> Ordered(last, x)
      <4>1. \A x \in RowKeys : x \in Nat /\ column[x] \in Nat
        BY ListAssumption DEF ListTypes
      <4>2. walk'.cursor.col = column[last] /\ walk'.cursor.key = last
        BY <3>3
      <4> HIDE DEF last, S
      <4>3. CASE walk.byCol
        BY <1>1, <3>2, <3>4, <4>1, <4>2, <4>3 DEF After, Ordered
      <4>4. CASE ~ walk.byCol
        BY <1>1, <3>2, <3>4, <4>1, <4>2, <4>4 DEF After, Ordered
      <4> QED BY <4>3, <4>4
    <3>6. ASSUME NEW x \in Shown' \ touched PROVE x \in listed /\ ~ After(x)'
      <4>1. CASE x \in Shown
        BY <1>8, <1>10, <3>2, <3>5, <3>6, <4>1, AfterCuts
      <4>2. ASSUME NEW i \in 1..m, rows[i] = x PROVE x \in listed /\ ~ After(x)'
        <5>1. i \in 1..Len(rows) /\ (i = walk.limit \/ i < walk.limit)
          BY <1>3, <3>1, <4>2
        <5>2. x \in S /\ x \in RowKeys
          BY <1>2, <1>3, <4>2, <5>1
        <5>3. ~ Ordered(last, x)
          BY <1>3, <3>1, <3>2, <4>2, <5>1, <5>2, OrderTotal
        <5> QED BY <3>5, <5>2, <5>3
      <4> QED BY <1>12, <3>6, <4>1, <4>2
    <3>7. ASSUME NEW x \in listed \ touched, ~ After(x)' PROVE x \in Shown'
      <4>1. x \in RowKeys
        BY DEF ListTypes
      <4>2. CASE ~ After(x)
        BY <1>9, <1>12, <4>2
      <4>3. CASE After(x)
        <5>1. PICK i \in 1..Len(rows) : rows[i] = x
          BY <1>3, <4>3
        <5>2. ~ (walk.limit < i)
          BY <1>3, <3>1, <3>5, <3>7, <4>1, <5>1
        <5>3. i \in 1..m
          BY <1>3, <3>1, <5>1, <5>2
        <5> QED BY <1>12, <5>1, <5>3
      <4> QED BY <4>2, <4>3
    <3>8. walk'.at # "done" /\ touched' = touched /\ listed' = listed
      BY <1>1, <3>3
    <3> QED BY <3>6, <3>7, <3>8 DEF CursorInv
  <2>2. CASE ~ (Len(rows) > walk.limit)
    <3>1. m = Len(rows) /\ walk'.at = "done" /\ touched' = touched /\ listed' = listed
      BY <1>1, <1>2, <1>3, <2>2 DEF Cut
    <3>2. \A x \in listed \ touched : x \in Shown'
      BY <1>3, <1>9, <1>12, <3>1
    <3>3. \A x \in Shown' \ touched : x \in listed
      <4> HIDE DEF m
      <4>1. \A i \in 1..m : rows[i] \in listed
        BY <1>3, <3>1
      <4> QED BY <1>8, <1>10, <1>12, <4>1
    <3>4. ~ Walking'
      BY <3>1 DEF Walking
    <3> QED BY <3>1, <3>2, <3>3, <3>4 DEF CursorInv
  <2> QED BY <2>1, <2>2
<1>15. OffsetInv'
  BY <1>1 DEF OffsetInv
<1>16. TotalInv'
  BY <1>1, <1>7 DEF TotalInv
<1>17. PageInv'
  <2>1. SUFFICES ASSUME Walking' PROVE Len(walk'.seen) % walk'.limit = 0
    BY DEF PageInv
  <2>2. Len(rows) > walk.limit
    BY <1>1, <2>1 DEF Walking
  <2>3. Len(walk'.seen) = Len(walk.seen) + walk.limit
    BY <1>11, <2>2 DEF Cut
  <2>4. Len(walk.seen) % walk.limit = 0 /\ Len(walk.seen) \in Nat
    BY <1>2, <1>7 DEF PageInv
  <2>5. (Len(walk.seen) + walk.limit) % walk.limit = 0
    BY <1>2, <2>4, WholePages
  <2> QED BY <1>1, <2>3, <2>5
<1>18. StartInv'
  BY <1>7 DEF StartInv
<1> QED BY <1>5, <1>13, <1>14, <1>15, <1>16, <1>17, <1>18

\* A prefix of the rows and the next page of them are a longer prefix.
LEMMA Prefixes ==
  ASSUME ListTypes, NEW rows \in Seq(RowKeys), NEW a \in 0..Len(rows)
  PROVE  LET rest == SubSeq(rows, a + 1, Len(rows))
             n    == a + Cut(Len(rest))
         IN  /\ Len(rest) = Len(rows) - a /\ n \in a..Len(rows)
             /\ SubSeq(rows, 1, a) \o Upto(rest, walk.limit) = SubSeq(rows, 1, n)
             /\ Len(SubSeq(rows, 1, n)) = n
             /\ SubSeq(rows, 1, Len(rows)) = rows
<1> DEFINE rest == SubSeq(rows, a + 1, Len(rows))
           m == Cut(Len(rest))
<1>1. Len(rows) \in Nat /\ a \in Nat /\ a <= Len(rows) /\ \A i \in 1..Len(rows) : rows[i] \in RowKeys
  OBVIOUS
<1>2. /\ rest \in Seq(RowKeys) /\ Len(rest) = Len(rows) - a
      /\ \A i \in 1..(Len(rows) - a) : rest[i] = rows[a + i]
  <2>1. \A i \in (a + 1)..Len(rows) : rows[i] \in RowKeys
    BY <1>1
  <2>2. /\ rest \in Seq(RowKeys)
        /\ Len(rest) = IF a + 1 <= Len(rows) THEN Len(rows) - (a + 1) + 1 ELSE 0
        /\ \A i \in 1..(Len(rows) - (a + 1) + 1) : rest[i] = rows[a + 1 + i - 1]
    BY <1>1, <2>1, SubSeqProperties
  <2> HIDE DEF rest
  <2>4. Len(rest) = Len(rows) - a
    BY <1>1, <2>2
  <2>5. ASSUME NEW i \in 1..(Len(rows) - a) PROVE rest[i] = rows[a + i]
    <3>1. i \in 1..(Len(rows) - (a + 1) + 1) /\ a + 1 + i - 1 = a + i
      BY <1>1
    <3> QED BY <2>2, <3>1
  <2> QED BY <2>2, <2>4, <2>5
<1> HIDE DEF rest
<1>3. /\ m \in Nat /\ m <= Len(rest) /\ Upto(rest, walk.limit) \in Seq(RowKeys)
      /\ Len(Upto(rest, walk.limit)) = m
      /\ \A i \in 1..m : Upto(rest, walk.limit)[i] = rest[i]
  BY <1>2, FirstRows
<1> HIDE DEF m
<1>4. a + m \in a..Len(rows)
  BY <1>1, <1>2, <1>3
<1>5. ASSUME NEW b \in 0..Len(rows)
      PROVE  /\ SubSeq(rows, 1, b) \in Seq(RowKeys) /\ Len(SubSeq(rows, 1, b)) = b
             /\ \A i \in 1..b : SubSeq(rows, 1, b)[i] = rows[i]
  <2>1. \A i \in 1..b : rows[i] \in RowKeys
    BY <1>1
  <2>2. /\ SubSeq(rows, 1, b) \in Seq(RowKeys)
        /\ Len(SubSeq(rows, 1, b)) = IF 1 <= b THEN b - 1 + 1 ELSE 0
        /\ \A i \in 1..(b - 1 + 1) : SubSeq(rows, 1, b)[i] = rows[1 + i - 1]
    BY <2>1, SubSeqProperties
  <2> QED BY <2>2
<1>6. SubSeq(rows, 1, Len(rows)) = rows
  BY <1>1, <1>5
<1> DEFINE l == SubSeq(rows, 1, a) \o Upto(rest, walk.limit)
           r == SubSeq(rows, 1, a + m)
<1>7. /\ l \in Seq(RowKeys) /\ Len(l) = a + m
      /\ \A i \in 1..(a + m) : l[i] = IF i <= a THEN rows[i] ELSE Upto(rest, walk.limit)[i - a]
  <2>1. /\ SubSeq(rows, 1, a) \in Seq(RowKeys) /\ Len(SubSeq(rows, 1, a)) = a
        /\ \A i \in 1..a : SubSeq(rows, 1, a)[i] = rows[i]
    BY <1>1, <1>5
  <2>2. /\ l \in Seq(RowKeys) /\ Len(l) = a + m
        /\ \A i \in 1..(a + m) : l[i] = IF i <= a THEN SubSeq(rows, 1, a)[i]
                                        ELSE Upto(rest, walk.limit)[i - a]
    <3> DEFINE p == SubSeq(rows, 1, a)
               q == Upto(rest, walk.limit)
    <3>1. p \in Seq(RowKeys) /\ Len(p) = a /\ q \in Seq(RowKeys) /\ Len(q) = m
      BY <1>3, <2>1
    <3> HIDE DEF p, q
    <3>2. /\ p \o q \in Seq(RowKeys) /\ Len(p \o q) = a + m
          /\ \A i \in 1..(a + m) : (p \o q)[i] = IF i <= a THEN p[i] ELSE q[i - a]
      BY <3>1, ConcatProperties
    <3> QED BY <3>2 DEF p, q
  <2> HIDE DEF l
  <2>3. \A i \in 1..(a + m) : i <= a => i \in 1..a
    BY <1>1, <1>3
  <2> QED BY <2>1, <2>2, <2>3
<1>8. r \in Seq(RowKeys) /\ Len(r) = a + m /\ \A i \in 1..(a + m) : r[i] = rows[i]
  BY <1>1, <1>4, <1>5
<1> HIDE DEF l, r
<1>9. ASSUME NEW i \in 1..(a + m) PROVE l[i] = r[i]
  <2>1. CASE i <= a
    BY <1>7, <1>8, <2>1
  <2>2. CASE ~ (i <= a)
    <3>1. i - a \in 1..m /\ i - a \in 1..(Len(rows) - a) /\ a + (i - a) = i
      BY <1>1, <1>2, <1>3, <2>2
    <3> QED BY <1>2, <1>3, <1>7, <1>8, <2>2, <3>1
  <2> QED BY <2>1, <2>2
<1>10. l = r
  BY <1>7, <1>8, <1>9
<1> QED BY <1>2, <1>4, <1>6, <1>8, <1>10 DEF l, r, m, rest

\* A page at an offset: the rows shown are a prefix of an unchanged list.
LEMMA OffsetStep ==
  ASSUME WalkInv, NEW from \in {"walking", "counted"}, OffsetPage(from),
         walk.list \in PlainLists,
         walk.list \in {"issues", "plain-issues"} => from = "counted"
  PROVE  WalkInv'
<1> USE DEF WalkInv
<1>1. PICK rows \in Sorted(listed) :
        LET rest == SubSeq(rows, walk.offset + 1, Len(rows))
        IN  /\ walk.at = from /\ walk' \in WalkRecs /\ rest \in Seq(RowKeys)
            /\ walk'.seen = walk.seen \o Upto(rest, walk.limit)
            /\ walk'.list = walk.list /\ walk'.byCol = walk.byCol /\ walk'.desc = walk.desc
            /\ walk'.limit = walk.limit /\ walk'.total = walk.total
            /\ Len(rest) > walk.limit =>
                 walk'.at = "walking" /\ walk'.offset = walk.offset + walk.limit
            /\ ~ (Len(rest) > walk.limit) => walk'.at = "done"
            /\ UNCHANGED <<listed, column, edits, touched>>
  BY OffsetFields
<1> DEFINE rest == SubSeq(rows, walk.offset + 1, Len(rows))
<1>2. /\ walk.at = from /\ walk' \in WalkRecs /\ rest \in Seq(RowKeys)
      /\ walk'.seen = walk.seen \o Upto(rest, walk.limit)
      /\ walk'.list = walk.list /\ walk'.byCol = walk.byCol /\ walk'.desc = walk.desc
      /\ walk'.limit = walk.limit /\ walk'.total = walk.total
      /\ Len(rest) > walk.limit => walk'.at = "walking" /\ walk'.offset = walk.offset + walk.limit
      /\ ~ (Len(rest) > walk.limit) => walk'.at = "done"
      /\ UNCHANGED <<listed, column, edits, touched>>
  BY <1>1
<1>3. /\ listed \in SUBSET RowKeys /\ walk.limit \in Nat \ {0} /\ walk.seen \in Seq(RowKeys)
      /\ walk.offset \in Nat
  BY DEF ListTypes, WalkRecs
<1>4. rows \in Seq(RowKeys) /\ Len(rows) \in Nat
  BY <1>3, SortedFacts
<1>5. ListTypes'
  BY <1>2 DEF ListTypes
<1>6. Sorted(listed)' = Sorted(listed)
  BY <1>2 DEF Sorted, Ordered
<1>7. Walking /\ walk'.at \in {"walking", "done"}
  BY <1>2 DEF Walking
<1>8. StayersInOrder' /\ CursorInv'
  BY <1>2 DEF StayersInOrder, CursorInv
<1>9. OffsetInv'
  <2>1. SUFFICES ASSUME touched = {}
                 PROVE  /\ Walking' => \A r \in Sorted(listed) :
                             walk'.offset <= Len(r) /\ walk'.seen = SubSeq(r, 1, walk'.offset)
                        /\ walk'.at = "done" => walk'.seen \in Sorted(listed)
    BY <1>2, <1>6 DEF OffsetInv
  <2>2. walk.offset \in 0..Len(rows) /\ walk.seen = SubSeq(rows, 1, walk.offset)
    BY <1>3, <1>4, <1>7, <2>1 DEF OffsetInv
  <2> DEFINE n == walk.offset + Cut(Len(rest))
  <2>3. /\ Len(rest) = Len(rows) - walk.offset /\ n \in walk.offset..Len(rows)
        /\ walk'.seen = SubSeq(rows, 1, n)
        /\ SubSeq(rows, 1, Len(rows)) = rows
    BY <1>2, <1>4, <2>2, Prefixes
  <2> HIDE DEF rest
  <2>4. CASE Len(rest) > walk.limit
    <3>1. walk'.at = "walking" /\ walk'.offset = n
      BY <1>2, <2>4 DEF Cut
    <3>2. ASSUME NEW r \in Sorted(listed) PROVE r = rows
      BY <1>3, SortedUnique
    <3> HIDE DEF n
    <3>3. n <= Len(rows)
      BY <1>3, <1>4, <2>3
    <3> QED BY <2>3, <3>1, <3>2, <3>3
  <2>5. CASE ~ (Len(rest) > walk.limit)
    <3>1. n = Len(rows)
      BY <1>3, <1>4, <2>2, <2>3, <2>5 DEF Cut
    <3>2. walk'.at = "done" /\ ~ Walking'
      BY <1>2, <2>5 DEF Walking
    <3> QED BY <2>3, <3>1, <3>2
  <2> QED BY <2>4, <2>5
<1>10. TotalInv'
  BY <1>2, <1>7 DEF TotalInv
<1>11. PageInv'
  <2> HIDE DEF rest
  <2>1. SUFFICES ASSUME Walking' PROVE Len(walk'.seen) % walk'.limit = 0
    BY DEF PageInv
  <2>2. Len(rest) > walk.limit
    BY <1>2, <2>1 DEF Walking
  <2>3. Upto(rest, walk.limit) \in Seq(RowKeys) /\ Len(Upto(rest, walk.limit)) = walk.limit
    BY <1>2, <2>2, FirstRows DEF Cut
  <2>4. Len(walk'.seen) = Len(walk.seen) + walk.limit
    <3> DEFINE q == Upto(rest, walk.limit)
    <3>1. walk'.seen = walk.seen \o q /\ q \in Seq(RowKeys) /\ Len(q) = walk.limit
      BY <1>2, <2>3
    <3> HIDE DEF q
    <3>2. Len(walk.seen \o q) = Len(walk.seen) + Len(q)
      BY <1>3, <3>1, ConcatProperties
    <3> QED BY <3>1, <3>2
  <2>5. Len(walk.seen) % walk.limit = 0 /\ Len(walk.seen) \in Nat
    BY <1>3, <1>7 DEF PageInv
  <2>6. (Len(walk.seen) + walk.limit) % walk.limit = 0
    BY <1>3, <2>5, WholePages
  <2> QED BY <1>2, <2>4, <2>6
<1>12. StartInv'
  BY <1>7 DEF StartInv
<1> QED BY <1>5, <1>8, <1>9, <1>10, <1>11, <1>12

\* A walk begins.
LEMMA BeginStep ==
  ASSUME WalkInv, NEW list \in Lists, NEW byCol \in BOOLEAN, NEW desc \in BOOLEAN,
         NEW n \in PageSizes, BeginWalk(list, byCol, desc, n)
  PROVE  WalkInv'
<1> USE DEF WalkInv
<1>1. /\ touched' = {} /\ UNCHANGED <<listed, column, edits>>
      /\ walk' = [NoWalk EXCEPT !.at = "walking", !.list = list, !.byCol = byCol, !.desc = desc,
                                !.limit = n]
  BY DEF BeginWalk, StartInv
<1>2. n \in Nat \ {0}
  BY ListAssumption
<1>3. walk' = [at |-> "walking", list |-> list, byCol |-> byCol, desc |-> desc, limit |-> n,
               cursor |-> NoCursor, offset |-> 0, seen |-> <<>>, total |-> 0]
  BY <1>1 DEF NoWalk
<1>4. walk' \in WalkRecs
  <2>1. NoCursor \in [col : Nat, key : Nat]
    BY DEF NoCursor
  <2>2. <<>> \in Seq(RowKeys)
    OBVIOUS
  <2> QED BY <1>2, <1>3, <2>1, <2>2 DEF WalkRecs
<1>5. /\ walk'.seen = <<>> /\ walk'.at = "walking" /\ walk'.cursor = NoCursor
      /\ walk'.offset = 0 /\ walk'.limit = n
  BY <1>3
<1>6. ListTypes'
  BY <1>1, <1>4 DEF ListTypes
<1>7. Shown' = {} /\ \A x : After(x)'
  BY <1>5 DEF Shown, After
<1>8. StayersInOrder'
  BY <1>5 DEF StayersInOrder
<1>9. CursorInv'
  BY <1>5, <1>7 DEF CursorInv
<1>10. OffsetInv'
  <2>1. listed' \in SUBSET RowKeys
    BY <1>1 DEF ListTypes
  <2>2. \A r : SubSeq(r, 1, 0) = <<>>
    OBVIOUS
  <2>3. ASSUME NEW r \in Sorted(listed)' PROVE 0 <= Len(r)
    <3>1. IsFiniteSet(listed) /\ Cardinality(listed) \in Nat
      BY <1>1, <2>1, ListAssumption, FS_Subset, FS_CardinalityType
    <3>2. r \in [1..Cardinality(listed) -> listed]
      BY <1>1, <2>3 DEF Sorted
    <3> QED BY <3>1, <3>2
  <2> QED BY <1>5, <2>2, <2>3 DEF OffsetInv
<1>11. TotalInv' /\ StartInv'
  BY <1>5 DEF TotalInv, StartInv
<1>12. PageInv'
  <2>1. 0 % n = 0
    BY <1>2
  <2> QED BY <1>5, <2>1 DEF PageInv
<1> QED BY <1>6, <1>8, <1>9, <1>10, <1>11, <1>12

\* The rows are counted.
LEMMA CountStep ==
  ASSUME WalkInv, CountIssues \/ PlainCount
  PROVE  WalkInv'
<1> USE DEF WalkInv
<1>1. /\ walk.at = "walking" /\ UNCHANGED <<listed, column, edits, touched>>
      /\ walk' = [walk EXCEPT !.at = "counted", !.total = Cardinality(listed)]
  BY DEF CountIssues, PlainCount
<1>2. Cardinality(listed) \in Nat
  BY ListAssumption, FS_Subset, FS_CardinalityType DEF ListTypes
<1>3. walk \in WalkRecs
  BY DEF ListTypes
<1>4. /\ walk' \in WalkRecs /\ walk'.at = "counted" /\ walk'.total = Cardinality(listed)
      /\ walk'.list = walk.list /\ walk'.byCol = walk.byCol /\ walk'.desc = walk.desc
      /\ walk'.limit = walk.limit /\ walk'.cursor = walk.cursor /\ walk'.offset = walk.offset
      /\ walk'.seen = walk.seen
  BY <1>1, <1>2, <1>3 DEF WalkRecs
<1>5. ListTypes'
  BY <1>1, <1>4 DEF ListTypes
<1>6. /\ Shown' = Shown /\ Walking /\ \A x : After(x)' <=> After(x)
      /\ Sorted(listed)' = Sorted(listed)
  BY <1>1, <1>4 DEF Shown, Walking, After, Sorted, Ordered
<1>7. StayersInOrder'
  BY <1>1, <1>4 DEF StayersInOrder, Ordered
<1>8. CursorInv'
  BY <1>1, <1>4, <1>6 DEF CursorInv
<1>9. OffsetInv'
  BY <1>1, <1>4, <1>6 DEF OffsetInv
<1>10. TotalInv' /\ PageInv' /\ StartInv'
  BY <1>1, <1>4, <1>6 DEF TotalInv, PageInv, StartInv
<1> QED BY <1>5, <1>7, <1>8, <1>9, <1>10

\* Somebody changes row x, of which nothing is claimed from then on.
LEMMA EditStep ==
  ASSUME WalkInv, NEW x \in RowKeys, Edit(x)
  PROVE  WalkInv'
<1> USE DEF WalkInv
<1>1. /\ walk' = walk /\ touched' = touched \cup {x} /\ edits' = edits + 1
      /\ walk.at \in {"walking", "counted"}
      /\ listed' \subseteq RowKeys /\ column' \in [RowKeys -> Columns]
      /\ \A y \in RowKeys : y # x => column'[y] = column[y] /\ (y \in listed' <=> y \in listed)
  BY DEF Edit, ListTypes
<1>2. ListTypes'
  BY <1>1 DEF ListTypes
<1>3. \A y, z \in RowKeys \ {x} : /\ Ordered(y, z)' <=> Ordered(y, z)
                                  /\ After(y)' <=> After(y)
  BY <1>1 DEF Ordered, After
<1>4. walk.seen \in Seq(RowKeys)
  BY DEF ListTypes, WalkRecs
<1>5. Shown' = Shown /\ Shown \subseteq RowKeys
  BY <1>1, <1>4 DEF Shown
<1>6. StayersInOrder'
  BY <1>1, <1>3, <1>4 DEF StayersInOrder
<1>7. CursorInv'
  BY <1>1, <1>3, <1>5 DEF CursorInv, Walking, ListTypes
<1>8. OffsetInv' /\ TotalInv' /\ PageInv' /\ StartInv'
  BY <1>1 DEF OffsetInv, TotalInv, PageInv, StartInv, Walking
<1> QED BY <1>2, <1>6, <1>7, <1>8

\* Every step keeps the invariant.
LEMMA WalkStep == WalkInv /\ [ListNext]_listVars => WalkInv'
<1>1. ASSUME WalkInv, ListNext PROVE WalkInv'
  BY <1>1, ListSplit, KeysetStep, OffsetStep, BeginStep, CountStep, EditStep DEF ListCases
<1>2. ASSUME WalkInv, UNCHANGED listVars PROVE WalkInv'
  BY <1>2 DEF listVars, WalkInv, ListTypes, StayersInOrder, CursorInv, OffsetInv, TotalInv,
              PageInv, StartInv, Shown, Walking, After, Ordered, Sorted
<1> QED BY <1>1, <1>2

\* Initially nobody walks.
LEMMA WalkStart == ListInit => WalkInv
<1> SUFFICES ASSUME ListInit PROVE WalkInv
  OBVIOUS
<1>1. /\ walk = [at |-> "idle", list |-> "issues", byCol |-> FALSE, desc |-> FALSE, limit |-> 1,
                 cursor |-> NoCursor, offset |-> 0, seen |-> <<>>, total |-> 0]
      /\ edits = 0 /\ touched = {} /\ listed \in SUBSET RowKeys /\ column \in [RowKeys -> Columns]
  BY DEF ListInit, NoWalk
<1>2. walk \in WalkRecs
  <2>1. NoCursor \in [col : Nat, key : Nat]
    BY DEF NoCursor
  <2>2. <<>> \in Seq(RowKeys)
    OBVIOUS
  <2> QED BY <1>1, <2>1, <2>2 DEF WalkRecs, Lists
<1>3. walk.at = "idle" /\ walk.seen = <<>>
  BY <1>1
<1>4. ListTypes
  BY <1>1, <1>2 DEF ListTypes
<1> QED BY <1>1, <1>3, <1>4 DEF WalkInv, StayersInOrder, CursorInv, OffsetInv, TotalInv,
                                 PageInv, StartInv, Walking

\* How often a row was shown, if no row was shown twice.
LEMMA ShownOnce ==
  ASSUME ListTypes, NEW x \in RowKeys,
         \A j, k \in DOMAIN walk.seen : walk.seen[j] = x /\ walk.seen[k] = x => j = k
  PROVE  Times(x) = IF x \in Shown THEN 1 ELSE 0
<1> DEFINE K == {k \in DOMAIN walk.seen : walk.seen[k] = x}
<1>1. CASE x \in Shown
  <2>1. PICK k \in DOMAIN walk.seen : walk.seen[k] = x
    BY <1>1 DEF Shown
  <2>2. K = {k}
    BY <2>1
  <2>3. Cardinality({k}) = 1
    BY FS_Singleton
  <2> QED BY <1>1, <2>2, <2>3 DEF Times
<1>2. CASE x \notin Shown
  <2>1. K = {}
    BY <1>2 DEF Shown
  <2> QED BY <1>2, <2>1, FS_EmptySet DEF Times
<1> QED BY <1>1, <1>2

\* As many were shown as are listed, if each of those was shown once.
LEMMA ShownAll ==
  ASSUME ListTypes, Shown = listed,
         \A j, k \in DOMAIN walk.seen : walk.seen[j] = walk.seen[k] => j = k
  PROVE  Cardinality(listed) = Len(walk.seen)
<1>1. walk.seen \in Seq(RowKeys) /\ Len(walk.seen) \in Nat
      /\ DOMAIN walk.seen = 1..Len(walk.seen)
  BY DEF ListTypes, WalkRecs
<1> DEFINE s == walk.seen
<1>2. \A j \in 1..Len(s) : s[j] \in listed
  BY <1>1 DEF Shown
<1>3. \A x \in listed : \E j \in 1..Len(s) : s[j] = x
  BY <1>1 DEF Shown
<1>4. s \in [1..Len(s) -> listed]
  BY <1>1, <1>2
<1>5. s \in Bijection(1..Len(s), listed)
  BY <1>1, <1>3, <1>4 DEF Bijection, Injection, IsInjective, Surjection
<1>6. IsFiniteSet(1..Len(s)) /\ Cardinality(1..Len(s)) = Len(s)
  BY <1>1, FS_Interval
<1> QED BY <1>5, <1>6, FS_Bijection DEF ExistsBijection

\* The invariant says what the properties say.
LEMMA WalkFacts == WalkInv => WalkSound
<1> SUFFICES ASSUME WalkInv PROVE WalkSound
  OBVIOUS
<1> USE DEF WalkInv
<1>1. ListTypeOK
  BY DEF ListTypeOK, ListTypes, WalkRecs, PageInv, Walking
<1>2. walk.seen \in Seq(RowKeys) /\ DOMAIN walk.seen = 1..Len(walk.seen) /\ Len(walk.seen) \in Nat
      /\ Shown \subseteq RowKeys /\ listed \subseteq RowKeys
  BY DEF ListTypes, WalkRecs, Shown
<1>3. ASSUME walk.list \notin PlainLists, NEW j \in DOMAIN walk.seen, NEW k \in DOMAIN walk.seen,
             walk.seen[j] = walk.seen[k], walk.seen[j] \notin touched
      PROVE  j = k
  <2>1. walk.seen[j] \in RowKeys
    BY <1>2
  <2>2. {walk.seen[j], walk.seen[k]} \cap touched = {}
    BY <1>3
  <2>3. ~ (j < k) /\ ~ (k < j)
    BY <1>3, <2>1, <2>2, OrderTotal DEF StayersInOrder
  <2> QED BY <1>2, <2>3
<1>4. StayersOnce
  <2>1. SUFFICES ASSUME walk.at = "done", walk.list \notin PlainLists, NEW x \in listed \ touched
                 PROVE  Times(x) = 1
    BY DEF StayersOnce
  <2>2. x \in Shown
    BY <2>1 DEF CursorInv
  <2>3. \A j, k \in DOMAIN walk.seen : walk.seen[j] = x /\ walk.seen[k] = x => j = k
    BY <1>3, <2>1
  <2> QED BY <1>2, <2>1, <2>2, <2>3, ShownOnce
<1>5. UnchangedOnce
  <2>1. SUFFICES ASSUME walk.at = "done", touched = {}
                 PROVE  /\ \A x \in RowKeys : Times(x) = IF x \in listed THEN 1 ELSE 0
                        /\ walk.list \in {"issues", "plain-issues"} => walk.total = Len(walk.seen)
    BY DEF UnchangedOnce
  <2>2. Shown = listed /\ \A j, k \in DOMAIN walk.seen : walk.seen[j] = walk.seen[k] => j = k
    <3>1. CASE walk.list \notin PlainLists
      <4>1. Shown = listed
        BY <1>2, <2>1, <3>1 DEF CursorInv
      <4> QED BY <1>3, <2>1, <3>1, <4>1
    <3>2. CASE walk.list \in PlainLists
      <4>1. walk.seen \in Sorted(listed)
        BY <2>1, <3>2 DEF OffsetInv
      <4>2. /\ \A x \in listed : \E i \in 1..Len(walk.seen) : walk.seen[i] = x
            /\ \A i \in 1..Len(walk.seen) : walk.seen[i] \in listed
            /\ \A i, j \in 1..Len(walk.seen) : walk.seen[i] = walk.seen[j] => i = j
        BY <1>2, <4>1, SortedFacts
      <4> QED BY <1>2, <4>2 DEF Shown
    <3> QED BY <3>1, <3>2
  <2>3. \A x \in RowKeys : Times(x) = IF x \in listed THEN 1 ELSE 0
    BY <2>2, ShownOnce
  <2>4. Cardinality(listed) = Len(walk.seen)
    BY <2>2, ShownAll
  <2> QED BY <2>1, <2>3, <2>4 DEF TotalInv
<1> QED BY <1>1, <1>4, <1>5 DEF WalkSound

\* Walking the pages of a list, for any rows, sort column, page size and changes between the
\* pages: by cursor a row that stays as it is is shown once and in order; of a list that does
\* not change every row is shown once, by cursor or by offset.
THEOREM WalkSafe == ListSpec => []WalkSound
  BY WalkStart, WalkStep, WalkFacts, PTL DEF ListSpec
=============================================================================
