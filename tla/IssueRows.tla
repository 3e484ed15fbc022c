------------------------------ MODULE IssueRows ------------------------------
(***************************************************************************)
(* One issue and its comments in the Go issue tracker (issues.go,          *)
(* comments.go and unassignAll of orgs.go under src/tracker/impl/go-1):    *)
(* versions, history, the comment count, and the row locks that keep them  *)
(* together.                                                               *)
(*                                                                         *)
(* A handler reads the row it locks and later writes columns from what it  *)
(* has read.  Removing an issue goes from the issue to its comments,       *)
(* removing a comment from the comment to its issue; the database aborts a *)
(* transaction when two wait for each other.  Times are numbers, status is *)
(* 0, 1 or 2 as in the code.                                               *)
(***************************************************************************)
EXTENDS Naturals, FiniteSets

CONSTANTS
  Workers,     \* requests served at the same time
  CommentIds,
  MaxVersion,  \* versions of the issue; bounds the model
  MaxClock     \* time; bounds the model

Free == "free"

ASSUME RowsAssumption ==
  /\ IsFiniteSet(CommentIds) /\ Free \notin Workers
  /\ MaxVersion \in Nat \ {0} /\ MaxClock \in Nat

VARIABLES
  issue,     \* the row of the issue
  history,   \* how many history rows it has
  comments,  \* its comments
  spare,     \* comment ids not made yet
  iLock,     \* the worker that holds the row of the issue
  cLock,     \* the worker that holds the row of each comment
  job,       \* what each worker is doing, with the row it read
  clock,
  wins       \* history: PATCHes accepted for each value of If-Match

rowVars == <<issue, history, comments, spare, iLock, cLock, job, clock, wins>>

NoIssue == [there |-> FALSE, version |-> 0, status |-> 0, resolved |-> FALSE,
            count |-> 0, updated |-> 0]
NoJob == [at |-> "idle", read |-> NoIssue, match |-> 0, c |-> Free, now |-> 0]

Later(a, b) == IF a > b THEN a ELSE b

RowsInit ==
  /\ issue = [NoIssue EXCEPT !.there = TRUE, !.version = 1]
  /\ history = 1
  /\ comments = {} /\ spare = CommentIds
  /\ iLock = Free /\ cLock = [c \in CommentIds |-> Free]
  /\ job = [w \in Workers |-> NoJob]
  /\ clock = 0
  /\ wins = [v \in 1..MaxVersion |-> 0]

-----------------------------------------------------------------------------
\* Fault: the locks of the comments are kept.
EndJobHolding(w) ==
  /\ job' = [job EXCEPT ![w] = NoJob]
  /\ iLock' = IF iLock = w THEN Free ELSE iLock
  /\ UNCHANGED cLock

\* The transaction of w ends, and its locks with it.
EndJob(w) ==
  /\ job' = [job EXCEPT ![w] = NoJob]
  /\ iLock' = IF iLock = w THEN Free ELSE iLock
  /\ cLock' = [c \in CommentIds |-> IF cLock[c] = w THEN Free ELSE cLock[c]]

Answer(w) == EndJob(w) /\ UNCHANGED <<issue, history, comments, spare, clock, wins>>

\* Fault: the row is read without FOR UPDATE.
IssueAccessUnlocked(w, at, match) ==
  /\ job[w].at = "idle" /\ issue.there
  /\ job' = [job EXCEPT ![w] = [NoJob EXCEPT !.at = at, !.read = issue, !.match = match]]
  /\ UNCHANGED <<issue, history, comments, spare, iLock, cLock, clock, wins>>

\* issueAccess with FOR UPDATE: wait for the row, then read it.
IssueAccess(w, at, match) ==
  /\ job[w].at = "idle" /\ issue.there /\ iLock = Free
  /\ iLock' = w
  /\ job' = [job EXCEPT ![w] = [NoJob EXCEPT !.at = at, !.read = issue, !.match = match]]
  /\ UNCHANGED <<issue, history, comments, spare, cLock, clock, wins>>

\* Fault: updated_at is the clock.
StampClock(read) == clock

\* updated_at moves past the one that was read.
Stamp(read) == Later(clock, read.updated + 1)

\* The columns of PATCH and transition, a history row (finishUpdate), Commit.
Store(w, status) ==
  LET read == job[w].read IN
  /\ issue' = [issue EXCEPT !.version = read.version + 1, !.updated = Stamp(read),
                            !.status = status, !.resolved = (status = 2)]
  /\ history' = history + 1
  /\ wins' = IF job[w].match = 0 THEN wins ELSE [wins EXCEPT ![job[w].match] = @ + 1]
  /\ EndJob(w)
  /\ UNCHANGED <<comments, spare, clock>>

Matches(w) == job[w].match = job[w].read.version

\* PATCH: 412, a change, or nothing to change.
PatchIssue(w) ==
  /\ job[w].at = "patch"
  /\ \/ Matches(w) /\ Store(w, job[w].read.status)
     \/ Answer(w)

\* transition: If-Match is optional (0); 409 outside the table.
Allowed(from, to) == <<from, to>> \in {<<0, 1>>, <<1, 0>>, <<1, 2>>, <<2, 1>>}

Transition(w, to) ==
  /\ job[w].at = "move"
  /\ IF (job[w].match = 0 \/ Matches(w)) /\ Allowed(job[w].read.status, to)
     THEN Store(w, to)
     ELSE Answer(w)

\* DELETE of the issue cascades to its comments, and waits for each.
DeleteIssue(w) ==
  /\ job[w].at = "remove"
  /\ \A c \in comments : cLock[c] \in {Free, w}
  /\ issue' = NoIssue /\ history' = 0 /\ comments' = {}
  /\ EndJob(w)
  /\ UNCHANGED <<spare, clock, wins>>

\* POST comment, with the issue locked.
CreateComment(w) ==
  /\ job[w].at = "comment"
  /\ \E c \in spare :
       /\ comments' = comments \cup {c} /\ spare' = spare \ {c}
       /\ issue' = [issue EXCEPT !.count = @ + 1]
  /\ EndJob(w)
  /\ UNCHANGED <<history, clock, wins>>

\* commentAccess: SELECT ... FOR UPDATE OF c.
CommentAccess(w, at, c) ==
  /\ job[w].at = "idle" /\ c \in comments /\ cLock[c] = Free
  /\ cLock' = [cLock EXCEPT ![c] = w]
  /\ job' = [job EXCEPT ![w] = [NoJob EXCEPT !.at = at, !.c = c]]
  /\ UNCHANGED <<issue, history, comments, spare, iLock, clock, wins>>

PatchComment(w) == job[w].at = "edit" /\ Answer(w)

\* DELETE of the comment, then the count of the issue, whose row it waits for.
DeleteComment(w) ==
  /\ job[w].at = "uncomment" /\ iLock \in {Free, w}
  /\ comments' = comments \ {job[w].c}
  /\ issue' = [issue EXCEPT !.count = @ - 1]
  /\ EndJob(w)
  /\ UNCHANGED <<history, spare, clock, wins>>

\* hDeleteOrgMember has taken the time before unassignAll waits for the row.
LeaveOrg(w) ==
  /\ job[w].at = "idle"
  /\ job' = [job EXCEPT ![w] = [NoJob EXCEPT !.at = "unassign", !.now = clock]]
  /\ UNCHANGED <<issue, history, comments, spare, iLock, cLock, clock, wins>>

UnassignAll(w) ==
  /\ job[w].at = "unassign" /\ iLock = Free
  /\ \/ /\ issue.there /\ issue.version < MaxVersion
        /\ issue' = [issue EXCEPT !.version = @ + 1, !.updated = job[w].now]
        /\ history' = history + 1
     \/ UNCHANGED <<issue, history>>                  \* not the assignee
  /\ EndJob(w)
  /\ UNCHANGED <<comments, spare, clock, wins>>

\* Two transactions wait for each other.
Deadlocked(w, v) ==
  /\ job[w].at = "remove" /\ iLock = w
  /\ job[v].at = "uncomment" /\ cLock[job[v].c] = v /\ job[v].c \in comments

\* A statement fails, or the database aborts one of two that wait: Rollback.
Rollback(w) == job[w].at # "idle" /\ Answer(w)

\* The clock goes on, or is set back.
Tick ==
  /\ clock' \in 0..MaxClock
  /\ UNCHANGED <<issue, history, comments, spare, iLock, cLock, job, wins>>

Room == issue.version < MaxVersion

Step(w) ==
  \/ PatchIssue(w) \/ DeleteIssue(w) \/ CreateComment(w) \/ PatchComment(w)
  \/ DeleteComment(w) \/ UnassignAll(w) \/ Rollback(w)
  \/ \E to \in 0..2 : Transition(w, to)

RowsNext ==
  \/ Tick
  \/ \E w \in Workers :
       \/ Step(w)
       \/ Room /\ \E v \in 1..MaxVersion : IssueAccess(w, "patch", v)
       \/ Room /\ \E v \in 0..MaxVersion : IssueAccess(w, "move", v)
       \/ IssueAccess(w, "remove", 0)
       \/ spare # {} /\ IssueAccess(w, "comment", 0)
       \/ \E c \in CommentIds : CommentAccess(w, "edit", c) \/ CommentAccess(w, "uncomment", c)
       \/ LeaveOrg(w)

RowsSpec == RowsInit /\ [][RowsNext]_rowVars

-----------------------------------------------------------------------------
\* go-plain-1: lockIssue reads the row again under its lock; updated_at is the
\* time of the write.
PlainLockIssue(w, at, match) ==
  /\ job[w].at = "idle" /\ issue.there /\ iLock = Free
  /\ iLock' = w
  /\ job' = [job EXCEPT ![w] = [NoJob EXCEPT !.at = at, !.read = issue, !.match = match]]
  /\ UNCHANGED <<issue, history, comments, spare, cLock, clock, wins>>

\* saveIssueUpdate
PlainSave(w, status) ==
  LET read == job[w].read IN
  /\ issue' = [issue EXCEPT !.version = read.version + 1, !.updated = clock,
                            !.status = status, !.resolved = (status = 2)]
  /\ history' = history + 1
  /\ wins' = IF job[w].match = 0 THEN wins ELSE [wins EXCEPT ![job[w].match] = @ + 1]
  /\ EndJob(w)
  /\ UNCHANGED <<comments, spare, clock>>

PlainPatchIssue(w) ==
  /\ job[w].at = "plain-patch"
  /\ \/ Matches(w) /\ PlainSave(w, job[w].read.status)
     \/ Answer(w)

PlainTransition(w, to) ==
  /\ job[w].at = "plain-move"
  /\ IF (job[w].match = 0 \/ Matches(w)) /\ Allowed(job[w].read.status, to)
     THEN PlainSave(w, to)
     ELSE Answer(w)

PlainDeleteIssue(w) ==
  /\ job[w].at = "remove"
  /\ \A c \in comments : cLock[c] \in {Free, w}
  /\ issue' = NoIssue /\ history' = 0 /\ comments' = {}
  /\ EndJob(w)
  /\ UNCHANGED <<spare, clock, wins>>

\* The count first, which locks the row, then the comment.
PlainCreateComment(w) ==
  /\ job[w].at = "comment"
  /\ \E c \in spare :
       /\ issue' = [issue EXCEPT !.count = @ + 1]
       /\ comments' = comments \cup {c} /\ spare' = spare \ {c}
  /\ EndJob(w)
  /\ UNCHANGED <<history, clock, wins>>

\* loadComment reads without a lock; the comment may be gone when it is changed.
PlainLoadComment(w, at, c) ==
  /\ job[w].at = "idle" /\ c \in comments
  /\ job' = [job EXCEPT ![w] = [NoJob EXCEPT !.at = at, !.c = c]]
  /\ UNCHANGED <<issue, history, comments, spare, iLock, cLock, clock, wins>>

\* One UPDATE, of no row if the comment is gone: 200 either way.
PlainPatchComment(w) ==
  /\ job[w].at = "edit"
  /\ job[w].c \in comments => cLock[job[w].c] = Free
  /\ Answer(w)

\* DELETE of the comment waits for its row; none left is 404.
PlainDropComment(w) ==
  /\ job[w].at = "drop" /\ cLock[job[w].c] = Free
  /\ IF job[w].c \in comments
     THEN /\ cLock' = [cLock EXCEPT ![job[w].c] = w]
          /\ job' = [job EXCEPT ![w].at = "uncomment"]
          /\ UNCHANGED <<issue, history, comments, spare, iLock, clock, wins>>
     ELSE Answer(w)

\* ... and the count of the issue.
PlainDeleteComment(w) ==
  /\ job[w].at = "uncomment" /\ iLock \in {Free, w}
  /\ comments' = comments \ {job[w].c}
  /\ issue' = IF issue.there THEN [issue EXCEPT !.count = @ - 1] ELSE issue
  /\ EndJob(w)
  /\ UNCHANGED <<history, spare, clock, wins>>

\* unassignInOrg locks the issues and saves each like an update.
PlainUnassign(w) ==
  /\ job[w].at = "idle" /\ issue.there /\ iLock = Free /\ Room
  /\ issue' = [issue EXCEPT !.version = @ + 1, !.updated = clock]
  /\ history' = history + 1
  /\ UNCHANGED <<comments, spare, iLock, cLock, job, clock, wins>>

PlainRowsNext ==
  \/ Tick
  \/ \E w \in Workers :
       \/ PlainPatchIssue(w) \/ PlainDeleteIssue(w) \/ PlainCreateComment(w)
       \/ PlainPatchComment(w) \/ PlainDropComment(w) \/ PlainDeleteComment(w)
       \/ PlainUnassign(w) \/ Rollback(w)
       \/ \E to \in 0..2 : PlainTransition(w, to)
       \/ Room /\ \E v \in 1..MaxVersion : PlainLockIssue(w, "plain-patch", v)
       \/ Room /\ \E v \in 0..MaxVersion : PlainLockIssue(w, "plain-move", v)
       \/ PlainLockIssue(w, "remove", 0)
       \/ spare # {} /\ PlainLockIssue(w, "comment", 0)
       \/ \E c \in CommentIds : PlainLoadComment(w, "edit", c) \/ PlainLoadComment(w, "drop", c)

PlainRowsSpec == RowsInit /\ [][PlainRowsNext]_rowVars

-----------------------------------------------------------------------------
\* Rows, locks and jobs have values the code can store.
RowsTypeOK ==
  /\ issue.version \in 0..MaxVersion /\ issue.status \in 0..2
  /\ issue.count \in 0..Cardinality(CommentIds)
  /\ comments \subseteq CommentIds \ spare
  /\ iLock \in Workers \cup {Free} /\ cLock \in [CommentIds -> Workers \cup {Free}]
  /\ clock \in 0..MaxClock

\* finishUpdate and unassignAll: every version of an issue has its history row, and no other.
VersionCountsHistory == issue.version = history

\* hCreateComment, hDeleteComment and hDeleteIssue: the stored comment count is the number of comments, whatever is created,
\* removed, rolled back or aborted at the same time.
CommentCountRight == issue.count = Cardinality(comments)

\* hPatchIssue with If-Match (issues.go:799): of several PATCHes that name the same version one at most is accepted.
NoLostUpdate == \A v \in 1..MaxVersion : wins[v] <= 1

\* hTransition (issues.go:949): an issue is resolved exactly while it is done.
ResolvedIffDone == issue.resolved <=> issue.status = 2

\* What the issue's row stores of its history, comments and status (issues.go:165,
\* comments.go:96) is what they are.
RowSound ==
  RowsTypeOK /\ VersionCountsHistory /\ CommentCountRight /\ NoLostUpdate /\ ResolvedIffDone

\* hPatchIssue and hTransition (issues.go:856, 945): a new version of an issue is later than the
\* one before, whether the clock stands still or is set back ("updated_at changes together with
\* version", SPEC.md:121).  unassignAll, which takes the time before it waits for the row, and
\* go-plain-1, which stores the clock, do not promise it.
UpdatedMovesOn ==
  [][\A w \in Workers :
       job[w].at \in {"patch", "move"} /\ job'[w].at = "idle" /\ issue'.version > issue.version
       => issue'.updated > issue.updated]_rowVars

\* The only transactions that wait for each other are one that removes an issue
\* and one that removes a comment of it: every other wait is for a transaction
\* that can go on.
OnlyKnownDeadlock ==
  \A w \in Workers :
    job[w].at = "remove" /\ (\E c \in comments : cLock[c] \notin {Free, w}) =>
      \A c \in comments : cLock[c] # Free =>
        job[cLock[c]].at = "edit" \/ Deadlocked(w, cLock[c])
=============================================================================
