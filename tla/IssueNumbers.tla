---------------------------- MODULE IssueNumbers ----------------------------
(***************************************************************************)
(* Creation of issues in the two Go trackers (go-1/issues.go and           *)
(* go-plain-1/issues.go under src/tracker/impl): the numbers of one        *)
(* project and one Idempotency-Key of one user.                            *)
(*                                                                         *)
(* A request's transaction first inserts the row of the key, then takes    *)
(* its number from the row of the project, and holds both rows until it    *)
(* ends.  The trackers differ in what they do about a row of the key that  *)
(* is older than a day.                                                    *)
(***************************************************************************)
EXTENDS Naturals, Sequences, FiniteSets

CONSTANTS
  Requests,   \* requests served at the same time
  Bodies,     \* hashes of request bodies, positive numbers
  MaxIssues,  \* issues; bounds the model
  MaxBulk,    \* issues of one bulk request: 1000 in the code
  Attempts    \* 3 in the code

Nobody == "nobody"

ASSUME NumbersAssumption ==
  /\ Nobody \notin Requests
  /\ Bodies \subseteq Nat /\ MaxBulk \in Nat \ {0} /\ Attempts \in Nat \ {0}

VARIABLES
  seq,        \* projects.seq
  log,        \* history: numbers of the issues in the order of their commits
  seqHolder,  \* the request whose transaction holds the row of the project
  key,        \* the row of the key, as committed
  keyHolder,  \* the request whose transaction has written that row
  create,     \* what each request is doing
  today,      \* history: issues made with the key since its row last grew old
  purged      \* history: a row less than a day old has been deleted

numberVars == <<seq, log, seqHolder, key, keyHolder, create, today, purged>>

NoKey == [there |-> FALSE, hash |-> 0, num |-> 0, old |-> FALSE]
Resting == [at |-> "idle", hash |-> 0, n |-> 0, num |-> 0, tries |-> 0]

NumbersInit ==
  /\ seq = 0 /\ log = <<>> /\ seqHolder = Nobody
  /\ key = NoKey /\ keyHolder = Nobody
  /\ create = [r \in Requests |-> Resting]
  /\ today = {} /\ purged = FALSE

\* The step of a request that changes nothing but its own state.
Goes(r, at) == create' = [create EXCEPT ![r].at = at]
Ends(r)     == create' = [create EXCEPT ![r] = Resting]

\* Issues that the requests under way may still make.
Ahead == seq + MaxBulk * Cardinality({q \in Requests : create[q].at # "idle"})

-----------------------------------------------------------------------------
\* POST issues, with a key and the hash of the body, or without (0).
CreateIssue(r, hash) ==
  /\ create[r].at = "idle" /\ Ahead < MaxIssues
  /\ create' = [create EXCEPT ![r] = [at |-> IF hash = 0 THEN "seq" ELSE "try",
                                      hash |-> hash, n |-> 1, num |-> 0, tries |-> 0]]
  /\ UNCHANGED <<seq, log, seqHolder, key, keyHolder, today, purged>>

\* POST issues/bulk: n issues, all or none.
BulkCreate(r, n) ==
  /\ create[r].at = "idle" /\ Ahead < MaxIssues
  /\ create' = [create EXCEPT ![r] = [Resting EXCEPT !.at = "seq", !.n = n]]
  /\ UNCHANGED <<seq, log, seqHolder, key, keyHolder, today, purged>>

\* Fault: the INSERT does not wait, and a conflict is taken for success.
TryKeyBlind(r) ==
  /\ create[r].at = "try"
  /\ Goes(r, "seq")
  /\ UNCHANGED <<seq, log, seqHolder, key, keyHolder, today, purged>>

\* INSERT ... ON CONFLICT DO NOTHING waits for a transaction that has the row.
TryKey(r) ==
  /\ create[r].at = "try" /\ keyHolder = Nobody
  /\ IF key.there
     THEN Goes(r, "look") /\ UNCHANGED keyHolder
     ELSE Goes(r, "seq") /\ keyHolder' = r
  /\ UNCHANGED <<seq, log, seqHolder, key, today, purged>>

\* The loop of hCreateIssue: three attempts, then 409.
Again(r) ==
  LET c == create[r] IN
  create' = [create EXCEPT ![r] =
               IF c.tries + 1 = Attempts THEN Resting
               ELSE [c EXCEPT !.at = "try", !.tries = c.tries + 1]]

\* After the Rollback, a SELECT on the pool: gone, a day old, of another body
\* (422), or the answer to repeat.
LookKey(r) ==
  /\ create[r].at = "look"
  /\ CASE ~ key.there -> Again(r)
       [] key.there /\ key.old -> Goes(r, "purge")
       [] OTHER -> Ends(r)
  /\ UNCHANGED <<seq, log, seqHolder, key, keyHolder, today, purged>>

\* The DELETE takes whatever row the key has by now; its error is dropped.
PurgeKey(r) ==
  /\ create[r].at = "purge"
  /\ \/ key' = NoKey /\ purged' = (purged \/ (key.there /\ ~ key.old))
     \/ UNCHANGED <<key, purged>>
  /\ Again(r)
  /\ UNCHANGED <<seq, log, seqHolder, keyHolder, today>>

\* Fault: the number is read, not taken.
TakeNumberUnlocked(r) ==
  /\ create[r].at = "seq"
  /\ seqHolder' = seqHolder
  /\ create' = [create EXCEPT ![r].at = "insert", ![r].num = seq + create[r].n]
  /\ UNCHANGED <<seq, log, key, keyHolder, today, purged>>

\* UPDATE projects SET seq=seq+n: the row stays locked until the end.
TakeNumber(r) ==
  /\ create[r].at = "seq" /\ seqHolder = Nobody
  /\ seqHolder' = r
  /\ create' = [create EXCEPT ![r].at = "insert", ![r].num = seq + create[r].n]
  /\ UNCHANGED <<seq, log, key, keyHolder, today, purged>>

\* The transaction of r ends.
Release(r) ==
  /\ seqHolder' = IF seqHolder = r THEN Nobody ELSE seqHolder
  /\ keyHolder' = IF keyHolder = r THEN Nobody ELSE keyHolder
  /\ Ends(r)

\* The issues, their history and the answer kept under the key: Commit.
CommitIssues(r) ==
  /\ create[r].at = "insert"
  /\ LET c == create[r] IN
     /\ seq' = c.num
     /\ log' = log \o [i \in 1..c.n |-> c.num - c.n + i]
     /\ IF c.hash = 0 THEN UNCHANGED <<key, today>>
        ELSE /\ key' = [there |-> TRUE, hash |-> c.hash, num |-> c.num, old |-> FALSE]
             /\ today' = today \cup {c.num}
  /\ Release(r)
  /\ UNCHANGED purged

\* A statement fails, the project is gone or the assignee is not eligible.
AbortIssues(r) ==
  /\ create[r].at \in {"seq", "insert"}
  /\ Release(r)
  /\ UNCHANGED <<seq, log, key, today, purged>>

\* A day passes.
KeyAges ==
  /\ key.there /\ ~ key.old
  /\ key' = [key EXCEPT !.old = TRUE]
  /\ today' = {}
  /\ UNCHANGED <<seq, log, seqHolder, keyHolder, create, purged>>

NumbersNext ==
  \/ KeyAges
  \/ \E r \in Requests :
       \/ \E hash \in Bodies \cup {0} : CreateIssue(r, hash)
       \/ \E n \in 1..MaxBulk : BulkCreate(r, n)
       \/ TryKey(r) \/ LookKey(r) \/ PurgeKey(r)
       \/ TakeNumber(r) \/ CommitIssues(r) \/ AbortIssues(r)

-----------------------------------------------------------------------------
\* go-plain-1: ON CONFLICT DO UPDATE ... WHERE the row is a day old, in the
\* transaction that creates the issue.
PlainTryKey(r) ==
  /\ create[r].at = "try" /\ keyHolder = Nobody
  /\ IF key.there /\ ~ key.old
     THEN Goes(r, "look") /\ UNCHANGED keyHolder
     ELSE Goes(r, "seq") /\ keyHolder' = r
  /\ UNCHANGED <<seq, log, seqHolder, key, today, purged>>

\* 422 for another body, the kept answer otherwise.
PlainLookKey(r) ==
  /\ create[r].at = "look"
  /\ Ends(r)
  /\ UNCHANGED <<seq, log, seqHolder, key, keyHolder, today, purged>>

\* insertIssues takes consecutive numbers for one issue or for many.
PlainTakeNumber(r) ==
  /\ create[r].at = "seq" /\ seqHolder = Nobody
  /\ seqHolder' = r
  /\ create' = [create EXCEPT ![r].at = "insert", ![r].num = seq + create[r].n]
  /\ UNCHANGED <<seq, log, key, keyHolder, today, purged>>

\* bulkCreateIssues: the numbers and the issues of the whole request in one transaction.
PlainBulkCreate(r, n) ==
  /\ create[r].at = "idle" /\ Ahead < MaxIssues
  /\ create' = [create EXCEPT ![r] = [Resting EXCEPT !.at = "seq", !.n = n]]
  /\ UNCHANGED <<seq, log, seqHolder, key, keyHolder, today, purged>>

PlainCommitIssues(r) ==
  /\ create[r].at = "insert"
  /\ LET c == create[r] IN
     /\ seq' = c.num
     /\ log' = log \o [i \in 1..c.n |-> c.num - c.n + i]
     /\ IF c.hash = 0 THEN UNCHANGED <<key, today>>
        ELSE /\ key' = [there |-> TRUE, hash |-> c.hash, num |-> c.num, old |-> FALSE]
             /\ today' = today \cup {c.num}
  /\ Release(r)
  /\ UNCHANGED purged

PlainNumbersNext ==
  \/ KeyAges
  \/ \E r \in Requests :
       \/ \E hash \in Bodies \cup {0} : CreateIssue(r, hash)
       \/ \E n \in 1..MaxBulk : PlainBulkCreate(r, n)
       \/ PlainTryKey(r) \/ PlainLookKey(r) \/ PlainTakeNumber(r)
       \/ PlainCommitIssues(r) \/ AbortIssues(r)

NumbersSpec      == NumbersInit /\ [][NumbersNext]_numberVars

PlainNumbersSpec == NumbersInit /\ [][PlainNumbersNext]_numberVars

-----------------------------------------------------------------------------
Creations == [at : {"idle", "try", "look", "purge", "seq", "insert"}, hash : Bodies \cup {0},
              n : 0..MaxBulk, num : Nat, tries : 0..(Attempts - 1)]
KeyRows   == [there : BOOLEAN, hash : Bodies \cup {0}, num : Nat, old : BOOLEAN]

\* Rows and requests have values the code can store; a kept answer is about an issue that
\* is there.
NumbersTypeOK ==
  /\ seq \in Nat
  /\ {seqHolder, keyHolder} \subseteq Requests \cup {Nobody}
  /\ key \in KeyRows /\ (key.there => key.hash \in Bodies /\ key.num \in 1..seq)
  /\ create \in [Requests -> Creations]

\* createOne and hBulkCreate (projects.seq): issues are numbered without a gap or a
\* repetition, and in the order in which they appear to readers, whatever fails and whoever
\* else creates issues.
NumbersInOrder == log = [i \in 1..seq |-> i]

\* ... and the row of the project, the key and the requests agree with them.
NumberingSound == NumbersTypeOK /\ NumbersInOrder

\* The inductive strengthening: whoever inserts holds the row of the project, and has taken
\* the numbers that follow the last one.
NumbersTaken ==
  \A r \in Requests :
    /\ create[r].at # "idle" => create[r].n >= 1
    /\ create[r].at = "insert" => seqHolder = r /\ create[r].num = seq + create[r].n
NumbersInv == NumberingSound /\ NumbersTaken

\* hCreateIssue with an Idempotency-Key: a key makes a second issue within a day only if a
\* request that had found the old row deletes the row another request has made since.
TwiceOnlyByPurge == Cardinality(today) <= 1 \/ purged
=============================================================================
