------------------------------ MODULE Webhooks ------------------------------
(***************************************************************************)
(* The webhook dispatcher of the Go issue tracker                          *)
(* (src/tracker/impl/go-1/webhooks.go) with the request handlers that feed *)
(* it, for one subscribed webhook.                                         *)
(*                                                                         *)
(* A handler that changes an issue locks the issue's row, inserts the      *)
(* delivery in the same transaction, commits, and only then enqueues the   *)
(* delivery in memory.  One worker per issue sends the deliveries of its   *)
(* queue; the deliveries table survives a crash, the queues are filled     *)
(* from it at the next start.  Statements can fail.                        *)
(*                                                                         *)
(* Delivery ids are numbers in the order in which newID made them.  Bodies *)
(* and back-off times are left out.                                        *)
(***************************************************************************)
EXTENDS Naturals, FiniteSets

CONSTANTS
  Handlers,     \* requests served at the same time
  Issues,
  MaxEvents,    \* ids handed out; bounds the model
  MaxAttempts,  \* 6 in the code
  Slots,        \* attempts at the same time: 64 in the code
  MaxStops,     \* stops of the server; bounds the model
  MaxErrors     \* failed statements; bounds the model

ASSUME BoundAssumption ==
  /\ {MaxEvents, MaxStops, MaxErrors} \subseteq Nat
  /\ {MaxAttempts, Slots} \subseteq Nat \ {0}

Ids == 1..MaxEvents

VARIABLES
  up,        \* the server runs
  stops,     \* how often it has stopped
  errors,    \* statements that have failed
  nextId,    \* what newID returns
  issueOf,   \* deliveries.issue_id
  row,       \* deliveries.status, "none" before the commit
  tries,     \* deliveries.attempts
  req,       \* what each handler does, and the delivery it made
  queue,     \* d.queues: the ids of an issue, kept in ascending order
  running,   \* the keys of d.queues
  work,      \* the worker of an issue
  answered,  \* history: deliveries whose request has been answered
  before,    \* history: those of the same issue answered before it was made
  late,      \* history: enqueued after the worker had taken a later one
  lost,      \* history: pending, but given up until the next start
  acks,      \* history: 2xx answers to a delivery
  doubtful   \* history: a 2xx answer could not be recorded

server  == <<up, stops>>
table   == <<row, tries>>
memory  == <<queue, running>>
history == <<answered, before, late, lost, acks, doubtful>>
vars == <<server, errors, nextId, issueOf, table, req, memory, work, history>>

Request(at, e)       == [at |-> at, id |-> e]
Worker(at, e, n, ok) == [at |-> at, id |-> e, tries |-> n, ok |-> ok]

NoRequest == Request("idle", 0)
NoWorker  == Worker("none", 0, 0, FALSE)
Taking    == Worker("take", 0, 0, FALSE)
Taken     == {"load", "ready", "post", "record"}

Pending == {e \in Ids : row[e] = "pending"}
Of(i)   == {e \in Ids : issueOf[e] = i}

\* A worker has taken delivery e of issue i.
Picked(i, e) ==
  row[e] # "none" /\ e \notin queue[i] /\ \A h \in Handlers : req[h].id # e

\* A statement fails.
Fails == errors < MaxErrors /\ errors' = errors + 1

-----------------------------------------------------------------------------
Init ==
  /\ up = TRUE /\ stops = 0 /\ errors = 0
  /\ nextId = 1
  /\ issueOf = [e \in Ids |-> "none"]
  /\ row = [e \in Ids |-> "none"]
  /\ tries = [e \in Ids |-> 0]
  /\ req = [h \in Handlers |-> NoRequest]
  /\ queue = [i \in Issues |-> {}]
  /\ running = {}
  /\ work = [i \in Issues |-> NoWorker]
  /\ answered = {} /\ late = {} /\ lost = {} /\ doubtful = {}
  /\ before = [e \in Ids |-> {}]
  /\ acks = [e \in Ids |-> 0]

\* issueAccess with FOR UPDATE waits for the transaction that has the issue.
RowFree(i) == \A g \in Handlers : req[g].at = "tx" => issueOf[req[g].id] # i

\* PATCH, transition, comment or DELETE: the row of the issue is locked until
\* the transaction ends, the id is made and the delivery inserted meanwhile.
Change(h, i) ==
  /\ up /\ req[h].at = "idle"
  /\ nextId <= MaxEvents
  /\ RowFree(i)
  /\ req' = [req EXCEPT ![h] = Request("tx", nextId)]
  /\ issueOf' = [issueOf EXCEPT ![nextId] = i]
  /\ before' = [before EXCEPT ![nextId] = answered \cap Of(i)]
  /\ nextId' = nextId + 1
  /\ UNCHANGED <<server, errors, table, memory, work, answered, late, lost, acks, doubtful>>

Commit(h) ==
  /\ up /\ req[h].at = "tx"
  /\ req' = [req EXCEPT ![h] = Request("committed", req[h].id)]
  /\ row' = [row EXCEPT ![req[h].id] = "pending"]
  /\ UNCHANGED <<server, errors, nextId, issueOf, tries, memory, work, history>>

\* A statement or the commit fails: the deferred Rollback, and 500.
Rollback(h) ==
  /\ up /\ req[h].at = "tx" /\ Fails
  /\ req' = [req EXCEPT ![h] = NoRequest]
  /\ UNCHANGED <<server, nextId, issueOf, table, memory, work, history>>

\* The database commits but Commit returns an error, say because the client has
\* gone and the request's context with it: 500, and nothing is enqueued.
CommitUnknown(h) ==
  /\ up /\ req[h].at = "tx" /\ Fails
  /\ req' = [req EXCEPT ![h] = NoRequest]
  /\ row' = [row EXCEPT ![req[h].id] = "pending"]
  /\ lost' = lost \cup {req[h].id}
  /\ UNCHANGED <<server, nextId, issueOf, tries, memory, work, answered, before, late, acks,
                 doubtful>>

\* Fault: the new id replaces the queue.
PutAlone(i, e) ==
  /\ queue' = [queue EXCEPT ![i] = {e}]
  /\ running' = running \cup {i}
  /\ work' = IF i \in running THEN work ELSE [work EXCEPT ![i] = Taking]

\* enqueue of one delivery: a key that is new in d.queues gets a worker.
Put(i, e) ==
  /\ queue' = [queue EXCEPT ![i] = @ \cup {e}]
  /\ running' = running \cup {i}
  /\ work' = IF i \in running THEN work ELSE [work EXCEPT ![i] = Taking]

\* Fault: the request is answered before the delivery is enqueued.
AnswerFirst(h) ==
  /\ up /\ req[h].at = "committed"
  /\ \/ /\ req[h].id \notin answered
        /\ answered' = answered \cup {req[h].id}
        /\ UNCHANGED <<req, memory, work>>
     \/ /\ req[h].id \in answered
        /\ Put(issueOf[req[h].id], req[h].id)
        /\ req' = [req EXCEPT ![h] = NoRequest]
        /\ UNCHANGED answered
  /\ UNCHANGED <<server, errors, nextId, issueOf, table, before, late, lost, acks, doubtful>>

\* disp.enqueue after the commit; then the answer.
EnqueueAnswer(h) ==
  /\ up /\ req[h].at = "committed"
  /\ LET e == req[h].id
         i == issueOf[e]
     IN  /\ Put(i, e)
         /\ late' = IF \E d \in Of(i) : d > e /\ Picked(i, d) THEN late \cup {e} ELSE late
         /\ answered' = answered \cup {e}
  /\ req' = [req EXCEPT ![h] = NoRequest]
  /\ UNCHANGED <<server, errors, nextId, issueOf, table, before, lost, acks, doubtful>>

-----------------------------------------------------------------------------
\* Fault: the worker takes any delivery of its queue.
TakeAny(i) ==
  /\ up /\ work[i].at = "take"
  /\ \E e \in queue[i] :
       /\ queue' = [queue EXCEPT ![i] = @ \ {e}]
       /\ work' = [work EXCEPT ![i] = Worker("load", e, 0, FALSE)]
  /\ UNCHANGED <<server, errors, nextId, issueOf, table, req, running, history>>

\* The worker takes the first delivery of its queue.
Take(i) ==
  /\ up /\ work[i].at = "take"
  /\ \E e \in queue[i] :
       /\ \A d \in queue[i] : e <= d
       /\ queue' = [queue EXCEPT ![i] = @ \ {e}]
       /\ work' = [work EXCEPT ![i] = Worker("load", e, 0, FALSE)]
  /\ UNCHANGED <<server, errors, nextId, issueOf, table, req, running, history>>

\* Fault: the key stays in d.queues.
LeaveKey(i) ==
  /\ up /\ work[i].at = "take" /\ queue[i] = {}
  /\ work' = [work EXCEPT ![i] = NoWorker]
  /\ UNCHANGED <<server, errors, nextId, issueOf, table, req, queue, running, history>>

\* The queue is empty: the key is deleted, in the same section, and the worker
\* ends.
Leave(i) ==
  /\ up /\ work[i].at = "take" /\ queue[i] = {}
  /\ running' = running \ {i}
  /\ work' = [work EXCEPT ![i] = NoWorker]
  /\ UNCHANGED <<server, errors, nextId, issueOf, table, req, queue, history>>

\* process reads the delivery.
Load(i) ==
  /\ up /\ work[i].at = "load"
  /\ LET e == work[i].id
     IN  work' = [work EXCEPT ![i] = IF row[e] = "pending"
                                     THEN Worker("ready", e, tries[e], FALSE) ELSE Taking]
  /\ UNCHANGED <<server, errors, nextId, issueOf, table, req, memory, history>>

\* The SELECT fails, and the worker goes on with the next delivery.
LoadFails(i) ==
  /\ up /\ work[i].at = "load" /\ Fails
  /\ work' = [work EXCEPT ![i] = Taking]
  /\ lost' = lost \cup {work[i].id}
  /\ UNCHANGED <<server, nextId, issueOf, table, req, memory, answered, before, late,
                 acks, doubtful>>

\* The back-off is over, and d.sem has a slot.
Post(i) ==
  /\ up /\ work[i].at = "ready"
  /\ Cardinality({j \in Issues : work[j].at = "post"}) < Slots
  /\ work' = [work EXCEPT ![i] = Worker("post", work[i].id, work[i].tries, FALSE)]
  /\ UNCHANGED <<server, errors, nextId, issueOf, table, req, memory, history>>

\* The receiver answers with 2xx, or not within 5 seconds.
Answer(i, ok) ==
  /\ up /\ work[i].at = "post"
  /\ work' = [work EXCEPT ![i] = Worker("record", work[i].id, work[i].tries + 1, ok)]
  /\ acks' = IF ok THEN [acks EXCEPT ![work[i].id] = @ + 1] ELSE acks
  /\ UNCHANGED <<server, errors, nextId, issueOf, table, req, memory, answered, before,
                 late, lost, doubtful>>

\* Success, or the last failure.
Final(i) == work[i].ok \/ work[i].tries >= MaxAttempts

\* The next delivery, or the next attempt.
GoOn(i) ==
  work' = [work EXCEPT ![i] = IF Final(i) THEN Taking
                              ELSE Worker("ready", work[i].id, work[i].tries, FALSE)]

\* Fault: the success is not recorded as such.
RecordTries(i) ==
  /\ up /\ work[i].at = "record"
  /\ tries' = [tries EXCEPT ![work[i].id] = work[i].tries]
  /\ GoOn(i)
  /\ UNCHANGED <<server, errors, nextId, issueOf, row, req, memory, history>>

\* The UPDATE after an attempt.
Record(i) ==
  /\ up /\ work[i].at = "record"
  /\ tries' = [tries EXCEPT ![work[i].id] = work[i].tries]
  /\ row' = IF Final(i)
            THEN [row EXCEPT ![work[i].id] = IF work[i].ok THEN "succeeded" ELSE "failed"]
            ELSE row
  /\ GoOn(i)
  /\ UNCHANGED <<server, errors, nextId, issueOf, req, memory, history>>

\* The UPDATE fails: the worker goes on as if it had not.
RecordFails(i) ==
  /\ up /\ work[i].at = "record" /\ Fails
  /\ GoOn(i)
  /\ lost' = IF Final(i) THEN lost \cup {work[i].id} ELSE lost
  /\ doubtful' = IF work[i].ok THEN doubtful \cup {work[i].id} ELSE doubtful
  /\ UNCHANGED <<server, nextId, issueOf, table, req, memory, answered, before, late, acks>>

-----------------------------------------------------------------------------
\* A crash, or the end of main after SIGTERM: transactions are rolled back,
\* requests, queues and workers are gone.
Stop ==
  /\ up /\ stops < MaxStops
  /\ up' = FALSE /\ stops' = stops + 1
  /\ req' = [h \in Handlers |-> NoRequest]
  /\ queue' = [i \in Issues |-> {}]
  /\ running' = {}
  /\ work' = [i \in Issues |-> NoWorker]
  /\ doubtful' = doubtful \cup {work[i].id : i \in {j \in Issues : work[j].at = "record" /\ work[j].ok}}
  /\ UNCHANGED <<errors, nextId, issueOf, table, answered, before, late, lost, acks>>

\* main: loadPending enqueues all pending deliveries before requests arrive.
Start ==
  /\ ~up
  /\ up' = TRUE
  /\ queue' = [i \in Issues |-> Pending \cap Of(i)]
  /\ running' = {i \in Issues : Pending \cap Of(i) # {}}
  /\ work' = [i \in Issues |-> IF Pending \cap Of(i) # {}
                               THEN Taking ELSE NoWorker]
  /\ late' = {} /\ lost' = {}
  /\ UNCHANGED <<stops, errors, nextId, issueOf, table, req, answered, before, acks, doubtful>>

\* loadPending fails: main logs it and serves.
StartFails ==
  /\ ~up /\ Fails
  /\ up' = TRUE
  /\ late' = {} /\ lost' = Pending
  /\ UNCHANGED <<stops, nextId, issueOf, table, req, memory, work, answered, before, acks,
                 doubtful>>

Handle(h) == Commit(h) \/ EnqueueAnswer(h)

Step(i) == Take(i) \/ Leave(i) \/ Load(i) \/ (\E ok \in BOOLEAN : Answer(i, ok)) \/ Record(i)

Next ==
  \/ \E h \in Handlers : (\E i \in Issues : Change(h, i)) \/ Handle(h) \/ Rollback(h)
                        \/ CommitUnknown(h)
  \/ \E i \in Issues : Step(i) \/ Post(i) \/ LoadFails(i) \/ RecordFails(i)
  \/ Stop \/ Start \/ StartFails

Spec == Init /\ [][Next]_vars

\* Requests are served; workers run, an attempt ends after 5 seconds, the
\* senders that wait for d.sem get a slot in turn; somebody restarts the server.
FairSpec ==
  /\ Spec
  /\ \A h \in Handlers : WF_vars(Handle(h))
  /\ \A i \in Issues : WF_vars(Step(i)) /\ SF_vars(Post(i))
  /\ WF_vars(Start)

-----------------------------------------------------------------------------
RequestStates == [at : {"idle", "tx", "committed"}, id : Ids \cup {0}]
WorkerStates  == [at : Taken \cup {"none", "take"}, id : Ids \cup {0},
                  tries : 0..MaxAttempts, ok : BOOLEAN]

TypeOK ==
  /\ up \in BOOLEAN /\ stops \in 0..MaxStops /\ errors \in 0..MaxErrors
  /\ nextId \in 1..(MaxEvents + 1)
  /\ issueOf \in [Ids -> Issues \cup {"none"}]
  /\ row \in [Ids -> {"none", "pending", "succeeded", "failed"}]
  /\ tries \in [Ids -> 0..MaxAttempts]
  /\ req \in [Handlers -> RequestStates]
  /\ queue \in [Issues -> SUBSET Ids]
  /\ running \subseteq Issues
  /\ work \in [Issues -> WorkerStates]
  /\ answered \subseteq Ids /\ late \subseteq Ids
  /\ lost \subseteq Ids /\ doubtful \subseteq Ids
  /\ before \in [Ids -> SUBSET Ids]
  /\ acks \in [Ids -> Nat]

\* d.queues has a key exactly while the key's worker lives: nobody is left
\* waiting in a queue without a worker, and no issue gets a second one.
WorkerPerQueue == \A i \in Issues :
  /\ i \in running <=> work[i].at # "none"
  /\ queue[i] # {} => i \in running

\* "No change without the event": a committed delivery that is still pending is
\* queued, in the worker's hands, or about to be enqueued by its handler,
\* unless a failed statement made the worker give it up until the next start.
NoneForgotten ==
  up => \A e \in Pending \ lost :
    \/ \E i \in Issues : e \in queue[i] \/ (work[i].at \in Taken /\ work[i].id = e)
    \/ \E h \in Handlers : req[h] = Request("committed", e)

\* enqueue, worker and loadPending (webhooks.go:562-626): the queues, their workers and the
\* deliveries table agree.
DispatcherSound == TypeOK /\ WorkerPerQueue /\ NoneForgotten

\* A client that waits for its answers gets its deliveries in order: nothing is
\* attempted before what was answered before its own transaction began has
\* succeeded or failed for good.
CausalOrder ==
  \A i \in Issues : work[i].at \in Taken \ {"load"} =>
    \A e \in before[work[i].id] : row[e] \in {"succeeded", "failed"} \/ e \in lost

\* The inductive invariant behind WorkerPerQueue, NoneForgotten and CausalOrder.
\* Every request has an id of its own, not yet answered for.
Requests ==
  /\ \A h \in Handlers : req[h].at # "idle" =>
       /\ req[h].id \in Ids /\ req[h].id < nextId /\ issueOf[req[h].id] \in Issues
       /\ req[h].id \notin answered
       /\ req[h].at = "tx" <=> row[req[h].id] = "none"
  /\ \A g, h \in Handlers : g # h /\ req[h].at # "idle" => req[g].id # req[h].id
  /\ \A h \in Handlers : req[h].at = "idle" => req[h].id = 0

\* Rows belong to known issues, and what came before a delivery has a lower id.
Rows == \A e \in Ids :
  /\ row[e] # "none" => e < nextId /\ issueOf[e] \in Issues
  /\ row[e] \in {"none", "pending"} => tries[e] < MaxAttempts
  /\ e \in answered => row[e] # "none"
  /\ \A d \in before[e] : d \in answered /\ d < e /\ issueOf[d] = issueOf[e]

\* Queues and workers have committed deliveries of their own issue.
Workers == \A i \in Issues :
  /\ \A e \in queue[i] : issueOf[e] = i /\ row[e] # "none"
  /\ work[i].at \in Taken =>
       work[i].id \in Ids /\ issueOf[work[i].id] = i /\ row[work[i].id] # "none"
  /\ work[i].at \in {"ready", "post"} => work[i].tries < MaxAttempts
  /\ ~up => work[i].at = "none"

\* A pending delivery is at its own issue's queue or worker, or with its handler.
Kept ==
  up => \A e \in Pending \ lost :
    \/ e \in queue[issueOf[e]]
    \/ work[issueOf[e]].at \in Taken /\ work[issueOf[e]].id = e
    \/ \E h \in Handlers : req[h].at = "committed" /\ req[h].id = e

Ordered ==
  \A i \in Issues : work[i].at \in Taken =>
    \A e \in before[work[i].id] : row[e] \in {"succeeded", "failed"} \/ e \in lost

IInv == TypeOK /\ WorkerPerQueue /\ Requests /\ Rows /\ Workers /\ Kept /\ Ordered

\* Among the deliveries of an issue that are queued, the order of events is kept
\* although enqueue is called after the commit, in any order: a delivery is
\* overtaken only if it was enqueued after the later one had been taken.
OvertakenOnlyIfLate ==
  \A i \in Issues : work[i].at \in Taken =>
    \A e \in Pending \cap Of(i) : e < work[i].id =>
      e \in late \cup lost \/ \E h \in Handlers : req[h].id = e

\* A receiver that has answered with 2xx gets the same delivery again only if
\* the server stopped, or the UPDATE failed, before the answer was recorded.
RepeatedOnlyIfDoubtful == \A e \in Ids : acks[e] > 1 => e \in doubtful

\* Every committed delivery succeeds or fails for good, restarts included,
\* unless failed statements make the server give it up.
Settles == \A e \in Ids : row[e] = "pending" ~> row[e] # "pending" \/ e \in lost

\* "Deliveries of one webhook about the same issue are sent in event order; the
\* next one is not attempted until the previous one succeeded or failed for
\* good" (src/tracker/SPEC.md, Webhooks).
EventOrder ==
  \A i \in Issues : work[i].at \in {"post", "record"} =>
    \A e \in Pending \cap Of(i) : e >= work[i].id
=============================================================================
