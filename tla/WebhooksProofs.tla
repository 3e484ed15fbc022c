--------------------------- MODULE WebhooksProofs ---------------------------
(***************************************************************************)
(* Proofs about Webhooks, for any number of handlers, issues, deliveries,  *)
(* attempts, slots, stops and failed statements.                           *)
(*                                                                         *)
(* NoneForgotten is not inductive: it must say that a delivery is at its   *)
(* own issue's queue or worker (Kept), which needs rows of known issues    *)
(* (Rows) and queues that hold only their own (Workers).  CausalOrder must *)
(* hold from the moment a worker takes a delivery (Ordered), because what  *)
(* came before has a lower id (Rows) and is no longer with its handler     *)
(* (Requests).  IInv is the conjunction.                                   *)
(***************************************************************************)
EXTENDS Webhooks, TLAPS

\* The records that the actions build have the declared types.
LEMMA WorkerTypes ==
  /\ NoWorker \in WorkerStates /\ Taking \in WorkerStates
  /\ NoRequest \in RequestStates
  /\ \A at \in Taken, e \in Ids, n \in 0..MaxAttempts, ok \in BOOLEAN :
       Worker(at, e, n, ok) \in WorkerStates
  /\ \A at \in {"tx", "committed"}, e \in Ids : Request(at, e) \in RequestStates
BY BoundAssumption
DEF WorkerStates, RequestStates, NoWorker, Taking, NoRequest, Worker, Request, Taken, Ids

\* After a result, recorded or not, the worker's state is well typed.
LEMMA GoOnTypes ==
  ASSUME IInv, NEW i \in Issues, work[i].at = "record", GoOn(i)
  PROVE  /\ work[i].id \in Ids /\ work[i].tries \in 0..MaxAttempts
         /\ work' \in [Issues -> WorkerStates]
<1>1. work[i].id \in Ids /\ work[i].tries \in 0..MaxAttempts
  BY DEF IInv, TypeOK, WorkerStates, Workers, Taken
<1>2. work' \in [Issues -> WorkerStates]
  BY <1>1, WorkerTypes DEF IInv, TypeOK, GoOn, Taken
<1> QED BY <1>1, <1>2

\* A request begins its transaction: the new id is higher than all others.
LEMMA ChangeKeeps ==
  ASSUME IInv, NEW h \in Handlers, NEW i \in Issues, Change(h, i)
  PROVE  IInv'
<1>1. TypeOK'
  <2>0. nextId \in Ids
    BY BoundAssumption DEF IInv, TypeOK, Ids, Change
  <2>1. req' \in [Handlers -> RequestStates]
    BY <2>0, WorkerTypes DEF IInv, TypeOK, Change
  <2>2. before' \in [Ids -> SUBSET Ids]
    BY <2>0 DEF IInv, TypeOK, Change, Of
  <2>3. nextId' \in 1..(MaxEvents + 1) /\ issueOf' \in [Ids -> Issues \cup {"none"}]
    BY <2>0, BoundAssumption DEF IInv, TypeOK, Ids, Change
  <2> QED BY <2>1, <2>2, <2>3 DEF IInv, TypeOK, Change, server, table, memory, history
<1>2. WorkerPerQueue'
  BY DEF IInv, TypeOK, WorkerPerQueue, Change, Of, server, table, memory
<1>3. Requests'
  BY BoundAssumption
  DEF IInv, TypeOK, Requests, Rows, RequestStates, Ids, Change, Request, server, table, memory
<1>4. Rows'
  BY BoundAssumption
  DEF IInv, TypeOK, Rows, Ids, Change, Of, server, table, memory
<1>5. Workers'
  BY DEF IInv, TypeOK, Workers, Taken, Requests, Rows, Change, Of, server, table,
      memory
<1>6. Kept'
  BY DEF IInv, TypeOK, Kept, Pending, Taken, Requests, Rows, Workers, Change, Of,
      Request, server, table, memory
<1>7. Ordered'
  BY DEF IInv, TypeOK, Ordered, Taken, Requests, Rows, Workers, Change, Of, server,
      table, memory
<1> QED BY <1>1, <1>2, <1>3, <1>4, <1>5, <1>6, <1>7 DEF IInv

\* The transaction commits: the row is pending, and its handler holds it.
LEMMA CommitKeeps ==
  ASSUME IInv, NEW h \in Handlers, Commit(h)
  PROVE  IInv'
<1>1. TypeOK'
  BY WorkerTypes DEF IInv, TypeOK, Requests, Commit, server, memory, history
<1>2. WorkerPerQueue'
  BY DEF IInv, TypeOK, WorkerPerQueue, Commit, server, memory, history
<1>3. Requests'
  BY DEF IInv, TypeOK, Requests, Commit, Request, server, memory, history
<1>4. Rows'
  BY DEF IInv, TypeOK, Rows, Requests, Workers, Commit, Request, server, memory,
      history
<1>5. Workers'
  BY DEF IInv, TypeOK, Workers, Taken, Commit, server, memory, history
<1>6. Kept'
  BY DEF IInv, TypeOK, Kept, Pending, Taken, Commit, Request, server, memory,
      history
<1>7. Ordered'
  BY DEF IInv, TypeOK, Ordered, Taken, Requests, Rows, Workers, Commit, server,
      memory, history
<1> QED BY <1>1, <1>2, <1>3, <1>4, <1>5, <1>6, <1>7 DEF IInv

\* The transaction is rolled back: its id is never used.
LEMMA RollbackKeeps ==
  ASSUME IInv, NEW h \in Handlers, Rollback(h)
  PROVE  IInv'
<1>1. TypeOK'
  BY WorkerTypes, BoundAssumption
  DEF IInv, TypeOK, Rollback, Fails, server, table, memory, history
<1>2. WorkerPerQueue'
  BY DEF IInv, TypeOK, WorkerPerQueue, Rollback, Fails, server, table, memory,
      history
<1>3. Requests'
  BY DEF IInv, TypeOK, Requests, RequestStates, Ids, Rollback, NoRequest, Request, server, table,
      history
<1>4. Rows'
  BY DEF IInv, TypeOK, Rows, Rollback, Fails, NoRequest, Request, server, table,
      memory, history
<1>5. Workers'
  BY DEF IInv, TypeOK, Workers, Taken, Rollback, Fails, server, table, memory,
      history
<1>6. Kept'
  BY DEF IInv, TypeOK, Kept, Pending, Taken, Rollback, Fails, NoRequest, Request,
      server, table, memory, history
<1>7. Ordered'
  BY DEF IInv, TypeOK, Ordered, Taken, Rollback, Fails, server, table, memory,
      history
<1> QED BY <1>1, <1>2, <1>3, <1>4, <1>5, <1>6, <1>7 DEF IInv

\* The row is pending, but no handler holds it: it is given up.
LEMMA CommitUnknownKeeps ==
  ASSUME IInv, NEW h \in Handlers, CommitUnknown(h)
  PROVE  IInv'
<1>1. TypeOK'
  BY WorkerTypes, BoundAssumption
  DEF IInv, TypeOK, Requests, CommitUnknown, Fails, server, memory
<1>2. WorkerPerQueue'
  BY DEF IInv, TypeOK, WorkerPerQueue, CommitUnknown, Fails, server, memory
<1>3. Requests'
  BY DEF IInv, TypeOK, Requests, RequestStates, Ids, CommitUnknown, NoRequest, Request, server
<1>4. Rows'
  BY DEF IInv, TypeOK, Rows, Requests, Workers, CommitUnknown, Fails, NoRequest,
      Request, server, memory
<1>5. Workers'
  BY DEF IInv, TypeOK, Workers, Taken, CommitUnknown, Fails, server, memory
<1>6. Kept'
  BY DEF IInv, TypeOK, Kept, Pending, Taken, CommitUnknown, Fails, NoRequest,
      Request, server, memory
<1>7. Ordered'
  BY DEF IInv, TypeOK, Ordered, Taken, CommitUnknown, Fails, server, memory
<1> QED BY <1>1, <1>2, <1>3, <1>4, <1>5, <1>6, <1>7 DEF IInv

\* The handler hands its delivery over to the queue.
LEMMA EnqueueAnswerKeeps ==
  ASSUME IInv, NEW h \in Handlers, EnqueueAnswer(h)
  PROVE  IInv'
<1>1. TypeOK'
  <2>0. req[h].id \in Ids /\ issueOf[req[h].id] \in Issues
    BY DEF IInv, Requests, EnqueueAnswer
  <2>1. req' \in [Handlers -> RequestStates]
    BY WorkerTypes DEF IInv, TypeOK, EnqueueAnswer
  <2>2. work' \in [Issues -> WorkerStates]
    BY <2>0, WorkerTypes DEF IInv, TypeOK, EnqueueAnswer, Put
  <2>3. queue' \in [Issues -> SUBSET Ids] /\ running' \subseteq Issues
    BY <2>0 DEF IInv, TypeOK, EnqueueAnswer, Put
  <2>4. late' \subseteq Ids /\ answered' \subseteq Ids
    BY <2>0 DEF IInv, TypeOK, EnqueueAnswer
  <2> QED BY <2>1, <2>2, <2>3, <2>4 DEF IInv, TypeOK, EnqueueAnswer, server, table
<1>2. WorkerPerQueue'
  BY DEF IInv, TypeOK, WorkerPerQueue, EnqueueAnswer, Put, Taking, Worker, Of,
      server, table
<1>3. Requests'
  BY DEF IInv, TypeOK, Requests, RequestStates, Ids, EnqueueAnswer, NoRequest, Request, server,
      table
<1>4. Rows'
  BY DEF IInv, TypeOK, Rows, Requests, Workers, EnqueueAnswer, Of, NoRequest,
      Request, server, table
<1>5. Workers'
  BY DEF IInv, TypeOK, Workers, Taken, Requests, Rows, EnqueueAnswer, Put, Taking,
      Worker, Of, server, table
<1>6. Kept'
  BY DEF IInv, TypeOK, WorkerPerQueue, Requests, Kept, Pending, Taken, EnqueueAnswer, Put, Taking,
      Worker, NoRequest, Request, server, table
<1>7. Ordered'
  BY DEF IInv, TypeOK, Ordered, Taken, EnqueueAnswer, Put, Taking, Worker, Of,
      server, table
<1> QED BY <1>1, <1>2, <1>3, <1>4, <1>5, <1>6, <1>7 DEF IInv

\* The worker takes the lowest id: whatever was answered before its transaction
\* began is neither in the queue (it would be lower) nor with a handler any more.
LEMMA TakeKeeps ==
  ASSUME IInv, NEW i \in Issues, Take(i)
  PROVE  IInv'
<1>1. TypeOK'
  <2>1. PICK e \in queue[i] :
          /\ \A d \in queue[i] : e <= d
          /\ queue' = [queue EXCEPT ![i] = @ \ {e}]
          /\ work' = [work EXCEPT ![i] = Worker("load", e, 0, FALSE)]
    BY DEF Take
  <2>2. e \in Ids /\ 0 \in 0..MaxAttempts
    BY BoundAssumption DEF IInv, TypeOK
  <2>3. work' \in [Issues -> WorkerStates]
    BY <2>1, <2>2, WorkerTypes DEF IInv, TypeOK, Taken
  <2> QED BY <2>1, <2>3 DEF IInv, TypeOK, Take, server, table, history
<1>2. WorkerPerQueue'
  BY DEF IInv, TypeOK, WorkerPerQueue, Take, Worker, server, table, history
<1>3. Requests'
  BY DEF IInv, TypeOK, Requests, Take, server, table, history
<1>4. Rows'
  BY DEF IInv, Rows, Take, table, history
<1>5. Workers'
  BY DEF IInv, TypeOK, Workers, Taken, Take, Worker, server, table, history
<1>6. Kept'
  BY DEF IInv, TypeOK, Kept, Pending, Taken, Take, Worker, server, table, history
<1>7. Ordered'
  <2>1. PICK e \in queue[i] :
          /\ \A d \in queue[i] : e <= d
          /\ work' = [work EXCEPT ![i] = Worker("load", e, 0, FALSE)]
    BY DEF Take
  <2>2. work'[i].id = e /\ \A j \in Issues : j # i => work'[j] = work[j]
    BY <2>1 DEF IInv, TypeOK, Worker
  <2>3. e \in Ids /\ issueOf[e] = i /\ up /\ work[i].at = "take"
    BY DEF IInv, TypeOK, Workers, Take
  <2>4. ASSUME NEW d \in before[e]
        PROVE  row[d] \in {"succeeded", "failed"} \/ d \in lost
    <3>1. d \in Ids /\ d \in answered /\ d < e /\ issueOf[d] = i /\ row[d] # "none"
      BY <2>3 DEF IInv, TypeOK, Rows
    <3>2. d \notin queue[i]
      BY <2>1, <2>3, <3>1 DEF Ids
    <3>3. \A h \in Handlers : ~(req[h].at = "committed" /\ req[h].id = d)
      BY <3>1 DEF IInv, Requests
    <3>4. d \notin Pending \ lost
      BY <2>3, <3>1, <3>2, <3>3 DEF IInv, Kept, Taken
    <3> QED BY <3>1, <3>4 DEF IInv, TypeOK, Pending
  <2> QED BY <2>2, <2>3, <2>4 DEF IInv, Ordered, Take, table, history
<1> QED BY <1>1, <1>2, <1>3, <1>4, <1>5, <1>6, <1>7 DEF IInv

\* The worker of an empty queue leaves, and the key with it.
LEMMA LeaveKeeps ==
  ASSUME IInv, NEW i \in Issues, Leave(i)
  PROVE  IInv'
<1>1. TypeOK'
  BY WorkerTypes DEF IInv, TypeOK, Leave, server, table, history
<1>2. WorkerPerQueue'
  BY DEF IInv, TypeOK, WorkerPerQueue, Leave, NoWorker, Worker, server, table,
      history
<1>3. Requests'
  BY DEF IInv, TypeOK, Requests, Leave, server, table, history
<1>4. Rows'
  BY DEF IInv, TypeOK, Rows, Leave, server, table, history
<1>5. Workers'
  BY DEF IInv, TypeOK, Workers, Taken, Leave, NoWorker, Worker, server, table,
      history
<1>6. Kept'
  BY DEF IInv, TypeOK, Kept, Pending, Taken, Leave, NoWorker, Worker, server, table,
      history
<1>7. Ordered'
  BY DEF IInv, TypeOK, Ordered, Taken, Leave, NoWorker, Worker, server, table,
      history
<1> QED BY <1>1, <1>2, <1>3, <1>4, <1>5, <1>6, <1>7 DEF IInv

\* The worker reads the delivery.
LEMMA LoadKeeps ==
  ASSUME IInv, NEW i \in Issues, Load(i)
  PROVE  IInv'
<1>1. TypeOK'
  <2>0. work[i].id \in Ids
    BY DEF IInv, Workers, Load, Taken
  <2>1. work' \in [Issues -> WorkerStates]
    BY <2>0, WorkerTypes DEF IInv, TypeOK, Load, Taken
  <2> QED BY <2>1 DEF IInv, TypeOK, Load, server, table, memory, history
<1>2. WorkerPerQueue'
  BY DEF IInv, TypeOK, WorkerPerQueue, Load, Taking, Worker, server, table, memory,
      history
<1>3. Requests'
  BY DEF IInv, TypeOK, Requests, Load, server, table, memory, history
<1>4. Rows'
  BY DEF IInv, TypeOK, Rows, Load, server, table, memory, history
<1>5. Workers'
  BY DEF IInv, TypeOK, Workers, Taken, Requests, Rows, Load, Taking, Worker, server,
      table, memory, history
<1>6. Kept'
  BY DEF IInv, TypeOK, Kept, Pending, Taken, Load, Taking, Worker, server, table,
      memory, history
<1>7. Ordered'
  BY DEF IInv, TypeOK, Ordered, Taken, Load, Taking, Worker, server, table, memory,
      history
<1> QED BY <1>1, <1>2, <1>3, <1>4, <1>5, <1>6, <1>7 DEF IInv

\* The delivery that cannot be read is given up.
LEMMA LoadFailsKeeps ==
  ASSUME IInv, NEW i \in Issues, LoadFails(i)
  PROVE  IInv'
<1>1. TypeOK'
  <2>0. work[i].id \in Ids
    BY DEF IInv, Workers, LoadFails, Taken
  <2>1. work' \in [Issues -> WorkerStates]
    BY WorkerTypes DEF IInv, TypeOK, LoadFails
  <2>2. errors' \in 0..MaxErrors
    BY BoundAssumption DEF IInv, TypeOK, LoadFails, Fails
  <2> QED BY <2>0, <2>1, <2>2 DEF IInv, TypeOK, LoadFails, server, table, memory
<1>2. WorkerPerQueue'
  BY DEF IInv, TypeOK, WorkerPerQueue, LoadFails, Fails, Taking, Worker, server,
      table, memory
<1>3. Requests'
  BY DEF IInv, TypeOK, Requests, LoadFails, Fails, server, table, memory
<1>4. Rows'
  BY DEF IInv, TypeOK, Rows, LoadFails, Fails, server, table, memory
<1>5. Workers'
  BY DEF IInv, TypeOK, Workers, Taken, LoadFails, Fails, Taking, Worker, server,
      table, memory
<1>6. Kept'
  BY DEF IInv, TypeOK, Kept, Pending, Taken, LoadFails, Fails, Taking, Worker,
      server, table, memory
<1>7. Ordered'
  BY DEF IInv, TypeOK, Ordered, Taken, LoadFails, Fails, Taking, Worker, server,
      table, memory
<1> QED BY <1>1, <1>2, <1>3, <1>4, <1>5, <1>6, <1>7 DEF IInv

\* An attempt begins.
LEMMA PostKeeps ==
  ASSUME IInv, NEW i \in Issues, Post(i)
  PROVE  IInv'
<1>1. TypeOK'
  BY WorkerTypes DEF IInv, TypeOK, WorkerStates, Workers, Taken, Post, server, table, memory,
      history
<1>2. WorkerPerQueue'
  BY DEF IInv, TypeOK, WorkerPerQueue, Post, Worker, server, table, memory, history
<1>3. Requests'
  BY DEF IInv, TypeOK, Requests, Post, server, table, memory, history
<1>4. Rows'
  BY DEF IInv, TypeOK, Rows, Post, server, table, memory, history
<1>5. Workers'
  BY DEF IInv, TypeOK, Workers, Taken, Post, Worker, server, table, memory, history
<1>6. Kept'
  BY DEF IInv, TypeOK, Kept, Pending, Taken, Post, Worker, server, table, memory,
      history
<1>7. Ordered'
  BY DEF IInv, TypeOK, Ordered, Taken, Post, Worker, server, table, memory, history
<1> QED BY <1>1, <1>2, <1>3, <1>4, <1>5, <1>6, <1>7 DEF IInv

\* An attempt ends.
LEMMA AnswerKeeps ==
  ASSUME IInv, NEW i \in Issues, NEW ok \in BOOLEAN, Answer(i, ok)
  PROVE  IInv'
<1>1. TypeOK'
  <2>0. work[i].id \in Ids /\ work[i].tries + 1 \in 0..MaxAttempts
    <3>1. work[i].tries \in 0..MaxAttempts
      BY DEF IInv, TypeOK, WorkerStates
    <3>2. work[i].id \in Ids /\ work[i].tries < MaxAttempts
      BY DEF IInv, Workers, Answer, Taken
    <3> QED BY <3>1, <3>2, BoundAssumption
  <2>1. work' \in [Issues -> WorkerStates]
    BY <2>0, WorkerTypes DEF IInv, TypeOK, Answer, Taken
  <2>2. acks' \in [Ids -> Nat]
    BY <2>0 DEF IInv, TypeOK, Answer
  <2> QED BY <2>1, <2>2 DEF IInv, TypeOK, Answer, server, table, memory
<1>2. WorkerPerQueue'
  BY DEF IInv, TypeOK, WorkerPerQueue, Answer, Worker, server, table, memory
<1>3. Requests'
  BY DEF IInv, TypeOK, Requests, Answer, server, table, memory
<1>4. Rows'
  BY DEF IInv, TypeOK, Rows, Answer, server, table, memory
<1>5. Workers'
  <2>1. work[i].id \in Ids /\ issueOf[work[i].id] = i /\ row[work[i].id] # "none"
    BY DEF IInv, Workers, Answer, Taken
  <2>2. work'[i].at = "record" /\ work'[i].id = work[i].id
    BY DEF IInv, TypeOK, Answer, Worker
  <2>3. \A j \in Issues : j # i => work'[j] = work[j]
    BY DEF IInv, TypeOK, Answer
  <2> QED BY <2>1, <2>2, <2>3 DEF IInv, Workers, Answer, Taken, server, table, memory
<1>6. Kept'
  BY DEF IInv, TypeOK, Kept, Pending, Taken, Answer, Worker, server, table, memory
<1>7. Ordered'
  BY DEF IInv, TypeOK, Ordered, Taken, Answer, Worker, server, table, memory
<1> QED BY <1>1, <1>2, <1>3, <1>4, <1>5, <1>6, <1>7 DEF IInv

\* The attempt is recorded.
LEMMA RecordKeeps ==
  ASSUME IInv, NEW i \in Issues, Record(i)
  PROVE  IInv'
<1>1. TypeOK'
  <2>1. work[i].id \in Ids /\ work[i].tries \in 0..MaxAttempts /\ work' \in [Issues -> WorkerStates]
    BY GoOnTypes DEF Record
  <2>2. /\ tries' \in [Ids -> 0..MaxAttempts]
        /\ row' \in [Ids -> {"none", "pending", "succeeded", "failed"}]
    <3>1. tries' \in [Ids -> 0..MaxAttempts]
      BY <2>1 DEF IInv, TypeOK, Record
    <3>2. row' = row \/ \E s \in {"succeeded", "failed"} : row' = [row EXCEPT ![work[i].id] = s]
      BY DEF Record
    <3> QED BY <2>1, <3>1, <3>2 DEF IInv, TypeOK
  <2> QED BY <2>1, <2>2 DEF IInv, TypeOK, Record, server, memory, history
<1>2. WorkerPerQueue'
  BY DEF IInv, TypeOK, WorkerPerQueue, Record, GoOn, Final, Taking, Worker, server,
      memory, history
<1>3. Requests'
  BY DEF IInv, TypeOK, Requests, Workers, Taken, Record, server, memory, history
<1>4. Rows'
  BY BoundAssumption
  DEF IInv, TypeOK, Rows, Workers, Taken, WorkerStates, Record, Final, server, memory, history
<1>5. Workers'
  BY BoundAssumption
  DEF IInv, TypeOK, Workers, Taken, WorkerStates, Record, GoOn, Final, Taking, Worker, server,
      memory, history
<1>6. Kept'
  BY DEF IInv, TypeOK, Kept, Pending, Taken, Record, GoOn, Final, Taking, Worker,
      server, memory, history
<1>7. Ordered'
  BY DEF IInv, TypeOK, Ordered, Taken, Record, GoOn, Final, Taking, Worker, server,
      memory, history
<1> QED BY <1>1, <1>2, <1>3, <1>4, <1>5, <1>6, <1>7 DEF IInv

\* The attempt cannot be recorded.
LEMMA RecordFailsKeeps ==
  ASSUME IInv, NEW i \in Issues, RecordFails(i)
  PROVE  IInv'
<1>1. TypeOK'
  <2>1. work[i].id \in Ids /\ work[i].tries \in 0..MaxAttempts /\ work' \in [Issues -> WorkerStates]
    BY GoOnTypes DEF RecordFails
  <2>2. errors' \in 0..MaxErrors
    BY BoundAssumption DEF IInv, TypeOK, RecordFails, Fails
  <2> QED BY <2>1, <2>2 DEF IInv, TypeOK, RecordFails, server, table, memory
<1>2. WorkerPerQueue'
  BY DEF IInv, TypeOK, WorkerPerQueue, RecordFails, Fails, GoOn, Final, Taking,
      Worker, server, table, memory
<1>3. Requests'
  BY DEF IInv, TypeOK, Requests, RecordFails, Fails, server, table, memory
<1>4. Rows'
  BY DEF IInv, TypeOK, Rows, RecordFails, Fails, server, table, memory
<1>5. Workers'
  BY BoundAssumption
  DEF IInv, TypeOK, Workers, Taken, WorkerStates, RecordFails, GoOn, Final, Taking, Worker,
      server, table, memory
<1>6. Kept'
  BY DEF IInv, TypeOK, Kept, Pending, Taken, RecordFails, Fails, GoOn, Final,
      Taking, Worker, server, table, memory
<1>7. Ordered'
  BY DEF IInv, TypeOK, Ordered, Taken, RecordFails, Fails, GoOn, Final, Taking,
      Worker, server, table, memory
<1> QED BY <1>1, <1>2, <1>3, <1>4, <1>5, <1>6, <1>7 DEF IInv

\* All that was in memory is gone.
LEMMA StopKeeps ==
  ASSUME IInv, Stop
  PROVE  IInv'
<1>1. TypeOK'
  <2>1. doubtful' \subseteq Ids
    <3>1. doubtful \subseteq Ids /\ \A j \in Issues : work[j].at = "record" => work[j].id \in Ids
      BY DEF IInv, TypeOK, Workers, Taken
    <3> QED BY <3>1 DEF Stop
  <2>2. stops' \in 0..MaxStops
    <3>1. stops \in 0..MaxStops /\ stops < MaxStops /\ stops' = stops + 1
      BY DEF IInv, TypeOK, Stop
    <3>2. MaxStops \in Nat
      BY BoundAssumption
    <3> QED BY <3>1, <3>2
  <2>3. req' \in [Handlers -> RequestStates] /\ work' \in [Issues -> WorkerStates]
    BY WorkerTypes DEF Stop
  <2>4. up' \in BOOLEAN /\ queue' \in [Issues -> SUBSET Ids] /\ running' \subseteq Issues
    BY DEF Stop
  <2> QED BY <2>1, <2>2, <2>3, <2>4 DEF IInv, TypeOK, Stop, table
<1>2. WorkerPerQueue'
  BY DEF IInv, TypeOK, WorkerPerQueue, Stop, NoWorker, Worker, table
<1>3. Requests'
  BY DEF IInv, TypeOK, Requests, Stop, NoRequest, Request, table
<1>4. Rows'
  BY DEF IInv, TypeOK, Rows, Stop, NoRequest, Request, table
<1>5. Workers'
  BY DEF IInv, TypeOK, Workers, Taken, Stop, NoWorker, Worker, table
<1>6. Kept'
  BY DEF IInv, TypeOK, Kept, Pending, Taken, Stop, NoWorker, Worker, NoRequest,
      Request, table
<1>7. Ordered'
  BY DEF IInv, TypeOK, Ordered, Taken, Stop, NoWorker, Worker, table
<1> QED BY <1>1, <1>2, <1>3, <1>4, <1>5, <1>6, <1>7 DEF IInv

\* The queues are filled from the table.
LEMMA StartKeeps ==
  ASSUME IInv, Start
  PROVE  IInv'
<1>1. TypeOK'
  BY WorkerTypes DEF IInv, TypeOK, Start, Pending, table
<1>2. WorkerPerQueue'
  BY DEF IInv, TypeOK, WorkerPerQueue, Start, Of, Pending, Taking, Worker, NoWorker,
      table
<1>3. Requests'
  BY DEF IInv, TypeOK, Requests, Start, Of, Pending, table
<1>4. Rows'
  BY DEF IInv, TypeOK, Rows, Start, Of, Pending, table
<1>5. Workers'
  BY DEF IInv, TypeOK, Workers, Taken, Start, Of, Pending, Taking, Worker, NoWorker,
      table
<1>6. Kept'
  BY DEF IInv, TypeOK, Kept, Taken, Requests, Rows, Workers, Start, Of, Pending,
      Taking, Worker, NoWorker, table
<1>7. Ordered'
  BY DEF IInv, TypeOK, Ordered, Taken, Start, Of, Pending, Taking, Worker, NoWorker,
      table
<1> QED BY <1>1, <1>2, <1>3, <1>4, <1>5, <1>6, <1>7 DEF IInv

\* The server starts with empty queues: all pending deliveries are given up.
LEMMA StartFailsKeeps ==
  ASSUME IInv, StartFails
  PROVE  IInv'
<1>1. TypeOK'
  BY BoundAssumption DEF IInv, TypeOK, StartFails, Fails, Pending, table, memory
<1>2. WorkerPerQueue'
  BY DEF IInv, TypeOK, WorkerPerQueue, StartFails, Fails, Pending, table, memory
<1>3. Requests'
  BY DEF IInv, TypeOK, Requests, StartFails, Fails, Pending, table, memory
<1>4. Rows'
  BY DEF IInv, TypeOK, Rows, StartFails, Fails, Pending, table, memory
<1>5. Workers'
  BY DEF IInv, TypeOK, Workers, Taken, StartFails, Fails, Pending, table, memory
<1>6. Kept'
  BY DEF IInv, TypeOK, Kept, Taken, StartFails, Fails, Pending, table, memory
<1>7. Ordered'
  BY DEF IInv, TypeOK, Ordered, Taken, Requests, Rows, Workers, StartFails, Fails,
      Pending, table, memory
<1> QED BY <1>1, <1>2, <1>3, <1>4, <1>5, <1>6, <1>7 DEF IInv

\* The initial state: nothing has happened.
LEMMA InitHolds == Init => IInv
<1> SUFFICES ASSUME Init PROVE IInv
  OBVIOUS
<1>1. TypeOK
  BY BoundAssumption, WorkerTypes DEF Init, TypeOK, Ids
<1>2. WorkerPerQueue /\ Requests /\ Rows /\ Workers /\ Kept /\ Ordered
  BY BoundAssumption
  DEF Init, WorkerPerQueue, Requests, Rows, Workers, Kept, Ordered, Pending, Taken, NoWorker,
      NoRequest, Worker, Request, Ids
<1> QED BY <1>1, <1>2 DEF IInv

\* No step of a handler, of a worker, or of the server as a whole breaks the
\* invariant.
THEOREM Inductive == IInv /\ [Next]_vars => IInv'
<1> SUFFICES ASSUME IInv, [Next]_vars PROVE IInv'
  OBVIOUS
<1>1. ASSUME NEW h \in Handlers, NEW i \in Issues, Change(h, i) PROVE IInv'
  BY <1>1, ChangeKeeps
<1>2. ASSUME NEW h \in Handlers, Handle(h) \/ Rollback(h) \/ CommitUnknown(h) PROVE IInv'
  BY <1>2, CommitKeeps, EnqueueAnswerKeeps, RollbackKeeps, CommitUnknownKeeps DEF Handle
<1>3. ASSUME NEW i \in Issues, Step(i) PROVE IInv'
  BY <1>3, TakeKeeps, LeaveKeeps, LoadKeeps, AnswerKeeps, RecordKeeps DEF Step
<1>4. ASSUME NEW i \in Issues, Post(i) \/ LoadFails(i) \/ RecordFails(i) PROVE IInv'
  BY <1>4, PostKeeps, LoadFailsKeeps, RecordFailsKeeps
<1>5. CASE Stop \/ Start \/ StartFails
  BY <1>5, StopKeeps, StartKeeps, StartFailsKeeps
<1>6. CASE UNCHANGED vars
  BY <1>6
  DEF IInv, TypeOK, WorkerPerQueue, Requests, Rows, Workers, Kept, Ordered, Pending, vars,
      server, table, memory, history
<1> QED BY <1>1, <1>2, <1>3, <1>4, <1>5, <1>6 DEF Next

\* The inductive invariant holds in every reachable state.
LEMMA AlwaysIInv == Spec => []IInv
  BY InitHolds, Inductive, PTL DEF Spec

\* The dispatcher and the deliveries table keep their types; in particular no
\* delivery is attempted more often than process allows.
THEOREM TypeCorrect == Spec => []TypeOK
<1>1. IInv => TypeOK
  BY DEF IInv
<1> QED BY <1>1, AlwaysIInv, PTL

\* enqueue starts a worker exactly when there is none: d.queues has a key as long
\* as the key's worker lives, and every queued delivery has a worker.
THEOREM WorkersMatch == Spec => []WorkerPerQueue
<1>1. IInv => WorkerPerQueue
  BY DEF IInv
<1> QED BY <1>1, AlwaysIInv, PTL

\* A committed delivery that is pending is queued, taken, or about to be
\* enqueued by its handler, across stops and starts, unless a failed statement
\* made the server give it up.
THEOREM NothingForgotten == Spec => []NoneForgotten
<1>1. IInv => NoneForgotten
  <2> SUFFICES ASSUME IInv, up, NEW e \in Pending \ lost
               PROVE  \/ \E i \in Issues :
                           e \in queue[i] \/ (work[i].at \in Taken /\ work[i].id = e)
                      \/ \E h \in Handlers : req[h] = Request("committed", e)
    BY DEF NoneForgotten
  <2>1. e \in Ids /\ issueOf[e] \in Issues
    BY DEF IInv, Rows, Pending
  <2>2. ASSUME NEW h \in Handlers, req[h].at = "committed", req[h].id = e
        PROVE  req[h] = Request("committed", e)
    BY <2>2 DEF IInv, TypeOK, RequestStates, Request
  <2> QED BY <2>1, <2>2 DEF IInv, Kept
<1> QED BY <1>1, AlwaysIInv, PTL

\* No delivery is attempted before what was answered before its transaction
\* began is settled: enqueue precedes the answer, and the worker takes the lowest.
THEOREM AnsweredInOrder == Spec => []CausalOrder
<1>1. IInv => CausalOrder
  BY DEF IInv, Ordered, CausalOrder, Taken
<1> QED BY <1>1, AlwaysIInv, PTL

\* enqueue, worker and loadPending, for any number of issues, requests, stops and failed
\* statements: queues, workers and the deliveries table agree.
THEOREM DispatcherSafe == Spec => []DispatcherSound
<1>1. TypeOK /\ WorkerPerQueue /\ NoneForgotten => DispatcherSound
  BY DEF DispatcherSound
<1> QED BY <1>1, TypeCorrect, WorkersMatch, NothingForgotten, PTL
-----------------------------------------------------------------------------
(* Order among what is queued, and repetition.                             *)

\* A delivery that a queue or a worker has is no longer with a handler, a worker's
\* is no longer in its queue, and a server that is down serves nobody.
HandedOver ==
  /\ ~up => \A h \in Handlers : req[h].at = "idle"
  /\ \A i \in Issues, h \in Handlers : req[h].id \notin queue[i]
  /\ \A i \in Issues : work[i].at \in Taken =>
       work[i].id \notin queue[i] /\ \A h \in Handlers : req[h].id # work[i].id

OrderInv == HandedOver /\ OvertakenOnlyIfLate

\* A worker attempts only what is pending.  A 2xx answer that is not in doubt is
\* the only one, and recorded or in the hands of the worker that got it.
AckHeld(e) == \/ row[e] = "succeeded"
              \/ \E i \in Issues : work[i].at = "record" /\ work[i].ok /\ work[i].id = e

AckInv ==
  /\ \A i \in Issues : work[i].at \in Taken \ {"load"} => row[work[i].id] = "pending"
  /\ \A e \in Ids : acks[e] = 0 \/ e \in doubtful \/ (acks[e] = 1 /\ AckHeld(e))

\* A request that begins has nothing to hand over yet.
LEMMA ChangeOrders ==
  ASSUME IInv, OrderInv, NEW h \in Handlers, NEW i \in Issues, Change(h, i)
  PROVE  OrderInv'
<1>1. HandedOver'
  BY DEF IInv, TypeOK, Requests, Rows, Workers, WorkerPerQueue, RequestStates, Ids,
      Taken, OrderInv, HandedOver, Change, Request, Of, server, table, memory
<1>2. OvertakenOnlyIfLate'
  BY DEF IInv, TypeOK, Requests, Rows, Workers, Kept, Taken, Pending, Of, OrderInv,
      HandedOver, OvertakenOnlyIfLate, Change, Request, Of, server, table, memory
<1> QED BY <1>1, <1>2 DEF OrderInv

\* A commit makes the delivery pending while its handler has it.
LEMMA CommitOrders ==
  ASSUME IInv, OrderInv, NEW h \in Handlers, Commit(h)
  PROVE  OrderInv'
<1>1. HandedOver'
  BY DEF IInv, TypeOK, Requests, Rows, Workers, WorkerPerQueue, RequestStates, Ids,
      Taken, OrderInv, HandedOver, Commit, Request, server, memory, history
<1>2. OvertakenOnlyIfLate'
  BY DEF IInv, TypeOK, Requests, Rows, Workers, Kept, Taken, Pending, Of, OrderInv,
      HandedOver, OvertakenOnlyIfLate, Commit, Request, server, memory, history
<1> QED BY <1>1, <1>2 DEF OrderInv

\* A transaction that is rolled back leaves no row.
LEMMA RollbackOrders ==
  ASSUME IInv, OrderInv, NEW h \in Handlers, Rollback(h)
  PROVE  OrderInv'
<1>1. HandedOver'
  BY DEF IInv, TypeOK, Requests, Rows, Workers, WorkerPerQueue, RequestStates, Ids,
      Taken, OrderInv, HandedOver, Rollback, NoRequest, Request, server, table,
      memory, history
<1>2. OvertakenOnlyIfLate'
  BY DEF IInv, TypeOK, Requests, Rows, Workers, Kept, Taken, Pending, Of, OrderInv,
      HandedOver, OvertakenOnlyIfLate, Rollback, NoRequest, Request, server, table,
      memory, history
<1> QED BY <1>1, <1>2 DEF OrderInv

\* A delivery that nobody enqueues is given up.
LEMMA CommitUnknownOrders ==
  ASSUME IInv, OrderInv, NEW h \in Handlers, CommitUnknown(h)
  PROVE  OrderInv'
<1>1. HandedOver'
  BY DEF IInv, TypeOK, Requests, Rows, Workers, WorkerPerQueue, RequestStates, Ids,
      Taken, OrderInv, HandedOver, CommitUnknown, NoRequest, Request, server, memory
<1>2. OvertakenOnlyIfLate'
  BY DEF IInv, TypeOK, Requests, Rows, Workers, Kept, Taken, Pending, Of, OrderInv,
      HandedOver, OvertakenOnlyIfLate, CommitUnknown, NoRequest, Request, server,
      memory
<1> QED BY <1>1, <1>2 DEF OrderInv

\* The handler hands its delivery over; a worker that has a later one makes it late.
LEMMA EnqueueAnswerOrders ==
  ASSUME IInv, OrderInv, NEW h \in Handlers, EnqueueAnswer(h)
  PROVE  OrderInv'
<1> DEFINE e == req[h].id
           i == issueOf[e]
<1>1. /\ e \in Ids /\ i \in Issues /\ row[e] # "none" /\ req' = [req EXCEPT ![h] = NoRequest]
      /\ queue' = [queue EXCEPT ![i] = @ \cup {e}]
      /\ work' = IF i \in running THEN work ELSE [work EXCEPT ![i] = Taking]
      /\ late' = IF \E d \in Of(i) : d > e /\ Picked(i, d) THEN late \cup {e} ELSE late
      /\ up /\ UNCHANGED <<up, issueOf, row, lost>>
  BY DEF IInv, Requests, EnqueueAnswer, Put, server, table
<1>2. \A g \in Handlers : g # h => req[g].id # e
  BY DEF IInv, Requests, EnqueueAnswer
<1>3. \A j \in Issues : work'[j].at \in Taken => work'[j] = work[j]
  BY <1>1 DEF IInv, TypeOK, Taking, Worker, Taken
<1>4. NoRequest.id = 0 /\ 0 \notin Ids
  BY DEF NoRequest, Request, Ids
<1>5. HandedOver'
  BY <1>1, <1>2, <1>3, <1>4 DEF IInv, TypeOK, Workers, OrderInv, HandedOver, Taken
<1>6. OvertakenOnlyIfLate'
  <2> SUFFICES ASSUME NEW j \in Issues, work'[j].at \in Taken,
                      NEW d \in Pending \cap Of(j), d < work[j].id
               PROVE  d \in late' \cup lost \/ \E g \in Handlers : req'[g].id = d
    BY <1>1, <1>3 DEF OvertakenOnlyIfLate, Pending, Of
  <2>1. d \in late \cup lost \/ \E g \in Handlers : req[g].id = d
    BY <1>3 DEF OrderInv, OvertakenOnlyIfLate
  <2>2. ASSUME d = e PROVE d \in late'
    <3>1. j = i /\ work[i].at \in Taken
      BY <2>2, <1>3 DEF Of
    <3>2. work[i].id \in Of(i) /\ Picked(i, work[i].id)
      BY <1>1, <3>1 DEF IInv, Workers, OrderInv, HandedOver, Of, Picked
    <3>3. work[i].id > e
      BY <2>2, <3>1, <1>1 DEF IInv, TypeOK, Ids, Workers
    <3> QED BY <3>2, <3>3, <2>2, <1>1
  <2>3. ASSUME NEW g \in Handlers, req[g].id = d, d # e PROVE req'[g].id = d
    BY <2>3, <1>1 DEF IInv, TypeOK
  <2> QED BY <2>1, <2>2, <2>3, <1>1
<1> QED BY <1>5, <1>6 DEF OrderInv

\* Nothing in the queue is lower than what the worker takes.
LEMMA TakeOrders ==
  ASSUME IInv, OrderInv, NEW i \in Issues, Take(i)
  PROVE  OrderInv'
<1>1. HandedOver'
  BY DEF IInv, TypeOK, Requests, Workers, Taken, OrderInv, HandedOver, Take, Worker, server
<1>2. OvertakenOnlyIfLate'
  <2>1. PICK e \in queue[i] : /\ \A d \in queue[i] : e <= d
                              /\ work' = [work EXCEPT ![i] = Worker("load", e, 0, FALSE)]
    BY DEF Take
  <2>2. up /\ work[i].at = "take" /\ UNCHANGED <<issueOf, row, late, lost, req>>
    BY DEF Take, server, table, history
  <2> SUFFICES ASSUME NEW j \in Issues, work'[j].at \in Taken,
                      NEW d \in Pending \cap Of(j), d < work'[j].id
               PROVE  d \in late \cup lost \/ \E g \in Handlers : req[g].id = d
    BY <2>2 DEF OvertakenOnlyIfLate, Pending, Of
  <2>3. CASE j # i
    BY <2>1, <2>3 DEF IInv, TypeOK, OrderInv, OvertakenOnlyIfLate
  <2>4. CASE j = i
    <3>1. d < e /\ d \in Ids /\ e \in Ids /\ issueOf[d] = i
      BY <2>1, <2>4 DEF IInv, TypeOK, Worker, Of, Pending
    <3>2. d \notin queue[i]
      BY <2>1, <3>1 DEF Ids
    <3> QED BY <2>2, <3>1, <3>2 DEF IInv, Kept, Taken
  <2> QED BY <2>3, <2>4
<1> QED BY <1>1, <1>2 DEF OrderInv

\* The worker ends with nothing in its hands.
LEMMA LeaveOrders ==
  ASSUME IInv, OrderInv, NEW i \in Issues, Leave(i)
  PROVE  OrderInv'
<1>1. HandedOver'
  BY DEF IInv, TypeOK, Requests, Rows, Workers, WorkerPerQueue, RequestStates, Ids,
      Taken, OrderInv, HandedOver, Leave, NoWorker, Worker, server, table, history
<1>2. OvertakenOnlyIfLate'
  BY DEF IInv, TypeOK, Requests, Rows, Workers, Kept, Taken, Pending, Of, OrderInv,
      HandedOver, OvertakenOnlyIfLate, Leave, NoWorker, Worker, server, table,
      history
<1> QED BY <1>1, <1>2 DEF OrderInv

\* The worker keeps its delivery or drops it.
LEMMA LoadOrders ==
  ASSUME IInv, OrderInv, NEW i \in Issues, Load(i)
  PROVE  OrderInv'
<1>1. HandedOver'
  BY DEF IInv, TypeOK, Requests, Rows, Workers, WorkerPerQueue, RequestStates, Ids,
      Taken, OrderInv, HandedOver, Load, Taking, Worker, server, table, memory,
      history
<1>2. OvertakenOnlyIfLate'
  BY DEF IInv, TypeOK, Requests, Rows, Workers, Kept, Taken, Pending, Of, OrderInv,
      HandedOver, OvertakenOnlyIfLate, Load, Taking, Worker, server, table, memory,
      history
<1> QED BY <1>1, <1>2 DEF OrderInv

\* The worker gives its delivery up.
LEMMA LoadFailsOrders ==
  ASSUME IInv, OrderInv, NEW i \in Issues, LoadFails(i)
  PROVE  OrderInv'
<1>1. HandedOver'
  BY DEF IInv, TypeOK, Requests, Rows, Workers, WorkerPerQueue, RequestStates, Ids,
      Taken, OrderInv, HandedOver, LoadFails, Taking, Worker, server, table, memory
<1>2. OvertakenOnlyIfLate'
  BY DEF IInv, TypeOK, Requests, Rows, Workers, Kept, Taken, Pending, Of, OrderInv,
      HandedOver, OvertakenOnlyIfLate, LoadFails, Taking, Worker, server, table,
      memory
<1> QED BY <1>1, <1>2 DEF OrderInv

\* The worker keeps its delivery.
LEMMA PostOrders ==
  ASSUME IInv, OrderInv, NEW i \in Issues, Post(i)
  PROVE  OrderInv'
<1>1. HandedOver'
  BY DEF IInv, TypeOK, Requests, Rows, Workers, WorkerPerQueue, RequestStates, Ids,
      Taken, OrderInv, HandedOver, Post, Worker, server, table, memory, history
<1>2. OvertakenOnlyIfLate'
  BY DEF IInv, TypeOK, Requests, Rows, Workers, Kept, Taken, Pending, Of, OrderInv,
      HandedOver, OvertakenOnlyIfLate, Post, Worker, server, table, memory, history
<1> QED BY <1>1, <1>2 DEF OrderInv

\* The worker keeps its delivery.
LEMMA AnswerOrders ==
  ASSUME IInv, OrderInv, NEW i \in Issues, NEW ok \in BOOLEAN, Answer(i, ok)
  PROVE  OrderInv'
<1>1. HandedOver'
  BY DEF IInv, TypeOK, Requests, Rows, Workers, WorkerPerQueue, RequestStates, Ids,
      Taken, OrderInv, HandedOver, Answer, Worker, server, table, memory
<1>2. OvertakenOnlyIfLate'
  BY DEF IInv, TypeOK, Requests, Rows, Workers, Kept, Taken, Pending, Of, OrderInv,
      HandedOver, OvertakenOnlyIfLate, Answer, Worker, server, table, memory
<1> QED BY <1>1, <1>2 DEF OrderInv

\* The worker keeps its delivery or has settled it.
LEMMA RecordOrders ==
  ASSUME IInv, OrderInv, NEW i \in Issues, Record(i)
  PROVE  OrderInv'
<1>1. HandedOver'
  BY DEF IInv, TypeOK, Requests, Rows, Workers, WorkerPerQueue, RequestStates, Ids,
      Taken, OrderInv, HandedOver, Record, GoOn, Final, Taking, Worker, server,
      memory, history
<1>2. OvertakenOnlyIfLate'
  BY DEF IInv, TypeOK, Requests, Rows, Workers, Kept, Taken, Pending, Of, OrderInv,
      HandedOver, OvertakenOnlyIfLate, Record, GoOn, Final, Taking, Worker, server,
      memory, history
<1> QED BY <1>1, <1>2 DEF OrderInv

\* The worker keeps its delivery or gives it up.
LEMMA RecordFailsOrders ==
  ASSUME IInv, OrderInv, NEW i \in Issues, RecordFails(i)
  PROVE  OrderInv'
<1>1. HandedOver'
  BY DEF IInv, TypeOK, Requests, Rows, Workers, WorkerPerQueue, RequestStates, Ids,
      Taken, OrderInv, HandedOver, RecordFails, GoOn, Final, Taking, Worker, server,
      table, memory
<1>2. OvertakenOnlyIfLate'
  BY DEF IInv, TypeOK, Requests, Rows, Workers, Kept, Taken, Pending, Of, OrderInv,
      HandedOver, OvertakenOnlyIfLate, RecordFails, GoOn, Final, Taking, Worker,
      server, table, memory
<1> QED BY <1>1, <1>2 DEF OrderInv

\* Nobody has anything.
LEMMA StopOrders ==
  ASSUME IInv, OrderInv, Stop
  PROVE  OrderInv'
<1>1. HandedOver'
  BY DEF IInv, TypeOK, Requests, Rows, Workers, WorkerPerQueue, RequestStates, Ids,
      Taken, OrderInv, HandedOver, Stop, NoWorker, Worker, NoRequest, Request, table
<1>2. OvertakenOnlyIfLate'
  BY DEF IInv, TypeOK, Requests, Rows, Workers, Kept, Taken, Pending, Of, OrderInv,
      HandedOver, OvertakenOnlyIfLate, Stop, NoWorker, Worker, NoRequest, Request,
      table
<1> QED BY <1>1, <1>2 DEF OrderInv

\* Workers start with nothing in their hands.
LEMMA StartOrders ==
  ASSUME IInv, OrderInv, Start
  PROVE  OrderInv'
<1>1. HandedOver'
  BY DEF IInv, TypeOK, Requests, Rows, Workers, WorkerPerQueue, RequestStates, Ids,
      Taken, OrderInv, HandedOver, Start, Pending, Of, Taking, Worker, NoWorker, table
<1>2. OvertakenOnlyIfLate'
  BY DEF IInv, TypeOK, Requests, Rows, Workers, Kept, Taken, Pending, Of, OrderInv,
      HandedOver, OvertakenOnlyIfLate, Start, Taking, Worker, NoWorker, table
<1> QED BY <1>1, <1>2 DEF OrderInv

\* There are no workers.
LEMMA StartFailsOrders ==
  ASSUME IInv, OrderInv, StartFails
  PROVE  OrderInv'
<1>1. HandedOver'
  BY DEF IInv, TypeOK, Requests, Rows, Workers, WorkerPerQueue, RequestStates, Ids,
      Taken, OrderInv, HandedOver, StartFails, table, memory
<1>2. OvertakenOnlyIfLate'
  BY DEF IInv, TypeOK, Requests, Rows, Workers, Kept, Taken, Pending, Of, OrderInv,
      HandedOver, OvertakenOnlyIfLate, StartFails, table, memory
<1> QED BY <1>1, <1>2 DEF OrderInv

\* Before anything has happened.
LEMMA OrderInit == Init => OrderInv
  BY DEF Init, OrderInv, HandedOver, OvertakenOnlyIfLate, NoRequest, NoWorker, Request, Worker,
      Taken

\* No step breaks the order among what is queued.
LEMMA OrderStep == IInv /\ OrderInv /\ [Next]_vars => OrderInv'
<1> SUFFICES ASSUME IInv, OrderInv, [Next]_vars PROVE OrderInv'
  OBVIOUS
<1>1. ASSUME NEW h \in Handlers, NEW i \in Issues, Change(h, i) PROVE OrderInv'
  BY <1>1, ChangeOrders
<1>2. ASSUME NEW h \in Handlers, Handle(h) \/ Rollback(h) \/ CommitUnknown(h) PROVE OrderInv'
  BY <1>2, CommitOrders, EnqueueAnswerOrders, RollbackOrders, CommitUnknownOrders DEF Handle
<1>3. ASSUME NEW i \in Issues, Step(i) PROVE OrderInv'
  BY <1>3, TakeOrders, LeaveOrders, LoadOrders, AnswerOrders, RecordOrders DEF Step
<1>4. ASSUME NEW i \in Issues, Post(i) \/ LoadFails(i) \/ RecordFails(i) PROVE OrderInv'
  BY <1>4, PostOrders, LoadFailsOrders, RecordFailsOrders
<1>5. CASE Stop \/ Start \/ StartFails
  BY <1>5, StopOrders, StartOrders, StartFailsOrders
<1>6. CASE UNCHANGED vars
  BY <1>6
  DEF OrderInv, HandedOver, OvertakenOnlyIfLate, Pending, Of, vars, server, table, memory, history
<1> QED BY <1>1, <1>2, <1>3, <1>4, <1>5, <1>6 DEF Next

\* enqueue comes after the commit, in any order, and sorts the queue: a worker
\* overtakes a pending delivery of its issue only if that one was enqueued after
\* the later one had been taken, was given up, or is still with its handler.
THEOREM OvertakingKnown == Spec => []OvertakenOnlyIfLate
<1>1. OrderInv => OvertakenOnlyIfLate
  BY DEF OrderInv
<1> QED BY <1>1, AlwaysIInv, OrderInit, OrderStep, PTL DEF Spec

\* No row and no worker changes.
LEMMA ChangeAcks ==
  ASSUME IInv, AckInv, NEW h \in Handlers, NEW i \in Issues, Change(h, i)
  PROVE  AckInv'
  BY DEF IInv, TypeOK, Workers, Rows, Taken, AckInv, AckHeld, Change, Request, Of,
      server, table, memory

\* Only a delivery that has no row yet becomes pending.
LEMMA CommitAcks ==
  ASSUME IInv, AckInv, NEW h \in Handlers, Commit(h)
  PROVE  AckInv'
  BY DEF IInv, TypeOK, Workers, Rows, Taken, AckInv, AckHeld, Requests, Commit,
      Request, server, memory, history

\* No row and no worker changes.
LEMMA RollbackAcks ==
  ASSUME IInv, AckInv, NEW h \in Handlers, Rollback(h)
  PROVE  AckInv'
  BY DEF IInv, TypeOK, Workers, Rows, Taken, AckInv, AckHeld, Rollback, server,
      table, memory, history

\* Only a delivery that has no row yet becomes pending.
LEMMA CommitUnknownAcks ==
  ASSUME IInv, AckInv, NEW h \in Handlers, CommitUnknown(h)
  PROVE  AckInv'
  BY DEF IInv, TypeOK, Workers, Rows, Taken, AckInv, AckHeld, Requests,
      CommitUnknown, server, memory

\* A new worker has nothing in its hands.
LEMMA EnqueueAnswerAcks ==
  ASSUME IInv, AckInv, NEW h \in Handlers, EnqueueAnswer(h)
  PROVE  AckInv'
  BY DEF IInv, TypeOK, Workers, Rows, Taken, AckInv, AckHeld, WorkerPerQueue,
      EnqueueAnswer, Put, Taking, Worker, server, table

\* The worker has yet to read the delivery.
LEMMA TakeAcks ==
  ASSUME IInv, AckInv, NEW i \in Issues, Take(i)
  PROVE  AckInv'
  BY DEF IInv, TypeOK, Workers, Rows, Taken, AckInv, AckHeld, Take, Worker, server,
      table, history

\* The worker ends with nothing in its hands.
LEMMA LeaveAcks ==
  ASSUME IInv, AckInv, NEW i \in Issues, Leave(i)
  PROVE  AckInv'
  BY DEF IInv, TypeOK, Workers, Rows, Taken, AckInv, AckHeld, Leave, NoWorker,
      Worker, server, table, history

\* process goes on only with a pending delivery.
LEMMA LoadAcks ==
  ASSUME IInv, AckInv, NEW i \in Issues, Load(i)
  PROVE  AckInv'
  BY DEF IInv, TypeOK, Workers, Rows, Taken, AckInv, AckHeld, Load, Taking, Worker,
      server, table, memory, history

\* The worker gives its delivery up.
LEMMA LoadFailsAcks ==
  ASSUME IInv, AckInv, NEW i \in Issues, LoadFails(i)
  PROVE  AckInv'
  BY DEF IInv, TypeOK, Workers, Rows, Taken, AckInv, AckHeld, LoadFails, Taking,
      Worker, server, table, memory

\* The worker keeps its delivery.
LEMMA PostAcks ==
  ASSUME IInv, AckInv, NEW i \in Issues, Post(i)
  PROVE  AckInv'
  BY DEF IInv, TypeOK, Workers, Rows, Taken, AckInv, AckHeld, Post, Worker, server,
      table, memory, history

\* A first 2xx answer: the delivery is pending, and its only worker has it.
LEMMA AnswerAcks ==
  ASSUME IInv, AckInv, NEW i \in Issues, NEW ok \in BOOLEAN, Answer(i, ok)
  PROVE  AckInv'
  BY DEF IInv, TypeOK, Workers, Rows, Taken, AckInv, AckHeld, Answer, Worker,
      server, table, memory

\* The success is recorded, or there was none.
LEMMA RecordAcks ==
  ASSUME IInv, AckInv, NEW i \in Issues, Record(i)
  PROVE  AckInv'
  BY DEF IInv, TypeOK, Workers, Rows, Taken, AckInv, AckHeld, Record, GoOn, Final,
      Taking, Worker, server, memory, history

\* A success that is not recorded is in doubt.
LEMMA RecordFailsAcks ==
  ASSUME IInv, AckInv, NEW i \in Issues, RecordFails(i)
  PROVE  AckInv'
  BY DEF IInv, TypeOK, Workers, Rows, Taken, AckInv, AckHeld, RecordFails, GoOn,
      Final, Taking, Worker, server, table, memory

\* A success in the hands of a worker is in doubt.
LEMMA StopAcks ==
  ASSUME IInv, AckInv, Stop
  PROVE  AckInv'
  BY DEF IInv, TypeOK, Workers, Rows, Taken, AckInv, AckHeld, Stop, NoWorker,
      Worker, table

\* Workers start with nothing in their hands.
LEMMA StartAcks ==
  ASSUME IInv, AckInv, Start
  PROVE  AckInv'
  BY DEF IInv, TypeOK, Workers, Rows, Taken, AckInv, AckHeld, Start, Taking,
      NoWorker, Worker, table

\* No row and no worker changes.
LEMMA StartFailsAcks ==
  ASSUME IInv, AckInv, StartFails
  PROVE  AckInv'
  BY DEF IInv, TypeOK, Workers, Rows, Taken, AckInv, AckHeld, StartFails, table,
      memory

\* Before anything has happened.
LEMMA AckInit == Init => AckInv
  BY DEF Init, AckInv, NoWorker, Worker, Taken

\* No step makes a second answer that is not in doubt.
LEMMA AckStep == IInv /\ AckInv /\ [Next]_vars => AckInv'
<1> SUFFICES ASSUME IInv, AckInv, [Next]_vars PROVE AckInv'
  OBVIOUS
<1>1. ASSUME NEW h \in Handlers, NEW i \in Issues, Change(h, i) PROVE AckInv'
  BY <1>1, ChangeAcks
<1>2. ASSUME NEW h \in Handlers, Handle(h) \/ Rollback(h) \/ CommitUnknown(h) PROVE AckInv'
  BY <1>2, CommitAcks, EnqueueAnswerAcks, RollbackAcks, CommitUnknownAcks DEF Handle
<1>3. ASSUME NEW i \in Issues, Step(i) PROVE AckInv'
  BY <1>3, TakeAcks, LeaveAcks, LoadAcks, AnswerAcks, RecordAcks DEF Step
<1>4. ASSUME NEW i \in Issues, Post(i) \/ LoadFails(i) \/ RecordFails(i) PROVE AckInv'
  BY <1>4, PostAcks, LoadFailsAcks, RecordFailsAcks
<1>5. CASE Stop \/ Start \/ StartFails
  BY <1>5, StopAcks, StartAcks, StartFailsAcks
<1>6. CASE UNCHANGED vars
  BY <1>6 DEF AckInv, AckHeld, vars, server, table, memory, history
<1> QED BY <1>1, <1>2, <1>3, <1>4, <1>5, <1>6 DEF Next

\* process sends a delivery again after a 2xx answer only if the server stopped, or the
\* UPDATE failed, before the answer was recorded: restarts and late enqueues repeat nothing.
THEOREM RepetitionKnown == Spec => []RepeatedOnlyIfDoubtful
<1>1. AckInv => RepeatedOnlyIfDoubtful
  BY DEF AckInv, RepeatedOnlyIfDoubtful
<1> QED BY <1>1, AlwaysIInv, AckInit, AckStep, PTL DEF Spec
=============================================================================
