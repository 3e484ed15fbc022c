--------------------------- MODULE PlainDispatcher ---------------------------
(***************************************************************************)
(* The webhook dispatcher of the second Go tracker                         *)
(* (src/tracker/impl/go-plain-1/webhooks.go), for one webhook.             *)
(*                                                                         *)
(* The queue is the table deliveries alone.  One goroutine scans it, every *)
(* 50 ms or when a request has added to it, for the oldest pending         *)
(* delivery of each issue, and starts an attempt for each that has none in *)
(* flight.  A delivery is named by its seq.  What a receiver is sent is    *)
(* left out; the back-off is a choice of the scan.                         *)
(***************************************************************************)
EXTENDS Naturals, FiniteSets, FiniteSetsExt

CONSTANTS
  Writers,      \* requests served at the same time
  Topics,       \* issues
  MaxSeq,       \* deliveries; bounds the model
  TopAttempts,  \* maxAttempts: 6 in the code
  ScanLimit,    \* LIMIT of the scan: 500 in the code
  MaxHalts,     \* stops of the server; bounds the model
  MaxFailures   \* failed statements; bounds the model

NoTopic == "none"

ASSUME DispatchAssumption ==
  /\ {MaxSeq, ScanLimit, MaxHalts, MaxFailures} \subseteq Nat
  /\ TopAttempts \in Nat \ {0}
  /\ NoTopic \notin Topics

Seqs == 1..MaxSeq

VARIABLES
  alive,     \* the server runs
  quit,      \* its context is cancelled
  halts, failures,
  hook,      \* the webhook: on or gone
  seq,       \* the last value of deliveries.seq
  sheet,     \* deliveries: topic, status, attempts
  writer,    \* the delivery each request has inserted, with the issue it holds
  scan,      \* where the dispatcher is
  list,      \* what its last scan found
  inflight,  \* issues it believes to have an attempt under way
  attempt,   \* the attempt of each issue
  receipts,  \* history: 2xx answers to a delivery
  unsure     \* history: a 2xx answer could not be recorded

server2   == <<alive, quit, halts>>
dispatch  == <<scan, list, inflight>>
plainVars == <<server2, failures, hook, seq, sheet, writer, dispatch, attempt, receipts, unsure>>

NoRow   == [topic |-> NoTopic, status |-> "none", tries |-> 0]
NoTx    == [topic |-> NoTopic, seq |-> 0]
NoTry   == [at |-> "none", seq |-> 0, tries |-> 0, ok |-> FALSE]

PlainInit ==
  /\ alive = TRUE /\ quit = FALSE /\ halts = 0 /\ failures = 0
  /\ hook = "on"
  /\ seq = 0 /\ sheet = [e \in Seqs |-> NoRow]
  /\ writer = [h \in Writers |-> NoTx]
  /\ scan = "wait" /\ list = {} /\ inflight = {}
  /\ attempt = [i \in Topics |-> NoTry]
  /\ receipts = [e \in Seqs |-> 0] /\ unsure = {}

Failing == failures < MaxFailures /\ failures' = failures + 1
Waits(i) == {e \in Seqs : sheet[e].topic = i /\ sheet[e].status = "pending"}

-----------------------------------------------------------------------------
(* Requests.                                                               *)

\* Fault: the row of the issue is not locked.
HeldByNone(i) == FALSE

\* lockIssue: a transaction has the issue.
Held(i) == \E g \in Writers : writer[g].topic = i

\* A change of the issue that the hook wants to hear of; enqueue adds a delivery.
Write(h, i) ==
  /\ alive /\ writer[h] = NoTx /\ ~Held(i)
  /\ hook = "on" /\ seq < MaxSeq
  /\ seq' = seq + 1
  /\ writer' = [writer EXCEPT ![h] = [topic |-> i, seq |-> seq + 1]]
  /\ UNCHANGED <<server2, failures, hook, sheet, dispatch, attempt, receipts, unsure>>

\* Commit.  kick only brings the next scan forward.
CommitWrite(h) ==
  /\ alive /\ writer[h] # NoTx
  /\ sheet' = [sheet EXCEPT ![writer[h].seq] =
                 [topic |-> writer[h].topic, status |-> "pending", tries |-> 0]]
  /\ writer' = [writer EXCEPT ![h] = NoTx]
  /\ UNCHANGED <<server2, failures, hook, seq, dispatch, attempt, receipts, unsure>>

\* A statement fails, or the hook is gone when its delivery is inserted: Rollback.
AbortWrite(h) ==
  /\ alive /\ writer[h] # NoTx /\ Failing
  /\ writer' = [writer EXCEPT ![h] = NoTx]
  /\ UNCHANGED <<server2, hook, seq, sheet, dispatch, attempt, receipts, unsure>>

\* deleteWebhook waits for the transactions with a delivery of the hook; the rows go with it.
DropHook ==
  /\ alive /\ hook = "on" /\ \A h \in Writers : writer[h] = NoTx
  /\ hook' = "gone"
  /\ sheet' = [e \in Seqs |-> NoRow]
  /\ UNCHANGED <<server2, failures, seq, writer, dispatch, attempt, receipts, unsure>>

-----------------------------------------------------------------------------
(* runDispatcher.                                                          *)

\* An attempt is over once its goroutine has sent its key on done.
Over == {i \in inflight : attempt[i].at = "none"}

\* Fault: done is never read.
DrainNothing ==
  /\ alive /\ scan = "wait"
  /\ scan' = "drained" /\ inflight' = inflight
  /\ UNCHANGED <<server2, failures, hook, seq, sheet, writer, list, attempt, receipts, unsure>>

\* Woken up, the dispatcher takes what is on done.
Drain ==
  /\ alive /\ scan = "wait"
  /\ scan' = "drained" /\ inflight' = inflight \ Over
  /\ UNCHANGED <<server2, failures, hook, seq, sheet, writer, list, attempt, receipts, unsure>>

\* The oldest pending delivery of each issue.
Ready == {Min(Waits(i)) : i \in {j \in Topics : Waits(j) # {}}}

\* The first ScanLimit in the order of seq.
First(S) == {e \in S : Cardinality({d \in S : d < e}) < ScanLimit}

\* readyDeliveries; the back-off of those in resting is not over.
Scan(resting) ==
  /\ alive /\ scan = "drained" /\ ~quit
  /\ list' = {[topic |-> sheet[e].topic, seq |-> e, tries |-> sheet[e].tries] :
                e \in First(Ready \ resting)}
  /\ scan' = "list"
  /\ UNCHANGED <<server2, failures, hook, seq, sheet, writer, inflight, attempt, receipts, unsure>>

Retried == {e \in Seqs : sheet[e].tries > 0}

\* The query fails, of itself or because the context is cancelled.
ScanFails ==
  /\ alive /\ scan = "drained"
  /\ (quit /\ UNCHANGED failures) \/ Failing
  /\ scan' = "wait"
  /\ UNCHANGED <<server2, hook, seq, sheet, writer, list, inflight, attempt, receipts, unsure>>

Unclaimed == {d \in list : d.topic \notin inflight}

\* A goroutine for each delivery whose issue has none.
Launch ==
  LET new == Unclaimed IN
  /\ alive /\ scan = "list"
  /\ list' = {} /\ scan' = "wait"
  /\ inflight' = inflight \cup {d.topic : d \in new}
  /\ attempt' = [i \in Topics |->
       IF \E d \in new : d.topic = i
       THEN LET d == CHOOSE d \in new : d.topic = i
            IN  [at |-> "post", seq |-> d.seq, tries |-> d.tries, ok |-> FALSE]
       ELSE attempt[i]]
  /\ UNCHANGED <<server2, failures, hook, seq, sheet, writer, receipts, unsure>>

\* The receiver answers with 2xx, or not within 5 seconds.
Receive(i, ok) ==
  /\ alive /\ attempt[i].at = "post"
  /\ attempt' = [attempt EXCEPT ![i] =
                   [at |-> "record", seq |-> @.seq, tries |-> @.tries + 1, ok |-> ok]]
  /\ receipts' = IF ok THEN [receipts EXCEPT ![attempt[i].seq] = @ + 1] ELSE receipts
  /\ UNCHANGED <<server2, failures, hook, seq, sheet, writer, dispatch, unsure>>

Outcome(a) == IF a.ok THEN "succeeded" ELSE IF a.tries >= TopAttempts THEN "failed" ELSE "pending"

\* The UPDATE after an attempt; no row when the hook has been deleted.
RecordTry(i) ==
  LET a == attempt[i] IN
  /\ alive /\ a.at = "record"
  /\ sheet' = IF sheet[a.seq] = NoRow THEN sheet
              ELSE [sheet EXCEPT ![a.seq] =
                      [topic |-> @.topic, status |-> Outcome(a), tries |-> a.tries]]
  /\ attempt' = [attempt EXCEPT ![i] = [NoTry EXCEPT !.at = "recorded"]]
  /\ UNCHANGED <<server2, failures, hook, seq, writer, dispatch, receipts, unsure>>

RecordTryFails(i) ==
  /\ alive /\ attempt[i].at = "record" /\ Failing
  /\ attempt' = [attempt EXCEPT ![i] = [NoTry EXCEPT !.at = "recorded"]]
  /\ unsure' = IF attempt[i].ok THEN unsure \cup {attempt[i].seq} ELSE unsure
  /\ UNCHANGED <<server2, hook, seq, sheet, writer, dispatch, receipts>>

\* The key is sent on done; the goroutine ends.
SendDone(i) ==
  /\ alive /\ attempt[i].at = "recorded"
  /\ attempt' = [attempt EXCEPT ![i] = NoTry]
  /\ UNCHANGED <<server2, failures, hook, seq, sheet, writer, dispatch, receipts, unsure>>

-----------------------------------------------------------------------------
(* main.                                                                   *)

SigTerm ==
  /\ alive /\ ~quit /\ halts < MaxHalts
  /\ quit' = TRUE
  /\ UNCHANGED <<alive, halts, failures, hook, seq, sheet, writer, dispatch, attempt, receipts,
                 unsure>>

\* The dispatcher sees ctx.Done and waits for its goroutines.
LeaveLoop ==
  /\ alive /\ quit /\ scan = "wait"
  /\ scan' = "leave"
  /\ UNCHANGED <<server2, failures, hook, seq, sheet, writer, list, inflight, attempt, receipts,
                 unsure>>

\* The process ends; transactions are rolled back.
Down ==
  /\ alive' = FALSE /\ quit' = FALSE /\ halts' = halts + 1
  /\ writer' = [h \in Writers |-> NoTx]
  /\ scan' = "wait" /\ list' = {} /\ inflight' = {}
  /\ attempt' = [i \in Topics |-> NoTry]
  /\ UNCHANGED <<failures, hook, seq, sheet, receipts>>

Shutdown ==
  /\ alive /\ scan = "leave" /\ \A i \in Topics : attempt[i].at = "none"
  /\ Down /\ UNCHANGED unsure

Crash ==
  /\ alive /\ halts < MaxHalts /\ Down
  /\ unsure' = unsure \cup {attempt[i].seq : i \in
                 {j \in Topics : attempt[j].at = "record" /\ attempt[j].ok}}

Restart ==
  /\ ~alive /\ alive' = TRUE
  /\ UNCHANGED <<quit, halts, failures, hook, seq, sheet, writer, dispatch, attempt, receipts,
                 unsure>>

Trying(i) == (\E ok \in BOOLEAN : Receive(i, ok)) \/ RecordTry(i) \/ SendDone(i)

PlainNext ==
  \/ \E h \in Writers : (\E i \in Topics : Write(h, i)) \/ CommitWrite(h) \/ AbortWrite(h)
  \/ DropHook \/ Drain \/ (\E resting \in SUBSET Retried : Scan(resting)) \/ ScanFails \/ Launch
  \/ \E i \in Topics : Trying(i) \/ RecordTryFails(i)
  \/ SigTerm \/ LeaveLoop \/ Shutdown \/ Crash \/ Restart

\* The ticker wakes the dispatcher, a back-off ends, an attempt ends after 5 seconds, select
\* sees the end of the context, somebody restarts the server.
PlainFairness ==
  /\ WF_plainVars(Drain) /\ SF_plainVars(Scan({})) /\ WF_plainVars(Launch)
  /\ \A i \in Topics : WF_plainVars(Trying(i))
  /\ SF_plainVars(LeaveLoop) /\ WF_plainVars(ScanFails /\ quit)
  /\ WF_plainVars(Shutdown) /\ WF_plainVars(Restart)

PlainSpec == PlainInit /\ [][PlainNext]_plainVars /\ PlainFairness

-----------------------------------------------------------------------------
\* Types; a delivery has at most maxAttempts recorded attempts.
DispatchTypeOK ==
  /\ hook \in {"on", "gone"} /\ scan \in {"wait", "drained", "list", "leave"}
  /\ seq \in 0..MaxSeq /\ unsure \subseteq Seqs /\ inflight \subseteq Topics
  /\ \A e \in Seqs : sheet[e].tries \in 0..TopAttempts
  /\ \A i \in Topics : attempt[i].at \in {"none", "post", "record", "recorded"}

\* runDispatcher's promise ("which keeps per-issue event order", webhooks.go:103): while a
\* delivery is being attempted no earlier delivery of its issue is pending, whenever it was
\* committed.
SentInOrder ==
  \A i \in Topics : attempt[i].at \in {"post", "record"} =>
    \A e \in Waits(i) : e >= attempt[i].seq

\* A receiver gets a delivery it has acknowledged again only if the UPDATE failed or the server
\* crashed in between: not by a scan that overlaps the end of an attempt, and not by an orderly
\* shutdown.
AgainOnlyIfUnsure == \A e \in Seqs : receipts[e] > 1 => e \in unsure

\* runDispatcher (webhooks.go:103) sends what is pending, in order and once.
DispatchSound == DispatchTypeOK /\ SentInOrder /\ AgainOnlyIfUnsure

\* "Delivered even if the service is restarted in between" (SPEC.md, Durability): every pending
\* delivery is settled or goes with its hook, whatever statements fail, although a scan sees no
\* more than ScanLimit deliveries and those in flight are among them.
AllSettle == \A e \in Seqs : sheet[e].status = "pending" ~> sheet[e].status # "pending"
=============================================================================
