---------------------------- MODULE AsyncOutput ----------------------------
(***************************************************************************)
(* The output path of one connection of the Go mini-redis server           *)
(* (src/redis/impl/go-1/main.go): serve, process, exec, flush, startAsync, *)
(* deliverLocked, pushAsync, writer and cleanup.                           *)
(*                                                                         *)
(* The connection's goroutine executes commands and collects replies in    *)
(* c.out.  Before its first SUBSCRIBE it writes c.out to the socket        *)
(* itself.  From then on ("async") all output goes through c.pending,      *)
(* protected by c.mu, and a second goroutine, writer, moves it to the      *)
(* socket: it is woken through the one-slot channel c.sig, swaps c.pending *)
(* for its spare buffer and writes without holding the lock.  Publishers,  *)
(* other connections' goroutines, append to c.pending while the connection *)
(* has subscriptions (module PubSub has their side).                       *)
(*                                                                         *)
(* One action is one critical section of c.mu, or one blocking operation.  *)
(* Output is a sequence of items, a reply or a message each, numbered in   *)
(* the order in which they are produced; MaxPending counts items where the *)
(* code counts bytes.                                                      *)
(***************************************************************************)
EXTENDS Naturals, Sequences

CONSTANTS
  MaxPending,   \* limit of c.pending (maxPending, 32 MB in the code)
  MaxItems      \* items produced for this connection; bounds the model

ASSUME MaxPendingAssumption == MaxPending \in Nat \ {0}
ASSUME MaxItemsAssumption == MaxItems \in Nat

VARIABLES
  pc,          \* where the connection's goroutine is
  quit,        \* c.quit
  subscribed,  \* c.subs is not empty
  items,       \* items produced so far
  out,         \* c.out
  async,       \* c.async
  dead,        \* c.dead
  pending,     \* c.pending
  sig,         \* a wake-up is buffered in c.sig
  closed,      \* c.sig is closed
  wpc,         \* where the writer goroutine is
  wbuf,        \* what the writer has still to write of its local buf
  pendArr,     \* backing array of c.pending (0: nil)
  bufArr,      \* backing array of the writer's buf
  spareArr,    \* backing array of the writer's spare
  conn,        \* the socket
  deadline,    \* a write deadline is set on the socket
  accepted,    \* items written synchronously or appended to c.pending, in order
  received,    \* items the peer has received
  panic        \* a send on, or a close of, a closed channel was executed

serveVars  == <<pc, quit, subscribed, items, out, async>>
queueVars  == <<dead, pending, sig, closed, pendArr, panic>>
writerVars == <<wpc, wbuf, bufArr, spareArr>>
vars == <<serveVars, queueVars, writerVars, conn, deadline, accepted, received>>

\* Backing arrays are named 1..4; 0 is the nil slice.  At most three are
\* referenced, so that a fresh one exists.
Arrays == 0..4
Fresh == CHOOSE a \in 1..4 : a \notin {pendArr, bufArr, spareArr}

\* The socket: usable, its peer gone, closed by the server after a failed
\* write or an overflow, or closed after the last byte.
Sockets == {"open", "gone", "cut", "closed"}

-----------------------------------------------------------------------------
(***************************************************************************)
(* deliverLocked.  append writes into the backing array of c.pending or,   *)
(* when it must grow, into a new one.                                      *)
(***************************************************************************)
AppendPending(b) ==
  /\ pending' = pending \o b
  /\ accepted' = accepted \o b
  /\ IF b = <<>> THEN UNCHANGED pendArr ELSE pendArr' \in {pendArr, Fresh} \ {0}

\* Fault: no wake-up.
EnqueueSilently(b) ==
  /\ AppendPending(b)
  /\ UNCHANGED <<sig, panic, dead, closed, conn>>

\* A wake-up is left in c.sig unless one is there already.
Enqueue(b) ==
  /\ AppendPending(b)
  /\ sig' = TRUE
  /\ panic' = (panic \/ closed)
  /\ UNCHANGED <<dead, closed, conn>>

\* Above the limit the client is cut.  Closing the socket makes a blocked
\* write, and the goroutine's next read, fail.
Cut ==
  /\ dead' = TRUE
  /\ pending' = <<>>
  /\ pendArr' = 0
  /\ closed' = TRUE
  /\ panic' = (panic \/ closed)
  /\ conn' = "cut"
  /\ UNCHANGED <<sig, accepted>>

DeliverLocked(b) ==
  \/ dead /\ UNCHANGED <<queueVars, conn, accepted>>
  \/ ~dead /\ Len(pending \o b) > MaxPending /\ Cut
  \/ ~dead /\ Len(pending \o b) <= MaxPending /\ Enqueue(b)

-----------------------------------------------------------------------------
\* A command puts its reply into c.out; QUIT, and input that is no valid
\* request, also end the connection once the reply is on its way.
Answer(q) ==
  /\ pc = "exec"
  /\ items < MaxItems
  /\ items' = items + 1
  /\ out' = Append(out, items')
  /\ quit' = q
  /\ pc' = "tail"
  /\ UNCHANGED <<subscribed, async, queueVars, writerVars, conn, deadline,
                 accepted, received>>

\* The last subscription is given up; its acknowledgement goes to c.out.
Unsubscribe ==
  /\ pc = "exec"
  /\ subscribed
  /\ items < MaxItems
  /\ items' = items + 1
  /\ out' = Append(out, items')
  /\ subscribed' = FALSE
  /\ pc' = "tail"
  /\ UNCHANGED <<quit, async, queueVars, writerVars, conn, deadline, accepted,
                 received>>

\* The end of exec: pushAsync once the connection is async.
ExecEnd ==
  /\ pc = "tail"
  /\ IF async /\ out # <<>>
     THEN DeliverLocked(out) /\ out' = <<>>
     ELSE UNCHANGED <<queueVars, conn, accepted, out>>
  /\ pc' = IF ~quit THEN "exec" ELSE IF out' = <<>> THEN "unsub" ELSE "flush"
  /\ UNCHANGED <<quit, subscribed, items, async, writerVars, deadline, received>>

\* conn.Write of c.out by the goroutine itself; it blocks while the peer does
\* not read.  A socket whose peer is gone takes the bytes in vain, or fails.
WriteOut ==
  /\ accepted' = accepted \o out
  /\ received' = IF conn = "open" THEN received \o out ELSE received
  /\ out' = <<>>

\* flush without writer, after a batch of commands or before closing.
Flush ==
  /\ pc \in {"exec", "flush"}
  /\ ~async
  /\ out # <<>>
  /\ WriteOut
  /\ \E ok \in BOOLEAN :
       /\ conn = "open" => ok
       /\ pc' = IF ok /\ pc = "exec" THEN "exec" ELSE "unsub"
  /\ UNCHANGED <<quit, subscribed, items, async, queueVars, writerVars, conn,
                 deadline>>

\* SUBSCRIBE: startAsync flushes c.out (ignoring an error), creates c.sig and
\* starts the writer; pushAsync then leaves a first wake-up.
Subscribe ==
  /\ pc = "exec"
  /\ items < MaxItems
  /\ pc' = "subscribe"
  /\ IF async
     THEN /\ DeliverLocked(out)
          /\ out' = <<>>
          /\ UNCHANGED <<async, wpc, received>>
     ELSE /\ WriteOut
          /\ async' = TRUE
          /\ wpc' = "recv"
          /\ sig' = TRUE
          /\ UNCHANGED <<dead, pending, closed, pendArr, panic, conn>>
  /\ UNCHANGED <<quit, subscribed, items, wbuf, bufArr, spareArr, deadline>>

\* The subscription is registered and acknowledged under pubsub.mu.
Register ==
  /\ pc = "subscribe"
  /\ items' = items + 1
  /\ subscribed' = TRUE
  /\ DeliverLocked(<<items'>>)
  /\ pc' = "exec"
  /\ UNCHANGED <<quit, out, async, writerVars, deadline, received>>

\* Another connection's PUBLISH.
Message ==
  /\ subscribed
  /\ items < MaxItems
  /\ items' = items + 1
  /\ DeliverLocked(<<items'>>)
  /\ UNCHANGED <<pc, quit, subscribed, out, async, writerVars, deadline, received>>

\* conn.Read fails: the peer left or the server closed the socket.
ReadError ==
  /\ pc = "exec"
  /\ out = <<>>
  /\ conn # "open"
  /\ pc' = "unsub"
  /\ UNCHANGED <<quit, subscribed, items, out, async, queueVars, writerVars,
                 conn, deadline, accepted, received>>

\* cleanup: first the registry, then the socket.  An async connection leaves
\* closing the socket to its writer, whose writes can last 5 s more.
CleanupUnsub ==
  /\ pc = "unsub"
  /\ subscribed' = FALSE
  /\ pc' = "close"
  /\ UNCHANGED <<quit, items, out, async, queueVars, writerVars, conn, deadline,
                 accepted, received>>

\* Fault: no write deadline.
NoWriteDeadline == UNCHANGED deadline

SetWriteDeadline == deadline' = TRUE

\* Fault: c.dead is not tested.
CloseSigAlways ==
  /\ dead' = TRUE
  /\ closed' = TRUE
  /\ panic' = (panic \/ closed)

CloseSig ==
  /\ dead' = TRUE
  /\ closed' = (closed \/ ~dead)
  /\ panic' = (panic \/ (~dead /\ closed))

CleanupClose ==
  /\ pc = "close"
  /\ pc' = "done"
  /\ IF async
     THEN SetWriteDeadline /\ CloseSig /\ UNCHANGED conn
     ELSE /\ conn' = IF conn = "open" THEN "closed" ELSE "cut"
          /\ UNCHANGED <<deadline, dead, closed, panic>>
  /\ UNCHANGED <<quit, subscribed, items, out, async, pending, sig, pendArr,
                 writerVars, accepted, received>>

-----------------------------------------------------------------------------
\* The writer.  A range over c.sig yields a buffered wake-up even after the
\* channel was closed.
WriterRecv ==
  /\ wpc = "recv"
  /\ sig
  /\ sig' = FALSE
  /\ wpc' = "swap"
  /\ UNCHANGED <<serveVars, dead, pending, closed, pendArr, panic, wbuf, bufArr,
                 spareArr, conn, deadline, accepted, received>>

WriterSwap ==
  /\ wpc = "swap"
  /\ wbuf' = pending
  /\ bufArr' = pendArr
  /\ pending' = <<>>
  /\ pendArr' = spareArr
  /\ wpc' = "write"
  /\ UNCHANGED <<serveVars, dead, sig, closed, panic, spareArr, conn, deadline,
                 accepted, received>>

\* The socket takes the next item of buf.
WriterSend ==
  /\ wpc = "write"
  /\ wbuf # <<>>
  /\ conn = "open"
  /\ received' = Append(received, Head(wbuf))
  /\ wbuf' = Tail(wbuf)
  /\ UNCHANGED <<serveVars, queueVars, wpc, bufArr, spareArr, conn, deadline,
                 accepted>>

\* Fault: a failed write is ignored.
WriterIgnoresError ==
  /\ wpc = "write"
  /\ wbuf # <<>>
  /\ conn # "open" \/ deadline
  /\ wbuf' = <<>>
  /\ UNCHANGED <<serveVars, queueVars, wpc, bufArr, spareArr, conn, deadline,
                 accepted, received>>

\* Write fails (socket closed, peer gone, deadline passed) and the writer
\* closes the socket; to a peer that is gone it may also succeed in vain.
WriterFail ==
  /\ wpc = "write"
  /\ wbuf # <<>>
  /\ conn # "open" \/ deadline
  /\ conn' \in {"cut"} \cup ({conn} \cap {"gone"})
  /\ wbuf' = <<>>
  /\ UNCHANGED <<serveVars, queueVars, wpc, bufArr, spareArr, deadline, accepted,
                 received>>

\* Fault: spare is not replaced.
WriterKeepsSpare ==
  /\ wpc = "write"
  /\ wbuf = <<>>
  /\ bufArr' = 0
  /\ wpc' = "recv"
  /\ spareArr' = IF spareArr = 0 THEN bufArr ELSE spareArr
  /\ UNCHANGED <<serveVars, queueVars, wbuf, conn, deadline, accepted, received>>

\* The end of an iteration: buf becomes spare, or is dropped when it is large.
WriterNext ==
  /\ wpc = "write"
  /\ wbuf = <<>>
  /\ spareArr' \in {bufArr, 0}
  /\ bufArr' = 0
  /\ wpc' = "recv"
  /\ UNCHANGED <<serveVars, queueVars, wbuf, conn, deadline, accepted, received>>

WriterEnd ==
  /\ wpc = "recv"
  /\ ~sig
  /\ closed
  /\ conn' = IF conn = "open" THEN "closed" ELSE "cut"
  /\ wpc' = "done"
  /\ UNCHANGED <<serveVars, queueVars, wbuf, bufArr, spareArr, deadline, accepted,
                 received>>

\* The peer closes or resets the connection.
PeerLeave ==
  /\ conn = "open"
  /\ conn' = "gone"
  /\ UNCHANGED <<serveVars, queueVars, writerVars, deadline, accepted, received>>

-----------------------------------------------------------------------------
Init ==
  /\ pc = "exec" /\ quit = FALSE /\ subscribed = FALSE
  /\ items = 0 /\ out = <<>> /\ async = FALSE
  /\ dead = FALSE /\ pending = <<>> /\ sig = FALSE /\ closed = FALSE
  /\ wpc = "none" /\ wbuf = <<>>
  /\ pendArr = 0 /\ bufArr = 0 /\ spareArr = 0
  /\ conn = "open" /\ deadline = FALSE
  /\ accepted = <<>> /\ received = <<>>
  /\ panic = FALSE

\* What the connection's goroutine does without its peer.
ServeStep == Register \/ ExecEnd \/ ReadError \/ CleanupUnsub \/ CleanupClose

\* What the writer does without its peer.
WriterStep == WriterRecv \/ WriterSwap \/ WriterFail \/ WriterNext \/ WriterEnd

\* A command or a message arrives.
Input == (\E q \in BOOLEAN : Answer(q)) \/ Subscribe \/ Unsubscribe \/ Message

Next == Input \/ ServeStep \/ WriterStep \/ Flush \/ WriterSend \/ PeerLeave

Spec == Init /\ [][Next]_vars

\* Goroutines keep running; nothing is assumed of the peer.
FairSpec == Spec /\ WF_vars(ServeStep) /\ WF_vars(WriterStep)

\* The peer reads, so that a blocked write goes on.
PeerReads == WF_vars(WriterSend) /\ WF_vars(Flush)

-----------------------------------------------------------------------------
Items == Nat

TypeOK ==
  /\ pc \in {"exec", "subscribe", "tail", "flush", "unsub", "close", "done"}
  /\ quit \in BOOLEAN
  /\ subscribed \in BOOLEAN
  /\ items \in Nat
  /\ out \in Seq(Items)
  /\ async \in BOOLEAN
  /\ dead \in BOOLEAN
  /\ pending \in Seq(Items) /\ Len(pending) <= MaxPending
  /\ sig \in BOOLEAN
  /\ closed \in BOOLEAN
  /\ wpc \in {"none", "recv", "swap", "write", "done"}
  /\ wbuf \in Seq(Items)
  /\ pendArr \in Arrays
  /\ bufArr \in Arrays
  /\ spareArr \in Arrays
  /\ conn \in Sockets
  /\ deadline \in BOOLEAN
  /\ accepted \in Seq(Items)
  /\ received \in Seq(Items)
  /\ panic \in BOOLEAN

\* No lost wake-up: whenever c.pending holds something, a wake-up is buffered
\* in c.sig or the writer has taken one and is about to swap.  deliverLocked
\* drops its signal when the slot is full, and writer looks at pending only
\* after a signal.
NoLostWakeup == pending # <<>> => sig \/ wpc = "swap"

\* c.sig is closed by an overflow, in whichever publisher meets it, and by
\* cleanup: never twice, and nothing is sent on it afterwards.  Either would
\* panic and end the whole server.
NoPanic == ~panic

\* Double buffering: the array the writer writes from, outside c.mu, is never
\* the one deliverLocked appends to.
NoSharedArray == wpc = "write" /\ bufArr # 0 => bufArr # pendArr

\* Output accepted for a usable socket is, in this order, received, in the
\* writer's hands, or pending; a connection without writer has accepted only
\* what it wrote.  So the peer never misses, repeats or reorders anything.
NothingLost == conn = "open" => accepted = received \o wbuf \o pending

\* When the server has closed a usable connection (QUIT, protocol error), the
\* peer has received everything.
DrainedWhenClosed == conn = "closed" => received = accepted

\* deliverLocked, writer and cleanup (main.go:159-235) hand one stream over through two
\* buffers: the parts above together.
BuffersIntact == TypeOK /\ NoSharedArray /\ NothingLost /\ DrainedWhenClosed

\* The whole output path implements the stream its peer is promised.
Link == IF conn = "open" THEN "up" ELSE IF conn = "closed" THEN "closed" ELSE "broken"
Stream == INSTANCE OutStream WITH link <- Link
ImplementsStream == Stream!Spec

\* The inductive invariant behind the safety properties.
Lifecycle ==
  /\ closed = dead
  /\ async <=> wpc # "none"
  /\ ~async => ~dead /\ ~sig /\ pending = <<>> /\ ~subscribed
  /\ pc = "subscribe" => async
  /\ wpc # "write" => wbuf = <<>>
  /\ conn = "closed" => \/ wpc = "done" /\ dead
                        \/ wpc = "none" /\ pc = "done"
ArraysApart ==
  /\ wpc = "write" /\ bufArr # 0 => bufArr # pendArr
  /\ wpc \in {"recv", "swap"} /\ pendArr # 0 => pendArr # spareArr
  /\ wpc # "write" => bufArr = 0
  /\ wpc = "none" => pendArr = 0 /\ spareArr = 0
StreamIntact ==
  /\ NothingLost
  /\ DrainedWhenClosed
  /\ Stream!Extends(received, accepted)
IInv == TypeOK /\ Lifecycle /\ NoLostWakeup /\ NoPanic /\ ArraysApart /\ StreamIntact

\* The writer goroutine of a finished connection ends, even if its peer has
\* stopped reading: cleanup's write deadline, or the closed socket, frees it.
WriterEnds == pc = "done" ~> wpc \in {"none", "done"}

\* A client cut for its full buffer gives up its subscriptions: the closed
\* socket makes its own goroutine clean up.
CutClientLeaves == dead ~> ~subscribed

\* Both goroutines of a connection come to their end in cleanup and writer, with nothing
\* assumed of the peer.
EndsWithoutPeer == WriterEnds /\ CutClientLeaves

\* With a peer that reads, whatever is accepted arrives unless the connection
\* breaks.
EventuallyReceived ==
  PeerReads => \A n \in 1..MaxItems :
    Len(accepted) >= n ~> Len(received) >= n \/ conn \in {"gone", "cut"}
=============================================================================
