------------------------- MODULE AsyncOutputProofs -------------------------
(***************************************************************************)
(* Proofs about AsyncOutput, for every buffer limit and every number of    *)
(* items.  IInv is inductive; it gives the safety properties, and with     *)
(* them every step of the output path is a step of OutStream.              *)
(***************************************************************************)
EXTENDS AsyncOutput, SequenceTheorems, TLAPS

-----------------------------------------------------------------------------
(* Facts about sequences of items. *)

\* What is appended to the last of three concatenated sequences is appended to
\* the whole.
LEMMA ConcatThree ==
  ASSUME NEW r \in Seq(Items), NEW w \in Seq(Items), NEW p \in Seq(Items), NEW b \in Seq(Items)
  PROVE  (r \o w \o p) \o b = r \o w \o (p \o b)
  <1>1. /\ r \o w \in Seq(Items) /\ p \o b \in Seq(Items) /\ (r \o w) \o p \in Seq(Items)
        /\ ((r \o w) \o p) \o b \in Seq(Items) /\ (r \o w) \o (p \o b) \in Seq(Items)
    BY ConcatProperties
  <1>2. Len(r) \in Nat /\ Len(w) \in Nat /\ Len(p) \in Nat /\ Len(b) \in Nat
    BY LenProperties
  <1>3. /\ Len(((r \o w) \o p) \o b) = Len(r) + Len(w) + Len(p) + Len(b)
        /\ Len((r \o w) \o (p \o b)) = Len(r) + Len(w) + Len(p) + Len(b)
    BY <1>1, <1>2, ConcatProperties
  <1>4. \A i \in 1..(Len(r) + Len(w) + Len(p) + Len(b)) :
          (((r \o w) \o p) \o b)[i] = ((r \o w) \o (p \o b))[i]
    BY <1>1, <1>2, ConcatProperties
  <1> QED  BY <1>1, <1>2, <1>3, <1>4, SeqEqual

\* An empty sequence can be moved across another.
LEMMA ConcatSwapEmpty ==
  ASSUME NEW S, NEW r \in Seq(S), NEW p \in Seq(S)
  PROVE  r \o <<>> \o p = r \o p \o <<>>
  <1>1. r \o p \in Seq(S)
    BY ConcatProperties
  <1> QED  BY <1>1, ConcatEmptySeq

\* Moving the head of the middle sequence to the end of the first changes
\* nothing of the whole.
LEMMA MoveHead ==
  ASSUME NEW S, NEW r \in Seq(S), NEW w \in Seq(S), w # <<>>
  PROVE  Append(r, Head(w)) \o Tail(w) = r \o w
  <1> DEFINE s == Append(r, Head(w)) \o Tail(w)
             t == r \o w
  <1>1. Head(w) \in S /\ Tail(w) \in Seq(S)
    BY HeadTailProperties
  <1>2. Append(r, Head(w)) \in Seq(S) /\ Len(Append(r, Head(w))) = Len(r) + 1
    BY <1>1, AppendProperties
  <1>3. Len(w) \in Nat /\ Len(w) # 0 /\ Len(Tail(w)) = Len(w) - 1 /\ Len(r) \in Nat
    BY EmptySeq, HeadTailProperties, LenProperties
  <1>4. s \in Seq(S) /\ t \in Seq(S) /\ Len(s) = Len(t) /\ Len(t) = Len(r) + Len(w)
    BY <1>1, <1>2, <1>3, ConcatProperties
  <1>5. ASSUME NEW i \in 1..Len(s) PROVE s[i] = t[i]
    <2>1. CASE i <= Len(r)
      BY <2>1, <1>1, <1>2, <1>3, <1>4, ConcatProperties, AppendProperties
    <2>2. CASE i = Len(r) + 1
      <3>1. s[i] = Head(w)
        BY <2>2, <1>1, <1>2, <1>3, <1>4, ConcatProperties, AppendProperties
      <3>2. t[i] = w[1]
        BY <2>2, <1>3, <1>4, ConcatProperties
      <3> QED  BY <3>1, <3>2
    <2>3. CASE i > Len(r) + 1
      <3>1. i \in 1..(Len(r) + 1 + Len(Tail(w))) /\ i - (Len(r) + 1) \in 1..Len(Tail(w))
        BY <2>3, <1>3, <1>4
      <3>2. s[i] = Tail(w)[i - (Len(r) + 1)]
        BY <2>3, <3>1, <1>1, <1>2, <1>3, ConcatProperties
      <3>3. Tail(w)[i - (Len(r) + 1)] = w[i - Len(r)]
        BY <3>1, <1>3, HeadTailProperties
      <3>4. t[i] = w[i - Len(r)]
        BY <2>3, <1>3, <1>4, ConcatProperties
      <3> QED  BY <3>2, <3>3, <3>4
    <2> QED  BY <2>1, <2>2, <2>3, <1>3, <1>4
  <1> QED  BY <1>4, <1>5, SeqEqual

\* A sequence is continued by its concatenation with another.
LEMMA ExtendsConcat ==
  ASSUME NEW s \in Seq(Items), NEW t \in Seq(Items)
  PROVE  Stream!Extends(s, s \o t)
  BY ConcatProperties, LenProperties DEF Stream!Extends

LEMMA ExtendsTransitive ==
  ASSUME NEW s \in Seq(Items), NEW t \in Seq(Items), NEW u \in Seq(Items),
         Stream!Extends(s, t), Stream!Extends(t, u)
  PROVE  Stream!Extends(s, u)
  BY LenProperties DEF Stream!Extends

LEMMA ExtendsReflexive ==
  ASSUME NEW s \in Seq(Items)
  PROVE  Stream!Extends(s, s)
  BY LenProperties DEF Stream!Extends

\* Three names never use up the four backing arrays.
LEMMA FreshArray ==
  ASSUME TypeOK
  PROVE  Fresh \in 1..4 /\ Fresh \notin {pendArr, bufArr, spareArr}
  <1>1. \E a \in 1..4 : a \notin {pendArr, bufArr, spareArr}
    BY DEF TypeOK, Arrays
  <1> QED  BY <1>1 DEF Fresh

-----------------------------------------------------------------------------
(* The steps of Next, named for the case distinctions below. *)
NextCases ==
  \/ \E q \in BOOLEAN : Answer(q)
  \/ Unsubscribe \/ ExecEnd \/ Flush \/ Subscribe \/ Register \/ Message
  \/ ReadError \/ CleanupUnsub \/ CleanupClose
  \/ WriterRecv \/ WriterSwap \/ WriterSend \/ WriterFail \/ WriterNext \/ WriterEnd
  \/ PeerLeave
  \/ UNCHANGED vars

LEMMA NextSplit == [Next]_vars => NextCases
  BY DEF Next, Input, ServeStep, WriterStep, NextCases

\* The part of TypeOK that deliverLocked is responsible for.
QueueTypeOK ==
  /\ dead \in BOOLEAN /\ sig \in BOOLEAN /\ closed \in BOOLEAN /\ panic \in BOOLEAN
  /\ conn \in Sockets /\ pendArr \in Arrays
  /\ pending \in Seq(Items) /\ Len(pending) <= MaxPending
  /\ accepted \in Seq(Items)

LEMMA DeliverType ==
  ASSUME TypeOK, NEW b \in Seq(Items), DeliverLocked(b)
  PROVE  QueueTypeOK'
  <1> USE MaxPendingAssumption DEF QueueTypeOK
  <1>1. CASE dead /\ UNCHANGED <<queueVars, conn, accepted>>
    BY <1>1 DEF TypeOK, queueVars
  <1>2. CASE Cut
    BY <1>2 DEF Cut, TypeOK, Sockets, Arrays
  <1>3. CASE Len(pending \o b) <= MaxPending /\ Enqueue(b)
    <2>1. Fresh \in 1..4
      BY FreshArray
    <2>2. pending \o b \in Seq(Items) /\ accepted \o b \in Seq(Items)
      BY ConcatProperties DEF TypeOK
    <2> QED  BY <1>3, <2>1, <2>2 DEF Enqueue, AppendPending, TypeOK, Arrays
  <1> QED  BY <1>1, <1>2, <1>3 DEF DeliverLocked

\* Every step keeps the variables within their types, c.pending within its
\* limit included.
LEMMA TypeStep ==
  ASSUME TypeOK, [Next]_vars
  PROVE  TypeOK'
  <1> USE DEF serveVars, queueVars, writerVars
  <1> out \in Seq(Items) /\ MaxPending \in Nat
    BY MaxPendingAssumption DEF TypeOK
  <1>1. ASSUME NEW q \in BOOLEAN, Answer(q) PROVE TypeOK'
    BY <1>1, AppendProperties DEF TypeOK, Answer, Items
  <1>2. CASE Unsubscribe
    <2>1. items' \in Nat /\ out' \in Seq(Items)
      BY <1>2, AppendProperties DEF TypeOK, Unsubscribe, Items
    <2> QED  BY <1>2, <2>1 DEF TypeOK, Unsubscribe
  <1>3. CASE ExecEnd
    <2>1. DeliverLocked(out) => QueueTypeOK'
      BY DeliverType
    <2> QED  BY <1>3, <2>1, EmptySeq DEF ExecEnd, TypeOK, QueueTypeOK
  <1>4. CASE Flush
    BY <1>4, ConcatProperties, EmptySeq DEF TypeOK, Flush, WriteOut
  <1>5. CASE Subscribe
    <2>1. DeliverLocked(out) => QueueTypeOK'
      BY DeliverType
    <2>2. accepted \o out \in Seq(Items) /\ received \o out \in Seq(Items)
      BY ConcatProperties DEF TypeOK
    <2> QED  BY <1>5, <2>1, <2>2, EmptySeq DEF Subscribe, WriteOut, TypeOK, QueueTypeOK
  <1>6. CASE Register
    <2>1. <<items'>> \in Seq(Items) /\ DeliverLocked(<<items'>>)
      BY <1>6 DEF Register, Items, TypeOK
    <2>2. QueueTypeOK'
      BY <2>1, DeliverType
    <2> QED  BY <1>6, <2>2 DEF Register, TypeOK, QueueTypeOK
  <1>7. CASE Message
    <2>1. <<items'>> \in Seq(Items) /\ DeliverLocked(<<items'>>)
      BY <1>7 DEF Message, Items, TypeOK
    <2>2. QueueTypeOK'
      BY <2>1, DeliverType
    <2> QED  BY <1>7, <2>2 DEF Message, TypeOK, QueueTypeOK
  <1>8. CASE ReadError
    BY <1>8 DEF TypeOK, ReadError
  <1>9. CASE CleanupUnsub
    BY <1>9 DEF TypeOK, CleanupUnsub
  <1>10. CASE CleanupClose
    <2>1. CASE async
      <3>1. closed' \in BOOLEAN /\ panic' \in BOOLEAN /\ dead' = TRUE /\ deadline' = TRUE
        BY <1>10, <2>1, Zenon DEF CleanupClose, SetWriteDeadline, CloseSig
      <3> QED  BY <1>10, <2>1, <3>1 DEF TypeOK, CleanupClose
    <2>2. CASE ~async
      BY <1>10, <2>2 DEF TypeOK, CleanupClose, Sockets
    <2> QED  BY <2>1, <2>2
  <1>11. CASE WriterRecv
    BY <1>11 DEF TypeOK, WriterRecv
  <1>12. CASE WriterSwap
    BY <1>12, EmptySeq DEF TypeOK, WriterSwap
  <1>13. CASE WriterSend
    BY <1>13, HeadTailProperties, AppendProperties DEF TypeOK, WriterSend
  <1>14. CASE WriterFail
    BY <1>14, EmptySeq DEF TypeOK, WriterFail, Sockets
  <1>15. CASE WriterNext
    BY <1>15 DEF TypeOK, WriterNext, Arrays
  <1>16. CASE WriterEnd
    BY <1>16 DEF TypeOK, WriterEnd, Sockets
  <1>17. CASE PeerLeave
    BY <1>17 DEF TypeOK, PeerLeave, Sockets
  <1>18. CASE UNCHANGED vars
    BY <1>18 DEF TypeOK, vars
  <1> QED
    BY <1>1, <1>2, <1>3, <1>4, <1>5, <1>6, <1>7, <1>8, <1>9, <1>10, <1>11,
       <1>12, <1>13, <1>14, <1>15, <1>16, <1>17, <1>18, NextSplit DEF NextCases

LEMMA InitIInv == Init => IInv
  <1> SUFFICES ASSUME Init PROVE IInv
    OBVIOUS
  <1>1. TypeOK
    <2>1. <<>> \in Seq(Items) /\ Len(<<>>) <= MaxPending
      BY MaxPendingAssumption, EmptySeq
    <2>2. pending \in Seq(Items) /\ Len(pending) <= MaxPending
      BY <2>1, Zenon DEF Init
    <2>3. out \in Seq(Items) /\ wbuf \in Seq(Items) /\ accepted \in Seq(Items) /\ received \in Seq(Items)
      BY <2>1, Zenon DEF Init
    <2>4. 0 \in Arrays /\ 0 \in Nat
      BY DEF Arrays
    <2> QED  BY <2>2, <2>3, <2>4, Zenon DEF Init, TypeOK, Sockets
  <1>2. Lifecycle /\ NoLostWakeup /\ NoPanic /\ ArraysApart
    BY DEF Init, Lifecycle, NoLostWakeup, NoPanic, ArraysApart
  <1>3. StreamIntact
    <2>1. <<>> \in Seq(Items) /\ <<>> = <<>> \o <<>> \o <<>>
      BY ConcatEmptySeq, EmptySeq
    <2>2. Stream!Extends(<<>>, <<>>)
      BY <2>1, ExtendsReflexive
    <2> QED  BY <2>1, <2>2 DEF Init, StreamIntact, NothingLost, DrainedWhenClosed
  <1> QED  BY <1>1, <1>2, <1>3 DEF IInv

-----------------------------------------------------------------------------
(* Control: the channel is closed once, and no wake-up is lost. *)
Control == Lifecycle /\ NoLostWakeup /\ NoPanic

LEMMA DeliverControl ==
  ASSUME TypeOK, Control, NEW b \in Seq(Items), DeliverLocked(b), async,
         UNCHANGED wpc
  PROVE  /\ closed' = dead' /\ NoLostWakeup' /\ NoPanic'
         /\ dead => dead'
         /\ conn' = "closed" => conn = "closed" /\ dead'
  <1> USE DEF Control, Lifecycle, NoLostWakeup, NoPanic
  <1>1. CASE dead /\ UNCHANGED <<queueVars, conn, accepted>>
    BY <1>1 DEF queueVars
  <1>2. CASE ~dead /\ Cut
    BY <1>2 DEF Cut
  <1>3. CASE ~dead /\ Enqueue(b)
    BY <1>3 DEF Enqueue
  <1> QED  BY <1>1, <1>2, <1>3 DEF DeliverLocked

LEMMA ControlStep ==
  ASSUME TypeOK, Control, [Next]_vars
  PROVE  Control'
  <1> USE DEF Control, Lifecycle, NoLostWakeup, NoPanic, serveVars, queueVars, writerVars
  <1>1. ASSUME NEW q \in BOOLEAN, Answer(q) PROVE Control'
    BY <1>1 DEF Answer
  <1>2. CASE Unsubscribe
    BY <1>2 DEF Unsubscribe
  <1>3. CASE ExecEnd
    <2>1. CASE async /\ out # <<>>
      <3>1. DeliverLocked(out) /\ UNCHANGED <<wpc, wbuf, async, subscribed>> /\ pc' # "subscribe"
        BY <1>3, <2>1 DEF ExecEnd
      <3>2. out \in Seq(Items)
        BY DEF TypeOK
      <3> QED  BY <2>1, <3>1, <3>2, DeliverControl
    <2>2. CASE ~(async /\ out # <<>>)
      BY <1>3, <2>2 DEF ExecEnd
    <2> QED  BY <2>1, <2>2
  <1>4. CASE Flush
    BY <1>4 DEF Flush
  <1>5. CASE Subscribe
    <2>1. CASE async
      <3>1. DeliverLocked(out) /\ UNCHANGED <<wpc, wbuf, async, subscribed>>
        BY <1>5, <2>1 DEF Subscribe
      <3>2. out \in Seq(Items)
        BY DEF TypeOK
      <3> QED  BY <2>1, <3>1, <3>2, DeliverControl
    <2>2. CASE ~async
      BY <1>5, <2>2 DEF Subscribe
    <2> QED  BY <2>1, <2>2
  <1>6. CASE Register
    <2>1. DeliverLocked(<<items'>>) /\ UNCHANGED <<wpc, wbuf, async>> /\ async /\ pc' = "exec"
      BY <1>6 DEF Register
    <2>2. <<items'>> \in Seq(Items)
      BY <1>6 DEF Register, TypeOK, Items
    <2> QED  BY <2>1, <2>2, DeliverControl
  <1>7. CASE Message
    <2>1. DeliverLocked(<<items'>>) /\ UNCHANGED <<wpc, wbuf, async, pc, subscribed>> /\ async
      BY <1>7 DEF Message
    <2>2. <<items'>> \in Seq(Items)
      BY <1>7 DEF Message, TypeOK, Items
    <2> QED  BY <2>1, <2>2, DeliverControl
  <1>8. CASE ReadError
    BY <1>8 DEF ReadError
  <1>9. CASE CleanupUnsub
    BY <1>9 DEF CleanupUnsub
  <1>10. CASE CleanupClose
    BY <1>10 DEF CleanupClose, CloseSig
  <1>11. CASE WriterRecv
    BY <1>11 DEF WriterRecv
  <1>12. CASE WriterSwap
    BY <1>12 DEF WriterSwap
  <1>13. CASE WriterSend
    BY <1>13 DEF WriterSend
  <1>14. CASE WriterFail
    BY <1>14 DEF WriterFail
  <1>15. CASE WriterNext
    BY <1>15 DEF WriterNext
  <1>16. CASE WriterEnd
    BY <1>16 DEF WriterEnd
  <1>17. CASE PeerLeave
    BY <1>17 DEF PeerLeave
  <1>18. CASE UNCHANGED vars
    BY <1>18 DEF vars
  <1> QED
    BY <1>1, <1>2, <1>3, <1>4, <1>5, <1>6, <1>7, <1>8, <1>9, <1>10, <1>11,
       <1>12, <1>13, <1>14, <1>15, <1>16, <1>17, <1>18, NextSplit DEF NextCases

-----------------------------------------------------------------------------
(* Buffers: writer and deliverLocked never share a backing array. *)

LEMMA DeliverArray ==
  ASSUME TypeOK, NEW b, DeliverLocked(b)
  PROVE  pendArr' = pendArr \/ pendArr' = 0 \/ pendArr' \notin {bufArr, spareArr}
  <1>1. Fresh \notin {bufArr, spareArr}
    BY FreshArray
  <1> QED  BY <1>1 DEF DeliverLocked, Cut, Enqueue, AppendPending, queueVars

LEMMA ArraysStep ==
  ASSUME TypeOK, Lifecycle, ArraysApart, [Next]_vars
  PROVE  ArraysApart'
  <1> USE DEF ArraysApart, serveVars, queueVars, writerVars
  <1>1. ASSUME UNCHANGED writerVars, NEW b, DeliverLocked(b), async
        PROVE  ArraysApart'
    BY <1>1, DeliverArray DEF Lifecycle
  <1>2. ASSUME UNCHANGED <<pendArr, wpc, bufArr, spareArr>>
        PROVE  ArraysApart'
    BY <1>2
  <1>3. CASE ExecEnd
    BY <1>1, <1>2, <1>3 DEF ExecEnd
  <1>4. CASE Subscribe
    <2>1. CASE async
      BY <1>1, <1>4, <2>1 DEF Subscribe
    <2>2. CASE ~async
      BY <1>4, <2>2 DEF Subscribe, Lifecycle
    <2> QED  BY <2>1, <2>2
  <1>5. CASE Register
    BY <1>1, <1>5 DEF Register, Lifecycle
  <1>6. CASE Message
    BY <1>1, <1>6 DEF Message, Lifecycle
  <1>7. CASE WriterRecv
    BY <1>7 DEF WriterRecv
  <1>8. CASE WriterSwap
    BY <1>8 DEF WriterSwap
  <1>9. CASE WriterNext
    BY <1>9 DEF WriterNext
  <1>10. CASE WriterEnd
    BY <1>10 DEF WriterEnd
  <1>11. CASE \/ \E q \in BOOLEAN : Answer(q)
              \/ Unsubscribe \/ Flush \/ ReadError \/ CleanupUnsub \/ CleanupClose
              \/ WriterSend \/ WriterFail \/ PeerLeave \/ UNCHANGED vars
    BY <1>2, <1>11 DEF Answer, Unsubscribe, Flush, ReadError, CleanupUnsub,
       CleanupClose, WriterSend, WriterFail, PeerLeave, vars
  <1> QED
    BY <1>3, <1>4, <1>5, <1>6, <1>7, <1>8, <1>9, <1>10, <1>11, NextSplit
    DEF NextCases

-----------------------------------------------------------------------------
(* The stream: nothing is lost, repeated or reordered. *)

\* Appending to c.pending and to the accepted output keeps the stream intact.
LEMMA DeliverStream ==
  ASSUME TypeOK, Control, StreamIntact, NEW b \in Seq(Items), DeliverLocked(b), async,
         UNCHANGED <<wbuf, received>>
  PROVE  StreamIntact'
  <1>0. (received \o wbuf \o pending) \o b = received \o wbuf \o (pending \o b)
    <2>1. received \in Seq(Items) /\ wbuf \in Seq(Items) /\ pending \in Seq(Items)
      BY DEF TypeOK
    <2> QED  BY <2>1, ConcatThree, SMTT(60)
  <1> USE DEF StreamIntact, NothingLost, DrainedWhenClosed
  <1>1. CASE dead /\ UNCHANGED <<queueVars, conn, accepted>>
    BY <1>1 DEF queueVars
  <1>2. CASE ~dead /\ Cut
    BY <1>2 DEF Cut
  <1>3. CASE ~dead /\ Enqueue(b)
    <2>1. conn # "closed"
      BY <1>3 DEF Control, Lifecycle
    <2>2. accepted' = accepted \o b /\ pending' = pending \o b /\ conn' = conn
      BY <1>3 DEF Enqueue, AppendPending
    <2>3. conn = "open" => accepted \o b = received \o wbuf \o (pending \o b)
      BY <1>0
    <2>4. Stream!Extends(received, accepted \o b)
      <3>1. received \in Seq(Items) /\ accepted \in Seq(Items) /\ accepted \o b \in Seq(Items)
        BY ConcatProperties DEF TypeOK
      <3> QED  BY <3>1, ExtendsConcat, ExtendsTransitive
    <2> QED  BY <2>1, <2>2, <2>3, <2>4
  <1> QED  BY <1>1, <1>2, <1>3 DEF DeliverLocked

\* So does a synchronous write of c.out.
LEMMA WriteOutStream ==
  ASSUME TypeOK, Control, StreamIntact, WriteOut, ~async, conn # "closed",
         UNCHANGED <<wbuf, pending, conn>>
  PROVE  StreamIntact'
  <1> USE DEF StreamIntact, NothingLost, DrainedWhenClosed
  <1>1. wbuf = <<>> /\ pending = <<>>
    BY DEF Control, Lifecycle
  <1>2. /\ received \in Seq(Items) /\ accepted \in Seq(Items) /\ out \in Seq(Items)
        /\ accepted \o out \in Seq(Items) /\ received \o out \in Seq(Items)
    BY ConcatProperties DEF TypeOK
  <1>3. CASE conn = "open"
    <2>1. accepted = received
      BY <1>1, <1>2, <1>3, ConcatEmptySeq
    <2>2. received' = accepted' /\ received' \in Seq(Items)
      BY <1>2, <1>3, <2>1 DEF WriteOut
    <2>3. received' \o <<>> \o <<>> = received'
      BY <2>2, ConcatEmptySeq
    <2>4. Stream!Extends(received', accepted')
      BY <2>2, ExtendsReflexive
    <2> QED  BY <1>1, <1>3, <2>2, <2>3, <2>4
  <1>4. CASE conn # "open"
    <2>1. received' = received /\ accepted' = accepted \o out
      BY <1>4 DEF WriteOut
    <2>2. Stream!Extends(received, accepted \o out)
      BY <1>2, ExtendsConcat, ExtendsTransitive
    <2> QED  BY <1>4, <2>1, <2>2
  <1> QED  BY <1>3, <1>4

LEMMA StreamStep ==
  ASSUME TypeOK, Control, StreamIntact, [Next]_vars
  PROVE  StreamIntact'
  <1> USE DEF StreamIntact, NothingLost, DrainedWhenClosed, serveVars, queueVars, writerVars
  <1>1. /\ received \in Seq(Items) /\ accepted \in Seq(Items) /\ out \in Seq(Items)
        /\ wbuf \in Seq(Items) /\ pending \in Seq(Items)
    BY DEF TypeOK
  <1>2. ASSUME UNCHANGED <<conn, accepted, received, wbuf, pending>>
        PROVE  StreamIntact'
    BY <1>2
  <1>3. CASE ExecEnd
    BY <1>1, <1>2, <1>3, DeliverStream DEF ExecEnd
  <1>4. CASE Flush
    <2>1. conn # "closed" /\ ~async /\ WriteOut /\ UNCHANGED <<wbuf, pending, conn>>
      BY <1>4 DEF Flush, Control, Lifecycle
    <2> QED  BY <2>1, WriteOutStream
  <1>5. CASE Subscribe
    <2>1. CASE async
      BY <1>1, <1>5, <2>1, DeliverStream DEF Subscribe
    <2>2. CASE ~async
      <3>1. conn # "closed" /\ WriteOut /\ UNCHANGED <<wbuf, pending, conn>>
        BY <1>5, <2>2 DEF Subscribe, Control, Lifecycle
      <3> QED  BY <2>2, <3>1, WriteOutStream
    <2> QED  BY <2>1, <2>2
  <1>6. CASE Register \/ Message
    <2>1. async /\ DeliverLocked(<<items'>>) /\ UNCHANGED <<wbuf, received>>
      BY <1>6 DEF Register, Message, Control, Lifecycle
    <2>2. <<items'>> \in Seq(Items)
      BY <1>6 DEF Register, Message, TypeOK, Items
    <2> QED  BY <2>1, <2>2, DeliverStream
  <1>7. CASE CleanupClose
    <2>1. CASE async
      BY <1>7, <2>1 DEF CleanupClose
    <2>2. CASE ~async
      <3>1. wbuf = <<>> /\ pending = <<>>
        BY <2>2 DEF Control, Lifecycle
      <3>2. received \o <<>> \o <<>> = received
        BY <1>1, ConcatEmptySeq
      <3> QED  BY <1>7, <2>2, <3>1, <3>2 DEF CleanupClose
    <2> QED  BY <2>1, <2>2
  <1>8. CASE WriterSwap
    <2>1. wbuf = <<>>
      BY <1>8 DEF WriterSwap, Control, Lifecycle
    <2>2. received \o <<>> \o pending = received \o pending \o <<>>
      BY <1>1, ConcatSwapEmpty
    <2> QED  BY <1>8, <2>1, <2>2 DEF WriterSwap
  <1>9. CASE WriterSend
    <2>1. Append(received, Head(wbuf)) \o Tail(wbuf) = received \o wbuf
      BY <1>1, <1>9, MoveHead DEF WriterSend
    <2>2. conn' = "open" /\ accepted' = accepted /\ accepted' = received' \o wbuf' \o pending'
      BY <1>9, <2>1 DEF WriterSend
    <2>3. received' \in Seq(Items) /\ wbuf' \in Seq(Items) /\ pending' \in Seq(Items)
      BY TypeStep DEF TypeOK
    <2>4. Stream!Extends(received', accepted')
      <3>1. received' \o wbuf' \in Seq(Items) /\ accepted' \in Seq(Items)
        BY <2>3, TypeStep, ConcatProperties DEF TypeOK
      <3>2. Stream!Extends(received', received' \o wbuf')
        BY <2>3, ExtendsConcat
      <3>3. Stream!Extends(received' \o wbuf', received' \o wbuf' \o pending')
        BY <2>3, <3>1, ExtendsConcat
      <3> QED  BY <2>2, <2>3, <3>1, <3>2, <3>3, ExtendsTransitive
    <2> QED  BY <2>2, <2>4
  <1>10. CASE WriterFail
    BY <1>10 DEF WriterFail
  <1>11. CASE WriterEnd
    <2>1. wbuf = <<>> /\ pending = <<>>
      BY <1>11 DEF WriterEnd, Control, Lifecycle, NoLostWakeup
    <2>2. received \o <<>> \o <<>> = received
      BY <1>1, ConcatEmptySeq
    <2> QED  BY <1>11, <2>1, <2>2 DEF WriterEnd
  <1>12. CASE PeerLeave
    BY <1>12 DEF PeerLeave
  <1>13. CASE \/ \E q \in BOOLEAN : Answer(q)
              \/ Unsubscribe \/ ReadError \/ CleanupUnsub
              \/ WriterRecv \/ WriterNext \/ UNCHANGED vars
    BY <1>2, <1>13 DEF Answer, Unsubscribe, ReadError, CleanupUnsub, WriterRecv,
       WriterNext, vars
  <1> QED
    BY <1>3, <1>4, <1>5, <1>6, <1>7, <1>8, <1>9, <1>10, <1>11, <1>12, <1>13,
       NextSplit DEF NextCases

-----------------------------------------------------------------------------
LEMMA Invariance == IInv /\ [Next]_vars => IInv'
  <1> SUFFICES ASSUME IInv, [Next]_vars PROVE IInv'
    OBVIOUS
  <1>1. TypeOK /\ Control /\ ArraysApart /\ StreamIntact
    BY DEF IInv, Control
  <1>2. TypeOK' /\ Control' /\ StreamIntact'
    BY <1>1, TypeStep, ControlStep, StreamStep
  <1>3. ArraysApart'
    BY <1>1, ArraysStep DEF Control
  <1> QED  BY <1>2, <1>3 DEF IInv, Control

\* The variables keep their types and c.pending its limit.
THEOREM TypeCorrect == Spec => []TypeOK
  <1>1. IInv => TypeOK
    BY DEF IInv
  <1> QED  BY <1>1, InitIInv, Invariance, PTL DEF Spec

\* Whatever the interleaving of publishers, goroutine and writer, no wake-up of
\* the writer is lost.
THEOREM WakeupSafe == Spec => []NoLostWakeup
  <1>1. IInv => NoLostWakeup
    BY DEF IInv
  <1> QED  BY <1>1, InitIInv, Invariance, PTL DEF Spec

\* c.sig is never closed twice, nor signalled after it was closed.
THEOREM NeverPanics == Spec => []NoPanic
  <1>1. IInv => NoPanic
    BY DEF IInv
  <1> QED  BY <1>1, InitIInv, Invariance, PTL DEF Spec

\* The writer's array and the one appended to are always two.
THEOREM BuffersApart == Spec => []NoSharedArray
  <1>1. IInv => NoSharedArray
    BY DEF IInv, ArraysApart, NoSharedArray
  <1> QED  BY <1>1, InitIInv, Invariance, PTL DEF Spec

\* On a usable socket nothing accepted is lost, repeated or reordered, and a
\* socket the server closes has taken everything.
THEOREM OutputIntact == Spec => [](NothingLost /\ DrainedWhenClosed)
  <1>1. IInv => NothingLost /\ DrainedWhenClosed
    BY DEF IInv, StreamIntact
  <1> QED  BY <1>1, InitIInv, Invariance, PTL DEF Spec

-----------------------------------------------------------------------------
(* Refinement: every step is a step of OutStream or leaves it unchanged. *)

\* Output that grows while the socket stays as it is, is a transfer or, for a
\* peer that is gone, discarded.
LEMMA GrowIsStreamStep ==
  ASSUME IInv, IInv', conn # "closed", conn' = conn,
         Stream!Extends(accepted, accepted'), Stream!Extends(received, received'),
         conn # "open" => received' = received
  PROVE  Stream!Next
  <1>1. Stream!Extends(received', accepted')
    BY DEF IInv, StreamIntact
  <1>2. CASE conn = "open"
    BY <1>1, <1>2 DEF Stream!Next, Stream!Transfer, Link
  <1>3. CASE conn # "open"
    BY <1>3 DEF Stream!Next, Stream!Discard, Link
  <1> QED  BY <1>2, <1>3

\* A socket that stops being usable before its last byte is a broken link.
LEMMA BreakIsStreamStep ==
  ASSUME conn \in {"open", "gone", "cut"}, conn' \in {"gone", "cut"},
         UNCHANGED <<accepted, received>>
  PROVE  [Stream!Next]_(Stream!vars)
  <1>1. CASE conn = "open"
    BY <1>1 DEF Stream!Next, Stream!Break, Link
  <1>2. CASE conn # "open"
    BY <1>2 DEF Stream!vars, Link
  <1> QED  BY <1>1, <1>2

LEMMA IdleIsStreamStep ==
  ASSUME UNCHANGED <<accepted, received, conn>>
  PROVE  [Stream!Next]_(Stream!vars)
  BY DEF Stream!vars, Link

LEMMA DeliverIsStreamStep ==
  ASSUME IInv, IInv', NEW b \in Seq(Items), DeliverLocked(b), async, UNCHANGED received
  PROVE  [Stream!Next]_(Stream!vars)
  <1>1. CASE dead /\ UNCHANGED <<queueVars, conn, accepted>>
    BY <1>1, IdleIsStreamStep
  <1>2. ASSUME ~dead PROVE conn \in {"open", "gone", "cut"}
    BY <1>2 DEF IInv, TypeOK, Sockets, Lifecycle
  <1>3. CASE ~dead /\ Cut
    BY <1>2, <1>3, BreakIsStreamStep DEF Cut
  <1>4. CASE ~dead /\ Enqueue(b)
    <2>1. accepted' = accepted \o b /\ conn' = conn /\ conn # "closed"
      BY <1>2, <1>4 DEF Enqueue, AppendPending
    <2>2. Stream!Extends(accepted, accepted') /\ Stream!Extends(received, received')
      BY <2>1, ExtendsConcat, ExtendsReflexive DEF IInv, TypeOK
    <2> QED  BY <2>1, <2>2, GrowIsStreamStep
  <1> QED  BY <1>1, <1>3, <1>4 DEF DeliverLocked

LEMMA WriteOutIsStreamStep ==
  ASSUME IInv, IInv', WriteOut, conn # "closed", UNCHANGED conn
  PROVE  [Stream!Next]_(Stream!vars)
  <1>1. accepted \in Seq(Items) /\ received \in Seq(Items) /\ out \in Seq(Items)
    BY DEF IInv, TypeOK
  <1>2. Stream!Extends(accepted, accepted') /\ Stream!Extends(received, received')
    BY <1>1, ExtendsConcat, ExtendsReflexive DEF WriteOut
  <1> QED  BY <1>2, GrowIsStreamStep DEF WriteOut

LEMMA RefinementStep ==
  ASSUME IInv, IInv', [Next]_vars
  PROVE  [Stream!Next]_(Stream!vars)
  <1> USE DEF serveVars, queueVars, writerVars
  <1>1. TypeOK /\ Lifecycle /\ NoLostWakeup /\ StreamIntact /\ out \in Seq(Items)
    BY DEF IInv, TypeOK
  <1>2. CASE ExecEnd
    BY <1>1, <1>2, DeliverIsStreamStep, IdleIsStreamStep DEF ExecEnd
  <1>3. CASE Flush
    BY <1>1, <1>3, WriteOutIsStreamStep DEF Flush, Lifecycle
  <1>4. CASE Subscribe
    <2>1. CASE async
      BY <1>1, <1>4, <2>1, DeliverIsStreamStep DEF Subscribe
    <2>2. CASE ~async
      BY <1>1, <1>4, <2>2, WriteOutIsStreamStep DEF Subscribe, Lifecycle
    <2> QED  BY <2>1, <2>2
  <1>5. CASE Register \/ Message
    <2>1. async /\ DeliverLocked(<<items'>>) /\ UNCHANGED received
      BY <1>1, <1>5 DEF Register, Message, Lifecycle
    <2>2. <<items'>> \in Seq(Items)
      BY <1>1, <1>5 DEF Register, Message, TypeOK, Items
    <2> QED  BY <2>1, <2>2, DeliverIsStreamStep
  <1>6. ASSUME conn = "open", conn' = "closed", wbuf = <<>>, pending = <<>>,
               UNCHANGED <<accepted, received>>
        PROVE  Stream!Next
    <2>1. accepted = received
      <3>1. received \o <<>> = received
        BY <1>1, ConcatEmptySeq DEF TypeOK
      <3> QED  BY <1>1, <1>6, <3>1 DEF StreamIntact, NothingLost
    <2> QED  BY <1>6, <2>1 DEF Stream!Next, Stream!Close, Link
  <1>7. CASE CleanupClose
    <2>1. CASE async
      BY <1>7, <2>1, IdleIsStreamStep DEF CleanupClose
    <2>2. CASE ~async
      <3>1. wbuf = <<>> /\ pending = <<>> /\ conn # "closed" /\ conn \in Sockets
        BY <1>1, <1>7, <2>2 DEF CleanupClose, Lifecycle, TypeOK
      <3>2. CASE conn = "open"
        BY <1>6, <1>7, <2>2, <3>1, <3>2 DEF CleanupClose
      <3>3. CASE conn # "open"
        BY <1>7, <2>2, <3>1, <3>3, BreakIsStreamStep DEF CleanupClose, Sockets
      <3> QED  BY <3>2, <3>3
    <2> QED  BY <2>1, <2>2
  <1>8. CASE WriterSend
    <2>1. Head(wbuf) \in Items
      BY <1>1, <1>8, HeadTailProperties DEF WriterSend, TypeOK
    <2>2. Stream!Extends(received, received')
      BY <1>1, <1>8, <2>1, AppendProperties, LenProperties DEF WriterSend, TypeOK, Stream!Extends
    <2>3. Stream!Extends(accepted, accepted')
      BY <1>1, <1>8, ExtendsReflexive DEF WriterSend, TypeOK
    <2> QED  BY <1>8, <2>2, <2>3, GrowIsStreamStep DEF WriterSend
  <1>9. CASE WriterFail
    <2>1. conn # "closed"
      BY <1>1, <1>9 DEF WriterFail, Lifecycle
    <2> QED  BY <1>1, <1>9, <2>1, BreakIsStreamStep DEF WriterFail, TypeOK, Sockets
  <1>10. CASE WriterEnd
    <2>1. wbuf = <<>> /\ pending = <<>>
      BY <1>1, <1>10 DEF WriterEnd, Lifecycle, NoLostWakeup
    <2>2. CASE conn = "open"
      BY <1>6, <1>10, <2>1, <2>2 DEF WriterEnd
    <2>3. CASE conn # "open"
      <3>1. conn # "closed"
        BY <1>1, <1>10 DEF WriterEnd, Lifecycle
      <3> QED  BY <1>1, <1>10, <2>3, <3>1, BreakIsStreamStep DEF WriterEnd, TypeOK, Sockets
    <2> QED  BY <2>2, <2>3
  <1>11. CASE PeerLeave
    BY <1>11, BreakIsStreamStep DEF PeerLeave
  <1>12. CASE \/ \E q \in BOOLEAN : Answer(q)
              \/ Unsubscribe \/ ReadError \/ CleanupUnsub
              \/ WriterRecv \/ WriterSwap \/ WriterNext \/ UNCHANGED vars
    BY <1>12, IdleIsStreamStep DEF Answer, Unsubscribe, ReadError, CleanupUnsub,
       WriterRecv, WriterSwap, WriterNext, vars
  <1> QED
    BY <1>2, <1>3, <1>4, <1>5, <1>7, <1>8, <1>9, <1>10, <1>11, <1>12, NextSplit
    DEF NextCases

\* The output path, with its goroutines, lock, channel and buffers, implements
\* the stream its peer is promised.
THEOREM OutputImplementsStream == Spec => ImplementsStream
  <1>1. Init => Stream!Init
    BY DEF Init, Stream!Init, Link
  <1>2. Spec => []IInv
    BY InitIInv, Invariance, PTL DEF Spec
  <1>3. IInv /\ IInv' /\ [Next]_vars => [Stream!Next]_(Stream!vars)
    BY RefinementStep
  <1> QED  BY <1>1, <1>2, <1>3, PTL DEF Spec, ImplementsStream, Stream!Spec

\* The buffers of deliverLocked, writer and cleanup are apart and complete, for every
\* limit of the pending output.
THEOREM BuffersSafe == Spec => []BuffersIntact
  <1>1. TypeOK /\ NoSharedArray /\ (NothingLost /\ DrainedWhenClosed) => BuffersIntact
    BY DEF BuffersIntact
  <1> QED  BY <1>1, TypeCorrect, BuffersApart, OutputIntact, PTL
=============================================================================
