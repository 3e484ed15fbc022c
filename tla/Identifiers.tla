----------------------------- MODULE Identifiers -----------------------------
(***************************************************************************)
(* newID of the Go issue tracker (src/tracker/impl/go-1/util.go): ids that *)
(* begin with the time in milliseconds and a counter, made in order by one *)
(* process whatever the clock does.  The lists of comments, history and    *)
(* deliveries, and the queues of the dispatcher, are ordered by them.      *)
(*                                                                         *)
(* An id is the pair of its time and counter; the random part is left out. *)
(***************************************************************************)
EXTENDS Naturals

CONSTANTS
  SeqMax,   \* 0xFFF in the code
  MaxNow,   \* the clock; bounds the model
  MaxIds    \* ids made; bounds the model

ASSUME IdsAssumption == SeqMax \in Nat /\ MaxNow \in Nat \ {0} /\ MaxIds \in Nat

VARIABLES
  now,      \* time.Now().UnixMilli(), which may be set back
  idLastMs, idSeq,
  lastId,   \* history: the id made last by this process
  ids,      \* history: how many it has made
  risen     \* history: each was greater than the one before

idVars == <<now, idLastMs, idSeq, lastId, ids, risen>>

IdsInit ==
  /\ now = 1
  /\ idLastMs = 0 /\ idSeq = 0
  /\ lastId = <<0, 0>> /\ ids = 0 /\ risen = TRUE

IdLess(a, b) == a[1] < b[1] \/ (a[1] = b[1] /\ a[2] < b[2])

\* Fault: the counter wraps around without a step of the time.
NextSeqWraps == <<idLastMs, (idSeq + 1) % (SeqMax + 1)>>

\* The counter is full: the time runs ahead of the clock.
NextSeq == IF idSeq + 1 > SeqMax THEN <<idLastMs + 1, 0>> ELSE <<idLastMs, idSeq + 1>>

NewID ==
  LET id == IF now <= idLastMs THEN NextSeq ELSE <<now, 0>> IN
  /\ ids < MaxIds
  /\ idLastMs' = id[1] /\ idSeq' = id[2]
  /\ lastId' = id /\ ids' = ids + 1
  /\ risen' = (risen /\ IdLess(lastId, id))
  /\ UNCHANGED now

\* The clock goes on, or is set back.
Clock == now' \in 1..MaxNow /\ UNCHANGED <<idLastMs, idSeq, lastId, ids, risen>>

IdsNext == NewID \/ Clock

IdsSpec == IdsInit /\ [][IdsNext]_idVars

-----------------------------------------------------------------------------

\* newID (util.go:32): the ids of a process rise, although its clock may be set back and more
\* ids may be made in a millisecond than the counter can tell apart; and an id runs ahead of
\* the clocks seen so far only by as many milliseconds as counters have been used up.
IdsRise == risen /\ (SeqMax + 1) * idLastMs + idSeq <= (SeqMax + 1) * MaxNow + ids

\* The inductive strengthening: the two words of newID are the id made last.
IdsInv ==
  /\ now \in 1..MaxNow /\ idLastMs \in Nat /\ idSeq \in 0..SeqMax /\ ids \in Nat
  /\ lastId = <<idLastMs, idSeq>>
  /\ IdsRise
=============================================================================
