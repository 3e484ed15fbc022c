--------------------------- MODULE KeyspaceProofs ---------------------------
(***************************************************************************)
(* Theorems about Keyspace for any number of clients, shards and keys: the *)
(* lock order, and that commands are atomic.                               *)
(*                                                                         *)
(* That a command is one step of AtomicStore rests on its locks: while it  *)
(* has work left it holds the shards of all its keys (Protocol), and no    *)
(* other command holds one of them (Exclusive).                            *)
(***************************************************************************)
EXTENDS Keyspace, SequenceTheorems, FiniteSetTheorems, TLAPS

\* The initial state satisfies the inductive invariant.
LEMMA InitIInv == Init => IInv
  BY DEF Init, IInv, TypeOK, HeldBelow, NothingHeld

\* The shards a command needs exist.
LEMMA NeededShards == \A m \in Commands : Needed(m) \subseteq Shards
<1> SUFFICES ASSUME NEW m \in Commands PROVE Needed(m) \subseteq Shards
  OBVIOUS
<1>1. NamedBy(m) \subseteq Keys
  <2>1. m.keys \in Seq(Keys)
    BY CommandAssumption
  <2>2. QED
    BY <2>1 DEF NamedBy
<1>2. QED
  BY <1>1, ShardAssumption DEF Needed, Shards

\* Every step keeps the inductive invariant.
LEMMA NextIInv == IInv /\ [Next]_vars => IInv'
<1>1. SUFFICES ASSUME IInv, [Next]_vars PROVE IInv'
  OBVIOUS
<1> USE <1>1 DEF IInv
<1>2. ASSUME NEW c \in Clients, NEW m \in Commands, Start(c, m) PROVE IInv'
  <2> USE <1>2, NeededShards DEF Start
  <2>1. TypeOK'
    BY DEF TypeOK, NothingHeld
  <2>2. HeldBelow'
    BY DEF TypeOK, HeldBelow, NothingHeld
  <2>3. NothingHeld'
    BY DEF TypeOK, NothingHeld
  <2>4. QED
    BY <2>1, <2>2, <2>3
<1>3. ASSUME NEW c \in Clients, Lock(c) PROVE IInv'
  <2>1. PICK s \in Shards :
          /\ NextLock(c, s)
          /\ held' = [held EXCEPT ![c] = @ \cup {s}]
          /\ pc' = [pc EXCEPT ![c] = IF held[c] \cup {s} = locks[c] THEN "work" ELSE @]
    BY <1>3 DEF Lock
  <2> USE <1>3, <2>1 DEF Lock
  <2>2. TypeOK'
    BY DEF TypeOK, NextLock
  <2>3. HeldBelow'
    <3>1. SUFFICES ASSUME NEW d \in Clients, pc'[d] = "lock",
                          NEW t \in held'[d], NEW u \in locks'[d] \ held'[d]
                   PROVE  t < u
      BY DEF HeldBelow
    <3>2. CASE d # c
      BY <3>1, <3>2 DEF TypeOK, HeldBelow
    <3>3. CASE d = c
      <4>1. u \in locks[c] \ held[c] /\ u # s /\ u \in Nat /\ s \in Nat
        BY <3>1, <3>3 DEF TypeOK, Shards
      <4>2. s < u
        BY <4>1 DEF NextLock
      <4>3. CASE t = s
        BY <4>2, <4>3
      <4>4. CASE t \in held[c]
        BY <4>1, <4>4, <3>3 DEF HeldBelow
      <4>5. QED
        BY <3>1, <3>3, <4>3, <4>4 DEF TypeOK
    <3>4. QED
      BY <3>2, <3>3
  <2>4. NothingHeld'
    BY DEF TypeOK, NothingHeld
  <2>5. QED
    BY <2>2, <2>3, <2>4
<1>4. ASSUME NEW c \in Clients, Work(c) PROVE IInv'
  <2> USE <1>4 DEF Work
  <2>1. DOMAIN db' = Keys /\ DOMAIN reply' = Clients
    BY DEF TypeOK, Cleared, WorkOnKey
  <2>2. TypeOK'
    BY <2>1 DEF TypeOK
  <2>3. HeldBelow' /\ NothingHeld'
    BY DEF HeldBelow, NothingHeld
  <2>4. QED
    BY <2>2, <2>3
<1>5. ASSUME NEW c \in Clients, Unlock(c) PROVE IInv'
  <2> USE <1>5 DEF Unlock
  <2>1. TypeOK'
    BY DEF TypeOK
  <2>2. HeldBelow'
    BY DEF TypeOK, HeldBelow
  <2>3. NothingHeld'
    BY DEF TypeOK, NothingHeld
  <2>4. QED
    BY <2>1, <2>2, <2>3
<1>6. ASSUME NEW c \in Clients, Return(c) \/ ScanReturn(c) PROVE IInv'
  <2>1. held[c] = {} /\ Reset(c) /\ UNCHANGED <<held, db>>
    BY <1>6 DEF Return, ScanReturn, NothingHeld
  <2>2. \A d \in Clients : held'[d] \subseteq locks'[d]
    BY <2>1 DEF Reset, TypeOK
  <2>3. TypeOK'
    BY <2>1, <2>2 DEF Reset, TypeOK
  <2>4. HeldBelow' /\ NothingHeld'
    BY <2>1 DEF Reset, TypeOK, HeldBelow, NothingHeld
  <2>5. QED
    BY <2>3, <2>4
<1>7. ASSUME NEW c \in Clients, Scan(c) PROVE IInv'
  BY <1>7 DEF Scan, TypeOK, HeldBelow, NothingHeld
<1>8. ASSUME NEW k \in Keys, Lose(k) PROVE IInv'
  BY <1>8 DEF Lose, TypeOK, HeldBelow, NothingHeld
<1>9. CASE UNCHANGED vars
  BY <1>9 DEF vars, TypeOK, HeldBelow, NothingHeld
<1>10. QED
  BY <1>1, <1>2, <1>3, <1>4, <1>5, <1>6, <1>7, <1>8, <1>9 DEF Next, Run

\* The inductive invariant holds in every reachable state.
LEMMA Inductive == Spec => []IInv
  BY InitIInv, NextIInv, PTL DEF Spec

\* The variables of the lock protocol keep their types; in particular no
\* command returns with a mutex that it still holds.
THEOREM TypeCorrect == Spec => []TypeOK
  BY Inductive, PTL DEF IInv

\* lockKeys keeps the lock order: for any number of clients and shards, and
\* whatever the order of the keys, a command that waits for a shard holds
\* only lower ones.
THEOREM LocksOrdered == Spec => []WaitsUpward
<1>1. IInv => WaitsUpward
  BY DEF IInv, WaitsUpward, HeldBelow, NextLock
<1>2. QED
  BY <1>1, Inductive, PTL

\* lockKeys, for any number of clients, shards and keys: needed shards only, upwards.
THEOREM LocksSafe == Spec => []LocksSound
<1>1. TypeOK /\ WaitsUpward => LocksSound
  BY DEF LocksSound
<1>2. QED
  BY <1>1, TypeCorrect, LocksOrdered, PTL

-----------------------------------------------------------------------------
(* Atomicity.                                                              *)

Values == {m.val : m \in Commands} \cup {NoValue}

\* No shard has two holders.
Exclusive == \A c, d \in Clients : c # d => held[c] \cap held[d] = {}

\* What command m has answered after n keys.
Answering(m, n, r) ==
  /\ m.cmd = "mget" => r \in Seq(Values) /\ Len(r) = n
  /\ m.cmd \in {"del", "exists"} => \E x \in Nat : r = <<x>>

\* A command that has work left holds all that it needs.
Protocol == \A c \in Clients :
  /\ pc[c] = "idle" => op[c] = NoCommand /\ ndone[c] = 0
  /\ pc[c] = "scan" => op[c] \in Commands /\ op[c].cmd = "keys"
  /\ pc[c] \in {"lock", "work"} => /\ op[c] \in Commands /\ op[c].cmd # "keys"
                                  /\ locks[c] = Needed(op[c])
  /\ pc[c] = "lock" => ndone[c] = 0 /\ reply[c] = EmptyReply(op[c])
  /\ pc[c] = "work" => /\ ndone[c] \in 0..Steps(op[c])
                       /\ ndone[c] < Steps(op[c]) => held[c] = locks[c]
                       /\ Answering(op[c], ndone[c], reply[c])

StoreInv == IInv /\ db \in [Keys -> Values] /\ Exclusive /\ Protocol

\* The initial state satisfies it.
LEMMA InitStore == Init => StoreInv
<1>1. ASSUME Init PROVE db \in [Keys -> Values] /\ Exclusive /\ Protocol
  BY <1>1 DEF Init, Values, Exclusive, Protocol
<1> QED BY <1>1, InitIInv DEF StoreInv

\* A command's shards exist, and it works at least once.
LEMMA CommandFacts ==
  ASSUME NEW m \in Commands
  PROVE  /\ m.keys \in Seq(Keys)
         /\ m.cmd \in CommandNames
         /\ m.cmd \in {"flushall", "keys"} <=> m.keys = <<>>
         /\ \A i \in 1..Len(m.keys) : m.keys[i] \in Keys /\ m.keys[i] \in NamedBy(m)
         /\ \A k \in NamedBy(m) : k \in Keys
         /\ Steps(m) \in Nat
         /\ Needed(m) \subseteq Shards
<1>1. m.keys \in Seq(Keys) /\ m.cmd \in CommandNames
  BY CommandAssumption
<1> QED BY <1>1, CommandAssumption, ShardAssumption, NeededShards DEF NamedBy, Steps

\* Every step keeps it.
LEMMA NextStore == StoreInv /\ [Next]_vars => StoreInv'
<1>1. SUFFICES ASSUME StoreInv, [Next]_vars
               PROVE  (db \in [Keys -> Values] /\ Exclusive /\ Protocol)'
  BY NextIInv DEF StoreInv
<1> USE <1>1 DEF StoreInv, IInv, TypeOK
<1>2. ASSUME NEW c \in Clients, NEW m \in Commands, Start(c, m)
      PROVE  (db \in [Keys -> Values] /\ Exclusive /\ Protocol)'
  <2>1. m.cmd = "keys" => EmptyReply(m) = <<{}>>
    BY DEF EmptyReply
  <2>2. Protocol'
    BY <1>2 DEF Start, Protocol
  <2> QED BY <1>2, <2>2 DEF Start, Exclusive
<1>3. ASSUME NEW c \in Clients, Lock(c)
      PROVE  (db \in [Keys -> Values] /\ Exclusive /\ Protocol)'
  <2>1. PICK s \in Shards :
          /\ NextLock(c, s) /\ Free(s)
          /\ held' = [held EXCEPT ![c] = @ \cup {s}]
          /\ pc' = [pc EXCEPT ![c] = IF held[c] \cup {s} = locks[c] THEN "work" ELSE @]
    BY <1>3 DEF Lock
  <2>2. Exclusive'
    BY <2>1 DEF Exclusive, Free
  <2>3. op[c] \in Commands /\ ndone[c] = 0 /\ reply[c] = EmptyReply(op[c])
    BY <1>3 DEF Lock, Protocol
  <2>4. Steps(op[c]) \in Nat /\ Answering(op[c], 0, EmptyReply(op[c]))
    BY <2>3, CommandFacts, EmptySeq DEF Answering, EmptyReply
  <2>5. ASSUME NEW d \in Clients PROVE (Protocol!(d))'
    BY <1>3, <2>1, <2>3, <2>4 DEF Lock, Protocol
  <2> QED BY <1>3, <2>2, <2>5 DEF Lock, Protocol
<1>4. ASSUME NEW c \in Clients, Work(c)
      PROVE  (db \in [Keys -> Values] /\ Exclusive /\ Protocol)'
  <2> USE <1>4 DEF Work
  <2> DEFINE m == op[c]
             n == ndone[c]
             k == m.keys[n + 1]
  <2>1. m \in Commands /\ m.cmd # "keys" /\ n \in Nat /\ n < Steps(m) /\ Steps(m) \in Nat
        /\ Answering(m, n, reply[c])
    BY CommandFacts DEF Protocol
  <2>2. Exclusive'
    BY DEF Exclusive
  <2>3. NoValue \in Values /\ m.val \in Values
    BY <2>1 DEF Values
  <2>4. CASE m.cmd = "flushall"
    <3>1. db' \in [Keys -> Values] /\ reply' = reply
      BY <2>3, <2>4 DEF Cleared
    <3>2. Answering(m, n + 1, reply[c])
      BY <2>4 DEF Answering
    <3> QED BY <2>1, <2>2, <3>1, <3>2 DEF Protocol
  <2>5. CASE m.cmd # "flushall"
    <3>1. WorkOnKey(c, m, k)
      BY <2>5
    <3>2. k \in Keys
      BY <2>1, <2>5, CommandFacts DEF Steps
    <3>3. db' \in [Keys -> Values] /\ db[k] \in Values
      <4>1. db' = db \/ db' = [db EXCEPT ![k] = m.val] \/ db' = [db EXCEPT ![k] = NoValue]
        BY <3>1 DEF WorkOnKey
      <4> QED BY <2>3, <3>2, <4>1
    <3>4. DOMAIN reply' = Clients /\ \A d \in Clients : d # c => reply'[d] = reply[d]
      BY <3>1 DEF WorkOnKey
    <3>5. Answering(m, n + 1, reply'[c])
      <4>1. CASE m.cmd = "mget"
        <5>1. reply'[c] = Append(reply[c], db[k]) /\ reply[c] \in Seq(Values) /\ Len(reply[c]) = n
          BY <2>1, <3>1, <4>1 DEF WorkOnKey, Answering
        <5> QED BY <3>3, <4>1, <5>1, AppendProperties DEF Answering
      <4>2. CASE m.cmd \in {"del", "exists"}
        <5>1. PICK x \in Nat : reply[c] = <<x>>
          BY <2>1, <4>2 DEF Answering
        <5>2. reply'[c] = <<x>> \/ reply'[c] = <<x + 1>>
          BY <3>1, <4>2, <5>1 DEF WorkOnKey
        <5> QED BY <4>2, <5>2 DEF Answering
      <4> QED BY <4>1, <4>2 DEF Answering
    <3>6. Protocol'
      BY <2>1, <3>4, <3>5 DEF Protocol
    <3> QED BY <2>2, <3>3, <3>6
  <2> QED BY <2>4, <2>5
<1>5. ASSUME NEW c \in Clients, Unlock(c)
      PROVE  (db \in [Keys -> Values] /\ Exclusive /\ Protocol)'
  <2>1. Protocol'
    BY <1>5 DEF Unlock, Protocol, Worked
  <2> QED BY <1>5, <2>1 DEF Unlock, Exclusive
<1>6. ASSUME NEW c \in Clients, Return(c) \/ ScanReturn(c)
      PROVE  (db \in [Keys -> Values] /\ Exclusive /\ Protocol)'
  <2>1. Protocol'
    BY <1>6 DEF Return, ScanReturn, Reset, Protocol
  <2> QED BY <1>6, <2>1 DEF Return, ScanReturn, Exclusive
<1>7. ASSUME NEW c \in Clients, Scan(c)
      PROVE  (db \in [Keys -> Values] /\ Exclusive /\ Protocol)'
  <2>1. Protocol'
    BY <1>7 DEF Scan, Protocol
  <2> QED BY <1>7, <2>1 DEF Scan, Exclusive
<1>8. ASSUME NEW k \in Keys, Lose(k)
      PROVE  (db \in [Keys -> Values] /\ Exclusive /\ Protocol)'
  BY <1>8 DEF Lose, Exclusive, Protocol, Values
<1>9. CASE UNCHANGED vars
  BY <1>9 DEF vars, Exclusive, Protocol
<1> QED BY <1>2, <1>3, <1>4, <1>5, <1>6, <1>7, <1>8, <1>9 DEF Next, Run

\* It holds in every reachable state.
LEMMA StoreReached == Spec => []StoreInv
  BY InitStore, NextStore, PTL DEF Spec

-----------------------------------------------------------------------------
(* The store that the mapping shows.                                       *)

\* What client c, which has k still to write, will have written there.
Wrote(c) == IF op[c].cmd = "mset" THEN op[c].val ELSE NoValue

\* A client holds the shards of the keys that it has still to work on.
HoldsRest == \A c \in Clients :
  /\ \A k \in Keys : c \in Writing(k) => ShardOf[k] \in held[c]
  /\ pc[c] = "work" /\ op[c].cmd # "flushall" =>
       \A i \in Rest(c) : op[c].keys[i] \in Keys /\ ShardOf[op[c].keys[i]] \in held[c]

\* A key that is still to be written has one writer, and the value it writes.
OneWriter == \A k \in Keys :
  /\ Writing(k) = {} => AtomicDb[k] = db[k]
  /\ \A c \in Writing(k) : Writing(k) = {c} /\ AtomicDb[k] = Wrote(c)

\* Both follow from the invariant, now and after the step.
LEMMA StoreFacts == StoreInv => HoldsRest /\ OneWriter
<1> SUFFICES ASSUME StoreInv PROVE HoldsRest /\ OneWriter
  OBVIOUS
<1> USE DEF StoreInv, IInv, TypeOK
<1>1. ASSUME NEW c \in Clients, pc[c] = "work", NEW i \in Rest(c)
      PROVE  /\ op[c] \in Commands /\ ndone[c] \in Nat /\ Steps(op[c]) \in Nat
             /\ held[c] = Needed(op[c]) /\ i \in 1..Steps(op[c])
  <2>1. op[c] \in Commands /\ ndone[c] \in Nat
    BY <1>1 DEF Protocol
  <2>2. Steps(op[c]) \in Nat
    BY <2>1, CommandFacts
  <2> QED BY <1>1, <2>1, <2>2 DEF Protocol, Rest
<1>2. ASSUME NEW c \in Clients, pc[c] = "work", op[c].cmd # "flushall", NEW i \in Rest(c)
      PROVE  op[c].keys[i] \in Keys /\ ShardOf[op[c].keys[i]] \in held[c]
  BY <1>1, <1>2, CommandFacts DEF Steps, Needed
<1>3. ASSUME NEW c \in Clients, NEW k \in Keys, c \in Writing(k)
      PROVE  ShardOf[k] \in held[c]
  <2>1. pc[c] = "work"
    BY <1>3 DEF Writing
  <2>2. CASE op[c].cmd = "flushall" /\ ShardOf[k] \in Rest(c)
    BY <1>1, <2>1, <2>2, ShardAssumption DEF Needed, Shards
  <2>3. CASE op[c].cmd \in {"mset", "del"} /\ \E i \in Rest(c) : op[c].keys[i] = k
    BY <1>2, <2>1, <2>3
  <2> QED BY <1>3, <2>2, <2>3 DEF Writing
<1>4. HoldsRest
  BY <1>2, <1>3 DEF HoldsRest
<1>5. ASSUME NEW k \in Keys, NEW c \in Writing(k) PROVE Writing(k) = {c}
  BY <1>3, <1>5 DEF Exclusive, Writing
<1>6. ASSUME NEW k \in Keys, NEW c \in Writing(k) PROVE AtomicDb[k] = Wrote(c)
  <2>1. (CHOOSE d \in Writing(k) : TRUE) = c
    BY <1>5
  <2> QED BY <1>6, <2>1 DEF AtomicDb, Wrote
<1>7. ASSUME NEW k \in Keys, Writing(k) = {} PROVE AtomicDb[k] = db[k]
  BY <1>7 DEF AtomicDb
<1> QED BY <1>4, <1>5, <1>6, <1>7 DEF OneWriter

\* The same of the next state.
LEMMA StoreFactsNext == StoreInv' => HoldsRest' /\ OneWriter'
  BY StoreFacts, PTL

\* Nothing that the mapping shows of client c changes.
Same(c) == UNCHANGED <<pc[c], op[c], ndone[c], reply[c]>>

\* The map stays when only client c moves, and where it stops being a key's
\* writer it has written it.
LEMMA DbKept ==
  ASSUME StoreInv, StoreInv', NEW c \in Clients, op'[c] = op[c] \/ (\A k \in Keys : c \notin Writing(k)'),
         \A d \in Clients : d # c => Same(d),
         \A k \in Keys : /\ c \in Writing(k)' => c \in Writing(k)
                         /\ c \in Writing(k) /\ c \notin Writing(k)' => db'[k] = Wrote(c)
                         /\ c \notin Writing(k) => db'[k] = db[k]
  PROVE  AtomicDb' = AtomicDb
<1>1. ASSUME NEW k \in Keys PROVE AtomicDb'[k] = AtomicDb[k]
  <2>1. \A d \in Clients : d # c => (d \in Writing(k)' <=> d \in Writing(k))
    BY DEF Same, Writing, Rest
  <2>2. Writing(k) \subseteq Clients /\ Writing(k)' \subseteq Clients
    BY DEF Writing
  <2>3. CASE c \in Writing(k)'
    <3>1. Wrote(c)' = Wrote(c)
      BY <2>3 DEF Wrote
    <3> QED BY <2>3, <3>1, StoreFacts, StoreFactsNext DEF OneWriter
  <2>4. CASE c \in Writing(k) /\ c \notin Writing(k)'
    <3>1. Writing(k) = {c} /\ AtomicDb[k] = Wrote(c)
      BY <2>4, StoreFacts DEF OneWriter
    <3>2. Writing(k)' = {}
      BY <2>1, <2>2, <2>4, <3>1
    <3> QED BY <2>4, <3>1, <3>2, StoreFactsNext DEF OneWriter
  <2>5. CASE c \notin Writing(k) /\ c \notin Writing(k)'
    <3>1. Writing(k)' = Writing(k)
      <4>1. \A d : d \in Writing(k)' <=> d \in Writing(k)
        BY <2>1, <2>2, <2>5
      <4> QED BY <4>1
    <3>2. CASE Writing(k) = {}
      BY <2>5, <3>1, <3>2, StoreFacts, StoreFactsNext DEF OneWriter
    <3>3. CASE \E d \in Writing(k) : TRUE
      <4>1. PICK d \in Writing(k) : TRUE
        BY <3>3
      <4>2. d # c /\ d \in Clients
        BY <2>2, <2>5
      <4>3. Wrote(d)' = Wrote(d)
        BY <4>2 DEF Same, Wrote
      <4> QED BY <3>1, <4>1, <4>3, StoreFacts, StoreFactsNext DEF OneWriter
    <3> QED BY <3>2, <3>3
  <2> QED BY <2>3, <2>4, <2>5
<1> QED BY <1>1 DEF AtomicDb

\* The answer of a client stays when the keys it has still to read do.
LEMMA ReplyKept ==
  ASSUME NEW d \in Clients, Same(d),
         op[d].cmd # "flushall" => \A i \in Rest(d) : db'[op[d].keys[i]] = db[op[d].keys[i]]
  PROVE  AtomicReply(d)' = AtomicReply(d)
<1>1. Rest(d)' = Rest(d) /\ op'[d] = op[d] /\ reply'[d] = reply[d]
  BY DEF Same, Rest
<1>2. CASE op[d].cmd = "mget"
  BY <1>1, <1>2 DEF AtomicReply
<1>3. CASE op[d].cmd \in {"del", "exists"}
  <2>1. {i \in Rest(d) : db'[op[d].keys[i]] # NoValue} = {i \in Rest(d) : db[op[d].keys[i]] # NoValue}
    BY <1>3
  <2> QED BY <1>1, <1>3, <2>1 DEF AtomicReply
<1>4. CASE op[d].cmd \notin {"mget", "del", "exists"}
  BY <1>1, <1>4 DEF AtomicReply
<1> QED BY <1>2, <1>3, <1>4

\* A step of the mapping's variables: nothing changes.
Stutter == UNCHANGED <<AtomicDb, AtomicCall, AtomicStage, AtomicAnswer>>

\* Steps that leave the map and every answer alone.
LEMMA Quiet ==
  ASSUME StoreInv, StoreInv', NEW c \in Clients, UNCHANGED db,
         \A d \in Clients : d # c => Same(d),
         Same(c) \/ (\A k \in Keys : c \notin Writing(k) /\ c \notin Writing(k)')
  PROVE  /\ AtomicDb' = AtomicDb
         /\ \A d \in Clients : d # c \/ Same(c) => AtomicReply(d)' = AtomicReply(d)
<1>1. Same(c) => \A k \in Keys : c \in Writing(k)' <=> c \in Writing(k)
  BY DEF Same, Writing, Rest
<1>2. AtomicDb' = AtomicDb
  BY <1>1, DbKept DEF Same
<1> QED BY <1>2, ReplyKept

\* The mapping, client by client.
LEMMA AtomicAt == \A c \in Clients :
  /\ AtomicCall[c] = IF pc[c] = "scan" THEN NoCommand ELSE op[c]
  /\ AtomicAnswer[c] = IF pc[c] = "work" THEN AtomicReply(c) ELSE <<>>
  /\ AtomicStage[c] = IF pc[c] = "lock" THEN "called"
                      ELSE IF pc[c] = "work" THEN "answered" ELSE "idle"
  BY DEF AtomicCall, AtomicAnswer, AtomicStage

\* The same of the next state.
LEMMA AtomicAtNext == \A c \in Clients :
  /\ AtomicCall'[c] = IF pc'[c] = "scan" THEN NoCommand ELSE op'[c]
  /\ AtomicAnswer'[c] = IF pc'[c] = "work" THEN AtomicReply(c)' ELSE <<>>
  /\ AtomicStage'[c] = IF pc'[c] = "lock" THEN "called"
                      ELSE IF pc'[c] = "work" THEN "answered" ELSE "idle"
  BY DEF AtomicCall, AtomicAnswer, AtomicStage

\* They are functions on the clients.
LEMMA AtomicShape ==
  /\ AtomicCall = [d \in Clients |-> AtomicCall[d]]
  /\ AtomicAnswer = [d \in Clients |-> AtomicAnswer[d]]
  /\ AtomicStage = [d \in Clients |-> AtomicStage[d]]
  /\ AtomicCall' = [d \in Clients |-> AtomicCall'[d]]
  /\ AtomicAnswer' = [d \in Clients |-> AtomicAnswer'[d]]
  /\ AtomicStage' = [d \in Clients |-> AtomicStage'[d]]
  /\ AtomicDb = [k \in Keys |-> AtomicDb[k]]
  /\ AtomicDb' = [k \in Keys |-> AtomicDb'[k]]
  BY DEF AtomicCall, AtomicAnswer, AtomicStage, AtomicDb

\* What the other clients show stays.
LEMMA OthersKept ==
  ASSUME NEW d \in Clients, Same(d), pc[d] = "work" => AtomicReply(d)' = AtomicReply(d)
  PROVE  /\ AtomicCall'[d] = AtomicCall[d]
         /\ AtomicAnswer'[d] = AtomicAnswer[d]
         /\ AtomicStage'[d] = AtomicStage[d]
  BY AtomicAt, AtomicAtNext DEF Same

-----------------------------------------------------------------------------
(* Every step is one of AtomicStore, or none.                              *)

\* The call of a command; a scan's call shows nothing.
LEMMA StartStep ==
  ASSUME StoreInv, StoreInv', NEW c \in Clients, NEW m \in Commands, Start(c, m)
  PROVE  Atomic!Call(c, m) \/ Stutter
<1> USE DEF StoreInv, IInv, TypeOK
<1>1. /\ pc[c] = "idle" /\ pc'[c] \in {"lock", "scan"} /\ op[c] = NoCommand /\ op'[c] = m
      /\ pc'[c] = "scan" <=> m.cmd = "keys"
      /\ \A d \in Clients : d # c => Same(d)
      /\ UNCHANGED db
  BY DEF Start, Same, Protocol
<1>2. \A k \in Keys : c \notin Writing(k) /\ c \notin Writing(k)'
  BY <1>1 DEF Writing
<1>3. AtomicDb' = AtomicDb
  BY <1>1, <1>2, Quiet
<1>4. \A d \in Clients : d # c => /\ AtomicCall'[d] = AtomicCall[d]
                                  /\ AtomicAnswer'[d] = AtomicAnswer[d]
                                  /\ AtomicStage'[d] = AtomicStage[d]
  BY <1>1, <1>2, Quiet, OthersKept
<1>5. /\ AtomicCall[c] = NoCommand /\ AtomicStage[c] = "idle"
      /\ AtomicAnswer[c] = <<>> /\ AtomicAnswer'[c] = <<>>
  BY <1>1, AtomicAt, AtomicAtNext
<1>6. UNCHANGED AtomicAnswer
  BY <1>4, <1>5, AtomicShape
<1>7. CASE m.cmd = "keys"
  <2>1. AtomicCall'[c] = NoCommand /\ AtomicStage'[c] = "idle"
    BY <1>1, <1>7, AtomicAtNext
  <2>2. UNCHANGED <<AtomicCall, AtomicStage>>
    BY <1>4, <1>5, <2>1, AtomicShape
  <2> QED BY <1>3, <1>6, <2>2 DEF Stutter
<1>8. CASE m.cmd # "keys"
  <2>1. AtomicCall'[c] = m /\ AtomicStage'[c] = "called"
    BY <1>1, <1>8, AtomicAtNext
  <2>2. /\ AtomicCall' = [AtomicCall EXCEPT ![c] = m]
        /\ AtomicStage' = [AtomicStage EXCEPT ![c] = "called"]
    BY <1>4, <2>1, AtomicShape
  <2> QED BY <1>3, <1>5, <1>6, <2>2 DEF Atomic!Call
<1> QED BY <1>7, <1>8

\* Unlocking shows nothing, nor does a scan.
LEMMA QuietStep ==
  ASSUME StoreInv, StoreInv', NEW c \in Clients, Unlock(c) \/ Scan(c) \/ ScanReturn(c)
  PROVE  Stutter
<1> USE DEF StoreInv, IInv, TypeOK
<1>1. (\A d \in Clients : d # c => Same(d)) /\ UNCHANGED db
  BY DEF Same, Unlock, Scan, ScanReturn, Reset
<1>2. CASE Unlock(c)
  <2>1. \A d \in Clients : Same(d)
    BY <1>2 DEF Unlock, Same
  <2>2. AtomicDb' = AtomicDb /\ \A d \in Clients : AtomicReply(d)' = AtomicReply(d)
    BY <1>1, <2>1, Quiet
  <2>3. UNCHANGED <<AtomicCall, AtomicStage, AtomicAnswer>>
    BY <2>1, <2>2, OthersKept, AtomicShape
  <2> QED BY <2>2, <2>3 DEF Stutter
<1>3. CASE Scan(c) \/ ScanReturn(c)
  <2>1. pc[c] = "scan" /\ pc'[c] \in {"scan", "idle"} /\ (pc'[c] = "idle" => op'[c] = NoCommand)
    BY <1>3 DEF Scan, ScanReturn, Reset
  <2>2. \A k \in Keys : c \notin Writing(k) /\ c \notin Writing(k)'
    BY <2>1 DEF Writing
  <2>3. AtomicDb' = AtomicDb
    BY <1>1, <2>2, Quiet
  <2>4. \A d \in Clients : d # c => /\ AtomicCall'[d] = AtomicCall[d]
                                    /\ AtomicAnswer'[d] = AtomicAnswer[d]
                                    /\ AtomicStage'[d] = AtomicStage[d]
    BY <1>1, <2>2, Quiet, OthersKept
  <2>5. /\ AtomicCall'[c] = AtomicCall[c]
        /\ AtomicAnswer'[c] = AtomicAnswer[c]
        /\ AtomicStage'[c] = AtomicStage[c]
    BY <2>1, AtomicAt, AtomicAtNext
  <2>6. UNCHANGED <<AtomicCall, AtomicStage, AtomicAnswer>>
    BY <2>4, <2>5, AtomicShape
  <2> QED BY <2>3, <2>6 DEF Stutter
<1> QED BY <1>2, <1>3

\* A return, whose work is done.
LEMMA ReturnStep ==
  ASSUME StoreInv, StoreInv', NEW c \in Clients, Return(c)
  PROVE  Atomic!Return(c)
<1> USE DEF StoreInv, IInv, TypeOK
<1>1. /\ pc[c] = "work" /\ pc'[c] = "idle" /\ op'[c] = NoCommand
      /\ \A d \in Clients : d # c => Same(d)
      /\ UNCHANGED db
  BY DEF Return, Reset, Same
<1>2. \A k \in Keys : c \notin Writing(k) /\ c \notin Writing(k)'
  <2>1. op[c] \in Commands /\ ndone[c] \in Nat /\ ndone[c] = Steps(op[c])
    BY DEF Return, Worked, Protocol
  <2>2. Rest(c) = {}
    BY <2>1 DEF Rest
  <2> QED BY <1>1, <2>2 DEF Writing
<1>3. AtomicDb' = AtomicDb
  BY <1>1, <1>2, Quiet
<1>4. \A d \in Clients : d # c => /\ AtomicCall'[d] = AtomicCall[d]
                                  /\ AtomicAnswer'[d] = AtomicAnswer[d]
                                  /\ AtomicStage'[d] = AtomicStage[d]
  BY <1>1, <1>2, Quiet, OthersKept
<1>5. /\ AtomicStage[c] = "answered" /\ AtomicStage'[c] = "idle"
      /\ AtomicCall'[c] = NoCommand /\ AtomicAnswer'[c] = <<>>
  BY <1>1, AtomicAt, AtomicAtNext
<1>6. /\ AtomicStage' = [AtomicStage EXCEPT ![c] = "idle"]
      /\ AtomicCall' = [AtomicCall EXCEPT ![c] = NoCommand]
      /\ AtomicAnswer' = [AtomicAnswer EXCEPT ![c] = <<>>]
  BY <1>4, <1>5, AtomicShape
<1> QED BY <1>3, <1>5, <1>6 DEF Atomic!Return, Atomic!NoCommand, NoCommand

\* A key is lost, which nobody has locked.
LEMMA LoseStep ==
  ASSUME StoreInv, StoreInv', NEW k \in Keys, Lose(k)
  PROVE  Atomic!Lose(k)
<1> USE DEF StoreInv, IInv, TypeOK
<1>1. /\ \A d \in Clients : Same(d)
      /\ \A x \in Keys : x # k => db'[x] = db[x]
      /\ db'[k] = NoValue
  BY DEF Lose, Same
<1>2. \A x \in Keys : Writing(x)' = Writing(x)
  BY DEF Lose, Writing, Rest
<1>3. Writing(k) = {}
  BY StoreFacts DEF HoldsRest, Lose, Free, Writing
<1>4. AtomicDb'[k] = NoValue
  BY <1>1, <1>2, <1>3, StoreFactsNext DEF OneWriter
<1>5. ASSUME NEW x \in Keys, x # k PROVE AtomicDb'[x] = AtomicDb[x]
  <2>1. CASE Writing(x) = {}
    BY <1>1, <1>2, <1>5, <2>1, StoreFacts, StoreFactsNext DEF OneWriter
  <2>2. ASSUME NEW d \in Writing(x) PROVE AtomicDb'[x] = AtomicDb[x]
    <3>1. Wrote(d)' = Wrote(d)
      BY DEF Lose, Wrote
    <3> QED BY <1>2, <2>2, <3>1, StoreFacts, StoreFactsNext DEF OneWriter
  <2> QED BY <2>1, <2>2
<1>6. AtomicDb' = [AtomicDb EXCEPT ![k] = NoValue]
  BY <1>4, <1>5, AtomicShape
<1>7. ASSUME NEW d \in Clients, pc[d] = "work" PROVE AtomicReply(d)' = AtomicReply(d)
  <2>1. op[d].cmd # "flushall" =>
          \A i \in Rest(d) : op[d].keys[i] \in Keys /\ op[d].keys[i] # k
    BY <1>7, StoreFacts DEF HoldsRest, Lose, Free
  <2> QED BY <1>1, <2>1, ReplyKept
<1>8. UNCHANGED <<AtomicCall, AtomicStage, AtomicAnswer>>
  BY <1>1, <1>7, OthersKept, AtomicShape
<1> QED BY <1>6, <1>8 DEF Atomic!Lose

\* What the other clients show while client c works: they have locked the
\* keys that they have still to read.
LEMMA OthersWork ==
  ASSUME StoreInv, NEW c \in Clients, NEW d \in Clients, d # c, Same(d),
         \A k \in Keys : ShardOf[k] \notin held[c] => db'[k] = db[k]
  PROVE  pc[d] = "work" => AtomicReply(d)' = AtomicReply(d)
<1>1. SUFFICES ASSUME pc[d] = "work" PROVE AtomicReply(d)' = AtomicReply(d)
  OBVIOUS
<1>2. op[d].cmd # "flushall" =>
        \A i \in Rest(d) : op[d].keys[i] \in Keys /\ ShardOf[op[d].keys[i]] \notin held[c]
  BY <1>1, StoreFacts DEF HoldsRest, StoreInv, Exclusive
<1> QED BY <1>2, ReplyKept

\* One key of the loop: the rest has one member less.
LEMMA RestStep ==
  ASSUME StoreInv, NEW c \in Clients, Work(c)
  PROVE  /\ op[c] \in Commands /\ op[c].cmd # "keys" /\ ndone[c] \in Nat /\ Steps(op[c]) \in Nat
         /\ Rest(c) \subseteq 1..Steps(op[c])
         /\ ndone[c] + 1 \in Rest(c) /\ \A i \in Rest(c) : i >= ndone[c] + 1
         /\ Rest(c)' = Rest(c) \ {ndone[c] + 1}
         /\ held[c] = Needed(op[c])
         /\ Answering(op[c], ndone[c], reply[c])
<1> USE DEF StoreInv, IInv, TypeOK
<1>1. /\ op[c] \in Commands /\ op[c].cmd # "keys" /\ ndone[c] \in Nat /\ Steps(op[c]) \in Nat
      /\ ndone[c] < Steps(op[c]) /\ held[c] = Needed(op[c])
      /\ Answering(op[c], ndone[c], reply[c])
  BY CommandFacts DEF Work, Protocol
<1>2. op' = op /\ ndone'[c] = ndone[c] + 1
  BY DEF Work
<1> QED BY <1>1, <1>2 DEF Rest

\* The work of FLUSHALL, shard by shard.
LEMMA FlushWork ==
  ASSUME StoreInv, StoreInv', NEW c \in Clients, Work(c), op[c].cmd = "flushall"
  PROVE  /\ AtomicDb' = AtomicDb /\ AtomicReply(c)' = AtomicReply(c)
         /\ \A k \in Keys : ShardOf[k] \notin held[c] => db'[k] = db[k]
<1> USE DEF StoreInv, IInv, TypeOK
<1>1. /\ \A d \in Clients : d # c => Same(d)
      /\ pc[c] = "work" /\ pc'[c] = "work" /\ op' = op
      /\ db' = Cleared(ndone[c] + 1)
  BY DEF Work, Same
<1>2. /\ ndone[c] \in Nat /\ Rest(c)' = Rest(c) \ {ndone[c] + 1} /\ ndone[c] + 1 \in Rest(c)
      /\ held[c] = Shards
  BY RestStep DEF Needed
<1>3. ASSUME NEW k \in Keys
      PROVE  /\ c \in Writing(k) <=> ShardOf[k] \in Rest(c)
             /\ c \in Writing(k)' <=> ShardOf[k] \in Rest(c)'
  BY <1>1 DEF Writing
<1>4. ASSUME NEW k \in Keys
      PROVE  db'[k] = IF ShardOf[k] = ndone[c] + 1 THEN NoValue ELSE db[k]
  BY <1>1 DEF Cleared
<1>5. Wrote(c) = NoValue
  BY DEF Wrote
<1>6. \A k \in Keys : /\ c \in Writing(k)' => c \in Writing(k)
                      /\ c \in Writing(k) /\ c \notin Writing(k)' => db'[k] = Wrote(c)
                      /\ c \notin Writing(k) => db'[k] = db[k]
  BY <1>2, <1>3, <1>4, <1>5
<1>7. AtomicDb' = AtomicDb
  BY <1>1, <1>6, DbKept
<1>8. AtomicReply(c) = <<>> /\ AtomicReply(c)' = <<>>
  BY <1>1 DEF AtomicReply
<1>9. \A k \in Keys : ShardOf[k] \in held[c]
  BY <1>2, ShardAssumption DEF Shards
<1> QED BY <1>7, <1>8, <1>9

\* The work of the others leaves the map that the mapping shows.
LEMMA KeyWorkDb ==
  ASSUME StoreInv, StoreInv', NEW c \in Clients, Work(c), op[c].cmd # "flushall"
  PROVE  /\ AtomicDb' = AtomicDb
         /\ \A k \in Keys : ShardOf[k] \notin held[c] => db'[k] = db[k]
<1> USE DEF StoreInv, IInv, TypeOK
<1> DEFINE m == op[c]
           n == ndone[c]
           x == m.keys[n + 1]
<1>1. /\ \A d \in Clients : d # c => Same(d)
      /\ pc[c] = "work" /\ pc'[c] = "work" /\ op' = op
      /\ WorkOnKey(c, m, x)
  <2>1. pc[c] = "work" /\ UNCHANGED <<pc, op>> /\ WorkOnKey(c, m, x)
        /\ ndone' = [ndone EXCEPT ![c] = @ + 1]
    BY DEF Work
  <2>2. \A d \in Clients : d # c => reply'[d] = reply[d]
    BY <2>1 DEF WorkOnKey
  <2> QED BY <2>1, <2>2 DEF Same
<1>2. /\ n \in Nat /\ Rest(c)' = Rest(c) \ {n + 1} /\ n + 1 \in Rest(c)
  BY RestStep
<1>3. x \in Keys /\ ShardOf[x] \in held[c]
  BY <1>1, <1>2, StoreFacts DEF HoldsRest
<1>4. ASSUME NEW k \in Keys
      PROVE  /\ c \in Writing(k) <=> m.cmd \in {"mset", "del"} /\ \E i \in Rest(c) : m.keys[i] = k
             /\ c \in Writing(k)' <=> m.cmd \in {"mset", "del"} /\ \E i \in Rest(c)' : m.keys[i] = k
  BY <1>1 DEF Writing
<1>5. db' = IF m.cmd \in {"mset", "del"} THEN [db EXCEPT ![x] = Wrote(c)] ELSE db
  BY <1>1 DEF WorkOnKey, Wrote
<1>6. \A k \in Keys : db'[k] = IF m.cmd \in {"mset", "del"} /\ k = x THEN Wrote(c) ELSE db[k]
  BY <1>3, <1>5
<1>7. \A k \in Keys : /\ c \in Writing(k)' => c \in Writing(k)
                      /\ c \in Writing(k) /\ c \notin Writing(k)' => db'[k] = Wrote(c)
                      /\ c \notin Writing(k) => db'[k] = db[k]
  BY <1>2, <1>4, <1>6
<1>8. AtomicDb' = AtomicDb
  BY <1>1, <1>7, DbKept
<1> QED BY <1>3, <1>6, <1>8

\* What MGET has read and has still to read is one answer.
LEMMA MgetWork ==
  ASSUME StoreInv, NEW c \in Clients, Work(c), op[c].cmd = "mget"
  PROVE  AtomicReply(c)' = AtomicReply(c)
<1> USE DEF StoreInv, IInv, TypeOK
<1> DEFINE m == op[c]
           n == ndone[c]
           x == m.keys[n + 1]
<1>1. /\ op' = op /\ db' = db
      /\ reply'[c] = Append(reply[c], db[x])
  BY DEF Work, WorkOnKey
<1>2. /\ n \in Nat /\ Rest(c)' = Rest(c) \ {n + 1} /\ n + 1 \in Rest(c)
      /\ m \in Commands /\ Steps(m) \in Nat /\ Rest(c) = (n + 1)..Steps(m)
      /\ reply[c] \in Seq(Values) /\ Len(reply[c]) = n
  BY RestStep DEF Rest, Answering
<1>3. x \in Keys /\ db[x] \in Values
  BY <1>2, StoreFacts DEF HoldsRest, Work
<1>4. \A i \in 1..n : reply'[c][i] = reply[c][i]
  BY <1>1, <1>2, <1>3, AppendProperties
<1>5. reply'[c][n + 1] = db[x]
  BY <1>1, <1>2, <1>3, AppendProperties
<1>6. DOMAIN m.keys = 1..Steps(m)
  BY <1>2, CommandFacts DEF Steps
<1>7. ASSUME NEW i \in DOMAIN m.keys
      PROVE  (IF i \in Rest(c)' THEN db[m.keys[i]] ELSE reply'[c][i])
               = (IF i \in Rest(c) THEN db[m.keys[i]] ELSE reply[c][i])
  BY <1>2, <1>4, <1>5, <1>6
<1>8. AtomicReply(c) = [i \in DOMAIN m.keys |-> IF i \in Rest(c) THEN db[m.keys[i]] ELSE reply[c][i]]
  BY DEF AtomicReply
<1>9. AtomicReply(c)' = [i \in DOMAIN m.keys |-> IF i \in Rest(c)' THEN db[m.keys[i]] ELSE reply'[c][i]]
  BY <1>1 DEF AtomicReply
<1> QED BY <1>7, <1>8, <1>9

\* The count of EXISTS so far and what it has still to count.
LEMMA ExistsWork ==
  ASSUME StoreInv, NEW c \in Clients, Work(c), op[c].cmd = "exists"
  PROVE  AtomicReply(c)' = AtomicReply(c)
<1> USE DEF StoreInv, IInv, TypeOK
<1> DEFINE m == op[c]
           n == ndone[c]
           H == {i \in Rest(c) : db[m.keys[i]] # NoValue}
           G == {i \in Rest(c)' : db'[m.keys[i]] # NoValue}
<1>1. /\ op' = op /\ db' = db
      /\ reply'[c] = IF db[m.keys[n + 1]] # NoValue THEN <<reply[c][1] + 1>> ELSE reply[c]
  BY DEF Work, WorkOnKey
<1>2. /\ n \in Nat /\ Rest(c)' = Rest(c) \ {n + 1} /\ n + 1 \in Rest(c)
      /\ m \in Commands /\ Steps(m) \in Nat /\ Rest(c) \subseteq 1..Steps(m)
  BY RestStep
<1>3. PICK r \in Nat : reply[c] = <<r>>
  BY RestStep DEF Answering
<1>4. G = H \ {n + 1}
  BY <1>1, <1>2
<1>5. IsFiniteSet(H)
  <2>1. IsFiniteSet(1..Steps(m))
    BY <1>2, FS_Interval
  <2>2. H \in SUBSET (1..Steps(m))
    BY <1>2
  <2> QED BY <2>1, <2>2, FS_Subset
<1>6. n + 1 \in H <=> db[m.keys[n + 1]] # NoValue
  BY <1>2
<1>7. Cardinality(H) \in Nat
      /\ Cardinality(G) = IF n + 1 \in H THEN Cardinality(H) - 1 ELSE Cardinality(H)
  <2> HIDE DEF H, G
  <2> QED BY <1>4, <1>5, FS_RemoveElement, FS_CardinalityType
<1>8. AtomicReply(c) = <<r + Cardinality(H)>>
  BY <1>3 DEF AtomicReply
<1>9. AtomicReply(c)' = <<reply'[c][1] + Cardinality(G)>>
  BY <1>1 DEF AtomicReply
<1> HIDE DEF H, G
<1>10. reply'[c][1] = IF n + 1 \in H THEN r + 1 ELSE r
  BY <1>1, <1>3, <1>6
<1> QED BY <1>7, <1>8, <1>9, <1>10

\* The same for DEL, which counts a key named twice once.
LEMMA DelWork ==
  ASSUME StoreInv, NEW c \in Clients, Work(c), op[c].cmd = "del"
  PROVE  AtomicReply(c)' = AtomicReply(c)
<1> USE DEF StoreInv, IInv, TypeOK
<1> DEFINE m == op[c]
           n == ndone[c]
           x == m.keys[n + 1]
           H == {i \in Rest(c) : db[m.keys[i]] # NoValue}
           F == {i \in H : \A j \in Rest(c) : j < i => m.keys[j] # m.keys[i]}
           G == {i \in Rest(c)' : db'[m.keys[i]] # NoValue}
           E == {i \in G : \A j \in Rest(c)' : j < i => m.keys[j] # m.keys[i]}
<1>1. /\ op' = op /\ db' = [db EXCEPT ![x] = NoValue]
      /\ reply'[c] = IF db[x] # NoValue THEN <<reply[c][1] + 1>> ELSE reply[c]
  BY DEF Work, WorkOnKey
<1>2. /\ n \in Nat /\ Rest(c)' = Rest(c) \ {n + 1} /\ n + 1 \in Rest(c)
      /\ m \in Commands /\ Steps(m) \in Nat /\ Rest(c) \subseteq 1..Steps(m)
      /\ \A i \in Rest(c) : i >= n + 1
  BY RestStep
<1>3. PICK r \in Nat : reply[c] = <<r>>
  BY RestStep DEF Answering
<1>4. \A i \in Rest(c) : m.keys[i] \in Keys
  BY StoreFacts DEF HoldsRest, Work
<1>5. \A k \in Keys : db'[k] = IF k = x THEN NoValue ELSE db[k]
  BY <1>1
<1>6. ASSUME NEW i \in E PROVE i \in F \ {n + 1}
  <2>1. i \in Rest(c) /\ i # n + 1 /\ m.keys[i] # x /\ db[m.keys[i]] # NoValue
    BY <1>2, <1>4, <1>5
  <2>2. \A j \in Rest(c) : j < i => m.keys[j] # m.keys[i]
    BY <1>2, <2>1
  <2> QED BY <2>1, <2>2
<1>7. ASSUME NEW i \in F, i # n + 1 PROVE i \in E
  <2>1. i \in Rest(c) /\ n + 1 < i
    BY <1>2, <1>7
  <2>2. m.keys[i] # x
    BY <1>2, <2>1
  <2>3. i \in G
    BY <1>2, <1>4, <1>5, <1>7, <2>1, <2>2
  <2> QED BY <1>2, <2>3
<1>8. E = F \ {n + 1}
  BY <1>6, <1>7
<1>9. IsFiniteSet(F)
  <2>1. IsFiniteSet(1..Steps(m))
    BY <1>2, FS_Interval
  <2>2. F \in SUBSET (1..Steps(m))
    BY <1>2
  <2> HIDE DEF F
  <2> QED BY <2>1, <2>2, FS_Subset
<1>10. n + 1 \in F <=> db[x] # NoValue
  BY <1>2
<1>11. Cardinality(F) \in Nat
       /\ Cardinality(E) = IF n + 1 \in F THEN Cardinality(F) - 1 ELSE Cardinality(F)
  <2> HIDE DEF E, F, G, H
  <2> QED BY <1>8, <1>9, FS_RemoveElement, FS_CardinalityType
<1>12. AtomicReply(c) = <<r + Cardinality(F)>>
  BY <1>3 DEF AtomicReply
<1>13. AtomicReply(c)' = <<reply'[c][1] + Cardinality(E)>>
  BY <1>1 DEF AtomicReply
<1> HIDE DEF E, F, G, H
<1>14. reply'[c][1] = IF n + 1 \in F THEN r + 1 ELSE r
  BY <1>1, <1>3, <1>10
<1> QED BY <1>11, <1>12, <1>13, <1>14

\* The work on a key or a shard shows nothing: it was done at the last lock.
LEMMA WorkStep ==
  ASSUME StoreInv, StoreInv', NEW c \in Clients, Work(c)
  PROVE  Stutter
<1> USE DEF StoreInv, IInv, TypeOK
<1>1. /\ \A d \in Clients : d # c => Same(d)
      /\ pc[c] = "work" /\ pc'[c] = "work" /\ op'[c] = op[c]
  BY DEF Work, Same, WorkOnKey
<1>2. AtomicDb' = AtomicDb /\ \A k \in Keys : ShardOf[k] \notin held[c] => db'[k] = db[k]
  BY FlushWork, KeyWorkDb
<1>3. AtomicReply(c)' = AtomicReply(c)
  <2>1. op[c] \in Commands /\ op[c].cmd \in CommandNames /\ op[c].cmd # "keys"
    BY RestStep, CommandFacts
  <2>2. CASE op[c].cmd = "mset"
    BY <1>1, <2>2 DEF AtomicReply
  <2> QED BY <2>1, <2>2, FlushWork, MgetWork, ExistsWork, DelWork DEF CommandNames
<1>4. \A d \in Clients : d # c => /\ AtomicCall'[d] = AtomicCall[d]
                                  /\ AtomicAnswer'[d] = AtomicAnswer[d]
                                  /\ AtomicStage'[d] = AtomicStage[d]
  BY <1>1, <1>2, OthersWork, OthersKept
<1>5. /\ AtomicCall'[c] = AtomicCall[c]
      /\ AtomicAnswer'[c] = AtomicAnswer[c]
      /\ AtomicStage'[c] = AtomicStage[c]
  BY <1>1, <1>3, AtomicAt, AtomicAtNext
<1>6. UNCHANGED <<AtomicCall, AtomicStage, AtomicAnswer>>
  BY <1>4, <1>5, AtomicShape
<1> QED BY <1>2, <1>6 DEF Stutter

\* A lock that is not the last one.
LEMMA LockMore ==
  ASSUME StoreInv, StoreInv', NEW c \in Clients, Lock(c), pc'[c] = "lock"
  PROVE  Stutter
<1> USE DEF StoreInv, IInv, TypeOK
<1>1. (\A d \in Clients : Same(d)) /\ UNCHANGED db
  BY DEF Lock, Same
<1>2. AtomicDb' = AtomicDb /\ \A d \in Clients : AtomicReply(d)' = AtomicReply(d)
  BY <1>1, Quiet
<1>3. UNCHANGED <<AtomicCall, AtomicStage, AtomicAnswer>>
  BY <1>1, <1>2, OthersKept, AtomicShape
<1> QED BY <1>2, <1>3 DEF Stutter

\* Where the command finds itself with its last lock: at the start of its work.
LEMMA LastLock ==
  ASSUME StoreInv, StoreInv', NEW c \in Clients, Lock(c), pc'[c] # "lock"
  PROVE  /\ pc[c] = "lock" /\ pc'[c] = "work" /\ op' = op /\ db' = db
         /\ op[c] \in Commands /\ op[c].cmd # "keys"
         /\ held'[c] = Needed(op[c]) /\ reply'[c] = EmptyReply(op[c])
         /\ Rest(c)' = 1..Steps(op[c])
         /\ \A d \in Clients : d # c => Same(d) /\ held'[d] = held[d]
<1> USE DEF StoreInv, IInv, TypeOK
<1>1. /\ pc[c] = "lock" /\ UNCHANGED <<op, locks, ndone, reply, db>>
      /\ pc'[c] = "work" /\ held'[c] = locks[c]
      /\ \A d \in Clients : d # c => Same(d) /\ held'[d] = held[d]
  BY DEF Lock, Same
<1>2. /\ op[c] \in Commands /\ op[c].cmd # "keys" /\ ndone[c] = 0
      /\ reply[c] = EmptyReply(op[c]) /\ locks[c] = Needed(op[c])
  BY <1>1 DEF Protocol
<1>3. Rest(c)' = 1..Steps(op[c])
  BY <1>1, <1>2 DEF Rest
<1> QED BY <1>1, <1>2, <1>3

\* The keys that a command names: its shards hold them.
LEMMA NamedShards ==
  ASSUME NEW m \in Commands, NEW k \in Atomic!NamedBy(m)
  PROVE  k \in Keys /\ ShardOf[k] \in Needed(m)
  BY CommandFacts, ShardAssumption DEF Atomic!NamedBy, NamedBy, Needed, Shards

\* The last lock is the step of the atomic store on the map.
LEMMA LastLockDb ==
  ASSUME StoreInv, StoreInv', NEW c \in Clients, Lock(c), pc'[c] # "lock"
  PROVE  /\ AtomicDb' = Atomic!Effect(op[c], AtomicDb)
         /\ \A k \in Atomic!NamedBy(op[c]) : AtomicDb[k] = db[k]
<1> DEFINE m == op[c]
<1>1. /\ pc[c] = "lock" /\ pc'[c] = "work" /\ op' = op /\ db' = db
      /\ m \in Commands /\ held'[c] = Needed(m) /\ Rest(c)' = 1..Steps(m)
      /\ \A d \in Clients : d # c => Same(d) /\ held'[d] = held[d]
  BY LastLock
<1>2. ASSUME NEW k \in Keys
      PROVE  /\ c \notin Writing(k)
             /\ \A d \in Clients : d # c => (d \in Writing(k)' <=> d \in Writing(k))
             /\ c \in Writing(k)' <=> k \in Atomic!NamedBy(m) /\ m.cmd \in {"mset", "del", "flushall"}
             /\ Writing(k) \subseteq Clients /\ Writing(k)' \subseteq Clients
  <2>1. c \notin Writing(k)
    BY <1>1 DEF Writing
  <2>2. \A d \in Clients : d # c => (d \in Writing(k)' <=> d \in Writing(k))
    BY <1>1 DEF Same, Writing, Rest
  <2>3. CASE m.cmd = "flushall"
    <3>1. Rest(c)' = Shards /\ ShardOf[k] \in Shards
      BY <1>1, <2>3, ShardAssumption DEF Steps, Shards
    <3> QED BY <1>1, <2>1, <2>2, <2>3, <3>1 DEF Writing, Atomic!NamedBy
  <2>4. CASE m.cmd # "flushall"
    <3>1. Rest(c)' = DOMAIN m.keys
      BY <1>1, <2>4, CommandFacts DEF Steps
    <3> QED BY <1>1, <2>1, <2>2, <2>4, <3>1 DEF Writing, Atomic!NamedBy
  <2> QED BY <2>3, <2>4
<1>3. ASSUME NEW k \in Atomic!NamedBy(m)
      PROVE  k \in Keys /\ Writing(k) = {} /\ AtomicDb[k] = db[k]
  <2>1. k \in Keys /\ ShardOf[k] \in held'[c]
    BY <1>1, NamedShards
  <2>2. ASSUME NEW d \in Writing(k) PROVE FALSE
    <3>1. d \in Clients /\ d # c
      BY <1>2, <2>1
    <3>2. ShardOf[k] \in held[d]
      BY <2>1, <3>1, StoreFacts DEF HoldsRest
    <3> QED BY <1>1, <2>1, <3>1, <3>2 DEF StoreInv, Exclusive
  <2>3. Writing(k) = {}
    BY <2>2
  <2> QED BY <2>1, <2>3, StoreFacts DEF OneWriter
<1>4. ASSUME NEW k \in Keys, k \in Atomic!NamedBy(m), m.cmd \in {"mset", "del", "flushall"}
      PROVE  AtomicDb'[k] = IF m.cmd = "mset" THEN m.val ELSE NoValue
  <2>1. c \in Writing(k)'
    BY <1>2, <1>4
  <2>2. Wrote(c)' = IF m.cmd = "mset" THEN m.val ELSE NoValue
    BY <1>1 DEF Wrote
  <2> QED BY <2>1, <2>2, StoreFactsNext DEF OneWriter
<1>5. ASSUME NEW k \in Keys, k \notin Atomic!NamedBy(m) \/ m.cmd \notin {"mset", "del", "flushall"}
      PROVE  AtomicDb'[k] = AtomicDb[k]
  <2>1. \A d : d \in Writing(k)' <=> d \in Writing(k)
    BY <1>2, <1>5
  <2>2. Writing(k)' = Writing(k)
    BY <2>1
  <2>3. CASE Writing(k) = {}
    BY <1>1, <2>2, <2>3, StoreFacts, StoreFactsNext DEF OneWriter
  <2>4. ASSUME NEW d \in Writing(k) PROVE AtomicDb'[k] = AtomicDb[k]
    <3>1. Wrote(d)' = Wrote(d)
      BY <1>1 DEF Wrote
    <3> QED BY <2>2, <2>4, <3>1, StoreFacts, StoreFactsNext DEF OneWriter
  <2> QED BY <2>3, <2>4
<1>6. ASSUME NEW k \in Keys PROVE AtomicDb'[k] = Atomic!Effect(m, AtomicDb)[k]
  <2>1. m.cmd \in CommandNames
    BY <1>1, CommandFacts
  <2> QED BY <1>4, <1>5, <1>6, <2>1 DEF Atomic!Effect, CommandNames
<1>7. AtomicDb' = Atomic!Effect(m, AtomicDb)
  BY <1>6, AtomicShape DEF Atomic!Effect
<1> QED BY <1>3, <1>7

\* The atomic store counts as this module does.
LEMMA SameCardinality == \A S : Atomic!Cardinality(S) = Cardinality(S)
  BY DEF Atomic!Cardinality, Cardinality

\* And on its answer.
LEMMA LastLockReply ==
  ASSUME StoreInv, StoreInv', NEW c \in Clients, Lock(c), pc'[c] # "lock"
  PROVE  AtomicReply(c)' = Atomic!Reply(op[c], AtomicDb)
<1> DEFINE m == op[c]
<1>1. /\ pc'[c] = "work" /\ op' = op /\ db' = db
      /\ m \in Commands /\ m.cmd # "keys"
      /\ reply'[c] = EmptyReply(m) /\ Rest(c)' = 1..Steps(m)
  BY LastLock
<1>2. m.cmd \in CommandNames /\ m.keys \in Seq(Keys)
  BY <1>1, CommandFacts
<1>3. CASE m.cmd \in {"mset", "flushall"}
  BY <1>1, <1>3 DEF AtomicReply, Atomic!Reply
<1>4. CASE m.cmd \in {"mget", "del", "exists"}
  <2>1. Rest(c)' = DOMAIN m.keys /\ Rest(c)' = 1..Len(m.keys) /\ Len(m.keys) \in Nat
    BY <1>1, <1>2, <1>4 DEF Steps
  <2>2. \A i \in DOMAIN m.keys : AtomicDb[m.keys[i]] = db[m.keys[i]]
    BY <1>4, LastLockDb DEF Atomic!NamedBy
  <2> DEFINE H == {i \in Rest(c)' : db'[m.keys[i]] # NoValue}
             F == {i \in H : \A j \in Rest(c)' : j < i => m.keys[j] # m.keys[i]}
             P == {i \in DOMAIN m.keys : AtomicDb[m.keys[i]] # NoValue}
             Q == {i \in P : \A j \in 1..(i - 1) : m.keys[j] # m.keys[i]}
  <2>3. H = P
    BY <1>1, <2>1, <2>2
  <2>4. F = Q
    <3>1. ASSUME NEW i \in P
          PROVE  (\A j \in Rest(c)' : j < i => m.keys[j] # m.keys[i])
                   <=> \A j \in 1..(i - 1) : m.keys[j] # m.keys[i]
      <4>1. i \in 1..Len(m.keys)
        BY <2>1
      <4>2. \A j : (j \in Rest(c)' /\ j < i) <=> j \in 1..(i - 1)
        BY <2>1, <4>1
      <4> QED BY <4>2
    <3> QED BY <2>3, <3>1
  <2>5. Cardinality(H) \in Nat /\ Cardinality(F) \in Nat
    <3>1. IsFiniteSet(1..Len(m.keys)) /\ H \in SUBSET (1..Len(m.keys)) /\ F \in SUBSET (1..Len(m.keys))
      BY <2>1, FS_Interval
    <3> HIDE DEF H, F
    <3> QED BY <3>1, FS_Subset, FS_CardinalityType
  <2>6. CASE m.cmd = "mget"
    BY <1>1, <2>1, <2>2, <2>6 DEF AtomicReply, Atomic!Reply
  <2>7. CASE m.cmd = "del"
    <3>1. AtomicReply(c)' = <<reply'[c][1] + Cardinality(F)>>
      BY <1>1, <2>7 DEF AtomicReply
    <3>2. Atomic!Reply(m, AtomicDb) = <<Cardinality(Q)>>
      BY <2>7, SameCardinality DEF Atomic!Reply
    <3>3. reply'[c][1] = 0
      BY <1>1, <2>7 DEF EmptyReply
    <3> HIDE DEF F, Q, H, P
    <3> QED BY <2>4, <2>5, <3>1, <3>2, <3>3
  <2>8. CASE m.cmd = "exists"
    <3>1. AtomicReply(c)' = <<reply'[c][1] + Cardinality(H)>>
      BY <1>1, <2>8 DEF AtomicReply
    <3>2. Atomic!Reply(m, AtomicDb) = <<Cardinality(P)>>
      BY <2>8, SameCardinality DEF Atomic!Reply
    <3>3. reply'[c][1] = 0
      BY <1>1, <2>8 DEF EmptyReply
    <3> HIDE DEF F, Q, H, P
    <3> QED BY <2>3, <2>5, <3>1, <3>2, <3>3
  <2> QED BY <1>4, <2>6, <2>7, <2>8
<1> QED BY <1>1, <1>2, <1>3, <1>4 DEF CommandNames

\* With its last lock a command takes effect.
LEMMA LockStep ==
  ASSUME StoreInv, StoreInv', NEW c \in Clients, Lock(c)
  PROVE  Atomic!Do(c) \/ Stutter
<1>1. CASE pc'[c] = "lock"
  BY <1>1, LockMore
<1>2. CASE pc'[c] # "lock"
  <2>1. /\ pc[c] = "lock" /\ pc'[c] = "work" /\ op' = op /\ db' = db
        /\ \A d \in Clients : d # c => Same(d) /\ held'[d] = held[d]
    BY <1>2, LastLock
  <2>2. \A d \in Clients : d # c => AtomicReply(d)' = AtomicReply(d)
    BY <2>1, ReplyKept
  <2>3. \A d \in Clients : d # c => /\ AtomicCall'[d] = AtomicCall[d]
                                    /\ AtomicAnswer'[d] = AtomicAnswer[d]
                                    /\ AtomicStage'[d] = AtomicStage[d]
    BY <2>1, <2>2, OthersKept
  <2>4. /\ AtomicStage[c] = "called" /\ AtomicStage'[c] = "answered"
        /\ AtomicCall[c] = op[c] /\ AtomicCall'[c] = op[c]
        /\ AtomicAnswer'[c] = Atomic!Reply(op[c], AtomicDb)
    BY <1>2, <2>1, LastLockReply, AtomicAt, AtomicAtNext
  <2>5. /\ AtomicStage' = [AtomicStage EXCEPT ![c] = "answered"]
        /\ AtomicCall' = AtomicCall
        /\ AtomicAnswer' = [AtomicAnswer EXCEPT ![c] = Atomic!Reply(AtomicCall[c], AtomicDb)]
    BY <2>3, <2>4, AtomicShape
  <2>6. AtomicDb' = Atomic!Effect(AtomicCall[c], AtomicDb)
    BY <1>2, <2>4, LastLockDb
  <2> QED BY <2>4, <2>5, <2>6 DEF Atomic!Do
<1> QED BY <1>1, <1>2

\* Every step is one of the atomic store's, or shows nothing.
LEMMA AtomicNext == StoreInv /\ [Next]_vars => [Atomic!Next]_(Atomic!vars)
<1> SUFFICES ASSUME StoreInv, [Next]_vars PROVE Atomic!Next \/ Stutter
  BY DEF Stutter, Atomic!vars
<1>1. StoreInv'
  BY NextStore
<1>2. ASSUME NEW c \in Clients, NEW m \in Commands, Start(c, m) PROVE Atomic!Next \/ Stutter
  BY <1>1, <1>2, StartStep DEF Atomic!Next
<1>3. ASSUME NEW c \in Clients, Run(c) PROVE Atomic!Next \/ Stutter
  <2>1. CASE Lock(c)
    BY <1>1, <2>1, LockStep DEF Atomic!Next
  <2>2. CASE Work(c)
    BY <1>1, <2>2, WorkStep
  <2>3. CASE Unlock(c) \/ Scan(c) \/ ScanReturn(c)
    BY <1>1, <2>3, QuietStep
  <2>4. CASE Return(c)
    BY <1>1, <2>4, ReturnStep DEF Atomic!Next
  <2> QED BY <1>3, <2>1, <2>2, <2>3, <2>4 DEF Run
<1>4. ASSUME NEW k \in Keys, Lose(k) PROVE Atomic!Next \/ Stutter
  BY <1>1, <1>4, LoseStep DEF Atomic!Next
<1>5. CASE UNCHANGED vars
  <2>1. (\A d \in Clients : Same(d)) /\ \A k \in Keys : Writing(k)' = Writing(k)
    BY <1>5 DEF vars, Same, Writing, Rest
  <2>2. ASSUME NEW k \in Keys PROVE AtomicDb'[k] = AtomicDb[k]
    <3>1. CASE Writing(k) = {}
      BY <1>1, <1>5, <2>1, <3>1, StoreFacts, StoreFactsNext DEF vars, OneWriter
    <3>2. ASSUME NEW d \in Writing(k) PROVE AtomicDb'[k] = AtomicDb[k]
      <4>1. Wrote(d)' = Wrote(d)
        BY <1>5 DEF vars, Wrote
      <4> QED BY <1>1, <2>1, <3>2, <4>1, StoreFacts, StoreFactsNext DEF OneWriter
    <3> QED BY <3>1, <3>2
  <2>3. \A d \in Clients : AtomicReply(d)' = AtomicReply(d)
    BY <1>5, <2>1, ReplyKept DEF vars
  <2>4. UNCHANGED <<AtomicCall, AtomicStage, AtomicAnswer>>
    BY <2>1, <2>3, OthersKept, AtomicShape
  <2>5. AtomicDb' = AtomicDb
    BY <2>2, AtomicShape
  <2> QED BY <2>4, <2>5 DEF Stutter
<1> QED BY <1>2, <1>3, <1>4, <1>5 DEF Next

\* The mapping begins where the atomic store does.
LEMMA AtomicInit == Init => Atomic!Init
<1> SUFFICES ASSUME Init PROVE Atomic!Init
  OBVIOUS
<1>1. \A k \in Keys : Writing(k) = {} /\ db[k] = NoValue
  BY DEF Init, Writing
<1>2. AtomicDb = [k \in Keys |-> NoValue]
  BY <1>1 DEF AtomicDb
<1>3. /\ AtomicCall = [c \in Clients |-> NoCommand]
      /\ AtomicStage = [c \in Clients |-> "idle"]
      /\ AtomicAnswer = [c \in Clients |-> <<>>]
  BY DEF Init, AtomicCall, AtomicStage, AtomicAnswer
<1> QED BY <1>2, <1>3 DEF Atomic!Init, Atomic!NoCommand, NoCommand

\* cmdMget, cmdMset, cmdDel, cmdExists and FLUSHALL, for any number of
\* clients, shards and keys: each takes effect and is answered in one step
\* between its call and its return, as in AtomicStore.
THEOREM CommandsAtomic == Spec => ImplementsAtomic
  BY AtomicInit, AtomicNext, StoreReached, PTL DEF Spec, ImplementsAtomic, Atomic!Spec

=============================================================================
