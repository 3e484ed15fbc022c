------------------------------ MODULE Keyspace ------------------------------
(***************************************************************************)
(* Commands on several keys of the Go mini-redis server                    *)
(* (src/redis/impl/go-1/commands.go): how they lock the shards.            *)
(*                                                                         *)
(* MGET, MSET, DEL and EXISTS lock the shards of all their keys in         *)
(* ascending order (lockKeys), work key by key, and unlock; a command on   *)
(* one key is the case of one lock.  FLUSHALL locks every shard.  KEYS,    *)
(* DBSIZE and INFO lock one shard after the other.  A shard's content      *)
(* appears as the map that KeyMap promises.                                *)
(***************************************************************************)
EXTENDS Naturals, Sequences, FiniteSets

CONSTANTS
  Clients,   \* the connections
  NShards,   \* 256 in the code
  Keys,
  ShardOf,   \* the shard of each key
  Commands,  \* the commands that clients send
  NoValue    \* an absent key

CommandNames == {"mset", "mget", "del", "exists", "flushall", "keys"}

ASSUME ShardAssumption == NShards \in Nat \ {0} /\ ShardOf \in [Keys -> 1..NShards]
ASSUME CommandAssumption ==
  \A m \in Commands :
    /\ m.cmd \in CommandNames
    /\ m.keys \in Seq(Keys)
    /\ m.cmd \in {"flushall", "keys"} <=> m.keys = <<>>

VARIABLES
  pc,      \* where the goroutine of a connection is
  op,      \* the command it executes
  locks,   \* c.locks: the shards it needs; kept sorted and without duplicates
  held,    \* the shards whose mutex it holds
  ndone,   \* keys, or shards, that it has worked on
  reply,   \* what it has added to c.out for this command
  db       \* the content of the shards

vars == <<pc, op, locks, held, ndone, reply, db>>

Shards   == 1..NShards
NoCommand == [cmd |-> "none", keys |-> <<>>, val |-> NoValue]
NamedBy(m) == {m.keys[i] : i \in DOMAIN m.keys}
Cleared(s) == [k \in Keys |-> IF ShardOf[k] = s THEN NoValue ELSE db[k]]
KeysOf(s)  == {k \in Keys : ShardOf[k] = s /\ db[k] # NoValue}

Free(s) == \A c \in Clients : s \notin held[c]

\* lockKeys: the shards of the keys.
Needed(m) == IF m.cmd = "flushall" THEN Shards ELSE {ShardOf[k] : k \in NamedBy(m)}

\* Fault: the shards are not sorted.
NextUnsorted(c, s) == s \in locks[c] \ held[c]

\* s is the shard that c locks next: the lowest that it does not hold.
NextLock(c, s) ==
  /\ s \in locks[c] \ held[c]
  /\ \A t \in locks[c] \ held[c] : s <= t

Steps(m) == IF m.cmd = "flushall" THEN NShards ELSE Len(m.keys)

\* DEL and EXISTS count, KEYS collects.
EmptyReply(m) ==
  IF m.cmd \in {"del", "exists"} THEN <<0>>
  ELSE IF m.cmd = "keys" THEN <<{}>> ELSE <<>>

-----------------------------------------------------------------------------
Init ==
  /\ pc = [c \in Clients |-> "idle"]
  /\ op = [c \in Clients |-> NoCommand]
  /\ locks = [c \in Clients |-> {}]
  /\ held = [c \in Clients |-> {}]
  /\ ndone = [c \in Clients |-> 0]
  /\ reply = [c \in Clients |-> <<>>]
  /\ db = [k \in Keys |-> NoValue]

\* exec calls the command's function.
Start(c, m) ==
  /\ pc[c] = "idle"
  /\ op' = [op EXCEPT ![c] = m]
  /\ pc' = [pc EXCEPT ![c] = IF m.cmd = "keys" THEN "scan" ELSE "lock"]
  /\ locks' = [locks EXCEPT ![c] = IF m.cmd = "keys" THEN {} ELSE Needed(m)]
  /\ reply' = [reply EXCEPT ![c] = EmptyReply(m)]
  /\ UNCHANGED <<held, ndone, db>>

\* shards[si].mu.Lock()
Lock(c) ==
  /\ pc[c] = "lock"
  /\ \E s \in Shards :
       /\ NextLock(c, s)
       /\ Free(s)
       /\ held' = [held EXCEPT ![c] = @ \cup {s}]
       /\ pc' = [pc EXCEPT ![c] = IF held[c] \cup {s} = locks[c] THEN "work" ELSE @]
  /\ UNCHANGED <<op, locks, ndone, reply, db>>

\* One key of the loop in cmdMset, cmdMget, cmdDel or cmdExists.
WorkOnKey(c, m, k) ==
  LET Count == [reply EXCEPT ![c] = IF db[k] # NoValue THEN <<@[1] + 1>> ELSE @]
  IN  \/ m.cmd = "mset" /\ db' = [db EXCEPT ![k] = m.val] /\ UNCHANGED reply
      \/ m.cmd = "mget" /\ reply' = [reply EXCEPT ![c] = Append(@, db[k])] /\ UNCHANGED db
      \/ m.cmd = "del" /\ db' = [db EXCEPT ![k] = NoValue] /\ reply' = Count
      \/ m.cmd = "exists" /\ reply' = Count /\ UNCHANGED db

Work(c) ==
  /\ pc[c] = "work"
  /\ ndone[c] < Steps(op[c])
  /\ IF op[c].cmd = "flushall" THEN db' = Cleared(ndone[c] + 1) /\ UNCHANGED reply
     ELSE WorkOnKey(c, op[c], op[c].keys[ndone[c] + 1])
  /\ ndone' = [ndone EXCEPT ![c] = @ + 1]
  /\ UNCHANGED <<pc, op, locks, held>>

\* unlockKeys begins when the loop is done.
Worked(c) == ndone[c] = Steps(op[c])

\* Fault: a shard is unlocked before the loop is done.
UnlockEarly(c) ==
  /\ pc[c] = "work" /\ ndone[c] > 0
  /\ \E s \in held[c] : held' = [held EXCEPT ![c] = @ \ {s}]
  /\ UNCHANGED <<pc, op, locks, ndone, reply, db>>

\* unlockKeys goes downwards, FLUSHALL upwards; the order is left open.
Unlock(c) ==
  /\ pc[c] = "work" /\ Worked(c)
  /\ \E s \in held[c] : held' = [held EXCEPT ![c] = @ \ {s}]
  /\ UNCHANGED <<pc, op, locks, ndone, reply, db>>

Reset(c) ==
  /\ pc' = [pc EXCEPT ![c] = "idle"]
  /\ op' = [op EXCEPT ![c] = NoCommand]
  /\ locks' = [locks EXCEPT ![c] = {}]
  /\ ndone' = [ndone EXCEPT ![c] = 0]
  /\ reply' = [reply EXCEPT ![c] = <<>>]

\* The command's function returns and the next command can begin.
Return(c) ==
  /\ pc[c] = "work" /\ Worked(c) /\ held[c] = {}
  /\ Reset(c)
  /\ UNCHANGED <<held, db>>

\* Fault: a scan that meets a locked shard starts over.
ScanRetry(c) ==
  /\ pc[c] = "scan"
  /\ ndone[c] < NShards
  /\ IF Free(ndone[c] + 1)
     THEN /\ reply' = [reply EXCEPT ![c] = <<@[1] \cup KeysOf(ndone[c] + 1)>>]
          /\ ndone' = [ndone EXCEPT ![c] = @ + 1]
     ELSE /\ reply' = [reply EXCEPT ![c] = <<{}>>]
          /\ ndone' = [ndone EXCEPT ![c] = 0]
  /\ UNCHANGED <<pc, op, locks, held, db>>

\* One shard of KEYS, DBSIZE or INFO: a critical section of its own.
Scan(c) ==
  /\ pc[c] = "scan"
  /\ ndone[c] < NShards
  /\ LET s == ndone[c] + 1
     IN  /\ Free(s)
         /\ reply' = [reply EXCEPT ![c] = <<@[1] \cup KeysOf(s)>>]
  /\ ndone' = [ndone EXCEPT ![c] = @ + 1]
  /\ UNCHANGED <<pc, op, locks, held, db>>

ScanReturn(c) ==
  /\ pc[c] = "scan" /\ ndone[c] = NShards
  /\ Reset(c)
  /\ UNCHANGED <<held, db>>

\* expiryLoop, or the eviction after another client's write, takes one key.
Lose(k) ==
  /\ db[k] # NoValue
  /\ Free(ShardOf[k])
  /\ db' = [db EXCEPT ![k] = NoValue]
  /\ UNCHANGED <<pc, op, locks, held, ndone, reply>>

Run(c) == Lock(c) \/ Work(c) \/ Unlock(c) \/ Return(c) \/ Scan(c) \/ ScanReturn(c)

Next ==
  \/ \E c \in Clients : (\E m \in Commands : Start(c, m)) \/ Run(c)
  \/ \E k \in Keys : Lose(k)

Spec == Init /\ [][Next]_vars

\* A sync.Mutex is handed to a goroutine that has waited for long enough.
FairSpec == Spec /\ \A c \in Clients : SF_vars(Run(c))

-----------------------------------------------------------------------------
TypeOK ==
  /\ pc \in [Clients -> {"idle", "lock", "work", "scan"}]
  /\ op \in [Clients -> Commands \cup {NoCommand}]
  /\ locks \in [Clients -> SUBSET Shards]
  /\ held \in [Clients -> SUBSET Shards]
  /\ \A c \in Clients : held[c] \subseteq locks[c]
  /\ ndone \in [Clients -> Nat]
  /\ DOMAIN reply = Clients
  /\ DOMAIN db = Keys

\* Whoever waits for a shard holds only lower ones, so that no cycle of
\* waiting commands can close, however their keys were given.
WaitsUpward ==
  \A c \in Clients : pc[c] = "lock" =>
    \A s \in Shards : NextLock(c, s) => \A t \in held[c] : t < s

\* lockKeys (commands.go:231): a command holds only shards that it needs, taken upwards.
LocksSound == TypeOK /\ WaitsUpward

\* The inductive strengthening: a command takes its shards from the lowest
\* up, and holds and needs none outside its critical section.
HeldBelow ==
  \A c \in Clients : pc[c] = "lock" =>
    \A t \in held[c], s \in locks[c] \ held[c] : t < s

NothingHeld == \A c \in Clients : pc[c] \in {"idle", "scan"} => held[c] = {}

IInv == TypeOK /\ HeldBelow /\ NothingHeld

-----------------------------------------------------------------------------
(***************************************************************************)
(* The state as an atomic store has it.  A command takes effect when it    *)
(* has locked its last shard: what it has still to write counts as         *)
(* written, what it has still to read as read.                             *)
(***************************************************************************)
Rest(c) == (ndone[c] + 1)..Steps(op[c])

Writing(k) ==
  {c \in Clients : /\ pc[c] = "work"
                   /\ \/ op[c].cmd = "flushall" /\ ShardOf[k] \in Rest(c)
                      \/ op[c].cmd \in {"mset", "del"} /\ \E i \in Rest(c) : op[c].keys[i] = k}

AtomicDb ==
  [k \in Keys |->
     IF Writing(k) = {} THEN db[k]
     ELSE LET m == op[CHOOSE c \in Writing(k) : TRUE]
          IN  IF m.cmd = "mset" THEN m.val ELSE NoValue]

AtomicReply(c) ==
  LET m == op[c]
      Here  == {i \in Rest(c) : db[m.keys[i]] # NoValue}
      First == {i \in Here : \A j \in Rest(c) : j < i => m.keys[j] # m.keys[i]}
  IN  CASE m.cmd = "mget"   -> [i \in DOMAIN m.keys |->
                                  IF i \in Rest(c) THEN db[m.keys[i]] ELSE reply[c][i]]
        [] m.cmd = "del"    -> <<reply[c][1] + Cardinality(First)>>
        [] m.cmd = "exists" -> <<reply[c][1] + Cardinality(Here)>>
        [] OTHER            -> <<>>

AtomicStage == [c \in Clients |-> CASE pc[c] = "lock" -> "called"
                                    [] pc[c] = "work" -> "answered"
                                    [] OTHER          -> "idle"]

AtomicCall   == [c \in Clients |-> IF pc[c] = "scan" THEN NoCommand ELSE op[c]]
AtomicAnswer == [c \in Clients |-> IF pc[c] = "work" THEN AtomicReply(c) ELSE <<>>]

Atomic == INSTANCE AtomicStore WITH
  db <- AtomicDb, call <- AtomicCall, stage <- AtomicStage, answer <- AtomicAnswer

\* "Every command is atomic: no client may observe a partially applied
\* command", for every command but the scans: MGET, DEL and EXISTS answer as
\* if MSET and FLUSHALL were one step.
ImplementsAtomic == Atomic!Spec

\* Every command ends: no deadlock, and no command waits for ever.
CommandsEnd == \A c \in Clients : pc[c] # "idle" ~> pc[c] = "idle"

\* The same for KEYS, DBSIZE and INFO (src/redis/SPEC.md, Concurrency), where
\* the keys come and go together: the answer has all of them or none.
ScanSeesWholeCommands ==
  \A c \in Clients : pc[c] = "scan" /\ ndone[c] = NShards => reply[c][1] \in {{}, Keys}
=============================================================================
