---------------------------- MODULE AtomicStore ----------------------------
(***************************************************************************)
(* What the commands on several keys promise: each takes effect, and       *)
(* computes its answer, in one step between its call and its return.       *)
(***************************************************************************)
EXTENDS Naturals, Sequences, FiniteSets

CONSTANTS Clients, Keys, Commands, NoValue

VARIABLES
  db,     \* the value of every key, or NoValue
  call,   \* the command of every client, or NoCommand
  stage,  \* "idle", "called" or "answered"
  answer  \* the answer of an answered command

vars == <<db, call, stage, answer>>

NoCommand == [cmd |-> "none", keys |-> <<>>, val |-> NoValue]
NamedBy(m) == IF m.cmd = "flushall" THEN Keys ELSE {m.keys[i] : i \in DOMAIN m.keys}

\* The map after command m.
Effect(m, d) ==
  [k \in Keys |-> IF k \notin NamedBy(m) THEN d[k]
                  ELSE CASE m.cmd = "mset"                -> m.val
                         [] m.cmd \in {"del", "flushall"} -> NoValue
                         [] OTHER                         -> d[k]]

\* Its answer: the values for MGET, a number for DEL and EXISTS.  DEL counts
\* a key named twice once, EXISTS twice.
Reply(m, d) ==
  LET Present == {i \in DOMAIN m.keys : d[m.keys[i]] # NoValue}
      First   == {i \in Present : \A j \in 1..(i - 1) : m.keys[j] # m.keys[i]}
  IN  CASE m.cmd = "mget"   -> [i \in DOMAIN m.keys |-> d[m.keys[i]]]
        [] m.cmd = "del"    -> <<Cardinality(First)>>
        [] m.cmd = "exists" -> <<Cardinality(Present)>>
        [] OTHER            -> <<>>

Init ==
  /\ db = [k \in Keys |-> NoValue]
  /\ call = [c \in Clients |-> NoCommand]
  /\ stage = [c \in Clients |-> "idle"]
  /\ answer = [c \in Clients |-> <<>>]

Call(c, m) ==
  /\ stage[c] = "idle"
  /\ stage' = [stage EXCEPT ![c] = "called"]
  /\ call' = [call EXCEPT ![c] = m]
  /\ UNCHANGED <<db, answer>>

Do(c) ==
  /\ stage[c] = "called"
  /\ stage' = [stage EXCEPT ![c] = "answered"]
  /\ db' = Effect(call[c], db)
  /\ answer' = [answer EXCEPT ![c] = Reply(call[c], db)]
  /\ UNCHANGED call

Return(c) ==
  /\ stage[c] = "answered"
  /\ stage' = [stage EXCEPT ![c] = "idle"]
  /\ call' = [call EXCEPT ![c] = NoCommand]
  /\ answer' = [answer EXCEPT ![c] = <<>>]
  /\ UNCHANGED db

\* A key expires or is evicted.
Lose(k) ==
  /\ db' = [db EXCEPT ![k] = NoValue]
  /\ UNCHANGED <<call, stage, answer>>

Next ==
  \/ \E c \in Clients : (\E m \in Commands : Call(c, m)) \/ Do(c) \/ Return(c)
  \/ \E k \in Keys : Lose(k)

Spec == Init /\ [][Next]_vars
=============================================================================
