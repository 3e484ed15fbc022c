------------------------------- MODULE KeyMap -------------------------------
(***************************************************************************)
(* What a shard of the keyspace promises: a map from keys to values with   *)
(* an expiry time.  A command sees only its own key; a key goes away only  *)
(* when it is deleted, evicted or flushed, or once it has expired.         *)
(***************************************************************************)
EXTENDS Integers

CONSTANTS Keys, Costs, MaxTime, MaxLag, Exps

Absent == [exp |-> -1, cost |-> 0]

VARIABLES
  db,      \* the keys present, each with its value's cost and expiry time
  clock,   \* the time
  last     \* the last command and what it answered

vars == <<db, clock, last>>

Expired(e, now) == e # 0 /\ e <= now
Visible(k, now) == k \in DOMAIN db /\ ~Expired(db[k].exp, now)
Value(k, now)   == IF Visible(k, now) THEN db[k] ELSE Absent
Without(S)      == [k \in DOMAIN db \ S |-> db[k]]
With(k, v)      == [x \in DOMAIN db \cup {k} |-> IF x = k THEN v ELSE db[x]]
Nothing         == [k \in {} |-> Absent]

\* A command's idea of the time may lag behind the clock.
Nows == {now \in 0..clock : clock - now <= MaxLag}

Answer(cmd, k, now) ==
  last'.cmd = cmd /\ last'.key = k /\ last'.reply = Value(k, now)

Init == db = Nothing /\ clock = 0 /\ last = [cmd |-> "none"]

\* A key that the command finds expired is gone afterwards.
Read(k, now) ==
  /\ Answer("read", k, now)
  /\ db' = IF Visible(k, now) THEN db ELSE Without({k})
  /\ UNCHANGED clock

Write(k, now, v) ==
  /\ Answer("write", k, now)
  /\ db' = With(k, v)
  /\ UNCHANGED clock

Delete(k, now) ==
  /\ Answer("delete", k, now)
  /\ db' = Without({k})
  /\ UNCHANGED clock

SetExpiry(k, now, e) ==
  /\ Answer("expire", k, now)
  /\ db' = IF Visible(k, now) THEN [db EXCEPT ![k].exp = e] ELSE Without({k})
  /\ UNCHANGED clock

\* Between commands: expired keys are reclaimed.
Reclaim ==
  /\ last'.cmd = "none"
  /\ \E S \in SUBSET {k \in DOMAIN db : Expired(db[k].exp, clock)} : db' = Without(S)
  /\ UNCHANGED clock

Evict(k) ==
  /\ last'.cmd = "evict" /\ last'.key = k
  /\ k \in DOMAIN db
  /\ db' = Without({k})
  /\ UNCHANGED clock

Flush ==
  /\ last'.cmd = "flush"
  /\ db' = Nothing
  /\ UNCHANGED clock

Tick ==
  /\ clock < MaxTime
  /\ clock' = clock + 1
  /\ last'.cmd = "none"
  /\ UNCHANGED db

Next ==
  \/ \E k \in Keys, now \in Nows :
       \/ Read(k, now)
       \/ \E v \in [exp : Exps, cost : Costs] : Write(k, now, v)
       \/ Delete(k, now)
       \/ \E e \in Exps : SetExpiry(k, now, e)
  \/ \E k \in Keys : Evict(k)
  \/ Reclaim
  \/ Flush
  \/ Tick

Spec == Init /\ [][Next]_vars
=============================================================================
