----------------------------- MODULE ShardTable -----------------------------
(***************************************************************************)
(* One shard of the Go mini-redis keyspace                                 *)
(* (src/redis/impl/go-1/store.go): an open-addressing hash table with      *)
(* linear probing, tombstones, lazy expiry, an incremental expiry sweep    *)
(* and eviction.  Every operation runs under the shard's mutex, so that    *)
(* each is one step; what a command does to the other shards is the        *)
(* matter of module Keyspace.                                              *)
(*                                                                         *)
(* A slot holds an item with its key, its expiry time (0: none) and the    *)
(* accounted cost of its value; types, bytes and LRU clocks are left out.  *)
(***************************************************************************)
EXTENDS Integers, FiniteSets, FiniteSetsExt, Functions

CONSTANTS
  Keys,         \* strings
  Hash,         \* h >> shardBits of each key
  Costs,        \* accounted costs of values
  MinSlots,     \* smallest table: 8 in the code
  ShrinkAbove,  \* a table is shrunk only above this size: 64 in the code
  SweepBase,    \* constant part of the sweep's budget: 64 in the code
  BatchSize,    \* slots swept in one critical section: 1024 in the code
  MaxTime,      \* bound of the clock
  MaxLag,       \* how far c.now may lag behind the clock
  MaxExp        \* bound of the expiry times that commands set

ASSUME HashAssumption == Hash \in [Keys -> Nat] /\ {"empty", "tomb"} \cap Keys = {}
ASSUME SizeAssumption ==
  /\ MinSlots \in {2^i : i \in 1..10}
  /\ {ShrinkAbove, SweepBase, BatchSize, MaxTime, MaxLag, MaxExp} \subseteq Nat
  /\ BatchSize > 0
  /\ Costs \subseteq Nat

VARIABLES
  tab,      \* the shard: slots, count, tombs, used, nexp, expCur
  budget,   \* what is left of the sweep's budget in this tick; 0: no sweep
  clock,    \* time.Now()
  last      \* the last command and what it answered

vars == <<tab, budget, clock, last>>

\* F(v), with v evaluated once.
With(v, F(_)) == CHOOSE r \in {F(x) : x \in {v}} : TRUE

Slot(k, e, c) == [key |-> k, exp |-> e, cost |-> c]
Empty == Slot("empty", 0, 0)
Tomb  == Slot("tomb", 0, 0)
Absent == [exp |-> -1, cost |-> 0]

\* Expiry times that a command can set.
Exps == 0..MaxExp

IsItem(s)  == s.key \in Keys
Size(t)    == Cardinality(DOMAIN t.slots)
Items(t)   == {i \in DOMAIN t.slots : IsItem(t.slots[i])}
Fresh(n)   == [i \in 0..(n - 1) |-> Empty]
Expired(e, now) == e # 0 /\ e <= now

\* The sizes of tables: the smallest one, doubled.
Doubled[j \in Nat] == IF j = 0 THEN MinSlots ELSE 2 * Doubled[j - 1]

\* Smallest table that a rehash chooses for cnt items; 2 * cnt + 2 doublings are always enough.
Fitting(cnt) ==
  Doubled[Min({j \in 0..(2 * cnt + 2) : Doubled[j] * 3 >= (cnt + 1) * 4 * 2})]

-----------------------------------------------------------------------------
(***************************************************************************)
(* find.  Position d of a key's probe path in a table of n slots, and the  *)
(* distances at which the loop meets the key, a free slot or an empty one. *)
(***************************************************************************)
Probe(k, d, n) == (Hash[k] + d) % n

Distances(slots, k, Test(_)) ==
  LET n == Cardinality(DOMAIN slots)
  IN  {d \in 0..(n - 1) : Test(slots[Probe(k, d, n)])}

\* The loop of find ends for key k: the path meets k or an empty slot.
Ends(slots, k) == Distances(slots, k, LAMBDA s : s = Empty \/ s.key = k) # {}

\* The slot of the key or -1, and the first free slot before it or -1.
Find(t, k) ==
  LET Slots(stop, free) ==
        LET at == Probe(k, stop, Size(t))
        IN  [idx |-> IF t.slots[at] = Empty THEN -1 ELSE at,
             ins |-> IF free = {} \/ Min(free) > stop THEN -1
                     ELSE Probe(k, Min(free), Size(t))]
      Free == Distances(t.slots, k, LAMBDA s : s \in {Empty, Tomb})
  IN  With(Min(Distances(t.slots, k, LAMBDA s : s = Empty \/ s.key = k)),
           LAMBDA stop : With(Free, LAMBDA free : Slots(stop, free)))

\* Fault: the slot is always emptied.
DelEmpties(t, i) ==
  LET s == t.slots[i]
  IN  [t EXCEPT !.slots[i] = Empty,
                !.used = @ - s.cost,
                !.nexp = IF s.exp # 0 THEN @ - 1 ELSE @,
                !.count = @ - 1]

\* del: a slot before an empty one becomes empty, any other a tombstone.
Del(t, i) ==
  LET s    == t.slots[i]
      open == t.slots[(i + 1) % Size(t)] = Empty
  IN  [t EXCEPT !.slots[i] = IF open THEN Empty ELSE Tomb,
                !.used = @ - s.cost,
                !.nexp = IF s.exp # 0 THEN @ - 1 ELSE @,
                !.tombs = IF open THEN @ ELSE @ + 1,
                !.count = @ - 1]

\* Fault: an expired item is reported absent and left in its slot.
GetKeeps(t, k, now) ==
  With(Find(t, k), LAMBDA f :
    IF f.idx # -1 /\ Expired(t.slots[f.idx].exp, now)
    THEN [tab |-> t, idx |-> -1, ins |-> IF f.ins = -1 THEN f.idx ELSE f.ins]
    ELSE [tab |-> t, idx |-> f.idx, ins |-> f.ins])

\* get: an item that has expired by now is deleted, and its slot is free.
Get(t, k, now) ==
  With(Find(t, k), LAMBDA f :
    IF f.idx # -1 /\ Expired(t.slots[f.idx].exp, now)
    THEN [tab |-> Del(t, f.idx), idx |-> -1,
          ins |-> IF f.ins = -1 THEN f.idx ELSE f.ins]
    ELSE [tab |-> t, idx |-> f.idx, ins |-> f.ins])

\* One item of rehash goes to the first empty slot of its path.
Place(slots, s) ==
  With(slots, LAMBDA q :
    [q EXCEPT ![Probe(s.key, Min(Distances(q, s.key, LAMBDA x : x = Empty)),
                      Cardinality(DOMAIN q))] = s])

\* The loop of rehash: the items of the old slots are placed anew, in slot order.
Placed(old, n) ==
  LET placed[i \in 0..Cardinality(DOMAIN old)] ==
        IF i = 0 THEN Fresh(n)
        ELSE IF IsItem(old[i - 1]) THEN Place(placed[i - 1], old[i - 1])
        ELSE placed[i - 1]
  IN  placed[Cardinality(DOMAIN old)]

\* rehash; the sweep starts over.
Rehash(t, n) == [t EXCEPT !.slots = Placed(t.slots, n), !.tombs = 0, !.expCur = 0]

\* grow, called before a lookup that may insert.
Grow(t) ==
  IF (t.count + t.tombs + 1) * 4 > Size(t) * 3 THEN Rehash(t, Fitting(t.count)) ELSE t

\* grow0, as expiryLoop calls it.
ShrinkIfSparse(t) ==
  IF t.count * 8 < Size(t) /\ Size(t) > ShrinkAbove
  THEN Rehash(t, Fitting(t.count)) ELSE t

Insert(t, ins, s) ==
  [t EXCEPT !.slots[ins] = s,
            !.tombs = IF t.slots[ins] = Tomb THEN @ - 1 ELSE @,
            !.count = @ + 1,
            !.nexp = IF s.exp # 0 THEN @ + 1 ELSE @,
            !.used = @ + s.cost]

SetExp(t, i, e) ==
  LET old == t.slots[i].exp
  IN  [t EXCEPT !.slots[i].exp = e,
                !.nexp = IF old = 0 /\ e # 0 THEN @ + 1
                         ELSE IF old # 0 /\ e = 0 THEN @ - 1 ELSE @]

\* setStr where the item's memory is large enough, APPEND, and the changes of
\* a list or a hash: the item stays.
SetInPlace(t, i, s) ==
  [SetExp(t, i, s.exp) EXCEPT !.slots[i].cost = s.cost,
                              !.used = @ + s.cost - t.slots[i].cost]

\* replace: another item in the same slot.
Replace(t, i, s) ==
  LET One(e) == IF e # 0 THEN 1 ELSE 0
  IN  [t EXCEPT !.slots[i] = s,
                !.used = @ + s.cost - t.slots[i].cost,
                !.nexp = @ - One(t.slots[i].exp) + One(s.exp)]

-----------------------------------------------------------------------------
\* c.now was read when the command's bytes arrived, before it waited for the
\* commands before it and for the mutex.
Nows == {now \in 0..clock : clock - now <= MaxLag}

Answer(cmd, k, g) ==
  last' = [cmd |-> cmd, key |-> k,
           reply |-> IF g.idx = -1 THEN Absent
                     ELSE [exp  |-> g.tab.slots[g.idx].exp,
                           cost |-> g.tab.slots[g.idx].cost]]

\* GET, STRLEN, TYPE, EXISTS, TTL, LLEN, LRANGE, LINDEX, HGET, ... on one key.
Read(k, now) ==
  \E g \in {Get(tab, k, now)} :
      /\ tab' = g.tab
      /\ Answer("read", k, g)
      /\ UNCHANGED <<budget, clock>>

\* A write that answers with an error after its lookup (WRONGTYPE, NX, XX,
\* overflow, OOM): the table may have been rehashed.
Refuse(k, now) ==
  \E t \in {Grow(tab)} : \E g \in {Get(t, k, now)} :
      /\ tab' = g.tab
      /\ Answer("read", k, g)
      /\ UNCHANGED <<budget, clock>>

\* SET, MSET, INCR, APPEND, LPUSH, HSET, ...: the key is stored with cost c
\* and with expiry time e, or with the one it has.
Write(k, now, c, e, keep) ==
  \E t \in {Grow(tab)} : \E g \in {Get(t, k, now)} :
      /\ LET s == Slot(k, IF keep /\ g.idx # -1 THEN g.tab.slots[g.idx].exp ELSE e, c)
         IN  tab' \in IF g.idx = -1 THEN {Insert(g.tab, g.ins, s)}
                     ELSE {SetInPlace(g.tab, g.idx, s), Replace(g.tab, g.idx, s)}
      /\ Answer("write", k, g)
      /\ UNCHANGED <<budget, clock>>

\* DEL, EXPIRE with a time that has passed, and the pop or HDEL that empties
\* its container.
Delete(k, now) ==
  \E g \in {Get(tab, k, now)} :
      /\ tab' = IF g.idx = -1 THEN g.tab ELSE Del(g.tab, g.idx)
      /\ Answer("delete", k, g)
      /\ UNCHANGED <<budget, clock>>

\* EXPIRE (e > now) and PERSIST (e = 0).
SetExpiry(k, now, e) ==
  \E g \in {Get(tab, k, now)} :
      /\ tab' = IF g.idx = -1 THEN g.tab ELSE SetExp(g.tab, g.idx, e)
      /\ Answer("expire", k, g)
      /\ UNCHANGED <<budget, clock>>

FreshTable ==
  [slots |-> Fresh(MinSlots), count |-> 0, tombs |-> 0, used |-> 0, nexp |-> 0, expCur |-> 0]

Flush ==
  /\ tab' = FreshTable
  /\ last' = [cmd |-> "flush"]
  /\ UNCHANGED <<budget, clock>>

\* evictOne: the choice among the sampled items is left open.
Evict(k) ==
  /\ \E i \in Items(tab) : tab.slots[i].key = k /\ tab' = Del(tab, i)
  /\ last' = [cmd |-> "evict", key |-> k]
  /\ UNCHANGED <<budget, clock>>

-----------------------------------------------------------------------------
\* Fault: the cursor wraps before the last slot.
VisitShort(t) ==
  With(t, LAMBDA u :
    LET i == IF u.expCur >= Size(u) - 1 THEN 0 ELSE u.expCur
    IN  [IF IsItem(u.slots[i]) /\ Expired(u.slots[i].exp, clock) THEN Del(u, i) ELSE u
           EXCEPT !.expCur = i + 1])

\* One slot of the sweep.
Visit(t) ==
  With(t, LAMBDA u :
    LET i == IF u.expCur >= Size(u) THEN 0 ELSE u.expCur
    IN  [IF IsItem(u.slots[i]) /\ Expired(u.slots[i].exp, clock) THEN Del(u, i) ELSE u
           EXCEPT !.expCur = i + 1])

\* m slots of the sweep.
Swept(t, m) ==
  LET swept[j \in 0..m] == IF j = 0 THEN t ELSE Visit(swept[j - 1])
  IN  swept[m]

\* A critical section of expiryLoop.  The first one of a tick sets the budget.
Sweep ==
  /\ budget > 0 \/ tab.nexp > 0
  /\ LET b == IF budget > 0 THEN budget ELSE Size(tab) \div 8 + SweepBase
         m == Min({BatchSize, b})
     IN  /\ tab' = With(Swept(tab, m), ShrinkIfSparse)
         /\ budget' = b - m
  /\ last' = [cmd |-> "none"]
  /\ UNCHANGED clock

\* A tick that finds no item with an expiry time.
SweepSkip ==
  /\ budget = 0 /\ tab.nexp = 0
  /\ tab' = ShrinkIfSparse(tab)
  /\ last' = [cmd |-> "none"]
  /\ UNCHANGED <<budget, clock>>

Tick ==
  /\ clock < MaxTime
  /\ clock' = clock + 1
  /\ last' = [cmd |-> "none"]
  /\ UNCHANGED <<tab, budget>>

Init == tab = FreshTable /\ budget = 0 /\ clock = 0 /\ last = [cmd |-> "none"]

\* EX, PX and EXPIRE count from c.now.
Later(now) == (now + 1)..MaxExp

Command(k, now) ==
  \/ Read(k, now)
  \/ Refuse(k, now)
  \/ \E c \in Costs, e \in {0} \cup Later(now) : Write(k, now, c, e, FALSE)
  \/ \E c \in Costs : Write(k, now, c, 0, TRUE)
  \/ Delete(k, now)
  \/ \E e \in {0} \cup Later(now) : SetExpiry(k, now, e)

Next ==
  \/ \E k \in Keys, now \in Nows : Command(k, now)
  \/ \E k \in Keys : Evict(k)
  \/ Flush
  \/ Sweep
  \/ SweepSkip
  \/ Tick

Spec == Init /\ [][Next]_vars

\* The ticker of expiryLoop fires again and again, and time passes.
Fairness == WF_vars(Sweep) /\ WF_vars(Tick)

FairSpec == Spec /\ Fairness

-----------------------------------------------------------------------------
TypeOK ==
  /\ DOMAIN tab.slots = 0..(Size(tab) - 1)
  /\ \E j \in 0..Size(tab) : Size(tab) = Doubled[j]
  /\ \A i \in DOMAIN tab.slots :
       tab.slots[i] \in [key : Keys, exp : Exps, cost : Costs] \cup {Empty, Tomb}
  /\ {tab.count, tab.tombs, tab.used, tab.nexp} \subseteq Nat
  /\ tab.expCur \in 0..Size(tab)
  /\ budget \in Nat
  /\ clock \in 0..MaxTime

\* The unbounded loop of find ends for every key, present or not: grow keeps
\* an empty slot, whatever tombstones the deletions left.
ProbeEnds == \A k \in Keys : Ends(tab.slots, k)

\* Every item is where find looks for it, and no key has two items: neither
\* the emptied slots of del nor the reused ones of insert cut a probe path.
EveryItemFound == \A i \in Items(tab) : Find(tab, tab.slots[i].key).idx = i

\* The counters that grow, expiryLoop, DBSIZE and INFO rely on are those of
\* the table.
CountersMatch ==
  /\ tab.count = Cardinality(Items(tab))
  /\ tab.tombs = Cardinality({i \in DOMAIN tab.slots : tab.slots[i] = Tomb})
  /\ tab.nexp = Cardinality({i \in Items(tab) : tab.slots[i].exp # 0})
  /\ tab.used = SumFunction([i \in Items(tab) |-> tab.slots[i].cost])

\* The shard as find, insert, del and rehash leave it (store.go:195-337).
TableSound == TypeOK /\ ProbeEnds /\ EveryItemFound /\ CountersMatch

\* The table as a map.
AsMap ==
  [k \in {tab.slots[i].key : i \in Items(tab)} |->
     LET i == CHOOSE j \in Items(tab) : tab.slots[j].key = k
     IN  [exp |-> tab.slots[i].exp, cost |-> tab.slots[i].cost]]

Map == INSTANCE KeyMap WITH db <- AsMap

\* The commands answer, and change the shard, as they would with a map: no
\* operation of the table, rehash and sweep included, loses or revives a key.
ImplementsMap == Map!Spec

ExpiredKey(k) == \E i \in Items(tab) : tab.slots[i].key = k /\ Expired(tab.slots[i].exp, clock)

\* The sweep finds every expired item that nobody asks for, unless the table
\* is rehashed or flushed again and again, which sends the cursor back.
SweepReclaims ==
  []<>(tab.expCur = 0) \/ \A k \in Keys : ExpiredKey(k) ~> ~ExpiredKey(k)

\* "Expired keys must also be reclaimed without being accessed: within 2
\* seconds after expiry" (src/redis/SPEC.md): here only that it happens at all.
AlwaysReclaimed == \A k \in Keys : ExpiredKey(k) ~> ~ExpiredKey(k)

\* "An expired key is never visible to any command" (src/redis/SPEC.md).
ExpiredNeverVisible ==
  last.cmd = "read" /\ last.reply # Absent => ~Expired(last.reply.exp, clock)
=============================================================================
