----------------------------- MODULE MemoryLimit -----------------------------
(***************************************************************************)
(* Accounted memory and eviction of the Go Redis server (store.go and      *)
(* commands.go under src/redis/impl/go-1).                                 *)
(*                                                                         *)
(* A write command checks its estimate against maxMemory, writes and       *)
(* updates globalUsed under the mutexes of its shards, and then, without   *)
(* them, evicts keys other than its own until the limit is kept.  Clients  *)
(* do this at the same time.  A value is the lengths of its parts; a list  *)
(* or a hash carries the cost that the code keeps beside it.               *)
(***************************************************************************)
EXTENDS Integers, FiniteSets, Sequences, Functions

CONSTANTS
  MemClients,
  MemKeys,
  Fields,     \* of hashes
  KeyBase,    \* 64 + len(key)
  ElemBase,   \* 16, of a list's element
  FieldBase,  \* 32 + len(field)
  Lengths,    \* of the values that clients send
  MaxMemory,
  MaxList     \* elements of a list; bounds the model

ASSUME MemoryAssumption ==
  /\ IsFiniteSet(MemKeys) /\ IsFiniteSet(Fields)
  /\ {KeyBase, ElemBase, FieldBase, MaxMemory, MaxList} \subseteq Nat
  /\ Lengths \subseteq Nat

VARIABLES
  mem,        \* the items
  used,       \* globalUsed
  evictor,    \* what a client that has written protects, and whether it saw the limit exceeded
  gaveUp,     \* history: evictOne gave up while there were keys to evict
  overgrown   \* history: keys that INCR made larger than the limit

memVars == <<mem, used, evictor, gaveUp, overgrown>>

NoItem  == [typ |-> "none", len |-> 0, list |-> <<>>, hash |-> [f \in {} |-> 0], cost |-> 0]
NoEvict == [keys |-> {}, over |-> FALSE]

MemInit ==
  /\ mem = [k \in MemKeys |-> NoItem]
  /\ used = 0
  /\ evictor = [c \in MemClients |-> NoEvict]
  /\ gaveUp = FALSE
  /\ overgrown = {}

LiveKeys == {k \in MemKeys : mem[k].typ # "none"}

Total(lens) == SumFunction(lens)

\* shard.cost
Cost(it) == CASE it.typ = "none" -> 0
              [] it.typ = "str" -> KeyBase + it.len
              [] OTHER -> KeyBase + it.cost

\* What the keys of K are accounted with.
Charged(K) == SumFunctionOnSet([k \in MemKeys |-> Cost(mem[k])], K)

\* The cost of the container that a command is to extend.
Current(k) == IF mem[k].typ = "none" THEN KeyBase ELSE Cost(mem[k])

Idle(c) == evictor[c] = NoEvict

\* addUsed when "it" takes the place of what k has.
Account(k, it) == used + Cost(it) - Cost(mem[k])

\* The write itself; afterWrite follows.
PutItem(c, k, it) ==
  /\ mem' = [mem EXCEPT ![k] = it]
  /\ used' = Account(k, it)
  /\ evictor' = [evictor EXCEPT ![c].keys = {k}]
  /\ UNCHANGED gaveUp

Str(n) == [NoItem EXCEPT !.typ = "str", !.len = n]

-----------------------------------------------------------------------------
(* Strings.                                                                *)

\* SET replaces a value of any type.
SetStr(c, k, n) ==
  /\ Idle(c) /\ KeyBase + n <= MaxMemory
  /\ PutItem(c, k, Str(n)) /\ UNCHANGED overgrown

\* MSET, with the shards of all its keys locked.
Mset(c, K, n) ==
  /\ Idle(c) /\ Cardinality(K) * (KeyBase + n) <= MaxMemory
  /\ mem' = [k \in MemKeys |-> IF k \in K THEN Str(n) ELSE mem[k]]
  /\ used' = used + Cardinality(K) * (KeyBase + n) - Charged(K)
  /\ evictor' = [evictor EXCEPT ![c].keys = K]
  /\ UNCHANGED <<gaveUp, overgrown>>

\* incrBy has no estimate; the number may get any number of digits.
IncrBy(c, k, n) ==
  /\ Idle(c) /\ mem[k].typ \in {"none", "str"}
  /\ PutItem(c, k, Str(n))
  /\ overgrown' = IF KeyBase + n > MaxMemory THEN overgrown \cup {k} ELSE overgrown

Extend(c, k, n) ==
  /\ Idle(c) /\ mem[k].typ \in {"none", "str"}
  /\ KeyBase + mem[k].len + n <= MaxMemory
  /\ PutItem(c, k, Str(mem[k].len + n)) /\ UNCHANGED overgrown

-----------------------------------------------------------------------------
(* Lists and hashes.                                                       *)

PushFits(k, vs) == Current(k) + Total(vs) + ElemBase * Len(vs) <= MaxMemory

Reversed(vs) == [i \in 1..Len(vs) |-> vs[Len(vs) - i + 1]]

PushList(c, k, vs, front) ==
  /\ Idle(c) /\ mem[k].typ \in {"none", "list"} /\ PushFits(k, vs)
  /\ Len(mem[k].list) + Len(vs) <= MaxList
  /\ PutItem(c, k, [mem[k] EXCEPT !.typ = "list",
                                  !.list = IF front THEN Reversed(vs) \o @ ELSE @ \o vs,
                                  !.cost = @ + Total(vs) + ElemBase * Len(vs)])
  /\ UNCHANGED overgrown

\* A command that only takes away does not evict; it deletes an empty container.
Shrink(k, it, empty) ==
  LET left == IF empty THEN NoItem ELSE it
  IN  /\ mem' = [mem EXCEPT ![k] = left] /\ used' = Account(k, left)
      /\ UNCHANGED <<evictor, gaveUp, overgrown>>

PopList(c, k, n, front) ==
  /\ Idle(c) /\ mem[k].typ = "list" /\ n <= Len(mem[k].list)
  /\ LET l    == mem[k].list
         out  == IF front THEN SubSeq(l, 1, n) ELSE SubSeq(l, Len(l) - n + 1, Len(l))
         rest == IF front THEN SubSeq(l, n + 1, Len(l)) ELSE SubSeq(l, 1, Len(l) - n)
     IN  Shrink(k, [mem[k] EXCEPT !.list = rest, !.cost = @ - ElemBase * n - Total(out)], rest = <<>>)

NewFields(k, F) == F \ DOMAIN mem[k].hash

\* Fault: a field that is overwritten is counted again.
FieldDeltaFull(k, F, n) == Cardinality(F) * (FieldBase + n)

\* What setting the fields of F to values of length n adds.
FieldDelta(k, F, n) ==
  Cardinality(NewFields(k, F)) * FieldBase + Cardinality(F) * n
    - SumFunctionOnSet(mem[k].hash, F \ NewFields(k, F))

WithFields(k, F, n) ==
  [mem[k] EXCEPT !.typ = "hash", !.cost = @ + FieldDelta(k, F, n),
                 !.hash = [f \in F \cup DOMAIN @ |-> IF f \in F THEN n ELSE @[f]]]

\* HSET: the estimate counts a field that is overwritten twice.
Hset(c, k, F, n) ==
  /\ Idle(c) /\ mem[k].typ \in {"none", "hash"}
  /\ Current(k) + Cardinality(F) * (FieldBase + n) <= MaxMemory
  /\ PutItem(c, k, WithFields(k, F, n)) /\ UNCHANGED overgrown

\* HINCRBY: the estimate counts the key twice as well.
Hincrby(c, k, f, n) ==
  /\ Idle(c) /\ mem[k].typ \in {"none", "hash"}
  /\ KeyBase + FieldBase + n + Cost(mem[k]) <= MaxMemory
  /\ PutItem(c, k, WithFields(k, {f}, n)) /\ UNCHANGED overgrown

Hdel(c, k, F) ==
  /\ Idle(c) /\ mem[k].typ = "hash"
  /\ LET gone == F \ NewFields(k, F)
         left == [f \in DOMAIN mem[k].hash \ gone |-> mem[k].hash[f]]
     IN  Shrink(k, [mem[k] EXCEPT !.hash = left, !.cost = @ - Cardinality(gone) * FieldBase
                                              - SumFunctionOnSet(mem[k].hash, gone)],
                DOMAIN left = {})

\* DEL, FLUSHALL, or the expiry of the key.
Drop(k) == k \in LiveKeys /\ Shrink(k, NoItem, TRUE)

-----------------------------------------------------------------------------
(* evict.                                                                  *)

Kept == used <= MaxMemory

\* The test of afterWrite and of the loop of evict.
CheckLimit(c) ==
  /\ ~Idle(c) /\ ~evictor[c].over
  /\ evictor' = [evictor EXCEPT ![c] = IF Kept THEN NoEvict ELSE [@ EXCEPT !.over = TRUE]]
  /\ UNCHANGED <<mem, used, gaveUp, overgrown>>

\* evictOne samples a shard and deletes the least recently used key of the sample: any key here.
EvictOne(c) ==
  /\ evictor[c].over
  /\ \E k \in LiveKeys \ evictor[c].keys :
       mem' = [mem EXCEPT ![k] = NoItem] /\ used' = Account(k, NoItem)
  /\ evictor' = [evictor EXCEPT ![c].over = FALSE]
  /\ UNCHANGED <<gaveUp, overgrown>>

\* It has drawn 4 * nShards shards and found nothing in them.
GiveUp(c) ==
  /\ evictor[c].over
  /\ evictor' = [evictor EXCEPT ![c] = NoEvict]
  /\ gaveUp' = (gaveUp \/ LiveKeys \ evictor[c].keys # {})
  /\ UNCHANGED <<mem, used, overgrown>>

MemNext ==
  \/ \E c \in MemClients : CheckLimit(c) \/ EvictOne(c) \/ GiveUp(c)
  \/ \E c \in MemClients, K \in (SUBSET MemKeys) \ {{}}, n \in Lengths : Mset(c, K, n)
  \/ \E c \in MemClients, k \in MemKeys :
       \/ \E n \in Lengths : SetStr(c, k, n) \/ Extend(c, k, n)
       \/ \E n \in 1..MaxMemory : IncrBy(c, k, n)
       \/ \E vs \in UNION {[1..n -> Lengths] : n \in 1..2}, front \in BOOLEAN : PushList(c, k, vs, front)
       \/ \E n \in 1..MaxList, front \in BOOLEAN : PopList(c, k, n, front)
       \/ \E F \in (SUBSET Fields) \ {{}} : Hdel(c, k, F) \/ \E n \in Lengths : Hset(c, k, F, n)
       \/ \E f \in Fields, n \in Lengths : Hincrby(c, k, f, n)
  \/ \E k \in MemKeys : Drop(k)

MemSpec == MemInit /\ [][MemNext]_memVars

-----------------------------------------------------------------------------
\* value_cost as SPEC.md defines it, from the value itself.
ValueCost(it) ==
  CASE it.typ = "none" -> 0
    [] it.typ = "str" -> KeyBase + it.len
    [] it.typ = "list" -> KeyBase + Total(it.list) + ElemBase * Len(it.list)
    [] it.typ = "hash" -> KeyBase + SumFunction([f \in DOMAIN it.hash |-> FieldBase + it.hash[f]])

\* Types; a list or a hash in the table is never empty, and one that is not there costs nothing.
MemTypeOK ==
  /\ used \in Nat /\ gaveUp \in BOOLEAN /\ overgrown \subseteq MemKeys
  /\ \A c \in MemClients : evictor[c].keys \subseteq MemKeys /\ evictor[c].over \in BOOLEAN
  /\ \A k \in MemKeys :
       /\ mem[k].typ \in {"none", "str", "list", "hash"}
       /\ mem[k].typ = "list" => mem[k].list # <<>>
       /\ mem[k].typ = "hash" => DOMAIN mem[k].hash # {}

\* addUsed (store.go:177): globalUsed, kept by increments in some twenty places, is the sum of
\* what the keys cost by definition ("used_memory", src/redis/SPEC.md).
UsedIsSum == used = SumFunction([k \in MemKeys |-> ValueCost(mem[k])])

\* The estimates of the commands (errOOM): no key alone exceeds the limit, so that evicting
\* the others can keep it; except the keys of INCR, which has no estimate (commands.go:513).
KeyFits == \A k \in MemKeys \ overgrown : ValueCost(mem[k]) <= MaxMemory

\* evict (store.go:456): once every client that has written has had its reply, the limit is
\* kept, in whatever order their evictions and writes interleave, unless evictOne gave up
\* while there were keys left or INCR wrote a key that does not fit.
LimitKept == (\A c \in MemClients : Idle(c)) => used <= MaxMemory \/ gaveUp \/ overgrown # {}

\* The account of the memory (store.go:177, 456) is exact, and it is bounded.
MemorySound == MemTypeOK /\ UsedIsSum /\ KeyFits /\ LimitKept
=============================================================================
