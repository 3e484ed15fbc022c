----------------------------- MODULE HookProofs -----------------------------
(***************************************************************************)
(* Proofs about the cache of webhooks of go-1, for any number of callers,  *)
(* hooks, connections and changes; and about the dispatcher of go-plain-1, *)
(* for any number of requests, issues, deliveries and crashes.             *)
(***************************************************************************)
EXTENDS HookCache, PlainDispatcher, FiniteSetTheorems, WellFoundedInduction, TLAPS

USE DEF InTransaction, WithRow

LEMMA MaxPair ==
  ASSUME NEW a \in Nat, NEW b \in Nat
  PROVE  Max({a, b}) \in {a, b} /\ Max({a, b}) >= a /\ Max({a, b}) >= b
<1>1. \E x \in {a, b} : \A y \in {a, b} : x >= y
  OBVIOUS
<1> QED BY <1>1 DEF Max

\* The records the actions build have the declared types.
LEMMA HookRecords ==
  /\ NoList \in HookLists /\ NoCall \in HookCalls
  /\ NoList.ver = 0 /\ ~ NoList.cached
  /\ NoCall.at = "idle" /\ NoCall.gen = 0 /\ NoCall.floor = 0 /\ NoCall.ver = 0
<1>1. NoList \in HookLists
  BY DEF NoList, HookLists
<1>2. NoList.ver = 0 /\ ~ NoList.cached
  BY DEF NoList
<1>3. NoCall \in HookCalls
  BY <1>1, Zenon DEF NoCall, HookCalls
<1>4. NoCall.at = "idle" /\ NoCall.gen = 0 /\ NoCall.floor = 0 /\ NoCall.ver = 0
  BY DEF NoCall
<1> QED BY <1>1, <1>2, <1>3, <1>4

\* What a handler is left with once its statement has been carried out.
LEMMA ChangedCall ==
  ASSUME NEW v \in Nat
  PROVE  \E k \in HookCalls :
           /\ k = [NoCall EXCEPT !.at = "changed", !.ver = v]
           /\ k.at = "changed" /\ k.ver = v /\ k.gen = 0 /\ k.floor = 0
<1>1. [NoCall EXCEPT !.at = "changed", !.ver = v] \in HookCalls
  BY HookRecords DEF HookCalls
<1>2. [NoCall EXCEPT !.at = "changed", !.ver = v].at = "changed"
      /\ [NoCall EXCEPT !.at = "changed", !.ver = v].ver = v
  BY DEF NoCall
<1>3. [NoCall EXCEPT !.at = "changed", !.ver = v].gen = 0
      /\ [NoCall EXCEPT !.at = "changed", !.ver = v].floor = 0
  BY DEF NoCall
<1> QED BY <1>1, <1>2, <1>3

\* What a step of c, whose call becomes k, does to the rows and keys: nothing, or they are free
\* from now on, or it takes one.
HolderMoves(c, k) ==
  \/ holder' = holder /\ (k.at \in WithRow \/ call[c].at \notin {"keyed"} \cup WithRow)
  \/ LetGo(c)
  \/ \E r \in IdemKeys : /\ holder' = [holder EXCEPT ![r] = c]
                         /\ call[c].at = "begun" /\ k.at = "keyed"
  \/ \E r \in LockedRows : holder' = [holder EXCEPT ![r] = c] /\ k.at \in WithRow

LEMMA HeldKeeps ==
  ASSUME HooksInv, NEW c \in Callers, NEW k \in HookCalls,
         call' = [call EXCEPT ![c] = k], HolderMoves(c, k),
         conns' = IF k.at \in InTransaction THEN conns \cup {c} ELSE conns \ {c},
         k.at = "begun" => k.key \in IdemKeys, k.at \in {"begun", "keyed"} => k.row \in LockedRows
  PROVE  ConnsHeld'
<1>1. call'[c] = k /\ \A d \in Callers \ {c} : call'[d] = call[d]
  BY DEF HooksInv, HooksTypes
<1>2. ConnsHeld
  BY DEF HooksInv
<1>3. \A d \in Callers : /\ d \in conns' <=> call'[d].at \in InTransaction
                         /\ call'[d].at = "begun" => call'[d].key \in IdemKeys
                         /\ call'[d].at \in {"begun", "keyed"} => call'[d].row \in LockedRows
  BY <1>1, <1>2 DEF ConnsHeld
<1>4. LockedRows \cap IdemKeys = {} /\ "none" \notin Callers
  BY PoolAssumption
<1>5. holder \in [LockedRows \cup IdemKeys -> Callers \cup {"none"}]
  BY <1>2 DEF ConnsHeld
<1>6. \A r \in LockedRows \cup IdemKeys :
        holder[r] = c => call[c].at \in {"keyed"} \cup WithRow
  BY <1>2, <1>4 DEF ConnsHeld
<1>7. /\ holder' \in [LockedRows \cup IdemKeys -> Callers \cup {"none"}]
      /\ \A r \in IdemKeys : \/ holder'[r] \in {"none", holder[r]} \ {c}
                             \/ holder'[r] = c /\ k.at \in {"keyed"} \cup WithRow
      /\ \A r \in LockedRows : \/ holder'[r] \in {"none", holder[r]} \ {c}
                               \/ holder'[r] = c /\ k.at \in WithRow
  <2>1. CASE holder' = holder /\ (k.at \in WithRow \/ call[c].at \notin {"keyed"} \cup WithRow)
    BY <1>5, <1>6, <2>1
  <2>2. CASE LetGo(c)
    BY <1>4, <1>5, <2>2 DEF LetGo
  <2>3. CASE \E r \in IdemKeys : /\ holder' = [holder EXCEPT ![r] = c]
                                 /\ call[c].at = "begun" /\ k.at = "keyed"
    BY <1>4, <1>5, <1>6, <2>3
  <2>4. CASE \E r \in LockedRows : holder' = [holder EXCEPT ![r] = c] /\ k.at \in WithRow
    BY <1>4, <1>5, <1>6, <2>4
  <2> QED BY <2>1, <2>2, <2>3, <2>4 DEF HolderMoves
<1>8. ASSUME NEW r \in IdemKeys, holder'[r] # "none"
      PROVE  call'[holder'[r]].at \in {"keyed"} \cup WithRow
  BY <1>1, <1>2, <1>7, <1>8 DEF ConnsHeld
<1>9. ASSUME NEW r \in LockedRows, holder'[r] # "none"
      PROVE  call'[holder'[r]].at \in WithRow
  BY <1>1, <1>2, <1>7, <1>9 DEF ConnsHeld
<1> QED BY <1>3, <1>7, <1>8, <1>9 DEF ConnsHeld

\* A step that moves one call on, begins or ends its transaction, and may store its list.
LEMMA MoveKeeps ==
  ASSUME HooksInv, NEW c \in Callers, NEW k \in HookCalls,
         call' = [call EXCEPT ![c] = k], call[c].at # "changed",
         UNCHANGED <<hooks, gen, ver, answered, lost>>,
         cache' = cache \/ (cache' = k.list /\ Fresh(k.list)), HolderMoves(c, k),
         k.at = "begun" => k.key \in IdemKeys, k.at \in {"begun", "keyed"} => k.row \in LockedRows,
         conns' = IF k.at \in InTransaction THEN conns \cup {c} ELSE conns \ {c},
         c \in conns \/ Connection \/ k.at \notin InTransaction,
         k.gen <= gen, k.floor <= answered, k.ver <= ver,
         k.at = "read" /\ k.gen = gen => Fresh(k.list),
         k.at \in {"read", "got", "told"} => k.list.ver >= k.floor
  PROVE  HooksInv'
<1>1. /\ call' \in [Callers -> HookCalls] /\ call'[c] = k
      /\ \A d \in Callers \ {c} : call'[d] = call[d]
  BY DEF HooksInv, HooksTypes
<1>2. \A known : Fresh(known) => Fresh(known)'
  <2> SUFFICES ASSUME NEW known, Fresh(known) PROVE Fresh(known)'
    OBVIOUS
  <2>1. \A d \in Callers : call[d].at = "changed" => call'[d] = call[d]
    BY <1>1
  <2> QED BY <2>1 DEF Fresh
<1>3. conns' \subseteq Callers /\ IsFiniteSet(conns') /\ Cardinality(conns') <= Pool
  <2>1. conns \subseteq Callers /\ IsFiniteSet(conns) /\ Cardinality(conns) <= Pool
    BY DEF HooksInv, HooksTypes
  <2>2. Cardinality(conns) \in Nat
    BY <2>1, FS_CardinalityType
  <2>3. /\ IsFiniteSet(conns \ {c}) /\ Cardinality(conns \ {c}) <= Cardinality(conns)
        /\ Cardinality(conns \ {c}) \in Nat
    <3>1. IsFiniteSet(conns \ {c}) /\ Cardinality(conns \ {c}) <= Cardinality(conns)
      <4>1. CASE c \in conns
        <5>1. PICK n \in Nat : n = Cardinality(conns)
          BY <2>2
        <5>2. IsFiniteSet(conns \ {c}) /\ Cardinality(conns \ {c}) = Cardinality(conns) - 1
          BY <2>1, <4>1, FS_RemoveElement, Zenon
        <5>3. Cardinality(conns \ {c}) = n - 1
          BY <5>1, <5>2
        <5>4. n - 1 <= n
          BY <5>1
        <5> QED BY ONLY <5>1, <5>2, <5>3, <5>4, Zenon
      <4>2. CASE c \notin conns
        <5>1. conns \ {c} = conns
          BY <4>2
        <5>2. Cardinality(conns) <= Cardinality(conns)
          BY <2>2
        <5> QED BY <2>1, <5>1, <5>2
      <4> QED BY <4>1, <4>2
    <3>2. PICK rest : rest = conns \ {c}
      OBVIOUS
    <3>3. Cardinality(rest) \in Nat
      BY <3>1, <3>2, FS_CardinalityType
    <3> QED BY <3>1, <3>2, <3>3
  <2>4. /\ IsFiniteSet(conns \cup {c})
        /\ Cardinality(conns \cup {c}) = IF c \in conns THEN Cardinality(conns)
                                         ELSE Cardinality(conns) + 1
    BY <2>1, FS_AddElement
  <2>5. CASE k.at \in InTransaction
    BY <2>1, <2>2, <2>4, <2>5, PoolAssumption DEF Connection
  <2>6. CASE k.at \notin InTransaction
    BY <2>1, <2>2, <2>3, <2>6, PoolAssumption
  <2> QED BY <2>5, <2>6
<1>4. cache' \in HookLists /\ cache'.ver <= ver
  BY DEF HooksInv, HooksTypes, HookCalls, Fresh
<1>5. HooksTypes'
  BY <1>1, <1>3, <1>4 DEF HooksInv, HooksTypes
<1>6. ListsFresh'
  <2>1. cache'.cached => Fresh(cache)'
    <3>1. PICK known : known = cache'
      OBVIOUS
    <3>2. cache'.cached => Fresh(known)
      BY <3>1 DEF HooksInv, ListsFresh
    <3> QED BY <1>2, <3>1, <3>2 DEF Fresh
  <2>2. ASSUME NEW d \in Callers
        PROVE  /\ call'[d].gen <= gen /\ call'[d].floor <= answered /\ call'[d].ver <= ver
               /\ call'[d].at \in {"read", "got", "told"} => call'[d].list.ver >= call'[d].floor
    BY <1>1 DEF HooksInv, ListsFresh
  <2>3. ASSUME NEW d \in Callers, call'[d].at = "read", call'[d].gen = gen
        PROVE  Fresh(call[d].list)'
    <3>1. PICK known : known = call'[d].list
      OBVIOUS
    <3>2. Fresh(known)
      BY <1>1, <2>3, <3>1 DEF HooksInv, ListsFresh
    <3> QED BY <1>2, <3>1, <3>2 DEF Fresh
  <2> QED BY <2>1, <2>2, <2>3 DEF ListsFresh
<1>7. ConnsHeld'
  BY HeldKeeps
<1> QED BY <1>5, <1>6, <1>7 DEF HooksInv

\* The statement of a handler of /webhooks is carried out.
LEMMA ChangeKeeps ==
  ASSUME HooksInv, NEW c \in Callers, call[c].at \in {"idle", "loaded"}, NEW h,
         NEW state \in {"on", "off", "gone"}, Change(c, h, state)
  PROVE  HooksInv'
<1>1. PICK k \in HookCalls :
        /\ call' = [call EXCEPT ![c] = k]
        /\ k.gen = 0 /\ k.floor = 0 /\ k.ver <= ver + 1
        /\ \/ k.at = "changed" /\ k.ver = ver + 1 /\ lost' = lost
           \/ k.at = "idle" /\ lost' = ver + 1
  <2>1. ver \in Nat /\ ver + 1 \in Nat
    BY DEF HooksInv, HooksTypes
  <2>2. PICK r \in HookCalls :
          /\ r = [NoCall EXCEPT !.at = "changed", !.ver = ver + 1]
          /\ r.at = "changed" /\ r.ver = ver + 1 /\ r.gen = 0 /\ r.floor = 0
    BY <2>1, ChangedCall
  <2>3. \/ call' = [call EXCEPT ![c] = r] /\ lost' = lost
        \/ call' = [call EXCEPT ![c] = NoCall] /\ lost' = ver + 1
    BY <2>2 DEF Change
  <2>4. CASE call' = [call EXCEPT ![c] = r] /\ lost' = lost
    <3>1. r.ver <= ver + 1
      BY <2>1, <2>2
    <3> QED BY <2>2, <2>4, <3>1
  <2>5. CASE call' = [call EXCEPT ![c] = NoCall] /\ lost' = ver + 1
    <3>1. NoCall.ver <= ver + 1
      BY <2>1, HookRecords
    <3> QED BY <2>5, <3>1, HookRecords
  <2> QED BY <2>3, <2>4, <2>5
<1>2. /\ call' \in [Callers -> HookCalls] /\ call'[c] = k
      /\ \A d \in Callers \ {c} : call'[d] = call[d]
  BY <1>1 DEF HooksInv, HooksTypes
<1>3. UNCHANGED <<cache, gen, conns, answered>> /\ ver' = ver + 1
      /\ hooks' = [hooks EXCEPT ![h] = state]
  BY DEF Change
<1>4. HooksTypes'
  <2>1. hooks' \in [HookIds -> {"unmade", "on", "off", "gone"}]
    BY <1>3 DEF HooksInv, HooksTypes
  <2>2. lost' \in 0..(ver + 1) /\ cache.ver <= ver + 1
    BY <1>1 DEF HooksInv, HooksTypes, HookLists
  <2> QED BY <1>2, <1>3, <2>1, <2>2 DEF HooksInv, HooksTypes
<1>5. ASSUME NEW known \in HookLists, Fresh(known) PROVE Fresh(known)'
  <2>1. known.ver \in Nat /\ ver \in Nat /\ lost \in 0..ver
    BY DEF HookLists, HooksInv, HooksTypes
  <2>2. lost' > known.ver \/ \E d \in Callers : call'[d].at = "changed" /\ call'[d].ver > known.ver
    BY <1>1, <1>2, <1>5, <2>1 DEF Fresh
  <2> QED BY <1>3, <1>5, <2>1, <2>2 DEF Fresh
<1>6. ListsFresh'
  <2>1. cache'.cached => Fresh(cache)'
    BY <1>3, <1>5 DEF HooksInv, HooksTypes, ListsFresh, Fresh
  <2>2. ASSUME NEW d \in Callers
        PROVE  /\ call'[d].gen <= gen /\ call'[d].floor <= answered /\ call'[d].ver <= ver + 1
               /\ call'[d].at \in {"read", "got", "told"} => call'[d].list.ver >= call'[d].floor
    <3>1. d # c => call[d].ver \in Nat
      BY DEF HooksInv, HooksTypes, HookCalls
    <3> QED BY <1>1, <1>2, <3>1 DEF HooksInv, HooksTypes, ListsFresh
  <2>3. ASSUME NEW d \in Callers, call'[d].at = "read", call'[d].gen = gen
        PROVE  Fresh(call[d].list)'
    <3>1. call'[d] = call[d] /\ call[d].list \in HookLists
      BY <1>1, <1>2, <2>3 DEF HooksInv, HooksTypes, HookCalls
    <3> QED BY <1>5, <2>3, <3>1 DEF HooksInv, ListsFresh, Fresh
  <2> QED BY <1>3, <2>1, <2>2, <2>3 DEF ListsFresh
<1>7. ConnsHeld'
  <2>1. c \notin conns /\ k.at \notin InTransaction
    BY <1>1 DEF HooksInv, ConnsHeld
  <2>2. holder' = holder /\ conns' = conns \ {c}
    BY <1>3, <2>1 DEF Change
  <2>3. HolderMoves(c, k)
    BY <2>2 DEF HolderMoves
  <2> QED BY <1>1, <2>1, <2>2, <2>3, HeldKeeps
<1> QED BY <1>4, <1>6, <1>7 DEF HooksInv

\* The cache is dropped: what was read before is of an older generation.
LEMMA InvalidateKeeps ==
  ASSUME HooksInv, NEW c \in Callers, InvalidateHooks(c)
  PROVE  HooksInv'
<1>1. /\ call' = [call EXCEPT ![c] = NoCall] /\ cache' = NoList /\ gen' = gen + 1
      /\ UNCHANGED <<hooks, conns, ver, lost>> /\ call[c].at = "changed"
  BY DEF InvalidateHooks
<1>2. call[c] \in HookCalls /\ call[c].ver \in Nat /\ call[c].ver <= ver
  BY DEF HooksInv, HooksTypes, ListsFresh, HookCalls
<1>3. answered' \in 0..ver /\ answered <= answered'
  BY <1>2, MaxPair DEF InvalidateHooks, HooksInv, HooksTypes
<1>4. /\ call' \in [Callers -> HookCalls] /\ call'[c] = NoCall
      /\ \A d \in Callers \ {c} : call'[d] = call[d]
  BY <1>1, HookRecords DEF HooksInv, HooksTypes
<1>5. HooksTypes'
  BY <1>1, <1>3, <1>4, HookRecords DEF HooksInv, HooksTypes
<1>6. ListsFresh'
  <2>1. ASSUME NEW d \in Callers
        PROVE  /\ call'[d].gen <= gen /\ call'[d].floor <= answered' /\ call'[d].ver <= ver
               /\ call'[d].at \in {"read", "got", "told"} => call'[d].list.ver >= call'[d].floor
    <3>1. call[d].floor \in Nat /\ call[d].floor <= answered /\ answered \in Nat
      BY DEF HooksInv, HooksTypes, ListsFresh, HookCalls
    <3> QED BY <1>3, <1>4, <3>1, HookRecords DEF HooksInv, HooksTypes, ListsFresh
  <2>2. \A d \in Callers : call'[d].gen \in Nat
    BY <1>4 DEF HookCalls
  <2>3. ASSUME NEW d \in Callers PROVE call'[d].gen <= gen' /\ call'[d].gen # gen'
    BY <1>1, <2>1, <2>2 DEF HooksInv, HooksTypes
  <2> QED BY <1>1, <2>1, <2>3, HookRecords DEF ListsFresh
<1>7. ConnsHeld'
  <2>1. c \notin conns /\ NoCall.at \notin InTransaction
    BY <1>1, HookRecords DEF HooksInv, ConnsHeld
  <2>2. holder' = holder /\ conns' = conns \ {c}
    BY <1>1, <2>1 DEF InvalidateHooks
  <2>3. HolderMoves(c, NoCall)
    BY <1>1, <2>2 DEF HolderMoves
  <2> QED BY <1>1, <2>1, <2>2, <2>3, HookRecords, HeldKeeps
<1> QED BY <1>5, <1>6, <1>7 DEF HooksInv

\* The transaction ends, and its rows and keys are free.
LEMMA EndKeeps ==
  ASSUME HooksInv, NEW c \in Callers, call[c].at # "changed", End(c)
  PROVE  HooksInv'
<1>1. NoCall.gen <= gen /\ NoCall.floor <= answered /\ NoCall.ver <= ver
  BY HookRecords DEF HooksInv, HooksTypes
<1>2. NoCall.at \notin InTransaction /\ NoCall.at = "idle"
  BY HookRecords
<1>3. /\ call' = [call EXCEPT ![c] = NoCall] /\ conns' = conns \ {c}
      /\ UNCHANGED <<hooks, cache, gen, ver, answered, lost>>
      /\ HolderMoves(c, NoCall)
  BY DEF End, HolderMoves
<1> QED BY <1>1, <1>2, <1>3, HookRecords, MoveKeeps

\* A call that only goes on to at keeps what it has read.
LEMMA Moved ==
  ASSUME HooksInv, NEW c \in Callers
  PROVE  /\ call[c] \in HookCalls /\ gen \in Nat /\ ver \in Nat
         /\ answered \in 0..ver /\ cache \in HookLists
         /\ call[c].gen <= gen /\ call[c].floor <= answered /\ call[c].ver <= ver
         /\ call[c].floor \in Nat /\ call[c].list \in HookLists
         /\ c \in conns <=> call[c].at \in InTransaction
BY DEF HooksInv, HooksTypes, ListsFresh, ConnsHeld, HookCalls

\* hPatchHook reads the row, or finds that it is gone.
LEMMA HookReadKeeps ==
  ASSUME HooksInv, NEW c \in Callers, call[c].at \in {"idle", "loaded"},
         NEW k \in HookCalls, call' = [call EXCEPT ![c] = k],
         k.at \in {"loaded", "changed"}, k.gen = 0, k.floor = 0, k.ver = 0,
         UNCHANGED <<hooks, cache, gen, conns, holder, ver, answered, lost>>
  PROVE  HooksInv'
<1>1. k.gen <= gen /\ k.floor <= answered /\ k.ver <= ver
  BY Moved
<1>2. k.at \notin InTransaction /\ c \notin conns
  BY Moved
<1>3. conns' = conns \ {c} /\ HolderMoves(c, k)
  BY <1>2 DEF HolderMoves
<1> QED BY <1>1, <1>2, <1>3, MoveKeeps

LEMMA LoadHookKeeps ==
  ASSUME HooksInv, NEW c \in Callers, LoadHook(c)
  PROVE  HooksInv'
<1>1. PICK h \in HookIds : call' = [call EXCEPT ![c] = [NoCall EXCEPT !.at = "loaded", !.hook = h]]
  BY DEF LoadHook
<1>2. [NoCall EXCEPT !.at = "loaded", !.hook = h] \in HookCalls
  BY HookRecords DEF HookCalls
<1>3. /\ [NoCall EXCEPT !.at = "loaded", !.hook = h].at = "loaded"
      /\ [NoCall EXCEPT !.at = "loaded", !.hook = h].gen = 0
      /\ [NoCall EXCEPT !.at = "loaded", !.hook = h].floor = 0
      /\ [NoCall EXCEPT !.at = "loaded", !.hook = h].ver = 0
  BY DEF NoCall
<1>4. PICK k \in HookCalls : /\ call' = [call EXCEPT ![c] = k] /\ k.at = "loaded"
                             /\ k.gen = 0 /\ k.floor = 0 /\ k.ver = 0
  BY <1>1, <1>2, <1>3
<1>5. call[c].at = "idle" /\ UNCHANGED <<hooks, cache, gen, conns, holder, ver, answered, lost>>
  BY DEF LoadHook
<1> QED BY <1>4, <1>5, HookReadKeeps

LEMMA PatchHookKeeps ==
  ASSUME HooksInv, NEW c \in Callers, PatchHook(c)
  PROVE  HooksInv'
<1>1. call[c].at = "loaded"
  BY DEF PatchHook
<1>2. ASSUME NEW s \in {"on", "off"}, Change(c, call[c].hook, s)
      PROVE  HooksInv'
  BY <1>1, <1>2, ChangeKeeps
<1>3. CASE call' = [call EXCEPT ![c] = [NoCall EXCEPT !.at = "changed"]]
           /\ UNCHANGED <<hooks, cache, gen, conns, holder, ver, answered, lost>>
  <2>1. [NoCall EXCEPT !.at = "changed"] \in HookCalls
    BY HookRecords DEF HookCalls
  <2>2. /\ [NoCall EXCEPT !.at = "changed"].at = "changed"
        /\ [NoCall EXCEPT !.at = "changed"].gen = 0
        /\ [NoCall EXCEPT !.at = "changed"].floor = 0
        /\ [NoCall EXCEPT !.at = "changed"].ver = 0
    BY DEF NoCall
  <2>3. PICK k \in HookCalls : /\ call' = [call EXCEPT ![c] = k] /\ k.at = "changed"
                               /\ k.gen = 0 /\ k.floor = 0 /\ k.ver = 0
    BY <1>3, <2>1, <2>2
  <2> QED BY <1>1, <1>3, <2>3, HookReadKeeps
<1> QED BY <1>2, <1>3 DEF PatchHook

\* Begin of a write: the lists of the future are at least as new as what is answered now.
LEMMA BeginWriteKeeps ==
  ASSUME HooksInv, NEW c \in Callers, NEW then \in {"ask", "add", "none"},
         NEW key \in IdemKeys \cup {"none"}, NEW row \in LockedRows, BeginWrite(c, then, key, row)
  PROVE  HooksInv'
<1>1. answered \in Nat /\ gen \in Nat /\ ver \in Nat
  BY DEF HooksInv, HooksTypes
<1>2. PICK at \in {"begun", "keyed"} :
        at = (IF key = "none" THEN "keyed" ELSE "begun") /\ (at = "begun" => key \in IdemKeys)
  OBVIOUS
<1>3. PICK k : k = [NoCall EXCEPT !.at = at, !.then = then, !.key = key, !.row = row,
                                  !.floor = answered]
  OBVIOUS
<1>4. /\ k.at = at /\ k.key = key /\ k.row = row /\ k.floor = answered /\ k.gen = 0 /\ k.ver = 0
      /\ k \in HookCalls
  <2>1. k = [at |-> at, then |-> then, gen |-> 0, list |-> NoList, hook |-> "none",
             key |-> key, row |-> row, floor |-> answered, ver |-> 0]
    BY <1>3 DEF NoCall
  <2>2. k \in HookCalls
    BY <1>1, <2>1, HookRecords DEF HookCalls
  <2> QED BY <2>1, <2>2
<1>5. /\ call[c].at = "idle" /\ Connection /\ conns' = conns \cup {c}
      /\ call' = [call EXCEPT ![c] = k]
      /\ UNCHANGED <<hooks, cache, gen, holder, ver, answered, lost>>
  BY <1>2, <1>3 DEF BeginWrite
<1>6. k.gen <= gen /\ k.floor <= answered /\ k.ver <= ver /\ k.at \in InTransaction
  BY <1>1, <1>4
<1>7. HolderMoves(c, k)
  BY <1>5 DEF HolderMoves
<1> QED BY <1>2, <1>4, <1>5, <1>6, <1>7, MoveKeeps

\* A transaction goes on with its next statement.
LEMMA GoesOn ==
  ASSUME HooksInv, NEW c \in Callers, NEW k \in HookCalls, call[c].at \in InTransaction,
         call' = [call EXCEPT ![c] = k], k.at \in InTransaction, HolderMoves(c, k),
         UNCHANGED <<hooks, gen, conns, ver, answered, lost>>,
         cache' = cache \/ (cache' = k.list /\ Fresh(k.list)),
         k.at # "begun", k.at = "keyed" => k.row \in LockedRows,
         k.gen <= gen, k.floor = call[c].floor, k.ver = call[c].ver,
         k.at = "read" /\ k.gen = gen => Fresh(k.list),
         k.at \in {"read", "got", "told"} => k.list.ver >= k.floor
  PROVE  HooksInv'
<1>1. c \in conns /\ k.floor <= answered /\ k.ver <= ver
  BY Moved
<1>2. conns' = conns \cup {c} /\ call[c].at # "changed"
  BY <1>1
<1> QED BY <1>1, <1>2, MoveKeeps

\* ... with its row locked.
LEMMA HolderKeeps ==
  ASSUME HooksInv, NEW c \in Callers, NEW k \in HookCalls, call[c].at \in WithRow,
         call' = [call EXCEPT ![c] = k], k.at \in WithRow,
         UNCHANGED <<hooks, gen, conns, holder, ver, answered, lost>>,
         cache' = cache \/ (cache' = k.list /\ Fresh(k.list)),
         k.gen <= gen, k.floor = call[c].floor, k.ver = call[c].ver,
         k.at = "read" /\ k.gen = gen => Fresh(k.list),
         k.at \in {"read", "got", "told"} => k.list.ver >= k.floor
  PROVE  HooksInv'
<1>1. HolderMoves(c, k)
  BY DEF HolderMoves
<1> QED BY <1>1, GoesOn

\* The key, and then the row.
LEMMA TakeKeeps ==
  ASSUME HooksInv, NEW c \in Callers, TakeKey(c) \/ TakeRow(c)
  PROVE  HooksInv'
<1>1. PICK at \in {"keyed", "locked", "done"} :
        /\ call' = [call EXCEPT ![c].at = at]
        /\ \/ TakeKey(c) /\ at = "keyed"
           \/ TakeRow(c) /\ at # "keyed"
        /\ UNCHANGED <<hooks, cache, gen, conns, ver, answered, lost>>
  BY DEF TakeKey, TakeRow, Take
<1>2. PICK d \in HookCalls : d = call[c]
  BY Moved
<1>3. PICK k \in HookCalls :
        /\ k = [d EXCEPT !.at = at] /\ k.at = at /\ k.row = d.row
        /\ k.gen = d.gen /\ k.floor = d.floor /\ k.ver = d.ver
  <2>1. PICK k : k = [d EXCEPT !.at = at]
    OBVIOUS
  <2>2. k = [at |-> at, then |-> d.then, gen |-> d.gen, list |-> d.list, hook |-> d.hook,
             key |-> d.key, row |-> d.row, floor |-> d.floor, ver |-> d.ver]
    BY <2>1 DEF HookCalls
  <2>3. k \in HookCalls
    BY <2>2 DEF HookCalls
  <2> QED BY <2>1, <2>2, <2>3
<1>4. call' = [call EXCEPT ![c] = k]
  BY <1>1, <1>2, <1>3
<1>5. CASE TakeKey(c) /\ at = "keyed"
  <2>1. /\ call[c].at = "begun" /\ call[c].key \in IdemKeys
        /\ holder' = [holder EXCEPT ![call[c].key] = c]
    BY <1>5 DEF TakeKey, Take, HooksInv, ConnsHeld
  <2>2. HolderMoves(c, k)
    BY <1>3, <1>5, <2>1 DEF HolderMoves
  <2>3. call[c].row \in LockedRows
    BY <2>1 DEF HooksInv, ConnsHeld
  <2> QED BY <1>1, <1>2, <1>3, <1>4, <1>5, <2>1, <2>2, <2>3, Moved, GoesOn
<1>6. CASE TakeRow(c) /\ at # "keyed"
  <2>1. /\ call[c].at = "keyed" /\ call[c].row \in LockedRows
        /\ holder' = [holder EXCEPT ![call[c].row] = c]
    BY <1>6 DEF TakeRow, Take, HooksInv, ConnsHeld
  <2>2. k.at \in WithRow /\ HolderMoves(c, k)
    BY <1>1, <1>3, <1>6, <2>1 DEF HolderMoves
  <2> QED BY <1>1, <1>2, <1>3, <1>4, <1>6, <2>1, <2>2, Moved, GoesOn
<1> QED BY <1>1, <1>5, <1>6

LEMMA GotType ==
  ASSUME HooksInv, NEW c \in Callers, NEW known \in HookLists
  PROVE  \E k \in HookCalls :
           /\ k = Got(c, known) /\ k.at \in {"locked", "got"} /\ k.list = known
           /\ k.gen = call[c].gen /\ k.floor = call[c].floor /\ k.ver = call[c].ver
<1>1. PICK at \in {"locked", "got"} :
        Got(c, known) = [call[c] EXCEPT !.list = known, !.at = at, !.then = "add"]
  BY DEF Got
<1>2. PICK d \in HookCalls : d = call[c]
  BY DEF HooksInv, HooksTypes
<1>3. PICK k : k = [d EXCEPT !.list = known, !.at = at, !.then = "add"]
  OBVIOUS
<1>4. k = [at |-> at, then |-> "add", gen |-> d.gen, list |-> known, hook |-> d.hook,
           key |-> d.key, row |-> d.row, floor |-> d.floor, ver |-> d.ver]
  BY <1>3 DEF HookCalls
<1>5. k \in HookCalls
  BY <1>4 DEF HookCalls
<1>6. /\ k.at = at /\ k.list = known /\ k.gen = d.gen /\ k.floor = d.floor /\ k.ver = d.ver
  BY <1>4
<1> QED BY <1>1, <1>2, <1>3, <1>5, <1>6

\* orgHooks, first section: what is cached is at least as new as what was answered.
LEMMA LookUpKeeps ==
  ASSUME HooksInv, NEW c \in Callers, LookUp(c)
  PROVE  HooksInv'
<1>1. /\ call[c].at = "locked" /\ call[c].at \in WithRow
      /\ UNCHANGED <<hooks, cache, gen, conns, holder, ver, answered, lost>>
  BY DEF LookUp
<1>2. CASE cache.cached
  <2>1. PICK k \in HookCalls :
          /\ k = Got(c, cache) /\ k.at \in {"locked", "got"} /\ k.list = cache
          /\ k.gen = call[c].gen /\ k.floor = call[c].floor /\ k.ver = call[c].ver
    BY GotType, Moved
  <2>2. call' = [call EXCEPT ![c] = k]
    BY <1>2, <2>1 DEF LookUp
  <2>3. k.list.ver >= k.floor
    <3>1. answered <= cache.ver /\ cache.ver \in Nat /\ answered \in Nat
      BY <1>2 DEF HooksInv, HooksTypes, ListsFresh, Fresh, HookLists
    <3> QED BY <2>1, <3>1, Moved
  <2>4. k.at \in WithRow /\ k.at # "read"
    BY <2>1
  <2> QED BY <1>1, <2>1, <2>2, <2>3, <2>4, Moved, HolderKeeps
<1>3. CASE ~ cache.cached
  <2> DEFINE k == [call[c] EXCEPT !.at = "cold", !.gen = gen]
  <2>1. call[c] \in HookCalls /\ gen \in Nat
    BY Moved
  <2>2. /\ k \in HookCalls /\ k.at = "cold" /\ k.gen = gen
        /\ k.floor = call[c].floor /\ k.ver = call[c].ver
    BY <2>1 DEF HookCalls
  <2>3. call' = [call EXCEPT ![c] = k]
    <3>1. c \in DOMAIN call
      BY DEF HooksInv, HooksTypes
    <3> QED BY <1>3, <3>1, Zenon DEF LookUp
  <2> HIDE DEF k
  <2>4. k.at \in WithRow /\ k.gen <= gen
    BY <2>2, Moved
  <2> QED BY <1>1, <1>3, <2>2, <2>3, <2>4, HolderKeeps
<1> QED BY <1>2, <1>3

\* The query reads the table as it is.
LEMMA QueryKeeps ==
  ASSUME HooksInv, NEW c \in Callers, Query(c)
  PROVE  HooksInv'
<1>1. /\ call[c].at = "cold" /\ call[c].at \in WithRow
      /\ UNCHANGED <<hooks, cache, gen, conns, holder, ver, answered, lost>>
  BY DEF Query
<1>2. PICK known \in HookLists : known = [cached |-> TRUE, subs |-> Active, ver |-> ver]
                                /\ known.ver = ver
  <2>1. [cached |-> TRUE, subs |-> Active, ver |-> ver].ver = ver
    OBVIOUS
  <2>2. Active \in SUBSET HookIds /\ ver \in Nat
    BY Moved DEF Active
  <2>3. \A b \in BOOLEAN, a \in SUBSET HookIds, n \in Nat :
          [cached |-> b, subs |-> a, ver |-> n] \in HookLists
    BY DEF HookLists
  <2>4. [cached |-> TRUE, subs |-> Active, ver |-> ver] \in HookLists
    BY <2>2, <2>3
  <2> QED BY <2>1, <2>4
<1>3. PICK d \in HookCalls : d = call[c]
  BY Moved
<1>4. PICK k \in HookCalls :
        /\ k = [call[c] EXCEPT !.at = "read", !.list = known] /\ k.at = "read" /\ k.list = known
        /\ k.gen = call[c].gen /\ k.floor = call[c].floor /\ k.ver = call[c].ver
  <2>1. PICK k : k = [d EXCEPT !.at = "read", !.list = known]
    OBVIOUS
  <2>2. k = [at |-> "read", then |-> d.then, gen |-> d.gen, list |-> known, hook |-> d.hook,
             key |-> d.key, row |-> d.row, floor |-> d.floor, ver |-> d.ver]
    BY <2>1 DEF HookCalls
  <2>3. k \in HookCalls
    BY <2>2 DEF HookCalls
  <2>4. k.at = "read" /\ k.list = known /\ k.gen = d.gen /\ k.floor = d.floor /\ k.ver = d.ver
    BY <2>2
  <2> QED BY <1>3, <2>1, <2>3, <2>4
<1>5. call' = [call EXCEPT ![c] = k]
  BY <1>2, <1>4 DEF Query
<1>6. Fresh(k.list)
  BY <1>2, <1>4, Moved DEF Fresh
<1>7. k.list.ver >= k.floor
  BY <1>2, <1>4, Moved
<1>8. k.at \in WithRow /\ k.gen <= gen
  BY <1>4, Moved
<1> QED BY <1>1, <1>4, <1>5, <1>6, <1>7, <1>8, HolderKeeps

\* orgHooks, second section: the list is stored if no change was answered meanwhile.
LEMMA FillKeeps ==
  ASSUME HooksInv, NEW c \in Callers, Fill(c)
  PROVE  HooksInv'
<1>1. /\ call[c].at = "read" /\ call[c].at \in WithRow
      /\ UNCHANGED <<hooks, gen, conns, holder, ver, answered, lost>>
  BY DEF Fill
<1>2. PICK k \in HookCalls :
        /\ k = Got(c, call[c].list) /\ k.at \in {"locked", "got"} /\ k.list = call[c].list
        /\ k.gen = call[c].gen /\ k.floor = call[c].floor /\ k.ver = call[c].ver
  BY GotType, Moved
<1>3. call' = [call EXCEPT ![c] = k]
  BY <1>2 DEF Fill
<1>4. k.list.ver >= k.floor /\ (gen = call[c].gen => Fresh(k.list))
  BY <1>1, <1>2 DEF HooksInv, ListsFresh
<1>5. k.at \in WithRow /\ k.at # "read" /\ k.gen <= gen
  BY <1>2, Moved
<1>6. CASE gen = call[c].gen
  <2>1. cache' = k.list
    BY <1>2, <1>6 DEF Fill
  <2> QED BY <1>1, <1>2, <1>3, <1>4, <1>5, <1>6, <2>1, HolderKeeps
<1>7. CASE gen # call[c].gen
  <2>1. cache' = cache
    BY <1>7 DEF Fill
  <2> QED BY <1>1, <1>2, <1>3, <1>4, <1>5, <2>1, HolderKeeps
<1> QED BY <1>6, <1>7

\* addEvents tells the subscribers, or fails on one that is gone.
LEMMA AddEventsKeeps ==
  ASSUME HooksInv, NEW c \in Callers, AddEvents(c)
  PROVE  HooksInv'
<1>1. call[c].at = "got" /\ call[c].at \in WithRow /\ call[c].at # "changed"
  BY DEF AddEvents
<1>2. CASE End(c)
  BY <1>1, <1>2, EndKeeps
<1>3. CASE /\ call' = [call EXCEPT ![c].at = "told"]
           /\ UNCHANGED <<hooks, cache, gen, conns, holder, ver, answered, lost>>
  <2>1. \A d \in HookCalls :
          /\ [d EXCEPT !.at = "told"] \in HookCalls
          /\ [d EXCEPT !.at = "told"].at = "told" /\ [d EXCEPT !.at = "told"].list = d.list
          /\ [d EXCEPT !.at = "told"].gen = d.gen /\ [d EXCEPT !.at = "told"].floor = d.floor
          /\ [d EXCEPT !.at = "told"].ver = d.ver
    BY DEF HookCalls
  <2>2. PICK k \in HookCalls :
          /\ k = [call[c] EXCEPT !.at = "told"] /\ k.at = "told" /\ k.list = call[c].list
          /\ k.gen = call[c].gen /\ k.floor = call[c].floor /\ k.ver = call[c].ver
    BY <2>1, Moved
  <2>3. call' = [call EXCEPT ![c] = k]
    BY <1>3, <2>2
  <2>4. k.list.ver >= k.floor
    BY <1>1, <2>2 DEF HooksInv, ListsFresh
  <2>5. k.at \in WithRow /\ k.gen <= gen
    BY <2>2, Moved
  <2> QED BY <1>1, <1>3, <2>2, <2>3, <2>4, <2>5, HolderKeeps
<1> QED BY <1>2, <1>3 DEF AddEvents

LEMMA HooksStart == HooksInit => HooksInv
<1> SUFFICES ASSUME HooksInit PROVE HooksInv
  OBVIOUS
<1>1. HooksTypes
  <2>1. IsFiniteSet(conns) /\ Cardinality(conns) = 0
    BY FS_EmptySet DEF HooksInit
  <2> QED BY <2>1, HookRecords, PoolAssumption DEF HooksInit, HooksTypes
<1>2. ListsFresh
  BY HookRecords DEF HooksInit, ListsFresh
<1>3. ConnsHeld
  BY HookRecords DEF HooksInit, ConnsHeld
<1> QED BY <1>1, <1>2, <1>3 DEF HooksInv

LEMMA HooksStep == HooksInv /\ [HooksNext]_hookVars => HooksInv'
<1> SUFFICES ASSUME HooksInv, [HooksNext]_hookVars PROVE HooksInv'
  OBVIOUS
<1>1. ASSUME NEW c \in Callers, CreateHook(c) \/ DeleteHook(c) PROVE HooksInv'
  BY <1>1, ChangeKeeps DEF CreateHook, DeleteHook
<1>2. ASSUME NEW c \in Callers, CommitEvents(c) \/ GiveUp(c) PROVE HooksInv'
  <2>1. End(c) /\ call[c].at # "changed"
    BY <1>2 DEF CommitEvents, GiveUp, HooksInv, ConnsHeld
  <2> QED BY <2>1, EndKeeps
<1>3. ASSUME NEW c \in Callers, Serving(c) PROVE HooksInv'
  BY <1>2, <1>3, TakeKeeps, LookUpKeeps, QueryKeeps, FillKeeps, AddEventsKeeps, PatchHookKeeps,
     InvalidateKeeps DEF Serving
<1>4. CASE UNCHANGED hookVars
  BY <1>4 DEF hookVars, HooksInv, HooksTypes, ListsFresh, Fresh, ConnsHeld
<1> QED BY <1>1, <1>2, <1>3, <1>4, LoadHookKeeps, BeginWriteKeeps DEF HooksNext

\* orgHooks and invalidateHooks (webhooks.go:44-75): the cache never hides an answered change
\* from a write that begins after the answer, and keeps an older list only as long as a
\* handler has still to drop it or was told of an error.
THEOREM CacheSafe == HooksSpec => []CacheSound
<1>1. HooksInv => CacheSound
  <2> SUFFICES ASSUME HooksInv PROVE CacheSound
    OBVIOUS
  <2>1. HooksTypeOK
    BY DEF HooksInv, HooksTypes, HooksTypeOK, HookCalls, HookLists
  <2>2. EventsSeeAnswered
    BY DEF HooksInv, ListsFresh, EventsSeeAnswered
  <2>3. StaleOnlyByLost
    BY DEF HooksInv, ListsFresh, Fresh, StaleOnlyByLost
  <2> QED BY <2>1, <2>2, <2>3 DEF CacheSound
<1> QED BY <1>1, HooksStart, HooksStep, PTL DEF HooksSpec

\* The pool (webhooks.go:59): with all connections taken, some transaction can go on, or one
\* waits for a second connection to fill a cache that is cold.  Rows and keys alone never stop
\* the pool: who waits for a key has no row yet, and who has a row waits for neither.
THEOREM StarvationKnown == HooksSpec => []StarvedOnlyByLookups
<1>1. HooksInv => StarvedOnlyByLookups
  <2> SUFFICES ASSUME HooksInv, ~ Connection
               PROVE  \E c \in conns : CanGoOn(c) \/ call[c].at = "cold"
    BY DEF StarvedOnlyByLookups
  <2>1. ConnsHeld /\ "none" \notin Callers
    BY PoolAssumption DEF HooksInv
  <2>2. ASSUME NEW d \in Callers, call[d].at \in WithRow
        PROVE  \E c \in conns : CanGoOn(c) \/ call[c].at = "cold"
    BY <2>1, <2>2 DEF ConnsHeld, CanGoOn
  <2>3. ASSUME NEW d \in Callers, call[d].at = "keyed"
        PROVE  \E c \in conns : CanGoOn(c) \/ call[c].at = "cold"
    <3>1. CASE holder[call[d].row] = "none"
      BY <2>1, <2>3, <3>1 DEF ConnsHeld, CanGoOn
    <3>2. CASE holder[call[d].row] # "none"
      BY <2>1, <2>2, <2>3, <3>2 DEF ConnsHeld
    <3> QED BY <3>1, <3>2
  <2>4. ASSUME NEW d \in Callers, call[d].at = "begun"
        PROVE  \E c \in conns : CanGoOn(c) \/ call[c].at = "cold"
    <3>1. CASE holder[call[d].key] = "none"
      BY <2>1, <2>4, <3>1 DEF ConnsHeld, CanGoOn
    <3>2. CASE holder[call[d].key] # "none"
      BY <2>1, <2>2, <2>3, <2>4, <3>2 DEF ConnsHeld
    <3> QED BY <3>1, <3>2
  <2>5. PICK d : d \in conns
    <3>1. conns # {}
      BY FS_EmptySet, PoolAssumption DEF Connection
    <3> QED BY <3>1
  <2>6. d \in Callers /\ call[d].at \in InTransaction
    BY <2>1, <2>5 DEF HooksInv, HooksTypes, ConnsHeld
  <2> QED BY <2>2, <2>3, <2>4, <2>6
<1> QED BY <1>1, HooksStart, HooksStep, PTL DEF HooksSpec

HIDE DEF InTransaction, WithRow

-----------------------------------------------------------------------------
(***************************************************************************)
(* The dispatcher of go-plain-1.  That deliveries are sent in order is not *)
(* inductive: between a scan and the start of an attempt rows are added,   *)
(* settled and deleted.  What the scan found stays due as long as its      *)
(* issue is not in inflight (Started), because a transaction under way has *)
(* a higher number (Numbered); the number alone tells the deliveries apart *)
(* once their rows are deleted.  Answered says who may be acknowledged.    *)
(***************************************************************************)

\* An attempt of issue i is with its receiver, or has an answer to record.
UnderWay(i) == attempt[i].at \in {"post", "record"}

\* The records of the table, of transactions, of a scan, and of attempts.
SheetRows   == [topic : Topics \cup {NoTopic}, status : {"none", "pending", "succeeded", "failed"},
                tries : 0..TopAttempts]
Txs         == [topic : Topics \cup {NoTopic}, seq : 0..MaxSeq]
Found       == [topic : Topics, seq : Seqs, tries : 0..TopAttempts]
Attempts    == [at : {"none", "post", "record", "recorded"}, seq : 0..MaxSeq,
                tries : 0..TopAttempts, ok : {TRUE, FALSE}]

DispatchTypes ==
  /\ DispatchTypeOK
  /\ sheet \in [Seqs -> SheetRows] /\ writer \in [Writers -> Txs]
  /\ list \subseteq Found /\ attempt \in [Topics -> Attempts]
  /\ receipts \in [Seqs -> Nat]

\* Transactions, rows, the dispatcher's list and the attempts: who names delivery e as one of
\* issue i.
Settled(i, e) == \/ sheet[e].topic = i
                 \/ \E d \in list : d.topic = i /\ d.seq = e
                 \/ UnderWay(i) /\ attempt[i].seq = e
Open(i, e)    == \E h \in Writers : writer[h].topic = i /\ writer[h].seq = e

\* Each delivery is of one issue, and newer than the others of its issue while it is not
\* committed.
Numbered ==
  /\ \A i \in Topics, e \in Seqs : Settled(i, e) \/ Open(i, e) => e <= seq
  /\ \A i, j \in Topics, e \in Seqs :
       (Settled(i, e) \/ Open(i, e)) /\ (Settled(j, e) \/ Open(j, e)) => i = j
  /\ \A i \in Topics, d, e \in Seqs : Open(i, d) /\ Settled(i, e) => e < d
  /\ \A g, h \in Writers : writer[g].topic = writer[h].topic /\ writer[g] # NoTx => g = h

\* Rows and transactions.
Kept ==
  /\ \A e \in Seqs : sheet[e] = NoRow <=> sheet[e].topic = NoTopic
  /\ \A e \in Seqs : sheet[e].topic = NoTopic <=> sheet[e].status = "none"
  /\ \A e \in Seqs : sheet[e].status = "pending" => sheet[e].tries < TopAttempts
  /\ \A h \in Writers : writer[h] = NoTx <=> writer[h].topic = NoTopic
  /\ \A h \in Writers : writer[h] # NoTx => writer[h].seq \in Seqs

\* e is the next delivery of i, or was when its hook was deleted.
Due(i, e) ==
  /\ sheet[e] = NoRow \/ (sheet[e].topic = i /\ sheet[e].status = "pending")
  /\ \A d \in Waits(i) : e <= d

\* What the dispatcher has found and may start, and what it has started, is due.
Started ==
  /\ scan # "list" => list = {}
  /\ \A i \in Topics : attempt[i].at # "none" => i \in inflight
  /\ \A d \in list : d.topic \notin inflight => Due(d.topic, d.seq) /\ d.tries < TopAttempts
  /\ \A i \in Topics : UnderWay(i) => attempt[i].seq \in Seqs /\ Due(i, attempt[i].seq)
  /\ \A i \in Topics : attempt[i].at = "post" => attempt[i].tries < TopAttempts

\* No answer with 2xx so far, or one that is in doubt.
NotAcked(e) == receipts[e] = 0 \/ e \in unsure

\* The attempt of i has such an answer to e in its hands.
Acked(i, e) == attempt[i].at = "record" /\ attempt[i].ok /\ attempt[i].seq = e

\* What may be sent has not been acknowledged.
Answered ==
  /\ \A e \in Seqs : receipts[e] > 1 => e \in unsure
  /\ \A e \in Seqs : e > seq => receipts[e] = 0
  /\ \A h \in Writers : writer[h] # NoTx => receipts[writer[h].seq] = 0
  /\ \A d \in list : d.topic \notin inflight => NotAcked(d.seq)
  /\ \A i \in Topics : attempt[i].at = "post" => NotAcked(attempt[i].seq)
  /\ \A e \in Seqs : sheet[e].status = "pending" => NotAcked(e) \/ Acked(sheet[e].topic, e)

\* The inductive invariant.
DispatchInv == DispatchTypes /\ Numbered /\ Kept /\ Started /\ Answered

\* The least of some numbers.
LEMMA LeastIs ==
  ASSUME NEW S, S \subseteq Nat, S # {}
  PROVE  Min(S) \in S /\ \A y \in S : Min(S) <= y
<1> DEFINE R == {p \in Nat \X Nat : p[1] < p[2]}
<1>1. IsWellFoundedOn(R, Nat)
  BY NatLessThanWellFounded DEF OpToRel
<1> HIDE DEF R
<1>2. PICK x \in S : \A y \in S : ~ (<<y, x>> \in R)
  BY <1>1, WFMin
<1>3. ASSUME NEW y \in S PROVE x <= y
  <2>1. x \in Nat /\ y \in Nat /\ ~ (<<y, x>> \in R)
    BY <1>2
  <2> QED BY <2>1 DEF R
<1> QED BY <1>3 DEF Min

\* The records the actions build.
LEMMA DispatchRecords ==
  /\ NoRow \in SheetRows /\ NoTx \in Txs /\ NoTry \in Attempts
  /\ NoRow.topic = NoTopic /\ NoRow.status = "none" /\ NoRow.tries = 0
  /\ NoTx.topic = NoTopic /\ NoTry.at = "none"
  BY DispatchAssumption DEF NoRow, NoTx, NoTry, SheetRows, Txs, Attempts

\* lockIssue lets one transaction at a time number a delivery of an issue, above all others.
LEMMA WriteDispatches ==
  ASSUME DispatchInv, NEW h \in Writers, NEW i \in Topics, Write(h, i)
  PROVE  DispatchInv'
<1> USE DispatchRecords, DispatchAssumption DEF DispatchInv, DispatchTypes
<1> DEFINE k == [topic |-> i, seq |-> seq + 1]
<1>a. seq \in Nat /\ seq + 1 \in Seqs /\ seq \in 0..MaxSeq
  BY DEF DispatchTypeOK, Write, Seqs
<1>b. k \in Txs /\ k.topic = i /\ k.seq = seq + 1 /\ k # NoTx /\ i # NoTopic
  BY <1>a DEF Txs, Seqs
<1> HIDE DEF k
<1>c. /\ writer[h] = NoTx /\ writer' = [writer EXCEPT ![h] = k] /\ seq' = seq + 1
      /\ \A g \in Writers : writer[g].topic # i
      /\ UNCHANGED <<hook, sheet, scan, list, inflight, attempt, receipts, unsure>>
  BY DEF Write, Held, k, dispatch
<1>d. \A e \in Seqs : e <= seq => e # seq + 1 /\ e <= seq + 1
  BY <1>a DEF Seqs
<1>1. DispatchTypes'
  <2>1. seq' \in 0..MaxSeq
    BY <1>a, <1>c DEF Seqs
  <2> QED BY <1>b, <1>c, <2>1 DEF DispatchTypeOK
<1>2. Numbered'
  <2>1. \A j \in Topics, e \in Seqs : Settled(j, e)' <=> Settled(j, e)
    BY <1>c DEF Settled, UnderWay
  <2>2. \A j \in Topics, e \in Seqs :
          Open(j, e)' <=> Open(j, e) \/ (j = i /\ e = seq + 1)
    BY <1>b, <1>c DEF Open
  <2>3. ~ \E e \in Seqs : Open(i, e)
    BY <1>c DEF Open
  <2>4. \A g, f \in Writers : writer'[g].topic = writer'[f].topic /\ writer'[g] # NoTx => g = f
    BY <1>b, <1>c DEF Numbered
  <2> HIDE DEF DispatchInv, DispatchTypes
  <2>5. Numbered
    BY DEF DispatchInv
  <2>6. \A j \in Topics, e \in Seqs : Settled(j, e)' \/ Open(j, e)' => e <= seq'
    BY <2>1, <2>2, <2>5, <1>c, <1>d, <1>a DEF Numbered
  <2>7. \A j, l \in Topics, e \in Seqs :
          (Settled(j, e)' \/ Open(j, e)') /\ (Settled(l, e)' \/ Open(l, e)') => j = l
    BY <2>1, <2>2, <2>5, <1>d DEF Numbered
  <2>8. \A j \in Topics, d, e \in Seqs : Open(j, d)' /\ Settled(j, e)' => e < d
    <3> SUFFICES ASSUME NEW j \in Topics, NEW d \in Seqs, NEW e \in Seqs,
                        Open(j, d)', Settled(j, e)'
                 PROVE  e < d
      OBVIOUS
    <3>1. Settled(j, e) /\ e <= seq
      BY <2>1, <2>5 DEF Numbered
    <3>2. CASE Open(j, d)
      BY <3>1, <3>2, <2>5 DEF Numbered
    <3>3. CASE d = seq + 1
      BY <3>1, <3>3, <1>a DEF Seqs
    <3> QED BY <3>2, <3>3, <2>2
  <2> QED BY <2>4, <2>6, <2>7, <2>8 DEF Numbered
<1>3. Kept'
  BY <1>a, <1>b, <1>c DEF Kept
<1>4. Started'
  BY DEF Started, UnderWay, Due, Waits, Kept, Write, Held, server2, dispatch
<1>5. Answered'
  <2>1. \A e \in Seqs : e > seq' => e > seq
    BY <1>a, <1>c DEF Seqs
  <2>2. receipts[seq + 1] = 0
    BY <1>a DEF Answered
  <2>3. \A g \in Writers : writer'[g] # NoTx => receipts[writer'[g].seq] = 0
    BY <2>2, <1>b, <1>c DEF Answered
  <2> QED BY <2>1, <2>3, <1>c DEF Answered, NotAcked, Acked
<1> QED BY <1>1, <1>2, <1>3, <1>4, <1>5

\* The delivery that is committed is newer than what is due.
LEMMA CommitWriteDispatches ==
  ASSUME DispatchInv, NEW h \in Writers, CommitWrite(h)
  PROVE  DispatchInv'
<1> USE DispatchRecords, DispatchAssumption DEF DispatchInv, DispatchTypes
<1>1. DispatchTypes'
  BY DEF DispatchTypeOK, SheetRows, Txs, Found, Attempts, Seqs, Kept, Started,
      CommitWrite, server2, dispatch
<1>2. Numbered'
  BY DEF Numbered, Settled, Open, UnderWay, Kept, CommitWrite, server2, dispatch
<1>3. Kept'
  BY DEF Kept, CommitWrite, server2, dispatch
<1>4. Started'
  <2> DEFINE i == writer[h].topic
             s == writer[h].seq
  <2>1. i \in Topics /\ s \in Seqs /\ Open(i, s)
    BY DEF CommitWrite, Kept, Txs, Open
  <2>2. \A e \in Seqs : Settled(i, e) => e < s
    BY <2>1 DEF Numbered
  <2>3. \A j \in Topics, e \in Seqs : Settled(j, e) => e # s
    BY <2>1, <2>2 DEF Numbered, Seqs
  <2>4. /\ \A e \in Seqs : e # s => sheet'[e] = sheet[e]
        /\ sheet'[s].topic = i
        /\ UNCHANGED <<scan, list, inflight, attempt>>
    BY <2>1 DEF CommitWrite, dispatch
  <2>5. ASSUME NEW j \in Topics, NEW e \in Seqs, Settled(j, e), Due(j, e) PROVE Due(j, e)'
    <3>1. e # s /\ sheet'[e] = sheet[e]
      BY <2>3, <2>4, <2>5
    <3>2. ASSUME NEW d \in Seqs, sheet'[d].topic = j, sheet'[d].status = "pending" PROVE e <= d
      <4>1. CASE d = s
        BY <3>2, <4>1, <2>2, <2>4, <2>5 DEF Seqs
      <4>2. CASE d # s
        BY <3>2, <4>2, <2>4, <2>5 DEF Due, Waits
      <4> QED BY <4>1, <4>2
    <3> QED BY <3>1, <3>2, <2>5 DEF Due, Waits
  <2>6. \A d \in list : d.topic \in Topics /\ d.seq \in Seqs /\ Settled(d.topic, d.seq)
    BY DEF Settled, Found
  <2>7. \A j \in Topics : UnderWay(j) => Settled(j, attempt[j].seq)
    BY DEF Settled
  <2> HIDE DEF i, s
  <2> QED BY <2>4, <2>5, <2>6, <2>7 DEF Started, UnderWay
<1>5. Answered'
  BY DEF Answered, NotAcked, Acked, Kept, CommitWrite, server2, dispatch
<1> QED BY <1>1, <1>2, <1>3, <1>4, <1>5

\* A number is lost.
LEMMA AbortWriteDispatches ==
  ASSUME DispatchInv, NEW h \in Writers, AbortWrite(h)
  PROVE  DispatchInv'
<1> USE DispatchRecords, DispatchAssumption DEF DispatchInv, DispatchTypes
<1>1. DispatchTypes'
  BY DEF DispatchTypeOK, SheetRows, Txs, Found, Attempts, Seqs, Kept, Started,
      AbortWrite, Failing, server2, dispatch
<1>2. Numbered'
  BY DEF Numbered, Settled, Open, UnderWay, Kept, AbortWrite, Failing, server2, dispatch
<1>3. Kept'
  BY DEF Kept, AbortWrite, Failing, server2, dispatch
<1>4. Started'
  BY DEF Started, UnderWay, Due, Waits, Kept, AbortWrite, Failing, server2, dispatch
<1>5. Answered'
  BY DEF Answered, NotAcked, Acked, Kept, AbortWrite, Failing, server2, dispatch
<1> QED BY <1>1, <1>2, <1>3, <1>4, <1>5

\* The rows go; what was found or started stays due.
LEMMA DropHookDispatches ==
  ASSUME DispatchInv, DropHook
  PROVE  DispatchInv'
<1> USE DispatchRecords, DispatchAssumption DEF DispatchInv, DispatchTypes
<1>1. DispatchTypes'
  BY DEF DispatchTypeOK, SheetRows, Txs, Found, Attempts, Seqs, Kept, Started, DropHook,
      server2, dispatch
<1>2. Numbered'
  BY DEF Numbered, Settled, Open, UnderWay, Kept, DropHook, server2, dispatch
<1>3. Kept'
  BY DEF Kept, DropHook, server2, dispatch
<1>4. Started'
  <2>1. \A e \in Seqs : sheet'[e] = NoRow
    BY DEF DropHook
  <2>2. \A i \in Topics : \A e \in Seqs : Due(i, e)'
    BY <2>1 DEF Due, Waits
  <2>3. \A d \in list : d.topic \in Topics /\ d.seq \in Seqs
    BY DEF Found
  <2> QED BY <2>2, <2>3 DEF Started, UnderWay, DropHook, dispatch
<1>5. Answered'
  BY DEF Answered, NotAcked, Acked, Kept, DropHook, server2, dispatch
<1> QED BY <1>1, <1>2, <1>3, <1>4, <1>5

\* Only issues whose attempt is over are taken from inflight; nothing is listed.
LEMMA DrainDispatches ==
  ASSUME DispatchInv, Drain
  PROVE  DispatchInv'
<1> USE DispatchRecords, DispatchAssumption DEF DispatchInv, DispatchTypes
<1>1. DispatchTypes'
  BY DEF DispatchTypeOK, SheetRows, Txs, Found, Attempts, Seqs, Kept, Started, Drain,
      Over, server2, dispatch
<1>2. Numbered'
  BY DEF Numbered, Settled, Open, UnderWay, Kept, Drain, Over, server2, dispatch
<1>3. Kept'
  BY DEF Kept, Drain, Over, server2, dispatch
<1>4. Started'
  BY DEF Started, UnderWay, Due, Waits, Kept, Drain, Over, server2, dispatch
<1>5. Answered'
  <2>1. list = {}
    BY DEF Started, Drain
  <2> QED BY <2>1 DEF Answered, NotAcked, Acked, Drain, server2
<1> QED BY <1>1, <1>2, <1>3, <1>4, <1>5

\* The scan finds the least pending delivery of an issue.
LEMMA ScanDispatches ==
  ASSUME DispatchInv, NEW resting, Scan(resting)
  PROVE  DispatchInv'
<1> USE DispatchRecords, DispatchAssumption DEF DispatchInv, DispatchTypes
<1>a. ASSUME NEW d \in list'
      PROVE  /\ d \in Found /\ sheet[d.seq].topic = d.topic /\ sheet[d.seq].status = "pending"
             /\ d.tries = sheet[d.seq].tries /\ Due(d.topic, d.seq)
  <2>1. PICK e \in Ready : d = [topic |-> sheet[e].topic, seq |-> e, tries |-> sheet[e].tries]
    BY DEF Scan, First
  <2>2. PICK j \in Topics : Waits(j) # {} /\ e = Min(Waits(j))
    BY <2>1 DEF Ready
  <2>3. e \in Waits(j) /\ \A f \in Waits(j) : e <= f
    <3>1. Waits(j) \subseteq Nat
      BY DEF Waits, Seqs
    <3> QED BY <3>1, <2>2, LeastIs
  <2>4. /\ e \in Seqs /\ sheet[e].topic = j /\ sheet[e].status = "pending"
        /\ sheet[e].tries \in 0..TopAttempts
    BY <2>3 DEF Waits, SheetRows
  <2>5. d \in Found /\ d.topic = j /\ d.seq = e /\ d.tries = sheet[e].tries
    BY <2>1, <2>4 DEF Found
  <2> QED BY <2>3, <2>4, <2>5 DEF Due
<1>b. UNCHANGED <<hook, seq, sheet, writer, inflight, attempt, receipts, unsure>> /\ scan' = "list"
  BY DEF Scan
<1>1. DispatchTypes'
  BY <1>a, <1>b DEF DispatchTypeOK
<1>2. Numbered'
  <2>1. \A j \in Topics, e \in Seqs : Settled(j, e)' => Settled(j, e)
    BY <1>a, <1>b DEF Settled, UnderWay
  <2>2. \A j \in Topics, e \in Seqs : Open(j, e)' <=> Open(j, e)
    BY <1>b DEF Open
  <2>3. \A g, h \in Writers : writer'[g].topic = writer'[h].topic /\ writer'[g] # NoTx => g = h
    BY <1>b DEF Numbered
  <2>4. Numbered /\ seq' = seq
    BY <1>b
  <2> HIDE DEF DispatchInv, DispatchTypes
  <2> QED BY <2>1, <2>2, <2>3, <2>4 DEF Numbered
<1>3. Kept'
  BY <1>b DEF Kept
<1>4. Started'
  <2>1. \A d \in list' : Due(d.topic, d.seq)' /\ d.tries < TopAttempts
    BY <1>a, <1>b DEF Due, Waits, Kept, Found
  <2> QED BY <2>1, <1>b DEF Started, UnderWay, Due, Waits
<1>5. Answered'
  <2>1. ASSUME NEW d \in list', d.topic \notin inflight PROVE NotAcked(d.seq)
    <3>1. d.topic \in Topics /\ d.seq \in Seqs /\ attempt[d.topic].at = "none"
      BY <1>a, <2>1 DEF Found, Started
    <3> QED BY <3>1, <1>a DEF Answered, Acked
  <2> QED BY <2>1, <1>b DEF Answered, NotAcked, Acked
<1> QED BY <1>1, <1>2, <1>3, <1>4, <1>5

\* Nothing is listed.
LEMMA ScanFailsDispatches ==
  ASSUME DispatchInv, ScanFails
  PROVE  DispatchInv'
<1> USE DispatchRecords, DispatchAssumption DEF DispatchInv, DispatchTypes
<1>1. DispatchTypes'
  BY DEF DispatchTypeOK, SheetRows, Txs, Found, Attempts, Seqs, Kept, Started,
      ScanFails, Failing, server2, dispatch
<1>2. Numbered'
  BY DEF Numbered, Settled, Open, UnderWay, Kept, ScanFails, Failing, server2, dispatch
<1>3. Kept'
  BY DEF Kept, ScanFails, Failing, server2, dispatch
<1>4. Started'
  BY DEF Started, UnderWay, Due, Waits, Kept, ScanFails, Failing, server2, dispatch
<1>5. Answered'
  BY DEF Answered, NotAcked, Acked, Kept, ScanFails, Failing, server2, dispatch
<1> QED BY <1>1, <1>2, <1>3, <1>4, <1>5

\* What is started was found, and is due still: its issue had no attempt in between.
LEMMA LaunchDispatches ==
  ASSUME DispatchInv, Launch
  PROVE  DispatchInv'
<1> USE DispatchRecords, DispatchAssumption DEF DispatchInv, DispatchTypes
<1> DEFINE New(i, d) == /\ d \in list /\ d.topic = i /\ i \notin inflight
                        /\ attempt'[i].at = "post" /\ attempt'[i].seq = d.seq
                        /\ attempt'[i].tries = d.tries /\ attempt'[i] \in Attempts
                        /\ d.seq \in Seqs
<1>a. ASSUME NEW i \in Topics
      PROVE  \/ attempt'[i] = attempt[i]
             \/ \E d \in list : New(i, d) /\ i \in inflight'
  <2>1. CASE \E d \in Unclaimed : d.topic = i
    <3> DEFINE d == CHOOSE d \in Unclaimed : d.topic = i
               a == [at |-> "post", seq |-> d.seq, tries |-> d.tries, ok |-> FALSE]
    <3>1. d \in Unclaimed /\ d.topic = i
      BY <2>1
    <3>2. attempt'[i] = a
      BY <2>1 DEF Launch
    <3> HIDE DEF d
    <3>3. d \in list /\ d.topic \notin inflight /\ d.seq \in Seqs /\ d.tries \in 0..TopAttempts
      BY <3>1 DEF Unclaimed, Found
    <3>4. d.seq \in 0..MaxSeq
      BY <3>3 DEF Seqs
    <3>5. a \in Attempts
      BY <3>3, <3>4, Zenon DEF Attempts
    <3>6. i \in inflight'
      BY <3>1 DEF Launch
    <3>7. a.at = "post" /\ a.seq = d.seq /\ a.tries = d.tries
      OBVIOUS
    <3> HIDE DEF a
    <3>8. New(i, d)
      BY <3>1, <3>2, <3>3, <3>5, <3>7
    <3> QED BY <3>3, <3>6, <3>8
  <2>2. CASE ~ \E d \in Unclaimed : d.topic = i
    BY <2>2 DEF Launch
  <2> QED BY <2>1, <2>2
<1>b. /\ list' = {} /\ scan' = "wait" /\ inflight \subseteq inflight' /\ inflight' \subseteq Topics
      /\ UNCHANGED <<hook, seq, sheet, writer, receipts, unsure>>
  BY DEF Launch, Unclaimed, Found, DispatchTypeOK
<1>c. DOMAIN attempt' = Topics /\ attempt' = [i \in Topics |-> attempt'[i]]
  BY DEF Launch
<1>1. DispatchTypes'
  <2>1. \A i \in Topics : attempt'[i] \in Attempts
    BY <1>a
  <2>2. attempt' \in [Topics -> Attempts]
    BY <1>c, <2>1
  <2>3. \A i \in Topics : attempt'[i].at \in {"none", "post", "record", "recorded"}
    BY <2>1 DEF Attempts
  <2> QED BY <1>b, <2>2, <2>3 DEF DispatchTypeOK
<1>2. Numbered'
  <2>1. \A j \in Topics, e \in Seqs : Settled(j, e)' => Settled(j, e)
    BY <1>a, <1>b DEF Settled, UnderWay
  <2>2. \A j \in Topics, e \in Seqs : Open(j, e)' <=> Open(j, e)
    BY <1>b DEF Open
  <2>3. \A g, h \in Writers : writer'[g].topic = writer'[h].topic /\ writer'[g] # NoTx => g = h
    BY <1>b DEF Numbered
  <2>4. Numbered /\ seq' = seq
    BY <1>b
  <2> HIDE DEF DispatchInv, DispatchTypes
  <2> QED BY <2>1, <2>2, <2>3, <2>4 DEF Numbered
<1>3. Kept'
  BY <1>b DEF Kept
<1>4. Started'
  <2>1. \A i \in Topics, e \in Seqs : Due(i, e)' <=> Due(i, e)
    BY <1>b DEF Due, Waits
  <2>2. ASSUME NEW i \in Topics
        PROVE  /\ attempt'[i].at # "none" => i \in inflight'
               /\ UnderWay(i)' => attempt'[i].seq \in Seqs /\ Due(i, attempt'[i].seq)
               /\ attempt'[i].at = "post" => attempt'[i].tries < TopAttempts
    <3>1. CASE attempt'[i] = attempt[i]
      BY <3>1, <1>b DEF Started, UnderWay
    <3>2. CASE \E d \in list : New(i, d) /\ i \in inflight'
      BY <3>2 DEF Started
    <3> QED BY <3>1, <3>2, <1>a
  <2>3. \A i \in Topics : UnderWay(i)' => Due(i, attempt[i].seq)'
    BY <2>1, <2>2, <1>b DEF Due, Waits
  <2> QED BY <2>2, <2>3, <1>b DEF Started
<1>5. Answered'
  <2>1. ASSUME NEW i \in Topics, attempt'[i].at = "post" PROVE NotAcked(attempt'[i].seq)
    <3>1. CASE attempt'[i] = attempt[i]
      BY <3>1, <2>1 DEF Answered
    <3>2. CASE \E d \in list : New(i, d)
      BY <3>2 DEF Answered
    <3> QED BY <3>1, <3>2, <1>a
  <2>2. ASSUME NEW i \in Topics, NEW e \in Seqs, Acked(i, e) PROVE Acked(i, e)'
    <3>1. i \in inflight
      BY <2>2 DEF Acked, Started
    <3>2. attempt'[i] = attempt[i]
      BY <3>1, <1>a
    <3> QED BY <3>2, <2>2 DEF Acked
  <2>3. \A e \in Seqs : sheet[e].status = "pending" => sheet[e].topic \in Topics
    BY DEF Kept, SheetRows
  <2>4. \A e \in Seqs : sheet[e].status = "pending" => NotAcked(e)' \/ Acked(sheet[e].topic, e)'
    BY <2>2, <2>3, <1>b DEF Answered, NotAcked, Acked
  <2> QED BY <2>1, <2>4, <1>b DEF Answered, NotAcked, Acked
<1> QED BY <1>1, <1>2, <1>3, <1>4, <1>5

\* A 2xx answer is the first, or the earlier one is in doubt: no other attempt, transaction or
\* listed delivery has the number.
LEMMA ReceiveDispatches ==
  ASSUME DispatchInv, NEW i \in Topics, NEW ok \in BOOLEAN, Receive(i, ok)
  PROVE  DispatchInv'
<1> USE DispatchRecords, DispatchAssumption DEF DispatchInv, DispatchTypes
<1> DEFINE a == [at |-> "record", seq |-> attempt[i].seq, tries |-> attempt[i].tries + 1, ok |-> ok]
           e == attempt[i].seq
<1>a. /\ e \in Seqs /\ i \in inflight
      /\ attempt[i].tries < TopAttempts /\ attempt[i].tries \in 0..TopAttempts
  BY DEF Receive, Started, UnderWay, Attempts
<1>b. a \in Attempts /\ a.at = "record" /\ a.ok = ok /\ a.seq = e /\ a.tries = attempt[i].tries + 1
  <2>1. e \in 0..MaxSeq /\ attempt[i].tries + 1 \in 0..TopAttempts
    BY <1>a DEF Seqs
  <2>2. ok \in {TRUE, FALSE}
    OBVIOUS
  <2>3. a \in Attempts
    BY <2>1, <2>2, Zenon DEF Attempts
  <2> QED BY <2>3
<1> HIDE DEF a
<1>c. /\ attempt[i].at = "post" /\ attempt' = [attempt EXCEPT ![i] = a]
      /\ receipts' = IF ok THEN [receipts EXCEPT ![e] = @ + 1] ELSE receipts
      /\ UNCHANGED <<hook, seq, sheet, writer, scan, list, inflight, unsure>>
  BY DEF Receive, a, dispatch
<1>d. NotAcked(e) /\ Settled(i, e)
  BY <1>c DEF Answered, Settled, UnderWay
<1> HIDE DEF e
<1>1. DispatchTypes'
  BY <1>a, <1>b, <1>c DEF DispatchTypeOK
<1>2. Numbered'
  BY <1>b, <1>c DEF Numbered, Settled, Open, UnderWay, e
<1>3. Kept'
  BY DEF Kept, Receive, server2, dispatch
<1>4. Started'
  BY <1>b, <1>c DEF Started, UnderWay, Due, Waits, e
<1>5. Answered'
  <2>1. /\ \A f \in Seqs : f # e => receipts'[f] = receipts[f]
        /\ receipts'[e] \in Nat /\ (receipts'[e] > 1 => e \in unsure) /\ receipts'[e] >= receipts[e]
    BY <1>a, <1>c, <1>d DEF NotAcked
  <2>2. \A f \in Seqs : f > seq => f # e
    BY <1>a, <1>d DEF Numbered, DispatchTypeOK, Seqs
  <2>3. ASSUME NEW h \in Writers, writer[h] # NoTx PROVE writer[h].seq # e
    <3>1. writer[h].topic \in Topics /\ writer[h].seq \in Seqs
      BY <2>3 DEF Kept, Txs
    <3>2. Open(writer[h].topic, writer[h].seq)
      BY DEF Open
    <3>3. ASSUME writer[h].seq = e PROVE FALSE
      <4>1. writer[h].topic = i
        BY <3>1, <3>2, <3>3, <1>d DEF Numbered
      <4>2. e < e
        BY <3>1, <3>2, <3>3, <1>d, <4>1 DEF Numbered
      <4> QED BY <4>2, <1>a DEF Seqs
    <3> QED BY <3>3
  <2>4. ASSUME NEW d \in list, d.topic \notin inflight PROVE d.seq # e
    <3>1. d.topic \in Topics /\ d.seq \in Seqs /\ Settled(d.topic, d.seq)
      BY DEF Found, Settled
    <3> QED BY <3>1, <2>4, <1>a, <1>d DEF Numbered
  <2>5. ASSUME NEW j \in Topics, j # i, attempt[j].at = "post"
        PROVE  attempt[j].seq \in Seqs /\ attempt[j].seq # e
    <3>1. attempt[j].seq \in Seqs /\ Settled(j, attempt[j].seq)
      BY <2>5 DEF Started, UnderWay, Settled
    <3> QED BY <3>1, <2>5, <1>d DEF Numbered
  <2>6. ASSUME NEW f \in Seqs, sheet[f].status = "pending"
        PROVE  NotAcked(f)' \/ Acked(sheet[f].topic, f)'
    <3>1. sheet[f].topic \in Topics /\ Settled(sheet[f].topic, f)
      BY <2>6 DEF Kept, SheetRows, Settled
    <3>2. CASE f = e /\ ok
      <4>1. sheet[f].topic = i
        BY <3>1, <3>2, <1>d DEF Numbered
      <4> QED BY <4>1, <3>2, <1>b, <1>c DEF Acked
    <3>3. CASE f = e /\ ~ ok
      BY <3>3, <1>c, <1>d DEF NotAcked
    <3>4. CASE f # e
      <4>1. NotAcked(f) => NotAcked(f)'
        BY <3>4, <2>1, <1>c DEF NotAcked
      <4>2. Acked(sheet[f].topic, f) => Acked(sheet[f].topic, f)'
        BY <3>1, <3>4, <1>c DEF Acked
      <4> QED BY <4>1, <4>2, <2>6, <1>c DEF Answered
    <3> QED BY <3>2, <3>3, <3>4
  <2>7. \A f \in Seqs : f # e /\ NotAcked(f) => NotAcked(f)'
    BY <2>1, <1>c DEF NotAcked
  <2>8. \A f \in Seqs : receipts'[f] > 1 => f \in unsure'
    BY <2>1, <1>c DEF Answered
  <2>9. \A h \in Writers : writer'[h] # NoTx => receipts'[writer'[h].seq] = 0
    BY <2>1, <2>3, <1>c DEF Answered, Kept
  <2>10. \A d \in list : d.topic \notin inflight => NotAcked(d.seq)'
    BY <2>4, <2>7 DEF Answered, Found
  <2>11. \A j \in Topics : attempt'[j].at = "post" => j # i /\ attempt'[j] = attempt[j]
    BY <1>b, <1>c
  <2>12. \A j \in Topics : attempt'[j].at = "post" => NotAcked(attempt[j].seq)'
    BY <2>11, <2>5, <2>7 DEF Answered
  <2>13. \A f \in Seqs : f > seq' => receipts'[f] = 0
    BY <2>1, <2>2, <1>c DEF Answered
  <2> QED BY <2>6, <2>8, <2>9, <2>10, <2>11, <2>12, <2>13, <1>c DEF Answered, NotAcked, Acked
<1> QED BY <1>1, <1>2, <1>3, <1>4, <1>5

\* A pending row is settled or stays due; no other issue has a row or an attempt of its number.
LEMMA RecordTryDispatches ==
  ASSUME DispatchInv, NEW i \in Topics, RecordTry(i)
  PROVE  DispatchInv'
<1> USE DispatchRecords, DispatchAssumption DEF DispatchInv, DispatchTypes
<1> DEFINE a == attempt[i]
           e == a.seq
           r == [topic |-> sheet[e].topic, status |-> Outcome(a), tries |-> a.tries]
           b == [NoTry EXCEPT !.at = "recorded"]
<1>a. /\ e \in Seqs /\ i \in inflight /\ Due(i, e) /\ Settled(i, e) /\ a.at = "record"
      /\ a.tries \in 0..TopAttempts
  BY DEF RecordTry, Started, UnderWay, Attempts, Settled
<1>b. b \in Attempts /\ b.at = "recorded"
  BY DEF NoTry, Attempts
<1>c. /\ r \in SheetRows /\ r.topic = sheet[e].topic /\ r.status = Outcome(a) /\ r.tries = a.tries
      /\ Outcome(a) \in {"pending", "succeeded", "failed"}
      /\ (Outcome(a) = "pending" => ~ a.ok /\ a.tries < TopAttempts)
  BY <1>a DEF SheetRows, Outcome
<1>d. /\ attempt' = [attempt EXCEPT ![i] = b]
      /\ sheet' = IF sheet[e] = NoRow THEN sheet ELSE [sheet EXCEPT ![e] = r]
      /\ UNCHANGED <<hook, seq, writer, scan, list, inflight, receipts, unsure>>
  BY DEF RecordTry, dispatch
<1>e. /\ sheet[e] # NoRow => sheet[e].topic = i /\ sheet[e].status = "pending"
      /\ \A j \in Topics : UnderWay(j)' => j # i /\ attempt'[j] = attempt[j] /\ UnderWay(j)
  BY <1>a, <1>b, <1>d DEF Due, UnderWay
<1>f. \A f \in Seqs : sheet'[f].status = "pending" =>
        sheet[f].status = "pending" /\ sheet'[f].topic = sheet[f].topic
  BY <1>a, <1>c, <1>d, <1>e
<1>g. \A f \in Seqs : sheet'[f].topic = sheet[f].topic /\ (f # e => sheet'[f] = sheet[f])
  BY <1>a, <1>c, <1>d
<1> HIDE DEF a, b, r, e
<1>1. DispatchTypes'
  BY <1>a, <1>b, <1>c, <1>d DEF DispatchTypeOK, SheetRows
<1>2. Numbered'
  <2>1. \A j \in Topics, f \in Seqs : Settled(j, f)' => Settled(j, f)
    BY <1>d, <1>e, <1>g DEF Settled
  <2>2. \A j \in Topics, f \in Seqs : Open(j, f)' <=> Open(j, f)
    BY <1>d DEF Open
  <2>3. \A g, h \in Writers : writer'[g].topic = writer'[h].topic /\ writer'[g] # NoTx => g = h
    BY <1>d DEF Numbered
  <2>4. Numbered /\ seq' = seq
    BY <1>d
  <2> HIDE DEF DispatchInv, DispatchTypes
  <2> QED BY <2>1, <2>2, <2>3, <2>4 DEF Numbered
<1>3. Kept'
  <2>1. sheet[e] # NoRow => sheet'[e] = r /\ r # NoRow /\ r.topic = i /\ i # NoTopic
    BY <1>a, <1>c, <1>d, <1>e
  <2>2. \A f \in Seqs : sheet'[f] = sheet[f] \/ (f = e /\ sheet'[f] = r /\ sheet[e] # NoRow)
    BY <1>a, <1>d
  <2> QED BY <2>1, <2>2, <1>c, <1>d DEF Kept
<1>4. Started'
  <2>1. ASSUME NEW j \in Topics, NEW f \in Seqs, j # i, Settled(j, f), Due(j, f) PROVE Due(j, f)'
    <3>1. f # e
      BY <2>1, <1>a DEF Numbered
    <3> QED BY <3>1, <2>1, <1>f, <1>g DEF Due, Waits
  <2>2. \A d \in list : d.topic \in Topics /\ d.seq \in Seqs /\ Settled(d.topic, d.seq)
    BY DEF Settled, Found
  <2>3. \A j \in Topics : UnderWay(j) => Settled(j, attempt[j].seq)
    BY DEF Settled
  <2>4. \A j \in Topics : attempt'[j].at # "none" => attempt[j].at # "none"
    BY <1>a, <1>d DEF a
  <2>5. \A j \in Topics : UnderWay(j)' => attempt'[j].seq \in Seqs /\ Due(j, attempt[j].seq)'
    BY <1>e, <2>1, <2>3 DEF Started
  <2>6. \A d \in list : d.topic \notin inflight => Due(d.topic, d.seq)'
    BY <1>a, <2>1, <2>2 DEF Started
  <2>7. \A j \in Topics : attempt'[j].at = "post" => attempt'[j] = attempt[j]
    BY <1>b, <1>d
  <2> QED BY <2>4, <2>5, <2>6, <2>7, <1>d DEF Started
<1>5. Answered'
  <2>1. ASSUME NEW f \in Seqs, sheet'[f].status = "pending"
        PROVE  NotAcked(f)' \/ Acked(sheet[f].topic, f)'
    <3>1. /\ sheet[f].status = "pending" /\ sheet[f].topic \in Topics
          /\ sheet'[f].topic = sheet[f].topic
      BY <2>1, <1>f, <1>g DEF Kept, SheetRows
    <3>2. CASE NotAcked(f)
      BY <3>2, <1>d DEF NotAcked
    <3>3. CASE ~ NotAcked(f)
      <4>1. Acked(sheet[f].topic, f)
        BY <3>1, <3>3 DEF Answered
      <4>2. CASE sheet[f].topic # i
        BY <4>1, <4>2, <3>1, <1>d DEF Acked
      <4>3. CASE sheet[f].topic = i
        <5>1. f = e /\ a.ok
          BY <4>1, <4>3 DEF Acked, a, e
        <5>2. sheet'[f].status = Outcome(a)
          BY <5>1, <3>1, <1>a, <1>c, <1>d
        <5> QED BY <5>1, <5>2, <2>1, <1>c
      <4> QED BY <4>2, <4>3
    <3> QED BY <3>2, <3>3
  <2>2. \A j \in Topics : attempt'[j].at = "post" => attempt'[j] = attempt[j]
    BY <1>b, <1>d
  <2> QED BY <2>1, <2>2, <1>d DEF Answered, NotAcked, Acked
<1> QED BY <1>1, <1>2, <1>3, <1>4, <1>5

\* A success that is not recorded is in doubt.
LEMMA RecordTryFailsDispatches ==
  ASSUME DispatchInv, NEW i \in Topics, RecordTryFails(i)
  PROVE  DispatchInv'
<1> USE DispatchRecords, DispatchAssumption DEF DispatchInv, DispatchTypes
<1>1. DispatchTypes'
  <2>1. [NoTry EXCEPT !.at = "recorded"] \in Attempts
    BY DEF NoTry, Attempts
  <2>2. attempt[i].seq \in Seqs
    BY DEF RecordTryFails, Started, UnderWay
  <2> QED BY <2>1, <2>2 DEF DispatchTypeOK, RecordTryFails, dispatch
<1>2. Numbered'
  BY DEF Numbered, Settled, Open, UnderWay, Kept, RecordTryFails, NoTry, Failing, server2,
      dispatch
<1>3. Kept'
  BY DEF Kept, RecordTryFails, NoTry, Failing, server2, dispatch
<1>4. Started'
  BY DEF Started, UnderWay, Due, Waits, Kept, RecordTryFails, NoTry, Failing, server2,
      dispatch
<1>5. Answered'
  BY DEF Answered, NotAcked, Acked, Kept, RecordTryFails, NoTry, Failing, server2, dispatch
<1> QED BY <1>1, <1>2, <1>3, <1>4, <1>5

\* The issue stays in inflight until the dispatcher has taken the key.
LEMMA SendDoneDispatches ==
  ASSUME DispatchInv, NEW i \in Topics, SendDone(i)
  PROVE  DispatchInv'
<1> USE DispatchRecords, DispatchAssumption DEF DispatchInv, DispatchTypes
<1>1. DispatchTypes'
  BY DEF DispatchTypeOK, SheetRows, Txs, Found, Attempts, Seqs, Kept, Started, SendDone,
      server2, dispatch
<1>2. Numbered'
  BY DEF Numbered, Settled, Open, UnderWay, Kept, SendDone, server2, dispatch
<1>3. Kept'
  BY DEF Kept, SendDone, server2, dispatch
<1>4. Started'
  BY DEF Started, UnderWay, Due, Waits, Kept, SendDone, server2, dispatch
<1>5. Answered'
  BY DEF Answered, NotAcked, Acked, Kept, SendDone, server2, dispatch
<1> QED BY <1>1, <1>2, <1>3, <1>4, <1>5

\* Only the context changes.
LEMMA SigTermDispatches ==
  ASSUME DispatchInv, SigTerm
  PROVE  DispatchInv'
<1> USE DispatchRecords, DispatchAssumption DEF DispatchInv, DispatchTypes
<1>1. DispatchTypes'
  BY DEF DispatchTypeOK, SheetRows, Txs, Found, Attempts, Seqs, Kept, Started, SigTerm,
      server2, dispatch
<1>2. Numbered'
  BY DEF Numbered, Settled, Open, UnderWay, Kept, SigTerm, server2, dispatch
<1>3. Kept'
  BY DEF Kept, SigTerm, server2, dispatch
<1>4. Started'
  BY DEF Started, UnderWay, Due, Waits, Kept, SigTerm, server2, dispatch
<1>5. Answered'
  BY DEF Answered, NotAcked, Acked, Kept, SigTerm, server2, dispatch
<1> QED BY <1>1, <1>2, <1>3, <1>4, <1>5

\* Nothing is listed.
LEMMA LeaveLoopDispatches ==
  ASSUME DispatchInv, LeaveLoop
  PROVE  DispatchInv'
<1> USE DispatchRecords, DispatchAssumption DEF DispatchInv, DispatchTypes
<1>1. DispatchTypes'
  BY DEF DispatchTypeOK, SheetRows, Txs, Found, Attempts, Seqs, Kept, Started,
      LeaveLoop, server2, dispatch
<1>2. Numbered'
  BY DEF Numbered, Settled, Open, UnderWay, Kept, LeaveLoop, server2, dispatch
<1>3. Kept'
  BY DEF Kept, LeaveLoop, server2, dispatch
<1>4. Started'
  BY DEF Started, UnderWay, Due, Waits, Kept, LeaveLoop, server2, dispatch
<1>5. Answered'
  BY DEF Answered, NotAcked, Acked, Kept, LeaveLoop, server2, dispatch
<1> QED BY <1>1, <1>2, <1>3, <1>4, <1>5

\* No attempt is left whose answer could be lost.
LEMMA ShutdownDispatches ==
  ASSUME DispatchInv, Shutdown
  PROVE  DispatchInv'
<1> USE DispatchRecords, DispatchAssumption DEF DispatchInv, DispatchTypes
<1>1. DispatchTypes'
  BY DEF DispatchTypeOK, SheetRows, Txs, Found, Attempts, Seqs, Kept, Started, Shutdown,
      Down, server2, dispatch
<1>2. Numbered'
  BY DEF Numbered, Settled, Open, UnderWay, Kept, Shutdown, Down, server2, dispatch
<1>3. Kept'
  BY DEF Kept, Shutdown, Down, server2, dispatch
<1>4. Started'
  BY DEF Started, UnderWay, Due, Waits, Kept, Shutdown, Down, server2, dispatch
<1>5. Answered'
  <2>1. \A e \in Seqs : sheet[e].status = "pending" => NotAcked(e)
    BY DEF Answered, Kept, SheetRows, Acked, Shutdown
  <2> QED BY <2>1 DEF Answered, NotAcked, Shutdown, Down
<1> QED BY <1>1, <1>2, <1>3, <1>4, <1>5

\* A success in the hands of an attempt is in doubt.
LEMMA CrashDispatches ==
  ASSUME DispatchInv, Crash
  PROVE  DispatchInv'
<1> USE DispatchRecords, DispatchAssumption DEF DispatchInv, DispatchTypes
<1>1. DispatchTypes'
  <2>1. \A j \in Topics : attempt[j].at = "record" => attempt[j].seq \in Seqs
    BY DEF Started, UnderWay
  <2>2. unsure' \subseteq Seqs
    BY <2>1 DEF Crash, DispatchTypeOK
  <2> QED BY <2>2 DEF DispatchTypeOK, Crash, Down
<1>2. Numbered'
  BY DEF Numbered, Settled, Open, UnderWay, Kept, Crash, Down, server2, dispatch
<1>3. Kept'
  BY DEF Kept, Crash, Down, server2, dispatch
<1>4. Started'
  BY DEF Started, UnderWay, Due, Waits, Kept, Crash, Down, server2, dispatch
<1>5. Answered'
  <2>1. ASSUME NEW e \in Seqs, sheet[e].status = "pending" PROVE NotAcked(e)'
    <3>1. sheet[e].topic \in Topics /\ (NotAcked(e) \/ Acked(sheet[e].topic, e))
      BY <2>1 DEF Answered, Kept, SheetRows
    <3>2. Acked(sheet[e].topic, e) => e \in unsure'
      BY <3>1 DEF Acked, Crash
    <3> QED BY <3>1, <3>2 DEF NotAcked, Crash, Down
  <2> QED BY <2>1 DEF Answered, NotAcked, Crash, Down
<1> QED BY <1>1, <1>2, <1>3, <1>4, <1>5

\* The server is up again.
LEMMA RestartDispatches ==
  ASSUME DispatchInv, Restart
  PROVE  DispatchInv'
<1> USE DispatchRecords, DispatchAssumption DEF DispatchInv, DispatchTypes
<1>1. DispatchTypes'
  BY DEF DispatchTypeOK, SheetRows, Txs, Found, Attempts, Seqs, Kept, Started, Restart,
      server2, dispatch
<1>2. Numbered'
  BY DEF Numbered, Settled, Open, UnderWay, Kept, Restart, server2, dispatch
<1>3. Kept'
  BY DEF Kept, Restart, server2, dispatch
<1>4. Started'
  BY DEF Started, UnderWay, Due, Waits, Kept, Restart, server2, dispatch
<1>5. Answered'
  BY DEF Answered, NotAcked, Acked, Kept, Restart, server2, dispatch
<1> QED BY <1>1, <1>2, <1>3, <1>4, <1>5

\* Before anything has happened.
LEMMA DispatchInit == PlainInit => DispatchInv
<1> SUFFICES ASSUME PlainInit PROVE DispatchInv
  OBVIOUS
<1> USE DispatchRecords, DispatchAssumption DEF PlainInit
<1>1. DispatchTypes
  BY DEF DispatchTypes, DispatchTypeOK, Seqs
<1>2. Numbered
  BY DEF Numbered, Settled, Open, UnderWay
<1>3. Kept /\ Started /\ Answered
  BY DEF Kept, Started, Answered, UnderWay
<1> QED BY <1>1, <1>2, <1>3 DEF DispatchInv

\* No step of a request, of the dispatcher, of an attempt or of main breaks the invariant.
LEMMA DispatchStep == DispatchInv /\ [PlainNext]_plainVars => DispatchInv'
<1> SUFFICES ASSUME DispatchInv, [PlainNext]_plainVars PROVE DispatchInv'
  OBVIOUS
<1>1. ASSUME NEW h \in Writers,
             (\E i \in Topics : Write(h, i)) \/ CommitWrite(h) \/ AbortWrite(h)
      PROVE  DispatchInv'
  BY <1>1, WriteDispatches, CommitWriteDispatches, AbortWriteDispatches
<1>2. CASE DropHook \/ Drain \/ ScanFails \/ Launch
  BY <1>2, DropHookDispatches, DrainDispatches, ScanFailsDispatches, LaunchDispatches
<1>3. ASSUME NEW resting, Scan(resting) PROVE DispatchInv'
  BY <1>3, ScanDispatches
<1>4. ASSUME NEW i \in Topics, Trying(i) \/ RecordTryFails(i) PROVE DispatchInv'
  BY <1>4, ReceiveDispatches, RecordTryDispatches, SendDoneDispatches, RecordTryFailsDispatches
  DEF Trying
<1>5. CASE SigTerm \/ LeaveLoop \/ Shutdown \/ Crash \/ Restart
  BY <1>5, SigTermDispatches, LeaveLoopDispatches, ShutdownDispatches, CrashDispatches,
     RestartDispatches
<1>6. CASE UNCHANGED plainVars
  BY <1>6
  DEF DispatchInv, DispatchTypes, DispatchTypeOK, Numbered, Settled, Open, UnderWay, Kept, Started,
      Due, Waits, Answered, NotAcked, Acked, plainVars, server2, dispatch
<1> QED BY <1>1, <1>2, <1>3, <1>4, <1>5, <1>6 DEF PlainNext

\* runDispatcher sends the deliveries of an issue in the order of seq, and an acknowledged one
\* again only after a crash or a failed UPDATE, for any number of requests, issues, deliveries,
\* crashes and failed statements, and any LIMIT of the scan.
THEOREM DispatcherPlainSafe == PlainSpec => []DispatchSound
<1>1. DispatchInv => DispatchSound
  BY DEF DispatchInv, DispatchTypes, DispatchSound, SentInOrder, AgainOnlyIfUnsure, Started,
      UnderWay, Due, Answered
<1> QED BY <1>1, DispatchInit, DispatchStep, PTL DEF PlainSpec
=============================================================================
