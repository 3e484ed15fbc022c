------------------------------ MODULE HookCache ------------------------------
(***************************************************************************)
(* The cache of an organisation's webhooks in the Go issue tracker         *)
(* (webhooks.go under src/tracker/impl/go-1): orgHooks fills it outside    *)
(* its mutex, the handlers of /webhooks change the table and then drop it, *)
(* and every write of an issue or a comment consults it inside a           *)
(* transaction, over a second connection of the pool when it is cold, with *)
(* the row of the issue or of the project locked.                          *)
(*                                                                         *)
(* The events a hook wants and whether it is active are one thing here: it *)
(* is "on" or "off" for the event at hand.  A statement may be carried out *)
(* and yet be reported as failed, when the client has gone away or the     *)
(* connection breaks.                                                      *)
(***************************************************************************)
EXTENDS Naturals, FiniteSets, FiniteSetsExt

CONSTANTS
  Callers,     \* requests served at the same time
  HookIds,
  LockedRows,  \* rows that a write locks first: issues and projects
  IdemKeys,    \* idempotency keys
  Pool,        \* MaxConns of the pool
  MaxChanges   \* changes of the hooks; bounds the model

ASSUME PoolAssumption ==
  /\ Pool \in Nat \ {0} /\ MaxChanges \in Nat
  /\ LockedRows \cap IdemKeys = {} /\ "none" \notin LockedRows \cup IdemKeys \cup Callers

NoList == [cached |-> FALSE, subs |-> {}, ver |-> 0]

VARIABLES
  hooks,     \* the table: unmade, on, off or gone
  cache,     \* hookCache.m of the organisation
  gen,       \* hookCache.gen of the organisation
  call,      \* what each caller is doing
  conns,     \* callers whose transaction holds a connection
  holder,    \* whose transaction holds a row or has inserted a key
  ver,       \* history: changes committed
  answered,  \* history: the latest change answered with success
  lost       \* history: the latest change reported as failed

hookVars == <<hooks, cache, gen, call, conns, holder, ver, answered, lost>>

NoCall == [at |-> "idle", then |-> "add", gen |-> 0, list |-> NoList, hook |-> "none",
           key |-> "none", row |-> "none", floor |-> 0, ver |-> 0]

HooksInit ==
  /\ hooks = [h \in HookIds |-> "unmade"]
  /\ cache = NoList /\ gen = 0
  /\ call = [c \in Callers |-> NoCall]
  /\ conns = {} /\ holder = [r \in LockedRows \cup IdemKeys |-> "none"]
  /\ ver = 0 /\ answered = 0 /\ lost = 0

Connection == Cardinality(conns) < Pool
Active == {h \in HookIds : hooks[h] = "on"}

-----------------------------------------------------------------------------
(* The handlers of /webhooks.                                              *)

\* The statement is carried out: the handler goes on to invalidateHooks, or
\* is told of an error and leaves.
Change(c, h, state) ==
  /\ Connection /\ ver < MaxChanges
  /\ hooks' = [hooks EXCEPT ![h] = state]
  /\ ver' = ver + 1
  /\ \/ /\ call' = [call EXCEPT ![c] = [NoCall EXCEPT !.at = "changed", !.ver = ver + 1]]
        /\ UNCHANGED lost
     \/ call' = [call EXCEPT ![c] = NoCall] /\ lost' = ver + 1
  /\ UNCHANGED <<cache, gen, conns, holder, answered>>

CreateHook(c) ==
  call[c].at = "idle" /\ \E h \in HookIds : hooks[h] = "unmade" /\ Change(c, h, "on")

\* hPatchHook reads the row, then writes every column.
LoadHook(c) ==
  /\ call[c].at = "idle" /\ Connection
  /\ \E h \in HookIds :
       /\ hooks[h] \in {"on", "off"}
       /\ call' = [call EXCEPT ![c] = [NoCall EXCEPT !.at = "loaded", !.hook = h]]
  /\ UNCHANGED <<hooks, cache, gen, conns, holder, ver, answered, lost>>

PatchHook(c) ==
  LET h == call[c].hook IN
  /\ call[c].at = "loaded"
  /\ \/ hooks[h] # "gone" /\ \E s \in {"on", "off"} : Change(c, h, s)
     \/ /\ hooks[h] = "gone"            \* no row to write; invalidates all the same
        /\ call' = [call EXCEPT ![c] = [NoCall EXCEPT !.at = "changed"]]
        /\ UNCHANGED <<hooks, cache, gen, conns, holder, ver, answered, lost>>

\* DELETE waits for the transactions that refer to the hook.
DeleteHook(c) ==
  /\ call[c].at = "idle"
  /\ \E h \in HookIds :
       /\ hooks[h] \in {"on", "off"}
       /\ ~ \E d \in Callers : call[d].at = "told" /\ h \in call[d].list.subs
       /\ Change(c, h, "gone")

InvalidateHooks(c) ==
  /\ call[c].at = "changed"
  /\ cache' = NoList /\ gen' = gen + 1
  /\ answered' = Max({answered, call[c].ver})
  /\ call' = [call EXCEPT ![c] = NoCall]
  /\ UNCHANGED <<hooks, conns, holder, ver, lost>>

-----------------------------------------------------------------------------
(* A request that writes in a transaction.                                 *)

\* Begin.  A creation may have an idempotency key.  A comment and a bulk request ask hasHooks
\* before addEvents; some requests (a comment changed or deleted) ask neither.  A transaction
\* locks one row here; the orders in which two are locked are IssueRows's.
BeginWrite(c, then, key, row) ==
  /\ call[c].at = "idle" /\ Connection
  /\ conns' = conns \cup {c}
  /\ call' = [call EXCEPT ![c] =
                [NoCall EXCEPT !.at = IF key = "none" THEN "keyed" ELSE "begun", !.then = then,
                               !.key = key, !.row = row, !.floor = answered]]
  /\ UNCHANGED <<hooks, cache, gen, holder, ver, answered, lost>>

\* A row is taken when no other transaction holds it: the caller waits, with its connection.
Take(c, r, next) ==
  /\ holder[r] = "none" /\ holder' = [holder EXCEPT ![r] = c]
  /\ call' = [call EXCEPT ![c].at = next]
  /\ UNCHANGED <<hooks, cache, gen, conns, ver, answered, lost>>

\* INSERT of the idempotency key, which waits for another transaction's.
TakeKey(c) == call[c].at = "begun" /\ Take(c, call[c].key, "keyed")

\* issueAccess FOR UPDATE, or UPDATE projects SET seq.
TakeRow(c) ==
  call[c].at = "keyed" /\ Take(c, call[c].row, IF call[c].then = "none" THEN "done" ELSE "locked")

\* hasHooks found no subscriber: there is nothing to add.  With one, addEvents looks again.
Got(c, list) ==
  [call[c] EXCEPT !.list = list,
                  !.at = IF call[c].then = "add" \/ list.subs = {} THEN "got" ELSE "locked",
                  !.then = "add"]

\* orgHooks, first section of the mutex.
LookUp(c) ==
  /\ call[c].at = "locked"
  /\ call' = [call EXCEPT ![c] =
                IF cache.cached THEN Got(c, cache)
                ELSE [@ EXCEPT !.at = "cold", !.gen = gen]]
  /\ UNCHANGED <<hooks, cache, gen, conns, holder, ver, answered, lost>>

\* The query, over a second connection that is returned at once.
Query(c) ==
  /\ call[c].at = "cold" /\ Connection
  /\ call' = [call EXCEPT ![c] =
                [@ EXCEPT !.at = "read", !.list = [cached |-> TRUE, subs |-> Active, ver |-> ver]]]
  /\ UNCHANGED <<hooks, cache, gen, conns, holder, ver, answered, lost>>

\* Fault: the list is stored whatever happened since the query.
FillBlind(c) ==
  /\ call[c].at = "read"
  /\ cache' = call[c].list
  /\ call' = [call EXCEPT ![c] = Got(c, call[c].list)]
  /\ UNCHANGED <<hooks, gen, conns, holder, ver, answered, lost>>

\* orgHooks, second section.
Fill(c) ==
  /\ call[c].at = "read"
  /\ cache' = IF gen = call[c].gen THEN call[c].list ELSE cache
  /\ call' = [call EXCEPT ![c] = Got(c, call[c].list)]
  /\ UNCHANGED <<hooks, gen, conns, holder, ver, answered, lost>>

\* The rows and the keys of a transaction that ends are free.
LetGo(c) == holder' = [r \in DOMAIN holder |-> IF holder[r] = c THEN "none" ELSE holder[r]]

\* Fault: an early return without Rollback.
EndHolding(c) ==
  /\ call' = [call EXCEPT ![c] = NoCall]
  /\ LetGo(c)
  /\ UNCHANGED <<hooks, cache, gen, conns, ver, answered, lost>>

End(c) ==
  /\ call' = [call EXCEPT ![c] = NoCall]
  /\ conns' = conns \ {c} /\ LetGo(c)
  /\ UNCHANGED <<hooks, cache, gen, ver, answered, lost>>

\* addEvents: a row for each subscriber; one that is gone fails the request.
AddEvents(c) ==
  /\ call[c].at = "got"
  /\ IF \E h \in call[c].list.subs : hooks[h] = "gone"
     THEN End(c)
     ELSE /\ call' = [call EXCEPT ![c].at = "told"]
          /\ UNCHANGED <<hooks, cache, gen, conns, holder, ver, answered, lost>>

CommitEvents(c) == call[c].at \in {"told", "done"} /\ End(c)

\* The request is refused, the key is known, a statement fails, or the client goes away and
\* with it a wait for a row, for a connection or for the query of orgHooks: Rollback.
GiveUp(c) == c \in conns /\ End(c)

Serving(c) ==
  \/ TakeKey(c) \/ TakeRow(c) \/ LookUp(c) \/ Query(c) \/ Fill(c) \/ AddEvents(c) \/ CommitEvents(c)
  \/ PatchHook(c) \/ InvalidateHooks(c)

HooksNext ==
  \E c \in Callers :
    \/ CreateHook(c) \/ LoadHook(c) \/ DeleteHook(c)
    \/ \E then \in {"ask", "add", "none"}, key \in IdemKeys \cup {"none"}, row \in LockedRows :
         BeginWrite(c, then, key, row)
    \/ Serving(c) \/ GiveUp(c)

HooksSpec == HooksInit /\ [][HooksNext]_hookVars

-----------------------------------------------------------------------------
\* Where a transaction is under way, and where it has its row.
WithRow == {"locked", "cold", "read", "got", "told", "done"}
InTransaction == {"begun", "keyed"} \cup WithRow

\* Types; the pool is never exceeded.
HooksTypeOK ==
  /\ hooks \in [HookIds -> {"unmade", "on", "off", "gone"}]
  /\ cache.subs \subseteq HookIds /\ cache.ver \in 0..ver
  /\ gen \in Nat
  /\ \A c \in Callers :
       call[c].at \in {"idle", "loaded", "changed"} \cup InTransaction
  /\ conns \subseteq Callers /\ Cardinality(conns) <= Pool

\* addEvents and the cache (webhooks.go:51): a write of an issue tells the hooks as they
\* were at the last change answered before it began, or as they are after it.
EventsSeeAnswered ==
  \A c \in Callers : call[c].at \in {"got", "told"} => call[c].list.ver >= call[c].floor

\* invalidateHooks (webhooks.go:44): a list that is older than the table stays in the
\* cache only as long as the handler that changed it has not come to invalidateHooks, or
\* because that handler was told of an error and never does.
StaleOnlyByLost ==
  cache.cached /\ cache.ver < ver =>
    \/ lost > cache.ver
    \/ \E c \in Callers : call[c].at = "changed" /\ call[c].ver > cache.ver

\* orgHooks and invalidateHooks (webhooks.go:44-75): the cache and who reads it.
CacheSound == HooksTypeOK /\ EventsSeeAnswered /\ StaleOnlyByLost

\* The next statement of a transaction waits for nobody.
CanGoOn(c) ==
  \/ call[c].at = "begun" /\ holder[call[c].key] = "none"
  \/ call[c].at = "keyed" /\ holder[call[c].row] = "none"
  \/ call[c].at \in WithRow \ {"cold"}

\* The pool (webhooks.go:59): when every connection is taken, a transaction that has one can go
\* on, or one of them waits for a second connection to fill the cache and the others, if not in
\* a lookup as well, for a row or a key behind it.  Keys and rows, one row to a transaction,
\* never make the server stand still by themselves.
StarvedOnlyByLookups ==
  ~Connection => \E c \in conns : CanGoOn(c) \/ call[c].at = "cold"

-----------------------------------------------------------------------------
(* The inductive invariant behind CacheSound and StarvedOnlyByLookups.     *)

HookLists == [cached : BOOLEAN, subs : SUBSET HookIds, ver : Nat]
HookCalls == [at : {"idle", "loaded", "changed"} \cup InTransaction,
              then : {"ask", "add", "none"}, gen : Nat, list : HookLists,
              hook : HookIds \cup {"none"}, key : IdemKeys \cup {"none"},
              row : LockedRows \cup {"none"}, floor : Nat, ver : Nat]

HooksTypes ==
  /\ hooks \in [HookIds -> {"unmade", "on", "off", "gone"}]
  /\ cache \in HookLists /\ cache.ver <= ver
  /\ gen \in Nat /\ ver \in Nat /\ answered \in 0..ver /\ lost \in 0..ver
  /\ call \in [Callers -> HookCalls]
  /\ conns \subseteq Callers /\ IsFiniteSet(conns) /\ Cardinality(conns) <= Pool

\* A list may be kept: it is no older than the last change answered, and somebody will drop
\* it, or was told of an error, if it is older than the table.
Fresh(list) ==
  /\ answered <= list.ver /\ list.ver <= ver
  /\ list.ver < ver => \/ lost > list.ver
                       \/ \E c \in Callers : call[c].at = "changed" /\ call[c].ver > list.ver

\* What is cached may be kept, and so may what the query has read under this generation.
ListsFresh ==
  /\ cache.cached => Fresh(cache)
  /\ \A c \in Callers :
       /\ call[c].gen <= gen /\ call[c].floor <= answered /\ call[c].ver <= ver
       /\ call[c].at = "read" /\ call[c].gen = gen => Fresh(call[c].list)
       /\ call[c].at \in {"read", "got", "told"} => call[c].list.ver >= call[c].floor

\* Transactions, and they alone, hold connections.  Who holds a key is past the wait for it,
\* and who holds a row waits for no other.
ConnsHeld ==
  /\ holder \in [LockedRows \cup IdemKeys -> Callers \cup {"none"}]
  /\ \A c \in Callers :
       /\ c \in conns <=> call[c].at \in InTransaction
       /\ call[c].at = "begun" => call[c].key \in IdemKeys
       /\ call[c].at \in {"begun", "keyed"} => call[c].row \in LockedRows
  /\ \A k \in IdemKeys : holder[k] # "none" => call[holder[k]].at \in {"keyed"} \cup WithRow
  /\ \A r \in LockedRows : holder[r] # "none" => call[holder[r]].at \in WithRow

HooksInv == HooksTypes /\ ListsFresh /\ ConnsHeld
=============================================================================
