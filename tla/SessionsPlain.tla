---------------------------- MODULE SessionsPlain ----------------------------
(***************************************************************************)
(* Refresh tokens of the second Go tracker                                 *)
(* (src/tracker/impl/go-plain-1/auth.go), over the tables of Sessions.     *)
(*                                                                         *)
(* Here a rotation is one transaction that holds the row of its token.     *)
(* Transactions are READ COMMITTED: an UPDATE of a chain finds the rows    *)
(* committed when the statement begins, then locks them one by one and     *)
(* waits for whoever holds one.                                            *)
(***************************************************************************)
EXTENDS Sessions

\* Somebody else holds the row of t.
Locked(c, t) == \E d \in Clients \ {c} : t \in req[d].held

\* A statement waits for rows other transactions hold.
Waiting(c) == req[c].rows # {} /\ \A t \in req[c].rows : Locked(c, t)

\* The requests among D wait for each other only.
DeadlockedIn(D) ==
  \A d \in D : Waiting(d) /\ \A e \in Clients \ {d} :
                 req[d].rows \cap req[e].held # {} => e \in D

InsertsPromised == Cardinality({c \in Clients : req[c].at = "swap"})

\* register: ON CONFLICT DO NOTHING, no row affected is email_taken.
PlainRegister(u) ==
  /\ u \notin users
  /\ users' = users \cup {u}
  /\ UNCHANGED <<made, chainOf, used, revoked, expired, req, errors, past>>

\* login: issueTokens in a new chain.
PlainLogin(u) ==
  /\ u \in users /\ made + InsertsPromised < MaxTokens
  /\ Insert(made + 1, 0)
  /\ UNCHANGED <<users, used, revoked, expired, req, errors, broken, dead>>

Holding(where, t) == [At(where, t) EXCEPT !.held = {t}]

\* refresh: SELECT ... FOR UPDATE, and what the row says.
PlainRefresh(c, t) ==
  /\ req[c].at = "idle" /\ t \in Made /\ ~ Locked(c, t)
  /\ made + InsertsPromised < MaxTokens
  /\ CASE t \in used -> req' = [req EXCEPT ![c] = Holding("locked", t)]
       [] Exchangeable(t) -> req' = [req EXCEPT ![c] = Holding("swap", t)]
       [] OTHER -> UNCHANGED req
  /\ UNCHANGED <<table, errors, past>>

\* The mark and the new token are committed together.
PlainCommit(c) ==
  /\ req[c].at = "swap"
  /\ LET t == req[c].tok IN used' = used \cup {t} /\ Insert(chainOf[t], t)
  /\ req' = [req EXCEPT ![c] = Idle]
  /\ UNCHANGED <<users, revoked, expired, errors, broken, dead>>

\* A statement of the transaction fails: Rollback, 500.
PlainAbort(c) ==
  /\ req[c].at # "idle" /\ Fails
  /\ req' = [req EXCEPT ![c] = Idle]
  /\ UNCHANGED <<table, past>>

\* The UPDATE of the chain begins: in refresh with the row of the token held,
\* in logout with none.
Revoking(ch, t, mine) ==
  [at |-> "update", tok |-> t, rows |-> Chain(ch) \ mine, held |-> mine]

PlainReuse(c) ==
  /\ req[c].at = "locked"
  /\ req' = [req EXCEPT ![c] = Revoking(chainOf[@.tok], @.tok, @.held)]
  /\ UNCHANGED <<table, errors, past>>

PlainLogout(c, t) ==
  /\ req[c].at = "idle" /\ t \in Made
  /\ req' = [req EXCEPT ![c] = Revoking(chainOf[t], 0, {})]
  /\ UNCHANGED <<table, errors, past>>

LockRow(c, t) ==
  /\ t \in req[c].rows /\ ~ Locked(c, t)
  /\ req' = [req EXCEPT ![c].rows = @ \ {t}, ![c].held = @ \cup {t}]
  /\ UNCHANGED <<table, errors, past>>

\* The statement has all its rows: Commit, then token_reused or 204.
PlainRevoke(c) ==
  /\ req[c].at = "update" /\ req[c].rows = {}
  /\ LET rows == req[c].held
         ch   == chainOf[CHOOSE t \in rows : TRUE]
     IN  /\ revoked' = revoked \cup rows
         /\ dead' = IF Chain(ch) \subseteq rows THEN dead \cup {ch} ELSE dead
  /\ req' = [req EXCEPT ![c] = Idle]
  /\ UNCHANGED <<users, made, chainOf, used, expired, errors, parent, broken>>

\* The database aborts one of several transactions that wait for each other: 500.
PlainDeadlock(c) ==
  /\ \E D \in SUBSET Clients : c \in D /\ DeadlockedIn(D)
  /\ req' = [req EXCEPT ![c] = Idle]
  /\ UNCHANGED <<table, errors, past>>

PlainSessionNext ==
  \/ \E u \in Users : PlainRegister(u) \/ PlainLogin(u)
  \/ \E t \in Tokens : Expire(t)
  \/ \E c \in Clients :
       \/ \E t \in Tokens : PlainRefresh(c, t) \/ PlainLogout(c, t) \/ LockRow(c, t)
       \/ PlainCommit(c) \/ PlainAbort(c) \/ PlainReuse(c) \/ PlainRevoke(c)
       \/ PlainDeadlock(c)

PlainSessionSpec == SessionInit /\ [][PlainSessionNext]_sessionVars
=============================================================================
