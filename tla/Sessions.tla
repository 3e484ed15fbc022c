------------------------------ MODULE Sessions ------------------------------
(***************************************************************************)
(* Refresh tokens of the Go issue tracker (src/tracker/impl/go-1/auth.go): *)
(* login, rotation of a token, detection of a token used twice, logout.    *)
(*                                                                         *)
(* Every statement is a transaction of its own, so a request that runs two *)
(* of them lets the others in between.  A chain is named by the token its  *)
(* login made.  Hashes, passwords and access tokens are left out: a login  *)
(* is one with the right password.                                         *)
(***************************************************************************)
EXTENDS Naturals, FiniteSets

CONSTANTS
  Clients,    \* requests served at the same time
  Users,      \* e-mail addresses
  MaxTokens,  \* refresh tokens made; bounds the model
  MaxErrors   \* statements that fail; bounds the model

\* A server runs finitely many requests at a time.
ASSUME SessionAssumption ==
  IsFiniteSet(Clients) /\ MaxTokens \in Nat /\ MaxErrors \in Nat

Tokens == 1..MaxTokens

VARIABLES
  users,    \* the table users
  made,     \* rows of refresh_tokens so far
  chainOf,  \* refresh_tokens.chain
  used,     \* rows with used = true
  revoked,  \* rows with revoked = true
  expired,  \* rows whose expires_at has passed
  req,      \* what each request is doing, and with which token
  errors,   \* statements that have failed
  parent,   \* history: the token a token was exchanged for, 0 for a login
  broken,   \* history: exchanged, but the new pair could not be stored
  dead      \* history: chains revoked while no exchange of theirs was on

table == <<users, made, chainOf, used, revoked, expired>>
past  == <<parent, broken, dead>>
sessionVars == <<table, req, errors, past>>

Made      == 1..made
Chain(ch) == {t \in Made : chainOf[t] = ch}
Live(t)   == t \notin used \cup revoked
Idle      == [at |-> "idle", tok |-> 0, rows |-> {}, held |-> {}]
At(where, t) == [at |-> where, tok |-> t, rows |-> {}, held |-> {}]

\* Exchanges that have marked a token and not stored the next one.
Exchanging(ch) == {c \in Clients : req[c].at = "mark" /\ chainOf[req[c].tok] = ch}
\* Rows the exchanges under way will insert.
Promised == Cardinality({c \in Clients : req[c].at = "mark"})

Fails == errors < MaxErrors /\ errors' = errors + 1

SessionInit ==
  /\ users = {} /\ made = 0
  /\ chainOf = [t \in Tokens |-> 0]
  /\ used = {} /\ revoked = {} /\ expired = {}
  /\ req = [c \in Clients |-> Idle]
  /\ errors = 0
  /\ parent = [t \in Tokens |-> 0]
  /\ broken = {} /\ dead = {}

-----------------------------------------------------------------------------
\* The unique index on users.email answers email_taken to the second.
Register(u) ==
  /\ u \notin users
  /\ users' = users \cup {u}
  /\ UNCHANGED <<made, chainOf, used, revoked, expired, req, errors, past>>

\* The INSERT of newPair, in chain ch.
Insert(ch, from) ==
  /\ made' = made + 1
  /\ chainOf' = [chainOf EXCEPT ![made + 1] = ch]
  /\ parent' = [parent EXCEPT ![made + 1] = from]

Login(u) ==
  /\ u \in users /\ made + Promised < MaxTokens
  /\ Insert(made + 1, 0)
  /\ UNCHANGED <<users, used, revoked, expired, req, errors, broken, dead>>

\* Fault: the UPDATE does not ask for NOT used.
ExchangeableTwice(t) == t \notin revoked \cup expired

\* The row the UPDATE of a refresh looks for.
Exchangeable(t) == t \notin used \cup revoked \cup expired

\* POST /auth/refresh, first statement: mark the token if it can be exchanged.
Refresh(c, t) ==
  /\ req[c].at = "idle" /\ t \in Made /\ made + Promised < MaxTokens
  /\ IF Exchangeable(t)
     THEN /\ used' = used \cup {t}
          /\ req' = [req EXCEPT ![c] = At("mark", t)]
     ELSE /\ req' = [req EXCEPT ![c] = At("probe", t)]
          /\ UNCHANGED used
  /\ UNCHANGED <<users, made, chainOf, revoked, expired, errors, past>>

\* ... and newPair in the chain of the token.
NewPair(c) ==
  /\ req[c].at = "mark"
  /\ Insert(chainOf[req[c].tok], req[c].tok)
  /\ req' = [req EXCEPT ![c] = Idle]
  /\ UNCHANGED <<users, used, revoked, expired, errors, broken, dead>>

\* The INSERT fails, or the client is gone and the context with it: 500.
NewPairFails(c) ==
  /\ req[c].at = "mark" /\ Fails
  /\ broken' = broken \cup {req[c].tok}
  /\ req' = [req EXCEPT ![c] = Idle]
  /\ UNCHANGED <<table, parent, dead>>

\* No row was marked: look why.  A token used but not revoked was stolen, any
\* other is only invalid.
Probe(c) ==
  /\ req[c].at = "probe"
  /\ LET t == req[c].tok IN
     req' = [req EXCEPT ![c] = IF t \in used \ revoked THEN At("reuse", t) ELSE Idle]
  /\ UNCHANGED <<table, errors, past>>

\* UPDATE refresh_tokens SET revoked=true WHERE chain=ch.
Revoke(ch) ==
  /\ revoked' = revoked \cup Chain(ch)
  /\ dead' = IF Exchanging(ch) = {} THEN dead \cup {ch} ELSE dead

\* Fault: only the token presented is revoked.
ReuseOne(c) ==
  /\ req[c].at = "reuse"
  /\ LET t == req[c].tok IN
     /\ revoked' = revoked \cup {t}
     /\ dead' = IF Exchanging(chainOf[t]) = {} THEN dead \cup {chainOf[t]} ELSE dead
  /\ req' = [req EXCEPT ![c] = Idle]
  /\ UNCHANGED <<users, made, chainOf, used, expired, errors, parent, broken>>

Reuse(c) ==
  /\ req[c].at = "reuse"
  /\ Revoke(chainOf[req[c].tok])
  /\ req' = [req EXCEPT ![c] = Idle]
  /\ UNCHANGED <<users, made, chainOf, used, expired, errors, parent, broken>>

\* The error of this statement is dropped: token_reused all the same.
ReuseFails(c) ==
  /\ req[c].at = "reuse" /\ Fails
  /\ req' = [req EXCEPT ![c] = Idle]
  /\ UNCHANGED <<table, parent, broken, dead>>

\* POST /auth/logout: one statement; an unknown token is no error.
Logout(t) ==
  /\ t \in Made
  /\ Revoke(chainOf[t])
  /\ UNCHANGED <<users, made, chainOf, used, expired, req, errors, parent, broken>>

\* 30 days pass.
Expire(t) ==
  /\ t \in Made \ expired
  /\ expired' = expired \cup {t}
  /\ UNCHANGED <<users, made, chainOf, used, revoked, req, errors, past>>

SessionNext ==
  \/ \E u \in Users : Register(u) \/ Login(u)
  \/ \E t \in Tokens : Logout(t) \/ Expire(t)
  \/ \E c \in Clients :
       \/ \E t \in Tokens : Refresh(c, t)
       \/ NewPair(c) \/ NewPairFails(c) \/ Probe(c) \/ Reuse(c) \/ ReuseFails(c)

SessionSpec == SessionInit /\ [][SessionNext]_sessionVars

-----------------------------------------------------------------------------
\* The columns and the requests have values the code can store; a chain is named by its first
\* token.
SessionTypeOK ==
  /\ users \subseteq Users
  /\ made \in 0..MaxTokens
  /\ chainOf \in [Tokens -> 0..MaxTokens] /\ parent \in [Tokens -> 0..MaxTokens]
  /\ \A s \in {used, revoked, expired, broken, dead} : s \subseteq Made
  /\ \A t \in Made : chainOf[t] \in 1..t /\ chainOf[chainOf[t]] = chainOf[t] /\ parent[t] < t
  /\ \A c \in Clients :
       /\ req[c].at \in {"idle", "mark", "probe", "reuse", "swap", "locked", "update"}
       /\ req[c].tok \in 0..made /\ (req[c].at \notin {"idle", "update"} => req[c].tok # 0)
       /\ req[c].rows \cup req[c].held \subseteq Made
  /\ errors \in 0..MaxErrors

\* hRefresh (auth.go:342): a refresh token is exchanged at most once, however many requests
\* present it at the same time: no two tokens have it as their parent.
SingleUse ==
  \A s, t \in Made : parent[s] # 0 /\ parent[s] = parent[t] => s = t

\* hRefresh and hLogin: a chain never forks: together with the exchanges that have marked a
\* token and not stored the next, at most one token of a chain can be exchanged.
NoFork ==
  \A ch \in Made :
    Cardinality({t \in Chain(ch) : Live(t)}) + Cardinality(Exchanging(ch)) <= 1

\* hLogout and the reuse branch of hRefresh (auth.go:362): a chain revoked while none of its
\* tokens was being exchanged stays revoked:
\* no request that began before or after makes a token of it again.
DeadStaysDead ==
  \A ch \in dead : Chain(ch) \subseteq revoked /\ Exchanging(ch) = {}

\* hRefresh marks first and inserts then: a token is spent only for another one, unless the
\* statement that stores the other one fails: the client is not logged out by a race alone.
SpentForSuccessor ==
  \A t \in used : \/ \E s \in Made : parent[s] = t /\ chainOf[s] = chainOf[t]
                  \/ \E c \in Clients : req[c].at = "mark" /\ req[c].tok = t
                  \/ t \in broken

\* hRefresh (auth.go:334): a chain is a line of tokens of which the last alone is good.
ChainsSound == SessionTypeOK /\ SingleUse /\ NoFork /\ SpentForSuccessor
=============================================================================
