------------------------------ MODULE MCTracker ------------------------------
(***************************************************************************)
(* The request handlers of the Go trackers for TLC.  The parts share no    *)
(* state: a behaviour is one of one part, chosen in the initial state, and *)
(* leaves the variables of the others alone.                               *)
(***************************************************************************)
EXTENDS SessionsPlain, MembersPlain, IssueNumbers, IssueRows, HookCache, IssueList,
        IssueFilter, Identifiers, TLC

VARIABLE part

\* An organisation with an owner, a member and the owner's project, so that the requests that
\* are left are about them.
Founded ==
  /\ \E u, w \in People :
       /\ u # w
       /\ orgRole = [v \in People |-> IF v = u THEN 3 ELSE IF v = w THEN 1 ELSE 0]
       /\ pmRole = [v \in People |-> IF v = u THEN 3 ELSE 0]
  /\ project = [id |-> 1, there |-> TRUE, vis |-> 0, name |-> 0] /\ assignee = Uncreated
  /\ lock = NoOne /\ found = {} /\ ask = [h \in Handlers |-> NoAsk] /\ asked = 0
  /\ raced = {} /\ clashes = {}

MCInit ==
  /\ part \in {"sessions", "sessions-plain", "members", "members-plain", "numbers",
               "numbers-plain", "rows", "rows-plain", "hooks", "lists", "filters", "ids"}
  /\ SessionInit /\ (MembersInit \/ Founded) /\ NumbersInit /\ RowsInit /\ HooksInit /\ ListInit
  /\ FilterInit /\ IdsInit
  /\ part \notin {"members", "members-plain"} => MembersInit
  /\ part # "lists" => listed = {} /\ \A k \in RowKeys : column[k] = 1

OnlySessions == UNCHANGED <<part, memberVars, numberVars, rowVars, hookVars, listVars, answers, idVars>>
OnlyMembers  == UNCHANGED <<part, sessionVars, numberVars, rowVars, hookVars, listVars, answers, idVars>>
OnlyNumbers  == UNCHANGED <<part, sessionVars, memberVars, rowVars, hookVars, listVars, answers, idVars>>
OnlyRows     == UNCHANGED <<part, sessionVars, memberVars, numberVars, hookVars, listVars, answers, idVars>>
OnlyHooks    == UNCHANGED <<part, sessionVars, memberVars, numberVars, rowVars, listVars, answers, idVars>>
OnlyLists    == UNCHANGED <<part, sessionVars, memberVars, numberVars, rowVars, hookVars, answers, idVars>>
OnlyFilters  == UNCHANGED <<part, sessionVars, memberVars, numberVars, rowVars, hookVars, listVars, idVars>>
OnlyIds      == UNCHANGED <<part, sessionVars, memberVars, numberVars, rowVars, hookVars, listVars, answers>>

MCNext ==
  \/ part = "sessions"       /\ SessionNext      /\ OnlySessions
  \/ part = "sessions-plain" /\ PlainSessionNext /\ OnlySessions
  \/ part = "members"        /\ MembersNext      /\ OnlyMembers
  \/ part = "members-plain"  /\ PlainMembersNext /\ OnlyMembers
  \/ part = "numbers"        /\ NumbersNext      /\ OnlyNumbers
  \/ part = "numbers-plain"  /\ PlainNumbersNext /\ OnlyNumbers
  \/ part = "rows"           /\ RowsNext         /\ OnlyRows
  \/ part = "rows-plain"     /\ PlainRowsNext    /\ OnlyRows
  \/ part = "hooks"          /\ HooksNext        /\ OnlyHooks
  \/ part = "lists"          /\ ListNext         /\ OnlyLists
  \/ part = "filters"        /\ FilterNext       /\ OnlyFilters
  \/ part = "ids"            /\ IdsNext          /\ OnlyIds

MCSpec ==
  MCInit /\ [][MCNext]_<<part, sessionVars, memberVars, numberVars, rowVars, hookVars, listVars,
                         answers, idVars>>

\* The requests of every part have the same names, and so have people, comments and locked rows;
\* they are interchangeable.
Symmetry == Permutations(Handlers) \cup Permutations(People)
=============================================================================
