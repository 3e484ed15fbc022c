----------------------------- MODULE IssueFilter -----------------------------
(***************************************************************************)
(* Which issues GET /orgs/{slug}/issues is about: the filters and the      *)
(* caller's rights in hListIssues (src/tracker/impl/go-1/list.go) and in   *)
(* searchIssues (src/tracker/impl/go-plain-1/search.go), as functions of   *)
(* the request, compared with each other.                                  *)
(*                                                                         *)
(* The value of a filter is the set of its comma-separated parts, empty    *)
(* when the parameter is absent.  Status stands for the three enumerations *)
(* and assignee for the two filters by a user.                             *)
(***************************************************************************)
EXTENDS Naturals, FiniteSets

CONSTANTS
  Projects,
  OpenProjects,  \* visible to every member; the others are private
  Statuses,
  Assignees,     \* users
  Labels

Blank      == ""      \* the part of "a,," that is empty
NoAssignee == "none"

ASSUME FilterAssumption ==
  /\ OpenProjects \subseteq Projects
  /\ Blank \notin Projects \cup Statuses \cup Labels
  /\ "bad" \notin Statuses /\ {"me", NoAssignee, "bad", Blank} \cap Assignees = {}

Issues == [proj : Projects, status : Statuses, assignee : Assignees \cup {NoAssignee},
           labels : SUBSET Labels]

\* The answer 422.
Invalid == {[proj |-> Blank, status |-> Blank, assignee |-> Blank, labels |-> {}]}

\* A caller: an organisation admin or not, and a member of some private projects.
Askers == [me : Assignees, admin : BOOLEAN, joined : SUBSET (Projects \ OpenProjects)]

Queries == [project : SUBSET (Projects \cup {Blank}),
            status : SUBSET (Statuses \cup {"bad", Blank}),
            assignee : SUBSET (Assignees \cup {"me", NoAssignee, "bad"}),
            label : SUBSET (Labels \cup {Blank})]

Visible(a) == {p \in Projects : a.admin \/ p \in OpenProjects \cup a.joined}

UserMatch(a, x, parts) ==
  \/ parts = {}
  \/ "me" \in parts /\ x.assignee = a.me
  \/ x.assignee \in parts             \* a user, or "none"

-----------------------------------------------------------------------------
(* hListIssues.                                                            *)

\* Fault: a project that is named need not be visible.
WantedUnchecked(a, q) == IF q.project = {} THEN Visible(a) ELSE q.project

Wanted(a, q) == IF q.project = {} THEN Visible(a) ELSE q.project \cap Visible(a)
AllProjects(a, q) == a.admin /\ q.project = {}

\* A part that is no value of the enumeration or no user, the empty one included.
Refused(q) == q.status \cap {"bad", Blank} # {} \/ "bad" \in q.assignee

\* With no project left the answer is the empty page, before the other filters are looked at.
ListAnswer(a, q) ==
  IF ~AllProjects(a, q) /\ Wanted(a, q) = {} THEN {}
  ELSE IF Refused(q) THEN Invalid
  ELSE {x \in Issues :
         /\ AllProjects(a, q) \/ x.proj \in Wanted(a, q)
         /\ q.status = {} \/ x.status \in q.status
         /\ UserMatch(a, x, q.assignee)
         /\ q.label = {} \/ x.labels \cap q.label # {}}

-----------------------------------------------------------------------------
(* searchIssues: empty parts are dropped first.                            *)

SearchRefused(q) == "bad" \in q.status \cup q.assignee

SearchAnswer(a, q) ==
  LET project == q.project \ {Blank}
      status  == q.status \ {Blank}
      label   == q.label \ {Blank}
      ids     == {p \in Visible(a) : project = {} \/ p \in project}
  IN  IF SearchRefused(q) THEN Invalid
      ELSE {x \in Issues :
             /\ x.proj \in ids
             /\ status = {} \/ x.status \in status
             /\ UserMatch(a, x, q.assignee)
             /\ label = {} \/ x.labels \cap label # {}}

-----------------------------------------------------------------------------
\* A caller sends the same query to both.
VARIABLE answers

Unasked == [list |-> {}, search |-> {}, wanted |-> {}]

FilterInit == answers = Unasked

Ask(a, q) ==
  /\ answers = Unasked
  /\ answers' = [list |-> ListAnswer(a, q), search |-> SearchAnswer(a, q), wanted |-> Wanted(a, q)]

NoBlanks == {q \in Queries : Blank \notin q.project \cup q.status \cup q.label}

FilterNext == \E a \in Askers, q \in NoBlanks : Ask(a, q)

FilterSpec == FilterInit /\ [][FilterNext]_answers

\* The two implementations list the same issues for every caller and every request without
\* empty parts, except that go-1 answers with an empty page where the request is invalid and
\* names no project that the caller can see (list.go:71).
FiltersAgree ==
  \/ answers.list = answers.search
  \/ answers.list = {} /\ answers.search = Invalid /\ answers.wanted = {}
=============================================================================
