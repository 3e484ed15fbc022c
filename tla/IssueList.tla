------------------------------ MODULE IssueList ------------------------------
(***************************************************************************)
(* Lists page by page in both Go trackers: list.go and the other lists of  *)
(* src/tracker/impl/go-1, which continue after the last row shown, and     *)
(* search.go and http.go of src/tracker/impl/go-plain-1, which continue at *)
(* an offset.  The table changes between two pages.                        *)
(*                                                                         *)
(* A row is named by what breaks ties: the key of an issue, the id of a    *)
(* comment, and so on, a number.  Rows that do not match the filters or    *)
(* that the caller may not see are not in the table.                       *)
(***************************************************************************)
EXTENDS Naturals, FiniteSets, Sequences

CONSTANTS
  RowKeys,    \* keys of rows, numbers
  Columns,    \* values of the sort column: time or priority
  PageSizes,  \* values of ?limit
  MaxEdits    \* changes of the table during a walk; bounds the model

\* Keys and columns are positive, and so is ?limit; that NoCursor is none of a row rests on it.
ASSUME ListAssumption ==
  /\ RowKeys \subseteq Nat \ {0} /\ IsFiniteSet(RowKeys)
  /\ Columns \subseteq Nat /\ PageSizes \subseteq Nat \ {0} /\ MaxEdits \in Nat

NoCursor == [col |-> 0, key |-> 0]

VARIABLES
  listed,   \* rows in the table
  column,   \* their sort column
  walk,     \* the client that walks over the pages
  edits,
  touched   \* history: rows inserted, deleted or changed since the walk began

listVars == <<listed, column, walk, edits, touched>>

NoWalk == [at |-> "idle", list |-> "issues", byCol |-> FALSE, desc |-> FALSE, limit |-> 1,
           cursor |-> NoCursor, offset |-> 0, seen |-> <<>>, total |-> 0]

ListInit ==
  /\ listed \in SUBSET RowKeys
  /\ column \in [RowKeys -> Columns]
  /\ walk = NoWalk /\ edits = 0 /\ touched = {}

-----------------------------------------------------------------------------
\* ORDER BY: the column, then the key ascending; or the key alone, either way.
Ordered(x, y) ==
  IF ~walk.byCol THEN IF walk.desc THEN x > y ELSE x < y
  ELSE \/ IF walk.desc THEN column[x] > column[y] ELSE column[x] < column[y]
       \/ column[x] = column[y] /\ x < y

\* Fault: rows with the value of the cursor are passed over.
AfterStrictly(x) ==
  LET c == walk.cursor IN
  \/ c = NoCursor
  \/ IF ~walk.byCol THEN IF walk.desc THEN x < c.key ELSE x > c.key
     ELSE IF walk.desc THEN column[x] < c.col ELSE column[x] > c.col

\* The condition the cursor adds to WHERE.
After(x) ==
  LET c == walk.cursor IN
  \/ c = NoCursor
  \/ IF ~walk.byCol THEN IF walk.desc THEN x < c.key ELSE x > c.key
     ELSE /\ IF walk.desc THEN column[x] <= c.col ELSE column[x] >= c.col
          /\ \/ IF walk.desc THEN column[x] < c.col ELSE column[x] > c.col
             \/ x > c.key

\* The rows of S in order.
Sorted(S) == {s \in [1..Cardinality(S) -> S] : \A j, k \in DOMAIN s : j < k => Ordered(s[j], s[k])}

Upto(s, n) == SubSeq(s, 1, IF n < Len(s) THEN n ELSE Len(s))

BeginWalk(list, byCol, desc, limit) ==
  /\ walk.at = "idle"
  /\ walk' = [NoWalk EXCEPT !.at = "walking", !.list = list, !.byCol = byCol, !.desc = desc,
                            !.limit = limit]
  /\ UNCHANGED <<listed, column, edits, touched>>

\* LIMIT limit+1: the row too many tells that there is more, the cursor is made from the last
\* row shown.
KeysetPage(from, at) ==
  /\ walk.at = from
  /\ \E rows \in Sorted({x \in listed : After(x)}) :
       LET items == Upto(rows, walk.limit)
           more  == Len(rows) > walk.limit
           last  == items[Len(items)]
       IN  walk' = [walk EXCEPT !.seen = @ \o items, !.at = IF more THEN at ELSE "done",
                      !.cursor = IF more THEN [col |-> column[last], key |-> last] ELSE @]
  /\ UNCHANGED <<listed, column, edits, touched>>

\* hListIssues: the count and the page are two statements.
CountIssues ==
  /\ walk.at = "walking" /\ walk.list = "issues"
  /\ walk' = [walk EXCEPT !.at = "counted", !.total = Cardinality(listed)]
  /\ UNCHANGED <<listed, column, edits, touched>>

ListIssues     == walk.list = "issues" /\ KeysetPage("counted", "walking")
BeginIssues(n) == \E byCol, desc \in BOOLEAN : BeginWalk("issues", byCol, desc, n)

\* The other lists: by slug, e-mail, key or id, or newest first by id.
ListOrgs       == walk.list = "orgs" /\ KeysetPage("walking", "walking")
ListMembers    == walk.list = "members" /\ KeysetPage("walking", "walking")
ListProjects   == walk.list = "projects" /\ KeysetPage("walking", "walking")
ListComments   == walk.list = "comments" /\ KeysetPage("walking", "walking")
ListHooks      == walk.list = "hooks" /\ KeysetPage("walking", "walking")
History        == walk.list = "history" /\ KeysetPage("walking", "walking")
ListDeliveries == walk.list = "deliveries" /\ KeysetPage("walking", "walking")

Ascending  == {"orgs", "members", "projects", "comments", "hooks"}
Descending == {"history", "deliveries"}
BeginList(n) ==
  \/ \E list \in Ascending : BeginWalk(list, FALSE, FALSE, n)
  \/ \E list \in Descending : BeginWalk(list, FALSE, TRUE, n)

-----------------------------------------------------------------------------
(* go-plain-1.                                                             *)

NextOffset == walk.offset + walk.limit

PlainCount ==
  /\ walk.at = "walking" /\ walk.list = "plain-issues"
  /\ walk' = [walk EXCEPT !.at = "counted", !.total = Cardinality(listed)]
  /\ UNCHANGED <<listed, column, edits, touched>>

\* LIMIT limit+1 OFFSET offset, and finish.
OffsetPage(from) ==
  /\ walk.at = from
  /\ \E rows \in Sorted(listed) :
       LET rest  == SubSeq(rows, walk.offset + 1, Len(rows))
           items == Upto(rest, walk.limit)
           more  == Len(rest) > walk.limit
       IN  walk' = [walk EXCEPT !.seen = @ \o items, !.at = IF more THEN "walking" ELSE "done",
                      !.offset = IF more THEN NextOffset ELSE @]
  /\ UNCHANGED <<listed, column, edits, touched>>

SearchIssues      == walk.list = "plain-issues" /\ OffsetPage("counted")
PlainOrgs         == walk.list = "plain-orgs" /\ OffsetPage("walking")
PlainOrgMembers   == walk.list = "plain-org-members" /\ OffsetPage("walking")
PlainProjects     == walk.list = "plain-projects" /\ OffsetPage("walking")
PlainProjMembers  == walk.list = "plain-proj-members" /\ OffsetPage("walking")
PlainComments     == walk.list = "plain-comments" /\ OffsetPage("walking")
PlainHooks        == walk.list = "plain-hooks" /\ OffsetPage("walking")
PlainHistory      == walk.list = "plain-history" /\ OffsetPage("walking")
PlainDeliveries   == walk.list = "plain-deliveries" /\ OffsetPage("walking")

PlainAscending  == {"plain-orgs", "plain-org-members", "plain-projects", "plain-proj-members",
                    "plain-comments", "plain-hooks"}
PlainDescending == {"plain-history", "plain-deliveries"}
PlainLists      == {"plain-issues"} \cup PlainAscending \cup PlainDescending

BeginPlain(n) ==
  \/ \E byCol, desc \in BOOLEAN : BeginWalk("plain-issues", byCol, desc, n)
  \/ \E list \in PlainAscending : BeginWalk(list, FALSE, FALSE, n)
  \/ \E list \in PlainDescending : BeginWalk(list, FALSE, TRUE, n)

-----------------------------------------------------------------------------
\* Somebody else inserts, deletes or changes a row.
Edit(x) ==
  /\ walk.at \in {"walking", "counted"} /\ edits < MaxEdits
  /\ edits' = edits + 1 /\ touched' = touched \cup {x}
  /\ \/ /\ listed' = IF x \in listed THEN listed \ {x} ELSE listed \cup {x}
        /\ UNCHANGED column
     \/ /\ x \in listed
        /\ \E v \in Columns \ {column[x]} : column' = [column EXCEPT ![x] = v]
        /\ UNCHANGED listed
  /\ UNCHANGED walk

ListNext ==
  \/ \E n \in PageSizes : BeginIssues(n) \/ BeginList(n) \/ BeginPlain(n)
  \/ CountIssues \/ ListIssues
  \/ ListOrgs \/ ListMembers \/ ListProjects \/ ListComments \/ ListHooks
  \/ History \/ ListDeliveries
  \/ PlainCount \/ SearchIssues
  \/ PlainOrgs \/ PlainOrgMembers \/ PlainProjects \/ PlainProjMembers \/ PlainComments
  \/ PlainHooks \/ PlainHistory \/ PlainDeliveries
  \/ \E x \in RowKeys : Edit(x)

ListSpec == ListInit /\ [][ListNext]_listVars

-----------------------------------------------------------------------------
Times(x) == Cardinality({k \in DOMAIN walk.seen : walk.seen[k] = x})

\* Types; a page never has more rows than asked for.
ListTypeOK ==
  /\ listed \subseteq RowKeys /\ column \in [RowKeys -> Columns]
  /\ walk.at \in {"idle", "walking", "counted", "done"} /\ walk.seen \in Seq(RowKeys)
  /\ walk.at = "walking" => Len(walk.seen) % walk.limit = 0

\* hListIssues and the other lists of go-1: a row that stays as it is during a walk is shown
\* exactly once, whatever is inserted, deleted or changed around it between the pages.
StayersOnce ==
  walk.at = "done" /\ walk.list \notin PlainLists => \A x \in listed \ touched : Times(x) = 1

\* ... and those rows come in the order asked for, across the pages.
StayersInOrder ==
  walk.list \notin PlainLists => \A j, k \in DOMAIN walk.seen :
    j < k /\ {walk.seen[j], walk.seen[k]} \cap touched = {} => Ordered(walk.seen[j], walk.seen[k])

\* "Walking all pages of an unchanged list returns every item exactly once" (SPEC.md,
\* Pagination), and the total says how many: in both implementations.
UnchangedOnce ==
  walk.at = "done" /\ touched = {} =>
    /\ \A x \in RowKeys : Times(x) = IF x \in listed THEN 1 ELSE 0
    /\ walk.list \in {"issues", "plain-issues"} => walk.total = Len(walk.seen)

\* A walk along a list, by cursor (list.go:196) or by offset (go-plain-1).
WalkSound == ListTypeOK /\ StayersOnce /\ StayersInOrder /\ UnchangedOnce
=============================================================================
