----------------------------- MODULE StaffLists -----------------------------
(***************************************************************************)
(* The lists of the staff console: contents, accounts, accounts in bulk,   *)
(* failed jobs and flags.  Each asks for its filter and page, counts its   *)
(* requests so that only the last one counts, and acts on rows.  What a    *)
(* list finds is any set of rows.                                          *)
(***************************************************************************)
EXTENDS Naturals, FiniteSets

CONSTANTS Rows,
          MaxPages,       \* pages a filter has
          MaxLoads,       \* bound: requests under way at a time
          MaxActs         \* bound: actions under way at a time

VARIABLES kind,           \* the list
          filter, page,   \* the search, role or status asked for; the page
          cursor,         \* nextCursor, of the accounts that can be turned while they load
          timer,          \* the debounce is running
          loads,          \* requests under way; "live": loadRequestRef is its own
          loading,
          listed, of,     \* the rows shown, and the filter they were found for
          failed,         \* the last request that counted failed
          selected, captured, \* the rows ticked; those an open dialog asks about
          acts            \* actions under way, with what their closure holds

listVars == <<kind, filter, page, cursor, timer, loads, loading, listed, of, failed, selected, captured, acts>>

Kinds == {"content", "users", "bulk", "jobs", "flags"}
Filters == {"some", "all"}
Pages == 1..MaxPages
Loads == [filter : Filters, page : Pages, live : BOOLEAN, act : BOOLEAN]
Acts == [filter : Filters, page : Pages, on : SUBSET Rows]

TypeOK ==
    /\ kind \in Kinds /\ filter \in Filters /\ page \in Pages /\ cursor \in BOOLEAN /\ timer \in BOOLEAN
    /\ loads \subseteq Loads /\ loading \in BOOLEAN /\ listed \subseteq Rows /\ of \in Filters
    /\ failed \in BOOLEAN /\ selected \subseteq Rows /\ captured \subseteq Rows /\ acts \subseteq Acts

\* Three wait a while before they ask, two tick rows, and three ask first.
Debounced == kind \in {"content", "users", "bulk"}
Ticks == kind \in {"content", "bulk"}
Dialogs == kind \in {"users", "bulk", "jobs"}

\* Two name the page in their answer, two ask again after an action; the others
\* read the page of a request, or the closure of an action, no more.
NamesPage == kind \in {"jobs", "flags"}
Refetches == kind \in {"bulk", "flags"}

Overtaken == {[q EXCEPT !.live = FALSE] : q \in loads}
Asking(f, p, act) ==
    Overtaken \cup {[filter |-> f, page |-> IF NamesPage THEN p ELSE 1, live |-> TRUE, act |-> act]}

Init ==
    /\ kind \in Kinds /\ filter = "all" /\ page = 1 /\ cursor = FALSE /\ timer = Debounced
    /\ loads = IF Debounced THEN {} ELSE {[filter |-> "all", page |-> 1, live |-> TRUE, act |-> FALSE]}
    /\ loading = TRUE /\ listed = {} /\ of = "all" /\ failed = FALSE
    /\ selected = {} /\ captured = {} /\ acts = {}

-----------------------------------------------------------------------------
(* Asking.                                                                 *)

\* mutant: the request under way still counts when the filter changes
ChangeFilterUncounted(f) ==
    /\ captured = {} /\ f # filter /\ filter' = f
    /\ page' = IF Debounced THEN 1 ELSE page
    /\ cursor' = FALSE
    /\ timer' = Debounced /\ loading' = TRUE
    /\ loads' = IF Debounced THEN loads ELSE Asking(f, 1, FALSE)
    /\ UNCHANGED <<kind, listed, of, failed, selected, captured, acts>>

\* A cursor stack is emptied, a page of contents is the first one; what was
\* asked for last no longer counts, and the new filter is asked for.
ChangeFilter(f) ==
    /\ captured = {} /\ f # filter /\ filter' = f
    /\ page' = IF Debounced THEN 1 ELSE page
    /\ cursor' = FALSE
    /\ timer' = Debounced /\ loading' = TRUE
    /\ loads' = IF Debounced THEN Overtaken ELSE Asking(f, 1, FALSE)
    /\ UNCHANGED <<kind, listed, of, failed, selected, captured, acts>>

TimerFires ==
    /\ timer /\ timer' = FALSE
    /\ loads' = Asking(filter, page, FALSE) /\ loading' = TRUE
    /\ UNCHANGED <<kind, filter, page, cursor, listed, of, failed, selected, captured, acts>>

Neighbours == {p \in Pages : p = page + 1 \/ p + 1 = page}

\* Contents wait again before they ask.
TurnContent(p) ==
    /\ kind = "content" /\ ~loading /\ page' = p
    /\ timer' = TRUE /\ loads' = Overtaken

\* Accounts keep the cursors they came by; one list may turn while it loads.
TurnAccounts(p) ==
    /\ kind \in {"users", "bulk"} /\ (kind = "bulk" => ~loading)
    /\ p > page => cursor
    /\ page' = p /\ loads' = Asking(filter, p, FALSE) /\ UNCHANGED timer

\* The page is the one the answer names.
TurnQueue(p) ==
    /\ NamesPage
    /\ loads' = Asking(filter, p, FALSE) /\ UNCHANGED <<page, timer>>

Turn(p) ==
    /\ p \in Neighbours /\ captured = {}
    /\ TurnContent(p) \/ TurnAccounts(p) \/ TurnQueue(p)
    /\ loading' = TRUE
    /\ UNCHANGED <<kind, filter, cursor, listed, of, failed, selected, captured, acts>>

Answered(q, found) ==
    /\ q \in loads /\ loads' = loads \ {q}
    /\ IF q.live
         THEN /\ listed' = found /\ of' = q.filter /\ selected' = {}
              /\ page' = IF NamesPage THEN q.page ELSE page
              /\ cursor' = (kind \in {"users", "bulk"})
              /\ failed' = FALSE /\ loading' = FALSE
         ELSE UNCHANGED <<listed, of, selected, page, cursor, failed, loading>>
    /\ UNCHANGED <<kind, filter, timer, captured, acts>>

\* The rows stay.
LoadFails(q) ==
    /\ q \in loads /\ loads' = loads \ {q}
    /\ IF q.live THEN failed' = TRUE /\ loading' = FALSE ELSE UNCHANGED <<failed, loading>>
    /\ UNCHANGED <<kind, filter, page, cursor, timer, listed, of, selected, captured, acts>>

-----------------------------------------------------------------------------
(* Ticking.                                                                *)
Tick(s) ==
    /\ Ticks /\ captured = {} /\ selected' = s /\ s # selected
    /\ UNCHANGED <<kind, filter, page, cursor, timer, loads, loading, listed, of, failed, captured, acts>>

Toggle(r) == r \in listed /\ Tick(IF r \in selected THEN selected \ {r} ELSE selected \cup {r})
ToggleAll == Tick(IF listed \subseteq selected THEN {} ELSE listed)
Clear == Tick({})

-----------------------------------------------------------------------------
(* Acting.  A closure keeps the filter and the page it was made with.      *)

\* Contents and accounts in bulk act one at a time, the refetch included.
Acting == Ticks /\ (acts # {} \/ \E q \in loads : q.act)

Run(s) ==
    /\ s # {}
    /\ acts' = acts \cup {[filter |-> IF Refetches THEN filter ELSE "all",
                          page |-> IF kind = "flags" THEN page ELSE 1, on |-> s]}
    /\ Cardinality(acts') <= MaxActs

OneRow == {{r} : r \in listed}

\* What acts at once: a status, a role, an approval, a verdict on a flag.
AtOnce ==
    CASE kind = "content" -> OneRow \cup {selected}
      [] kind = "users" -> OneRow
      [] kind = "bulk" -> {selected}
      [] kind = "flags" -> OneRow
      [] OTHER -> {}

Act(s) ==
    /\ captured = {} /\ s \in AtOnce /\ ~Acting /\ Run(s)
    /\ UNCHANGED <<kind, filter, page, cursor, timer, loads, loading, listed, of, failed, selected, captured>>

\* What asks first: a rejection, a deletion, a retry, a dismissal.
Ask(s) ==
    /\ captured = {} /\ Dialogs /\ ~Acting
    /\ s \in IF kind = "bulk" THEN {selected} ELSE OneRow
    /\ captured' = s
    /\ UNCHANGED <<kind, filter, page, cursor, timer, loads, loading, listed, of, failed, selected, acts>>

\* The dialog acts on the rows it was opened for, whatever is listed by now.
Decide(yes) ==
    /\ captured # {} /\ captured' = {}
    /\ IF yes THEN Run(captured) ELSE UNCHANGED acts
    /\ UNCHANGED <<kind, filter, page, cursor, timer, loads, loading, listed, of, failed, selected>>

\* A status or a role is patched in place; who is gone leaves the list.
Patched(a, goes) ==
    /\ kind \in {"content", "users", "jobs"} /\ (kind = "content" => ~goes)
    /\ listed' = IF goes THEN listed \ a.on ELSE listed
    /\ selected' = IF kind = "content" THEN {} ELSE selected
    /\ UNCHANGED <<loads, loading>>

\* The list is asked for again, by the closure of the action.
Refetched(a) ==
    /\ Refetches
    /\ loads' = Asking(a.filter, a.page, kind = "bulk") /\ loading' = TRUE
    /\ UNCHANGED <<listed, selected>>

ActDone(a, goes) ==
    /\ a \in acts /\ acts' = acts \ {a}
    /\ Patched(a, goes) \/ Refetched(a)
    /\ UNCHANGED <<kind, filter, page, cursor, timer, of, failed, captured>>

ActFails(a) ==
    /\ a \in acts /\ acts' = acts \ {a}
    /\ UNCHANGED <<kind, filter, page, cursor, timer, loads, loading, listed, of, failed, selected, captured>>

Steps ==
    \/ (\E f \in Filters : ChangeFilter(f)) \/ TimerFires \/ (\E p \in Pages : Turn(p))
    \/ \E q \in loads : LoadFails(q) \/ \E found \in SUBSET Rows : Answered(q, found)
    \/ (\E r \in Rows : Toggle(r)) \/ ToggleAll \/ Clear
    \/ \E s \in SUBSET Rows : Act(s) \/ Ask(s)
    \/ \E yes \in BOOLEAN : Decide(yes)
    \/ \E a \in acts : ActFails(a) \/ \E goes \in BOOLEAN : ActDone(a, goes)

Next == Steps /\ Cardinality(loads') <= MaxLoads

Spec == Init /\ [][Next]_listVars

-----------------------------------------------------------------------------
(* However filters, pages, answers and actions overlap: a list that says it *)
(* loads has its answer ahead of it; one that does not, and whose last load *)
(* did not fail, shows rows of the filter it names; and no row is ticked    *)
(* that is not shown, so that nothing is done to what cannot be seen.  (An  *)
(* action in bulk, or on a flag, asks again for the filter it was made      *)
(* under: those two lists may show the rows of the last filter.)            *)
ListIsItsFilters ==
    /\ loading => timer \/ \E q \in loads : q.live
    /\ ~loading /\ ~failed /\ kind \in {"content", "users", "jobs"} => of = filter
    /\ selected \subseteq listed

\* The request that counts is for the filter of the list, where no action asks
\* for that of its closure; rows are ticked in two lists only.
CountedAreTheFilters ==
    /\ \A q \in loads : q = [filter |-> q.filter, page |-> q.page, live |-> q.live, act |-> q.act]
    /\ ~Refetches => \A q \in loads : q.live => q.filter = filter
    /\ ~Ticks => selected = {}

\* What keeps ListIsItsFilters.
ListsInv == ListIsItsFilters /\ CountedAreTheFilters
=============================================================================
