---------------------------- MODULE Notifications ----------------------------
(***************************************************************************)
(* The page of notifications.  (The badge of unread ones is left out.)     *)
(* The page shows one filter, a page of the server's at a time, and a      *)
(* number (refreshRequestRef) tells the requests of the present refresh    *)
(* from those before it: "current" here.  An answer is read when it comes. *)
(***************************************************************************)
EXTENDS Naturals, FiniteSets

CONSTANTS Items,          \* notifications, which the server lists PageSize at a time
          PageSize,
          MaxFetches      \* bound: requests for lists, or for the count, under way

VARIABLES unread, read,   \* what the server holds
          filter,         \* the filter of the page
          fetches,        \* requests for lists under way
          loading, more,  \* loading, loadingMore
          failed,         \* the present refresh failed
          of, shown,      \* what is listed: the filter it was fetched under, the items
          done,           \* those of them the page shows as read
          page, hasMore,
          selected,       \* selectedIds
          marks,          \* items being marked as read
          all             \* the filter under which all are being marked, or "none"

notificationVars == <<unread, read, filter, fetches, loading, more, failed, of, shown, done, page, hasMore, selected, marks, all>>
Server == <<unread, read>>
List == <<of, shown, done>>
Paging == <<page, hasMore>>
Load == <<fetches, loading, more, failed>>

Filters == {"all", "unread", "read"}
Pages == 1..Cardinality(Items)
Fetches == [what : {"refresh", "more"}, filter : Filters, page : Pages, current : BOOLEAN]
Fits(f) == CASE f = "all" -> unread \cup read [] f = "unread" -> unread [] f = "read" -> read

TypeOK ==
    /\ unread \subseteq Items /\ read \subseteq Items /\ unread \cap read = {}
    /\ filter \in Filters /\ of \in Filters
    /\ fetches \subseteq Fetches
    /\ loading \in BOOLEAN /\ more \in BOOLEAN /\ failed \in BOOLEAN /\ hasMore \in BOOLEAN
    /\ shown \subseteq Items /\ done \subseteq shown /\ page \in Pages
    /\ selected \subseteq Items /\ marks \subseteq Items
    /\ all \in Filters \cup {"none"}

\* The page is mounted, and refreshes.
Init ==
    /\ unread \in {{i} : i \in Items} \cup {Items} /\ read = Items \ unread
    /\ filter = "all" /\ of = "all" /\ shown = {} /\ done = {} /\ page = 1 /\ hasMore = FALSE
    /\ fetches = {[what |-> "refresh", filter |-> "all", page |-> 1, current |-> TRUE]}
    /\ loading = TRUE /\ more = FALSE /\ failed = FALSE
    /\ selected = {} /\ marks = {} /\ all = "none"

-----------------------------------------------------------------------------
(* Lists.                                                                   *)
Superseded == {[r EXCEPT !.current = FALSE] : r \in fetches}

refresh(f) ==
    /\ Cardinality(fetches) < MaxFetches
    /\ fetches' = Superseded \cup {[what |-> "refresh", filter |-> f, page |-> 1, current |-> TRUE]}
    /\ loading' = TRUE /\ more' = FALSE /\ failed' = FALSE

SetFilter(f) ==
    /\ f # filter /\ filter' = f /\ refresh(f) /\ selected' = {}
    /\ UNCHANGED <<Server, List, Paging, marks, all>>

loadMore ==
    /\ hasMore /\ ~loading /\ ~more /\ page + 1 \in Pages /\ Cardinality(fetches) < MaxFetches
    /\ more' = TRUE
    /\ fetches' = fetches \cup {[what |-> "more", filter |-> filter, page |-> page + 1, current |-> TRUE]}
    /\ UNCHANGED <<Server, filter, loading, failed, List, Paging, selected, marks, all>>

Takes(r, items) ==
    /\ shown' = IF r.what = "more" THEN shown \cup items ELSE items
    /\ done' = (IF r.what = "more" THEN done ELSE {}) \cup (items \cap read)
    /\ of' = r.filter /\ page' = r.page
    /\ hasMore' = (Cardinality(Fits(r.filter)) > PageSize * r.page)

Ends(r) ==
    /\ loading' = IF r.what = "refresh" THEN FALSE ELSE loading
    /\ more' = IF r.what = "more" THEN FALSE ELSE more

\* mutant: an answer is taken whatever the page asked for since
AnsweredAnyway(r, items) ==
    /\ r \in fetches /\ fetches' = fetches \ {r}
    /\ items \subseteq Fits(r.filter) /\ Cardinality(items) <= PageSize
    /\ Takes(r, items) /\ Ends(r)
    /\ UNCHANGED <<Server, filter, failed, selected, marks, all>>

\* The items of a page of the server's.
Answered(r, items) ==
    /\ r \in fetches /\ fetches' = fetches \ {r}
    /\ items \subseteq Fits(r.filter) /\ Cardinality(items) <= PageSize
    /\ (items = {} => Cardinality(Fits(r.filter)) <= PageSize * (r.page - 1))
    /\ IF r.current
       THEN /\ Takes(r, items) /\ Ends(r)
               ELSE UNCHANGED <<loading, more, List, Paging>>
    /\ UNCHANGED <<Server, filter, failed, selected, marks, all>>

Fails(r) ==
    /\ r \in fetches /\ fetches' = fetches \ {r}
    /\ IF r.current
       THEN Ends(r) /\ failed' = (failed \/ r.what = "refresh")
       ELSE UNCHANGED <<loading, more, failed>>
    /\ UNCHANGED <<Server, filter, List, Paging, selected, marks, all>>

-----------------------------------------------------------------------------
(* Marking as read: shown at once, asked for after.                         *)
Shows(items, f) ==
    IF f = "unread"
    THEN shown' = shown \ items /\ done' = done \ items
    ELSE shown' = shown /\ done' = done \cup (shown \cap items)

Quiet == marks = {} /\ all = "none"      \* bound: one change of the user's at a time

markRead(i) ==
    /\ i \in shown \ done /\ Quiet
    /\ Shows({i}, filter) /\ marks' = marks \cup {i}
    /\ UNCHANGED <<Server, filter, Load, of, Paging, selected, all>>

markSelectedRead ==
    /\ selected # {} /\ Quiet /\ selected' = {}
    /\ marks' = (selected \cap shown) \ done
    /\ IF marks' = {} THEN UNCHANGED <<shown, done>> ELSE Shows(selected, filter)
    /\ UNCHANGED <<Server, filter, Load, of, Paging, all>>

Marked(i) ==
    /\ i \in marks /\ marks' = marks \ {i}
    /\ unread' = unread \ {i} /\ read' = read \cup ({i} \cap unread)
    /\ UNCHANGED <<filter, Load, List, Paging, selected, all>>

MarkFails(i) ==
    /\ i \in marks /\ marks' = marks \ {i}
    /\ refresh(filter)
    /\ UNCHANGED <<Server, filter, List, Paging, selected, all>>

markAllRead ==
    /\ Quiet /\ shown \ done # {} /\ all' = filter
    /\ UNCHANGED <<Server, filter, Load, List, Paging, selected, marks>>

\* All of the server's are read; the filter is the one it was asked under.
AllMarked ==
    /\ all # "none" /\ all' = "none"
    /\ unread' = {} /\ read' = read \cup unread
    /\ Shows(shown, all) /\ selected' = {}
    /\ UNCHANGED <<filter, Load, of, Paging, marks>>

AllFails ==
    /\ all # "none" /\ all' = "none"
    /\ UNCHANGED <<Server, filter, Load, List, Paging, selected, marks>>

toggleSelect(i) ==
    /\ i \in shown /\ Quiet /\ selected' = IF i \in selected THEN selected \ {i} ELSE selected \cup {i}
    /\ UNCHANGED <<Server, filter, Load, List, Paging, marks, all>>

toggleSelectAll ==
    /\ shown # {} /\ Quiet /\ selected' = IF Cardinality(selected) = Cardinality(shown) THEN {} ELSE shown
    /\ UNCHANGED <<Server, filter, Load, List, Paging, marks, all>>

Next ==
    \/ \E i \in Items : markRead(i) \/ Marked(i) \/ MarkFails(i) \/ toggleSelect(i)
    \/ \E f \in Filters : SetFilter(f)
    \/ loadMore
    \/ \E r \in fetches : Fails(r) \/ \E items \in SUBSET Items : Answered(r, items)
    \/ markSelectedRead \/ markAllRead \/ AllMarked \/ AllFails \/ toggleSelectAll

Spec == Init /\ [][Next]_notificationVars

-----------------------------------------------------------------------------
(* Once it is loaded, the page lists what was fetched under its filter: no    *)
(* answer of a filter before it, and no further page of one.                *)
NotificationsAreTheFilters == ~loading /\ ~failed => of = filter

\* The requests of the present refresh are under the filter of the page, and
\* what is listed is too, unless a refresh is under way or has failed.
PresentAreTheFilters ==
    /\ \A r \in fetches : r = [what |-> r.what, filter |-> r.filter, page |-> r.page,
                               current |-> r.current]
    /\ \A r \in fetches : r.current => r.filter = filter

\* What keeps NotificationsAreTheFilters.
NotificationsInv == NotificationsAreTheFilters /\ PresentAreTheFilters
=============================================================================
