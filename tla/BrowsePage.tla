----------------------------- MODULE BrowsePage -----------------------------
(***************************************************************************)
(* The browse page and the cache it shares with hover prefetches: requests *)
(* are shared, a cached listing is shown at once and revalidated, an event *)
(* drops what it makes stale and forbids the requests under way to fill    *)
(* the cache.  A folder and one folder inside it stand for the tree.  A    *)
(* listing is "now" until the server changes it.  A topic newly subscribed *)
(* to is resynchronised.                                                   *)
(***************************************************************************)

EXTENDS Naturals, FiniteSets

CONSTANT MaxPulls  \* bound: requests under way

VARIABLES cached,    \* browseCache, by path
          pulls,     \* requests under way
          page,      \* the path of the page
          fetched,   \* what the page itself fetched last
          fetching,  \* isFetching
          mishap,    \* error: the page could not be loaded
          events,    \* an event about the page is under way
          missed     \* the last request of the page failed

browseVars == <<cached, pulls, page, fetched, fetching, mishap, events, missed>>

Paths == {"folder", "inner"}
Ages == {"none", "old", "now"}

\* "joinable": in the inflight map; "valid": no event since it began; "front"
\* and "back": a foreground or background fetch of the page waits for it.
Pulls == [path : Paths, joinable : BOOLEAN, valid : BOOLEAN, front : BOOLEAN,
          back : BOOLEAN, read : Ages]

TypeOK ==
    /\ cached \in [Paths -> Ages] /\ pulls \subseteq Pulls /\ page \in Paths
    /\ fetched \in [path : Paths, data : Ages]
    /\ fetching \in BOOLEAN /\ mishap \in BOOLEAN /\ events \in BOOLEAN /\ missed \in BOOLEAN
    /\ \A p, q \in pulls : p.path = q.path /\ p.joinable /\ q.joinable => p = q

\* What a page at p shows: the cached listing, or what it fetched for p.
Data(c, f, p) == IF c[p] # "none" THEN c[p] ELSE IF f.path = p THEN f.data ELSE "none"
Shown == Data(cached, fetched, page)

\* The topic follows the entity on the page.
Listen == events' = (IF Shown = "none" \/ page' # page THEN Data(cached', fetched', page') # "none"
                     ELSE events /\ Data(cached', fetched', page') # "none")

Pull(p) == [path |-> p, joinable |-> TRUE, valid |-> TRUE, front |-> FALSE, back |-> FALSE,
            read |-> "none"]

\* fetchBrowsePath: join the request under way or start one.
Waiting(rs, p, front) ==
    LET open == {r \in rs : r.path = p /\ r.joinable}
        r == IF open = {} THEN Pull(p) ELSE CHOOSE q \in open : TRUE
    IN (rs \ open) \cup {[r EXCEPT !.front = @ \/ front, !.back = @ \/ ~front]}

\* fetchData, when the cache does not answer it at once.
Fetch(rs, p, front) ==
    /\ pulls' = Waiting(rs, p, front)
    /\ fetching' = (fetching \/ front) /\ mishap' = FALSE /\ missed' = FALSE

\* mutant: an event does not invalidate what is under way
DetachedOnly(rs, ps) == {IF r.path \in ps THEN [r EXCEPT !.joinable = FALSE] ELSE r : r \in rs}

\* A new invalidationEpoch: no request under way may fill the cache, and those
\* for what was dropped are detached.
Detached(rs, ps) ==
    {[r EXCEPT !.valid = FALSE, !.joinable = @ /\ r.path \notin ps] : r \in rs}

\* The cached listings that show the folder on the page.
Showing == {p \in Paths : p = page \/ (page = "inner" /\ cached[p] # "none")}
Dropped(ps) == [p \in Paths |-> IF p \in ps THEN "none" ELSE cached[p]]

Init ==
    /\ cached = [p \in Paths |-> "none"] /\ page \in Paths
    /\ fetched = [path |-> page, data |-> "none"]
    /\ pulls = Waiting({}, page, TRUE) /\ fetching = TRUE
    /\ mishap = FALSE /\ events = FALSE /\ missed = FALSE

-----------------------------------------------------------------------------
Read(r) ==
    /\ r \in pulls /\ r.read = "none"
    /\ pulls' = (pulls \ {r}) \cup {[r EXCEPT !.read = "now"]}
    /\ UNCHANGED <<cached, page, fetched, fetching, mishap, events, missed>>

\* The page takes whatever it asked for, the cache only what no event overtook.
Answered(r) ==
    /\ r \in pulls /\ r.read # "none" /\ pulls' = pulls \ {r}
    /\ cached' = IF r.valid THEN [cached EXCEPT ![r.path] = r.read] ELSE cached
    /\ fetched' = IF r.front \/ r.back THEN [path |-> r.path, data |-> r.read] ELSE fetched
    /\ fetching' = (fetching /\ ~r.front)
    /\ UNCHANGED <<page, mishap, missed>>
    /\ Listen

Fails(r) ==
    /\ r \in pulls /\ pulls' = pulls \ {r}
    /\ mishap' = (mishap \/ r.front) /\ fetching' = (fetching /\ ~r.front)
    /\ missed' = (missed \/ r.path = page)
    /\ UNCHANGED <<cached, page, fetched, events>>

\* Hovering a link prefetches what it leads to.
Prefetch(p) ==
    /\ cached[p] = "none" /\ \A r \in pulls : ~(r.path = p /\ r.joinable)
    /\ pulls' = pulls \cup {Pull(p)}
    /\ UNCHANGED <<cached, page, fetched, fetching, mishap, events, missed>>

\* A cached target is shown at once and revalidated.
GoTo(rs, c, p) ==
    /\ page' = p /\ cached' = c
    /\ pulls' = Waiting(rs, p, c[p] = "none")
    /\ fetching' = (c[p] = "none") /\ mishap' = FALSE /\ missed' = FALSE
    /\ UNCHANGED fetched

Navigate(p) == p # page /\ GoTo(pulls, cached, p) /\ Listen

Retry ==
    /\ mishap /\ Fetch(pulls, page, TRUE)
    /\ UNCHANGED <<cached, page, fetched, events>>

\* child_added, child_updated, child_removed, pr_closed, material_updated and
\* the resynchronisation.
Changed ==
    /\ events /\ cached' = Dropped(Showing)
    /\ Fetch(Detached(pulls, Showing), page, FALSE)
    /\ events' = FALSE
    /\ UNCHANGED <<page, fetched>>

\* directory_deleted: the page moves to the parent.
Deleted ==
    /\ events /\ page = "inner"
    /\ GoTo(Detached(pulls, Showing), Dropped(Showing), "folder")
    /\ Listen

\* A contribution of the user was applied.
RefreshListing ==
    /\ cached' = Dropped({page})
    /\ Fetch(Detached(pulls, {page}), page, FALSE)
    /\ UNCHANGED <<page, fetched, events>>

\* The entry's time is over, or others took its place.
CacheForgets(p) ==
    /\ cached[p] # "none" /\ cached' = Dropped({p})
    /\ UNCHANGED <<pulls, page, fetched, fetching, mishap, missed>>
    /\ Listen

Older(age) == IF age = "now" THEN "old" ELSE age
ServerChanges(p) ==
    /\ cached' = [cached EXCEPT ![p] = Older(@)]
    /\ fetched' = IF fetched.path = p THEN [fetched EXCEPT !.data = Older(@)] ELSE fetched
    /\ pulls' = {IF r.path = p THEN [r EXCEPT !.read = Older(@)] ELSE r : r \in pulls}
    /\ events' = (events \/ (p = page /\ Shown # "none"))
    /\ UNCHANGED <<page, fetching, mishap, missed>>

Next ==
    /\ \/ \E r \in pulls : Read(r) \/ Answered(r) \/ Fails(r)
       \/ \E p \in Paths : Prefetch(p) \/ Navigate(p) \/ CacheForgets(p) \/ ServerChanges(p)
       \/ Retry \/ Changed \/ Deleted \/ RefreshListing
    /\ Cardinality(pulls') <= MaxPulls

Spec == Init /\ [][Next]_browseVars

-----------------------------------------------------------------------------
(* The cached listing a page shows is current, or an event about it is     *)
(* under way: no request that an event overtook puts its old answer back   *)
(* into the cache, whichever page shares that request.                     *)
CachedIsPostEvent == cached[page] = "old" => events

-----------------------------------------------------------------------------
(* Inductive strengthening of CachedIsPostEvent: the answers that may still *)
(* fill the cache are no older than the page knows of.                     *)
ValidIsPostEvent ==
    Shown # "none" /\ ~events =>
        \A r \in pulls : r.valid /\ r.path = page => r.read # "old"

BrowseInv ==
    /\ cached \in [Paths -> Ages] /\ pulls \subseteq Pulls /\ page \in Paths
    /\ fetched \in [path : Paths, data : Ages] /\ events \in BOOLEAN
    /\ CachedIsPostEvent /\ ValidIsPostEvent

\* At most one request of a path is there to be joined: what bounds them.
Single(rs) == \A p, q \in rs : p.path = q.path /\ p.joinable /\ q.joinable => p = q
=============================================================================
