---------------------------- MODULE DirectoryTree ----------------------------
(***************************************************************************)
(* The directory tree beside the browse page: listings kept in caches that *)
(* survive a remount, requests that overtake each other, the walk that     *)
(* opens the path of the current page, and the events that keep it all up  *)
(* to date while the sidebar is open.  The root listing and one directory  *)
(* stand for the tree: branches do not interact.  A listing is "now" until *)
(* the server changes it.  A topic newly subscribed to is resynchronised.  *)
(***************************************************************************)
EXTENDS Naturals, FiniteSets

CONSTANT MaxRequests  \* bound: requests of the tree under way

VARIABLES listed,     \* rootsCache and childrenCache
          displayed,      \* roots and childrenMap of the mounted component
          requests,   \* in flight
          loading,    \* loadingIds and loadingRoots
          failing,    \* error: the roots could not be loaded
          expanded,   \* the directory is expanded
          opened,     \* treeSidebarOpen
          at,         \* the page: the directory, or a file in it
          activeDir,  \* activeDirectoryId
          auto,       \* lastAutoExpandedPathRef
          walk,       \* the walk along the path: to start, waiting, or over
          news,       \* listings with an event under way
          failed      \* listings whose latest request failed

treeVars == <<listed, displayed, requests, loading, failing, expanded, opened, at, activeDir, auto,
              walk, news, failed>>

Nodes == {"root", "dir"}
Age == {"none", "old", "now"}
Pages == {"dir", "file"}

\* "loud" shows a spinner, "quiet" leaves the component alone.  "mine": asked
\* for by the component mounted now; "walked": the walk waits for it.
Requests == [node : Nodes, kind : {"loud", "silent", "quiet"}, latest : BOOLEAN,
             mine : BOOLEAN, walked : BOOLEAN, read : Age]

TypeOK ==
    /\ listed \in [Nodes -> Age] /\ displayed \in [Nodes -> Age]
    /\ requests \subseteq Requests
    /\ loading \subseteq Nodes /\ failing \in BOOLEAN
    /\ expanded \in BOOLEAN /\ opened \in BOOLEAN /\ activeDir \in BOOLEAN
    /\ at \in Pages /\ auto \in Pages \cup {"none"}
    /\ walk \in {"over", "due", "first", "again"}
    /\ news \subseteq Nodes /\ failed \subseteq Nodes

Request(n, kind) == [node |-> n, kind |-> kind, latest |-> TRUE, mine |-> TRUE,
                     walked |-> kind = "quiet", read |-> "none"]

\* mutant: generations are not compared
NeverOvertaken(rs, nodes) == rs

\* beginChildRequest and rootRequestGeneration: the answers of older requests
\* will change nothing, but the walk still waits for its own.
Overtaken(rs, nodes) ==
    {r \in rs : r.node \notin nodes}
        \cup {[r EXCEPT !.latest = FALSE] : r \in {q \in rs : q.walked /\ q.node \in nodes}}

\* mutant: only the request that showed the spinner hides it
SettledByItself(r) == IF r.latest /\ r.mine /\ r.kind = "loud" THEN loading \ {r.node} ELSE loading

\* The latest request of a node hides its spinner.
Settled(r) == IF r.latest /\ r.mine THEN loading \ {r.node} ELSE loading

Ask(rs, nodes, kind) ==
    /\ requests' = Overtaken(rs, nodes) \cup {Request(n, kind) : n \in nodes}
    /\ failed' = failed \ nodes

Branches(e, a) == IF e \/ a THEN {"dir"} ELSE {}
Followed(o, e, a) == IF o THEN {"root"} \cup Branches(e, a) ELSE {}
Subscribed == Followed(opened, expanded, activeDir)

\* What is newly followed is resynchronised, what is no longer followed is not heard.
Resubscribe(o, e, a) ==
    news' = (news \cap Followed(o, e, a)) \cup (Followed(o, e, a) \ Subscribed)

Abandoned(rs) == {[r EXCEPT !.walked = FALSE] : r \in {q \in rs : q.latest}}

Init ==
    /\ listed = [n \in Nodes |-> "none"] /\ displayed = listed
    /\ requests = {Request("root", "loud")} /\ loading = {"root"} /\ failing = FALSE
    /\ expanded = FALSE /\ opened \in BOOLEAN /\ at \in Pages /\ activeDir = FALSE
    /\ auto = "none" /\ walk = "due" /\ failed = {}
    /\ news = Followed(opened, FALSE, FALSE)

-----------------------------------------------------------------------------
(* Requests.                                                               *)

Read(r) ==
    /\ r \in requests /\ r.read = "none"
    /\ requests' = (requests \ {r}) \cup {[r EXCEPT !.read = "now"]}
    /\ UNCHANGED <<listed, displayed, loading, failing, expanded, opened, at, activeDir, auto, walk, news, failed>>

\* The walk has the listing it waited for, or the one cached meanwhile.
EndWalk(rs) ==
    /\ requests' = rs /\ walk' = "over" /\ activeDir' = TRUE /\ auto' = at
    /\ displayed' = [displayed EXCEPT !["dir"] = listed'["dir"]]
    /\ expanded' = (expanded \/ auto # at)
    /\ Resubscribe(opened, expanded \/ auto # at, TRUE)
    /\ UNCHANGED <<opened, at>>

\* The next slug is not in the listing: it may be stale.
FetchAgain(rs) ==
    /\ listed' = [listed EXCEPT !["dir"] = "none"]
    /\ Ask(rs, {"dir"}, "quiet") /\ walk' = "again"
    /\ UNCHANGED <<displayed, expanded, opened, at, activeDir, auto, news>>

GiveUpWalk(rs) ==
    /\ requests' = rs /\ walk' = "over"
    /\ UNCHANGED <<displayed, expanded, opened, at, activeDir, auto, news>>

\* fetchRoots, fetchChildren and their silent variants store the listing they
\* got unless they were overtaken.
Answered(r) ==
    /\ r \in requests /\ r.read # "none" /\ ~r.walked
    /\ requests' = requests \ {r}
    /\ listed' = IF r.latest THEN [listed EXCEPT ![r.node] = r.read] ELSE listed
    /\ displayed' = IF r.latest /\ r.mine /\ r.kind # "quiet" THEN [displayed EXCEPT ![r.node] = r.read] ELSE displayed
    /\ loading' = Settled(r)
    /\ walk' = IF r.latest /\ r.mine /\ r.node = "root" THEN "due" ELSE walk
    /\ UNCHANGED <<failing, expanded, opened, at, activeDir, auto, news, failed>>

\* fetchChildrenQuiet, answered or failed: the walk goes on.
WalkAnswered(r) ==
    /\ r \in requests /\ r.walked
    /\ loading' = Settled(r)
    /\ \/ /\ r.read # "none" /\ failed' = failed
          /\ \/ /\ listed' = IF r.latest THEN [listed EXCEPT !["dir"] = r.read] ELSE listed
                /\ IF listed'["dir"] = "none" THEN GiveUpWalk(requests \ {r}) ELSE EndWalk(requests \ {r})
       \/ /\ r.read # "none" /\ walk = "first" /\ (r.latest \/ listed["dir"] # "none")
          /\ FetchAgain(requests \ {r})
       \/ /\ failed' = IF r.latest THEN failed \cup {"dir"} ELSE failed
          /\ UNCHANGED listed
          /\ IF r.latest \/ listed["dir"] = "none" THEN GiveUpWalk(requests \ {r}) ELSE EndWalk(requests \ {r})
    /\ UNCHANGED failing

Fails(r) ==
    /\ r \in requests /\ ~r.walked
    /\ requests' = requests \ {r}
    /\ loading' = Settled(r)
    /\ failing' = (failing \/ (r.latest /\ r.mine /\ r.node = "root" /\ r.kind = "loud"))
    /\ failed' = IF r.latest THEN failed \cup {r.node} ELSE failed
    /\ UNCHANGED <<listed, displayed, expanded, opened, at, activeDir, auto, walk, news>>

-----------------------------------------------------------------------------
(* The component.                                                          *)

RetryRoots ==
    /\ failing /\ "root" \notin loading
    /\ Ask(requests, {"root"}, "loud") /\ loading' = loading \cup {"root"} /\ failing' = FALSE
    /\ UNCHANGED <<listed, displayed, expanded, opened, at, activeDir, auto, walk, news>>

Collapse ==
    /\ expanded /\ expanded' = FALSE /\ Resubscribe(opened, FALSE, activeDir)
    /\ UNCHANGED <<listed, displayed, requests, loading, failing, opened, at, activeDir, auto, walk, failed>>

\* handleToggle and handleExpand.
Expand ==
    /\ displayed["root"] # "none" /\ ~expanded /\ expanded' = TRUE
    /\ IF listed["dir"] = "none" THEN Ask(requests, {"dir"}, "loud") /\ loading' = loading \cup {"dir"}
       ELSE Ask(requests, {"dir"}, "silent") /\ UNCHANGED loading
    /\ Resubscribe(opened, TRUE, activeDir)
    /\ UNCHANGED <<listed, displayed, failing, opened, at, activeDir, auto, walk>>

CloseSidebar ==
    /\ opened /\ opened' = FALSE /\ Resubscribe(FALSE, expanded, activeDir)
    /\ UNCHANGED <<listed, displayed, requests, loading, failing, expanded, at, activeDir, auto, walk, failed>>

\* What was missed while it was closed is fetched.
OpenSidebar ==
    /\ ~opened /\ opened' = TRUE /\ Resubscribe(TRUE, expanded, activeDir)
    /\ Ask(requests, {"root"} \cup Branches(expanded, activeDir), "silent")
    /\ UNCHANGED <<listed, displayed, loading, failing, expanded, at, activeDir, auto, walk>>

\* A contribution of the user was applied.
Refresh ==
    /\ Ask(requests, {"root"} \cup Branches(expanded, activeDir), "silent")
    /\ UNCHANGED <<listed, displayed, loading, failing, expanded, opened, at, activeDir, auto, walk, news>>

Hear(n) ==
    /\ n \in news /\ news' = news \ {n}
    /\ Ask(requests, {n}, "silent")
    /\ UNCHANGED <<listed, displayed, loading, failing, expanded, opened, at, activeDir, auto, walk>>

\* Another page: the walk under way is cancelled.
Navigate(page) ==
    /\ page # at /\ at' = page /\ walk' = "due" /\ requests' = Abandoned(requests)
    /\ UNCHANGED <<listed, displayed, loading, failing, expanded, opened, activeDir, auto, news, failed>>

\* The effect that starts the walk; fresh roots start it again.
StartWalk ==
    /\ walk = "due"
    /\ LET rs == Abandoned(requests)
       IN \/ /\ displayed["root"] = "none" \/ at = "dir"
             /\ walk' = "over" /\ requests' = rs /\ activeDir' = (displayed["root"] # "none")
             /\ auto' = IF displayed["root"] = "none" THEN auto ELSE at
             /\ Resubscribe(opened, expanded, displayed["root"] # "none")
             /\ UNCHANGED <<listed, displayed, expanded, opened, at, failed>>
          \/ /\ displayed["root"] # "none" /\ at = "file" /\ listed["dir"] # "none"
             /\ \/ UNCHANGED <<listed, failed>> /\ EndWalk(rs)
                \/ FetchAgain(rs)
          \/ /\ displayed["root"] # "none" /\ at = "file" /\ listed["dir"] = "none"
             /\ Ask(rs, {"dir"}, "quiet") /\ walk' = "first"
             /\ UNCHANGED <<listed, displayed, expanded, opened, at, activeDir, auto, news>>
    /\ UNCHANGED <<loading, failing>>

\* The component goes and comes back: caches and expansion survive it.
Remount ==
    /\ LET orphans == {[r EXCEPT !.mine = FALSE] : r \in Abandoned(requests)}
       IN IF listed["root"] = "none" THEN Ask(orphans, {"root"}, "loud") /\ loading' = {"root"}
          ELSE requests' = orphans /\ loading' = {} /\ UNCHANGED failed
    /\ displayed' = listed /\ failing' = FALSE /\ activeDir' = FALSE /\ auto' = "none" /\ walk' = "due"
    /\ news' = Followed(opened, expanded, FALSE)
    /\ UNCHANGED <<listed, expanded, opened, at>>

\* Someone changes a directory: what was read of it is old.
Aged(age) == IF age = "now" THEN "old" ELSE age
ServerChanges(n) ==
    /\ listed' = [listed EXCEPT ![n] = Aged(@)] /\ displayed' = [displayed EXCEPT ![n] = Aged(@)]
    /\ requests' = {[r EXCEPT !.read = IF r.node = n THEN Aged(@) ELSE @] : r \in requests}
    /\ news' = news \cup ({n} \cap Subscribed)
    /\ UNCHANGED <<loading, failing, expanded, opened, at, activeDir, auto, walk, failed>>

Next ==
    /\ \/ \E r \in requests : Read(r) \/ Answered(r) \/ WalkAnswered(r) \/ Fails(r)
       \/ RetryRoots \/ Collapse \/ Expand \/ CloseSidebar \/ OpenSidebar \/ Refresh
       \/ StartWalk \/ Remount
       \/ \E n \in Nodes : Hear(n) \/ ServerChanges(n)
       \/ \E page \in Pages : Navigate(page)
    /\ Cardinality(requests') <= MaxRequests

Spec == Init /\ [][Next]_treeVars

-----------------------------------------------------------------------------
(* A listing the open sidebar follows is current, unless an event about it *)
(* or a newer answer is under way or the last request for it failed.       *)
FollowedIsCurrent ==
    \A n \in Subscribed :
        listed[n] = "old" =>
            \/ n \in news \/ n \in failed
            \/ \E r \in requests : r.node = n /\ r.latest /\ r.read # "old"

(* A spinner in the tree always has its request under way, whichever       *)
(* request overtakes the one that showed it.                               *)
SpinnersEnd ==
    \A n \in loading : \E r \in requests : r.node = n /\ r.latest /\ r.mine

-----------------------------------------------------------------------------
(* Inductive strengthening of the two: a latest request whose answer is old  *)
(* has an event about its node, too.                                         *)
WalksAreOfDir(rs) == rs \subseteq Requests /\ \A r \in rs : r.walked => r.node = "dir"

Tended(rs, ls, followed, ns, fs) ==
    \A n \in followed :
        /\ \A r \in rs : r.node = n /\ r.latest /\ r.read = "old" => n \in ns
        /\ ls[n] = "old" =>
              \/ n \in ns \/ n \in fs
              \/ \E r \in rs : r.node = n /\ r.latest /\ r.read # "old"

Spun(rs, nodes) == \A n \in nodes : \E r \in rs : r.node = n /\ r.latest /\ r.mine

TreeInv ==
    /\ listed \in [Nodes -> Age] /\ WalksAreOfDir(requests)
    /\ Tended(requests, listed, Subscribed, news, failed) /\ Spun(requests, loading)
=============================================================================
