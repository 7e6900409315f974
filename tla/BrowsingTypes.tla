---------------------------- MODULE BrowsingTypes ---------------------------
(***************************************************************************)
(* The types of the parts that show the tree, materials and discussions,   *)
(* of the staff's pages and of the delivery worker, for every value of the *)
(* constants: of each part that its first states are typed                 *)
(* (...TypesStart) and that every step keeps them so (...TypesKept).       *)
(* Where the types alone are not inductive - a bound is kept because       *)
(* something else is bounded - a lemma names what holds with them, which   *)
(* stands at the end of the part's own module.                             *)
(*                                                                         *)
(* A part's variables are the first of v1, v2, ... here, in the order of   *)
(* its module: each section says which variable is which. An operator of a *)
(* library that a part's module uses is the part's own here: the lemmas    *)
(* ...Counts, ...Finite and ...Sums say that it is the library's.          *)
(***************************************************************************)
EXTENDS BrowsingParts, Naturals, Sequences, FiniteSets, TLAPS, FiniteSetTheorems,
        NaturalsInduction, WellFoundedInduction, SumTheorems
-----------------------------------------------------------------------------
(* DirectoryTree: v1 listed, v2 displayed, v3 requests, v4 loading, v5     *)
(* failing, v6 expanded, v7 opened, v8 at, v9 activeDir, v10 auto, v11     *)
(* walk, v12 news, v13 failed.                                             *)

\* The first states have their types.
LEMMA TreeTypesStart == Tree!Init => Tree!TypeOK
<1> SUFFICES ASSUME Tree!Init PROVE Tree!TypeOK
    OBVIOUS
<1> USE DEF Tree!TypeOK, Tree!Nodes, Tree!Age, Tree!Pages, Tree!Requests
<1>1. v1 \in [Tree!Nodes -> Tree!Age]
    BY TreeBounds DEF Tree!Init, Tree!Request, Tree!Followed, Tree!Branches
<1>2. v2 \in [Tree!Nodes -> Tree!Age]
    BY TreeBounds DEF Tree!Init, Tree!Request, Tree!Followed, Tree!Branches
<1>3. v3 \subseteq Tree!Requests
    BY TreeBounds DEF Tree!Init, Tree!Request, Tree!Followed, Tree!Branches
<1>4. v4 \subseteq Tree!Nodes
    BY TreeBounds DEF Tree!Init, Tree!Request, Tree!Followed, Tree!Branches
<1>5. v5 \in BOOLEAN
    BY TreeBounds DEF Tree!Init, Tree!Request, Tree!Followed, Tree!Branches
<1>6. v6 \in BOOLEAN
    BY TreeBounds DEF Tree!Init, Tree!Request, Tree!Followed, Tree!Branches
<1>7. v7 \in BOOLEAN
    BY TreeBounds DEF Tree!Init, Tree!Request, Tree!Followed, Tree!Branches
<1>8. v9 \in BOOLEAN
    BY TreeBounds DEF Tree!Init, Tree!Request, Tree!Followed, Tree!Branches
<1>9. v8 \in Tree!Pages
    BY TreeBounds DEF Tree!Init, Tree!Request, Tree!Followed, Tree!Branches
<1>10. v10 \in Tree!Pages \cup {"none"}
    BY TreeBounds DEF Tree!Init, Tree!Request, Tree!Followed, Tree!Branches
<1>11. v11 \in {"over", "due", "first", "again"}
    BY TreeBounds DEF Tree!Init, Tree!Request, Tree!Followed, Tree!Branches
<1>12. v12 \subseteq Tree!Nodes
    BY TreeBounds DEF Tree!Init, Tree!Request, Tree!Followed, Tree!Branches
<1>13. v13 \subseteq Tree!Nodes
    BY TreeBounds DEF Tree!Init, Tree!Request, Tree!Followed, Tree!Branches
<1> QED
    BY <1>1, <1>2, <1>3, <1>4, <1>5, <1>6, <1>7, <1>8, <1>9, <1>10, <1>11, <1>12,
       <1>13

\* Asking for nodes adds requests only.
LEMMA AskedFit ==
    ASSUME NEW rs \in SUBSET Tree!Requests, NEW nodes \in SUBSET Tree!Nodes,
           NEW kind \in {"loud", "silent", "quiet"},
           Tree!Ask(rs, nodes, kind)
    PROVE  v3' \subseteq Tree!Requests
<1>1. Tree!Overtaken(rs, nodes) \subseteq Tree!Requests
    BY DEF Tree!Overtaken, Tree!Requests
<1>2. ASSUME NEW n \in nodes PROVE Tree!Request(n, kind) \in Tree!Requests
  <2>1. PICK quiet \in BOOLEAN : quiet = (kind = "quiet")
      OBVIOUS
  <2>2. Tree!Request(n, kind) = [node |-> n, kind |-> kind, latest |-> TRUE, mine |-> TRUE,
        walked |-> quiet, read |-> "none"]
      BY <2>1, Zenon DEF Tree!Request
  <2> QED
      BY <2>2 DEF Tree!Requests, Tree!Age
<1> QED
    BY <1>1, <1>2 DEF Tree!Ask

\* A request that is abandoned is still a request.
LEMMA AbandonedFit ==
    ASSUME NEW rs \in SUBSET Tree!Requests
    PROVE  Tree!Abandoned(rs) \in SUBSET Tree!Requests
    BY DEF Tree!Abandoned, Tree!Requests

\* Every step keeps the types.
LEMMA TreeTypesKept == Tree!TypeOK /\ [Tree!Next]_(Tree!treeVars) => Tree!TypeOK'
<1> SUFFICES ASSUME Tree!TypeOK, [Tree!Next]_(Tree!treeVars)
             PROVE  Tree!TypeOK'
    OBVIOUS
<1> USE DEF Tree!TypeOK, Tree!Nodes, Tree!Age, Tree!Pages, Tree!Requests
<1>1. ASSUME NEW r \in v3, Tree!Read(r)
      PROVE  Tree!TypeOK'
    BY <1>1, TreeBounds DEF Tree!Read
<1>2. ASSUME NEW r \in v3, Tree!Answered(r)
      PROVE  Tree!TypeOK'
    BY <1>2, TreeBounds DEF Tree!Answered, Tree!Settled
<1>3. ASSUME NEW r \in v3, Tree!WalkAnswered(r)
      PROVE  Tree!TypeOK'
  <2>3. (v3 \subseteq Tree!Requests)'
    <3> HIDE DEF Tree!Requests
    <3>1. v3 \ {r} \in SUBSET Tree!Requests /\ {"dir"} \in SUBSET Tree!Nodes
        OBVIOUS
    <3>2. v3' = v3 \ {r} \/ Tree!FetchAgain(v3 \ {r})
        BY <1>3 DEF Tree!WalkAnswered, Tree!EndWalk, Tree!GiveUpWalk
    <3> QED
        BY <3>1, <3>2, AskedFit DEF Tree!FetchAgain
  <2> QED
      BY <1>3, <2>3, TreeBounds, ZenonT(30) DEF Tree!WalkAnswered, Tree!Settled, Tree!EndWalk,
         Tree!FetchAgain, Tree!GiveUpWalk, Tree!Resubscribe, Tree!Ask, Tree!Followed,
         Tree!Subscribed, Tree!Request, Tree!Overtaken, Tree!Branches
<1>4. ASSUME NEW r \in v3, Tree!Fails(r)
      PROVE  Tree!TypeOK'
    BY <1>4, TreeBounds DEF Tree!Fails, Tree!Settled
<1>5. CASE Tree!RetryRoots
  <2>3. (v3 \subseteq Tree!Requests)'
    <3> HIDE DEF Tree!Requests
    <3>1. {"root"} \in SUBSET Tree!Nodes
        BY DEF Tree!Branches
    <3> QED
        BY <1>5, <3>1, AskedFit DEF Tree!RetryRoots
  <2> QED
      BY <1>5, <2>3, TreeBounds DEF Tree!RetryRoots, Tree!Ask, Tree!Request, Tree!Overtaken
<1>6. CASE Tree!Collapse
    BY <1>6, TreeBounds DEF Tree!Collapse, Tree!Resubscribe, Tree!Followed, Tree!Subscribed,
       Tree!Branches
<1>7. CASE Tree!Expand
  <2>3. (v3 \subseteq Tree!Requests)'
    <3> HIDE DEF Tree!Requests
    <3>1. {"dir"} \in SUBSET Tree!Nodes
        BY DEF Tree!Branches
    <3> QED
        BY <1>7, <3>1, AskedFit DEF Tree!Expand
  <2> QED
      BY <1>7, <2>3, TreeBounds DEF Tree!Expand, Tree!Ask, Tree!Resubscribe, Tree!Request,
         Tree!Overtaken, Tree!Followed, Tree!Subscribed, Tree!Branches
<1>8. CASE Tree!CloseSidebar
    BY <1>8, TreeBounds DEF Tree!CloseSidebar, Tree!Resubscribe, Tree!Followed, Tree!Subscribed,
       Tree!Branches
<1>9. CASE Tree!OpenSidebar
  <2>3. (v3 \subseteq Tree!Requests)'
    <3> HIDE DEF Tree!Requests
    <3>1. {"root"} \cup Tree!Branches(v6, v9) \in SUBSET Tree!Nodes
        BY DEF Tree!Branches
    <3> QED
        BY <1>9, <3>1, AskedFit DEF Tree!OpenSidebar
  <2> QED
      BY <1>9, <2>3, TreeBounds DEF Tree!OpenSidebar, Tree!Ask, Tree!Branches, Tree!Resubscribe,
         Tree!Request, Tree!Overtaken, Tree!Followed, Tree!Subscribed
<1>10. CASE Tree!Refresh
  <2>3. (v3 \subseteq Tree!Requests)'
    <3> HIDE DEF Tree!Requests
    <3>1. {"root"} \cup Tree!Branches(v6, v9) \in SUBSET Tree!Nodes
        BY DEF Tree!Branches
    <3> QED
        BY <1>10, <3>1, AskedFit DEF Tree!Refresh
  <2> QED
      BY <1>10, <2>3, TreeBounds DEF Tree!Refresh, Tree!Ask, Tree!Branches, Tree!Request,
         Tree!Overtaken
<1>11. CASE Tree!StartWalk
  <2>3. (v3 \subseteq Tree!Requests)'
    <3> HIDE DEF Tree!Requests
    <3>1. Tree!Abandoned(v3) \in SUBSET Tree!Requests /\ {"dir"} \in SUBSET Tree!Nodes
        BY AbandonedFit
    <3>2. \/ v3' = Tree!Abandoned(v3)
          \/ Tree!FetchAgain(Tree!Abandoned(v3))
          \/ Tree!Ask(Tree!Abandoned(v3), {"dir"}, "quiet")
        BY <1>11 DEF Tree!StartWalk, Tree!EndWalk
    <3> QED
        BY <3>1, <3>2, AskedFit DEF Tree!FetchAgain
  <2> QED
      BY <1>11, <2>3, TreeBounds DEF Tree!StartWalk, Tree!Ask, Tree!Resubscribe, Tree!Abandoned,
         Tree!EndWalk, Tree!FetchAgain, Tree!Request, Tree!Overtaken, Tree!Followed,
         Tree!Subscribed, Tree!Branches
<1>12. CASE Tree!Remount
  <2>3. (v3 \subseteq Tree!Requests)'
    <3> DEFINE orphans == {[r EXCEPT !.mine = FALSE] : r \in Tree!Abandoned(v3)}
    <3>0. Tree!Abandoned(v3) \in SUBSET Tree!Requests
      <4> HIDE DEF Tree!Requests
      <4> QED
          BY AbandonedFit
    <3>1. orphans \in SUBSET Tree!Requests /\ {"root"} \in SUBSET Tree!Nodes
        BY <3>0, ZenonT(30)
    <3>2. v3' = orphans \/ Tree!Ask(orphans, {"root"}, "loud")
        BY <1>12 DEF Tree!Remount
    <3> HIDE DEF Tree!Requests, orphans
    <3> QED
        BY <3>1, <3>2, AskedFit
  <2> QED
      BY <1>12, <2>3, TreeBounds DEF Tree!Remount, Tree!Ask, Tree!Followed, Tree!Abandoned,
         Tree!Request, Tree!Overtaken, Tree!Branches
<1>13. ASSUME NEW n \in Tree!Nodes, Tree!Hear(n)
      PROVE  Tree!TypeOK'
  <2>3. (v3 \subseteq Tree!Requests)'
    <3> HIDE DEF Tree!Requests
    <3>1. {n} \in SUBSET Tree!Nodes
        BY DEF Tree!Branches
    <3> QED
        BY <1>13, <3>1, AskedFit DEF Tree!Hear
  <2> QED
      BY <1>13, <2>3, TreeBounds DEF Tree!Hear, Tree!Ask, Tree!Request, Tree!Overtaken
<1>14. ASSUME NEW n \in Tree!Nodes, Tree!ServerChanges(n)
      PROVE  Tree!TypeOK'
    BY <1>14, TreeBounds DEF Tree!ServerChanges, Tree!Subscribed, Tree!Aged, Tree!Followed,
       Tree!Branches
<1>15. ASSUME NEW page \in Tree!Pages, Tree!Navigate(page)
      PROVE  Tree!TypeOK'
  <2>3. (v3 \subseteq Tree!Requests)'
    <3> HIDE DEF Tree!Requests
    <3> QED
        BY <1>15, AbandonedFit DEF Tree!Navigate
  <2> QED
      BY <1>15, <2>3, TreeBounds DEF Tree!Navigate, Tree!Abandoned
<1>16. CASE UNCHANGED Tree!treeVars
    BY <1>16, TreeBounds DEF Tree!treeVars
<1> QED
    BY <1>1, <1>2, <1>3, <1>4, <1>5, <1>6, <1>7, <1>8, <1>9, <1>10, <1>11, <1>12,
       <1>13, <1>14, <1>15, <1>16 DEF Tree!Next

-----------------------------------------------------------------------------
(* BrowsePage: v1 cached, v2 pulls, v3 page, v4 fetched, v5 fetching, v6   *)
(* mishap, v7 events, v8 missed.                                           *)

\* One more who waits for a path leaves one pull of it that can be joined.
LEMMA WaitingSingle ==
    ASSUME NEW rs \in SUBSET Browse!Pulls, Browse!Single(rs), NEW p \in Browse!Paths,
           NEW front \in BOOLEAN
    PROVE  Browse!Single(Browse!Waiting(rs, p, front))
<1> DEFINE open == {r \in rs : r.path = p /\ r.joinable}
           r == IF open = {} THEN Browse!Pull(p) ELSE CHOOSE q \in open : TRUE
           w == [r EXCEPT !.front = @ \/ front, !.back = @ \/ ~front]
<1>1. r \in Browse!Pulls /\ r.path = p /\ w \in Browse!Pulls /\ w.path = p
    BY DEF Browse!Pulls, Browse!Pull, Browse!Ages
<1>2. Browse!Waiting(rs, p, front) = (rs \ open) \cup {w}
    BY DEF Browse!Waiting
<1> QED
    BY <1>1, <1>2 DEF Browse!Single

\* Detaching pulls leaves one of a path at most that can be joined.
LEMMA DetachedSingle ==
    ASSUME NEW rs \in SUBSET Browse!Pulls, Browse!Single(rs), NEW ps
    PROVE  Browse!Single(Browse!Detached(rs, ps))
<1> SUFFICES ASSUME NEW a \in Browse!Detached(rs, ps), NEW b \in Browse!Detached(rs, ps),
    a.path = b.path, a.joinable, b.joinable
             PROVE  a = b
    BY DEF Browse!Single
<1>1. PICK r \in rs : a = [r EXCEPT !.valid = FALSE, !.joinable = @ /\ r.path \notin ps]
    BY DEF Browse!Detached
<1>2. PICK q \in rs : b = [q EXCEPT !.valid = FALSE, !.joinable = @ /\ q.path \notin ps]
    BY DEF Browse!Detached
<1>3. r.path = q.path /\ r.joinable /\ q.joinable
    BY <1>1, <1>2 DEF Browse!Pulls
<1> QED
    BY <1>1, <1>2, <1>3 DEF Browse!Single

\* A pull that is detached is still a pull.
LEMMA DetachedPulls ==
    ASSUME NEW rs \in SUBSET Browse!Pulls, NEW ps
    PROVE  Browse!Detached(rs, ps) \subseteq Browse!Pulls
    BY DEF Browse!Detached, Browse!Pulls

\* The first states have their types.
LEMMA BrowseTypesStart == Browse!Init => Browse!TypeOK
<1> SUFFICES ASSUME Browse!Init PROVE Browse!TypeOK
    OBVIOUS
<1>1. Browse!Single({})
    BY DEF Browse!Single
<1>2. Browse!Single(v2)
    BY <1>1, WaitingSingle DEF Browse!Init
<1>3. v2 \subseteq Browse!Pulls
    BY DEF Browse!Init, Browse!Waiting, Browse!Pull, Browse!Pulls, Browse!Ages
<1> QED
    BY <1>2, <1>3 DEF Browse!Init, Browse!TypeOK, Browse!Single, Browse!Ages

\* Every step keeps the types.
LEMMA BrowseTypesKept ==
    Browse!TypeOK /\ [Browse!Next]_(Browse!browseVars) /\ Browse!BrowseInv' => Browse!TypeOK'
<1> SUFFICES ASSUME Browse!TypeOK, [Browse!Next]_(Browse!browseVars), Browse!BrowseInv'
             PROVE  Browse!TypeOK'
    OBVIOUS
<1>1. v5' \in BOOLEAN /\ v6' \in BOOLEAN /\ v8' \in BOOLEAN
    BY DEF Browse!TypeOK, Browse!Next, Browse!Read, Browse!Answered, Browse!Fails,
       Browse!Prefetch, Browse!Navigate, Browse!CacheForgets, Browse!ServerChanges,
           Browse!Retry, Browse!Changed, Browse!Deleted, Browse!RefreshListing, Browse!GoTo,
           Browse!Fetch, Browse!browseVars
<1>2. Browse!Single(v2) /\ v2 \subseteq Browse!Pulls /\ v3 \in Browse!Paths
    BY DEF Browse!TypeOK, Browse!Single
<1>3. ASSUME NEW rs \in SUBSET Browse!Pulls, Browse!Single(rs), NEW p \in Browse!Paths,
             NEW front \in BOOLEAN,
             v2' = Browse!Waiting(rs, p, front)
      PROVE  Browse!Single(v2')
    BY <1>3, WaitingSingle
<1>4. ASSUME NEW ps PROVE Browse!Detached(v2, ps) \in SUBSET Browse!Pulls
             /\ Browse!Single(Browse!Detached(v2, ps))
    BY <1>2, DetachedSingle, DetachedPulls
<1>5. Browse!Single(v2')
  <2>1. ASSUME NEW r \in v2, Browse!Read(r) PROVE Browse!Single(v2')
    <3> DEFINE c == [r EXCEPT !.read = "now"]
    <3>1. c.path = r.path /\ c.joinable = r.joinable
        BY <2>1, <1>2 DEF Browse!Pulls
    <3>2. r \in v2 /\ v2' = (v2 \ {r}) \cup {c}
        BY <2>1 DEF Browse!Read
    <3> HIDE DEF c
    <3> QED
        BY <3>1, <3>2, <1>2 DEF Browse!Single
  <2>2. ASSUME NEW r \in v2, Browse!Answered(r) \/ Browse!Fails(r) PROVE Browse!Single(v2')
      BY <2>2, <1>2 DEF Browse!Single, Browse!Answered, Browse!Fails
  <2>3. ASSUME NEW p \in Browse!Paths, Browse!Prefetch(p) PROVE Browse!Single(v2')
    <3>1. Browse!Pull(p).path = p /\ (\A r \in v2 : ~(r.path = p /\ r.joinable))
          /\ v2' = v2 \cup {Browse!Pull(p)}
        BY <2>3 DEF Browse!Prefetch, Browse!Pull
    <3> QED
        BY <3>1, <1>2 DEF Browse!Single
  <2>4. ASSUME NEW p \in Browse!Paths, Browse!Navigate(p) PROVE Browse!Single(v2')
      BY <2>4, <1>2, <1>3 DEF Browse!Navigate, Browse!GoTo
  <2>5. ASSUME NEW p \in Browse!Paths, Browse!CacheForgets(p) PROVE Browse!Single(v2')
      BY <2>5, <1>2 DEF Browse!CacheForgets
  <2>6. ASSUME NEW p \in Browse!Paths, Browse!ServerChanges(p) PROVE Browse!Single(v2')
    <3>1. \A b \in v2' : \E a \in v2 : b.path = a.path /\ b.joinable = a.joinable
                /\ b = IF a.path = p THEN [a EXCEPT !.read = Browse!Older(@)] ELSE a
        BY <2>6, <1>2 DEF Browse!ServerChanges, Browse!Pulls
    <3> QED
        BY <3>1, <1>2 DEF Browse!Single
  <2>7. CASE Browse!Retry
      BY <2>7, <1>2, <1>3 DEF Browse!Retry, Browse!Fetch
  <2>8. CASE Browse!Changed
      BY <2>8, <1>2, <1>3, <1>4 DEF Browse!Changed, Browse!Fetch
  <2>9. CASE Browse!Deleted
    <3>1. "folder" \in Browse!Paths
        BY DEF Browse!Paths
    <3> QED
        BY <2>9, <1>2, <1>3, <1>4, <3>1 DEF Browse!Deleted, Browse!GoTo
  <2>10. CASE Browse!RefreshListing
      BY <2>10, <1>2, <1>3, <1>4 DEF Browse!RefreshListing, Browse!Fetch
  <2>11. CASE UNCHANGED Browse!browseVars
      BY <2>11, <1>2 DEF Browse!browseVars
  <2> QED
      BY <2>1, <2>2, <2>3, <2>4, <2>5, <2>6, <2>7, <2>8, <2>9, <2>10, <2>11 DEF Browse!Next
<1> QED
    BY <1>1, <1>5 DEF Browse!TypeOK, Browse!BrowseInv, Browse!Single

-----------------------------------------------------------------------------
(* SearchPages: v1 host, v2 open, v3 words, v4 filter, v5 sheet, v6        *)
(* debounced, v7 phase, v8 hits, v9 search, v10 delay, v11 back, v12       *)
(* found.                                                                  *)

\* Words, filters and a sheet make the key of a request.
LEMMA KeysFit ==
    ASSUME NEW w \in Search!Words, NEW f \in Search!Filters, NEW s \in 1..MaxSheet
    PROVE  Search!Key(w, f, s) \in Search!RequestKeys
    BY DEF Search!Key, Search!RequestKeys

\* The keys, hits and search that stand for nothing are of the types they
\* stand in.
LEMMA NothingTyped ==
    /\ Search!NoKey \in Search!RequestKeys /\ Search!NoHits \in Search!Hits
    /\ Search!NoSearch \in [key : Search!RequestKeys, aborted : BOOLEAN]
<1>1. Search!NoKey \in Search!RequestKeys
    BY SearchBounds DEF Search!NoKey, Search!RequestKeys, Search!Words, Search!Filters
<1>2. 0 \in Search!Pages
    BY SearchBounds DEF Search!Pages
<1> QED
    BY <1>1, <1>2 DEF Search!NoHits, Search!NoSearch, Search!Hits

\* The correction of a key is a key.
LEMMA CorrectionsFit ==
    ASSUME NEW p, NEW key \in Search!RequestKeys, NEW h \in Search!Hits
    PROVE  Search!Correction(p, h, key) \in Search!RequestKeys
<1>1. h.total \in Nat /\ key.sheet \in 1..MaxSheet
    BY SearchBounds DEF Search!Hits, Search!Pages, Search!RequestKeys
<1>2. h.total > 0 => Search!ValidPage(h.total, key.sheet) \in 1..MaxSheet
    BY <1>1, SearchBounds DEF Search!ValidPage, Search!LastPage
<1>3. h.total > 0 => [key EXCEPT !.sheet = Search!ValidPage(h.total,
      key.sheet)] \in Search!RequestKeys
    BY <1>2 DEF Search!RequestKeys
<1> QED
    BY <1>3, NothingTyped DEF Search!Correction

\* A search that is asked for leaves the hook in its types.
LEMMA AskFits ==
    ASSUME NEW d \in Search!Words, NEW w, NEW p \in Search!Phases,
           NEW key \in Search!RequestKeys, Search!Ask(d, w, key, p)
    PROVE  Search!Hook'
<1>1. v6' \in Search!Words
    BY DEF Search!Ask
<1>2. v7' \in Search!Phases
    BY DEF Search!Ask, Search!Phases
<1>3. v9' \in [key : Search!RequestKeys, aborted : BOOLEAN]
  <2>1. [key |-> key, aborted |-> FALSE] \in [key : Search!RequestKeys, aborted : BOOLEAN]
      OBVIOUS
  <2> QED
      BY <2>1, NothingTyped DEF Search!Ask
<1> QED
    BY <1>1, <1>2, <1>3 DEF Search!Hook, Search!Phases

\* The debounce leaves the hook in one of its phases.
LEMMA DebouncedFits ==
    Search!Hook => v7 \in Search!Phases /\ \A w : Search!Debounced(w) \in Search!Phases
    BY DEF Search!Hook, Search!Phases, Search!Debounced

\* Whatever is rendered, the hook's fields are in their types afterwards.
LEMMA RenderFits ==
    ASSUME Search!TypeOK, NEW w \in Search!Words, NEW f \in Search!Filters,
           NEW s \in 1..MaxSheet, Search!Render(w, f, s),
           UNCHANGED <<v1, v12>>, v2' \in BOOLEAN
    PROVE  Search!TypeOK'
<1>1. v3' = w /\ v4' = f /\ v5' = s
    BY DEF Search!Render
<1>2. v8' \in Search!Hits /\ v10' \in BOOLEAN
    BY NothingTyped DEF Search!Render, Search!TypeOK
<1>3. Search!Hook
    BY DEF Search!TypeOK, Search!Hook, Search!Phases
<1>4. Search!Hook'
  <2>1. CASE f # v4 \/ s # v5
      BY <1>3, <2>1, KeysFit, AskFits, DebouncedFits DEF Search!Render, Search!TypeOK
  <2>2. CASE ~(f # v4 \/ s # v5)
      BY <1>3, <2>2 DEF Search!Render, Search!Hook, Search!Debounced, Search!Phases
  <2> QED
      BY <2>1, <2>2
<1>5. v11' \in Search!RequestKeys
    BY NothingTyped, KeysFit, CorrectionsFit DEF Search!Render, Search!TypeOK
<1> QED
    BY <1>1, <1>2, <1>4, <1>5 DEF Search!TypeOK, Search!Hook, Search!Phases

\* The first states have their types.
LEMMA SearchTypesStart == Search!Init => Search!TypeOK
<1> SUFFICES ASSUME Search!Init PROVE Search!TypeOK
    OBVIOUS
<1>1. v5 \in 1..MaxSheet
    BY SearchBounds DEF Search!Init
<1> QED
    BY <1>1, NothingTyped DEF Search!Init, Search!TypeOK, Search!Words, Search!Filters

\* Every step keeps the types.
LEMMA SearchTypesKept == Search!TypeOK /\ [Search!Next]_(Search!searchVars) => Search!TypeOK'
<1> SUFFICES ASSUME Search!TypeOK, [Search!Next]_(Search!searchVars)
             PROVE  Search!TypeOK'
    OBVIOUS
<1>0. /\ 1 \in 1..MaxSheet /\ MaxSheet \in 1..MaxSheet
      /\ "none" \in Search!Words /\ "all" \in Search!Filters /\ v3 \in Search!Words
         /\ v4 \in Search!Filters /\ v5 \in 1..MaxSheet
      /\ v2 \in BOOLEAN /\ Search!Hook /\ Search!Key(v3, v4, v5) \in Search!RequestKeys
    BY SearchBounds, KeysFit DEF Search!TypeOK, Search!Words, Search!Filters, Search!Hook,
       Search!Phases
<1>1. CASE Search!TimerFires \/ Search!Retry
  <2> HIDE DEF Search!TypeOK
  <2>1. ASSUME Search!Ask(v6, v3, Search!Key(v3, v4, v5), v7) \/ Search!Ask(v3, v3,
               Search!Key(v3, v4, v5), v7)
        PROVE  Search!Hook'
      BY <1>0, <2>1, AskFits, DebouncedFits DEF Search!Hook, Search!Phases
  <2>2. Search!Hook'
      BY <1>0, <1>1, <2>1, NothingTyped DEF Search!TimerFires, Search!Retry, Search!Hook,
         Search!Phases
  <2> QED
      BY <1>1, <2>2 DEF Search!TimerFires, Search!Retry, Search!TypeOK, Search!Hook,
         Search!Phases
<1>2. CASE Search!Answered
  <2> DEFINE some == v9.key.sheet <= v12[v9.key.filter]
             got == [of |-> v9.key, total |-> v12[v9.key.filter], some |-> some]
  <2>1. v9.key \in Search!RequestKeys /\ v12[v9.key.filter] \in Search!Pages /\ some \in BOOLEAN
      BY DEF Search!TypeOK, Search!RequestKeys
  <2>2. got \in Search!Hits
    <3> HIDE DEF some
    <3> QED
        BY <2>1 DEF Search!Hits
  <2>3. v8' = got /\ v9' = Search!NoSearch /\ v7' \in {"success", "empty"}
            /\ v11' = Search!Correction(v7', v8', Search!Key(v3, v4, v5))
               /\ UNCHANGED Search!hookRest
      BY <1>2 DEF Search!Answered
  <2> HIDE DEF got
  <2>4. v11' \in Search!RequestKeys
      BY <1>0, <2>2, <2>3, CorrectionsFit
  <2> QED
      BY <2>2, <2>3, <2>4, NothingTyped DEF Search!TypeOK, Search!hookRest
<1>3. CASE Search!Fails
  <2>1. 0 \in Search!Pages
      BY SearchBounds DEF Search!Pages
  <2>2. v8' \in Search!Hits
      BY <1>3, <2>1 DEF Search!Fails, Search!TypeOK, Search!Hits
  <2> QED
      BY <1>3, <2>2, NothingTyped DEF Search!Fails, Search!TypeOK, Search!hookRest
<1>4. ASSUME NEW w \in Search!Words, Search!Submit(w) \/ Search!Suggest(w) \/ Search!Type(w)
      PROVE  Search!TypeOK'
    BY <1>0, <1>4, RenderFits DEF Search!Submit, Search!Suggest, Search!Type
<1>5. CASE Search!ClearBox
    BY <1>0, <1>5, RenderFits DEF Search!ClearBox, Search!Submit
<1>6. CASE Search!Correct
  <2>1. v11.words \in Search!Words /\ v11.filter \in Search!Filters /\ v11.sheet \in 1..MaxSheet
      BY DEF Search!TypeOK, Search!RequestKeys
  <2> QED
      BY <1>0, <1>6, <2>1, RenderFits DEF Search!Correct
<1>7. CASE Search!LeavePage
    BY <1>0, <1>7, NothingTyped DEF Search!LeavePage, Search!TypeOK
<1>8. CASE Search!OpenDialog
    BY <1>8 DEF Search!OpenDialog, Search!TypeOK
<1>9. CASE Search!CloseDialog
    BY <1>0, <1>9, RenderFits DEF Search!CloseDialog
<1>10. CASE Search!OpenResult
    BY <1>7, <1>9, <1>10 DEF Search!OpenResult
<1>11. ASSUME NEW f \in Search!Filters, Search!FilterPage(f) \/ Search!FilterDialog(f)
      PROVE  Search!TypeOK'
    BY <1>0, <1>11, RenderFits DEF Search!FilterPage, Search!FilterDialog
<1>12. CASE Search!ClearAllFilters
    BY <1>0, <1>11, <1>12 DEF Search!ClearAllFilters
<1>13. ASSUME NEW s \in 0..(MaxSheet + 1), Search!ChangePage(s)
      PROVE  Search!TypeOK'
  <2>1. (IF s > MaxSheet THEN MaxSheet ELSE s) \in 1..MaxSheet
      BY <1>0, <1>13, SearchBounds DEF Search!ChangePage
  <2> HIDE DEF Search!TypeOK
  <2> QED
      BY <1>0, <1>13, <2>1, RenderFits DEF Search!ChangePage
<1>14. ASSUME NEW w \in Search!Words, NEW f \in Search!Filters, NEW s \in 1..MaxSheet,
              Search!Visit(w, f, s)
      PROVE  Search!TypeOK'
    BY <1>0, <1>14, RenderFits DEF Search!Visit
<1>15. ASSUME NEW w \in Search!Words, NEW f \in Search!Filters, NEW s \in 1..MaxSheet,
              Search!MountPage(w, f, s)
      PROVE  Search!TypeOK'
    BY <1>0, <1>15, NothingTyped DEF Search!MountPage, Search!TypeOK, Search!Debounced
<1>16. CASE UNCHANGED Search!searchVars
    BY <1>16 DEF Search!searchVars, Search!TypeOK
<1> QED
    BY <1>1, <1>2, <1>3, <1>4, <1>5, <1>6, <1>7, <1>8, <1>9, <1>10, <1>11, <1>12, <1>13, <1>14,
       <1>15, <1>16 DEF Search!Next

-----------------------------------------------------------------------------
(* DeliveryWorker: v1 atEdge, v2 blob, v3 edge, v4 puts, v5 task, v6 ask,  *)
(* v7 reply, v8 archive.                                                   *)

\* What the worker can be asked for is an ask.
LEMMA WorkerAsksFit == Worker!Asks \subseteq Worker!Ask
<1> DEFINE file(k) == [route |-> "file", method |-> "GET", token |-> "valid", key |-> k,
                       range |-> "no", typed |-> FALSE]
           ofKey(k) == {file(k)} \cup {[file(k) EXCEPT !.typed = TRUE]}
               \cup {[file(k) EXCEPT !.range = r] : r \in {"part", "past", "malformed"}}
               \cup {[file(k) EXCEPT !.token = t] : t \in Worker!Tokens}
               \cup {[file(k) EXCEPT !.route = r] : r \in Worker!Routes}
               \cup {[file(k) EXCEPT !.method = m] : m \in {"OPTIONS", "POST"}}
<1>1. ASSUME NEW k \in Keys
      PROVE  ofKey(k) \subseteq Worker!Ask
  <2>1. file(k) \in Worker!Ask
      BY <1>1 DEF Worker!Ask, Worker!Routes, Worker!Tokens
  <2> HIDE DEF file
  <2> QED
      BY <2>1, ZenonT(30) DEF Worker!Ask
<1>2. Worker!Asks = UNION {ofKey(k) : k \in Keys}
    BY DEF Worker!Asks
<1> HIDE DEF ofKey
<1> QED
    BY <1>1, <1>2

\* The first states have their types.
LEMMA WorkerTypesStart == Worker!Init /\ Worker!WorkerInv => Worker!TypeOK
<1> SUFFICES ASSUME Worker!Init, Worker!WorkerInv PROVE Worker!TypeOK
    OBVIOUS
<1>1. Worker!Nothing \in Worker!Reply /\ Worker!Whole \in Worker!Reply
    BY DEF Worker!Nothing, Worker!Whole, Worker!Refusal, Worker!Reply, Worker!Statuses
<1>2. v6 \in [Clients -> Worker!Ask]
    BY WorkerAsksFit DEF Worker!Init
<1>3. v8 \in [Clients -> [taken : SUBSET Keys, left : SUBSET Keys]]
    BY DEF Worker!Init
<1> QED
    BY <1>1, <1>2, <1>3 DEF Worker!Init, Worker!TypeOK

\* Every step keeps the types.
LEMMA WorkerTypesKept ==
    Worker!TypeOK /\ [Worker!Next]_(Worker!workerVars) /\ Worker!WorkerInv' => Worker!TypeOK'
<1> SUFFICES ASSUME Worker!TypeOK, [Worker!Next]_(Worker!workerVars), Worker!WorkerInv'
             PROVE  Worker!TypeOK'
    OBVIOUS
<1>1. Worker!Nothing \in Worker!Reply /\ Worker!Whole \in Worker!Reply
    BY DEF Worker!Nothing, Worker!Whole, Worker!Refusal, Worker!Reply, Worker!Statuses
<1>2. v3' \in [Keys -> Worker!Reply] /\ v5' \in [Clients -> {"idle", "match", "get", "getAll",
      "head", "zip", "done"}]
          /\ v7' \in [Clients -> Worker!Reply]
    BY <1>1 DEF Worker!WorkerInv, Worker!CacheIsClean, Worker!StagesFit, Worker!Nothing,
       Worker!Whole
<1>3. /\ UNCHANGED v1 /\ UNCHANGED v6
      /\ v2' \in [Keys -> {"absent", "plain", "gzip"}]
    BY DEF Worker!TypeOK, Worker!Next, Worker!Arrive, Worker!MatchCache, Worker!Get,
       Worker!RangeIgnored, Worker!Head, Worker!GetAll, Worker!GetBranding, Worker!ReadFails,
       Worker!EndArchive,
           Worker!StreamEntry, Worker!Put, Worker!Evict, Worker!Rewrite, Worker!workerVars
<1>4. v8' \in [Clients -> [taken : SUBSET Keys, left : SUBSET Keys]]
  <2>1. ASSUME NEW c \in Clients, Worker!Arrive(c)
        PROVE  v8' \in [Clients -> [taken : SUBSET Keys, left : SUBSET Keys]]
      BY <2>1 DEF Worker!TypeOK, Worker!Arrive
  <2>2. ASSUME NEW c \in Clients, NEW k \in Keys, Worker!StreamEntry(c, k)
        PROVE  v8' \in [Clients -> [taken : SUBSET Keys, left : SUBSET Keys]]
      BY <2>2 DEF Worker!TypeOK, Worker!StreamEntry
  <2>3. \/ UNCHANGED v8 \/ \E c \in Clients : Worker!Arrive(c)
        \/ \E c \in Clients, k \in Keys : Worker!StreamEntry(c, k)
      BY DEF Worker!Next, Worker!MatchCache, Worker!Get, Worker!RangeIgnored, Worker!Head,
         Worker!GetAll, Worker!GetBranding, Worker!ReadFails, Worker!EndArchive, Worker!Put,
         Worker!Evict,
             Worker!Rewrite, Worker!workerVars
  <2> QED
      BY <2>1, <2>2, <2>3 DEF Worker!TypeOK
<1>5. ASSUME NEW p \in v4'
      PROVE  p \in Keys \X Worker!Reply
  <2>1. \/ p \in v4
        \/ \E c \in Clients : \E r : p = <<v6[c].key, r>>
      BY DEF Worker!Next, Worker!Arrive, Worker!MatchCache, Worker!Get, Worker!RangeIgnored,
         Worker!Head, Worker!GetAll, Worker!GetBranding, Worker!ReadFails, Worker!EndArchive,
             Worker!StreamEntry, Worker!Put, Worker!Evict, Worker!Rewrite, Worker!workerVars,
             Worker!Kept
  <2>2. p[2] = Worker!Whole
      BY DEF Worker!WorkerInv, Worker!CacheIsClean, Worker!Whole
  <2> QED
      BY <2>1, <2>2, <1>1 DEF Worker!TypeOK, Worker!Ask
<1> QED
    BY <1>2, <1>3, <1>4, <1>5 DEF Worker!TypeOK

-----------------------------------------------------------------------------
(* MaterialViewer: v1 viewer, v2 material, v3 file, v4 load, v5 waits, v6  *)
(* engine, v7 works, v8 view, v9 printable.                                *)

\* Work that is left behind is still work.
LEMMA ViewerLeftFits == ASSUME NEW s,
s \subseteq Viewer!Work PROVE Viewer!Left(s) \subseteq Viewer!Work
<1>1. \A w \in Viewer!Work : [w EXCEPT !.live = FALSE] \in Viewer!Work
    BY DEF Viewer!Work
<1> QED
    BY <1>1 DEF Viewer!Left

\* The work that a material wants is work.
LEMMA ViewerWantedFits == \A m \in Materials : [of |-> m, live |-> TRUE] \in Viewer!Work
    BY DEF Viewer!Work

\* Opening a document leaves work only.
LEMMA ViewerOpenFits ==
    ASSUME v7 \subseteq Viewer!Work, NEW url \in Viewer!Some, NEW state,
           Viewer!OpenDocument(url, state)
    PROVE  v7' \subseteq Viewer!Work
<1>1. url # "none" => url \in Materials
    BY DEF Viewer!Some
<1> QED
    BY <1>1, ViewerLeftFits, ViewerWantedFits DEF Viewer!OpenDocument

\* The viewer does not wait at first.
LEMMA TriesStart == Viewer!Init => Viewer!TriesRemain
    BY DEF Viewer!Init, Viewer!TriesRemain

\* Every step keeps the viewer from waiting for a try it does not have.
LEMMA TriesStep ==
    Viewer!TypeOK /\ Viewer!TriesRemain /\ [Viewer!Next]_(Viewer!viewerVars)
    => Viewer!TriesRemain'
<1> SUFFICES ASSUME Viewer!TypeOK, Viewer!TriesRemain,
    [Viewer!Next]_(Viewer!viewerVars) PROVE Viewer!TriesRemain'
    OBVIOUS
<1>1. ASSUME UNCHANGED <<v4, v5>> PROVE Viewer!TriesRemain'
    BY <1>1 DEF Viewer!TriesRemain
<1>2. ASSUME v5' = FALSE PROVE Viewer!TriesRemain'
    BY <1>2 DEF Viewer!TriesRemain
<1>3. ASSUME Viewer!LoadEnds, Viewer!LoadEnded PROVE Viewer!TriesRemain'
    BY <1>3 DEF Viewer!LoadEnds, Viewer!LoadEnded, Viewer!TriesRemain
<1>4. CASE Viewer!FileBreaks
    BY <1>4 DEF Viewer!FileBreaks, Viewer!LoadEnds, Viewer!TriesRemain, Viewer!TypeOK,
       Viewer!MaxAttempts
<1>5. CASE Viewer!Retry
    BY <1>1, <1>2, <1>5 DEF Viewer!Retry, Viewer!StartLoad
<1> HIDE DEF Viewer!TriesRemain
<1> QED
    BY <1>1, <1>2, <1>3, <1>4, <1>5
    DEF Viewer!Next, Viewer!viewerVars, Viewer!FileAnswered, Viewer!BackoffEnds,
    Viewer!FileFails, Viewer!EngineUp, Viewer!EngineFails,
        Viewer!EngineRestarts, Viewer!EditorReady, Viewer!EditorFails, Viewer!DocumentOpens,
        Viewer!DocumentFails, Viewer!DocumentTimesOut,
        Viewer!EditorStarts, Viewer!StartupFails, Viewer!SwitchMaterial, Viewer!StartLoad,
        Viewer!loadRest

\* The first states have their types.
LEMMA ViewerTypesStart == Viewer!Init => Viewer!TypeOK
<1> SUFFICES ASSUME Viewer!Init PROVE Viewer!TypeOK
    OBVIOUS
<1> USE DEF Viewer!TypeOK, Viewer!Some, Viewer!File, Viewer!Work, Viewer!View
<1>4. v4 \in 0..Viewer!MaxAttempts
    BY DEF Viewer!Init, Viewer!Loads, Viewer!MaxAttempts
<1>7. v7 \subseteq Viewer!Work
  <2>1. v2 \in Materials /\ (v7 = {} \/ v7 = {[of |-> v2, live |-> TRUE]})
      BY DEF Viewer!Init
  <2> QED
      BY <2>1, ViewerWantedFits
<1> QED
    BY <1>4, <1>7 DEF Viewer!Init, Viewer!Fresh, Viewer!Loads

\* Every step keeps the types.
LEMMA ViewerTypesKept ==
    Viewer!TypeOK /\ [Viewer!Next]_(Viewer!viewerVars) /\ Viewer!TriesRemain => Viewer!TypeOK'
<1> SUFFICES ASSUME Viewer!TypeOK, [Viewer!Next]_(Viewer!viewerVars), Viewer!TriesRemain
             PROVE  Viewer!TypeOK'
    OBVIOUS
<1> USE DEF Viewer!TypeOK, Viewer!Some, Viewer!File, Viewer!Work, Viewer!View
<1>1. CASE Viewer!FileAnswered
  <2>4. (v4 \in 0..Viewer!MaxAttempts)'
    <3>1. 0 \in 0..Viewer!MaxAttempts /\ 1 \in 0..Viewer!MaxAttempts
        BY DEF Viewer!MaxAttempts
    <3>2. v4 \in 0..Viewer!MaxAttempts
        OBVIOUS
    <3> HIDE DEF Viewer!TypeOK, Viewer!MaxAttempts, Viewer!File, Viewer!View
    <3> QED
        BY <1>1, <3>1, <3>2 DEF Viewer!FileAnswered, Viewer!FileFails, Viewer!LoadEnded,
           Viewer!Retry, Viewer!SwitchMaterial, Viewer!StartLoad
  <2>7. (v7 \subseteq Viewer!Work)'
    <3>1. v7 \subseteq Viewer!Work /\ v2 \in Viewer!Some /\ "none" \in Viewer!Some
          /\ v2 \in Materials
        BY DEF Viewer!Some
    <3>2. v3.of \in Viewer!Some
        OBVIOUS
    <3>3. Viewer!Url \in Viewer!Some /\ (Viewer!Url # "none" => Viewer!Url \in Materials)
        BY <3>2 DEF Viewer!Url, Viewer!Some
    <3> HIDE DEF Viewer!TypeOK, Viewer!Work, Viewer!Some, Viewer!Url
    <3> QED
        BY <1>1, <3>1, <3>3, ViewerOpenFits, ViewerLeftFits, ViewerWantedFits
           DEF Viewer!FileAnswered
  <2> QED
      BY <1>1, <2>4, <2>7 DEF Viewer!FileAnswered, Viewer!fileRest, Viewer!OpenDocument,
         Viewer!LoadEnds, Viewer!LoadEnded, Viewer!Left
<1>2. CASE Viewer!FileBreaks
    BY <1>2 DEF Viewer!FileBreaks, Viewer!MaxAttempts, Viewer!fileRest, Viewer!LoadEnds,
       Viewer!Retries
<1>3. CASE Viewer!BackoffEnds
  <2>4. (v4 \in 0..Viewer!MaxAttempts)'
      BY <1>3 DEF Viewer!BackoffEnds, Viewer!TriesRemain, Viewer!MaxAttempts
  <2> QED
      BY <1>3, <2>4 DEF Viewer!BackoffEnds, Viewer!fileRest
<1>4. CASE Viewer!FileFails
  <2>4. (v4 \in 0..Viewer!MaxAttempts)'
    <3>1. 0 \in 0..Viewer!MaxAttempts /\ 1 \in 0..Viewer!MaxAttempts
        BY DEF Viewer!MaxAttempts
    <3>2. v4 \in 0..Viewer!MaxAttempts
        OBVIOUS
    <3> HIDE DEF Viewer!TypeOK, Viewer!MaxAttempts, Viewer!File, Viewer!View
    <3> QED
        BY <1>4, <3>1, <3>2 DEF Viewer!FileAnswered, Viewer!FileFails, Viewer!LoadEnded,
           Viewer!Retry, Viewer!SwitchMaterial, Viewer!StartLoad
  <2> QED
      BY <1>4, <2>4 DEF Viewer!FileFails, Viewer!fileRest, Viewer!LoadEnds, Viewer!LoadEnded
<1>5. CASE Viewer!EngineUp
  <2>7. (v7 \subseteq Viewer!Work)'
    <3>1. v7 \subseteq Viewer!Work /\ v2 \in Viewer!Some /\ "none" \in Viewer!Some
          /\ v2 \in Materials
        BY DEF Viewer!Some
    <3>2. v3.of \in Viewer!Some
        OBVIOUS
    <3>3. Viewer!Url \in Viewer!Some /\ (Viewer!Url # "none" => Viewer!Url \in Materials)
        BY <3>2 DEF Viewer!Url, Viewer!Some
    <3> HIDE DEF Viewer!TypeOK, Viewer!Work, Viewer!Some, Viewer!Url
    <3> QED
        BY <1>5, <3>1, <3>3, ViewerOpenFits, ViewerLeftFits, ViewerWantedFits
           DEF Viewer!EngineUp
  <2> QED
      BY <1>5, <2>7 DEF Viewer!EngineUp, Viewer!loadRest, Viewer!OpenDocument, Viewer!Url,
         Viewer!Left
<1>6. CASE Viewer!EngineFails
    BY <1>6 DEF Viewer!EngineFails, Viewer!loadRest
<1>7. CASE Viewer!EngineRestarts
  <2>7. (v7 \subseteq Viewer!Work)'
    <3>1. v7 \subseteq Viewer!Work /\ v2 \in Viewer!Some /\ "none" \in Viewer!Some
          /\ v2 \in Materials
        BY DEF Viewer!Some
    <3>2. v3.of \in Viewer!Some
        OBVIOUS
    <3>3. Viewer!Url \in Viewer!Some /\ (Viewer!Url # "none" => Viewer!Url \in Materials)
        BY <3>2 DEF Viewer!Url, Viewer!Some
    <3> HIDE DEF Viewer!TypeOK, Viewer!Work, Viewer!Some, Viewer!Url
    <3> QED
        BY <1>7, <3>1, <3>3, ViewerOpenFits, ViewerLeftFits, ViewerWantedFits
           DEF Viewer!EngineRestarts, Viewer!StartEngine
  <2> QED
      BY <1>7, <2>7 DEF Viewer!EngineRestarts, Viewer!loadRest, Viewer!StartEngine, Viewer!Left
<1>8. CASE Viewer!EditorReady
    BY <1>8 DEF Viewer!EditorReady
<1>9. CASE Viewer!EditorFails
    BY <1>9 DEF Viewer!EditorFails, Viewer!loadRest
<1>10. ASSUME NEW w \in v7, Viewer!DocumentOpens(w)
      PROVE  Viewer!TypeOK'
    BY <1>10 DEF Viewer!DocumentOpens, Viewer!loadRest, Viewer!Receive
<1>11. ASSUME NEW w \in v7, Viewer!DocumentFails(w)
      PROVE  Viewer!TypeOK'
    BY <1>11 DEF Viewer!DocumentFails, Viewer!loadRest
<1>12. ASSUME NEW w \in v7, Viewer!DocumentTimesOut(w)
      PROVE  Viewer!TypeOK'
    BY <1>12 DEF Viewer!DocumentTimesOut, Viewer!loadRest
<1>13. ASSUME NEW w \in v7, Viewer!EditorStarts(w)
      PROVE  Viewer!TypeOK'
    BY <1>13 DEF Viewer!EditorStarts, Viewer!loadRest
<1>14. ASSUME NEW w \in v7, Viewer!StartupFails(w)
      PROVE  Viewer!TypeOK'
    BY <1>14 DEF Viewer!StartupFails, Viewer!loadRest
<1>15. CASE Viewer!Retry
  <2>1. (/\ v1 \in {"file", "pdf", "office", "audio"} /\ v2 \in Materials
         /\ v5 \in BOOLEAN)'
      BY <1>15 DEF Viewer!Retry, Viewer!Left, Viewer!StartLoad, Viewer!OpenDocument, Viewer!Url,
         Viewer!StartEngine, Viewer!StartEditor,
         Viewer!Failed, Viewer!Fresh
  <2>3. (v3 \in Viewer!File)'
    <3>1. Viewer!Fresh \in Viewer!File /\ [v3 EXCEPT !.loading = TRUE] \in Viewer!File
        BY DEF Viewer!Fresh
    <3>2. v3' = v3 \/ v3' = Viewer!Fresh \/ v3' = [v3 EXCEPT !.loading = TRUE]
        BY <1>15 DEF Viewer!Retry, Viewer!SwitchMaterial, Viewer!StartLoad
    <3> QED
        BY <3>1, <3>2
  <2>4. (v4 \in 0..Viewer!MaxAttempts)'
    <3>1. 0 \in 0..Viewer!MaxAttempts /\ 1 \in 0..Viewer!MaxAttempts
        BY DEF Viewer!MaxAttempts
    <3>2. v4 \in 0..Viewer!MaxAttempts
        OBVIOUS
    <3> HIDE DEF Viewer!TypeOK, Viewer!MaxAttempts, Viewer!File, Viewer!View
    <3> QED
        BY <1>15, <3>1, <3>2 DEF Viewer!FileAnswered, Viewer!FileFails, Viewer!LoadEnded,
           Viewer!Retry, Viewer!SwitchMaterial, Viewer!StartLoad
  <2>6. (/\ v6 \in {"starting", "up", "down"} /\ v8 \in Viewer!View /\ v9 \in Viewer!Some)'
      BY <1>15 DEF Viewer!Retry, Viewer!Left, Viewer!StartLoad, Viewer!OpenDocument, Viewer!Url,
         Viewer!StartEngine, Viewer!StartEditor,
         Viewer!Failed, Viewer!Fresh
  <2>7. (v7 \subseteq Viewer!Work)'
    <3>1. v7 \subseteq Viewer!Work /\ v2 \in Viewer!Some /\ "none" \in Viewer!Some
          /\ v2 \in Materials
        BY DEF Viewer!Some
    <3>2. v3.of \in Viewer!Some
        OBVIOUS
    <3>3. Viewer!Url \in Viewer!Some /\ (Viewer!Url # "none" => Viewer!Url \in Materials)
        BY <3>2 DEF Viewer!Url, Viewer!Some
    <3> HIDE DEF Viewer!TypeOK, Viewer!Work, Viewer!Some, Viewer!Url
    <3> QED
        BY <1>15, <3>1, <3>3, ViewerOpenFits, ViewerLeftFits, ViewerWantedFits DEF Viewer!Retry,
           Viewer!StartLoad, Viewer!StartEngine, Viewer!StartEditor
  <2> QED
      BY <2>1, <2>3, <2>4, <2>6, <2>7
<1>16. ASSUME NEW m \in Materials, Viewer!SwitchMaterial(m)
      PROVE  Viewer!TypeOK'
  <2>1. (/\ v1 \in {"file", "pdf", "office", "audio"} /\ v2 \in Materials
         /\ v5 \in BOOLEAN)'
      BY <1>16 DEF Viewer!SwitchMaterial, Viewer!StartLoad, Viewer!OpenDocument,
         Viewer!StartEditor, Viewer!Fresh, Viewer!Left
  <2>3. (v3 \in Viewer!File)'
    <3>1. Viewer!Fresh \in Viewer!File /\ [v3 EXCEPT !.loading = TRUE] \in Viewer!File
        BY DEF Viewer!Fresh
    <3>2. v3' = v3 \/ v3' = Viewer!Fresh \/ v3' = [v3 EXCEPT !.loading = TRUE]
        BY <1>16 DEF Viewer!Retry, Viewer!SwitchMaterial, Viewer!StartLoad
    <3> QED
        BY <3>1, <3>2
  <2>4. (v4 \in 0..Viewer!MaxAttempts)'
    <3>1. 0 \in 0..Viewer!MaxAttempts /\ 1 \in 0..Viewer!MaxAttempts
        BY DEF Viewer!MaxAttempts
    <3>2. v4 \in 0..Viewer!MaxAttempts
        OBVIOUS
    <3> HIDE DEF Viewer!TypeOK, Viewer!MaxAttempts, Viewer!File, Viewer!View
    <3> QED
        BY <1>16, <3>1, <3>2 DEF Viewer!FileAnswered, Viewer!FileFails, Viewer!LoadEnded,
           Viewer!Retry, Viewer!SwitchMaterial, Viewer!StartLoad
  <2>6. (/\ v6 \in {"starting", "up", "down"} /\ v8 \in Viewer!View /\ v9 \in Viewer!Some)'
      BY <1>16 DEF Viewer!SwitchMaterial, Viewer!StartLoad, Viewer!OpenDocument,
         Viewer!StartEditor, Viewer!Fresh, Viewer!Left
  <2>7. (v7 \subseteq Viewer!Work)'
    <3>1. v7 \subseteq Viewer!Work /\ v2 \in Viewer!Some /\ "none" \in Viewer!Some
          /\ v2 \in Materials
        BY DEF Viewer!Some
    <3>2. v3.of \in Viewer!Some
        OBVIOUS
    <3>3. Viewer!Url \in Viewer!Some /\ (Viewer!Url # "none" => Viewer!Url \in Materials)
        BY <3>2 DEF Viewer!Url, Viewer!Some
    <3> HIDE DEF Viewer!TypeOK, Viewer!Work, Viewer!Some, Viewer!Url
    <3> QED
        BY <1>16, <3>1, <3>3, ViewerOpenFits, ViewerLeftFits, ViewerWantedFits
           DEF Viewer!SwitchMaterial, Viewer!StartEditor
  <2> QED
      BY <2>1, <2>3, <2>4, <2>6, <2>7
<1>17. CASE UNCHANGED Viewer!viewerVars
    BY <1>17 DEF Viewer!viewerVars
<1> QED
    BY <1>1, <1>2, <1>3, <1>4, <1>5, <1>6, <1>7, <1>8, <1>9, <1>10, <1>11, <1>12,
       <1>13, <1>14, <1>15, <1>16, <1>17 DEF Viewer!Next

-----------------------------------------------------------------------------
(* MaterialThumbnails: v1 published, v2 jobs, v3 gen, v4 thumb, v5 slots,  *)
(* v6 fetches, v7 button, v8 previous, v9 told, v10 cardKind, v11 card,    *)
(* v12 awaits, v13 shows, v14 cardFailed.                                  *)

\* The part's number of elements is the library's.
LEMMA ThumbsCounts == \A S : Thumbs!Cardinality(S) = Cardinality(S)
    BY Zenon DEF Thumbs!Cardinality, Cardinality

\* The part's finite sets are the library's.
LEMMA ThumbsFinite == \A S : Thumbs!IsFiniteSet(S) <=> IsFiniteSet(S)
    BY Zenon DEF Thumbs!IsFiniteSet, IsFiniteSet

\* The sizes of the empty set and of a set of one.
LEMMA CardThumb == /\ Cardinality({}) = 0
                   /\ \A e : Cardinality({e}) = 1
    BY FS_EmptySet, FS_Singleton

\* One element more makes a finite set larger by one at most.
LEMMA AddedSize ==
    ASSUME NEW S, NEW x, IsFiniteSet(S)
    PROVE  IsFiniteSet(S \cup {x}) /\ Cardinality(S \cup {x}) <= Cardinality(S) + 1
<1>1. Cardinality(S) \in Nat
    BY FS_CardinalityType
<1> QED
    BY <1>1, FS_AddElement

\* No request is out at first, and none waits.
LEMMA RequestsStart == Thumbs!Init => Thumbs!RequestsFit
    BY ThumbsCounts, ThumbsFinite, FS_EmptySet, ThumbsBounds DEF Thumbs!Init, Thumbs!RequestsFit

\* The first generation leaves room for those to come.
LEMMA DropsStart == Thumbs!Init => Thumbs!DropsFit
<1> SUFFICES ASSUME Thumbs!Init PROVE Thumbs!DropsFit
    OBVIOUS
<1>1. Thumbs!Remaking = {}
    BY DEF Thumbs!Init, Thumbs!Remaking
<1> QED
    BY ThumbsCounts, ThumbsFinite, <1>1, FS_EmptySet, ThumbsBounds DEF Thumbs!Init,
       Thumbs!DropsFit

\* A request that starts is one of those that may run, or waits.
LEMMA ThumbStartKeeps ==
    ASSUME Thumbs!RequestsFit, NEW t \in Thumbs!Gets \cup Thumbs!Polls, Thumbs!Start(t, v6)
    PROVE  Thumbs!RequestsFit'
<1> USE DEF Thumbs!RequestsFit
<1>1. CASE Cardinality(DOMAIN v6) < MaxActive
  <2>1. DOMAIN v6' = DOMAIN v6 \cup {t} /\ v5' = v5
      BY ThumbsCounts, ThumbsFinite, <1>1 DEF Thumbs!Start
  <2>2. /\ IsFiniteSet(DOMAIN v6 \cup {t})
        /\ Cardinality(DOMAIN v6 \cup {t}) <= Cardinality(DOMAIN v6) + 1
        /\ Cardinality(DOMAIN v6) \in Nat
    <3>1. IsFiniteSet(DOMAIN v6) /\ Cardinality(DOMAIN v6) \in Nat
        BY ThumbsCounts, ThumbsFinite, FS_CardinalityType
    <3> QED
        BY <3>1, AddedSize
  <2>3. Cardinality(DOMAIN v6 \cup {t}) <= MaxActive
      BY <1>1, <2>2, FS_CardinalityType, ThumbsBounds
  <2>4. \A u \in DOMAIN v6' : v6'[u] \in Thumbs!ReadValues
      BY <1>1 DEF Thumbs!Start, Thumbs!ReadValues
  <2> QED
      BY ThumbsCounts, ThumbsFinite, <2>1, <2>2, <2>3, <2>4 DEF Thumbs!Gets, Thumbs!Polls,
         Thumbs!ReadValues,
         Thumbs!Version, Thumbs!Unread
<1>2. CASE ~(Cardinality(DOMAIN v6) < MaxActive)
  <2>1. v5' = Append(v5, t) /\ v6' = v6
      BY <1>2, ThumbsCounts DEF Thumbs!Start
  <2> DEFINE G == Thumbs!Gets \cup Thumbs!Polls
  <2>2. v5 \in Seq(G) /\ t \in G
      OBVIOUS
  <2> HIDE DEF G
  <2>3. v5' \in Seq(G)
      BY <2>1, <2>2
  <2> QED
      BY <2>1, <2>3 DEF G
<1> QED
    BY <1>1, <1>2

\* Asking for the thumbnail keeps the requests at most as many as may run.
LEMMA ThumbGetKeeps == ASSUME Thumbs!RequestsFit, v3 \in 0..MaxDrops,
Thumbs!Get PROVE Thumbs!RequestsFit'
<1>1. CASE Thumbs!InFlight
    BY <1>1 DEF Thumbs!Get, Thumbs!RequestsFit, Thumbs!Gets, Thumbs!Polls, Thumbs!ReadValues,
       Thumbs!Version, Thumbs!Unread
<1>2. CASE ~Thumbs!InFlight
  <2>1. <<"get", v3>> \in Thumbs!Gets \cup Thumbs!Polls
      BY DEF Thumbs!Gets
  <2> QED
      BY <1>2, <2>1, ThumbStartKeeps DEF Thumbs!Get
<1> QED
    BY <1>1, <1>2

\* A request that ends lets the first that waits run.
LEMMA ThumbFinishKeeps == ASSUME Thumbs!RequestsFit, NEW t \in DOMAIN v6,
Thumbs!Finish(t) PROVE Thumbs!RequestsFit'
<1> USE DEF Thumbs!RequestsFit
<1>1. /\ IsFiniteSet(DOMAIN v6 \ {t})
      /\ Cardinality(DOMAIN v6 \ {t}) = Cardinality(DOMAIN v6) - 1
      /\ Cardinality(DOMAIN v6) \in Nat
    BY ThumbsCounts, ThumbsFinite, FS_RemoveElement, FS_CardinalityType
<1>2. CASE v5 = <<>>
  <2>1. DOMAIN v6' = DOMAIN v6 \ {t} /\ v5' = v5
      BY <1>2 DEF Thumbs!Finish, Thumbs!Without
  <2>2. \A u \in DOMAIN v6' : v6'[u] \in Thumbs!ReadValues
      BY <1>2 DEF Thumbs!Finish, Thumbs!Without
  <2> QED
      BY ThumbsCounts, ThumbsFinite, <1>1, <2>1, <2>2, ThumbsBounds DEF Thumbs!Gets,
         Thumbs!Polls, Thumbs!ReadValues,
         Thumbs!Version, Thumbs!Unread
<1>3. CASE v5 # <<>>
  <2> DEFINE left == DOMAIN v6 \ {t}
  <2>1. Head(v5) \in Thumbs!Gets \cup Thumbs!Polls
        /\ Tail(v5) \in Seq(Thumbs!Gets \cup Thumbs!Polls)
      BY <1>3
  <2>2. DOMAIN v6' = left \cup {Head(v5)} /\ v5' = Tail(v5)
      BY <1>3 DEF Thumbs!Finish
  <2>3. IsFiniteSet(left \cup {Head(v5)})
        /\ Cardinality(left \cup {Head(v5)}) <= Cardinality(left) + 1
    <3>1. Cardinality(left) \in Nat
        BY <1>1, FS_CardinalityType
    <3>2. IsFiniteSet(left)
        BY <1>1
    <3> HIDE DEF left
    <3> QED
        BY <3>2, AddedSize
  <2>4. \A u \in DOMAIN v6' : v6'[u] \in Thumbs!ReadValues
      BY <1>3 DEF Thumbs!Finish, Thumbs!ReadValues
  <2>5. Cardinality(left \cup {Head(v5)}) <= MaxActive
    <3>1. Cardinality(left \cup {Head(v5)}) \in Nat
        BY <2>3, FS_CardinalityType
    <3> QED
        BY ThumbsCounts, ThumbsFinite, <1>1, <2>3, <3>1, ThumbsBounds
  <2> QED
      BY ThumbsCounts, ThumbsFinite, <2>1, <2>2, <2>3, <2>4, <2>5 DEF Thumbs!Gets, Thumbs!Polls,
         Thumbs!ReadValues,
         Thumbs!Version, Thumbs!Unread
<1> QED
    BY <1>2, <1>3

\* Every step keeps the requests at most as many as may run.
LEMMA RequestsStep ==
    Thumbs!TypeOK /\ Thumbs!RequestsFit /\ [Thumbs!Next]_(Thumbs!thumbVars)
    => Thumbs!RequestsFit'
<1> SUFFICES ASSUME Thumbs!TypeOK, Thumbs!RequestsFit, [Thumbs!Next]_(Thumbs!thumbVars)
             PROVE  Thumbs!RequestsFit'
    OBVIOUS
<1>1. ASSUME UNCHANGED <<v5, v6>> PROVE Thumbs!RequestsFit'
    BY <1>1 DEF Thumbs!RequestsFit, Thumbs!Gets, Thumbs!Polls, Thumbs!ReadValues,
       Thumbs!Version, Thumbs!Unread
<1>2. CASE Thumbs!CardAsks
  <2>1. UNCHANGED <<v5, v6>> \/ Thumbs!Get
      BY <1>2 DEF Thumbs!CardAsks
  <2> QED
      BY <1>1, <2>1, ThumbGetKeeps DEF Thumbs!TypeOK
<1>3. ASSUME NEW t \in DOMAIN v6, Thumbs!ServerReads(t) PROVE Thumbs!RequestsFit'
  <2>1. DOMAIN v6' = DOMAIN v6 /\ v5' = v5
      BY <1>3 DEF Thumbs!ServerReads
  <2>2. \A u \in DOMAIN v6' : v6'[u] \in Thumbs!ReadValues
      BY <1>3 DEF Thumbs!ServerReads, Thumbs!RequestsFit, Thumbs!TypeOK, Thumbs!ReadValues
  <2> QED
      BY <2>1, <2>2 DEF Thumbs!RequestsFit, Thumbs!Gets, Thumbs!Polls, Thumbs!ReadValues,
         Thumbs!Version, Thumbs!Unread
<1>4. ASSUME NEW g \in 0..v3, Thumbs!GetAnswered(g)
             \/ Thumbs!GetFails(g) PROVE Thumbs!RequestsFit'
    BY <1>4, ThumbFinishKeeps DEF Thumbs!GetAnswered, Thumbs!GetFails
<1>5. ASSUME NEW b \in Buttons, Thumbs!Press(b) PROVE Thumbs!RequestsFit'
  <2>1. UNCHANGED <<v5, v6>> \/ Thumbs!Get
      BY <1>5 DEF Thumbs!Press
  <2> QED
      BY <1>1, <2>1, ThumbGetKeeps DEF Thumbs!TypeOK
<1>6. ASSUME NEW b \in Buttons, Thumbs!PollStarts(b) PROVE Thumbs!RequestsFit'
  <2>1. <<"poll", b>> \in Thumbs!Gets \cup Thumbs!Polls
      BY DEF Thumbs!Polls
  <2> QED
      BY <1>6, <2>1, ThumbStartKeeps DEF Thumbs!PollStarts
<1>7. ASSUME NEW b \in Buttons, Thumbs!PollAnswered(b)
             \/ Thumbs!PollFails(b) PROVE Thumbs!RequestsFit'
    BY <1>7, ThumbFinishKeeps DEF Thumbs!PollAnswered, Thumbs!PollFails
<1>8. CASE Thumbs!ServerPublishes \/ Thumbs!CacheForgets \/ Thumbs!Mount \/ Thumbs!Unmount
      \/ Thumbs!ComesIntoView \/ UNCHANGED Thumbs!thumbVars
    BY <1>1, <1>8 DEF Thumbs!ServerPublishes, Thumbs!CacheForgets, Thumbs!Mount, Thumbs!Unmount,
       Thumbs!ComesIntoView, Thumbs!thumbVars
<1>9. ASSUME NEW b \in Buttons, Thumbs!RecalculatedNow(b) \/ Thumbs!RecalculationQueued(b)
             \/ Thumbs!RecalculationFails(b)
      PROVE  Thumbs!RequestsFit'
    BY <1>1, <1>9 DEF Thumbs!RecalculatedNow, Thumbs!RecalculationQueued,
       Thumbs!RecalculationFails
<1> QED
    BY <1>2, <1>3, <1>4, <1>5, <1>6, <1>7, <1>8, <1>9 DEF Thumbs!Next

\* With fewer buttons that remake the thumbnail, fewer generations are to
\* come.
LEMMA SmallerRemaking ==
    ASSUME Thumbs!DropsFit, v3' = v3, Thumbs!Remaking' \subseteq Thumbs!Remaking
    PROVE  Thumbs!DropsFit'
<1>1. IsFiniteSet(Thumbs!Remaking)
    BY ThumbsBounds, FS_Subset DEF Thumbs!Remaking
<1>2. Cardinality(Thumbs!Remaking') <= Cardinality(Thumbs!Remaking)
      /\ IsFiniteSet(Thumbs!Remaking')
    BY <1>1, FS_Subset
<1> QED
    BY ThumbsCounts, ThumbsFinite, <1>1, <1>2, FS_CardinalityType, ThumbsBounds
       DEF Thumbs!DropsFit

\* A button that drops the cache starts one generation and has one fewer to
\* come.
LEMMA DropFits ==
    ASSUME Thumbs!DropsFit, NEW b \in Buttons, v7 \in [Buttons -> Thumbs!Stages],
           v7[b] = "posting",
           v3' = v3 + 1, NEW s \in {"idle", "sleeping"}, v7' = [v7 EXCEPT ![b] = s]
    PROVE  Thumbs!DropsFit'
<1>1. IsFiniteSet(Thumbs!Remaking)
    BY ThumbsBounds, FS_Subset DEF Thumbs!Remaking
<1>2. b \in Thumbs!Remaking /\ Thumbs!Remaking' = Thumbs!Remaking \ {b}
    BY DEF Thumbs!Remaking
<1>3. Cardinality(Thumbs!Remaking') = Cardinality(Thumbs!Remaking) - 1
      /\ Cardinality(Thumbs!Remaking) \in Nat
    BY <1>1, <1>2, FS_RemoveElement, FS_CardinalityType
<1> QED
    BY ThumbsCounts, ThumbsFinite, <1>3, ThumbsBounds DEF Thumbs!DropsFit

\* Every step keeps the generations, with those to come, within the bound.
LEMMA DropsStep ==
    Thumbs!TypeOK /\ Thumbs!DropsFit /\ [Thumbs!Next]_(Thumbs!thumbVars) => Thumbs!DropsFit'
<1> SUFFICES ASSUME Thumbs!TypeOK, Thumbs!DropsFit, [Thumbs!Next]_(Thumbs!thumbVars)
             PROVE  Thumbs!DropsFit'
    OBVIOUS
<1> DEFINE B == Buttons
<1>0. v7 \in [Buttons -> Thumbs!Stages]
    BY DEF Thumbs!TypeOK
<1>1. ASSUME UNCHANGED <<v3, v7>> PROVE Thumbs!DropsFit'
    BY <1>1, SmallerRemaking DEF Thumbs!Remaking
<1>2. ASSUME NEW g \in 0..v3, Thumbs!GetAnswered(g) \/ Thumbs!GetFails(g) PROVE Thumbs!DropsFit'
  <2>1. v3' = v3 /\ Thumbs!Remaking' \subseteq Thumbs!Remaking
      BY <1>0, <1>2 DEF Thumbs!GetAnswered, Thumbs!GetFails, Thumbs!AwaitsIt, Thumbs!Remaking,
         Thumbs!serverRest
  <2> QED
      BY <2>1, SmallerRemaking
<1>3. ASSUME NEW b \in Buttons, Thumbs!Press(b) PROVE Thumbs!DropsFit'
  <2>1. v3' = v3 /\ Thumbs!Remaking' = Thumbs!Remaking \cup {b}
      BY <1>0, <1>3 DEF Thumbs!Press, Thumbs!Remaking, Thumbs!serverRest
  <2>2. IsFiniteSet(Thumbs!Remaking)
      BY ThumbsBounds, FS_Subset DEF Thumbs!Remaking
  <2>3. Cardinality(Thumbs!Remaking') <= Cardinality(Thumbs!Remaking) + 1
        /\ Cardinality(Thumbs!Remaking) \in Nat
        /\ Cardinality(Thumbs!Remaking') \in Nat
      BY <2>1, <2>2, AddedSize, FS_AddElement, FS_CardinalityType
  <2>4. v3 + Cardinality(Thumbs!Remaking) < MaxDrops
      BY ThumbsCounts, ThumbsFinite, <1>3 DEF Thumbs!Press, Thumbs!Remaking
  <2> QED
      BY ThumbsCounts, ThumbsFinite, <2>1, <2>3, <2>4, ThumbsBounds DEF Thumbs!DropsFit
<1>4. ASSUME NEW b \in Buttons, Thumbs!RecalculatedNow(b)
             \/ Thumbs!RecalculationQueued(b) PROVE Thumbs!DropsFit'
  <2>1. v7[b] = "posting" /\ v3' = v3 + 1 /\ \E s \in {"idle",
        "sleeping"} : v7' = [v7 EXCEPT ![b] = s]
      BY <1>4 DEF Thumbs!RecalculatedNow, Thumbs!RecalculationQueued, Thumbs!Drop
  <2> QED
      BY <1>0, <2>1, DropFits
<1>5. ASSUME NEW b \in Buttons,
             Thumbs!RecalculationFails(b) \/ Thumbs!PollStarts(b) \/ Thumbs!PollAnswered(b)
             \/ Thumbs!PollFails(b)
      PROVE  Thumbs!DropsFit'
  <2>1. v3' = v3 /\ \E s \in {"idle", "sleeping", "polling"} : v7' = [v7 EXCEPT ![b] = s]
      BY <1>5 DEF Thumbs!RecalculationFails, Thumbs!PollStarts, Thumbs!PollAnswered,
         Thumbs!PollFails
  <2>2. Thumbs!Remaking' \subseteq Thumbs!Remaking
      BY <1>0, <2>1 DEF Thumbs!Remaking
  <2> QED
      BY <2>1, <2>2, SmallerRemaking
<1>6. CASE Thumbs!ServerPublishes \/ Thumbs!CacheForgets \/ Thumbs!Mount \/ Thumbs!Unmount
      \/ Thumbs!ComesIntoView \/ Thumbs!CardAsks
           \/ (\E t \in DOMAIN v6 : Thumbs!ServerReads(t)) \/ UNCHANGED Thumbs!thumbVars
    BY <1>1, <1>6 DEF Thumbs!ServerPublishes, Thumbs!CacheForgets, Thumbs!Mount, Thumbs!Unmount,
       Thumbs!ComesIntoView, Thumbs!CardAsks,
       Thumbs!ServerReads, Thumbs!thumbVars, Thumbs!buttonRest
<1> QED
    BY <1>2, <1>3, <1>4, <1>5, <1>6 DEF Thumbs!Next

\* The first states have their types.
LEMMA ThumbsTypesStart == Thumbs!Init => Thumbs!TypeOK
<1> SUFFICES ASSUME Thumbs!Init PROVE Thumbs!TypeOK
    OBVIOUS
<1> USE DEF Thumbs!TypeOK, Thumbs!Version, Thumbs!Unread, Thumbs!Entry, Thumbs!Gets,
    Thumbs!Polls, Thumbs!Stages
<1>1. v1 \in Thumbs!Version
    BY ThumbsBounds DEF Thumbs!Init
<1>2. v2 \in 0..Cardinality(Buttons)
    BY ThumbsBounds, FS_CardinalityType DEF Thumbs!Init
<1>3. v3 \in 0..MaxDrops
    BY ThumbsBounds DEF Thumbs!Init
<1>4. v4 \subseteq Thumbs!Entry
    BY ThumbsBounds DEF Thumbs!Init
<1>5. Cardinality(v4) <= 1
    BY CardThumb DEF Thumbs!Init
<1>6. v5 \in Seq(Thumbs!Gets \cup Thumbs!Polls)
    BY ThumbsBounds DEF Thumbs!Init
<1>7. DOMAIN v6 \subseteq Thumbs!Gets \cup Thumbs!Polls
    BY ThumbsBounds DEF Thumbs!Init
<1>8. Cardinality(DOMAIN v6) <= MaxActive
    BY ThumbsCounts, ThumbsFinite, RequestsStart DEF Thumbs!RequestsFit
<1>9. v7 \in [Buttons -> Thumbs!Stages]
    BY ThumbsBounds DEF Thumbs!Init
<1>10. v8 \in [Buttons -> Thumbs!Version \cup {Thumbs!Unread} \cup (0..MaxDrops)]
    BY ThumbsBounds DEF Thumbs!Init
<1>11. v9 \in Thumbs!Version
    BY ThumbsBounds DEF Thumbs!Init
<1>12. v10 \in {"card", "collage", "row"}
    BY ThumbsBounds DEF Thumbs!Init
<1>13. v11 \in {"away", "out", "timer", "waits", "rests"}
    BY ThumbsBounds DEF Thumbs!Init
<1>14. v12 \in 0..MaxDrops
    BY ThumbsBounds DEF Thumbs!Init
<1>15. v13 \subseteq Thumbs!Entry
    BY ThumbsBounds DEF Thumbs!Init
<1>16. v14 \in BOOLEAN
    BY ThumbsBounds DEF Thumbs!Init
<1> QED
    BY ThumbsCounts, ThumbsFinite, <1>1, <1>2, <1>3, <1>4, <1>5, <1>6, <1>7, <1>8, <1>9, <1>10,
       <1>11, <1>12,
       <1>13, <1>14, <1>15, <1>16

\* Every step keeps the types.
LEMMA ThumbsTypesKept ==
    Thumbs!TypeOK /\ [Thumbs!Next]_(Thumbs!thumbVars) /\ Thumbs!RequestsFit /\ Thumbs!DropsFit
    /\ Thumbs!RequestsFit' /\ Thumbs!DropsFit'
    => Thumbs!TypeOK'
<1> SUFFICES ASSUME Thumbs!TypeOK, [Thumbs!Next]_(Thumbs!thumbVars), Thumbs!RequestsFit,
    Thumbs!DropsFit, Thumbs!RequestsFit', Thumbs!DropsFit'
             PROVE  Thumbs!TypeOK'
    OBVIOUS
<1> USE DEF Thumbs!TypeOK, Thumbs!Version, Thumbs!Unread, Thumbs!Entry, Thumbs!Gets,
    Thumbs!Polls, Thumbs!Stages
<1>1. CASE Thumbs!ServerPublishes
  <2>2. (v2 \in 0..Cardinality(Buttons))'
      BY ThumbsCounts, ThumbsFinite, <1>1, FS_CardinalityType, ThumbsBounds
         DEF Thumbs!ServerPublishes
  <2> QED
      BY ThumbsCounts, ThumbsFinite, <1>1, <2>2, ThumbsBounds DEF Thumbs!ServerPublishes,
         Thumbs!cardRest, Thumbs!buttonRest
<1>2. CASE Thumbs!CacheForgets
  <2>5. (Cardinality(v4) <= 1)'
      BY CardThumb, <1>2 DEF Thumbs!CacheForgets
  <2> QED
      BY ThumbsCounts, ThumbsFinite, <1>2, <2>5, ThumbsBounds DEF Thumbs!CacheForgets,
         Thumbs!serverRest, Thumbs!cardRest,
         Thumbs!buttonRest
<1>3. CASE Thumbs!Mount
    BY <1>3, ThumbsBounds DEF Thumbs!Mount, Thumbs!serverRest, Thumbs!buttonRest
<1>4. CASE Thumbs!Unmount
    BY <1>4, ThumbsBounds DEF Thumbs!Unmount, Thumbs!serverRest, Thumbs!buttonRest
<1>5. CASE Thumbs!ComesIntoView
    BY <1>5, ThumbsBounds DEF Thumbs!ComesIntoView, Thumbs!serverRest, Thumbs!buttonRest
<1>6. CASE Thumbs!CardAsks
  <2>1. (/\ v1 \in Thumbs!Version /\ v2 \in 0..Cardinality(Buttons) /\ v3 \in 0..MaxDrops
         /\ v4 \subseteq Thumbs!Entry /\ Cardinality(v4) <= 1
            /\ v7 \in [Buttons -> Thumbs!Stages])'
      BY ThumbsCounts, ThumbsFinite, <1>6, ThumbsBounds DEF Thumbs!CardAsks, Thumbs!serverRest,
         Thumbs!buttonRest,
         Thumbs!Get, Thumbs!Start, Thumbs!InFlight, Thumbs!Waiting
  <2>6. (/\ v5 \in Seq(Thumbs!Gets \cup Thumbs!Polls)
        /\ DOMAIN v6 \subseteq Thumbs!Gets \cup Thumbs!Polls
         /\ Cardinality(DOMAIN v6) <= MaxActive)'
      BY ThumbsCounts DEF Thumbs!RequestsFit
  <2>10. (/\ v8 \in [Buttons -> Thumbs!Version \cup {Thumbs!Unread} \cup (0..MaxDrops)]
          /\ v9 \in Thumbs!Version /\ v10 \in {"card", "collage", "row"}
          /\ v11 \in {"away", "out", "timer", "waits", "rests"} /\ v12 \in 0..MaxDrops
          /\ v13 \subseteq Thumbs!Entry)'
      BY <1>6, ThumbsBounds DEF Thumbs!CardAsks, Thumbs!serverRest, Thumbs!buttonRest,
         Thumbs!Get, Thumbs!Start, Thumbs!InFlight, Thumbs!Waiting
  <2>16. (v14 \in BOOLEAN)'
      BY <1>6, ThumbsBounds DEF Thumbs!CardAsks, Thumbs!serverRest, Thumbs!buttonRest,
         Thumbs!Get, Thumbs!Start, Thumbs!InFlight, Thumbs!Waiting
  <2> QED
      BY ThumbsCounts, ThumbsFinite, <2>1, <2>6, <2>10, <2>16
<1>7. ASSUME NEW t \in DOMAIN v6, Thumbs!ServerReads(t)
      PROVE  Thumbs!TypeOK'
    BY <1>7, ThumbsBounds DEF Thumbs!ServerReads, Thumbs!serverRest, Thumbs!cardRest,
       Thumbs!buttonRest
<1>8. ASSUME NEW g \in 0..v3, Thumbs!GetAnswered(g)
      PROVE  Thumbs!TypeOK'
  <2>1. (/\ v1 \in Thumbs!Version /\ v2 \in 0..Cardinality(Buttons) /\ v3 \in 0..MaxDrops
         /\ v7 \in [Buttons -> Thumbs!Stages] /\ v9 \in Thumbs!Version
         /\ v10 \in {"card", "collage", "row"})'
      BY ThumbsCounts, ThumbsFinite, <1>8, ThumbsBounds DEF Thumbs!GetAnswered,
         Thumbs!serverRest, Thumbs!Finish,
         Thumbs!Remember, Thumbs!AwaitsIt, Thumbs!Without
  <2>4. (v4 \subseteq Thumbs!Entry)'
    <3> DEFINE e == [version |-> v6[<<"get", g>>], polled |-> FALSE]
    <3> HIDE DEF Thumbs!Entry
    <3>1. v4' = v4 \/ v4' = {e}
        BY <1>8 DEF Thumbs!GetAnswered, Thumbs!Remember, Thumbs!Notified
    <3>2. v4' # v4 => e \in Thumbs!Entry
        BY <1>8 DEF Thumbs!Entry, Thumbs!GetAnswered, Thumbs!RequestsFit, Thumbs!ReadValues,
           Thumbs!Remember, Thumbs!Notified
    <3>3. v4 \subseteq Thumbs!Entry
        OBVIOUS
    <3> HIDE DEF e
    <3> QED
        BY <3>1, <3>2, <3>3, CardThumb
  <2>5. (Cardinality(v4) <= 1)'
    <3> DEFINE e == [version |-> v6[<<"get", g>>], polled |-> FALSE]
    <3> HIDE DEF Thumbs!Entry
    <3>1. v4' = v4 \/ v4' = {e}
        BY <1>8 DEF Thumbs!GetAnswered, Thumbs!Remember, Thumbs!Notified
    <3>2. v4' # v4 => e \in Thumbs!Entry
        BY <1>8 DEF Thumbs!Entry, Thumbs!GetAnswered, Thumbs!RequestsFit, Thumbs!ReadValues,
           Thumbs!Remember, Thumbs!Notified
    <3>3. v4 \subseteq Thumbs!Entry
        OBVIOUS
    <3>4. Cardinality(v4) <= 1 /\ Cardinality({e}) = 1
        BY ThumbsCounts, ThumbsFinite, CardThumb
    <3> HIDE DEF e, Thumbs!TypeOK
    <3> QED
        BY <3>1, <3>4
  <2>6. (/\ v5 \in Seq(Thumbs!Gets \cup Thumbs!Polls)
        /\ DOMAIN v6 \subseteq Thumbs!Gets \cup Thumbs!Polls
         /\ Cardinality(DOMAIN v6) <= MaxActive)'
      BY ThumbsCounts DEF Thumbs!RequestsFit
  <2>10. (v8 \in [Buttons -> Thumbs!Version \cup {Thumbs!Unread} \cup (0..MaxDrops)])'
    <3>1. v6[<<"get", g>>] \in Thumbs!Version
        BY <1>8 DEF Thumbs!GetAnswered, Thumbs!RequestsFit, Thumbs!ReadValues
    <3> DEFINE e == [version |-> v6[<<"get", g>>], polled |-> FALSE]
    <3>2. v8' = [b \in Buttons |-> IF Thumbs!AwaitsIt(b, g) THEN e.version ELSE v8[b]]
          /\ e.version \in Thumbs!Version
        BY <1>8, <3>1 DEF Thumbs!GetAnswered
    <3> HIDE DEF e
    <3> QED
        BY <3>2
  <2>13. (/\ v11 \in {"away", "out", "timer", "waits", "rests"} /\ v12 \in 0..MaxDrops
          /\ v14 \in BOOLEAN)'
      BY <1>8, ThumbsBounds DEF Thumbs!GetAnswered, Thumbs!serverRest, Thumbs!Finish,
         Thumbs!Remember, Thumbs!AwaitsIt, Thumbs!Without
  <2>15. (v13 \subseteq Thumbs!Entry)'
    <3> DEFINE e == [version |-> v6[<<"get", g>>], polled |-> FALSE]
    <3> HIDE DEF Thumbs!Entry
    <3>1. v13' = v13 \/ v13' = {e}
        BY <1>8 DEF Thumbs!GetAnswered, Thumbs!Remember, Thumbs!Notified
    <3>2. v13' # v13 => e \in Thumbs!Entry
        BY <1>8 DEF Thumbs!Entry, Thumbs!GetAnswered, Thumbs!RequestsFit, Thumbs!ReadValues,
           Thumbs!Remember, Thumbs!Notified
    <3>3. v13 \subseteq Thumbs!Entry
        OBVIOUS
    <3> HIDE DEF e
    <3> QED
        BY <3>1, <3>2, <3>3, CardThumb
  <2> QED
      BY ThumbsCounts, ThumbsFinite, <2>1, <2>4, <2>5, <2>6, <2>10, <2>13, <2>15
<1>9. ASSUME NEW g \in 0..v3, Thumbs!GetFails(g)
      PROVE  Thumbs!TypeOK'
  <2>1. (/\ v1 \in Thumbs!Version /\ v2 \in 0..Cardinality(Buttons) /\ v3 \in 0..MaxDrops
         /\ v4 \subseteq Thumbs!Entry /\ Cardinality(v4) <= 1
            /\ v7 \in [Buttons -> Thumbs!Stages])'
      BY ThumbsCounts, ThumbsFinite, <1>9, ThumbsBounds DEF Thumbs!GetFails, Thumbs!serverRest,
         Thumbs!Finish,
         Thumbs!AwaitsIt, Thumbs!Without
  <2>6. (/\ v5 \in Seq(Thumbs!Gets \cup Thumbs!Polls)
        /\ DOMAIN v6 \subseteq Thumbs!Gets \cup Thumbs!Polls
         /\ Cardinality(DOMAIN v6) <= MaxActive)'
      BY ThumbsCounts DEF Thumbs!RequestsFit
  <2>10. (/\ v8 \in [Buttons -> Thumbs!Version \cup {Thumbs!Unread} \cup (0..MaxDrops)]
          /\ v9 \in Thumbs!Version /\ v10 \in {"card", "collage", "row"}
          /\ v11 \in {"away", "out", "timer", "waits", "rests"} /\ v12 \in 0..MaxDrops
          /\ v13 \subseteq Thumbs!Entry)'
      BY <1>9, ThumbsBounds DEF Thumbs!GetFails, Thumbs!serverRest, Thumbs!Finish,
         Thumbs!AwaitsIt, Thumbs!Without
  <2>16. (v14 \in BOOLEAN)'
      BY <1>9, ThumbsBounds DEF Thumbs!GetFails, Thumbs!serverRest, Thumbs!Finish,
         Thumbs!AwaitsIt, Thumbs!Without
  <2> QED
      BY ThumbsCounts, ThumbsFinite, <2>1, <2>6, <2>10, <2>16
<1>10. ASSUME NEW b \in Buttons, Thumbs!Press(b)
      PROVE  Thumbs!TypeOK'
  <2>1. (v5 \in Seq(Thumbs!Gets \cup Thumbs!Polls)
        /\ DOMAIN v6 \subseteq Thumbs!Gets \cup Thumbs!Polls
            /\ Cardinality(DOMAIN v6) <= MaxActive)'
      BY ThumbsCounts DEF Thumbs!RequestsFit
  <2>2. v7' \in [Buttons -> Thumbs!Stages]
      BY <1>10 DEF Thumbs!Press
  <2>3. v8' \in [Buttons -> Thumbs!Version \cup {Thumbs!Unread} \cup (0..MaxDrops)]
    <3>1. CASE v4 # {}
      <4> DEFINE e == CHOOSE e \in v4 : TRUE
      <4>1. e \in Thumbs!Entry
          BY <3>1
      <4>2. e.version \in Thumbs!Version
          BY <4>1
      <4>3. v8' = [v8 EXCEPT ![b] = e.version]
          BY <1>10, <3>1 DEF Thumbs!Press
      <4> HIDE DEF e
      <4> QED
          BY <4>2, <4>3
    <3>2. CASE v4 = {}
        BY <1>10, <3>2 DEF Thumbs!Press
    <3> QED
        BY <3>1, <3>2
  <2> QED
      BY ThumbsCounts, ThumbsFinite, <1>10, <2>1, <2>2, <2>3 DEF Thumbs!Press,
         Thumbs!serverRest, Thumbs!cardRest
<1>11. ASSUME NEW b \in Buttons, Thumbs!RecalculatedNow(b)
      PROVE  Thumbs!TypeOK'
  <2>3. (v3 \in 0..MaxDrops)'
    <3> HIDE DEF Thumbs!TypeOK
    <3>1. Cardinality(Thumbs!Remaking') \in Nat
        BY ThumbsBounds, FS_Subset, FS_CardinalityType DEF Thumbs!Remaking
    <3> QED
        BY ThumbsCounts, ThumbsFinite, <3>1, ThumbsBounds DEF Thumbs!DropsFit
  <2>5. (Cardinality(v4) <= 1)'
      BY CardThumb, <1>11 DEF Thumbs!RecalculatedNow, Thumbs!Drop
  <2> QED
      BY ThumbsCounts, ThumbsFinite, <1>11, <2>3, <2>5, ThumbsBounds DEF Thumbs!RecalculatedNow,
         Thumbs!Notified,
         Thumbs!Drop, Thumbs!Mounted, Thumbs!Follows
<1>12. ASSUME NEW b \in Buttons, Thumbs!RecalculationQueued(b)
      PROVE  Thumbs!TypeOK'
  <2>2. (v2 \in 0..Cardinality(Buttons))'
      BY ThumbsCounts, ThumbsFinite, <1>12, ThumbsBounds, FS_CardinalityType
         DEF Thumbs!RecalculationQueued
  <2>3. (v3 \in 0..MaxDrops)'
    <3> HIDE DEF Thumbs!TypeOK
    <3>1. Cardinality(Thumbs!Remaking') \in Nat
        BY ThumbsBounds, FS_Subset, FS_CardinalityType DEF Thumbs!Remaking
    <3> QED
        BY ThumbsCounts, ThumbsFinite, <3>1, ThumbsBounds DEF Thumbs!DropsFit
  <2>5. (Cardinality(v4) <= 1)'
      BY CardThumb, <1>12 DEF Thumbs!RecalculationQueued, Thumbs!Drop
  <2> QED
      BY ThumbsCounts, ThumbsFinite, <1>12, <2>2, <2>3, <2>5, ThumbsBounds
         DEF Thumbs!RecalculationQueued, Thumbs!cardRest,
         Thumbs!Drop
<1>13. ASSUME NEW b \in Buttons, Thumbs!RecalculationFails(b)
      PROVE  Thumbs!TypeOK'
    BY <1>13, ThumbsBounds DEF Thumbs!RecalculationFails, Thumbs!serverRest, Thumbs!cardRest
<1>14. ASSUME NEW b \in Buttons, Thumbs!PollStarts(b)
      PROVE  Thumbs!TypeOK'
  <2>6. (/\ v5 \in Seq(Thumbs!Gets \cup Thumbs!Polls) /\ Cardinality(DOMAIN v6) <= MaxActive)'
      BY ThumbsCounts DEF Thumbs!RequestsFit
  <2> QED
      BY ThumbsCounts, ThumbsFinite, <1>14, <2>6, ThumbsBounds DEF Thumbs!PollStarts,
         Thumbs!serverRest, Thumbs!cardRest,
         Thumbs!Start
<1>15. ASSUME NEW b \in Buttons, Thumbs!PollAnswered(b)
      PROVE  Thumbs!TypeOK'
  <2>1. (/\ v1 \in Thumbs!Version /\ v2 \in 0..Cardinality(Buttons) /\ v3 \in 0..MaxDrops
         /\ v7 \in [Buttons -> Thumbs!Stages]
         /\ v8 \in [Buttons -> Thumbs!Version \cup {Thumbs!Unread} \cup (0..MaxDrops)]
         /\ v9 \in Thumbs!Version)'
      BY ThumbsCounts, ThumbsFinite, <1>15, ThumbsBounds DEF Thumbs!PollAnswered,
         Thumbs!serverRest, Thumbs!cardRest,
         Thumbs!Finish, Thumbs!Notified,
         Thumbs!Regenerated, Thumbs!Without, Thumbs!Mounted, Thumbs!Follows
  <2>4. (v4 \subseteq Thumbs!Entry)'
    <3> DEFINE e == [version |-> v6[<<"poll", b>>], polled |-> TRUE]
    <3> HIDE DEF Thumbs!Entry
    <3>1. v4' = v4 \/ v4' = {e}
        BY <1>15 DEF Thumbs!PollAnswered, Thumbs!Remember, Thumbs!Notified
    <3>2. v4' # v4 => e \in Thumbs!Entry
        BY <1>15 DEF Thumbs!Entry, Thumbs!PollAnswered, Thumbs!RequestsFit, Thumbs!ReadValues,
           Thumbs!Remember, Thumbs!Notified
    <3>3. v4 \subseteq Thumbs!Entry
        OBVIOUS
    <3> HIDE DEF e
    <3> QED
        BY <3>1, <3>2, <3>3, CardThumb
  <2>5. (Cardinality(v4) <= 1)'
    <3> DEFINE e == [version |-> v6[<<"poll", b>>], polled |-> TRUE]
    <3> HIDE DEF Thumbs!Entry
    <3>1. v4' = v4 \/ v4' = {e}
        BY <1>15 DEF Thumbs!PollAnswered, Thumbs!Remember, Thumbs!Notified
    <3>2. v4' # v4 => e \in Thumbs!Entry
        BY <1>15 DEF Thumbs!Entry, Thumbs!PollAnswered, Thumbs!RequestsFit, Thumbs!ReadValues,
           Thumbs!Remember, Thumbs!Notified
    <3>3. v4 \subseteq Thumbs!Entry
        OBVIOUS
    <3>4. Cardinality(v4) <= 1 /\ Cardinality({e}) = 1
        BY ThumbsCounts, ThumbsFinite, CardThumb
    <3> HIDE DEF e, Thumbs!TypeOK
    <3> QED
        BY <3>1, <3>4
  <2>6. (/\ v5 \in Seq(Thumbs!Gets \cup Thumbs!Polls)
        /\ DOMAIN v6 \subseteq Thumbs!Gets \cup Thumbs!Polls
         /\ Cardinality(DOMAIN v6) <= MaxActive)'
      BY ThumbsCounts DEF Thumbs!RequestsFit
  <2>12. (/\ v10 \in {"card", "collage", "row"}
          /\ v11 \in {"away", "out", "timer", "waits", "rests"} /\ v12 \in 0..MaxDrops
          /\ v13 \subseteq Thumbs!Entry /\ v14 \in BOOLEAN)'
      BY <1>15, ThumbsBounds DEF Thumbs!PollAnswered, Thumbs!serverRest, Thumbs!cardRest,
         Thumbs!Finish, Thumbs!Notified,
         Thumbs!Regenerated, Thumbs!Without, Thumbs!Mounted, Thumbs!Follows
  <2> QED
      BY ThumbsCounts, ThumbsFinite, <2>1, <2>4, <2>5, <2>6, <2>12
<1>16. ASSUME NEW b \in Buttons, Thumbs!PollFails(b)
      PROVE  Thumbs!TypeOK'
  <2>1. (/\ v1 \in Thumbs!Version /\ v2 \in 0..Cardinality(Buttons) /\ v3 \in 0..MaxDrops
         /\ v4 \subseteq Thumbs!Entry /\ Cardinality(v4) <= 1
            /\ v7 \in [Buttons -> Thumbs!Stages])'
      BY ThumbsCounts, ThumbsFinite, <1>16, ThumbsBounds DEF Thumbs!PollFails,
         Thumbs!serverRest, Thumbs!cardRest,
         Thumbs!Finish, Thumbs!Without
  <2>6. (/\ v5 \in Seq(Thumbs!Gets \cup Thumbs!Polls)
        /\ DOMAIN v6 \subseteq Thumbs!Gets \cup Thumbs!Polls
         /\ Cardinality(DOMAIN v6) <= MaxActive)'
      BY ThumbsCounts DEF Thumbs!RequestsFit
  <2>10. (/\ v8 \in [Buttons -> Thumbs!Version \cup {Thumbs!Unread} \cup (0..MaxDrops)]
          /\ v9 \in Thumbs!Version /\ v10 \in {"card", "collage", "row"}
          /\ v11 \in {"away", "out", "timer", "waits", "rests"} /\ v12 \in 0..MaxDrops
          /\ v13 \subseteq Thumbs!Entry)'
      BY <1>16, ThumbsBounds DEF Thumbs!PollFails, Thumbs!serverRest, Thumbs!cardRest,
         Thumbs!Finish, Thumbs!Without
  <2>16. (v14 \in BOOLEAN)'
      BY <1>16, ThumbsBounds DEF Thumbs!PollFails, Thumbs!serverRest, Thumbs!cardRest,
         Thumbs!Finish, Thumbs!Without
  <2> QED
      BY ThumbsCounts, ThumbsFinite, <2>1, <2>6, <2>10, <2>16
<1>17. CASE UNCHANGED Thumbs!thumbVars
    BY <1>17, ThumbsBounds DEF Thumbs!thumbVars
<1> QED
    BY <1>1, <1>2, <1>3, <1>4, <1>5, <1>6, <1>7, <1>8, <1>9, <1>10, <1>11, <1>12,
       <1>13, <1>14, <1>15, <1>16, <1>17 DEF Thumbs!Next

-----------------------------------------------------------------------------
(* ItemReactions: v1 onPage, v2 target, v3 likes, v4 overrides, v5 bar, v6 *)
(* inSheet, v7 inBar, v8 presses, v9 orderly, v10 overridden, v11 data,    *)
(* v12 strayed.                                                            *)

\* The first states have their types.
LEMMA ReactionsTypesStart == Reactions!Init /\ Reactions!LikesInv => Reactions!TypeOK
    BY ReactionsBounds DEF Reactions!Init, Reactions!LikesInv, Reactions!LikesFit, Reactions!TypeOK

\* Every step keeps the types.
LEMMA ReactionsTypesKept ==
    Reactions!TypeOK /\ [Reactions!Next]_(Reactions!likeVars) /\ Reactions!LikesInv'
    => Reactions!TypeOK'
<1> SUFFICES ASSUME Reactions!TypeOK, [Reactions!Next]_(Reactions!likeVars), Reactions!LikesInv'
             PROVE  Reactions!TypeOK'
    OBVIOUS
<1>1. v8' \in 0..MaxPresses
    BY ReactionsBounds DEF Reactions!TypeOK, Reactions!Next, Reactions!Navigate,
       Reactions!OpenSidebar, Reactions!PressInSheet, Reactions!PressInBar,
       Reactions!ServerTakesSheet, Reactions!ServerTakesBar,
       Reactions!SheetConfirmed, Reactions!BarConfirmed, Reactions!SheetFails,
       Reactions!BarFails, Reactions!likeVars
<1> QED
    BY <1>1 DEF Reactions!TypeOK, Reactions!LikesInv, Reactions!LikesFit

-----------------------------------------------------------------------------
(* ItemPanel: v1 target, v2 tab, v3 open, v4 preview, v5 names, v6 asking, *)
(* v7 author, v8 awaited, v9 unfolded, v10 attached, v11 fetches, v12      *)
(* edits, v13 queries, v14 editsFailed, v15 chores.                        *)

\* A query that is no longer live is still a query.
LEMMA OthersFit ==
    ASSUME NEW q \in Panel!Queries PROVE [q EXCEPT !.live = FALSE] \in Panel!Queries
    BY DEF Panel!Queries

\* The effect of the tab of edits adds queries only.
LEMMA EditsFit ==
    ASSUME v13 \subseteq Panel!Queries, NEW t, NEW on, on => t \in Panel!Targets, NEW was,
           NEW anew, Panel!EditsEffect(t, on, was, anew)
    PROVE  v13' \subseteq Panel!Queries
<1>1. on => [of |-> t, live |-> TRUE] \in Panel!Queries
    BY DEF Panel!Queries
<1>2. {[q EXCEPT !.live = FALSE] : q \in v13} \subseteq Panel!Queries
    BY OthersFit
<1> QED
    BY <1>1, <1>2 DEF Panel!EditsEffect

\* The first states have their types.
LEMMA PanelTypesStart == Panel!Init => Panel!TypeOK
<1> SUFFICES ASSUME Panel!Init PROVE Panel!TypeOK
    OBVIOUS
<1> USE DEF Panel!TypeOK, Panel!Shown, Panel!Queries, Panel!ForFolders, Panel!ForMaterials,
    Panel!Targets
<1> QED
    BY PanelBounds DEF Panel!Init

\* Every step keeps the types.
LEMMA PanelTypesKept == Panel!TypeOK /\ [Panel!Next]_(Panel!panelVars) => Panel!TypeOK'
<1> SUFFICES ASSUME Panel!TypeOK, [Panel!Next]_(Panel!panelVars)
             PROVE  Panel!TypeOK'
    OBVIOUS
<1> USE DEF Panel!TypeOK, Panel!Shown, Panel!Queries, Panel!ForFolders, Panel!ForMaterials,
    Panel!Targets
<1>1. ASSUME NEW i \in Panel!Targets, NEW p \in BOOLEAN, Panel!Navigate(i, p)
      PROVE  Panel!TypeOK'
  <2>13. (v13 \subseteq Panel!Queries)'
    <3> HIDE DEF Panel!Queries, Panel!Targets
    <3> QED
      BY <1>1, EditsFit DEF Panel!Navigate, Panel!Show
  <2> QED
      BY <1>1, <2>13, PanelBounds DEF Panel!Navigate, Panel!Show, Panel!Fallback,
         Panel!Detailed, Panel!Edited, Panel!AuthorEffect, Panel!AttachmentsEffect,
         Panel!EditsEffect
<1>2. ASSUME NEW i \in Panel!Targets, NEW tb \in {"details", "chat", "edits"},
             Panel!OpenSidebar(i, tb)
      PROVE  Panel!TypeOK'
  <2>13. (v13 \subseteq Panel!Queries)'
    <3> HIDE DEF Panel!Queries, Panel!Targets
    <3> QED
      BY <1>2, EditsFit DEF Panel!OpenSidebar, Panel!Show
  <2> QED
      BY <1>2, <2>13, PanelBounds DEF Panel!OpenSidebar, Panel!Show, Panel!InMenu,
         Panel!InToolbar, Panel!InSheet, Panel!Detailed, Panel!Edited, Panel!AuthorEffect,
         Panel!AttachmentsEffect, Panel!EditsEffect
<1>3. CASE Panel!CloseSidebar
    BY <1>3, PanelBounds DEF Panel!CloseSidebar, Panel!Show, Panel!Detailed, Panel!Edited,
       Panel!AuthorEffect,
       Panel!AttachmentsEffect, Panel!EditsEffect
<1>4. ASSUME NEW tb \in {"details", "chat", "edits"}, Panel!SetTab(tb)
      PROVE  Panel!TypeOK'
  <2>13. (v13 \subseteq Panel!Queries)'
    <3>1. Panel!EditsEffect(v1, Panel!Edited(v1, tb, v3), Panel!Edited(v1, v2, v3), FALSE)
        BY <1>4 DEF Panel!SetTab, Panel!Show
    <3> HIDE DEF Panel!Queries, Panel!Targets
    <3>2. v13 \subseteq Panel!Queries /\ (Panel!Edited(v1, tb, v3) => v1 \in Panel!Targets)
        BY DEF Panel!Edited
    <3> HIDE DEF Panel!TypeOK
    <3> QED
      BY <3>1, <3>2, EditsFit
  <2> QED
      BY <1>4, <2>13, PanelBounds DEF Panel!SetTab, Panel!Show, Panel!Fallback, Panel!Detailed,
         Panel!Edited, Panel!AuthorEffect, Panel!AttachmentsEffect, Panel!EditsEffect
<1>5. ASSUME NEW i \in Items, NEW as \in {"known", "unknown"}, Panel!NameResolved(i, as)
      PROVE  Panel!TypeOK'
    BY <1>5, PanelBounds DEF Panel!NameResolved, Panel!Named
<1>6. ASSUME NEW i \in Items, NEW got \in {i, "none"}, Panel!AttachmentsAnswered(i, got)
      PROVE  Panel!TypeOK'
    BY <1>6, PanelBounds DEF Panel!AttachmentsAnswered
<1>7. ASSUME NEW was \in BOOLEAN, Panel!ToggleAttachments(was)
      PROVE  Panel!TypeOK'
    BY <1>7, PanelBounds DEF Panel!ToggleAttachments, Panel!Detailed
<1>8. CASE Panel!RefreshAttachments
    BY <1>8, PanelBounds DEF Panel!RefreshAttachments, Panel!Detailed
<1>9. ASSUME NEW c \in Panel!ForFolders \cup Panel!ForMaterials, Panel!StartChore(c)
      PROVE  Panel!TypeOK'
    BY <1>9, PanelBounds DEF Panel!StartChore, Panel!FolderChore, Panel!MaterialChore,
       Panel!MenuChore, Panel!Detailed
<1>10. ASSUME NEW c \in Panel!ForFolders \cup Panel!ForMaterials, Panel!ChoreDone(c)
      PROVE  Panel!TypeOK'
  <2>13. (v13 \subseteq Panel!Queries)'
    <3>1. Panel!EditsEffect(v1, Panel!Edited(v1, v2, v3), Panel!Edited(v1, v2, v3),
          c # "thumbnail")
        BY <1>10 DEF Panel!ChoreDone, Panel!Show
    <3> HIDE DEF Panel!Queries, Panel!Targets
    <3>2. v13 \subseteq Panel!Queries /\ (Panel!Edited(v1, v2, v3) => v1 \in Panel!Targets)
        BY DEF Panel!Edited
    <3> HIDE DEF Panel!TypeOK
    <3> QED
      BY <3>1, <3>2, EditsFit
  <2> QED
      BY <1>10, <2>13, PanelBounds DEF Panel!ChoreDone, Panel!Show, Panel!Detailed,
         Panel!Edited, Panel!AuthorEffect, Panel!AttachmentsEffect, Panel!EditsEffect
<1>11. ASSUME NEW c \in Panel!ForFolders \cup Panel!ForMaterials, NEW badge \in BOOLEAN,
              Panel!ChoreFails(c, badge)
      PROVE  Panel!TypeOK'
  <2>13. (v13 \subseteq Panel!Queries)'
    <3>1. Panel!EditsEffect(v1, Panel!Edited(v1, v2, v3), Panel!Edited(v1, v2, v3), badge)
        BY <1>11 DEF Panel!ChoreFails, Panel!Show
    <3> HIDE DEF Panel!Queries, Panel!Targets
    <3>2. v13 \subseteq Panel!Queries /\ (Panel!Edited(v1, v2, v3) => v1 \in Panel!Targets)
        BY DEF Panel!Edited
    <3> HIDE DEF Panel!TypeOK
    <3> QED
      BY <3>1, <3>2, EditsFit
  <2> QED
      BY <1>11, <2>13, PanelBounds DEF Panel!ChoreFails, Panel!Show, Panel!Detailed,
         Panel!Edited, Panel!AuthorEffect, Panel!AttachmentsEffect, Panel!EditsEffect
<1>12. CASE Panel!BadgeStatus
  <2>13. (v13 \subseteq Panel!Queries)'
    <3> HIDE DEF Panel!Queries, Panel!Targets
    <3> QED
      BY <1>12, EditsFit DEF Panel!BadgeStatus, Panel!Show
  <2> QED
      BY <1>12, <2>13, PanelBounds DEF Panel!BadgeStatus, Panel!Show, Panel!Detailed,
         Panel!Edited, Panel!AuthorEffect, Panel!AttachmentsEffect, Panel!EditsEffect
<1>13. ASSUME NEW q \in v13, Panel!EditsAnswered(q)
      PROVE  Panel!TypeOK'
    BY <1>13, PanelBounds DEF Panel!EditsAnswered
<1>14. ASSUME NEW q \in v13, Panel!EditsFail(q)
      PROVE  Panel!TypeOK'
    BY <1>14, PanelBounds DEF Panel!EditsFail
<1>15. CASE UNCHANGED Panel!panelVars
    BY <1>15, PanelBounds DEF Panel!panelVars
<1> QED
    BY <1>1, <1>2, <1>3, <1>4, <1>5, <1>6, <1>7, <1>8, <1>9, <1>10, <1>11, <1>12,
       <1>13, <1>14, <1>15 DEF Panel!Next

-----------------------------------------------------------------------------
(* ItemMenu: v1 kind, v2 restricted, v3 role, v4 place, v5 mounted, v6     *)
(* arming, v7 popup, v8 deleting, v9 drafted, v10 downloading, v11         *)
(* printing, v12 remaking, v13 zips, v14 visit, v15 cancelled.             *)

\* Nothing is archived at first, and the archives of a folder have their types then.
LEMMA ZipsStart ==
    /\ 1 \in Menu!Visits
    /\ Menu!NoZip \in [phase : {"idle", "asked", "waits", "cools"}, parts : 0..MaxParts,
       started : 0..MaxParts]
    BY MenuBounds DEF Menu!NoZip, Menu!Visits

\* The first states have their types.
LEMMA MenuTypesStart == Menu!Init => Menu!TypeOK
<1> SUFFICES ASSUME Menu!Init PROVE Menu!TypeOK
    OBVIOUS
<1>1. /\ v1 \in {"file", "quiz", "folder"} /\ v2 \in {"no", "created", "preview"}
      /\ v3 \in {"guest", "member", "staff"} /\ v4 \in {"row", "page"}
    BY DEF Menu!Init
<1>2. /\ v5 \in BOOLEAN /\ v6 \in {"cold", "soon", "ready"}
      /\ v7 \in {"none", "delete", "edit"} /\ v8 \in BOOLEAN
      /\ v9 \in {"none", "create", "delete"}
    BY DEF Menu!Init
<1>3. v10 \in BOOLEAN /\ v11 \in BOOLEAN /\ v12 \in BOOLEAN
    BY DEF Menu!Init
<1>4. v13 \in [Menu!Visits -> [phase : {"idle", "asked", "waits", "cools"},
      parts : 0..MaxParts, started : 0..MaxParts]]
    BY ZipsStart DEF Menu!Init
<1>5. v14 \in Menu!Visits /\ v15 \in [Menu!Visits -> BOOLEAN]
    BY ZipsStart DEF Menu!Init
<1> QED
    BY <1>1, <1>2, <1>3, <1>4, <1>5 DEF Menu!TypeOK

\* A folder that was not asked for, one that was, and one that is not sent on
\* are archived as they should be.
LEMMA ArchivedAtRest ==
    /\ Menu!NoZip \in Menu!Archived /\ [Menu!NoZip EXCEPT !.phase = "asked"] \in Menu!Archived
    /\ \A z \in Menu!Archived : Menu!Stopped(z) \in Menu!Archived
    BY MenuBounds DEF Menu!NoZip, Menu!Archived, Menu!Stopped

\* What is left of a folder in parts may be sent, or not.
LEMMA ArchivedInParts ==
    ASSUME NEW z \in [phase : {"idle", "asked", "waits", "cools"}, parts : 0..MaxParts,
           started : 0..MaxParts],
           z.started < z.parts
    PROVE  /\ Menu!Started(z) \in Menu!Archived
           /\ Menu!Stopped(z) \in Menu!Archived
<1>1. z.started + 1 \in 0..MaxParts /\ (z.started + 1 # z.parts => z.started + 1 < z.parts)
    BY MenuBounds
<1> QED
    BY <1>1 DEF Menu!Started, Menu!Stopped, Menu!Archived

\* What is not about the archives leaves them alone.
LEMMA ArchivesAlone ==
    ASSUME [Menu!Next]_(Menu!menuVars),
           ~Menu!DownloadDirectory,
           \A v \in Menu!Visits : /\ ~Menu!ChunksFail(v) /\ ~Menu!NextPart(v) /\ ~Menu!Cooled(v)
                                 /\ \A n \in 1..MaxParts : ~Menu!ChunksAnswered(v, n)
    PROVE  UNCHANGED v13
<1>1. CASE UNCHANGED Menu!menuVars
    BY <1>1 DEF Menu!menuVars
<1>2. ASSUME NEW p \in {"delete", "edit"}, Menu!OpenDialog(p)
      PROVE  UNCHANGED v13
    BY <1>2 DEF Menu!OpenDialog, Menu!Asks, Menu!Zips
<1>3. ASSUME Menu!PointerEnters \/ Menu!PointerLeaves \/ Menu!Arm \/ Menu!Unmount
             \/ Menu!Remount \/ Menu!CloseDialog \/ Menu!DraftDelete \/ Menu!SheetDelete
             \/ Menu!DirectDelete \/ Menu!DirectDeleteEnds
      PROVE  UNCHANGED v13
    BY <1>3 DEF Menu!PointerEnters, Menu!PointerLeaves, Menu!Arm, Menu!Unmount, Menu!Remount,
       Menu!CloseDialog, Menu!DraftDelete, Menu!SheetDelete,
       Menu!DirectDelete, Menu!DirectDeleteEnds, Menu!Asks, Menu!Zips
<1>4. ASSUME Menu!Download \/ Menu!Downloaded \/ Menu!PrintFile \/ Menu!Printed
             \/ Menu!RecalculateThumbnail \/ Menu!ThumbnailRecalculated
      PROVE  UNCHANGED v13
    BY <1>4 DEF Menu!Download, Menu!Downloaded, Menu!PrintFile, Menu!Printed,
       Menu!RecalculateThumbnail, Menu!ThumbnailRecalculated, Menu!Zips
<1> QED
    BY <1>1, <1>2, <1>3, <1>4 DEF Menu!Next

\* No archive has parts at first.
LEMMA PartsStart == Menu!Init => Menu!PartsRemain
    BY ArchivedAtRest DEF Menu!Init, Menu!PartsRemain

\* Every step keeps the archives as they should be: none waits where no part
\* is left.
LEMMA ArchivesStep ==
    ASSUME Menu!TypeOK, Menu!PartsRemain, [Menu!Next]_(Menu!menuVars)
    PROVE  Menu!PartsRemain'
<1>1. v13 \in [Menu!Visits -> Menu!Archived] /\ v14 \in Menu!Visits
    BY DEF Menu!TypeOK, Menu!PartsRemain
<1>2. ASSUME NEW v \in Menu!Visits, NEW z \in Menu!Archived, Menu!Zip(v, z)
      PROVE  Menu!PartsRemain'
    BY <1>1, <1>2 DEF Menu!Zip, Menu!PartsRemain
<1>3. CASE Menu!DownloadDirectory
    BY <1>1, <1>2, <1>3, ArchivedAtRest DEF Menu!DownloadDirectory
<1>4. ASSUME NEW v \in Menu!Visits, NEW n \in 1..MaxParts, Menu!ChunksAnswered(v, n)
      PROVE  Menu!PartsRemain'
  <2> DEFINE asked == [v13[v] EXCEPT !.parts = n]
  <2>1. asked \in [phase : {"idle", "asked", "waits", "cools"}, parts : 0..MaxParts,
        started : 0..MaxParts] /\ asked.started < asked.parts
    <3>1. v13[v] \in Menu!Archived /\ v13[v].phase = "asked"
        BY <1>1, <1>4 DEF Menu!ChunksAnswered
    <3> QED
        BY <3>1, MenuBounds DEF Menu!Archived
  <2>2. Menu!Zip(v, Menu!Stopped(asked)) \/ Menu!Zip(v, Menu!Started(asked))
      BY <1>4 DEF Menu!ChunksAnswered
  <2> HIDE DEF asked
  <2> QED
      BY <1>2, <2>1, <2>2, ArchivedInParts
<1>5. ASSUME NEW v \in Menu!Visits, Menu!ChunksFail(v) \/ Menu!Cooled(v)
      PROVE  Menu!PartsRemain'
    BY <1>1, <1>2, <1>5, ArchivedAtRest DEF Menu!ChunksFail, Menu!Cooled
<1>6. ASSUME NEW v \in Menu!Visits, Menu!NextPart(v)
      PROVE  Menu!PartsRemain'
  <2>1. v13[v] \in Menu!Archived /\ v13[v].phase = "waits"
      BY <1>1, <1>6 DEF Menu!NextPart
  <2>2. v13[v] \in [phase : {"idle", "asked", "waits", "cools"}, parts : 0..MaxParts,
        started : 0..MaxParts] /\ v13[v].started < v13[v].parts
      BY <2>1 DEF Menu!Archived
  <2>3. Menu!Zip(v, Menu!Stopped(v13[v])) \/ Menu!Zip(v, Menu!Started(v13[v]))
      BY <1>6 DEF Menu!NextPart
  <2> QED
      BY <1>2, <2>2, <2>3, ArchivedInParts
<1>7. CASE UNCHANGED v13
    BY <1>1, <1>7 DEF Menu!PartsRemain
<1> QED
    BY <1>3, <1>4, <1>5, <1>6, <1>7, ArchivesAlone

\* Every step keeps the visits and their refs in their types.
LEMMA VisitsStep ==
    ASSUME Menu!TypeOK, [Menu!Next]_(Menu!menuVars)
    PROVE  v14' \in Menu!Visits /\ v15' \in [Menu!Visits -> BOOLEAN]
<1>0. v14 \in Menu!Visits /\ v15 \in [Menu!Visits -> BOOLEAN]
    BY DEF Menu!TypeOK
<1>1. CASE UNCHANGED <<v14, v15>>
    BY <1>0, <1>1
<1>2. CASE Menu!Unmount
    BY <1>0, <1>2 DEF Menu!Unmount
<1>3. CASE Menu!Remount
    BY <1>0, <1>3, MenuBounds DEF Menu!Remount, Menu!Visits
<1>4. CASE Menu!DownloadDirectory
    BY <1>0, <1>4 DEF Menu!DownloadDirectory, Menu!ResetRef, Menu!Zip
<1>5. ASSUME NEW v \in Menu!Visits, Menu!ChunksFail(v) \/ Menu!NextPart(v) \/ Menu!Cooled(v)
             \/ \E n \in 1..MaxParts : Menu!ChunksAnswered(v, n)
      PROVE  UNCHANGED <<v14, v15>>
    BY <1>5 DEF Menu!ChunksFail, Menu!NextPart, Menu!Cooled, Menu!ChunksAnswered, Menu!Zip
<1>6. ASSUME NEW p \in {"delete", "edit"}, Menu!OpenDialog(p)
      PROVE  UNCHANGED <<v14, v15>>
    BY <1>6 DEF Menu!OpenDialog, Menu!Asks, Menu!Zips
<1>7. ASSUME Menu!PointerEnters \/ Menu!PointerLeaves \/ Menu!Arm
             \/ Menu!CloseDialog \/ Menu!DraftDelete \/ Menu!SheetDelete
             \/ Menu!DirectDelete \/ Menu!DirectDeleteEnds
      PROVE  UNCHANGED <<v14, v15>>
    BY <1>7 DEF Menu!PointerEnters, Menu!PointerLeaves, Menu!Arm,
       Menu!CloseDialog, Menu!DraftDelete, Menu!SheetDelete,
       Menu!DirectDelete, Menu!DirectDeleteEnds, Menu!Asks, Menu!Zips
<1>8. ASSUME Menu!Download \/ Menu!Downloaded \/ Menu!PrintFile \/ Menu!Printed
             \/ Menu!RecalculateThumbnail \/ Menu!ThumbnailRecalculated
      PROVE  UNCHANGED <<v14, v15>>
    BY <1>8 DEF Menu!Download, Menu!Downloaded, Menu!PrintFile, Menu!Printed,
       Menu!RecalculateThumbnail, Menu!ThumbnailRecalculated, Menu!Zips
<1>9. CASE UNCHANGED Menu!menuVars
    BY <1>1, <1>9 DEF Menu!menuVars
<1> QED
    BY <1>1, <1>2, <1>3, <1>4, <1>5, <1>6, <1>7, <1>8, <1>9 DEF Menu!Next

\* Every step keeps what is known of the item, and its menu, in their types.
LEMMA ItemStep ==
    ASSUME Menu!TypeOK, [Menu!Next]_(Menu!menuVars)
    PROVE  /\ v1' \in {"file", "quiz", "folder"} /\ v2' \in {"no", "created", "preview"}
           /\ v3' \in {"guest", "member", "staff"} /\ v4' \in {"row", "page"}
           /\ v5' \in BOOLEAN /\ v6' \in {"cold", "soon", "ready"}
           /\ v7' \in {"none", "delete", "edit"}
<1>0. /\ v1 \in {"file", "quiz", "folder"} /\ v2 \in {"no", "created", "preview"}
      /\ v3 \in {"guest", "member", "staff"} /\ v4 \in {"row", "page"}
      /\ v5 \in BOOLEAN /\ v6 \in {"cold", "soon", "ready"}
      /\ v7 \in {"none", "delete", "edit"}
    BY DEF Menu!TypeOK
<1>1. CASE UNCHANGED <<v1, v2, v3, v4, v5, v6, v7>>
    BY <1>0, <1>1
<1>2. CASE Menu!PointerEnters \/ Menu!PointerLeaves \/ Menu!Arm
    BY <1>0, <1>2 DEF Menu!PointerEnters, Menu!PointerLeaves, Menu!Arm, Menu!Item
<1>3. CASE Menu!Unmount
    BY <1>0, <1>3 DEF Menu!Unmount, Menu!Item
<1>4. CASE Menu!Remount
    BY <1>0, <1>4 DEF Menu!Remount, Menu!Item
<1>5. ASSUME NEW p \in {"delete", "edit"}, Menu!OpenDialog(p)
      PROVE  UNCHANGED <<v1, v2, v3, v4, v5, v6>> /\ v7' = p
    BY <1>5 DEF Menu!OpenDialog, Menu!Item
<1>6. CASE Menu!CloseDialog \/ Menu!DraftDelete \/ Menu!DirectDeleteEnds
  <2>1. UNCHANGED <<v1, v2, v3, v4, v5, v6>> /\ v7' \in {v7, "none"}
      BY <1>6 DEF Menu!CloseDialog, Menu!DraftDelete, Menu!DirectDeleteEnds, Menu!Item
  <2> QED
      BY <1>0, <2>1
<1>7. ASSUME Menu!SheetDelete \/ Menu!DirectDelete \/ Menu!Download \/ Menu!Downloaded
             \/ Menu!PrintFile \/ Menu!Printed \/ Menu!RecalculateThumbnail
             \/ Menu!ThumbnailRecalculated
      PROVE  UNCHANGED <<v1, v2, v3, v4, v5, v6, v7>>
    BY <1>7 DEF Menu!SheetDelete, Menu!DirectDelete, Menu!Download, Menu!Downloaded,
       Menu!PrintFile, Menu!Printed, Menu!RecalculateThumbnail, Menu!ThumbnailRecalculated,
       Menu!Item
<1>8. ASSUME Menu!DownloadDirectory \/ \E v \in Menu!Visits : Menu!ChunksFail(v)
             \/ Menu!NextPart(v) \/ Menu!Cooled(v)
             \/ \E n \in 1..MaxParts : Menu!ChunksAnswered(v, n)
      PROVE  UNCHANGED <<v1, v2, v3, v4, v5, v6, v7>>
    BY <1>8 DEF Menu!DownloadDirectory, Menu!ChunksFail, Menu!NextPart, Menu!Cooled,
       Menu!ChunksAnswered, Menu!Zip, Menu!Item
<1>9. CASE UNCHANGED Menu!menuVars
    BY <1>1, <1>9 DEF Menu!menuVars
<1> QED
    BY <1>0, <1>1, <1>2, <1>3, <1>4, <1>5, <1>6, <1>7, <1>8, <1>9 DEF Menu!Next

\* Every step keeps what is under way for the item in its types.
LEMMA ChoresStep ==
    ASSUME Menu!TypeOK, [Menu!Next]_(Menu!menuVars)
    PROVE  /\ v8' \in BOOLEAN /\ v9' \in {"none", "create", "delete"}
           /\ v10' \in BOOLEAN /\ v11' \in BOOLEAN /\ v12' \in BOOLEAN
<1>0. /\ v8 \in BOOLEAN /\ v9 \in {"none", "create", "delete"}
      /\ v10 \in BOOLEAN /\ v11 \in BOOLEAN /\ v12 \in BOOLEAN
    BY DEF Menu!TypeOK
<1>1. CASE UNCHANGED <<v8, v9, v10, v11, v12>>
    BY <1>0, <1>1
<1>2. ASSUME NEW p \in {"delete", "edit"}, Menu!OpenDialog(p)
      PROVE  UNCHANGED <<v8, v9, v10, v11, v12>>
    BY <1>2 DEF Menu!OpenDialog, Menu!Asks
<1>3. ASSUME Menu!PointerEnters \/ Menu!PointerLeaves \/ Menu!Arm \/ Menu!Unmount
             \/ Menu!CloseDialog
      PROVE  UNCHANGED <<v8, v9, v10, v11, v12>>
    BY <1>3 DEF Menu!PointerEnters, Menu!PointerLeaves, Menu!Arm, Menu!Unmount,
       Menu!CloseDialog, Menu!Asks
<1>4. CASE Menu!Remount
    BY <1>0, <1>4 DEF Menu!Remount
<1>5. CASE Menu!DraftDelete \/ Menu!SheetDelete
    BY <1>0, <1>5 DEF Menu!DraftDelete, Menu!SheetDelete, Menu!Asks
<1>6. CASE Menu!DirectDelete \/ Menu!DirectDeleteEnds
    BY <1>0, <1>6 DEF Menu!DirectDelete, Menu!DirectDeleteEnds, Menu!Asks
<1>7. CASE Menu!Download \/ Menu!Downloaded \/ Menu!PrintFile
    BY <1>0, <1>7 DEF Menu!Download, Menu!Downloaded, Menu!PrintFile
<1>8. CASE Menu!Printed \/ Menu!RecalculateThumbnail \/ Menu!ThumbnailRecalculated
    BY <1>0, <1>8 DEF Menu!Printed, Menu!RecalculateThumbnail, Menu!ThumbnailRecalculated
<1>9. ASSUME Menu!DownloadDirectory \/ \E v \in Menu!Visits : Menu!ChunksFail(v)
             \/ Menu!NextPart(v) \/ Menu!Cooled(v)
             \/ \E n \in 1..MaxParts : Menu!ChunksAnswered(v, n)
      PROVE  UNCHANGED <<v8, v9, v10, v11, v12>>
    BY <1>9 DEF Menu!DownloadDirectory, Menu!ChunksFail, Menu!NextPart, Menu!Cooled,
       Menu!ChunksAnswered, Menu!Zip
<1>10. CASE UNCHANGED Menu!menuVars
    BY <1>1, <1>10 DEF Menu!menuVars
<1> QED
    BY <1>1, <1>2, <1>3, <1>4, <1>5, <1>6, <1>7, <1>8, <1>9, <1>10 DEF Menu!Next

\* Every step keeps the types.
LEMMA MenuTypesKept ==
    Menu!TypeOK /\ [Menu!Next]_(Menu!menuVars) /\ Menu!PartsRemain
    => Menu!TypeOK' /\ Menu!PartsRemain'
<1> SUFFICES ASSUME Menu!TypeOK, [Menu!Next]_(Menu!menuVars), Menu!PartsRemain
             PROVE  Menu!TypeOK' /\ Menu!PartsRemain'
    OBVIOUS
<1>1. Menu!PartsRemain'
    BY ArchivesStep
<1>2. v14' \in Menu!Visits /\ v15' \in [Menu!Visits -> BOOLEAN]
    BY VisitsStep
<1>3. /\ v1' \in {"file", "quiz", "folder"} /\ v2' \in {"no", "created", "preview"}
      /\ v3' \in {"guest", "member", "staff"} /\ v4' \in {"row", "page"}
      /\ v5' \in BOOLEAN /\ v6' \in {"cold", "soon", "ready"}
      /\ v7' \in {"none", "delete", "edit"}
    BY ItemStep
<1>4. /\ v8' \in BOOLEAN /\ v9' \in {"none", "create", "delete"}
      /\ v10' \in BOOLEAN /\ v11' \in BOOLEAN /\ v12' \in BOOLEAN
    BY ChoresStep
<1>5. v13' \in [Menu!Visits -> [phase : {"idle", "asked", "waits", "cools"},
      parts : 0..MaxParts, started : 0..MaxParts]]
    BY <1>1 DEF Menu!PartsRemain, Menu!Archived
<1> QED
    BY <1>1, <1>2, <1>3, <1>4, <1>5 DEF Menu!TypeOK

-----------------------------------------------------------------------------
(* StaffLists: v1 kind, v2 filter, v3 page, v4 cursor, v5 timer, v6 loads, *)
(* v7 loading, v8 listed, v9 of, v10 failed, v11 selected, v12 captured,   *)
(* v13 acts.                                                               *)

\* The first page of a list is a page.
LEMMA ListsFirstPage == 1 \in Lists!Pages
    BY ListsBounds DEF Lists!Pages

\* Asking for a page overtakes and adds loads only.
LEMMA AskingFits ==
    ASSUME Lists!TypeOK
    PROVE  /\ Lists!Overtaken \subseteq Lists!Loads
           /\ \A f \in Lists!Filters, p \in Lists!Pages, act \in BOOLEAN : Lists!Asking(f, p,
              act) \subseteq Lists!Loads
<1>1. \A q \in Lists!Loads : [q EXCEPT !.live = FALSE] \in Lists!Loads
    BY DEF Lists!Loads
<1>2. Lists!Overtaken \subseteq Lists!Loads
    BY <1>1 DEF Lists!TypeOK, Lists!Overtaken
<1>3. ASSUME NEW f \in Lists!Filters, NEW p \in Lists!Pages, NEW act \in BOOLEAN
      PROVE  [filter |-> f, page |-> IF Lists!NamesPage THEN p ELSE 1, live |-> TRUE,
             act |-> act] \in Lists!Loads
    BY ListsFirstPage DEF Lists!Loads
<1> QED
    BY <1>2, <1>3 DEF Lists!Asking

\* The first states have their types.
LEMMA ListsTypesStart == Lists!Init => Lists!TypeOK
<1> SUFFICES ASSUME Lists!Init PROVE Lists!TypeOK
    OBVIOUS
<1>1. v6 \subseteq Lists!Loads
  <2>1. [filter |-> "all", page |-> 1, live |-> TRUE, act |-> FALSE] \in Lists!Loads
      BY ListsFirstPage DEF Lists!Loads, Lists!Filters
  <2> QED
      BY <2>1 DEF Lists!Init
<1>2. v5 \in BOOLEAN
    BY DEF Lists!Init, Lists!Debounced
<1> QED
    BY <1>1, <1>2, ListsFirstPage DEF Lists!Init, Lists!TypeOK, Lists!Filters

\* Every step keeps the types.
LEMMA ListsTypesKept == Lists!TypeOK /\ [Lists!Next]_(Lists!listVars) => Lists!TypeOK'
<1> SUFFICES ASSUME Lists!TypeOK, [Lists!Next]_(Lists!listVars)
             PROVE  Lists!TypeOK'
    OBVIOUS
<1>0. /\ v1 \in Lists!Kinds /\ v2 \in Lists!Filters /\ v3 \in Lists!Pages /\ v4 \in BOOLEAN
         /\ v5 \in BOOLEAN
      /\ v6 \subseteq Lists!Loads /\ v7 \in BOOLEAN /\ v8 \subseteq Rows /\ v9 \in Lists!Filters
      /\ v10 \in BOOLEAN /\ v11 \subseteq Rows /\ v12 \subseteq Rows /\ v13 \subseteq Lists!Acts
    BY DEF Lists!TypeOK
<1> USE DEF Lists!TypeOK, Lists!Loads, Lists!Acts, Lists!Pages
<1>1. ASSUME NEW f \in Lists!Filters, Lists!ChangeFilter(f) PROVE Lists!TypeOK'
  <2>1. v6' \subseteq Lists!Loads
      BY <1>1, AskingFits, ListsFirstPage DEF Lists!ChangeFilter
  <2>2. v3' \in Lists!Pages
      BY <1>0, <1>1, ListsFirstPage DEF Lists!ChangeFilter
  <2>3. v5' \in BOOLEAN
      BY <1>1 DEF Lists!ChangeFilter, Lists!Debounced
  <2> QED
      BY <1>0, <1>1, <2>1, <2>2, <2>3 DEF Lists!ChangeFilter
<1>2. CASE Lists!TimerFires
  <2>1. v6' \subseteq Lists!Loads
      BY <1>0, <1>2, AskingFits DEF Lists!TimerFires
  <2> QED
      BY <1>0, <1>2, <2>1 DEF Lists!TimerFires
<1>3. ASSUME NEW p \in Lists!Pages, Lists!Turn(p) PROVE Lists!TypeOK'
  <2>1. v6' \subseteq Lists!Loads /\ v3' \in Lists!Pages /\ v5' \in BOOLEAN
      BY <1>0, <1>3, AskingFits DEF Lists!Turn, Lists!TurnContent, Lists!TurnAccounts,
         Lists!TurnQueue
  <2> QED
      BY <1>0, <1>3, <2>1 DEF Lists!Turn
<1>4. ASSUME NEW q \in v6, Lists!LoadFails(q) PROVE Lists!TypeOK'
    BY <1>0, <1>4 DEF Lists!LoadFails
<1>5. ASSUME NEW q \in v6, NEW found \in SUBSET Rows, Lists!Answered(q,
             found) PROVE Lists!TypeOK'
  <2>1. q.filter \in Lists!Filters /\ q.page \in Lists!Pages
      BY <1>0
  <2>2. v4' \in BOOLEAN
    <3> HIDE DEF Lists!TypeOK
    <3>1. v4' = (v1 \in {"users", "bulk"}) \/ v4' = v4
        BY <1>5 DEF Lists!Answered
    <3>2. (v1 \in {"users", "bulk"}) \in BOOLEAN
        OBVIOUS
    <3> QED
        BY <1>0, <3>1, <3>2
  <2> QED
      BY <1>0, <1>5, <2>1, <2>2 DEF Lists!Answered
<1>6. ASSUME NEW r \in Rows, Lists!Toggle(r) PROVE Lists!TypeOK'
    BY <1>0, <1>6 DEF Lists!Toggle, Lists!Tick
<1>7. CASE Lists!ToggleAll \/ Lists!Clear
    BY <1>0, <1>7 DEF Lists!ToggleAll, Lists!Clear, Lists!Tick
<1>8. ASSUME NEW s \in SUBSET Rows, Lists!Run(s) PROVE v13' \subseteq Lists!Acts
  <2>1. [filter |-> IF Lists!Refetches THEN v2 ELSE "all",
        page |-> IF v1 = "flags" THEN v3 ELSE 1,
         on |-> s] \in Lists!Acts
      BY <1>0, ListsFirstPage DEF Lists!Filters
  <2> QED
      BY <1>0, <1>8, <2>1 DEF Lists!Run
<1>9. ASSUME NEW s \in SUBSET Rows, Lists!Act(s) \/ Lists!Ask(s) PROVE Lists!TypeOK'
  <2>1. CASE Lists!Act(s)
      BY <1>0, <1>8, <2>1 DEF Lists!Act
  <2>2. CASE Lists!Ask(s)
      BY <1>0, <2>2 DEF Lists!Ask
  <2> QED
      BY <1>9, <2>1, <2>2
<1>10. ASSUME NEW yes \in BOOLEAN, Lists!Decide(yes) PROVE Lists!TypeOK'
  <2>1. v13' \subseteq Lists!Acts
      BY <1>0, <1>8, <1>10 DEF Lists!Decide
  <2> QED
      BY <1>0, <1>10, <2>1 DEF Lists!Decide
<1>11. ASSUME NEW a \in v13, Lists!ActFails(a) PROVE Lists!TypeOK'
    BY <1>0, <1>11 DEF Lists!ActFails
<1>12. ASSUME NEW a \in v13, NEW goes \in BOOLEAN, Lists!ActDone(a, goes) PROVE Lists!TypeOK'
  <2>1. a.filter \in Lists!Filters /\ a.page \in Lists!Pages
      BY <1>0
  <2>2. v6' \subseteq Lists!Loads /\ v8' \subseteq Rows /\ v11' \subseteq Rows
        /\ v7' \in BOOLEAN
      BY <1>0, <1>12, <2>1, AskingFits DEF Lists!ActDone, Lists!Patched, Lists!Refetched
  <2> QED
      BY <1>0, <1>12, <2>2 DEF Lists!ActDone
<1>13. CASE UNCHANGED Lists!listVars
    BY <1>0, <1>13 DEF Lists!listVars
<1> QED
    BY <1>1, <1>2, <1>3, <1>4, <1>5, <1>6, <1>7, <1>9, <1>10, <1>11, <1>12, <1>13
       DEF Lists!Next, Lists!Steps

-----------------------------------------------------------------------------
(* StaffSystem: v1 screen, v2 stored, v3 live, v4 scan, v5 scanned, v6     *)
(* found, v7 dialog, v8 prune, v9 locked, v10 judged, v11 fetches, v12     *)
(* kept, v13 made, v14 shown, v15 asks, v16 works, v17 restoring, v18      *)
(* form, v19 sends, v20 condemned, v21 admitting.                          *)

\* The rotation of backups only removes some.
LEMMA RotatedFits == \A s : System!Rotated(s) \subseteq s
    BY DEF System!Rotated

\* What the answer of a backup request leaves on the server, and in the lists under way.
LEMMA WorkFits ==
    ASSUME v13 \in 0..MaxSaves, NEW S, System!Backups \subseteq S, v12 \subseteq S,
           v11 \subseteq SUBSET S,
           NEW w, System!SaveDone(w) \/ System!DeleteDone(w) \/ System!RestoreDone(w)
    PROVE  v12' \subseteq S /\ v11' \subseteq SUBSET S
<1>1. CASE System!SaveDone(w)
  <2>1. v13 + 1 \in System!Backups
      BY <1>1, SystemBounds DEF System!SaveDone, System!Backups
  <2>2. v12' \subseteq S
      BY <1>1, <2>1, RotatedFits DEF System!SaveDone
  <2> QED
      BY <1>1, <2>2, ZenonT(30) DEF System!SaveDone
<1>2. CASE System!DeleteDone(w)
    BY <1>2 DEF System!DeleteDone
<1>3. CASE System!RestoreDone(w)
    BY <1>3 DEF System!RestoreDone
<1> QED
    BY <1>1, <1>2, <1>3

\* The first page has what the page of the backups needs.
LEMMA BackupsStart == System!Init => System!BackupsFit
    BY DEF System!Init, System!BackupsFit

\* Every step keeps what the page of the backups needs: only backups are shown
\* there.
LEMMA BackupsStep ==
    System!TypeOK /\ System!BackupsFit /\ [System!Next]_(System!systemVars)
    => System!BackupsFit'
<1> SUFFICES ASSUME System!TypeOK, System!BackupsFit, [System!Next]_(System!systemVars),
    v1' = "backup"
             PROVE  /\ v14' \subseteq System!Backups /\ v12' \subseteq System!Backups
                       /\ v11' \subseteq SUBSET System!Backups
                    /\ v18' = {} /\ v19' = {}
    BY DEF System!BackupsFit
<1>1. v1 = "backup"
    BY DEF System!Next, System!systemVars, System!AdmitLocks, System!AdmitStores,
       System!AdmitNames, System!AdmitFails, System!Admission, System!Unname, System!PruneLocks,
       System!PruneChecks,
       System!PruneDeletes, System!OpenDialog, System!CloseDialog, System!ResetDialog,
           System!RunReconcile, System!ReconcileReads, System!ReconcileAnswered,
           System!ReconcileFails, System!Prune, System!PruneEnds, System!Fetch,
           System!FetchHealth, System!Fetched, System!Ask, System!Decide, System!WorkDone,
           System!WorkFails, System!OpenForm, System!Remove, System!Submitted, System!CloseForm,
           System!Submit, System!SubmitFails
<1>2. /\ v14 \subseteq System!Backups /\ v12 \subseteq System!Backups
         /\ v11 \subseteq SUBSET System!Backups
      /\ v18 = {} /\ v19 = {}
    BY <1>1 DEF System!BackupsFit
<1>3. ASSUME UNCHANGED <<v14, v12, v11, v18, v19>>
      PROVE  /\ v14' \subseteq System!Backups /\ v12' \subseteq System!Backups
                /\ v11' \subseteq SUBSET System!Backups
             /\ v18' = {} /\ v19' = {}
    BY <1>2, <1>3
<1>4. CASE System!Fetch
    BY <1>2, <1>4 DEF System!Fetch, System!BackupVars
<1>5. ASSUME NEW list \in v11, System!Fetched(list)
      PROVE  /\ v14' \subseteq System!Backups /\ v12' \subseteq System!Backups
                /\ v11' \subseteq SUBSET System!Backups
             /\ v18' = {} /\ v19' = {}
    BY <1>2, <1>5 DEF System!Fetched, System!BackupVars
<1>6. ASSUME NEW w \in v16, System!WorkDone(w)
      PROVE  /\ v14' \subseteq System!Backups /\ v12' \subseteq System!Backups
                /\ v11' \subseteq SUBSET System!Backups
             /\ v18' = {} /\ v19' = {}
  <2>1. v12' \subseteq System!Backups /\ v11' \subseteq SUBSET System!Backups
      BY <1>2, <1>6, WorkFits DEF System!WorkDone, System!TypeOK
  <2> QED
      BY <1>2, <1>6, <2>1 DEF System!WorkDone
<1> QED
    BY <1>1, <1>2, <1>3, <1>4, <1>5, <1>6
    DEF System!Next, System!systemVars, System!AdmitLocks, System!AdmitStores,
       System!AdmitNames, System!AdmitFails, System!Admission, System!Unname, System!PruneLocks,
       System!PruneChecks,
    System!PruneDeletes, System!OpenDialog, System!CloseDialog, System!ResetDialog,
        System!RunReconcile, System!ReconcileReads, System!ReconcileAnswered,
        System!ReconcileFails, System!Prune, System!PruneEnds,
        System!FetchHealth, System!Ask, System!Decide, System!WorkFails, System!OpenForm,
        System!Remove, System!Submitted, System!CloseForm,
        System!Submit, System!SubmitFails, System!BackupVars

\* Every step keeps what is to be deleted, and who holds a lock to store an
\* object, in their types.
LEMMA LocksStep ==
    ASSUME System!TypeOK, [System!Next]_(System!systemVars)
    PROVE  v20' \subseteq Objects /\ v21' \in [Objects -> {"no", "locked", "written"}]
<1>0. v20 \subseteq Objects /\ v21 \in [Objects -> {"no", "locked", "written"}]
    BY DEF System!TypeOK
<1>1. CASE UNCHANGED <<v20, v21>>
    BY <1>0, <1>1
<1>2. ASSUME NEW o \in Objects, System!AdmitLocks(o) \/ System!AdmitStores(o)
             \/ System!AdmitNames(o) \/ System!AdmitFails(o)
      PROVE  v20' \subseteq Objects /\ v21' \in [Objects -> {"no", "locked", "written"}]
    BY <1>0, <1>2 DEF System!AdmitLocks, System!AdmitStores, System!AdmitNames,
       System!AdmitFails, System!Admission, System!PruneVars
<1>3. ASSUME NEW o \in Objects, NEW fails \in BOOLEAN, System!PruneChecks(o, fails)
             \/ System!PruneDeletes(o, fails)
      PROVE  v20' \subseteq Objects /\ v21' \in [Objects -> {"no", "locked", "written"}]
    BY <1>0, <1>3 DEF System!PruneChecks, System!PruneDeletes
<1>4. ASSUME System!OpenDialog \/ System!CloseDialog \/ System!ResetDialog
             \/ System!RunReconcile \/ System!ReconcileReads \/ System!ReconcileAnswered
             \/ System!ReconcileFails \/ System!Prune
             \/ (\E lost \in BOOLEAN : System!PruneEnds(lost))
             \/ \E o \in Objects : System!Unname(o) \/ System!PruneLocks(o)
      PROVE  UNCHANGED <<v20, v21>>
    BY <1>4 DEF System!OpenDialog, System!CloseDialog, System!ResetDialog,
       System!RunReconcile, System!ReconcileReads, System!ReconcileAnswered,
       System!ReconcileFails, System!Prune, System!PruneEnds, System!Unname,
       System!PruneLocks, System!PruneVars
<1>5. ASSUME System!Fetch \/ System!FetchHealth \/ (\E list \in v11 : System!Fetched(list))
             \/ (\E w \in System!Confirmable : System!Ask(w))
             \/ (\E yes \in BOOLEAN : System!Decide(yes))
             \/ (\E w \in v16 : System!WorkDone(w) \/ System!WorkFails(w))
             \/ (\E f \in Featured \cup {"new"} : System!OpenForm(f) \/ System!Remove(f)
                    \/ \E i \in System!Pickable : System!Submitted(f, i))
             \/ System!CloseForm \/ System!Submit \/ System!SubmitFails
      PROVE  UNCHANGED System!StorageVars
    BY <1>5 DEF System!Fetch, System!FetchHealth, System!Fetched, System!Ask, System!Decide,
       System!WorkDone, System!WorkFails, System!OpenForm, System!Remove, System!Submitted,
       System!CloseForm, System!Submit, System!SubmitFails
<1>6. UNCHANGED System!StorageVars => UNCHANGED <<v20, v21>>
    BY DEF System!StorageVars, System!PruneVars
<1>7. CASE UNCHANGED System!systemVars
    BY <1>1, <1>7 DEF System!systemVars
<1> QED
    BY <1>1, <1>2, <1>3, <1>4, <1>5, <1>6, <1>7 DEF System!Next

\* The first states have their types.
LEMMA SystemTypesStart == System!Init => System!TypeOK
<1> SUFFICES ASSUME System!Init PROVE System!TypeOK
    OBVIOUS
<1> USE DEF System!TypeOK, System!Backups, System!Works, System!NoWork
<1>1. v1 \in {"system", "backup", "featured"}
    BY SystemBounds DEF System!Init
<1>2. v2 \subseteq Objects
    BY SystemBounds DEF System!Init
<1>3. v3 \subseteq Objects
    BY SystemBounds DEF System!Init
<1>4. v4 \in {"idle", "asked", "read"}
    BY SystemBounds DEF System!Init
<1>5. v5 \subseteq Objects
    BY SystemBounds DEF System!Init
<1>6. v6 \subseteq Objects
    BY SystemBounds DEF System!Init
<1>7. v7 \in BOOLEAN
    BY SystemBounds DEF System!Init
<1>8. v8 \subseteq Objects
    BY SystemBounds DEF System!Init
<1>9. v9 \subseteq Objects
    BY SystemBounds DEF System!Init
<1>10. v10 \subseteq Objects
    BY SystemBounds DEF System!Init
<1>11. v11 \subseteq SUBSET (System!Backups \cup Featured)
    BY SystemBounds DEF System!Init
<1>12. v14 \subseteq System!Backups \cup Featured
    BY SystemBounds DEF System!Init
<1>13. v12 \subseteq System!Backups \cup Featured
    BY SystemBounds DEF System!Init
<1>14. v13 \in 0..MaxSaves
    BY SystemBounds DEF System!Init
<1>15. v15 \in System!Works \cup {System!NoWork}
    BY SystemBounds DEF System!Init
<1>16. v16 \subseteq System!Works
    BY SystemBounds DEF System!Init
<1>17. v17 \in 0..System!File
    BY SystemBounds DEF System!Init, System!File
<1>18. v18 \subseteq Featured \cup {"new"}
    BY SystemBounds DEF System!Init
<1>19. v19 \subseteq Featured \cup {"new"}
    BY SystemBounds DEF System!Init
<1>20. v20 \subseteq Objects /\ v21 \in [Objects -> {"no", "locked", "written"}]
    BY DEF System!Init
<1> QED
    BY <1>1, <1>2, <1>3, <1>4, <1>5, <1>6, <1>7, <1>8, <1>9, <1>10, <1>11, <1>12,
       <1>13, <1>14, <1>15, <1>16, <1>17, <1>18, <1>19, <1>20

\* Every step keeps the types.
LEMMA SystemTypesKept ==
    System!TypeOK /\ [System!Next]_(System!systemVars) /\ System!BackupsFit => System!TypeOK'
<1> SUFFICES ASSUME System!TypeOK, [System!Next]_(System!systemVars), System!BackupsFit
             PROVE  System!TypeOK'
    OBVIOUS
<1> USE DEF System!TypeOK, System!Backups, System!Works, System!NoWork
<1>0. v20' \subseteq Objects /\ v21' \in [Objects -> {"no", "locked", "written"}]
    BY LocksStep
<1>1. ASSUME NEW o \in Objects, System!AdmitLocks(o) \/ System!AdmitStores(o)
             \/ System!AdmitNames(o) \/ System!AdmitFails(o)
      PROVE  System!TypeOK'
  <2>1. UNCHANGED <<v1, v4, v5, v6, v7, v8, v9, v10, v11, v12, v13, v14, v15, v16, v17, v18, v19>>
      BY <1>1 DEF System!AdmitLocks, System!AdmitStores, System!AdmitNames,
         System!AdmitFails, System!Admission, System!PruneVars, System!BackupVars
  <2>2. v2' \subseteq Objects /\ v3' \subseteq Objects
      BY <1>1 DEF System!AdmitLocks, System!AdmitStores, System!AdmitNames, System!AdmitFails
  <2> HIDE DEF System!Backups, System!Works, System!NoWork
  <2> QED
      BY <1>0, <2>1, <2>2
<1>2. ASSUME NEW o \in Objects, System!Unname(o)
      PROVE  System!TypeOK'
    BY <1>0, <1>2, SystemBounds DEF System!Unname, System!PruneVars, System!BackupVars
<1>3. ASSUME NEW o \in Objects, System!PruneLocks(o)
      PROVE  System!TypeOK'
    BY <1>0, <1>3, SystemBounds DEF System!PruneLocks, System!BackupVars
<1>4. ASSUME NEW o \in Objects, NEW fails \in BOOLEAN, System!PruneDeletes(o, fails)
             \/ System!PruneChecks(o, fails)
      PROVE  System!TypeOK'
    BY <1>0, <1>4, SystemBounds DEF System!PruneDeletes, System!PruneChecks, System!BackupVars
<1>5. CASE System!OpenDialog
    BY <1>0, <1>5, SystemBounds DEF System!OpenDialog, System!PruneVars, System!BackupVars, System!Dialog
<1>6. CASE System!CloseDialog
    BY <1>0, <1>6, SystemBounds DEF System!CloseDialog, System!PruneVars, System!BackupVars, System!Dialog
<1>7. CASE System!ResetDialog
    BY <1>0, <1>7, SystemBounds DEF System!ResetDialog, System!PruneVars, System!BackupVars, System!Dialog
<1>8. CASE System!RunReconcile
    BY <1>0, <1>8, SystemBounds DEF System!RunReconcile, System!PruneVars, System!BackupVars
<1>9. CASE System!ReconcileReads
    BY <1>0, <1>9, SystemBounds DEF System!ReconcileReads, System!PruneVars, System!BackupVars
<1>10. CASE System!ReconcileAnswered
    BY <1>0, <1>10, SystemBounds DEF System!ReconcileAnswered, System!PruneVars, System!BackupVars, System!Dialog
<1>11. CASE System!ReconcileFails
    BY <1>0, <1>11, SystemBounds DEF System!ReconcileFails, System!PruneVars, System!BackupVars
<1>12. CASE System!Prune
    BY <1>0, <1>12, SystemBounds DEF System!Prune, System!BackupVars, System!Pruning
<1>13. ASSUME NEW lost \in BOOLEAN, System!PruneEnds(lost)
      PROVE  System!TypeOK'
    BY <1>0, <1>13, SystemBounds DEF System!PruneEnds, System!BackupVars
<1>14. CASE System!Fetch
    BY <1>0, <1>14, SystemBounds DEF System!Fetch, System!StorageVars, System!PruneVars, System!BackupVars
<1>15. CASE System!FetchHealth
    BY <1>0, <1>15, SystemBounds DEF System!FetchHealth, System!StorageVars, System!PruneVars, System!BackupVars
<1>16. ASSUME NEW list \in v11, System!Fetched(list)
      PROVE  System!TypeOK'
    BY <1>0, <1>16, SystemBounds DEF System!Fetched, System!StorageVars, System!PruneVars, System!BackupVars
<1>17. ASSUME NEW w \in System!Confirmable, System!Ask(w)
      PROVE  System!TypeOK'
  <2>15. (v15 \in System!Works \cup {System!NoWork})'
    <3>1. w \in System!Confirmable /\ v15' = w /\ v14 \subseteq System!Backups
        BY <1>17 DEF System!Ask, System!BackupsFit
    <3>2. 0 \in 0..System!File /\ System!File \in 0..System!File
          /\ System!Backups \subseteq 0..System!File
        BY SystemBounds DEF System!File, System!Backups
    <3>3. w \in System!Works
        BY <3>1, <3>2 DEF System!Confirmable, System!Works
    <3> QED
        BY <3>1, <3>3
  <2> QED
      BY <1>0, <1>17, <2>15, SystemBounds DEF System!Ask, System!Confirmable, System!StorageVars, System!PruneVars,
         System!MayAsk, System!File
<1>18. ASSUME NEW yes \in BOOLEAN, System!Decide(yes)
      PROVE  System!TypeOK'
    BY <1>0, <1>18, SystemBounds DEF System!Decide, System!StorageVars, System!PruneVars
<1>19. ASSUME NEW w \in v16, System!WorkDone(w)
      PROVE  System!TypeOK'
  <2>11. (v11 \subseteq SUBSET (System!Backups \cup Featured))'
    <3>1. v13 \in 0..MaxSaves /\ v12 \subseteq System!Backups \cup Featured
          /\ v11 \subseteq SUBSET (System!Backups \cup Featured)
        OBVIOUS
    <3> HIDE DEF System!TypeOK, System!Backups
    <3> QED
        BY <1>0, <1>19, <3>1, WorkFits DEF System!WorkDone
  <2>13. (v12 \subseteq System!Backups \cup Featured)'
    <3>1. v13 \in 0..MaxSaves /\ v12 \subseteq System!Backups \cup Featured
          /\ v11 \subseteq SUBSET (System!Backups \cup Featured)
        OBVIOUS
    <3> HIDE DEF System!TypeOK, System!Backups
    <3> QED
        BY <1>0, <1>19, <3>1, WorkFits DEF System!WorkDone
  <2>17. (v17 \in 0..System!File)'
    <3>1. v17' = v17 \/ v17' = 0
        BY <1>19 DEF System!WorkDone, System!SaveDone, System!DeleteDone, System!RestoreDone
    <3>2. 0 \in 0..System!File
        BY SystemBounds DEF System!File
    <3> QED
        BY <3>1, <3>2
  <2> QED
      BY <1>0, <1>19, <2>11, <2>13, <2>17, SystemBounds DEF System!WorkDone, System!StorageVars, System!PruneVars,
         System!SaveDone, System!DeleteDone, System!RestoreDone, System!Rotated
<1>20. ASSUME NEW w \in v16, System!WorkFails(w)
      PROVE  System!TypeOK'
    BY <1>0, <1>20, SystemBounds DEF System!WorkFails, System!StorageVars, System!PruneVars
<1>21. ASSUME NEW f \in Featured \cup {"new"}, System!OpenForm(f)
      PROVE  System!TypeOK'
    BY <1>0, <1>21, SystemBounds DEF System!OpenForm, System!StorageVars, System!PruneVars, System!BackupVars,
       System!Offered
<1>22. ASSUME NEW f \in Featured \cup {"new"}, System!Remove(f)
      PROVE  System!TypeOK'
    BY <1>0, <1>22, SystemBounds DEF System!Remove, System!StorageVars, System!PruneVars
<1>23. ASSUME NEW f \in Featured \cup {"new"}, NEW i \in System!Pickable, System!Submitted(f, i)
      PROVE  System!TypeOK'
  <2>11. (v11 \subseteq SUBSET (System!Backups \cup Featured))'
    <3>1. v12' \subseteq System!Backups \cup Featured
        BY <1>23 DEF System!Submitted, System!Pickable
    <3>2. v11' = v11 \cup {v12'} /\ v11 \subseteq SUBSET (System!Backups \cup Featured)
        BY <1>23 DEF System!Submitted
    <3> HIDE DEF System!TypeOK, System!Backups
    <3> QED
        BY <3>1, <3>2
  <2> QED
      BY <1>0, <1>23, <2>11, SystemBounds DEF System!Submitted, System!Pickable, System!StorageVars, System!PruneVars
<1>24. CASE System!CloseForm
    BY <1>0, <1>24, SystemBounds DEF System!CloseForm, System!StorageVars, System!PruneVars, System!BackupVars
<1>25. CASE System!Submit
    BY <1>0, <1>25, SystemBounds DEF System!Submit, System!StorageVars, System!PruneVars, System!BackupVars
<1>26. CASE System!SubmitFails
    BY <1>0, <1>26, SystemBounds DEF System!SubmitFails, System!StorageVars, System!PruneVars, System!BackupVars
<1>27. CASE UNCHANGED System!systemVars
    BY <1>0, <1>27, SystemBounds DEF System!systemVars
<1> QED
    BY <1>1, <1>2, <1>3, <1>4, <1>5, <1>6, <1>7, <1>8, <1>9, <1>10, <1>11, <1>12,
       <1>13, <1>14, <1>15, <1>16, <1>17, <1>18, <1>19, <1>20, <1>21, <1>22, <1>23, <1>24,
       <1>25, <1>26, <1>27 DEF System!Next

-----------------------------------------------------------------------------
(* QuizPages: v1 where, v2 quiz, v3 images, v4 insert, v5 parse, v6 asks,  *)
(* v7 saving, v8 open, v9 shown, v10 started, v11 answered, v12 finished,  *)
(* v13 file, v14 loads, v15 loading, v16 failed, v17 held.                 *)

\* The part's number of elements is the library's.
LEMMA QuizCounts == \A S : Quiz!Cardinality(S) = Cardinality(S)
    BY Zenon DEF Quiz!Cardinality, Cardinality

\* The part's sums are the library's.
LEMMA QuizSums == \A f, S : Quiz!SumFunctionOnSet(f, S) = SumFunctionOnSet(f, S)
    BY Zenon DEF Quiz!SumFunctionOnSet, SumFunctionOnSet, Quiz!FoldFunctionOnSet,
       FoldFunctionOnSet,
       Quiz!MapThenFoldSet, MapThenFoldSet

\* A quiz is a sequence of chapters no longer than there are chapters.
LEMMA QuizIs ==
    \A q : q \in Quiz!Quizzes <=> q \in Seq(Quiz!Chapter) /\ Len(q) <= Cardinality(Chapters)
<1>1. Cardinality(Chapters) \in Nat
    BY QuizBounds, FS_CardinalityType
<1>2. ASSUME NEW q, q \in Quiz!Quizzes
      PROVE  q \in Seq(Quiz!Chapter) /\ Len(q) <= Cardinality(Chapters)
  <2>1. PICK n \in 0..Cardinality(Chapters) : q \in [1..n -> Quiz!Chapter]
      BY QuizCounts, <1>2 DEF Quiz!Quizzes
  <2> QED
      BY <1>1, <2>1
<1>3. ASSUME NEW q, q \in Seq(Quiz!Chapter), Len(q) <= Cardinality(Chapters)
      PROVE  q \in Quiz!Quizzes
  <2>1. q \in [1..Len(q) -> Quiz!Chapter] /\ Len(q) \in 0..Cardinality(Chapters)
      BY <1>1, <1>3
  <2> QED
      BY QuizCounts, <2>1 DEF Quiz!Quizzes
<1> QED
    BY <1>2, <1>3

\* What a quiz has at each of its places, in one place for the steps.
LEMMA QuizHas ==
    ASSUME NEW q \in Quiz!Quizzes
    PROVE  /\ q \in Seq(Quiz!Chapter) /\ Len(q) <= Cardinality(Chapters) /\ Len(q) \in Nat
           /\ DOMAIN q = 1..Len(q) /\ \A i \in DOMAIN q : q[i] \in Quiz!Chapter
              /\ i \in 1..Cardinality(Chapters)
<1>1. Cardinality(Chapters) \in Nat
    BY QuizBounds, FS_CardinalityType
<1> QED
    BY <1>1, QuizIs

\* The chapters, quizzes and inserts that the page starts from have their
\* types.
LEMMA SomeChapters ==
    /\ Cardinality(Chapters) \in Nat /\ Cardinality(Chapters) >= 1
    /\ \A c \in Chapters : Quiz!Empty(c) \in Quiz!Chapter
    /\ Quiz!First \in Chapters /\ <<>> \in Quiz!Quizzes
       /\ <<Quiz!Empty(Quiz!First)>> \in Quiz!Quizzes /\ Quiz!Imported \in Quiz!Quizzes
    /\ Quiz!NoInsert \in [at : 0..Cardinality(Chapters), base : Quiz!Chapter,
       left : SUBSET Images]
<1>1. Cardinality(Chapters) \in Nat /\ Cardinality(Chapters) >= 1
    BY QuizBounds, FS_CardinalityType, FS_EmptySet
<1>2. Quiz!First \in Chapters
    BY QuizBounds DEF Quiz!First
<1>3. \A c \in Chapters : Quiz!Empty(c) \in Quiz!Chapter
    BY QuizBounds DEF Quiz!Empty, Quiz!Chapter
<1>4. [Quiz!Empty(Quiz!First) EXCEPT !.questions = 1] \in Quiz!Chapter
    BY <1>2, QuizBounds DEF Quiz!Empty, Quiz!Chapter
<1>5. <<>> \in Quiz!Quizzes
  <2>1. <<>> \in Seq(Quiz!Chapter) /\ Len(<<>>) <= Cardinality(Chapters)
      BY <1>1
  <2> QED
      BY <2>1, QuizIs
<1>6. ASSUME NEW c \in Quiz!Chapter PROVE <<c>> \in Quiz!Quizzes
  <2>1. <<c>> \in Seq(Quiz!Chapter) /\ Len(<<c>>) = 1
      OBVIOUS
  <2> QED
      BY <1>1, <2>1, QuizIs
<1>8. <<Quiz!Empty(Quiz!First)>> \in Quiz!Quizzes /\ Quiz!Imported \in Quiz!Quizzes
    BY <1>2, <1>3, <1>4, <1>6 DEF Quiz!Imported
<1>7. Quiz!NoInsert \in [at : 0..Cardinality(Chapters), base : Quiz!Chapter,
      left : SUBSET Images]
    BY <1>1, <1>2, <1>3 DEF Quiz!NoInsert
<1> QED
    BY <1>1, <1>2, <1>3, <1>5, <1>7, <1>8

\* The quiz the page shows and the one it saves stay quizzes.
LEMMA BecomesFit ==
    ASSUME v2 \in Quiz!Quizzes, v9 \in Quiz!Quizzes, NEW q \in Quiz!Quizzes, Quiz!Become(q)
    PROVE  v2' \in Quiz!Quizzes /\ v9' \in Quiz!Quizzes
    BY DEF Quiz!Become, Quiz!Take, Quiz!Viewer

\* A chapter replaced by another.
LEMMA ChapterSet ==
    ASSUME NEW q \in Quiz!Quizzes, NEW i \in DOMAIN q, NEW c \in Quiz!Chapter
    PROVE  q[i] \in Quiz!Chapter /\ [q EXCEPT ![i] = c] \in Quiz!Quizzes
    BY QuizIs

\* A chapter has no more questions than the quiz.
LEMMA QuestionsCounted ==
    ASSUME NEW q \in Quiz!Quizzes, NEW i \in DOMAIN q, Quiz!Total(q) < MaxQuestions
    PROVE  q[i].questions < MaxQuestions
<1> DEFINE f == [j \in DOMAIN q |-> q[j].questions]
<1>1. DOMAIN q = 1..Len(q) /\ Len(q) \in Nat /\ \A j \in DOMAIN q : q[j] \in Quiz!Chapter
    BY QuizHas
<1>2. IsFiniteSet(DOMAIN q)
    BY <1>1, FS_Interval
<1>3. \A j \in DOMAIN q : f[j] \in Nat
  <2>1. \A c \in Quiz!Chapter : c.questions \in Nat
      BY QuizBounds DEF Quiz!Chapter
  <2> QED
      BY <1>1, <2>1
<1>4. Quiz!Total(q) = SumFunctionOnSet(f, DOMAIN q)
    BY QuizSums DEF Quiz!Total, Quiz!SumFunction
<1> HIDE DEF f
<1>5. SumFunctionOnSet(f, DOMAIN q) = f[i] + SumFunctionOnSet(f, DOMAIN q \ {i})
    BY <1>2, <1>3, SumRemove
<1>6. SumFunctionOnSet(f, DOMAIN q \ {i}) \in Nat
    BY <1>2, <1>3, SumType, FS_Subset
<1>7. f[i] = q[i].questions
    BY DEF f
<1> QED
    BY <1>3, <1>4, <1>5, <1>6, <1>7, QuizBounds

\* No images are being inserted at first.
LEMMA PlaceStarts == Quiz!Init => Quiz!PlaceFits
    BY DEF Quiz!Init, Quiz!PlaceFits, Quiz!NoInsert

\* An insert with one image fewer keeps its type and its place.
LEMMA QuizRestFits ==
    ASSUME NEW g, v4 \in [at : 0..Cardinality(Chapters), base : Quiz!Chapter,
           left : SUBSET Images]
    PROVE  /\ Quiz!Rest(g) \in [at : 0..Cardinality(Chapters), base : Quiz!Chapter,
              left : SUBSET Images]
           /\ Quiz!PlaceFits /\ g \in v4.left => (v4' = Quiz!Rest(g) => Quiz!PlaceFits')
<1>1. [v4 EXCEPT !.left = @ \ {g}] \in [at : 0..Cardinality(Chapters), base : Quiz!Chapter,
      left : SUBSET Images]
    OBVIOUS
<1>2. Quiz!NoInsert.left = {}
    BY DEF Quiz!NoInsert
<1> QED
    BY <1>1, <1>2, SomeChapters DEF Quiz!Rest, Quiz!PlaceFits

\* Every step keeps images inserted at a place of the quiz.
LEMMA PlaceStep ==
    Quiz!TypeOK /\ Quiz!PlaceFits /\ [Quiz!Next]_(Quiz!quizVars) => Quiz!PlaceFits'
<1> SUFFICES ASSUME Quiz!TypeOK, Quiz!PlaceFits,
    [Quiz!Next]_(Quiz!quizVars) PROVE Quiz!PlaceFits'
    OBVIOUS
<1>1. ASSUME UNCHANGED v4 PROVE Quiz!PlaceFits'
    BY <1>1 DEF Quiz!PlaceFits
<1>2. ASSUME v4' = Quiz!NoInsert PROVE Quiz!PlaceFits'
    BY <1>2 DEF Quiz!PlaceFits, Quiz!NoInsert
<1>3. ASSUME NEW i \in DOMAIN v2, NEW files \in SUBSET Images, Quiz!PickImages(i, files)
      PROVE  Quiz!PlaceFits'
  <2>1. i \in 1..Cardinality(Chapters)
      BY QuizHas DEF Quiz!TypeOK
  <2>2. v4'.at = i
      BY <1>3 DEF Quiz!PickImages
  <2> QED
      BY <2>1, <2>2 DEF Quiz!PlaceFits
<1>4. ASSUME NEW g \in Images, Quiz!Reencoded(g) \/ Quiz!NotEncoded(g) PROVE Quiz!PlaceFits'
  <2>1. v4' = Quiz!Rest(g) /\ g \in v4.left
      BY <1>4 DEF Quiz!Reencoded, Quiz!NotEncoded
  <2> QED
      BY QuizCounts, <2>1, QuizRestFits DEF Quiz!TypeOK
<1>5. ASSUME NEW g \in Images, Quiz!TooMany(g) \/ Quiz!Breaks(g) PROVE Quiz!PlaceFits'
    BY <1>2, <1>5 DEF Quiz!TooMany, Quiz!Breaks, Quiz!Cleared
<1>6. CASE Quiz!Saved
    BY <1>2, <1>6 DEF Quiz!Saved, Quiz!Cleared
<1> HIDE DEF Quiz!PlaceFits, Quiz!TypeOK
<1> QED
    BY <1>1, <1>3, <1>4, <1>5, <1>6
    DEF Quiz!Next, Quiz!quizVars, Quiz!OpenPreview, Quiz!ClosePreview, Quiz!AddChapter,
    Quiz!DeleteChapter, Quiz!AddQuestion,
        Quiz!DeleteQuestion, Quiz!Unrefer, Quiz!MoveChapter, Quiz!Edit, Quiz!AskImport,
        Quiz!Parsed, Quiz!NotParsed, Quiz!ConfirmImport,
        Quiz!Save, Quiz!Submit, Quiz!NotSaved, Quiz!Answer, Quiz!Unchoose, Quiz!Finish, Quiz!Retry,
        Quiz!OpenFile, Quiz!Loaded

\* The first states have their types.
LEMMA QuizTypesStart == Quiz!Init => Quiz!TypeOK
<1> SUFFICES ASSUME Quiz!Init PROVE Quiz!TypeOK
    OBVIOUS
<1> USE DEF Quiz!TypeOK, Quiz!Chapter, Quiz!Quizzes
<1>1. v1 \in {"editor", "page", "left", "broken"}
    BY QuizBounds DEF Quiz!Init, Quiz!Empty, Quiz!First, Quiz!NoInsert
<1>2. v2 \in Quiz!Quizzes
  <2> HIDE DEF Quiz!Quizzes, Quiz!Chapter
  <2> QED
    BY SomeChapters, QuizBounds DEF Quiz!Init
<1>3. v3 \subseteq Images
    BY QuizBounds DEF Quiz!Init, Quiz!Empty, Quiz!First, Quiz!NoInsert
<1>4. v4 \in [at : 0..Cardinality(Chapters), base : Quiz!Chapter, left : SUBSET Images]
  <2> HIDE DEF Quiz!Quizzes, Quiz!Chapter
  <2> QED
    BY SomeChapters, QuizBounds DEF Quiz!Init
<1>5. v5 \in {"idle", "over nothing", "over content"}
    BY QuizBounds DEF Quiz!Init, Quiz!Empty, Quiz!First, Quiz!NoInsert
<1>6. v6 \in BOOLEAN
    BY QuizBounds DEF Quiz!Init, Quiz!Empty, Quiz!First, Quiz!NoInsert
<1>7. v7 \in BOOLEAN
    BY QuizBounds DEF Quiz!Init, Quiz!Empty, Quiz!First, Quiz!NoInsert
<1>8. v8 \in BOOLEAN
    BY QuizBounds DEF Quiz!Init, Quiz!Empty, Quiz!First, Quiz!NoInsert
<1>9. v9 \in Quiz!Quizzes
  <2> HIDE DEF Quiz!Quizzes, Quiz!Chapter
  <2> QED
    BY SomeChapters, QuizBounds DEF Quiz!Init
<1>10. v10 \in BOOLEAN
    BY QuizBounds DEF Quiz!Init, Quiz!Empty, Quiz!First, Quiz!NoInsert
<1>11. v11 \subseteq Chapters
    BY QuizBounds DEF Quiz!Init, Quiz!Empty, Quiz!First, Quiz!NoInsert
<1>12. v12 \in BOOLEAN
    BY QuizBounds DEF Quiz!Init, Quiz!Empty, Quiz!First, Quiz!NoInsert
<1>13. v13 \in 1..MaxFiles
  <2> HIDE DEF Quiz!Quizzes, Quiz!Chapter
  <2> QED
    BY SomeChapters, QuizBounds DEF Quiz!Init
<1>14. v14 \subseteq 1..MaxFiles
  <2> HIDE DEF Quiz!Quizzes, Quiz!Chapter
  <2> QED
    BY SomeChapters, QuizBounds DEF Quiz!Init
<1>15. v15 \in BOOLEAN
    BY QuizBounds DEF Quiz!Init, Quiz!Empty, Quiz!First, Quiz!NoInsert
<1>16. v16 \in BOOLEAN
    BY QuizBounds DEF Quiz!Init, Quiz!Empty, Quiz!First, Quiz!NoInsert
<1>17. v17 \in 0..MaxFiles
    BY QuizBounds DEF Quiz!Init, Quiz!Empty, Quiz!First, Quiz!NoInsert
<1> QED
    BY QuizCounts, <1>1, <1>2, <1>3, <1>4, <1>5, <1>6, <1>7, <1>8, <1>9, <1>10, <1>11, <1>12,
       <1>13, <1>14, <1>15, <1>16, <1>17

\* Every step keeps the types.
LEMMA QuizTypesKept ==
    Quiz!TypeOK /\ [Quiz!Next]_(Quiz!quizVars) /\ Quiz!PlaceFits => Quiz!TypeOK'
<1> SUFFICES ASSUME Quiz!TypeOK, [Quiz!Next]_(Quiz!quizVars), Quiz!PlaceFits
             PROVE  Quiz!TypeOK'
    OBVIOUS
<1> USE DEF Quiz!TypeOK, Quiz!Chapter, Quiz!Quizzes
<1>1. CASE Quiz!OpenPreview
    BY <1>1, QuizBounds DEF Quiz!OpenPreview, Quiz!Imports, Quiz!Page, Quiz!Total,
       Quiz!Reachable, Quiz!Take, Quiz!Editing
<1>2. CASE Quiz!ClosePreview
  <2>9. (v9 \in Quiz!Quizzes)'
    <3> HIDE DEF Quiz!Quizzes
    <3> QED
        BY <1>2, SomeChapters DEF Quiz!Breaks, Quiz!Saved, Quiz!Cleared, Quiz!ClosePreview
  <2> QED
      BY <1>2, <2>9, QuizBounds DEF Quiz!ClosePreview, Quiz!Imports, Quiz!Page, Quiz!Editing
<1>3. CASE Quiz!AddChapter
  <2>2. (v2 \in Quiz!Quizzes)'
    <3>0. v2 \in Quiz!Quizzes /\ v9 \in Quiz!Quizzes
        OBVIOUS
    <3> HIDE DEF Quiz!Quizzes, Quiz!Chapter, Quiz!TypeOK
    <3>1. ASSUME NEW c \in Chapters, Len(v2) < Cardinality(Chapters)
          PROVE  Append(v2, Quiz!Empty(c)) \in Quiz!Quizzes
      <4>1. v2 \in Seq(Quiz!Chapter) /\ Quiz!Empty(c) \in Quiz!Chapter
          BY <3>0, SomeChapters, QuizHas
      <4>2. Append(v2, Quiz!Empty(c)) \in Seq(Quiz!Chapter) /\ Len(Append(v2,
            Quiz!Empty(c))) = Len(v2) + 1 /\ Len(v2) \in Nat
          BY <4>1
      <4>3. Len(Append(v2, Quiz!Empty(c))) <= Cardinality(Chapters)
          BY <3>1, <4>2, SomeChapters
      <4> QED
          BY <4>2, <4>3, QuizIs
    <3> QED
        BY QuizCounts, <1>3, <3>0, <3>1, BecomesFit DEF Quiz!AddChapter, Quiz!Edit
  <2> QED
      BY <1>3, <2>2, QuizBounds DEF Quiz!AddChapter, Quiz!Empty, Quiz!Ids, Quiz!Edit,
         Quiz!Imports, Quiz!Page, Quiz!Reachable, Quiz!Become, Quiz!Editing, Quiz!Viewer,
         Quiz!Take
<1>4. ASSUME NEW i \in DOMAIN v2, Quiz!DeleteChapter(i)
      PROVE  Quiz!TypeOK'
  <2>2. (v2 \in Quiz!Quizzes)'
    <3>0. v2 \in Quiz!Quizzes /\ v9 \in Quiz!Quizzes
        OBVIOUS
    <3> HIDE DEF Quiz!Quizzes, Quiz!Chapter, Quiz!TypeOK
    <3>1. Quiz!RemoveAt(v2, i) \in Quiz!Quizzes
      <4>1. v2 \in Seq(Quiz!Chapter) /\ i \in 1..Len(v2) /\ Len(v2) \in Nat
            /\ Len(v2) <= Cardinality(Chapters)
          BY <3>0, QuizHas
      <4>2. SubSeq(v2, 1, i - 1) \in Seq(Quiz!Chapter) /\ Len(SubSeq(v2, 1, i - 1)) = i - 1
          BY <4>1
      <4>3. SubSeq(v2, i + 1, Len(v2)) \in Seq(Quiz!Chapter) /\ Len(SubSeq(v2, i + 1,
            Len(v2))) = Len(v2) - i
          BY <4>1
      <4> DEFINE a == SubSeq(v2, 1, i - 1)
                 b == SubSeq(v2, i + 1, Len(v2))
      <4>4. Quiz!RemoveAt(v2, i) = a \o b
          BY DEF Quiz!RemoveAt
      <4> HIDE DEF a, b
      <4>5. a \o b \in Seq(Quiz!Chapter) /\ Len(a \o b) = Len(a) + Len(b)
          BY <4>2, <4>3 DEF a, b
      <4>6. Len(a \o b) <= Cardinality(Chapters)
          BY <4>1, <4>2, <4>3, <4>5, SomeChapters DEF a, b
      <4> QED
          BY <4>4, <4>5, <4>6, QuizIs
    <3> QED
        BY <1>4, <3>0, <3>1, BecomesFit DEF Quiz!DeleteChapter, Quiz!Edit
  <2> QED
      BY <1>4, <2>2, QuizBounds DEF Quiz!DeleteChapter, Quiz!Edit, Quiz!Imports, Quiz!Page,
         Quiz!Reachable, Quiz!Become, Quiz!Editing, Quiz!Viewer, Quiz!Take
<1>5. ASSUME NEW i \in DOMAIN v2, Quiz!AddQuestion(i)
      PROVE  Quiz!TypeOK'
  <2>2. (v2 \in Quiz!Quizzes)'
    <3>0. v2 \in Quiz!Quizzes /\ v9 \in Quiz!Quizzes
        OBVIOUS
    <3> HIDE DEF Quiz!Quizzes, Quiz!Chapter, Quiz!TypeOK
    <3>1. Quiz!Total(v2) < MaxQuestions => [v2 EXCEPT ![i].questions = @ + 1] \in Quiz!Quizzes
      <4>1. v2[i] \in Quiz!Chapter
          BY <3>0, QuizHas
      <4>2. Quiz!Total(v2) < MaxQuestions => [v2[i] EXCEPT !.questions = @ + 1] \in Quiz!Chapter
          BY <3>0, <4>1, QuestionsCounted, QuizBounds DEF Quiz!Chapter
      <4> QED
          BY <3>0, <4>2, ChapterSet
    <3> QED
        BY <1>5, <3>0, <3>1, BecomesFit DEF Quiz!AddQuestion, Quiz!Edit
  <2> QED
      BY <1>5, <2>2, QuizBounds DEF Quiz!AddQuestion, Quiz!Total, Quiz!Edit, Quiz!Imports,
         Quiz!Page, Quiz!Reachable, Quiz!Become, Quiz!Editing, Quiz!Viewer, Quiz!Take
<1>6. ASSUME NEW i \in DOMAIN v2, Quiz!DeleteQuestion(i)
      PROVE  Quiz!TypeOK'
  <2>2. (v2 \in Quiz!Quizzes)'
    <3>0. v2 \in Quiz!Quizzes /\ v9 \in Quiz!Quizzes
        OBVIOUS
    <3> HIDE DEF Quiz!Quizzes, Quiz!Chapter, Quiz!TypeOK
    <3>1. v2[i].questions > 0 => [v2 EXCEPT ![i].questions = @ - 1,
          ![i].refs = {}] \in Quiz!Quizzes
      <4>1. v2[i] \in Quiz!Chapter /\ v2 \in Seq(Quiz!Chapter)
          BY <3>0, QuizHas
      <4>2. v2[i].questions > 0 => [[v2[i] EXCEPT !.questions = @ - 1] EXCEPT !.refs = {}] \in Quiz!Chapter
        <5>1. ASSUME NEW c \in Quiz!Chapter, c.questions > 0
              PROVE  [[c EXCEPT !.questions = @ - 1] EXCEPT !.refs = {}] \in Quiz!Chapter
          <6>1. c.questions - 1 \in 0..MaxQuestions
              BY <5>1, QuizBounds DEF Quiz!Chapter
          <6> QED
              BY <6>1 DEF Quiz!Chapter
        <5> QED
            BY <4>1, <5>1
      <4>3. [v2 EXCEPT ![i].questions = @ - 1, ![i].refs = {}]
            = [v2 EXCEPT ![i] = [[v2[i] EXCEPT !.questions = @ - 1] EXCEPT !.refs = {}]]
          BY <4>1
      <4> QED
          BY <3>0, <4>2, <4>3, ChapterSet
    <3> QED
        BY <1>6, <3>0, <3>1, BecomesFit DEF Quiz!DeleteQuestion, Quiz!Edit
  <2> QED
      BY <1>6, <2>2, QuizBounds DEF Quiz!DeleteQuestion, Quiz!Edit, Quiz!Imports, Quiz!Page,
         Quiz!Reachable, Quiz!Become, Quiz!Editing, Quiz!Viewer, Quiz!Take
<1>7. ASSUME NEW i \in DOMAIN v2, Quiz!Unrefer(i)
      PROVE  Quiz!TypeOK'
  <2>2. (v2 \in Quiz!Quizzes)'
    <3>0. v2 \in Quiz!Quizzes /\ v9 \in Quiz!Quizzes
        OBVIOUS
    <3> HIDE DEF Quiz!Quizzes, Quiz!Chapter, Quiz!TypeOK
    <3>1. [v2 EXCEPT ![i].refs = {}] \in Quiz!Quizzes
      <4>1. v2[i] \in Quiz!Chapter
          BY <3>0, QuizHas
      <4>2. [v2[i] EXCEPT !.refs = {}] \in Quiz!Chapter
          BY <4>1 DEF Quiz!Chapter
      <4> QED
          BY <3>0, <4>2, ChapterSet
    <3> QED
        BY <1>7, <3>0, <3>1, BecomesFit DEF Quiz!Unrefer, Quiz!Edit
  <2> QED
      BY <1>7, <2>2, QuizBounds DEF Quiz!Unrefer, Quiz!Edit, Quiz!Imports, Quiz!Page,
         Quiz!Reachable, Quiz!Become, Quiz!Editing, Quiz!Viewer, Quiz!Take
<1>8. ASSUME NEW i \in DOMAIN v2, NEW j \in DOMAIN v2, Quiz!MoveChapter(i, j)
      PROVE  Quiz!TypeOK'
  <2>2. (v2 \in Quiz!Quizzes)'
    <3>0. v2 \in Quiz!Quizzes /\ v9 \in Quiz!Quizzes
        OBVIOUS
    <3> HIDE DEF Quiz!Quizzes, Quiz!Chapter, Quiz!TypeOK
    <3>1. [v2 EXCEPT ![i] = v2[j], ![j] = v2[i]] \in Quiz!Quizzes
      <4> DEFINE a == [v2 EXCEPT ![i] = v2[j]]
      <4>0. v2[i] \in Quiz!Chapter /\ v2[j] \in Quiz!Chapter
          BY <3>0, QuizHas
      <4>1. a \in Quiz!Quizzes
          BY <3>0, <4>0, ChapterSet
      <4>2. DOMAIN a = DOMAIN v2
          OBVIOUS
      <4> HIDE DEF a
      <4>3. [a EXCEPT ![j] = v2[i]] \in Quiz!Quizzes
          BY <4>0, <4>1, <4>2, ChapterSet
      <4> QED
          BY <4>3 DEF a
    <3> QED
        BY <1>8, <3>0, <3>1, BecomesFit DEF Quiz!MoveChapter, Quiz!Edit
  <2> QED
      BY <1>8, <2>2, QuizBounds DEF Quiz!MoveChapter, Quiz!Edit, Quiz!Imports, Quiz!Page,
         Quiz!Reachable, Quiz!Become, Quiz!Editing, Quiz!Viewer, Quiz!Take
<1>9. ASSUME NEW i \in DOMAIN v2, NEW files \in SUBSET Images, Quiz!PickImages(i, files)
      PROVE  Quiz!TypeOK'
  <2>4. (v4 \in [at : 0..Cardinality(Chapters), base : Quiz!Chapter, left : SUBSET Images])'
    <3>1. v2[i] \in Quiz!Chapter /\ i \in 0..Cardinality(Chapters)
      <4>1. v2 \in Quiz!Quizzes
          OBVIOUS
      <4> HIDE DEF Quiz!Quizzes, Quiz!Chapter, Quiz!TypeOK
      <4>2. v2[i] \in Quiz!Chapter /\ i \in 1..Cardinality(Chapters)
          BY <4>1, QuizHas
      <4> QED
          BY <4>2
    <3> HIDE DEF Quiz!Chapter
    <3> QED
        BY <1>9, <3>1 DEF Quiz!PickImages
  <2> QED
      BY QuizCounts, <1>9, <2>4, QuizBounds DEF Quiz!PickImages, Quiz!Imports, Quiz!Viewer,
         Quiz!Page,
         Quiz!NoInsert, Quiz!Reachable, Quiz!Empty, Quiz!First, Quiz!Editing
<1>10. ASSUME NEW g \in Images, Quiz!Reencoded(g)
      PROVE  Quiz!TypeOK'
  <2>2. (v2 \in Quiz!Quizzes)'
    <3>0. v2 \in Quiz!Quizzes /\ v9 \in Quiz!Quizzes
        OBVIOUS
    <3> HIDE DEF Quiz!Quizzes, Quiz!Chapter, Quiz!TypeOK
    <3> DEFINE put == [v4.base EXCEPT !.refs = @ \cup {g}]
    <3>1. v4.at \in 0..Cardinality(Chapters) /\ v4.base \in Quiz!Chapter /\ v4.at > 0
        BY QuizCounts, <1>10 DEF Quiz!TypeOK, Quiz!PlaceFits, Quiz!Reencoded
    <3>2. put \in Quiz!Chapter
        BY <3>1 DEF Quiz!Chapter
    <3> HIDE DEF put
    <3>3. v4.at <= Len(v2) + 1 =>
          (IF v4.at \in DOMAIN v2 THEN [v2 EXCEPT ![v4.at] = put] ELSE Append(v2,
          put)) \in Quiz!Quizzes
      <4>1. v2 \in Seq(Quiz!Chapter) /\ Len(v2) <= Cardinality(Chapters)
          BY <3>0, QuizHas
      <4>2. v4.at \in DOMAIN v2 => [v2 EXCEPT ![v4.at] = put] \in Quiz!Quizzes
          BY <3>0, <3>2, ChapterSet
      <4>3. v4.at <= Len(v2) + 1 /\ v4.at \notin DOMAIN v2 => Append(v2, put) \in Quiz!Quizzes
        <5>1. Append(v2, put) \in Seq(Quiz!Chapter) /\ Len(Append(v2, put)) = Len(v2) + 1
              /\ Len(v2) \in Nat
            BY <3>2, <4>1
        <5>2. v4.at <= Len(v2) + 1 /\ v4.at \notin DOMAIN v2 => v4.at = Len(v2) + 1
            BY <3>0, <3>1, <5>1, SomeChapters, QuizHas
        <5>3. v4.at <= Len(v2) + 1 /\ v4.at \notin DOMAIN v2 => Len(Append(v2,
              put)) <= Cardinality(Chapters)
            BY <3>1, <5>1, <5>2, SomeChapters
        <5> QED
            BY <5>1, <5>3, QuizIs
      <4> QED
          BY <4>2, <4>3
    <3>4. v4.at <= Len(v2) + 1
          /\ Quiz!Become(IF v4.at \in DOMAIN v2 THEN [v2 EXCEPT ![v4.at] = put] ELSE Append(v2,
             put))
        BY <1>10 DEF Quiz!Reencoded, put
    <3> QED
        BY <3>0, <3>3, <3>4, BecomesFit
  <2>4. (v4 \in [at : 0..Cardinality(Chapters), base : Quiz!Chapter, left : SUBSET Images])'
    <3> HIDE DEF Quiz!Chapter
    <3> QED
        BY QuizCounts, <1>10, QuizRestFits DEF Quiz!Reencoded, Quiz!NotEncoded
  <2>9. (v9 \in Quiz!Quizzes)'
    <3>0. v2 \in Quiz!Quizzes /\ v9 \in Quiz!Quizzes
        OBVIOUS
    <3> HIDE DEF Quiz!Quizzes, Quiz!Chapter, Quiz!TypeOK
    <3> DEFINE put == [v4.base EXCEPT !.refs = @ \cup {g}]
    <3>1. v4.at \in 0..Cardinality(Chapters) /\ v4.base \in Quiz!Chapter /\ v4.at > 0
        BY QuizCounts, <1>10 DEF Quiz!TypeOK, Quiz!PlaceFits, Quiz!Reencoded
    <3>2. put \in Quiz!Chapter
        BY <3>1 DEF Quiz!Chapter
    <3> HIDE DEF put
    <3>3. v4.at <= Len(v2) + 1 =>
          (IF v4.at \in DOMAIN v2 THEN [v2 EXCEPT ![v4.at] = put] ELSE Append(v2,
          put)) \in Quiz!Quizzes
      <4>1. v2 \in Seq(Quiz!Chapter) /\ Len(v2) <= Cardinality(Chapters)
          BY <3>0, QuizHas
      <4>2. v4.at \in DOMAIN v2 => [v2 EXCEPT ![v4.at] = put] \in Quiz!Quizzes
          BY <3>0, <3>2, ChapterSet
      <4>3. v4.at <= Len(v2) + 1 /\ v4.at \notin DOMAIN v2 => Append(v2, put) \in Quiz!Quizzes
        <5>1. Append(v2, put) \in Seq(Quiz!Chapter) /\ Len(Append(v2, put)) = Len(v2) + 1
              /\ Len(v2) \in Nat
            BY <3>2, <4>1
        <5>2. v4.at <= Len(v2) + 1 /\ v4.at \notin DOMAIN v2 => v4.at = Len(v2) + 1
            BY <3>0, <3>1, <5>1, SomeChapters, QuizHas
        <5>3. v4.at <= Len(v2) + 1 /\ v4.at \notin DOMAIN v2 => Len(Append(v2,
              put)) <= Cardinality(Chapters)
            BY <3>1, <5>1, <5>2, SomeChapters
        <5> QED
            BY <5>1, <5>3, QuizIs
      <4> QED
          BY <4>2, <4>3
    <3>4. v4.at <= Len(v2) + 1
          /\ Quiz!Become(IF v4.at \in DOMAIN v2 THEN [v2 EXCEPT ![v4.at] = put] ELSE Append(v2,
             put))
        BY <1>10 DEF Quiz!Reencoded, put
    <3> QED
        BY <3>0, <3>3, <3>4, BecomesFit
  <2> QED
      BY QuizCounts, <1>10, <2>2, <2>4, <2>9, QuizBounds DEF Quiz!Reencoded, Quiz!Imports,
         Quiz!Page,
         Quiz!Editing, Quiz!Become, Quiz!Rest, Quiz!Viewer, Quiz!Take, Quiz!NoInsert,
         Quiz!Empty, Quiz!First
<1>11. ASSUME NEW g \in Images, Quiz!TooMany(g)
      PROVE  Quiz!TypeOK'
  <2>4. (v4 \in [at : 0..Cardinality(Chapters), base : Quiz!Chapter, left : SUBSET Images])'
    <3> HIDE DEF Quiz!Chapter
    <3> QED
        BY <1>11, SomeChapters DEF Quiz!TooMany, Quiz!Breaks, Quiz!Saved, Quiz!Cleared
  <2> QED
      BY QuizCounts, <1>11, <2>4, QuizBounds DEF Quiz!TooMany, Quiz!Imports, Quiz!Viewer,
         Quiz!Page,
         Quiz!NoInsert, Quiz!Editing, Quiz!Empty, Quiz!First
<1>12. ASSUME NEW g \in Images, Quiz!Breaks(g)
      PROVE  Quiz!TypeOK'
  <2>2. (v2 \in Quiz!Quizzes)'
    <3> HIDE DEF Quiz!Quizzes
    <3> QED
        BY <1>12, SomeChapters DEF Quiz!Breaks, Quiz!Saved, Quiz!Cleared, Quiz!ClosePreview
  <2>4. (v4 \in [at : 0..Cardinality(Chapters), base : Quiz!Chapter, left : SUBSET Images])'
    <3> HIDE DEF Quiz!Chapter
    <3> QED
        BY <1>12, SomeChapters DEF Quiz!TooMany, Quiz!Breaks, Quiz!Saved, Quiz!Cleared
  <2>9. (v9 \in Quiz!Quizzes)'
    <3> HIDE DEF Quiz!Quizzes
    <3> QED
        BY <1>12, SomeChapters DEF Quiz!Breaks, Quiz!Saved, Quiz!Cleared, Quiz!ClosePreview
  <2> QED
      BY QuizCounts, <1>12, <2>2, <2>4, <2>9, QuizBounds DEF Quiz!Breaks, Quiz!Page,
         Quiz!Editing,
         Quiz!Cleared, Quiz!NoInsert, Quiz!Empty, Quiz!First
<1>13. ASSUME NEW g \in Images, Quiz!NotEncoded(g)
      PROVE  Quiz!TypeOK'
  <2>4. (v4 \in [at : 0..Cardinality(Chapters), base : Quiz!Chapter, left : SUBSET Images])'
    <3> HIDE DEF Quiz!Chapter
    <3> QED
        BY QuizCounts, <1>13, QuizRestFits DEF Quiz!Reencoded, Quiz!NotEncoded
  <2> QED
      BY QuizCounts, <1>13, <2>4, QuizBounds DEF Quiz!NotEncoded, Quiz!Imports, Quiz!Viewer,
         Quiz!Page,
         Quiz!Editing, Quiz!Rest, Quiz!NoInsert, Quiz!Empty, Quiz!First
<1>14. CASE Quiz!AskImport
    BY <1>14, QuizBounds DEF Quiz!AskImport, Quiz!Viewer, Quiz!Page, Quiz!Total, Quiz!Reachable,
       Quiz!Editing
<1>15. CASE Quiz!Parsed
  <2>2. (v2 \in Quiz!Quizzes)'
    <3> HIDE DEF Quiz!Quizzes
    <3> QED
        BY <1>15, SomeChapters, BecomesFit DEF Quiz!Parsed, Quiz!ConfirmImport, Quiz!Viewer
  <2>9. (v9 \in Quiz!Quizzes)'
    <3> HIDE DEF Quiz!Quizzes
    <3> QED
        BY <1>15, SomeChapters, BecomesFit DEF Quiz!Parsed, Quiz!ConfirmImport, Quiz!Viewer
  <2> QED
      BY <1>15, <2>2, <2>9, QuizBounds DEF Quiz!Parsed, Quiz!Viewer, Quiz!Page, Quiz!Editing,
         Quiz!Become, Quiz!Imported, Quiz!Take, Quiz!Empty, Quiz!First
<1>16. CASE Quiz!NotParsed
    BY <1>16, QuizBounds DEF Quiz!NotParsed, Quiz!Viewer, Quiz!Page, Quiz!Editing
<1>17. ASSUME NEW yes \in BOOLEAN, Quiz!ConfirmImport(yes)
      PROVE  Quiz!TypeOK'
  <2>2. (v2 \in Quiz!Quizzes)'
    <3> HIDE DEF Quiz!Quizzes
    <3> QED
        BY <1>17, SomeChapters, BecomesFit DEF Quiz!Parsed, Quiz!ConfirmImport, Quiz!Viewer
  <2>9. (v9 \in Quiz!Quizzes)'
    <3> HIDE DEF Quiz!Quizzes
    <3> QED
        BY <1>17, SomeChapters, BecomesFit DEF Quiz!Parsed, Quiz!ConfirmImport, Quiz!Viewer
  <2> QED
      BY <1>17, <2>2, <2>9, QuizBounds DEF Quiz!ConfirmImport, Quiz!Viewer, Quiz!Page,
         Quiz!Editing, Quiz!Become, Quiz!Imported, Quiz!Take, Quiz!Empty, Quiz!First
<1>18. CASE Quiz!Save
    BY <1>18, QuizBounds DEF Quiz!Save, Quiz!Imports, Quiz!Viewer, Quiz!Page, Quiz!Reachable,
       Quiz!Editing
<1>19. CASE Quiz!Submit
    BY <1>19, QuizBounds DEF Quiz!Submit, Quiz!Imports, Quiz!Viewer, Quiz!Page, Quiz!Total,
       Quiz!Reachable, Quiz!Editing
<1>20. CASE Quiz!Saved
  <2>2. (v2 \in Quiz!Quizzes)'
    <3> HIDE DEF Quiz!Quizzes
    <3> QED
        BY <1>20, SomeChapters DEF Quiz!Breaks, Quiz!Saved, Quiz!Cleared, Quiz!ClosePreview
  <2>4. (v4 \in [at : 0..Cardinality(Chapters), base : Quiz!Chapter, left : SUBSET Images])'
    <3> HIDE DEF Quiz!Chapter
    <3> QED
        BY <1>20, SomeChapters DEF Quiz!TooMany, Quiz!Breaks, Quiz!Saved, Quiz!Cleared
  <2>9. (v9 \in Quiz!Quizzes)'
    <3> HIDE DEF Quiz!Quizzes
    <3> QED
        BY <1>20, SomeChapters DEF Quiz!Breaks, Quiz!Saved, Quiz!Cleared, Quiz!ClosePreview
  <2> QED
      BY QuizCounts, <1>20, <2>2, <2>4, <2>9, QuizBounds DEF Quiz!Saved, Quiz!Page,
         Quiz!Editing,
         Quiz!Cleared, Quiz!NoInsert, Quiz!Empty, Quiz!First
<1>21. CASE Quiz!NotSaved
    BY <1>21, QuizBounds DEF Quiz!NotSaved, Quiz!Imports, Quiz!Viewer, Quiz!Page, Quiz!Editing
<1>22. ASSUME NEW c \in Chapters, Quiz!Answer(c)
      PROVE  Quiz!TypeOK'
    BY <1>22, QuizBounds DEF Quiz!Answer, Quiz!Imports, Quiz!Page, Quiz!Questioned,
       Quiz!Answerable, Quiz!Ids, Quiz!Editing
<1>23. CASE Quiz!Finish
    BY <1>23, QuizBounds DEF Quiz!Finish, Quiz!Imports, Quiz!Page, Quiz!Answerable, Quiz!Editing
<1>24. CASE Quiz!Retry
    BY <1>24, QuizBounds DEF Quiz!Retry, Quiz!Imports, Quiz!Page, Quiz!Answerable, Quiz!Editing
<1>25. CASE Quiz!OpenFile
  <2>13. (v13 \in 1..MaxFiles)'
    <3>1. v13 \in 1..MaxFiles /\ v14 \subseteq 1..MaxFiles
        OBVIOUS
    <3> HIDE DEF Quiz!TypeOK, Quiz!Chapter, Quiz!Quizzes
    <3> QED
        BY <1>25, <3>1, QuizBounds DEF Quiz!OpenFile
  <2>14. (v14 \subseteq 1..MaxFiles)'
    <3>1. v13 \in 1..MaxFiles /\ v14 \subseteq 1..MaxFiles
        OBVIOUS
    <3> HIDE DEF Quiz!TypeOK, Quiz!Chapter, Quiz!Quizzes
    <3> QED
        BY <1>25, <3>1, QuizBounds DEF Quiz!OpenFile
  <2> QED
      BY <1>25, <2>13, <2>14, QuizBounds DEF Quiz!OpenFile, Quiz!Imports, Quiz!Viewer
<1>26. ASSUME NEW n \in 1..MaxFiles, NEW ok \in BOOLEAN, Quiz!Loaded(n, ok)
      PROVE  Quiz!TypeOK'
  <2>17. (v17 \in 0..MaxFiles)'
    <3>1. v17 \in 0..MaxFiles
        OBVIOUS
    <3> HIDE DEF Quiz!TypeOK, Quiz!Chapter, Quiz!Quizzes
    <3> QED
        BY <1>26, <3>1, QuizBounds DEF Quiz!Loaded
  <2> QED
      BY <1>26, <2>17, QuizBounds, ZenonT(30) DEF Quiz!Loaded, Quiz!Imports
<1>27. ASSUME NEW c \in Chapters, Quiz!Unchoose(c)
      PROVE  Quiz!TypeOK'
    BY <1>27, QuizBounds DEF Quiz!Unchoose, Quiz!Imports, Quiz!Page
<1>28. CASE UNCHANGED Quiz!quizVars
    BY <1>28, QuizBounds DEF Quiz!quizVars
<1> QED
    BY <1>1, <1>2, <1>3, <1>4, <1>5, <1>6, <1>7, <1>8, <1>9, <1>10, <1>11, <1>12,
       <1>13, <1>14, <1>15, <1>16, <1>17, <1>18, <1>19, <1>20, <1>21, <1>22, <1>23, <1>24,
       <1>25, <1>26, <1>27, <1>28 DEF Quiz!Next

-----------------------------------------------------------------------------
(* Discussions: v1 view, v2 at, v3 ever, v4 alive, v5 wire, v6 threads, v7 *)
(* seenRootIds, v8 cursor, v9 hasMore, v10 load, v11 failed, v12 form, v13 *)
(* tip, v14 sends.                                                         *)

\* The part's number of elements is the library's.
LEMMA DiscussCounts == \A S : Discuss!Cardinality(S) = Cardinality(S)
    BY Zenon DEF Discuss!Cardinality, Cardinality

\* The first subject is one, and to load nothing is a load.
LEMMA FirstFits == Discuss!First \in Subjects /\ Discuss!NoLoad \in Discuss!Load
<1>1. Discuss!First \in Subjects
    BY DiscussBounds DEF Discuss!First
<1> QED
    BY <1>1, DiscussBounds DEF Discuss!NoLoad, Discuss!NoNote, Discuss!Load

\* The first states have their types.
LEMMA DiscussTypesStart == Discuss!Init => Discuss!TypeOK
<1> SUFFICES ASSUME Discuss!Init PROVE Discuss!TypeOK
    OBVIOUS
<1> USE DEF Discuss!TypeOK, Discuss!Notes, Discuss!Threads, Discuss!Events, Discuss!Sends
<1>1. v1 \in {"annotations", "comments"}
    BY DiscussBounds DEF Discuss!Init, Discuss!First, Discuss!NoLoad, Discuss!NoForm,
       Discuss!NoNote
<1>2. v2 \in Subjects
    BY FirstFits, DiscussBounds DEF Discuss!Init
<1>3. v3 \subseteq Discuss!Notes
    BY FirstFits, DiscussBounds DEF Discuss!Init
<1>4. v4 \subseteq v3
    BY DiscussBounds DEF Discuss!Init, Discuss!First, Discuss!NoLoad, Discuss!NoForm,
       Discuss!NoNote
<1>5. v5 \in Seq(Discuss!Events)
    BY DiscussBounds DEF Discuss!Init, Discuss!First, Discuss!NoLoad, Discuss!NoForm,
       Discuss!NoNote
<1>6. v6 \subseteq Discuss!Threads
    BY DiscussBounds DEF Discuss!Init, Discuss!First, Discuss!NoLoad, Discuss!NoForm,
       Discuss!NoNote
<1>7. v7 \subseteq Discuss!Notes
    BY DiscussBounds DEF Discuss!Init, Discuss!First, Discuss!NoLoad, Discuss!NoForm,
       Discuss!NoNote
<1>8. v8 \in 0..MaxRoots
    BY DiscussBounds DEF Discuss!Init, Discuss!First, Discuss!NoLoad, Discuss!NoForm,
       Discuss!NoNote
<1>9. v9 \in BOOLEAN
    BY DiscussBounds DEF Discuss!Init, Discuss!First, Discuss!NoLoad, Discuss!NoForm,
       Discuss!NoNote
<1>10. v11 \in BOOLEAN
    BY DiscussBounds DEF Discuss!Init, Discuss!First, Discuss!NoLoad, Discuss!NoForm,
       Discuss!NoNote
<1>11. v10 . phase \in {"none", "asked", "read"}
    BY DiscussBounds DEF Discuss!Init, Discuss!First, Discuss!NoLoad, Discuss!NoForm,
       Discuss!NoNote
<1>12. v12 . what \in {"none", "reply", "edit"}
    BY DiscussBounds DEF Discuss!Init, Discuss!First, Discuss!NoLoad, Discuss!NoForm,
       Discuss!NoNote
<1>13. v13 \in BOOLEAN
    BY DiscussBounds DEF Discuss!Init, Discuss!First, Discuss!NoLoad, Discuss!NoForm,
       Discuss!NoNote
<1>14. v14 \subseteq Discuss!Sends
    BY DiscussBounds DEF Discuss!Init, Discuss!First, Discuss!NoLoad, Discuss!NoForm,
       Discuss!NoNote
<1> QED
    BY <1>1, <1>2, <1>3, <1>4, <1>5, <1>6, <1>7, <1>8, <1>9, <1>10, <1>11, <1>12,
       <1>13, <1>14

\* A page that leaves some notes out has a first root.
LEMMA PageHasFirst ==
    ASSUME NEW older \in SUBSET Discuss!Notes, NEW page,
           page = {n \in older : Discuss!Live => Cardinality({m \in older : m.root > n.root}) < PageLimit},
           page # older
    PROVE  \E k \in 1..MaxRoots : \E n \in page : n.root = k /\ \A m \in page : k <= m.root
<1>1. \A n \in Discuss!Notes : n.root \in 1..MaxRoots /\ MaxRoots - n.root \in Nat
    BY DiscussBounds DEF Discuss!Notes
<1>2. PICK l \in {MaxRoots - n.root : n \in older} : \A m \in {MaxRoots - n.root : n \in older} : l <= m
  <2>1. {MaxRoots - n.root : n \in older} \in SUBSET Nat
        /\ {MaxRoots - n.root : n \in older} # {}
      BY <1>1
  <2> QED
      BY <2>1, LeastNumber
<1>3. PICK n \in older : l = MaxRoots - n.root
    BY <1>2
<1>4. ASSUME NEW m \in older, m.root > n.root PROVE FALSE
  <2>1. l <= MaxRoots - m.root /\ n.root \in 1..MaxRoots /\ m.root \in 1..MaxRoots
      BY <1>1, <1>2
  <2> QED
      BY <1>3, <1>4, <2>1, DiscussBounds
<1>a. page \subseteq older
    OBVIOUS
<1>5. n \in page
  <2>1. {m \in older : m.root > n.root} = {}
      BY <1>4
  <2> QED
      BY <2>1, FS_EmptySet, DiscussBounds
<1>6. {m.root : m \in page} \in SUBSET Nat /\ {m.root : m \in page} # {}
  <2>1. \A m \in page : m.root \in Nat
      BY <1>1, <1>a, DiscussBounds
  <2>2. n.root \in {m.root : m \in page}
      BY <1>5
  <2> QED
      BY <2>1, <2>2
<1>7. PICK k \in {m.root : m \in page} : \A i \in {m.root : m \in page} : k <= i
    BY <1>6, LeastNumber
<1> QED
    BY <1>1, <1>7, <1>a

\* Asking for annotations leaves the load in its type and the cursor within
\* the roots.
LEMMA FetchLoads ==
    ASSUME Discuss!TypeOK, Discuss!LoadFits, NEW reset \in BOOLEAN, Discuss!fetchAnnotations(v2,
           reset)
    PROVE  Discuss!LoadFits' /\ v8' \in 0..MaxRoots
<1>1. v2 \in Subjects /\ v8 \in 0..MaxRoots
    BY DEF Discuss!TypeOK
<1>2. [Discuss!NoLoad EXCEPT !.of = v2, !.reset = reset, !.phase = "asked",
      !.after = IF reset THEN 0 ELSE v8] \in Discuss!Load
  <2>1. PICK after \in 0..MaxRoots : after = IF reset THEN 0 ELSE v8
      BY <1>1, DiscussBounds
  <2>2. Discuss!NoLoad \in Discuss!Load
      BY FirstFits
  <2>3. [Discuss!NoLoad EXCEPT !.of = v2, !.reset = reset, !.phase = "asked",
        !.after = after] \in Discuss!Load
      BY <1>1, <2>2 DEF Discuss!Load
  <2> QED
      BY <2>1, <2>3
<1> QED
    BY <1>1, <1>2, DiscussBounds DEF Discuss!fetchAnnotations, Discuss!LoadFits

\* Nothing is loaded or sent at first.
LEMMA LoadStarts == Discuss!Init => Discuss!LoadFits /\ Discuss!SendsFit
<1> SUFFICES ASSUME Discuss!Init PROVE Discuss!LoadFits /\ Discuss!SendsFit
    OBVIOUS
<1>1. [Discuss!NoLoad EXCEPT !.of = v2, !.reset = TRUE, !.phase = "asked"] \in Discuss!Load
    BY FirstFits DEF Discuss!Init, Discuss!Load
<1> QED
    BY <1>1 DEF Discuss!Init, Discuss!LoadFits, Discuss!SendsFit, Discuss!NoForm

\* Every step keeps the load in its type.
LEMMA LoadStep ==
    Discuss!TypeOK /\ Discuss!LoadFits /\ [Discuss!Next]_(Discuss!discussVars)
    => Discuss!LoadFits'
<1> SUFFICES ASSUME Discuss!TypeOK, Discuss!LoadFits, [Discuss!Next]_(Discuss!discussVars)
             PROVE  Discuss!LoadFits'
    OBVIOUS
<1>1. CASE UNCHANGED v10
    BY <1>1 DEF Discuss!LoadFits, Discuss!Load
<1>2. CASE Discuss!Resync \/ Discuss!Retry \/ Discuss!loadMore
    BY <1>2, FetchLoads DEF Discuss!Resync, Discuss!Retry, Discuss!loadMore
<1>3. CASE Discuss!LoadReads
  <2> DEFINE older == {n \in v4 : n.on = v10.of /\ n.reply = 0 /\ (v10.after = 0
      \/ n.root < v10.after)}
             page == {n \in older : Discuss!Live => Discuss!Cardinality({m \in older : m.root > n.root}) < PageLimit}
             items == {[root |-> n, replies |-> {m \in v4 : m.reply = 1
             /\ Discuss!Root(m) = n}] : n \in page}
             next == IF page = older THEN 0
                     ELSE CHOOSE k \in 1..MaxRoots : \E n \in page : n.root = k
                     /\ \A m \in page : k <= m.root
  <2>1. older \in SUBSET Discuss!Notes /\ \A n \in older : n.reply = 0
      BY DEF Discuss!TypeOK
  <2>2. items \subseteq Discuss!Threads
    <3>1. page \subseteq older
        OBVIOUS
    <3> HIDE DEF page, older
    <3> QED
        BY <2>1, <3>1 DEF Discuss!TypeOK, Discuss!Threads
  <2>3. v10' = [v10 EXCEPT !.phase = "read", !.items = items, !.next = next]
      BY <1>3 DEF Discuss!LoadReads
  <2>4. next \in 0..MaxRoots
    <3> HIDE DEF older
    <3>1. CASE page # older
      <4>1. \E k \in 1..MaxRoots : \E n \in page : n.root = k /\ \A m \in page : k <= m.root
          BY <2>1, <3>1, PageHasFirst, DiscussCounts
      <4> HIDE DEF page
      <4> QED
          BY <3>1, <4>1
    <3> QED
        BY <3>1, DiscussBounds
  <2> HIDE DEF items, next
  <2> QED
      BY <2>2, <2>3, <2>4 DEF Discuss!LoadFits, Discuss!Load
<1>4. CASE Discuss!LoadAnswered \/ Discuss!LoadFails
    BY <1>4, FirstFits DEF Discuss!LoadAnswered, Discuss!LoadFails, Discuss!LoadFits
<1>5. ASSUME NEW p \in Subjects, Discuss!OpenPage(p)
      PROVE  Discuss!LoadFits'
  <2>1. [Discuss!NoLoad EXCEPT !.of = p, !.reset = TRUE, !.phase = "asked"] \in Discuss!Load
      BY FirstFits DEF Discuss!Load
  <2> QED
      BY <1>1, <1>5, <2>1 DEF Discuss!OpenPage, Discuss!LoadFits
<1>6. ASSUME NEW n \in Discuss!Notes,
             \/ Discuss!OtherWrites(n) \/ Discuss!OtherErases(n) \/ Discuss!handleReply(n)
                \/ Discuss!handleStartEdit(n) \/ Discuss!Delete(n)
             \/ Discuss!SubmitRoot(n) \/ Discuss!SubmitTip(n) \/ Discuss!SubmitReply(n)
      PROVE  UNCHANGED v10
    BY <1>6 DEF Discuss!OtherWrites, Discuss!OtherErases, Discuss!handleReply,
       Discuss!handleStartEdit, Discuss!Delete, Discuss!SubmitRoot, Discuss!SubmitTip,
       Discuss!SubmitReply, Discuss!Send
<1>7. ASSUME NEW s \in Discuss!Sends, Discuss!Created(s) \/ Discuss!Edited(s)
             \/ Discuss!Deleted(s) \/ Discuss!Refused(s)
      PROVE  UNCHANGED v10
    BY <1>7 DEF Discuss!Created, Discuss!Edited, Discuss!Deleted, Discuss!Refused
<1>8. ASSUME Discuss!EventArrives \/ Discuss!handleCancel \/ Discuss!Annotate
             \/ Discuss!ClickOutside \/ Discuss!SaveEdit \/ UNCHANGED Discuss!discussVars
      PROVE  UNCHANGED v10
    BY <1>8 DEF Discuss!EventArrives, Discuss!handleCancel, Discuss!Annotate,
       Discuss!ClickOutside, Discuss!SaveEdit, Discuss!discussVars
<1> QED
    BY <1>1, <1>2, <1>3, <1>4, <1>5, <1>6, <1>7, <1>8 DEF Discuss!Next

\* Every step keeps what is being sent, and to whom, in its type.
LEMMA SendsStep ==
    Discuss!TypeOK /\ Discuss!SendsFit /\ [Discuss!Next]_(Discuss!discussVars)
    => Discuss!SendsFit'
<1> SUFFICES ASSUME Discuss!TypeOK, Discuss!SendsFit, [Discuss!Next]_(Discuss!discussVars)
             PROVE  Discuss!SendsFit'
    OBVIOUS
<1> USE DEF Discuss!SendsFit, Discuss!Live
<1>1. CASE UNCHANGED <<v1, v12, v14>>
    BY <1>1
<1>2. ASSUME Discuss!OtherWrites(CHOOSE n : TRUE) \/ Discuss!Resync \/ Discuss!Retry
             \/ Discuss!loadMore \/ Discuss!LoadReads \/ Discuss!LoadAnswered
                \/ Discuss!LoadFails
             \/ Discuss!EventArrives \/ Discuss!Annotate \/ Discuss!ClickOutside
                \/ UNCHANGED Discuss!discussVars
      PROVE  UNCHANGED <<v1, v12, v14>>
    BY <1>2 DEF Discuss!OtherWrites, Discuss!Resync, Discuss!Retry, Discuss!loadMore,
       Discuss!LoadReads, Discuss!LoadAnswered, Discuss!LoadFails, Discuss!EventArrives,
       Discuss!Annotate,
                Discuss!ClickOutside, Discuss!discussVars, Discuss!Forms
<1>3. ASSUME NEW p \in Subjects, Discuss!OpenPage(p)
      PROVE  UNCHANGED <<v1, v12, v14>>
    BY <1>3 DEF Discuss!OpenPage, Discuss!Forms
<1>4. ASSUME NEW n \in Discuss!Notes, Discuss!OtherWrites(n) \/ Discuss!OtherErases(n)
      PROVE  UNCHANGED <<v1, v12, v14>>
    BY <1>4 DEF Discuss!OtherWrites, Discuss!OtherErases, Discuss!Forms
<1>5. ASSUME NEW n \in Discuss!Notes, Discuss!handleReply(n) \/ Discuss!handleStartEdit(n)
             \/ Discuss!Delete(n)
      PROVE  Discuss!SendsFit'
    BY <1>5 DEF Discuss!handleReply, Discuss!handleStartEdit, Discuss!Delete, Discuss!Forms
<1>6. ASSUME NEW n \in Discuss!Notes, Discuss!SubmitRoot(n) \/ Discuss!SubmitTip(n)
             \/ Discuss!SubmitReply(n)
      PROVE  Discuss!SendsFit'
    BY <1>6 DEF Discuss!SubmitRoot, Discuss!SubmitTip, Discuss!SubmitReply, Discuss!Send,
       Discuss!Forms
<1>7. CASE Discuss!handleCancel \/ Discuss!SaveEdit
    BY <1>7 DEF Discuss!handleCancel, Discuss!SaveEdit, Discuss!NoForm, Discuss!Forms
<1>8. ASSUME NEW s \in Discuss!Sends, Discuss!Created(s) \/ Discuss!Edited(s)
             \/ Discuss!Deleted(s) \/ Discuss!Refused(s)
      PROVE  Discuss!SendsFit'
    BY <1>8 DEF Discuss!Created, Discuss!Edited, Discuss!Deleted, Discuss!Refused,
       Discuss!Closes, Discuss!NoForm, Discuss!Forms
<1> QED
    BY <1>1, <1>2, <1>3, <1>4, <1>5, <1>6, <1>7, <1>8 DEF Discuss!Next

\* An event that is emitted joins the sequence of events.
LEMMA EmitsFit ==
    ASSUME Discuss!TypeOK, NEW n \in Discuss!Notes, NEW what \in {"created", "deleted"},
           Discuss!Emit(what, n)
    PROVE  v5' \in Seq(Discuss!Events)
<1>1. [what |-> what, note |-> n] \in Discuss!Events
    BY DEF Discuss!Events
<1> QED
    BY <1>1 DEF Discuss!TypeOK, Discuss!Emit

\* Applying an event leaves threads and notes.
LEMMA AppliedFits ==
    ASSUME Discuss!TypeOK, NEW n \in Discuss!Notes, Discuss!applyCreated(n)
           \/ Discuss!applyDeleted(n)
    PROVE  v6' \subseteq Discuss!Threads /\ v7' \subseteq Discuss!Notes
<1>1. v7' \subseteq Discuss!Notes
    BY DEF Discuss!TypeOK, Discuss!applyCreated, Discuss!applyDeleted
<1>2. n.reply = 0 => [root |-> n, replies |-> {}] \in Discuss!Threads
    BY DEF Discuss!Threads
<1>3. n.reply # 0 => \A t \in Discuss!Threads : [t EXCEPT !.replies = @ \cup {n}] \in Discuss!Threads
    BY DEF Discuss!Threads, Discuss!Notes
<1>4. \A t \in Discuss!Threads : [t EXCEPT !.replies = @ \ {n}] \in Discuss!Threads
    BY DEF Discuss!Threads
<1>5. v6' \subseteq Discuss!Threads
    BY <1>2, <1>3, <1>4 DEF Discuss!TypeOK, Discuss!applyCreated, Discuss!applyDeleted,
       Discuss!WithoutRoot, Discuss!WithoutReply
<1> QED
    BY <1>1, <1>5

\* Every step keeps the types.
LEMMA DiscussTypesKept ==
    Discuss!TypeOK /\ [Discuss!Next]_(Discuss!discussVars) /\ Discuss!LoadFits
    /\ Discuss!SendsFit
    => Discuss!TypeOK'
<1> SUFFICES ASSUME Discuss!TypeOK, [Discuss!Next]_(Discuss!discussVars), Discuss!LoadFits,
    Discuss!SendsFit
             PROVE  Discuss!TypeOK'
    OBVIOUS
<1> USE DEF Discuss!TypeOK, Discuss!Notes, Discuss!Threads, Discuss!Events, Discuss!Sends
<1>1. ASSUME NEW n \in Discuss!Notes, Discuss!OtherWrites(n)
      PROVE  Discuss!TypeOK'
    BY <1>1, DiscussBounds DEF Discuss!OtherWrites, Discuss!List, Discuss!Paging, Discuss!Forms,
       Discuss!Live, Discuss!Write, Discuss!Emit, Discuss!Writable, Discuss!Root
<1>2. ASSUME NEW n \in Discuss!Notes, Discuss!OtherErases(n)
      PROVE  Discuss!TypeOK'
    BY <1>2, DiscussBounds DEF Discuss!OtherErases, Discuss!List, Discuss!Paging, Discuss!Forms,
       Discuss!Live, Discuss!Erase, Discuss!Root, Discuss!Emit
<1>3. ASSUME NEW n \in Discuss!Notes, Discuss!handleReply(n)
      PROVE  Discuss!TypeOK'
    BY <1>3, DiscussBounds DEF Discuss!handleReply, Discuss!Server, Discuss!List,
       Discuss!Paging, Discuss!Root, Discuss!Live, Discuss!Listed
<1>4. ASSUME NEW n \in Discuss!Notes, Discuss!handleStartEdit(n)
      PROVE  Discuss!TypeOK'
    BY <1>4, DiscussBounds DEF Discuss!handleStartEdit, Discuss!Server, Discuss!List,
       Discuss!Paging, Discuss!Listed
<1>5. ASSUME NEW n \in Discuss!Notes, Discuss!Delete(n)
      PROVE  Discuss!TypeOK'
    BY <1>5, DiscussBounds, SMTT(20) DEF Discuss!Delete, Discuss!Server, Discuss!List, Discuss!Paging,
       Discuss!Forms, Discuss!Live, Discuss!applyDeleted, Discuss!Listed,
       Discuss!WithoutRoot, Discuss!WithoutReply
<1>6. ASSUME NEW n \in Discuss!Notes, Discuss!SubmitRoot(n)
      PROVE  Discuss!TypeOK'
  <2>5. (v5 \in Seq(Discuss!Events))'
    <3> HIDE DEF Discuss!TypeOK, Discuss!Events, Discuss!Notes
    <3> QED
        BY <1>6, EmitsFit DEF Discuss!SubmitRoot, Discuss!Send, Discuss!Write
  <2> QED
      BY <1>6, <2>5, DiscussBounds DEF Discuss!SubmitRoot, Discuss!Send, Discuss!List,
         Discuss!Paging, Discuss!Forms, Discuss!Write, Discuss!Emit, Discuss!Writable,
         Discuss!Live, Discuss!Root
<1>7. ASSUME NEW n \in Discuss!Notes, Discuss!SubmitTip(n)
      PROVE  Discuss!TypeOK'
  <2>5. (v5 \in Seq(Discuss!Events))'
    <3> HIDE DEF Discuss!TypeOK, Discuss!Events, Discuss!Notes
    <3> QED
        BY <1>7, EmitsFit DEF Discuss!SubmitTip, Discuss!Send, Discuss!Write
  <2> QED
      BY <1>7, <2>5, DiscussBounds DEF Discuss!SubmitTip, Discuss!Send, Discuss!List,
         Discuss!Paging, Discuss!Forms, Discuss!Write, Discuss!Emit, Discuss!Writable,
         Discuss!Live, Discuss!Root
<1>8. ASSUME NEW n \in Discuss!Notes, Discuss!SubmitReply(n)
      PROVE  Discuss!TypeOK'
  <2>5. (v5 \in Seq(Discuss!Events))'
    <3> HIDE DEF Discuss!TypeOK, Discuss!Events, Discuss!Notes
    <3> QED
        BY <1>8, EmitsFit DEF Discuss!SubmitReply, Discuss!Send, Discuss!Write
  <2> QED
      BY <1>8, <2>5, DiscussBounds DEF Discuss!SubmitReply, Discuss!Root, Discuss!Send,
         Discuss!List, Discuss!Paging, Discuss!Forms, Discuss!Write, Discuss!Emit,
         Discuss!Writable, Discuss!Live
<1>9. CASE Discuss!EventArrives
  <2>6. (v6 \subseteq Discuss!Threads)'
    <3> HIDE DEF Discuss!TypeOK, Discuss!Threads, Discuss!Notes, Discuss!Events
    <3>1. Head(v5) \in Discuss!Events
        BY <1>9 DEF Discuss!EventArrives, Discuss!TypeOK
    <3>2. Head(v5).note \in Discuss!Notes
        BY <3>1 DEF Discuss!Events
    <3> QED
        BY <1>9, <3>2, AppliedFits DEF Discuss!EventArrives
  <2>7. (v7 \subseteq Discuss!Notes)'
    <3> HIDE DEF Discuss!TypeOK, Discuss!Threads, Discuss!Notes, Discuss!Events
    <3>1. Head(v5) \in Discuss!Events
        BY <1>9 DEF Discuss!EventArrives, Discuss!TypeOK
    <3>2. Head(v5).note \in Discuss!Notes
        BY <3>1 DEF Discuss!Events
    <3> QED
        BY <1>9, <3>2, AppliedFits DEF Discuss!EventArrives
  <2> QED
      BY <1>9, <2>6, <2>7, DiscussBounds DEF Discuss!EventArrives, Discuss!Paging,
         Discuss!Forms, Discuss!applyCreated,
         Discuss!applyDeleted, Discuss!Root, Discuss!WithoutRoot, Discuss!WithoutReply
<1>10. CASE Discuss!Resync
  <2>1. (/\ v1 \in {"annotations", "comments"} /\ v2 \in Subjects /\ v3 \subseteq Discuss!Notes
         /\ v4 \subseteq v3 /\ v5 \in Seq(Discuss!Events) /\ v6 \subseteq Discuss!Threads)'
      BY <1>10, DiscussBounds DEF Discuss!Resync, Discuss!List, Discuss!Forms, Discuss!Live,
         Discuss!fetchAnnotations, Discuss!NoLoad, Discuss!NoNote,
         Discuss!First
  <2>7. (/\ v7 \subseteq Discuss!Notes /\ v8 \in 0..MaxRoots /\ v9 \in BOOLEAN)'
      BY <1>10, DiscussBounds DEF Discuss!Resync, Discuss!List, Discuss!Forms, Discuss!Live,
         Discuss!fetchAnnotations, Discuss!NoLoad, Discuss!NoNote,
         Discuss!First
  <2>10. (/\ v11 \in BOOLEAN /\ v10 . phase \in {"none", "asked", "read"}
          /\ v12 . what \in {"none", "reply", "edit"} /\ v13 \in BOOLEAN
          /\ v14 \subseteq Discuss!Sends)'
      BY <1>10, DiscussBounds DEF Discuss!Resync, Discuss!List, Discuss!Forms, Discuss!Live,
         Discuss!fetchAnnotations, Discuss!NoLoad, Discuss!NoNote,
         Discuss!First
  <2> QED
      BY <2>1, <2>7, <2>10
<1>11. CASE Discuss!Retry
  <2>8. (v8 \in 0..MaxRoots)'
    <3> HIDE DEF Discuss!TypeOK, Discuss!Threads, Discuss!Notes, Discuss!Events
    <3> QED
        BY <1>11, Discuss!LoadFits, FetchLoads DEF Discuss!Retry
  <2> QED
      BY <1>11, <2>8, DiscussBounds DEF Discuss!Retry, Discuss!Server, Discuss!List,
         Discuss!Forms, Discuss!Live, Discuss!fetchAnnotations, Discuss!NoLoad,
         Discuss!NoNote, Discuss!First
<1>12. CASE Discuss!loadMore
    BY <1>12, DiscussBounds DEF Discuss!loadMore, Discuss!Server, Discuss!List, Discuss!Forms,
       Discuss!NoLoad, Discuss!Live, Discuss!fetchAnnotations,
       Discuss!NoNote, Discuss!First
<1>13. CASE Discuss!LoadReads
    BY <1>13, DiscussBounds DEF Discuss!LoadReads, Discuss!Server, Discuss!List, Discuss!Paging,
       Discuss!Forms, Discuss!Root, Discuss!Live
<1>14. CASE Discuss!LoadAnswered
  <2>6. (/\ v6 \subseteq Discuss!Threads /\ v8 \in 0..MaxRoots)'
      BY <1>14, Discuss!LoadFits DEF Discuss!LoadAnswered, Discuss!LoadFits, Discuss!Load
  <2>7. (v7 \subseteq Discuss!Notes)'
      BY <1>14, Discuss!LoadFits DEF Discuss!LoadAnswered, Discuss!RootsOf, Discuss!LoadFits,
         Discuss!Load
  <2> QED
      BY <1>14, <2>6, <2>7, DiscussBounds DEF Discuss!LoadAnswered, Discuss!Server,
         Discuss!Forms, Discuss!NoLoad, Discuss!RootsOf, Discuss!NoNote,
         Discuss!First
<1>15. CASE Discuss!LoadFails
    BY <1>15, DiscussBounds DEF Discuss!LoadFails, Discuss!Server, Discuss!List, Discuss!Paging,
       Discuss!Forms, Discuss!NoLoad, Discuss!Live, Discuss!NoNote, Discuss!First
<1>16. ASSUME NEW p \in Subjects, Discuss!OpenPage(p)
      PROVE  Discuss!TypeOK'
    BY <1>16, DiscussBounds DEF Discuss!OpenPage, Discuss!Forms, Discuss!First, Discuss!NoLoad,
       Discuss!Live, Discuss!NoNote
<1>17. CASE Discuss!handleCancel
    BY <1>17, DiscussBounds DEF Discuss!handleCancel, Discuss!Server, Discuss!List,
       Discuss!Paging, Discuss!NoForm, Discuss!NoNote, Discuss!First
<1>18. CASE Discuss!Annotate
    BY <1>18, DiscussBounds DEF Discuss!Annotate, Discuss!Server, Discuss!List, Discuss!Paging,
       Discuss!Live
<1>19. CASE Discuss!ClickOutside
    BY <1>19, DiscussBounds DEF Discuss!ClickOutside, Discuss!Server, Discuss!List,
       Discuss!Paging
<1>20. CASE Discuss!SaveEdit
    BY <1>20, DiscussBounds DEF Discuss!SaveEdit, Discuss!Server, Discuss!List, Discuss!Paging,
       Discuss!Forms, Discuss!Listed
<1>21. ASSUME NEW s \in Discuss!Sends, Discuss!Created(s)
      PROVE  Discuss!TypeOK'
  <2>6. (v6 \subseteq Discuss!Threads)'
    <3> HIDE DEF Discuss!TypeOK, Discuss!Threads, Discuss!Notes, Discuss!Events
    <3>1. s.note \in Discuss!Notes
        BY DEF Discuss!Sends
    <3>2. CASE Discuss!Live
        BY <1>21, <3>1, <3>2, AppliedFits DEF Discuss!Created
    <3>3. CASE ~Discuss!Live
      <4>1. s.note.reply = 0
          BY <1>21, <3>3, Discuss!SendsFit DEF Discuss!Created, Discuss!SendsFit
      <4>2. [root |-> s.note, replies |-> {}] \in Discuss!Threads
          BY <3>1, <4>1 DEF Discuss!Threads
      <4> QED
          BY <1>21, <3>3, <4>2 DEF Discuss!Created, Discuss!TypeOK
    <3> QED
        BY <3>2, <3>3
  <2> QED
      BY <1>21, <2>6, DiscussBounds DEF Discuss!Created, Discuss!Server, Discuss!Paging,
         Discuss!Live, Discuss!applyCreated, Discuss!Closes, Discuss!Root,
         Discuss!NoForm, Discuss!NoNote, Discuss!First
<1>22. ASSUME NEW s \in Discuss!Sends, Discuss!Edited(s)
      PROVE  Discuss!TypeOK'
    BY <1>22, DiscussBounds DEF Discuss!Edited, Discuss!Server, Discuss!List, Discuss!Paging,
       Discuss!Closes, Discuss!NoForm, Discuss!NoNote, Discuss!First
<1>23. ASSUME NEW s \in Discuss!Sends, Discuss!Deleted(s)
      PROVE  Discuss!TypeOK'
  <2>5. (v5 \in Seq(Discuss!Events))'
    <3> HIDE DEF Discuss!TypeOK, Discuss!Threads, Discuss!Notes, Discuss!Events
    <3>1. s.note \in Discuss!Notes
        BY DEF Discuss!Sends
    <3> QED
        BY <1>23, <3>1, EmitsFit DEF Discuss!Deleted, Discuss!Erase
  <2>6. (v6 \subseteq Discuss!Threads)'
    <3> HIDE DEF Discuss!TypeOK, Discuss!Threads, Discuss!Notes, Discuss!Events
    <3>1. s.note \in Discuss!Notes
        BY DEF Discuss!Sends
    <3> QED
        BY <1>23, <3>1, AppliedFits DEF Discuss!Deleted, Discuss!List, Discuss!TypeOK
  <2> QED
      BY <1>23, <2>5, <2>6, DiscussBounds DEF Discuss!Deleted, Discuss!List, Discuss!Paging,
         Discuss!Forms, Discuss!Live, Discuss!Erase,
         Discuss!applyDeleted, Discuss!Root, Discuss!Emit, Discuss!WithoutRoot,
         Discuss!WithoutReply
<1>24. ASSUME NEW s \in Discuss!Sends, Discuss!Refused(s)
      PROVE  Discuss!TypeOK'
    BY <1>24, DiscussBounds DEF Discuss!Refused, Discuss!Server, Discuss!List, Discuss!Paging,
       Discuss!Forms
<1>25. CASE UNCHANGED Discuss!discussVars
    BY <1>25, DiscussBounds DEF Discuss!discussVars
<1> QED
    BY <1>1, <1>2, <1>3, <1>4, <1>5, <1>6, <1>7, <1>8, <1>9, <1>10, <1>11, <1>12,
       <1>13, <1>14, <1>15, <1>16, <1>17, <1>18, <1>19, <1>20, <1>21, <1>22, <1>23, <1>24,
       <1>25 DEF Discuss!Next

-----------------------------------------------------------------------------
(* DirectoryListing: v1 parent, v2 here, v3 rows, v4 crumbs, v5            *)
(* ghostDirStack, v6 focusedIndex, v7 lastSelectedIndex, v8 viewMode, v9   *)
(* selectMode, v10 selected, v11 clipboard, v12 draft, v13 batch, v14      *)
(* submittingBatch, v15 sends, v16 zip.                                    *)

\* The part's number of elements is the library's.
LEMMA ListingCounts == \A S : Listing!Cardinality(S) = Cardinality(S)
    BY Zenon DEF Listing!Cardinality, Cardinality

\* The named parts of the invariant make up the types.
LEMMA ListingIsTyped == Listing!ListingFits => Listing!TypeOK
    BY DEF Listing!ListingFits, Listing!TreeFits, Listing!StackFits, Listing!FocusFits,
       Listing!SelectionFits, Listing!DraftFits, Listing!BatchFits, Listing!ZipFits, Listing!TypeOK,
           Listing!NoBatch

\* The first states have their types.
LEMMA ListingTypesStart == Listing!Init => Listing!ListingFits
<1> SUFFICES ASSUME Listing!Init PROVE Listing!ListingFits
    OBVIOUS
<1>1. Listing!TreeFits
    BY DEF Listing!Init, Listing!TreeFits, Listing!Folders
<1>2. Listing!ZipFits
    BY ListingBounds DEF Listing!Init, Listing!ZipFits, Listing!NoZip
<1>3. Listing!StackFits /\ Listing!DraftFits
    BY ListingBounds DEF Listing!Init, Listing!StackFits, Listing!DraftFits
<1>4. Listing!FocusFits /\ Listing!SelectionFits /\ Listing!BatchFits
    BY DEF Listing!Init, Listing!FocusFits, Listing!SelectionFits, Listing!BatchFits
<1> QED
    BY <1>1, <1>2, <1>3, <1>4 DEF Listing!ListingFits

\* What a set is mapped to is finite as it is.
LEMMA MappedIsFinite ==
    ASSUME NEW S, IsFiniteSet(S), NEW f
    PROVE  IsFiniteSet({f[x] : x \in S})
<1> DEFINE T == {f[x] : x \in S}
           g == [x \in S |-> f[x]]
<1>1. g \in Surjection(S, T)
    BY DEF Surjection
<1> QED
    BY <1>1, FS_Surjection

\* The tree has finitely many places.
LEMMA TreeIsFinite == IsFiniteSet(Listing!Rowed) /\ IsFiniteSet(Listing!Places)
<1>1. IsFiniteSet(Subfolders \cup Leaves)
    BY ListingBounds, FS_Union
<1>2. IsFiniteSet((Subfolders \cup Leaves) \cup Drafted)
    BY <1>1, ListingBounds, FS_Union
<1>3. IsFiniteSet({"root"})
    BY FS_Singleton
<1>4. IsFiniteSet(Subfolders \cup {"root"})
    BY <1>3, ListingBounds, FS_Union
<1>5. IsFiniteSet((Subfolders \cup {"root"}) \cup Drafted)
    BY <1>4, ListingBounds, FS_Union
<1> QED
    BY <1>2, <1>5 DEF Listing!Rowed, Listing!TreeItems, Listing!Places, Listing!Folders

\* The draft has finitely many operations.
LEMMA OpsAreFinite == IsFiniteSet(Listing!Ops)
<1> DEFINE D == [kind : {"delete"}, of : Listing!Rowed, to : {"none"}]
           M == [kind : {"move"}, of : Listing!Rowed, to : Listing!Places]
           d == [x \in Listing!Rowed |-> [kind |-> "delete", of |-> x, to |-> "none"]]
           m == [x \in Listing!Rowed \X Listing!Places |-> [kind |-> "move", of |-> x[1],
           to |-> x[2]]]
<1>1. IsFiniteSet(Listing!Rowed \X Listing!Places)
    BY TreeIsFinite, FS_Product
<1>2. d \in Surjection(Listing!Rowed, D)
  <2>1. d \in [Listing!Rowed -> D]
      OBVIOUS
  <2>2. \A t \in D : t.of \in Listing!Rowed /\ d[t.of] = t
      OBVIOUS
  <2> QED
      BY <2>1, <2>2 DEF Surjection
<1>3. m \in Surjection(Listing!Rowed \X Listing!Places, M)
  <2>1. m \in [Listing!Rowed \X Listing!Places -> M]
      OBVIOUS
  <2>2. ASSUME NEW t \in M PROVE <<t.of, t.to>> \in Listing!Rowed \X Listing!Places /\ m[<<t.of,
               t.to>>] = t
    <3>1. <<t.of, t.to>> \in Listing!Rowed \X Listing!Places
        OBVIOUS
    <3>2. m[<<t.of, t.to>>] = [kind |-> "move", of |-> t.of, to |-> t.to]
        BY <3>1
    <3> QED
        BY <3>1, <3>2
  <2> QED
      BY <2>1, <2>2 DEF Surjection
<1>4. IsFiniteSet(D)
    BY <1>2, TreeIsFinite, FS_Surjection
<1>5. IsFiniteSet(M)
    BY <1>1, <1>3, FS_Surjection
<1> QED
    BY <1>4, <1>5, FS_Union DEF Listing!Ops

\* A set in some order.
LEMMA SetInOrder ==
    ASSUME NEW S, IsFiniteSet(S)
    PROVE  Listing!SetToSeq(S) \in Seq(S) /\ Len(Listing!SetToSeq(S)) = Cardinality(S)
<1>1. Cardinality(S) \in Nat /\ ExistsBijection(1..Cardinality(S), S)
    BY FS_CardinalityType
<1>2. PICK f \in [1..Cardinality(S) -> S] : IsInjective(f)
    BY <1>1 DEF ExistsBijection, Bijection, Injection
<1>3. Listing!SetToSeq(S) \in [1..Cardinality(S) -> S]
    BY ListingCounts, <1>2 DEF Listing!SetToSeq, Listing!IsInjective, IsInjective
<1> QED
    BY <1>1, <1>3

\* Rows in order are a sequence of rows.
LEMMA OrderedFits ==
    ASSUME NEW S \in SUBSET Listing!Rowed, NEW ghost \in BOOLEAN
    PROVE  Listing!Ordered(S, ghost) \in Seq(Listing!RowRecords)
<1> DEFINE f == [i \in S |-> [of |-> i, ghost |-> ghost]]
           T == {f[i] : i \in S}
<1>1. IsFiniteSet(S)
    BY TreeIsFinite, FS_Subset
<1>2. IsFiniteSet(T)
  <2> HIDE DEF f
  <2> QED
      BY <1>1, MappedIsFinite
<1>3. T = {[of |-> i, ghost |-> ghost] : i \in S} /\ T \subseteq Listing!RowRecords
    BY DEF Listing!RowRecords
<1>4. Listing!Ordered(S, ghost) = Listing!SetToSeq(T)
    BY <1>3 DEF Listing!Ordered
<1> HIDE DEF T
<1> QED
    BY <1>2, <1>3, <1>4, SetInOrder

\* The flat list of items is a sequence of rows.
LEMMA RowsFit == Listing!ListingFits => Listing!flatItems \in Seq(Listing!RowRecords)
<1> SUFFICES ASSUME Listing!ListingFits PROVE Listing!flatItems \in Seq(Listing!RowRecords)
    OBVIOUS
<1> DEFINE A == Listing!Ordered(Listing!effective \cap Subfolders, FALSE)
           B == Listing!Ordered(Listing!Ghosts(Subfolders \cup Drafted), TRUE)
           C == Listing!Ordered(Listing!effective \cap Leaves, FALSE)
           D == Listing!Ordered(Listing!Ghosts(Leaves), TRUE)
<1>1. /\ Listing!effective \cap Subfolders \subseteq Listing!Rowed
         /\ Listing!effective \cap Leaves \subseteq Listing!Rowed
      /\ Listing!Ghosts(Subfolders \cup Drafted) \subseteq Listing!Rowed
         /\ Listing!Ghosts(Leaves) \subseteq Listing!Rowed
    BY DEF Listing!Ghosts, Listing!Rowed, Listing!TreeItems
<1>2. A \in Seq(Listing!RowRecords) /\ B \in Seq(Listing!RowRecords)
      /\ C \in Seq(Listing!RowRecords) /\ D \in Seq(Listing!RowRecords)
    BY <1>1, OrderedFits
<1>3. Listing!flatItems = ((A \o B) \o C) \o D
    BY DEF Listing!flatItems
<1> HIDE DEF A, B, C, D
<1>4. A \o B \in Seq(Listing!RowRecords)
    BY <1>2
<1>5. (A \o B) \o C \in Seq(Listing!RowRecords)
    BY <1>2, <1>4
<1> QED
    BY <1>2, <1>3, <1>5

\* A row is numbered, and is of something listed.
LEMMA RowFits ==
    ASSUME Listing!ListingFits, NEW n \in DOMAIN Listing!flatItems
    PROVE  n \in Nat /\ Listing!flatItems[n].of \in Listing!Rowed
<1>1. n \in 1..Len(Listing!flatItems) /\ Listing!flatItems[n] \in Listing!RowRecords
    BY RowsFit
<1> QED
    BY <1>1 DEF Listing!RowRecords

\* The page that is open is of a place in the tree.
LEMMA DirFits == ASSUME Listing!ListingFits, v2 # "away" PROVE Listing!dirId \in Listing!Places
<1>1. CASE Listing!InDraft
  <2>1. v5 \in Seq(Drafted \cup Subfolders) /\ v5 # <<>>
      BY <1>1 DEF Listing!ListingFits, Listing!StackFits, Listing!InDraft
  <2>2. Listing!Last(v5) \in Drafted \cup Subfolders
      BY <2>1 DEF Listing!Last
  <2> QED
      BY <1>1, <2>2 DEF Listing!dirId, Listing!Places, Listing!Folders
<1>2. CASE ~Listing!InDraft
    BY <1>2 DEF Listing!dirId, Listing!ListingFits, Listing!TreeFits, Listing!Places
<1> QED
    BY <1>1, <1>2

\* What may be selected on the open page may be chosen.
LEMMA SelectableFits ==
    ASSUME Listing!ListingFits, v2 # "away"
    PROVE  /\ \A n \in DOMAIN Listing!flatItems : Listing!Selectable(n) \in Listing!Chosen
           /\ Listing!allSelectableItems \subseteq Listing!Chosen
    BY RowFits, DirFits DEF Listing!Selectable, Listing!allSelectableItems, Listing!Chosen

\* A step that leaves a part's variables alone leaves that part as it was.
LEMMA ListingUnmoved ==
    ASSUME Listing!ListingFits
    PROVE  /\ UNCHANGED <<v1, Listing!Told, v8>> => Listing!TreeFits'
           /\ UNCHANGED v5 => Listing!StackFits'
           /\ UNCHANGED Listing!Focus => Listing!FocusFits'
           /\ UNCHANGED Listing!Selection => Listing!SelectionFits'
           /\ UNCHANGED v12 => Listing!DraftFits'
           /\ UNCHANGED Listing!Batch => Listing!BatchFits'
           /\ UNCHANGED v16 => Listing!ZipFits'
<1>1. UNCHANGED <<v1, Listing!Told, v8>> => Listing!TreeFits'
    BY DEF Listing!ListingFits, Listing!TreeFits, Listing!Told, Listing!TreeItems,
       Listing!Folders
<1>2. UNCHANGED v5 => Listing!StackFits'
    BY DEF Listing!ListingFits, Listing!StackFits
<1>3. UNCHANGED Listing!Focus => Listing!FocusFits'
    BY DEF Listing!ListingFits, Listing!FocusFits, Listing!Focus
<1>4. UNCHANGED Listing!Selection => Listing!SelectionFits'
    BY DEF Listing!ListingFits, Listing!SelectionFits, Listing!Selection, Listing!Chosen
<1>5. UNCHANGED v12 => Listing!DraftFits'
    BY DEF Listing!ListingFits, Listing!DraftFits, Listing!Ops, Listing!Creates
<1>6. UNCHANGED Listing!Batch => Listing!BatchFits'
    BY DEF Listing!ListingFits, Listing!BatchFits, Listing!Batch, Listing!Ops, Listing!NoBatch
<1>7. UNCHANGED v16 => Listing!ZipFits'
    BY DEF Listing!ListingFits, Listing!ZipFits
<1> QED
    BY <1>1, <1>2, <1>3, <1>4, <1>5, <1>6, <1>7

\* A listing that is mounted again has its types.
LEMMA RemountedFits ==
    ASSUME Listing!ListingFits, Listing!Remounted
    PROVE  Listing!StackFits' /\ Listing!FocusFits' /\ Listing!BatchFits' /\ Listing!ZipFits'
<1>1. Listing!StackFits'
    BY ListingBounds DEF Listing!Remounted, Listing!StackFits
<1>2. Listing!FocusFits'
    BY DEF Listing!Remounted, Listing!FocusFits
<1>3. v15' \subseteq {"delete", "move"} \X {"here", "left"}
    BY DEF Listing!Remounted, Listing!ListingFits, Listing!BatchFits
<1>4. Listing!BatchFits'
    BY <1>3 DEF Listing!Remounted, Listing!BatchFits, Listing!NoBatch
<1>5. Listing!ZipFits'
    BY ListingBounds DEF Listing!Remounted, Listing!ZipFits, Listing!NoZip
<1> QED
    BY <1>1, <1>2, <1>4, <1>5

\* Leaving the page keeps all parts.
LEMMA AwayFits == ASSUME Listing!ListingFits, Listing!Away, UNCHANGED <<v1, v8,
Listing!Selection, v12>> PROVE Listing!ListingFits'
<1>1. Listing!TreeFits'
    BY DEF Listing!Away, Listing!ListingFits, Listing!TreeFits, Listing!TreeItems,
       Listing!Folders
<1> QED
    BY <1>1, RemountedFits, ListingUnmoved DEF Listing!Away, Listing!ListingFits

\* Following a folder, cached or not, keeps all parts.
LEMMA FollowFits == ASSUME Listing!ListingFits, NEW f \in Listing!Folders,
NEW cached \in BOOLEAN, Listing!Follow(f, cached) PROVE Listing!ListingFits'
<1>1. CASE Listing!Arrive(f, cached)
  <2>1. UNCHANGED <<v1, v8, Listing!Selection, v12>>
      BY DEF Listing!Follow
  <2>2. Listing!Children(f) \subseteq Listing!TreeItems
        /\ Listing!Above(f) \subseteq Listing!Folders
      BY DEF Listing!Children, Listing!Above
  <2>3. Listing!TreeFits'
      BY <1>1, <2>1, <2>2 DEF Listing!Arrive, Listing!ListingFits, Listing!TreeFits,
         Listing!TreeItems, Listing!Folders
  <2>4. CASE v6' = 0 /\ v7' = 0 /\ UNCHANGED <<v5, Listing!Batch, v16>>
    <3>1. Listing!FocusFits'
        BY <2>4 DEF Listing!FocusFits
    <3> QED
        BY <2>1, <2>3, <2>4, <3>1, ListingUnmoved DEF Listing!ListingFits
  <2>5. CASE Listing!Remounted
      BY <2>1, <2>3, <2>5, RemountedFits, ListingUnmoved DEF Listing!ListingFits
  <2> QED
      BY <1>1, <2>4, <2>5 DEF Listing!Arrive
<1>2. CASE Listing!Away
    BY <1>2, AwayFits DEF Listing!Follow
<1> QED
    BY <1>1, <1>2 DEF Listing!Follow

\* Pressing the row of a folder keeps all parts.
LEMMA PressFolderFits ==
    ASSUME Listing!ListingFits, NEW n \in DOMAIN Listing!flatItems, NEW cached \in BOOLEAN,
           Listing!PressFolder(n, cached)
    PROVE  Listing!ListingFits'
<1>1. CASE Listing!IsGhostDir(n) /\ Len(v5) < MaxDepth /\ Listing!enterGhostDir(n)
  <2>1. Listing!flatItems[n].of \in Drafted \cup Subfolders
      BY <1>1, RowFits DEF Listing!IsGhostDir, Listing!Rowed, Listing!TreeItems
  <2>2. v5 \in Seq(Drafted \cup Subfolders)
      BY DEF Listing!ListingFits, Listing!StackFits
  <2> DEFINE i == Listing!flatItems[n].of
  <2> HIDE DEF i
  <2>3. v5' = Append(v5, i) /\ i \in Drafted \cup Subfolders
      BY <1>1, <2>1 DEF Listing!enterGhostDir, i
  <2>4. Listing!StackFits'
      BY <1>1, <2>2, <2>3, ListingBounds DEF Listing!StackFits
  <2> QED
      BY <1>1, <2>4, ListingUnmoved DEF Listing!enterGhostDir, Listing!Stays,
         Listing!ListingFits
<1>2. CASE Listing!flatItems[n].of \in Subfolders /\ Listing!Follow(Listing!flatItems[n].of,
      cached)
    BY <1>2, FollowFits DEF Listing!Folders
<1> QED
    BY <1>1, <1>2 DEF Listing!PressFolder

\* Pressing the row of anything else keeps all parts.
LEMMA PressLeafFits == ASSUME Listing!ListingFits, NEW n,
Listing!PressLeaf(n) PROVE Listing!ListingFits'
    BY AwayFits DEF Listing!PressLeaf, Listing!Leave

\* Entering or leaving the selection keeps the selection and the focus in
\* their types.
LEMMA ModeFits ==
    ASSUME Listing!ListingFits, NEW on \in BOOLEAN, NEW chosen \in SUBSET Listing!Chosen,
           Listing!Mode(on, chosen)
    PROVE  v9' \in BOOLEAN /\ v10' \subseteq Listing!Chosen /\ Listing!FocusFits'
<1>1. Listing!FocusFits'
    BY ListingUnmoved DEF Listing!Mode, Listing!FocusFits
<1> QED
    BY <1>1 DEF Listing!Mode

\* A batch that is over leaves the selection and the focus in their types.
LEMMA OverFits == ASSUME Listing!ListingFits, NEW what,
Listing!Over(what) PROVE Listing!SelectionFits' /\ Listing!FocusFits'
<1>1. v11 \subseteq Listing!Chosen /\ v9 \in BOOLEAN /\ v10 \subseteq Listing!Chosen
    BY DEF Listing!ListingFits, Listing!SelectionFits
<1>2. CASE Listing!Mode(FALSE, {}) /\ UNCHANGED v11
    BY <1>1, <1>2, ModeFits DEF Listing!SelectionFits, Listing!Chosen
<1>3. CASE v11' = {} /\ UNCHANGED <<v9, v10, Listing!Focus>>
    BY <1>1, <1>3, ListingUnmoved DEF Listing!SelectionFits, Listing!Chosen
<1> QED
    BY <1>2, <1>3 DEF Listing!Over

\* Pressing, moving about, and what others change.
LEMMA WalkStep ==
    ASSUME Listing!ListingFits,
           \/ \E f \in Listing!Folders, cached \in BOOLEAN : Listing!GoTo(f, cached)
           \/ Listing!Leave \/ Listing!refresh
           \/ \E i \in Listing!TreeItems,
              to \in Listing!Folders \cup {"gone"} : Listing!OthersChange(i, to)
           \/ \E n \in DOMAIN Listing!flatItems :
                 \/ Listing!PressLeafRow(n) \/ Listing!PressLeafCard(n)
                 \/ \E cached \in BOOLEAN : Listing!PressRow(n, cached) \/ Listing!PressCard(n,
                    cached)
           \/ Listing!Enter
    PROVE  Listing!ListingFits'
<1>1. ASSUME NEW f \in Listing!Folders, NEW cached \in BOOLEAN, Listing!GoTo(f,
             cached) PROVE Listing!ListingFits'
    BY <1>1, FollowFits DEF Listing!GoTo
<1>2. CASE Listing!Leave
    BY <1>2, AwayFits DEF Listing!Leave
<1>3. CASE Listing!refresh
  <2>1. CASE Listing!Away
      BY <1>3, <2>1, AwayFits DEF Listing!refresh
  <2>2. CASE /\ v3' = Listing!Children(v2) /\ v4' = Listing!Above(v2)
             /\ UNCHANGED <<v2, v5, Listing!Focus, Listing!Batch, v16>>
    <3>1. Listing!Children(v2) \subseteq Listing!TreeItems
          /\ Listing!Above(v2) \subseteq Listing!Folders
        BY DEF Listing!Children, Listing!Above
    <3>2. Listing!TreeFits'
        BY <1>3, <2>2, <3>1 DEF Listing!refresh, Listing!ListingFits, Listing!TreeFits,
           Listing!TreeItems, Listing!Folders
    <3> QED
        BY <1>3, <2>2, <3>2, ListingUnmoved DEF Listing!refresh, Listing!ListingFits
  <2> QED
      BY <1>3, <2>1, <2>2 DEF Listing!refresh
<1>4. ASSUME NEW i \in Listing!TreeItems, NEW to \in Listing!Folders \cup {"gone"},
             Listing!OthersChange(i, to) PROVE Listing!ListingFits'
  <2>1. v1' \in [Listing!TreeItems -> Listing!Folders \cup {"gone"}]
      BY <1>4 DEF Listing!OthersChange, Listing!ListingFits, Listing!TreeFits
  <2>2. Listing!TreeFits'
      BY <1>4, <2>1 DEF Listing!OthersChange, Listing!ListingFits, Listing!TreeFits,
         Listing!TreeItems, Listing!Folders, Listing!Told
  <2> QED
      BY <1>4, <2>2, ListingUnmoved DEF Listing!OthersChange, Listing!ListingFits
<1>5. ASSUME NEW n \in DOMAIN Listing!flatItems, Listing!PressLeafRow(n)
             \/ Listing!PressLeafCard(n) PROVE Listing!ListingFits'
    BY <1>5, PressLeafFits DEF Listing!PressLeafRow, Listing!PressLeafCard
<1>6. ASSUME NEW n \in DOMAIN Listing!flatItems, NEW cached \in BOOLEAN, Listing!PressRow(n,
             cached) \/ Listing!PressCard(n, cached)
      PROVE  Listing!ListingFits'
    BY <1>6, PressFolderFits DEF Listing!PressRow, Listing!PressCard
<1>7. CASE Listing!Enter
    BY <1>7, PressFolderFits, PressLeafFits DEF Listing!Enter
<1> QED
    BY <1>1, <1>2, <1>3, <1>4, <1>5, <1>6, <1>7

\* Focus and selection.
LEMMA SelectStep ==
    ASSUME Listing!ListingFits,
           \/ \E mode \in {"list", "grid"} : Listing!setViewMode(mode)
           \/ \E n \in DOMAIN Listing!flatItems : \E shift \in BOOLEAN : Listing!handleToggleItem(n, shift)
           \/ \E depth \in 0..MaxDepth : Listing!goBack(depth)
           \/ \E key \in {"down", "up"} : Listing!Arrow(key)
           \/ \E on \in BOOLEAN : Listing!setSelectMode(on)
           \/ Listing!toggleAll \/ Listing!handleCut \/ Listing!clearClipboard
    PROVE  Listing!ListingFits'
<1>0. v9 \in BOOLEAN /\ v10 \subseteq Listing!Chosen /\ v11 \subseteq Listing!Chosen
    BY DEF Listing!ListingFits, Listing!SelectionFits
<1>1. ASSUME NEW mode \in {"list", "grid"}, Listing!setViewMode(mode) PROVE Listing!ListingFits'
  <2>1. Listing!TreeFits'
      BY <1>1 DEF Listing!setViewMode, Listing!Stays, Listing!Told, Listing!ListingFits,
         Listing!TreeFits, Listing!TreeItems, Listing!Folders
  <2> QED
      BY <1>1, <2>1, ListingUnmoved DEF Listing!setViewMode, Listing!ListingFits
<1>2. ASSUME NEW n \in DOMAIN Listing!flatItems, NEW shift \in BOOLEAN,
             Listing!handleToggleItem(n, shift) PROVE Listing!ListingFits'
  <2>1. v2 # "away"
      BY <1>2 DEF Listing!handleToggleItem, Listing!OnListing
  <2>2. v10' \subseteq Listing!Chosen
    <3>1. CASE /\ Listing!Span(v7, n) \subseteq DOMAIN Listing!flatItems
               /\ v10' = Listing!Select({Listing!Selectable(m) : m \in Listing!Span(v7, n)})
        BY <1>0, <2>1, <3>1, SelectableFits DEF Listing!Select, Listing!Without
    <3>2. CASE v10' = Listing!toggle(Listing!Selectable(n))
        BY <1>0, <2>1, <3>2, SelectableFits DEF Listing!toggle, Listing!Without
    <3> QED
        BY <1>2, <3>1, <3>2 DEF Listing!handleToggleItem
  <2>3. Listing!SelectionFits'
      BY <1>0, <1>2, <2>2 DEF Listing!handleToggleItem, Listing!SelectionFits, Listing!Chosen
  <2>4. Listing!FocusFits'
      BY <1>2, RowFits DEF Listing!handleToggleItem, Listing!ListingFits, Listing!FocusFits
  <2> QED
      BY <1>2, <2>3, <2>4, ListingUnmoved DEF Listing!handleToggleItem, Listing!Stays,
         Listing!ListingFits
<1>3. ASSUME NEW depth \in 0..MaxDepth, Listing!goBack(depth) PROVE Listing!ListingFits'
  <2>1. v5 \in Seq(Drafted \cup Subfolders) /\ Len(v5) <= MaxDepth
      BY DEF Listing!ListingFits, Listing!StackFits
  <2>2. v5' = SubSeq(v5, 1, depth) /\ depth < Len(v5) /\ depth \in Nat
      BY <1>3, ListingBounds DEF Listing!goBack
  <2>3. Listing!StackFits'
      BY <2>1, <2>2, ListingBounds DEF Listing!StackFits
  <2> QED
      BY <1>3, <2>3, ListingUnmoved DEF Listing!goBack, Listing!Stays, Listing!ListingFits
<1>4. ASSUME NEW key \in {"down", "up"}, Listing!Arrow(key) PROVE Listing!ListingFits'
  <2>1. Len(Listing!flatItems) \in Nat /\ v6 \in Nat /\ v7 \in Nat
      BY RowsFit DEF Listing!ListingFits, Listing!FocusFits
  <2>2. v6' \in Nat
      BY <1>4, <2>1 DEF Listing!Arrow
  <2>3. Listing!FocusFits'
      BY <1>4, <2>1, <2>2 DEF Listing!Arrow, Listing!FocusFits
  <2> QED
      BY <1>4, <2>3, ListingUnmoved DEF Listing!Arrow, Listing!Stays, Listing!ListingFits
<1>5. ASSUME NEW on \in BOOLEAN, Listing!setSelectMode(on) PROVE Listing!ListingFits'
  <2>1. v9' \in BOOLEAN /\ v10' \subseteq Listing!Chosen /\ Listing!FocusFits'
      BY <1>0, <1>5, ModeFits DEF Listing!setSelectMode
  <2>2. Listing!SelectionFits'
      BY <1>0, <1>5, <2>1 DEF Listing!setSelectMode, Listing!SelectionFits, Listing!Chosen
  <2> QED
      BY <1>5, <2>1, <2>2, ListingUnmoved DEF Listing!setSelectMode, Listing!Stays,
         Listing!ListingFits
<1>6. CASE Listing!toggleAll
  <2>1. v2 # "away"
      BY <1>6 DEF Listing!toggleAll, Listing!OnListing
  <2>2. v10' \subseteq Listing!Chosen
      BY <1>0, <1>6, <2>1, SelectableFits DEF Listing!toggleAll, Listing!Select, Listing!Without
  <2>3. Listing!SelectionFits'
      BY <1>0, <1>6, <2>2 DEF Listing!toggleAll, Listing!SelectionFits, Listing!Chosen
  <2> QED
      BY <1>6, <2>3, ListingUnmoved DEF Listing!toggleAll, Listing!Stays, Listing!ListingFits
<1>7. CASE Listing!handleCut
  <2>1. v9' \in BOOLEAN /\ v10' \subseteq Listing!Chosen /\ Listing!FocusFits'
      BY <1>0, <1>7, ModeFits DEF Listing!handleCut
  <2>2. Listing!SelectionFits'
      BY <1>0, <1>7, <2>1 DEF Listing!handleCut, Listing!SelectionFits, Listing!Chosen
  <2> QED
      BY <1>7, <2>1, <2>2, ListingUnmoved DEF Listing!handleCut, Listing!Stays,
         Listing!ListingFits
<1>8. CASE Listing!clearClipboard
  <2>1. Listing!SelectionFits'
      BY <1>0, <1>8 DEF Listing!clearClipboard, Listing!SelectionFits, Listing!Chosen
  <2> QED
      BY <1>8, <2>1, ListingUnmoved DEF Listing!clearClipboard, Listing!Stays,
         Listing!ListingFits
<1> QED
    BY <1>1, <1>2, <1>3, <1>4, <1>5, <1>6, <1>7, <1>8

\* Batches, the draft and the download.
LEMMA BatchStep ==
    ASSUME Listing!ListingFits,
           \/ Listing!handleBatchDelete \/ Listing!handlePaste \/ Listing!CloseBatch
              \/ Listing!StageBatch \/ Listing!SubmitBatch
           \/ \E s \in v15 : Listing!Failed(s) \/ Listing!Submitted(s)
    PROVE  Listing!ListingFits'
<1>0. /\ v10 \subseteq Listing!Chosen /\ v11 \subseteq Listing!Chosen
      /\ v13 = Listing!NoBatch \/ v13 \in [what : {"delete", "move"}, ops : SUBSET Listing!Ops]
      /\ v14 \in BOOLEAN /\ v15 \subseteq {"delete", "move"} \X {"here", "left"}
    BY DEF Listing!ListingFits, Listing!SelectionFits, Listing!BatchFits
<1>1. CASE Listing!handleBatchDelete
  <2> DEFINE ops == {[kind |-> "delete", of |-> c.of, to |-> "none"] :
                        c \in {d \in v10 : Listing!stagedStatus(d.of) # "delete"}}
  <2>1. ops \subseteq Listing!Ops
      BY <1>0 DEF Listing!Ops, Listing!Chosen
  <2>2. CASE Listing!Mode(FALSE, {}) /\ UNCHANGED v13
    <3>1. Listing!SelectionFits' /\ Listing!FocusFits'
        BY <1>0, <1>1, <2>2, ModeFits DEF Listing!handleBatchDelete, Listing!SelectionFits,
           Listing!Chosen
    <3>2. UNCHANGED Listing!Batch
        BY <1>1, <2>2 DEF Listing!handleBatchDelete, Listing!Batch
    <3> QED
        BY <1>1, <3>1, <3>2, ListingUnmoved DEF Listing!handleBatchDelete, Listing!Stays,
           Listing!ListingFits
  <2>3. CASE v13' = [what |-> "delete", ops |-> ops] /\ UNCHANGED <<v9, v10, Listing!Focus>>
    <3>1. Listing!BatchFits'
      <4> HIDE DEF ops
      <4> QED
          BY <1>0, <1>1, <2>1, <2>3 DEF Listing!handleBatchDelete, Listing!BatchFits,
             Listing!Ops
    <3>2. UNCHANGED Listing!Selection
        BY <1>1, <2>3 DEF Listing!handleBatchDelete, Listing!Selection
    <3> QED
        BY <1>1, <2>3, <3>1, <3>2, ListingUnmoved DEF Listing!handleBatchDelete, Listing!Stays,
           Listing!ListingFits
  <2> QED
      BY <1>1, <2>2, <2>3 DEF Listing!handleBatchDelete
<1>2. CASE Listing!handlePaste
  <2> DEFINE safe == {c \in v11 : c.of \notin Listing!ancestorIds /\ c.from # Listing!dirId}
             ops == {[kind |-> "move", of |-> c.of, to |-> Listing!dirId] : c \in safe}
  <2>1. Listing!dirId \in Listing!Places
      BY <1>2, DirFits DEF Listing!handlePaste, Listing!OnListing
  <2>2. ops \subseteq Listing!Ops
      BY <1>0, <2>1 DEF Listing!Ops, Listing!Chosen
  <2>3. v13' = [what |-> "move", ops |-> ops]
      BY <1>2 DEF Listing!handlePaste
  <2>4. Listing!BatchFits'
    <3> HIDE DEF ops
    <3> QED
        BY <1>0, <1>2, <2>2, <2>3 DEF Listing!handlePaste, Listing!BatchFits, Listing!Ops
  <2> QED
      BY <1>2, <2>4, ListingUnmoved DEF Listing!handlePaste, Listing!Stays, Listing!ListingFits
<1>3. CASE Listing!CloseBatch
  <2>1. Listing!BatchFits'
      BY <1>0, <1>3 DEF Listing!CloseBatch, Listing!BatchFits, Listing!NoBatch
  <2> QED
      BY <1>3, <2>1, ListingUnmoved DEF Listing!CloseBatch, Listing!Stays, Listing!ListingFits
<1>4. CASE Listing!StageBatch
  <2>1. v13.ops \subseteq Listing!Ops
      BY <1>0, <1>4 DEF Listing!StageBatch
  <2>2. IsFiniteSet(v13.ops)
      BY <2>1, OpsAreFinite, FS_Subset
  <2> DEFINE more == Listing!SetToSeq(v13.ops)
  <2>3. more \in Seq(v13.ops) /\ Len(more) = Cardinality(v13.ops)
      BY <2>2, SetInOrder
  <2>4. v12' = v12 \o more /\ Len(v12) + Len(more) <= MaxStaged
      BY ListingCounts, <1>4, <2>3 DEF Listing!StageBatch
  <2> HIDE DEF more
  <2>5. more \in Seq(Listing!Ops \cup Listing!Creates)
        /\ v12 \in Seq(Listing!Ops \cup Listing!Creates)
      BY <2>1, <2>3 DEF Listing!ListingFits, Listing!DraftFits
  <2>6. v12' \in Seq(Listing!Ops \cup Listing!Creates) /\ Len(v12') <= MaxStaged
      BY <2>4, <2>5
  <2>7. Listing!DraftFits'
      BY <2>6 DEF Listing!DraftFits, Listing!Ops, Listing!Creates
  <2>8. Listing!BatchFits'
      BY <1>0, <1>4 DEF Listing!StageBatch, Listing!BatchFits, Listing!NoBatch
  <2>9. Listing!SelectionFits' /\ Listing!FocusFits'
      BY <1>4, OverFits DEF Listing!StageBatch
  <2> QED
      BY <1>4, <2>7, <2>8, <2>9, ListingUnmoved DEF Listing!StageBatch, Listing!Stays,
         Listing!ListingFits
<1>5. CASE Listing!SubmitBatch
  <2>1. v13.what \in {"delete", "move"}
      BY <1>0, <1>5 DEF Listing!SubmitBatch
  <2>2. Listing!BatchFits'
      BY <1>0, <1>5, <2>1 DEF Listing!SubmitBatch, Listing!BatchFits, Listing!Ops,
         Listing!NoBatch
  <2> QED
      BY <1>5, <2>2, ListingUnmoved DEF Listing!SubmitBatch, Listing!Stays, Listing!ListingFits
<1>6. ASSUME NEW s \in v15, Listing!Failed(s) PROVE Listing!ListingFits'
  <2>1. v14' \in BOOLEAN
      BY <1>0, <1>6 DEF Listing!Failed, Listing!Settles
  <2>2. Listing!BatchFits'
      BY <1>0, <1>6, <2>1 DEF Listing!Failed, Listing!Settles, Listing!BatchFits, Listing!Ops,
         Listing!NoBatch
  <2> QED
      BY <1>6, <2>2, ListingUnmoved DEF Listing!Failed, Listing!Stays, Listing!ListingFits
<1>7. ASSUME NEW s \in v15, Listing!Submitted(s) PROVE Listing!ListingFits'
  <2>1. v14' \in BOOLEAN
      BY <1>0, <1>7 DEF Listing!Submitted, Listing!Settles
  <2>2. Listing!BatchFits'
      BY <1>0, <1>7, <2>1 DEF Listing!Submitted, Listing!Settles, Listing!BatchFits,
         Listing!Ops, Listing!NoBatch
  <2>3. Listing!SelectionFits' /\ Listing!FocusFits'
      BY <1>7, OverFits DEF Listing!Submitted
  <2> QED
      BY <1>7, <2>2, <2>3, ListingUnmoved DEF Listing!Submitted, Listing!Stays,
         Listing!ListingFits
<1> QED
    BY <1>1, <1>2, <1>3, <1>4, <1>5, <1>6, <1>7

\* The steps that stage, drop and archive keep all parts.
LEMMA ListingDraftStep ==
    ASSUME Listing!ListingFits,
           \/ \E n \in DOMAIN Listing!flatItems : Listing!DeleteFromMenu(n)
           \/ \E g \in Drafted : Listing!NewFolder(g)
           \/ Listing!DraftGoes
           \/ Listing!handleDownloadZip \/ Listing!PartStarts \/ Listing!ButtonReturns
           \/ \E n \in 0..MaxArchives : Listing!ChunksArrive(n)
    PROVE  Listing!ListingFits'
<1>0. v12 \in Seq(Listing!Ops \cup Listing!Creates) /\ Len(v12) <= MaxStaged
    BY DEF Listing!ListingFits, Listing!DraftFits
<1>1. ASSUME NEW o \in Listing!Ops \cup Listing!Creates, v12' = Append(v12, o),
             Len(v12) < MaxStaged, Listing!OnDraft
      PROVE  Listing!ListingFits'
  <2>1. v12' \in Seq(Listing!Ops \cup Listing!Creates) /\ Len(v12') <= MaxStaged
      BY <1>0, <1>1, ListingBounds
  <2>2. Listing!DraftFits'
      BY <2>1 DEF Listing!DraftFits, Listing!Ops, Listing!Creates
  <2> QED
      BY <1>1, <2>2, ListingUnmoved DEF Listing!OnDraft, Listing!Stays, Listing!ListingFits
<1>2. ASSUME NEW n \in DOMAIN Listing!flatItems,
             Listing!DeleteFromMenu(n) PROVE Listing!ListingFits'
  <2>1. [kind |-> "delete", of |-> Listing!flatItems[n].of, to |-> "none"] \in Listing!Ops
      BY RowFits DEF Listing!Ops
  <2> QED
      BY <1>1, <1>2, <2>1 DEF Listing!DeleteFromMenu
<1>3. ASSUME NEW g \in Drafted, Listing!NewFolder(g) PROVE Listing!ListingFits'
  <2>1. Listing!dirId \in Listing!Places
      BY <1>3, DirFits DEF Listing!NewFolder, Listing!OnListing
  <2>2. [kind |-> "create", of |-> g, to |-> Listing!dirId] \in Listing!Creates
      BY <2>1 DEF Listing!Creates
  <2> QED
      BY <1>1, <1>3, <2>2 DEF Listing!NewFolder
<1>4. CASE Listing!DraftGoes
  <2>1. Listing!DraftFits'
      BY <1>4, ListingBounds DEF Listing!DraftGoes, Listing!DraftFits
  <2> QED
      BY <1>4, <2>1, ListingUnmoved DEF Listing!DraftGoes, Listing!OnDraft, Listing!Stays,
         Listing!ListingFits
<1>5. ASSUME Listing!ZipFits', Listing!OnZip PROVE Listing!ListingFits'
    BY <1>5, ListingUnmoved DEF Listing!OnZip, Listing!Stays, Listing!ListingFits
<1>6. ASSUME NEW n \in 0..MaxArchives, v16' = Listing!PartsLeft(n) PROVE Listing!ZipFits'
    BY <1>6, ListingBounds DEF Listing!PartsLeft, Listing!ZipFits
<1>7. CASE Listing!handleDownloadZip \/ Listing!ButtonReturns
  <2>1. Listing!ZipFits'
      BY <1>7, ListingBounds DEF Listing!handleDownloadZip, Listing!ButtonReturns,
         Listing!ZipFits, Listing!NoZip
  <2> QED
      BY <1>5, <1>7, <2>1 DEF Listing!handleDownloadZip, Listing!ButtonReturns
<1>8. CASE Listing!PartStarts
  <2>1. v16.left - 1 \in 0..MaxArchives
      BY <1>8, ListingBounds DEF Listing!PartStarts, Listing!ListingFits, Listing!ZipFits
  <2> QED
      BY <1>5, <1>6, <1>8, <2>1 DEF Listing!PartStarts
<1>9. ASSUME NEW n \in 0..MaxArchives, Listing!ChunksArrive(n) PROVE Listing!ListingFits'
  <2>1. (IF n = 0 THEN 0 ELSE n - 1) \in 0..MaxArchives
      BY ListingBounds
  <2> QED
      BY <1>5, <1>6, <1>9, <2>1 DEF Listing!ChunksArrive
<1> QED
    BY <1>2, <1>3, <1>4, <1>7, <1>8, <1>9

\* Every step keeps the types.
LEMMA ListingTypesKept ==
    Listing!ListingFits /\ [Listing!Next]_(Listing!listingVars) => Listing!ListingFits'
<1> SUFFICES ASSUME Listing!ListingFits, Listing!Next \/ UNCHANGED Listing!listingVars
             PROVE  Listing!ListingFits'
    OBVIOUS
<1>1. CASE UNCHANGED Listing!listingVars
    BY <1>1, ListingUnmoved DEF Listing!listingVars, Listing!Told, Listing!Focus,
       Listing!Selection, Listing!Batch, Listing!ListingFits
<1>2. CASE Listing!Next
    BY <1>2, WalkStep, SelectStep, BatchStep, ListingDraftStep DEF Listing!Next, Listing!Steps
<1> QED
    BY <1>1, <1>2
=============================================================================
