------------------------- MODULE BrowsingPartsProofs ------------------------
(***************************************************************************)
(* What holds in the pages on which the library is read and tended, for    *)
(* every value of the constants: lemmas about the inductive invariants,    *)
(* which stand at the end of the parts' own modules, and about every step. *)
(*                                                                         *)
(* A part's variables are the first of v1, v2, ... here, in the order of   *)
(* its module: each section says which variable is which.                  *)
(***************************************************************************)
EXTENDS BrowsingParts, Naturals, Sequences, FiniteSets, TLAPS, FiniteSetTheorems, WellFoundedInduction
-----------------------------------------------------------------------------
(* BrowsePage: v1 cached, v2 pulls, v3 page, v4 fetched, v5 fetching,      *)
(* v6 mishap, v7 events, v8 missed.                                        *)

\* Whoever joins or starts a request changes neither what it reads nor whether
\* it may fill the cache.
LEMMA WaitingFits ==
    ASSUME NEW rs \in SUBSET Browse!Pulls, NEW p \in Browse!Paths, NEW front \in BOOLEAN
    PROVE  /\ Browse!Waiting(rs, p, front) \subseteq Browse!Pulls
           /\ \A q \in Browse!Waiting(rs, p, front) :
                 \/ q.read = "none"
                 \/ \E r \in rs : r.path = q.path /\ r.valid = q.valid /\ r.read = q.read
<1> DEFINE open == {r \in rs : r.path = p /\ r.joinable}
           r == IF open = {} THEN Browse!Pull(p) ELSE CHOOSE q \in open : TRUE
           j == [r EXCEPT !.front = @ \/ front, !.back = @ \/ ~front]
<1>1. Browse!Pull(p) \in Browse!Pulls /\ Browse!Pull(p).read = "none"
    BY DEF Browse!Pull, Browse!Pulls, Browse!Ages
<1>2. r \in Browse!Pulls /\ (r \in rs \/ r.read = "none")
    BY <1>1
<1>3. Browse!Waiting(rs, p, front) = (rs \ open) \cup {j}
    BY DEF Browse!Waiting
<1> HIDE DEF open, r
<1>4. j \in Browse!Pulls /\ j.path = r.path /\ j.valid = r.valid /\ j.read = r.read
    BY <1>2 DEF Browse!Pulls
<1> HIDE DEF j
<1> QED
    BY <1>2, <1>3, <1>4

\* An event leaves no request that may fill the cache.
LEMMA DetachedFits ==
    ASSUME NEW rs \in SUBSET Browse!Pulls, NEW ps
    PROVE  /\ Browse!Detached(rs, ps) \subseteq Browse!Pulls
           /\ \A q \in Browse!Detached(rs, ps) : ~q.valid
    BY DEF Browse!Detached, Browse!Pulls

\* The step keeps the invariant when requests are the same, gone or new.
LEMMA FewerPullsFit ==
    ASSUME Browse!BrowseInv, v2' \subseteq Browse!Pulls,
           \A q \in v2' :
              \/ q.read # "old"
              \/ \E r \in v2 : r.path = q.path /\ r.valid = q.valid /\ r.read = q.read,
           UNCHANGED <<v3, v4, v7>>,
           v1' = v1 \/ \E p \in Browse!Paths : v1' = Browse!Dropped({p}) /\ UNCHANGED v7
    PROVE  Browse!BrowseInv'
<1>1. v1' \in [Browse!Paths -> Browse!Ages] /\ (Browse!CachedIsPostEvent)'
    BY DEF Browse!BrowseInv, Browse!CachedIsPostEvent, Browse!Dropped, Browse!Ages
<1>2. (Browse!Shown # "none")' => Browse!Shown # "none"
    BY DEF Browse!BrowseInv, Browse!Shown, Browse!Data, Browse!Dropped, Browse!Ages
<1>3. (Browse!ValidIsPostEvent)'
    BY <1>2 DEF Browse!BrowseInv, Browse!ValidIsPostEvent
<1> QED
    BY <1>1, <1>3 DEF Browse!BrowseInv

\* The first page asks for its listing.
LEMMA BrowseStarts == Browse!Init => Browse!BrowseInv
<1> SUFFICES ASSUME Browse!Init PROVE Browse!BrowseInv
    OBVIOUS
<1>1. v7 \in BOOLEAN
    BY Zenon DEF Browse!Init
<1>2. v2 \subseteq Browse!Pulls /\ \A q \in v2 : q.read = "none"
  <2>1. v3 \in Browse!Paths /\ v2 = Browse!Waiting({}, v3, TRUE)
    BY DEF Browse!Init
  <2> DEFINE rs == {}
  <2>2. rs \in SUBSET Browse!Pulls /\ v2 = Browse!Waiting(rs, v3, TRUE)
    BY <2>1
  <2>3. \A r \in rs : FALSE
    OBVIOUS
  <2> HIDE DEF rs
  <2> QED
    BY <2>1, <2>2, <2>3, WaitingFits
<1> QED
    BY <1>1, <1>2 DEF Browse!Init, Browse!BrowseInv, Browse!CachedIsPostEvent,
       Browse!ValidIsPostEvent, Browse!Ages

\* Requests begin, are read by the server, and fail.
LEMMA RequestsKeepBrowse ==
    ASSUME Browse!BrowseInv,
           \/ \E r \in v2 : Browse!Read(r) \/ Browse!Fails(r)
           \/ \E p \in Browse!Paths : Browse!Prefetch(p)
           \/ Browse!Retry
    PROVE  Browse!BrowseInv'
<1> USE DEF Browse!BrowseInv
<1>1. ASSUME NEW r \in v2, Browse!Read(r)
      PROVE  Browse!BrowseInv'
  <2>1. [r EXCEPT !.read = "now"] \in Browse!Pulls /\ [r EXCEPT !.read = "now"].read = "now"
    BY DEF Browse!Pulls, Browse!Ages
  <2>2. v2' = (v2 \ {r}) \cup {[r EXCEPT !.read = "now"]} /\ UNCHANGED <<v1, v3, v4, v7>>
    BY <1>1 DEF Browse!Read
  <2> QED
    BY <2>1, <2>2, FewerPullsFit
<1>2. ASSUME NEW r \in v2, Browse!Fails(r)
      PROVE  Browse!BrowseInv'
  <2>1. v2' \subseteq v2 /\ UNCHANGED <<v1, v3, v4, v7>>
    BY <1>2 DEF Browse!Fails
  <2> QED
    BY <2>1, FewerPullsFit
<1>3. ASSUME NEW p \in Browse!Paths, Browse!Prefetch(p)
      PROVE  Browse!BrowseInv'
  <2>1. Browse!Pull(p) \in Browse!Pulls /\ Browse!Pull(p).read = "none"
    BY DEF Browse!Pull, Browse!Pulls, Browse!Ages
  <2>2. v2' = v2 \cup {Browse!Pull(p)} /\ UNCHANGED <<v1, v3, v4, v7>>
    BY <1>3 DEF Browse!Prefetch
  <2> QED
    BY <2>1, <2>2, FewerPullsFit
<1>4. CASE Browse!Retry
  <2>1. v2' = Browse!Waiting(v2, v3, TRUE) /\ UNCHANGED <<v1, v3, v4, v7>>
    BY <1>4 DEF Browse!Retry, Browse!Fetch
  <2> QED
    BY <2>1, WaitingFits, FewerPullsFit, ZenonT(30)
<1> QED
    BY <1>1, <1>2, <1>3, <1>4

\* An answer that fills the cache with an old listing finds the page told of it.
LEMMA AnswerKeepsBrowse ==
    ASSUME Browse!BrowseInv, NEW r \in v2, Browse!Answered(r)
    PROVE  Browse!BrowseInv'
<1> USE DEF Browse!BrowseInv
<1>1. r \in Browse!Pulls /\ v2' \subseteq v2 /\ v3' = v3
    BY DEF Browse!Answered
<1>2. v1' = IF r.valid THEN [v1 EXCEPT ![r.path] = r.read] ELSE v1
    BY DEF Browse!Answered
<1>3. v4' \in [path : Browse!Paths, data : Browse!Ages]
    BY <1>1 DEF Browse!Answered, Browse!Pulls
<1>4. v1' \in [Browse!Paths -> Browse!Ages]
    BY <1>1, <1>2 DEF Browse!Pulls
<1>5. v7' = (IF Browse!Shown = "none" THEN (Browse!Shown # "none")'
             ELSE v7 /\ (Browse!Shown # "none")')
    BY <1>1 DEF Browse!Answered, Browse!Listen, Browse!Shown
<1>6. (Browse!CachedIsPostEvent)'
  <2> SUFFICES ASSUME v1'[v3] = "old" PROVE v7'
    BY <1>1 DEF Browse!CachedIsPostEvent
  <2>1. (Browse!Shown # "none")'
    BY <1>1 DEF Browse!Shown, Browse!Data
  <2>2. Browse!Shown # "none" => v7
    BY <1>1, <1>2 DEF Browse!CachedIsPostEvent, Browse!ValidIsPostEvent
  <2> QED
    BY <1>5, <2>1, <2>2
<1>7. (Browse!ValidIsPostEvent)'
    BY <1>1, <1>5 DEF Browse!ValidIsPostEvent
<1>8. v7' \in BOOLEAN
    BY Zenon DEF Browse!Answered, Browse!Listen
<1> QED
    BY <1>1, <1>3, <1>4, <1>6, <1>7, <1>8

\* A page newly shown listens at once: its topic is resynchronised.
LEMMA GoingKeepsBrowse ==
    ASSUME Browse!BrowseInv, NEW rs \in SUBSET Browse!Pulls, NEW p \in Browse!Paths, p # v3,
           NEW c \in [Browse!Paths -> Browse!Ages], Browse!GoTo(rs, c, p), Browse!Listen
    PROVE  Browse!BrowseInv'
<1> USE DEF Browse!BrowseInv
<1>1. v3' = p /\ v1' = c /\ v4' = v4
    BY DEF Browse!GoTo
<1>2. v7' = (Browse!Shown # "none")' /\ v7' \in BOOLEAN
    BY <1>1, Zenon DEF Browse!Listen, Browse!Shown
<1>3. v2' \subseteq Browse!Pulls
  <2>1. v2' = Browse!Waiting(rs, p, c[p] = "none")
    BY DEF Browse!GoTo
  <2> QED
    BY <2>1, WaitingFits
<1>4. (Browse!CachedIsPostEvent)' /\ (Browse!ValidIsPostEvent)'
    BY <1>2 DEF Browse!CachedIsPostEvent, Browse!ValidIsPostEvent, Browse!Shown, Browse!Data
<1> QED
    BY <1>1, <1>2, <1>3, <1>4

\* An event, and a contribution that was applied, leave nothing old to come.
LEMMA RefreshKeepsBrowse ==
    ASSUME Browse!BrowseInv, NEW ps \in SUBSET Browse!Paths, v3 \in ps,
           v1' = Browse!Dropped(ps), UNCHANGED <<v3, v4>>, v7' \in BOOLEAN,
           v2' = Browse!Waiting(Browse!Detached(v2, ps), v3, FALSE)
    PROVE  Browse!BrowseInv'
<1> USE DEF Browse!BrowseInv
<1>1. v2' \subseteq Browse!Pulls /\ \A q \in v2' : q.read = "none" \/ ~q.valid
  <2> DEFINE rs == Browse!Detached(v2, ps)
  <2>1. rs \in SUBSET Browse!Pulls /\ \A q \in rs : ~q.valid
    BY DetachedFits
  <2>2. v2' = Browse!Waiting(rs, v3, FALSE) /\ v3 \in Browse!Paths
    OBVIOUS
  <2> HIDE DEF rs
  <2> QED
    BY <2>1, <2>2, WaitingFits, ZenonT(30)
<1>2. v1' \in [Browse!Paths -> Browse!Ages] /\ v1'[v3] = "none"
    BY DEF Browse!Dropped, Browse!Ages
<1>3. (Browse!CachedIsPostEvent)' /\ (Browse!ValidIsPostEvent)'
    BY <1>1, <1>2 DEF Browse!CachedIsPostEvent, Browse!ValidIsPostEvent
<1> QED
    BY <1>1, <1>2, <1>3

\* The cache forgets a listing, which the page may be showing.
LEMMA ForgettingKeepsBrowse ==
    ASSUME Browse!BrowseInv, NEW p \in Browse!Paths, Browse!CacheForgets(p)
    PROVE  Browse!BrowseInv'
<1> USE DEF Browse!BrowseInv
<1>1. UNCHANGED <<v2, v3, v4>> /\ v1' = Browse!Dropped({p})
    BY DEF Browse!CacheForgets
<1>2. v1' \in [Browse!Paths -> Browse!Ages] /\ (v1'[v3] = v1[v3] \/ v1'[v3] = "none")
    BY <1>1 DEF Browse!Dropped, Browse!Ages
<1>3. (Browse!Shown # "none")' => Browse!Shown # "none"
    BY <1>1, <1>2 DEF Browse!Shown, Browse!Data
<1>4. v7' \in BOOLEAN
    BY Zenon DEF Browse!CacheForgets, Browse!Listen
<1>5. v7' = (v7 /\ (Browse!Shown # "none")')
    BY <1>1, <1>3 DEF Browse!CacheForgets, Browse!Listen, Browse!Shown
<1>6. (Browse!CachedIsPostEvent)'
    BY <1>1, <1>2, <1>5 DEF Browse!CachedIsPostEvent, Browse!Shown, Browse!Data
<1>7. (Browse!ValidIsPostEvent)'
    BY <1>1, <1>3, <1>5 DEF Browse!ValidIsPostEvent
<1> QED
    BY <1>1, <1>2, <1>4, <1>6, <1>7

\* The server changes a listing, and tells a page that shows it.
LEMMA ChangeKeepsBrowse ==
    ASSUME Browse!BrowseInv, NEW p \in Browse!Paths, Browse!ServerChanges(p)
    PROVE  Browse!BrowseInv'
<1> USE DEF Browse!BrowseInv
<1>1. v3' = v3 /\ v7' = (v7 \/ (p = v3 /\ Browse!Shown # "none"))
    BY DEF Browse!ServerChanges
<1>2. v7' \in BOOLEAN
    BY Zenon DEF Browse!ServerChanges
<1>3. v1' \in [Browse!Paths -> Browse!Ages]
    BY DEF Browse!ServerChanges, Browse!Older, Browse!Ages
<1>4. v4' \in [path : Browse!Paths, data : Browse!Ages]
    BY DEF Browse!ServerChanges, Browse!Older, Browse!Ages
<1>5. (Browse!Shown # "none")' => Browse!Shown # "none"
  <2>1. v4'.path = v4.path /\ (v4'.data = "none" <=> v4.data = "none")
    BY DEF Browse!ServerChanges, Browse!Older, Browse!Ages
  <2>2. v1'[v3] = "none" <=> v1[v3] = "none"
    BY DEF Browse!ServerChanges, Browse!Older, Browse!Ages
  <2> QED
    BY <1>1, <2>1, <2>2 DEF Browse!Shown, Browse!Data
<1>6. v2' \subseteq Browse!Pulls
    BY DEF Browse!ServerChanges, Browse!Older, Browse!Ages, Browse!Pulls
<1>7. \A q \in v2' : \E r \in v2 :
         r.path = q.path /\ r.valid = q.valid /\ (q.read = r.read \/ r.path = p)
    BY DEF Browse!ServerChanges, Browse!Pulls
<1>8. (Browse!CachedIsPostEvent)'
  <2>1. v1'[v3] = "old" => v1[v3] = "old" \/ (p = v3 /\ v1[v3] # "none")
    BY DEF Browse!ServerChanges, Browse!Older, Browse!Ages
  <2> QED
    BY <1>1, <2>1 DEF Browse!CachedIsPostEvent, Browse!Shown, Browse!Data
<1>9. (Browse!ValidIsPostEvent)'
  <2> SUFFICES ASSUME (Browse!Shown # "none")', ~v7', NEW q \in v2', q.valid, q.path = v3
               PROVE  q.read # "old"
    BY <1>1 DEF Browse!ValidIsPostEvent
  <2>1. ~v7 /\ p # v3 /\ Browse!Shown # "none"
    BY <1>1, <1>5
  <2>2. PICK o \in v2 : o.path = q.path /\ o.valid = q.valid /\ (q.read = o.read \/ o.path = p)
    BY <1>7
  <2> QED
    BY <2>1, <2>2 DEF Browse!ValidIsPostEvent
<1> QED
    BY <1>1, <1>2, <1>3, <1>4, <1>6, <1>8, <1>9

\* Every step of the browse page keeps the invariant.
LEMMA BrowseKept ==
    ASSUME Browse!BrowseInv, [Browse!Next]_(Browse!browseVars)
    PROVE  Browse!BrowseInv'
<1>1. CASE UNCHANGED Browse!browseVars
    BY <1>1 DEF Browse!browseVars, Browse!BrowseInv, Browse!CachedIsPostEvent,
       Browse!ValidIsPostEvent, Browse!Shown, Browse!Data
<1>2. ASSUME NEW p \in Browse!Paths, Browse!Navigate(p)
      PROVE  Browse!BrowseInv'
    BY <1>2, GoingKeepsBrowse DEF Browse!Navigate, Browse!BrowseInv
<1>3. CASE Browse!Deleted
  <2>1. Browse!Detached(v2, Browse!Showing) \subseteq Browse!Pulls
    BY DetachedFits DEF Browse!BrowseInv
  <2>2. Browse!Dropped(Browse!Showing) \in [Browse!Paths -> Browse!Ages]
    BY DEF Browse!Dropped, Browse!BrowseInv, Browse!Ages
  <2>3. v3 = "inner" /\ "folder" \in Browse!Paths
    BY <1>3 DEF Browse!Deleted, Browse!Paths
  <2> QED
    BY <1>3, <2>1, <2>2, <2>3, GoingKeepsBrowse DEF Browse!Deleted
<1>4. CASE Browse!Changed
  <2>1. v7' \in BOOLEAN
    BY <1>4, Zenon DEF Browse!Changed
  <2>2. Browse!Showing \subseteq Browse!Paths /\ v3 \in Browse!Showing
    BY DEF Browse!Showing, Browse!BrowseInv
  <2> QED
    BY <1>4, <2>1, <2>2, RefreshKeepsBrowse DEF Browse!Changed, Browse!Fetch
<1>5. CASE Browse!RefreshListing
  <2>1. {v3} \subseteq Browse!Paths /\ v7' \in BOOLEAN
    BY <1>5 DEF Browse!RefreshListing, Browse!BrowseInv
  <2> QED
    BY <1>5, <2>1, RefreshKeepsBrowse DEF Browse!RefreshListing, Browse!Fetch
<1> QED
    BY <1>1, <1>2, <1>3, <1>4, <1>5, RequestsKeepBrowse, AnswerKeepsBrowse,
       ForgettingKeepsBrowse, ChangeKeepsBrowse DEF Browse!Next

-----------------------------------------------------------------------------
(* MaterialThumbnails: v1 published, v2 jobs, v3 gen, v4 thumb, v5 slots,  *)
(* v6 fetches, v7 button, v8 previous, v9 told, v10 cardKind, v11 card,    *)
(* v12 awaits, v13 shows, v14 cardFailed.                                  *)

\* Requests are started and ended without a word on what others have read.
LEMMA StartingReadsNothing ==
    ASSUME NEW S, v5 \in Seq(S), DOMAIN v6 \subseteq S, NEW t \in S, Thumbs!Start(t, v6)
    PROVE  /\ v5' \in Seq(S) /\ DOMAIN v6' \subseteq S
           /\ \A u \in DOMAIN v6' :
                 v6'[u] = Thumbs!Unread \/ (u \in DOMAIN v6 /\ v6'[u] = v6[u])
    BY DEF Thumbs!Start

\* What runs after a fetch has ended ran before, or has read nothing yet.
LEMMA EndingReadsNothing ==
    ASSUME NEW S, v5 \in Seq(S), DOMAIN v6 \subseteq S, NEW t \in DOMAIN v6, Thumbs!Finish(t)
    PROVE  /\ v5' \in Seq(S) /\ DOMAIN v6' \subseteq S
           /\ \A u \in DOMAIN v6' :
                 v6'[u] = Thumbs!Unread \/ (u \in DOMAIN v6 /\ v6'[u] = v6[u])
<1>1. CASE v5 = <<>>
    BY <1>1 DEF Thumbs!Finish, Thumbs!Without
<1>2. CASE v5 # <<>>
  <2>1. Head(v5) \in S /\ Tail(v5) \in Seq(S)
    BY <1>2
  <2> QED
    BY <1>2, <2>1 DEF Thumbs!Finish
<1> QED
    BY <1>1, <1>2

\* A step keeps the invariant when it starts no generation and tells nothing,
\* what it reads and remembers is as new as told, and a card that begins to
\* wait waits for this generation.
LEMMA SameGenerationFits ==
    ASSUME Thumbs!ThumbsInv, UNCHANGED <<v3, v9, v10>>, v1' \in Nat, v9 <= v1',
           v5' \in Seq(Thumbs!Asked), DOMAIN v6' \subseteq Thumbs!Asked,
           \A u \in DOMAIN v6' : \/ v6'[u] = Thumbs!Unread \/ v6'[u] >= v9
                                 \/ u \in DOMAIN v6 /\ v6'[u] = v6[u],
           \A e \in v4' : e.polled \/ e.version >= v9,
           v11' = "waits" => v12' = v3 \/ (v11 = "waits" /\ v12' = v12),
           Thumbs!NoneOlderThanTold'
    PROVE  Thumbs!ThumbsInv'
<1> USE DEF Thumbs!ThumbsInv
<1>1. (v5 \in Seq(Thumbs!Asked))' /\ (DOMAIN v6 \subseteq Thumbs!Asked)'
    BY DEF Thumbs!Asked, Thumbs!Polls
<1>2. ASSUME NEW g, Thumbs!ReadSinceTold(g)
      PROVE  <<"get", g>> \in DOMAIN v6' =>
                v6'[<<"get", g>>] = Thumbs!Unread \/ v6'[<<"get", g>>] >= v9
    BY <1>2 DEF Thumbs!ReadSinceTold
<1>3. (Thumbs!ReadSinceTold(v3))'
    BY <1>2 DEF Thumbs!ReadSinceTold, Thumbs!Unread
<1>4. (v11 = "waits" /\ Thumbs!Follows => Thumbs!ReadSinceTold(v12))'
    BY <1>2 DEF Thumbs!ReadSinceTold, Thumbs!Follows, Thumbs!Unread
<1> QED
    BY <1>1, <1>3, <1>4

\* Nothing is published, asked or shown at first.
LEMMA ThumbsStart == Thumbs!Init => Thumbs!ThumbsInv
    BY DEF Thumbs!Init, Thumbs!ThumbsInv, Thumbs!Asked, Thumbs!ReadSinceTold,
       Thumbs!NoneOlderThanTold

\* The server reads and publishes; the cache forgets.
LEMMA ServerKeepsThumbs ==
    ASSUME Thumbs!ThumbsInv,
           \/ Thumbs!ServerPublishes \/ Thumbs!CacheForgets
           \/ \E t \in DOMAIN v6 : Thumbs!ServerReads(t)
    PROVE  Thumbs!ThumbsInv'
<1>1. v1 \in Nat /\ v9 \in Nat /\ v9 <= v1
    BY DEF Thumbs!ThumbsInv
<1>2. /\ UNCHANGED <<v3, v5, v7, v8, v9, v10, v11, v12, v13, v14>>
      /\ v1' \in {v1, v1 + 1} /\ v4' \subseteq v4 /\ DOMAIN v6' = DOMAIN v6
      /\ \A u \in DOMAIN v6' : v6'[u] = v6[u] \/ v6'[u] = v1
    BY DEF Thumbs!ServerPublishes, Thumbs!CacheForgets, Thumbs!ServerReads, Thumbs!serverRest,
       Thumbs!buttonRest, Thumbs!cardRest
<1>3. Thumbs!NoneOlderThanTold'
    BY <1>2 DEF Thumbs!ThumbsInv, Thumbs!NoneOlderThanTold, Thumbs!Follows
<1>4. v1' \in Nat /\ v9 <= v1'
    BY <1>1, <1>2
<1> QED
    BY <1>1, <1>2, <1>3, <1>4, SameGenerationFits DEF Thumbs!ThumbsInv

\* The card comes, goes and asks: it shows what is cached, or waits.
LEMMA CardKeepsThumbs ==
    ASSUME Thumbs!ThumbsInv,
           Thumbs!Mount \/ Thumbs!Unmount \/ Thumbs!ComesIntoView \/ Thumbs!CardAsks
    PROVE  Thumbs!ThumbsInv'
<1> USE DEF Thumbs!ThumbsInv
<1>1. UNCHANGED <<v1, v3, v4, v9, v10>>
    BY DEF Thumbs!Mount, Thumbs!Unmount, Thumbs!ComesIntoView, Thumbs!CardAsks,
       Thumbs!serverRest, Thumbs!buttonRest
<1>2. /\ v5' \in Seq(Thumbs!Asked) /\ DOMAIN v6' \subseteq Thumbs!Asked
      /\ \A u \in DOMAIN v6' :
            v6'[u] = Thumbs!Unread \/ (u \in DOMAIN v6 /\ v6'[u] = v6[u])
  <2>1. <<"get", v3>> \in Thumbs!Asked
    BY DEF Thumbs!Asked
  <2>2. UNCHANGED <<v5, v6>> \/ Thumbs!Start(<<"get", v3>>, v6)
    BY DEF Thumbs!Mount, Thumbs!Unmount, Thumbs!ComesIntoView, Thumbs!CardAsks, Thumbs!Get
  <2> QED
    BY <2>1, <2>2, StartingReadsNothing
<1>3. v11' = "waits" => v12' = v3
    BY DEF Thumbs!Mount, Thumbs!Unmount, Thumbs!ComesIntoView, Thumbs!CardAsks
<1>4. Thumbs!NoneOlderThanTold'
    BY <1>1 DEF Thumbs!Mount, Thumbs!Unmount, Thumbs!ComesIntoView, Thumbs!CardAsks,
       Thumbs!NoneOlderThanTold
<1> QED
    BY <1>1, <1>2, <1>3, <1>4, SameGenerationFits

\* An answer is remembered in its own generation, and shown to who awaits it.
LEMMA AnswersKeepThumbs ==
    ASSUME Thumbs!ThumbsInv, NEW g, Thumbs!GetAnswered(g) \/ Thumbs!GetFails(g)
    PROVE  Thumbs!ThumbsInv'
<1> USE DEF Thumbs!ThumbsInv
<1> DEFINE t == <<"get", g>>
           e == [version |-> v6[t], polled |-> FALSE]
<1>1. UNCHANGED <<v1, v3, v9, v10, v12>> /\ t \in DOMAIN v6 /\ Thumbs!Finish(t)
    BY DEF Thumbs!GetAnswered, Thumbs!GetFails, Thumbs!serverRest
<1>2. /\ v5' \in Seq(Thumbs!Asked) /\ DOMAIN v6' \subseteq Thumbs!Asked
      /\ \A u \in DOMAIN v6' :
            v6'[u] = Thumbs!Unread \/ (u \in DOMAIN v6 /\ v6'[u] = v6[u])
    BY <1>1, EndingReadsNothing
<1>3. v11' = "waits" => v11 = "waits"
    BY DEF Thumbs!GetAnswered, Thumbs!GetFails
<1>4. CASE Thumbs!GetAnswered(g)
  <2>1. v6[t] # Thumbs!Unread /\ e.version = v6[t]
    BY <1>4 DEF Thumbs!GetAnswered
  <2>2. v4' = IF g = v3 THEN {e} ELSE v4
    BY <1>4 DEF Thumbs!GetAnswered, Thumbs!Remember
  <2>3. Thumbs!ReadSinceTold(g) => e.version >= v9
    BY <1>1, <2>1 DEF Thumbs!ReadSinceTold
  <2>4. IF v11 = "waits" /\ v12 = g THEN v11' = "rests" /\ v13' = {e}
        ELSE UNCHANGED <<v11, v13, v14>>
    BY <1>4 DEF Thumbs!GetAnswered
  <2> HIDE DEF e
  <2>5. \A d \in v4' : d.polled \/ d.version >= v9
    BY <2>2, <2>3
  <2>6. Thumbs!NoneOlderThanTold'
    BY <1>1, <2>3, <2>4 DEF Thumbs!NoneOlderThanTold, Thumbs!Follows
  <2> QED
    BY <1>1, <1>2, <1>3, <2>5, <2>6, SameGenerationFits
<1>5. CASE Thumbs!GetFails(g)
  <2>1. UNCHANGED <<v4, v13>> /\ (v11' = "rests" => v14' \/ UNCHANGED <<v11, v14>>)
    BY <1>5 DEF Thumbs!GetFails
  <2>2. Thumbs!NoneOlderThanTold'
    BY <1>1, <2>1 DEF Thumbs!NoneOlderThanTold, Thumbs!Follows
  <2> QED
    BY <1>1, <1>2, <1>3, <2>1, <2>2, SameGenerationFits
<1> QED
    BY <1>4, <1>5

\* The buttons ask, poll, and are answered.
LEMMA ButtonsKeepThumbs ==
    ASSUME Thumbs!ThumbsInv, NEW b \in Buttons,
           \/ Thumbs!Press(b) \/ Thumbs!RecalculationFails(b) \/ Thumbs!PollStarts(b)
           \/ Thumbs!PollAnswered(b) \/ Thumbs!PollFails(b)
    PROVE  Thumbs!ThumbsInv'
<1> USE DEF Thumbs!ThumbsInv
<1> DEFINE t == <<"poll", b>>
<1>1. UNCHANGED <<v1, v3, v9, v10, v12>>
    BY DEF Thumbs!Press, Thumbs!RecalculationFails, Thumbs!PollStarts, Thumbs!PollAnswered,
       Thumbs!PollFails, Thumbs!serverRest, Thumbs!cardRest, Thumbs!Notified
<1>2. /\ v5' \in Seq(Thumbs!Asked) /\ DOMAIN v6' \subseteq Thumbs!Asked
      /\ \A u \in DOMAIN v6' :
            v6'[u] = Thumbs!Unread \/ (u \in DOMAIN v6 /\ v6'[u] = v6[u])
  <2>1. <<"get", v3>> \in Thumbs!Asked /\ t \in Thumbs!Asked
    BY DEF Thumbs!Asked, Thumbs!Polls
  <2>2. \/ UNCHANGED <<v5, v6>>
        \/ Thumbs!Start(<<"get", v3>>, v6) \/ Thumbs!Start(t, v6)
        \/ t \in DOMAIN v6 /\ Thumbs!Finish(t)
    BY DEF Thumbs!Press, Thumbs!Get, Thumbs!RecalculationFails, Thumbs!PollStarts,
       Thumbs!PollAnswered, Thumbs!PollFails
  <2>3. CASE UNCHANGED <<v5, v6>>
    BY <2>3
  <2>4. CASE Thumbs!Start(<<"get", v3>>, v6) \/ Thumbs!Start(t, v6)
    BY <2>1, <2>4, StartingReadsNothing
  <2>5. CASE t \in DOMAIN v6 /\ Thumbs!Finish(t)
    BY <2>5, EndingReadsNothing
  <2> QED
    BY <2>2, <2>3, <2>4, <2>5
<1>3. v11' = "waits" => v11 = "waits"
    BY DEF Thumbs!Press, Thumbs!RecalculationFails, Thumbs!PollStarts, Thumbs!PollAnswered,
       Thumbs!PollFails, Thumbs!Notified, Thumbs!cardRest
<1>4. Thumbs!NoneOlderThanTold'
  <2>1. v11' = "rests" /\ Thumbs!Follows => UNCHANGED <<v11, v13, v14>>
    BY DEF Thumbs!Press, Thumbs!RecalculationFails, Thumbs!PollStarts, Thumbs!PollAnswered,
       Thumbs!PollFails, Thumbs!Notified, Thumbs!Mounted, Thumbs!cardRest
  <2> QED
    BY <1>1, <2>1 DEF Thumbs!NoneOlderThanTold, Thumbs!Follows
<1>5. \A e \in v4' : e.polled \/ e.version >= v9
  <2>1. v4' = v4 \/ \E v : v4' = {[version |-> v, polled |-> TRUE]}
    BY DEF Thumbs!Press, Thumbs!RecalculationFails, Thumbs!PollStarts, Thumbs!PollAnswered,
       Thumbs!PollFails
  <2> QED
    BY <2>1
<1> QED
    BY <1>1, <1>2, <1>3, <1>4, <1>5, SameGenerationFits

\* A new generation: no request of it has begun, and the cache is empty.
LEMMA DropsKeepThumbs ==
    ASSUME Thumbs!ThumbsInv, NEW b \in Buttons,
           Thumbs!RecalculatedNow(b) \/ Thumbs!RecalculationQueued(b)
    PROVE  Thumbs!ThumbsInv'
<1> USE DEF Thumbs!ThumbsInv
<1>1. v3' = v3 + 1 /\ v4' = {} /\ UNCHANGED <<v5, v6, v10, v12>>
    BY DEF Thumbs!RecalculatedNow, Thumbs!RecalculationQueued, Thumbs!Drop, Thumbs!Notified,
       Thumbs!cardRest
<1>2. v1' \in Nat /\ v9' \in Nat /\ v9' <= v1'
    BY DEF Thumbs!RecalculatedNow, Thumbs!RecalculationQueued
<1>3. Thumbs!Asked \subseteq Thumbs!Asked' /\ <<"get", v3 + 1>> \notin Thumbs!Asked
  <2>1. v3 + 1 \notin 0..v3 /\ 0..v3 \subseteq 0..(v3 + 1)
    OBVIOUS
  <2> QED
    BY <1>1, <2>1 DEF Thumbs!Asked, Thumbs!Polls
<1>4. (v5 \in Seq(Thumbs!Asked))' /\ (DOMAIN v6 \subseteq Thumbs!Asked)'
    BY <1>1, <1>3
<1>5. (Thumbs!ReadSinceTold(v3))'
    BY <1>1, <1>3 DEF Thumbs!ReadSinceTold
<1>6. CASE Thumbs!RecalculatedNow(b)
  <2>1. Thumbs!Follows => v11' \notin {"waits", "rests"}
    BY <1>6 DEF Thumbs!RecalculatedNow, Thumbs!Notified, Thumbs!Mounted
  <2>2. (Thumbs!Follows)' <=> Thumbs!Follows
    BY <1>1 DEF Thumbs!Follows
  <2> QED
    BY <1>1, <1>2, <1>4, <1>5, <2>1, <2>2 DEF Thumbs!NoneOlderThanTold
<1>7. CASE Thumbs!RecalculationQueued(b)
  <2>1. UNCHANGED <<v9, v11, v12, v13, v14>>
    BY <1>7 DEF Thumbs!RecalculationQueued, Thumbs!cardRest
  <2>2. (v11 = "waits" /\ Thumbs!Follows => Thumbs!ReadSinceTold(v12))'
    BY <1>1, <2>1 DEF Thumbs!ReadSinceTold, Thumbs!Follows, Thumbs!Unread
  <2>3. Thumbs!NoneOlderThanTold'
    BY <1>1, <2>1 DEF Thumbs!NoneOlderThanTold, Thumbs!Follows
  <2> QED
    BY <1>1, <1>2, <1>4, <1>5, <2>2, <2>3
<1> QED
    BY <1>6, <1>7

\* Every step of the thumbnails keeps the invariant.
LEMMA ThumbsKept ==
    ASSUME Thumbs!ThumbsInv, [Thumbs!Next]_(Thumbs!thumbVars)
    PROVE  Thumbs!ThumbsInv'
<1>1. CASE UNCHANGED Thumbs!thumbVars
    BY <1>1 DEF Thumbs!thumbVars, Thumbs!ThumbsInv, Thumbs!Asked, Thumbs!Polls,
       Thumbs!ReadSinceTold, Thumbs!Unread, Thumbs!Follows, Thumbs!NoneOlderThanTold
<1> QED
    BY <1>1, ServerKeepsThumbs, CardKeepsThumbs, AnswersKeepThumbs, ButtonsKeepThumbs,
       DropsKeepThumbs DEF Thumbs!Next

-----------------------------------------------------------------------------
(* ItemMenu: v5 mounted, v13 zips, v14 visit, v15 cancelled.               *)

\* Only these are about the archives of the folder, or about being shown.
LEMMA MenuSteps ==
    ASSUME [Menu!Next]_(Menu!menuVars)
    PROVE  \/ UNCHANGED <<v5, v13, v14, v15>> \/ Menu!Unmount \/ Menu!Remount
           \/ Menu!DownloadDirectory
           \/ \E v \in Menu!Visits : \/ Menu!ChunksFail(v) \/ Menu!NextPart(v) \/ Menu!Cooled(v)
                                     \/ \E n \in 1..MaxParts : Menu!ChunksAnswered(v, n)
<1> USE DEF Menu!Asks, Menu!Zips
<1>1. CASE \/ Menu!PointerEnters \/ Menu!PointerLeaves \/ Menu!Arm
           \/ \E p \in {"delete", "edit"} : Menu!OpenDialog(p)
    BY <1>1 DEF Menu!PointerEnters, Menu!PointerLeaves, Menu!Arm, Menu!OpenDialog
<1>2. CASE Menu!CloseDialog \/ Menu!DraftDelete \/ Menu!SheetDelete
           \/ Menu!DirectDelete \/ Menu!DirectDeleteEnds
    BY <1>2 DEF Menu!CloseDialog, Menu!DraftDelete, Menu!SheetDelete, Menu!DirectDelete,
       Menu!DirectDeleteEnds
<1>3. CASE Menu!Download \/ Menu!Downloaded \/ Menu!PrintFile \/ Menu!Printed
           \/ Menu!RecalculateThumbnail \/ Menu!ThumbnailRecalculated
    BY <1>3 DEF Menu!Download, Menu!Downloaded, Menu!PrintFile, Menu!Printed,
       Menu!RecalculateThumbnail, Menu!ThumbnailRecalculated
<1> QED
    BY <1>1, <1>2, <1>3 DEF Menu!Next, Menu!menuVars

\* Starting an archive counts it, stopping does not.
LEMMA StartedFits ==
    ASSUME NEW z \in Menu!Zipped
    PROVE  /\ Menu!Started(z) \in Menu!Zipped /\ Menu!Started(z).parts = z.parts
           /\ Menu!Stopped(z) \in Menu!Zipped /\ Menu!Stopped(z).started = z.started
<1> USE DEF Menu!Zipped
<1> DEFINE phase == IF z.started + 1 = z.parts THEN "cools" ELSE "waits"
<1>1. phase \in {"idle", "asked", "waits", "cools"} /\ z.started + 1 \in Nat
    OBVIOUS
<1>2. Menu!Started(z) = [z EXCEPT !.started = z.started + 1, !.phase = phase]
    BY DEF Menu!Started
<1> HIDE DEF phase
<1> QED
    BY <1>1, <1>2 DEF Menu!Stopped

\* What the answer about a folder, or the end of a wait, makes of an archive
\* that is under way: stopped, or started once more if its visit has not ended.
LEMMA ArchiveGoesOn ==
    ASSUME Menu!MenuInv, NEW v \in Menu!Visits,
           \/ Menu!ChunksFail(v) \/ Menu!NextPart(v) \/ Menu!Cooled(v)
           \/ \E n \in 1..MaxParts : Menu!ChunksAnswered(v, n)
    PROVE  \E z \in Menu!Zipped :
              /\ Menu!Zip(v, z) /\ UNCHANGED v15 /\ v <= v14
              /\ v15[v] /\ z.parts > 1 => z.started <= v13[v].started
<1>1. /\ v13[v] \in Menu!Zipped /\ v13[v].started \in Nat /\ v \in Nat /\ v14 \in Nat
      /\ v > v14 => v13[v] = Menu!NoZip
    BY DEF Menu!MenuInv, Menu!Zipped, Menu!Visits
<1>2. v13[v].phase # "idle" => v <= v14
    BY <1>1 DEF Menu!NoZip
<1>3. CASE Menu!ChunksFail(v)
    BY <1>1, <1>2, <1>3, StartedFits DEF Menu!ChunksFail
<1>4. CASE Menu!NextPart(v)
  <2>1. CASE v15[v]
      BY <1>1, <1>2, <1>4, <2>1, StartedFits DEF Menu!NextPart
  <2>2. CASE ~v15[v]
      BY <1>1, <1>2, <1>4, <2>2, StartedFits DEF Menu!NextPart
  <2> QED
      BY <2>1, <2>2
<1>5. CASE Menu!Cooled(v)
    BY <1>1, <1>2, <1>5 DEF Menu!Cooled, Menu!NoZip, Menu!Zipped
<1>6. ASSUME NEW n \in 1..MaxParts, Menu!ChunksAnswered(v, n)
      PROVE  \E z \in Menu!Zipped :
                /\ Menu!Zip(v, z) /\ UNCHANGED v15 /\ v <= v14
                /\ v15[v] /\ z.parts > 1 => z.started <= v13[v].started
  <2> DEFINE asked == [v13[v] EXCEPT !.parts = n]
  <2>1. asked \in Menu!Zipped /\ asked.parts = n /\ asked.started = v13[v].started
      BY <1>1 DEF Menu!Zipped
  <2>2. /\ v13[v].phase = "asked" /\ UNCHANGED v15
        /\ Menu!Zip(v, IF n > 1 /\ v15[v] THEN Menu!Stopped(asked) ELSE Menu!Started(asked))
      BY <1>6 DEF Menu!ChunksAnswered
  <2> HIDE DEF asked
  <2>3. CASE n > 1 /\ v15[v]
      BY <1>1, <1>2, <2>1, <2>2, <2>3, StartedFits
  <2>4. CASE ~(n > 1 /\ v15[v])
      BY <1>1, <1>2, <2>1, <2>2, <2>4, StartedFits
  <2> QED
      BY <2>3, <2>4
<1> QED
    BY <1>3, <1>4, <1>5, <1>6

\* The ref of a visit that is over stays set, whatever a later one downloads.
LEMMA MenuKept ==
    ASSUME Menu!MenuInv, [Menu!Next]_(Menu!menuVars)
    PROVE  Menu!MenuInv'
<1> USE DEF Menu!MenuInv
<1>1. CASE UNCHANGED <<v5, v13, v14, v15>>
    BY <1>1
<1>2. CASE Menu!Unmount
    BY <1>2 DEF Menu!Unmount
<1>3. CASE Menu!Remount
  <2>1. /\ v14' = v14 + 1 /\ v14' \in Menu!Visits /\ v5' = TRUE /\ UNCHANGED <<v13, v15>>
        /\ v14 \in Nat /\ ~v5 /\ \A v \in Menu!Visits : v \in Nat
      BY <1>3, MenuBounds DEF Menu!Remount, Menu!Visits
  <2>2. ASSUME NEW v \in Menu!Visits PROVE /\ v < v14' => v15'[v]
                                          /\ v > v14' => v13'[v] = Menu!NoZip
      BY <2>1, <2>2
  <2> QED
      BY <2>1, <2>2
<1>4. CASE Menu!DownloadDirectory
  <2>1. [Menu!NoZip EXCEPT !.phase = "asked"] \in Menu!Zipped
      BY DEF Menu!NoZip, Menu!Zipped
  <2>2. /\ v13' = [v13 EXCEPT ![v14] = [Menu!NoZip EXCEPT !.phase = "asked"]]
        /\ v15' = [v15 EXCEPT ![v14] = FALSE] /\ v5 /\ v5' = v5 /\ v14' = v14
      BY <1>4 DEF Menu!DownloadDirectory, Menu!ResetRef, Menu!Zip, Menu!Ready
  <2>3. \A v \in Menu!Visits : v \in Nat
      BY DEF Menu!Visits
  <2> QED
      BY <2>1, <2>2, <2>3
<1>5. ASSUME NEW v \in Menu!Visits,
             \/ Menu!ChunksFail(v) \/ Menu!NextPart(v) \/ Menu!Cooled(v)
             \/ \E n \in 1..MaxParts : Menu!ChunksAnswered(v, n)
      PROVE  Menu!MenuInv'
  <2>1. PICK z \in Menu!Zipped : Menu!Zip(v, z) /\ UNCHANGED v15 /\ v <= v14
      BY <1>5, ArchiveGoesOn
  <2>2. v13' = [v13 EXCEPT ![v] = z] /\ UNCHANGED <<v5, v14, v15>>
      BY <2>1 DEF Menu!Zip
  <2>3. \A w \in Menu!Visits : w \in Nat
      BY DEF Menu!Visits
  <2> QED
      BY <2>1, <2>2, <2>3
<1> QED
    BY <1>1, <1>2, <1>3, <1>4, <1>5, MenuSteps

\* Of a folder in parts, whoever is gone starts none.
LEMMA NoArchiveOfTheGone ==
    ASSUME Menu!MenuInv, [Menu!Next]_(Menu!menuVars)
    PROVE  Menu!NoFurtherArchive
<1> SUFFICES ASSUME NEW v \in Menu!Visits, Menu!Gone(v), v13'[v].parts > 1
             PROVE  v13'[v].started <= v13[v].started
    BY DEF Menu!NoFurtherArchive
<1>1. v13[v].started \in Nat /\ v \in Nat /\ v14 \in Nat
    BY DEF Menu!MenuInv, Menu!Zipped, Menu!Visits
<1>2. v <= v14 => v15[v]
    BY <1>1 DEF Menu!MenuInv, Menu!Gone
<1>3. CASE v13'[v] = v13[v]
    BY <1>1, <1>3
<1>4. CASE Menu!DownloadDirectory
  <2>1. v # v14 /\ v13' = [v13 EXCEPT ![v14] = [Menu!NoZip EXCEPT !.phase = "asked"]]
      BY <1>4 DEF Menu!DownloadDirectory, Menu!Zip, Menu!Ready, Menu!Gone
  <2> QED
      BY <1>3, <2>1 DEF Menu!MenuInv
<1>5. ASSUME NEW w \in Menu!Visits,
             \/ Menu!ChunksFail(w) \/ Menu!NextPart(w) \/ Menu!Cooled(w)
             \/ \E n \in 1..MaxParts : Menu!ChunksAnswered(w, n)
      PROVE  v13'[v].started <= v13[v].started
  <2>1. PICK z \in Menu!Zipped :
           /\ Menu!Zip(w, z) /\ w <= v14
           /\ v15[w] /\ z.parts > 1 => z.started <= v13[w].started
      BY <1>5, ArchiveGoesOn
  <2>2. v13' = [v13 EXCEPT ![w] = z] /\ DOMAIN v13 = Menu!Visits
      BY <2>1 DEF Menu!Zip, Menu!MenuInv
  <2>3. CASE w = v
      BY <1>2, <2>1, <2>2, <2>3
  <2>4. CASE w # v
      BY <1>3, <2>2, <2>4
  <2> QED
      BY <2>3, <2>4
<1>6. CASE UNCHANGED v13
    BY <1>3, <1>6
<1> QED
    BY <1>4, <1>5, <1>6, MenuSteps DEF Menu!Unmount, Menu!Remount

-----------------------------------------------------------------------------
(* StaffSystem: v2 stored, v3 live, v8 prune, v9 locked, v10 judged, v20   *)
(* condemned, v21 admitting.                                               *)

\* Only these are about what is stored, named or locked.
LEMMA StorageSteps ==
    ASSUME [System!Next]_(System!systemVars)
    PROVE  \/ UNCHANGED <<v2, v3, v9, v10, v20, v21>>
           \/ \E o \in Objects : \/ System!AdmitLocks(o) \/ System!AdmitStores(o)
                                 \/ System!AdmitNames(o) \/ System!AdmitFails(o)
                                 \/ System!Unname(o) \/ System!PruneLocks(o)
           \/ \E o \in Objects, fails \in BOOLEAN :
                 System!PruneChecks(o, fails) \/ System!PruneDeletes(o, fails)
           \/ \E lost \in BOOLEAN : System!PruneEnds(lost)
<1> USE DEF System!StorageVars, System!PruneVars
<1>1. CASE \/ System!OpenDialog \/ System!CloseDialog \/ System!ResetDialog
           \/ System!RunReconcile \/ System!ReconcileReads \/ System!ReconcileAnswered
           \/ System!ReconcileFails \/ System!Prune
    BY <1>1 DEF System!OpenDialog, System!CloseDialog, System!ResetDialog,
       System!RunReconcile, System!ReconcileReads, System!ReconcileAnswered,
       System!ReconcileFails, System!Prune
<1>2. CASE \/ System!Fetch \/ System!FetchHealth \/ \E list \in v11 : System!Fetched(list)
           \/ \E w \in System!Confirmable : System!Ask(w)
           \/ \E yes \in BOOLEAN : System!Decide(yes)
           \/ \E w \in v16 : System!WorkDone(w) \/ System!WorkFails(w)
    BY <1>2 DEF System!Fetch, System!FetchHealth, System!Fetched, System!Ask, System!Decide,
       System!WorkDone, System!WorkFails
<1>3. CASE \/ \E f \in Featured \cup {"new"} :
                 \/ System!OpenForm(f) \/ System!Remove(f)
                 \/ \E i \in System!Pickable : System!Submitted(f, i)
           \/ System!CloseForm \/ System!Submit \/ System!SubmitFails
    BY <1>3 DEF System!OpenForm, System!Remove, System!Submitted, System!CloseForm,
       System!Submit, System!SubmitFails
<1> QED
    BY <1>1, <1>2, <1>3 DEF System!Next, System!systemVars

\* Whoever stores an object and names it holds its lock meanwhile, and takes
\* none that a deletion holds.
LEMMA AdmissionKeepsNamed ==
    ASSUME System!PruneInv, NEW o \in Objects,
           \/ System!AdmitLocks(o) \/ System!AdmitStores(o)
           \/ System!AdmitNames(o) \/ System!AdmitFails(o) \/ System!Unname(o)
    PROVE  System!PruneInv'
<1> USE DEF System!PruneInv, System!PruneVars
<1>1. CASE System!AdmitLocks(o)
    BY <1>1 DEF System!AdmitLocks, System!Admission, System!Free
<1>2. CASE System!AdmitStores(o)
    BY <1>2 DEF System!AdmitStores, System!Admission
<1>3. CASE System!AdmitNames(o)
    BY <1>3 DEF System!AdmitNames, System!Admission
<1>4. CASE System!AdmitFails(o)
    BY <1>4 DEF System!AdmitFails, System!Admission
<1>5. CASE System!Unname(o)
    BY <1>5 DEF System!Unname
<1> QED
    BY <1>1, <1>2, <1>3, <1>4, <1>5

\* A deletion looks up and deletes only what it has locked.
LEMMA PruneKeepsNamed ==
    ASSUME System!PruneInv, [System!Next]_(System!systemVars),
           \/ \E o \in Objects : System!PruneLocks(o)
           \/ \E o \in Objects, fails \in BOOLEAN :
                 System!PruneChecks(o, fails) \/ System!PruneDeletes(o, fails)
           \/ \E lost \in BOOLEAN : System!PruneEnds(lost)
    PROVE  System!PruneInv'
<1> USE DEF System!PruneInv
<1>1. ASSUME NEW o \in Objects, System!PruneLocks(o) PROVE System!PruneInv'
    BY <1>1 DEF System!PruneLocks, System!Free, System!Judging
<1>2. ASSUME NEW o \in Objects, NEW fails \in BOOLEAN, System!PruneChecks(o, fails)
      PROVE  System!PruneInv'
    BY <1>2 DEF System!PruneChecks, System!StillOrphan
<1>3. ASSUME NEW o \in Objects, NEW fails \in BOOLEAN, System!PruneDeletes(o, fails)
      PROVE  System!PruneInv'
    BY <1>3 DEF System!PruneDeletes
<1>4. ASSUME NEW lost \in BOOLEAN, System!PruneEnds(lost) PROVE System!PruneInv'
    BY <1>4 DEF System!PruneEnds, System!Judging
<1> QED
    BY <1>1, <1>2, <1>3, <1>4

\* Every step keeps what is named apart from what is to be deleted.
LEMMA PruneKept ==
    ASSUME System!PruneInv, [System!Next]_(System!systemVars)
    PROVE  System!PruneInv'
<1>1. CASE UNCHANGED <<v2, v3, v9, v10, v20, v21>>
    BY <1>1 DEF System!PruneInv
<1> QED
    BY <1>1, StorageSteps, AdmissionKeepsNamed, PruneKeepsNamed

-----------------------------------------------------------------------------
(* QuizPages: v1 where, v8 open, v9 shown, v10 started, v11 answered,      *)
(* v13 file, v14 loads, v15 loading, v16 failed, v17 held.                 *)

\* Only what concerns a file concerns the page.
LEMMA PageOfQuiz ==
    ASSUME [Quiz!Next]_(Quiz!quizVars)
    PROVE  \/ UNCHANGED <<v13, v14, v15, v16, v17>> /\ v1' \in {v1, "left", "broken"}
           \/ Quiz!OpenFile
           \/ \E n \in 1..MaxFiles, ok \in BOOLEAN : Quiz!Loaded(n, ok)
<1> USE DEF Quiz!Page
<1>1. CASE Quiz!OpenPreview \/ Quiz!ClosePreview \/ Quiz!AddChapter
    BY <1>1 DEF Quiz!OpenPreview, Quiz!ClosePreview, Quiz!AddChapter, Quiz!Edit
<1>2. ASSUME NEW i \in DOMAIN v2,
             \/ Quiz!DeleteChapter(i) \/ Quiz!AddQuestion(i) \/ Quiz!DeleteQuestion(i) \/ Quiz!Unrefer(i)
             \/ \E j \in DOMAIN v2 : Quiz!MoveChapter(i, j)
             \/ \E files \in SUBSET Images : Quiz!PickImages(i, files)
      PROVE  UNCHANGED <<v13, v14, v15, v16, v17>> /\ v1' = v1
    BY <1>2 DEF Quiz!DeleteChapter, Quiz!AddQuestion, Quiz!DeleteQuestion, Quiz!Unrefer,
       Quiz!MoveChapter, Quiz!PickImages, Quiz!Edit
<1>3. ASSUME NEW g \in Images,
             Quiz!Reencoded(g) \/ Quiz!TooMany(g) \/ Quiz!Breaks(g) \/ Quiz!NotEncoded(g)
      PROVE  UNCHANGED <<v13, v14, v15, v16, v17>> /\ v1' \in {v1, "left", "broken"}
    BY <1>3 DEF Quiz!Reencoded, Quiz!TooMany, Quiz!Breaks, Quiz!NotEncoded
<1>4. CASE \/ Quiz!AskImport \/ Quiz!Parsed \/ Quiz!NotParsed
           \/ \E yes \in BOOLEAN : Quiz!ConfirmImport(yes)
    BY <1>4 DEF Quiz!AskImport, Quiz!Parsed, Quiz!NotParsed, Quiz!ConfirmImport
<1>5. CASE Quiz!Save \/ Quiz!Submit \/ Quiz!Saved \/ Quiz!NotSaved
    BY <1>5 DEF Quiz!Save, Quiz!Submit, Quiz!Saved, Quiz!NotSaved
<1>6. CASE (\E c \in Chapters : Quiz!Answer(c) \/ Quiz!Unchoose(c)) \/ Quiz!Finish \/ Quiz!Retry
    BY <1>6 DEF Quiz!Answer, Quiz!Unchoose, Quiz!Finish, Quiz!Retry
<1> QED
    BY <1>1, <1>2, <1>3, <1>4, <1>5, <1>6 DEF Quiz!Next, Quiz!quizVars

\* The quiz of the viewer changes with what it is passed, by what its user
\* does, and with a file that was loaded.
LEMMA ViewerSteps ==
    ASSUME [Quiz!Next]_(Quiz!quizVars)
    PROVE  \/ UNCHANGED Quiz!Viewer \/ (\E q : Quiz!Become(q)) \/ Quiz!Cleared
           \/ Quiz!OpenPreview \/ Quiz!ClosePreview \/ Quiz!Finish \/ Quiz!Retry
           \/ \E c \in Chapters : Quiz!Answer(c) \/ Quiz!Unchoose(c)
           \/ \E n \in 1..MaxFiles, ok \in BOOLEAN : Quiz!Loaded(n, ok)
<1>1. ASSUME NEW i \in DOMAIN v2,
             \/ Quiz!DeleteChapter(i) \/ Quiz!AddQuestion(i) \/ Quiz!DeleteQuestion(i) \/ Quiz!Unrefer(i)
             \/ \E j \in DOMAIN v2 : Quiz!MoveChapter(i, j)
             \/ \E files \in SUBSET Images : Quiz!PickImages(i, files)
      PROVE  (\E q : Quiz!Become(q)) \/ UNCHANGED Quiz!Viewer
    BY <1>1 DEF Quiz!DeleteChapter, Quiz!AddQuestion, Quiz!DeleteQuestion, Quiz!Unrefer,
       Quiz!MoveChapter, Quiz!PickImages, Quiz!Edit
<1>2. ASSUME NEW g \in Images,
             Quiz!Reencoded(g) \/ Quiz!TooMany(g) \/ Quiz!Breaks(g) \/ Quiz!NotEncoded(g)
      PROVE  (\E q : Quiz!Become(q)) \/ Quiz!Cleared \/ UNCHANGED Quiz!Viewer
    BY <1>2 DEF Quiz!Reencoded, Quiz!TooMany, Quiz!Breaks, Quiz!NotEncoded
<1>3. ASSUME \/ Quiz!AddChapter \/ Quiz!AskImport \/ Quiz!Parsed \/ Quiz!NotParsed
             \/ \E yes \in BOOLEAN : Quiz!ConfirmImport(yes)
      PROVE  (\E q : Quiz!Become(q)) \/ UNCHANGED Quiz!Viewer
    BY <1>3 DEF Quiz!AddChapter, Quiz!Edit, Quiz!AskImport, Quiz!Parsed,
       Quiz!NotParsed, Quiz!ConfirmImport
<1>4. ASSUME Quiz!Save \/ Quiz!Submit \/ Quiz!Saved \/ Quiz!NotSaved \/ Quiz!OpenFile
      PROVE  Quiz!Cleared \/ UNCHANGED Quiz!Viewer
    BY <1>4 DEF Quiz!Save, Quiz!Submit, Quiz!Saved, Quiz!NotSaved, Quiz!OpenFile
<1>5. CASE UNCHANGED Quiz!quizVars
    BY <1>5 DEF Quiz!quizVars, Quiz!Viewer
<1> QED
    BY <1>1, <1>2, <1>3, <1>4, <1>5 DEF Quiz!Next

\* What a preview is passed while it is being answered waits; else it has no
\* answers then.
LEMMA PassedQuizWaits ==
    ASSUME NEW q, Quiz!Become(q)
    PROVE  \/ v10' = v10 /\ UNCHANGED <<v9, v11, v12>>
           \/ v8 /\ ~v10 /\ v10' = v10 /\ v11' = {}
BY DEF Quiz!Become, Quiz!Take, Quiz!Viewer

\* The ref is set as soon as the viewer has an answer.
LEMMA AnsweredIsStarted ==
    ASSUME v11 # {} => v10, [Quiz!Next]_(Quiz!quizVars)
    PROVE  v11' # {} => v10'
<1>1. CASE UNCHANGED Quiz!Viewer \/ Quiz!Finish
    BY <1>1 DEF Quiz!Viewer, Quiz!Finish
<1>2. CASE \E q : Quiz!Become(q)
    BY <1>2, PassedQuizWaits
<1>3. CASE Quiz!OpenPreview \/ Quiz!ClosePreview \/ Quiz!Retry \/ Quiz!Cleared
    BY <1>3 DEF Quiz!OpenPreview, Quiz!Take, Quiz!ClosePreview, Quiz!Retry, Quiz!Cleared
<1>4. CASE \E c \in Chapters : Quiz!Answer(c) \/ Quiz!Unchoose(c)
    BY <1>4 DEF Quiz!Answer, Quiz!Unchoose
<1>5. CASE \E n \in 1..MaxFiles, ok \in BOOLEAN : Quiz!Loaded(n, ok)
    BY <1>5 DEF Quiz!Loaded
<1> QED
    BY <1>1, <1>2, <1>3, <1>4, <1>5, ViewerSteps

\* An editor loads no file, and what a page shows is its file.
LEMMA QuizKept ==
    ASSUME Quiz!QuizInv, [Quiz!Next]_(Quiz!quizVars)
    PROVE  Quiz!QuizInv'
<1> USE DEF Quiz!QuizInv, Quiz!QuizIsItsFile
<1>1. v11' # {} => v10'
    BY AnsweredIsStarted
<1>2. CASE UNCHANGED <<v13, v14, v15, v16, v17>> /\ v1' \in {v1, "left", "broken"}
    BY <1>1, <1>2 DEF Quiz!Editing
<1>3. CASE Quiz!OpenFile
    BY <1>1, <1>3 DEF Quiz!OpenFile, Quiz!Editing
<1>4. ASSUME NEW n \in 1..MaxFiles, NEW ok \in BOOLEAN, Quiz!Loaded(n, ok)
      PROVE  Quiz!QuizInv'
    BY <1>1, <1>4 DEF Quiz!Loaded, Quiz!Editing
<1> QED
    BY <1>2, <1>3, <1>4, PageOfQuiz

\* A preview with answers keeps them, whatever it is passed.
LEMMA PreviewKeepsAnswers ==
    ASSUME Quiz!QuizInv, [Quiz!Next]_(Quiz!quizVars), Quiz!Editing, v8, v8', v11 # {},
           <<v2, v3, v4, v5, v6>>' # <<v2, v3, v4, v5, v6>>
    PROVE  UNCHANGED <<v9, v17, v11, v12>>
<1>1. v10 /\ v14 = {}
    BY DEF Quiz!QuizInv
<1>2. v17' = v17
    BY <1>1, PageOfQuiz DEF Quiz!OpenFile, Quiz!Loaded, Quiz!Editing
<1>3. CASE UNCHANGED Quiz!Viewer
    BY <1>2, <1>3 DEF Quiz!Viewer
<1>4. CASE \E q : Quiz!Become(q)
    BY <1>1, <1>2, <1>4, PassedQuizWaits
<1>5. CASE Quiz!Cleared
    BY <1>5 DEF Quiz!Cleared
<1>6. ASSUME \/ Quiz!OpenPreview \/ Quiz!ClosePreview \/ Quiz!Finish \/ Quiz!Retry
             \/ \E c \in Chapters : Quiz!Answer(c) \/ Quiz!Unchoose(c)
             \/ \E n \in 1..MaxFiles, ok \in BOOLEAN : Quiz!Loaded(n, ok)
      PROVE  FALSE
    BY <1>6 DEF Quiz!OpenPreview, Quiz!ClosePreview, Quiz!Finish, Quiz!Retry,
       Quiz!Answer, Quiz!Unchoose, Quiz!Loaded, Quiz!Imports
<1> QED
    BY <1>3, <1>4, <1>5, <1>6, ViewerSteps

\* On a page with answers, a file that is loaded late is not the page's.
LEMMA PageKeepsAnswers ==
    ASSUME Quiz!QuizInv, [Quiz!Next]_(Quiz!quizVars), v1 = "page", ~v15, v13' = v13, v14' # v14
    PROVE  UNCHANGED <<v9, v17, v11, v12>>
<1>1. v13 \notin v14 /\ v13 \in Nat
    BY DEF Quiz!QuizInv
<1>2. ~Quiz!OpenFile
    BY <1>1 DEF Quiz!OpenFile
<1>3. PICK n \in 1..MaxFiles, ok \in BOOLEAN : Quiz!Loaded(n, ok)
    BY <1>2, PageOfQuiz
<1> QED
    BY <1>1, <1>3 DEF Quiz!Loaded

\* Nothing that arrives changes the answers of a quiz that is being answered.
LEMMA NoAnswerIsForgotten ==
    ASSUME Quiz!QuizInv, [Quiz!Next]_(Quiz!quizVars)
    PROVE  Quiz!AnswersStay
<1> SUFFICES ASSUME Quiz!Answerable, v11 # {}, Quiz!Arrives
             PROVE  UNCHANGED <<v9, v17, v11, v12>>
    BY DEF Quiz!AnswersStay
<1>1. CASE Quiz!Editing /\ v8' /\ <<v2, v3, v4, v5, v6>>' # <<v2, v3, v4, v5, v6>>
    BY <1>1, PreviewKeepsAnswers DEF Quiz!Answerable
<1>2. CASE v1 = "page" /\ v13' = v13 /\ v14' # v14
    BY <1>2, PageKeepsAnswers DEF Quiz!Answerable, Quiz!Editing
<1> QED
    BY <1>1, <1>2 DEF Quiz!Arrives, Quiz!Imports

-----------------------------------------------------------------------------
(* SearchPages: v1 host, v3 words, v4 filter, v5 sheet, v6 debounced,      *)
(* v7 phase, v8 hits, v9 search, v10 delay, v11 back, v12 found.           *)

\* What a user looks at is something to search for.
LEMMA KeysAreSheets ==
    ASSUME NEW w \in Search!Words, NEW f \in Search!Filters, NEW s \in Nat \ {0}
    PROVE  /\ Search!Key(w, f, s) \in Search!Sheets
           /\ Search!Key(w, f, s).words = w /\ Search!Key(w, f, s).filter = f
           /\ Search!Key(w, f, s).sheet = s
BY DEF Search!Key, Search!Sheets

\* Nothing, and no results, are such too.
LEMMA NothingFits ==
    /\ Search!NoKey \in Search!Sheets /\ Search!NoKey.words = "none"
    /\ Search!NoSearch \in [key : Search!Sheets, aborted : BOOLEAN] /\ Search!NoSearch.key = Search!NoKey
    /\ Search!NoHits \in [of : Search!Sheets, total : Nat, some : BOOLEAN] /\ Search!NoHits.total = 0
BY DEF Search!NoKey, Search!Sheets, Search!Words, Search!Filters, Search!NoSearch, Search!NoHits

\* A correction is of a page number that the results do not reach.
LEMMA CorrectionsArePastTheEnd ==
    ASSUME NEW p, NEW key \in Search!Sheets,
           NEW h \in [of : Search!Sheets, total : Nat, some : BOOLEAN],
           NEW g \in [Search!Filters -> Nat], h.total > 0 => h.total = g[h.of.filter]
    PROVE  /\ Search!Correction(p, h, key) \in Search!Sheets
           /\ Search!Correction(p, h, key) # Search!NoKey => key.sheet > g[key.filter]
<1>1. CASE h.of = key /\ h.total > 0 /\ Search!ValidPage(h.total, key.sheet) # key.sheet
  <2>1. Search!ValidPage(h.total, key.sheet) = h.total /\ key.sheet > h.total
    BY <1>1 DEF Search!ValidPage, Search!LastPage, Search!Sheets
  <2>2. [key EXCEPT !.sheet = h.total] \in Search!Sheets
    BY <1>1 DEF Search!Sheets
  <2> QED
    BY <1>1, <2>1, <2>2, NothingFits DEF Search!Correction
<1>2. CASE ~(h.of = key /\ h.total > 0 /\ Search!ValidPage(h.total, key.sheet) # key.sheet)
    BY <1>2, NothingFits DEF Search!Correction
<1> QED
    BY <1>1, <1>2

\* Whoever has settled on a query asks for it; else nothing is asked for.
LEMMA AskedForOnesQuery ==
    ASSUME NEW d, NEW w, NEW key \in Search!Sheets, key.words = w, NEW p, Search!Ask(d, w, key, p)
    PROVE  /\ v6' = d /\ v9' \in [key : Search!Sheets, aborted : BOOLEAN]
           /\ IF d # "none" /\ d = w THEN Search!Requesting' ELSE v7' = p
<1>1. CASE d # "none" /\ d = w
  <2> DEFINE new == [key |-> key, aborted |-> FALSE]
  <2>1. new \in [key : Search!Sheets, aborted : BOOLEAN] /\ new.key = key /\ ~new.aborted
    OBVIOUS
  <2>2. v6' = d /\ v9' = new
    BY <1>1 DEF Search!Ask
  <2> HIDE DEF new
  <2>3. new # Search!NoSearch
    BY <1>1, <2>1, NothingFits
  <2> QED
    BY <1>1, <2>1, <2>2, <2>3 DEF Search!Requesting
<1>2. CASE ~(d # "none" /\ d = w)
    BY <1>2, NothingFits DEF Search!Ask
<1> QED
    BY <1>1, <1>2

\* Another query, filter or page number leaves all as it should be.
LEMMA RenderKeeps ==
    ASSUME Search!SearchInv, UNCHANGED v12,
           NEW w \in Search!Words, NEW f \in Search!Filters, NEW s \in Nat \ {0}, Search!Render(w, f, s)
    PROVE  Search!SearchInv'
<1> USE DEF Search!SearchInv, Search!SearchFits
<1> DEFINE key == Search!Key(w, f, s)
<1>1. key \in Search!Sheets /\ key.words = w /\ key.filter = f /\ key.sheet = s
    BY KeysAreSheets
<1>2. v3' = w /\ v4' = f /\ v5' = s
    BY DEF Search!Render
<1>3. v11' \in Search!Sheets /\ Search!OnlyPastTheEndIsCorrected'
  <2>1. v11' \in {Search!NoKey, Search!Correction(v7, v8, key)}
    BY DEF Search!Render
  <2>2. Search!Correction(v7, v8, key) # Search!NoKey => s > v12[f]
    BY <1>1, CorrectionsArePastTheEnd DEF Search!TotalsAreFound
  <2>3. Search!Correction(v7, v8, key) \in Search!Sheets
    BY <1>1, CorrectionsArePastTheEnd DEF Search!TotalsAreFound
  <2> QED
    BY <1>2, <2>1, <2>2, <2>3, NothingFits DEF Search!OnlyPastTheEndIsCorrected
<1>4. v8' \in [of : Search!Sheets, total : Nat, some : BOOLEAN] /\ Search!TotalsAreFound'
    BY NothingFits DEF Search!Render, Search!TotalsAreFound
<1> HIDE DEF key
<1>5. CASE f # v4 \/ s # v5
  <2>1. Search!Ask(v6, w, key, Search!Debounced(w))
    BY <1>5 DEF Search!Render, key
  <2>2. /\ v6' = v6 /\ v9' \in [key : Search!Sheets, aborted : BOOLEAN]
        /\ IF v6 # "none" /\ v6 = w THEN Search!Requesting' ELSE v7' = Search!Debounced(w)
    BY <1>1, <2>1, AskedForOnesQuery
  <2>3. CASE w # v3
    BY <1>2, <1>3, <1>4, <2>2, <2>3 DEF Search!Render, Search!WaitingForOnesQuery
  <2>4. CASE w = v3
    <3>1. Search!Debounced(w) = v7 /\ v10' = v10
        BY <2>4 DEF Search!Render, Search!Debounced
    <3>2. Search!WaitingForOnesQuery'
        BY <1>2, <2>2, <2>4, <3>1 DEF Search!WaitingForOnesQuery, Search!Waiting
    <3> QED
        BY <1>2, <1>3, <1>4, <2>2, <3>2
  <2> QED
    BY <2>3, <2>4
<1>6. CASE ~(f # v4 \/ s # v5)
  <2>1. v7' = Search!Debounced(w) /\ v6' = v6
    BY <1>6 DEF Search!Render
  <2>2. v9' = IF w = v3 \/ v9 = Search!NoSearch THEN v9 ELSE [v9 EXCEPT !.aborted = TRUE]
    BY <1>6 DEF Search!Render
  <2>3. v9' \in [key : Search!Sheets, aborted : BOOLEAN]
    BY <2>2
  <2>4. CASE w # v3
    BY <1>2, <1>3, <1>4, <2>1, <2>3, <2>4 DEF Search!Render, Search!WaitingForOnesQuery
  <2>5. CASE w = v3
    <3>1. v7' = v7 /\ v10' = v10 /\ v9' = v9
        BY <2>1, <2>2, <2>5 DEF Search!Render, Search!Debounced
    <3>2. Search!WaitingForOnesQuery'
        BY <1>2, <2>1, <2>5, <3>1 DEF Search!WaitingForOnesQuery, Search!Waiting,
           Search!Requesting
    <3> QED
        BY <1>2, <1>3, <1>4, <2>1, <2>3, <3>2
  <2> QED
    BY <2>4, <2>5
<1> QED
    BY <1>5, <1>6

\* The hook that a page is mounted with, or that is left, knows nothing.
LEMMA FreshHook ==
    ASSUME Search!SearchInv, UNCHANGED v12, v8' = Search!NoHits, v9' = Search!NoSearch,
               v11' = Search!NoKey,
           v3' \in Search!Words, v4' \in Search!Filters, v5' \in Nat \ {0}, v6' = "none",
           v10' \/ v7' = "idle"
    PROVE  Search!SearchInv'
<1>1. Search!SearchFits'
    BY NothingFits DEF Search!SearchInv, Search!SearchFits, Search!Words
<1>2. Search!WaitingForOnesQuery'
    BY DEF Search!WaitingForOnesQuery, Search!Waiting
<1>3. Search!TotalsAreFound' /\ Search!OnlyPastTheEndIsCorrected'
    BY NothingFits DEF Search!TotalsAreFound, Search!OnlyPastTheEndIsCorrected
<1> QED
    BY <1>1, <1>2, <1>3 DEF Search!SearchInv

\* The timer, and asking again after a failure.
LEMMA SearchAsked ==
    ASSUME Search!SearchInv, Search!TimerFires \/ Search!Retry
    PROVE  Search!SearchInv'
<1> USE DEF Search!SearchInv, Search!SearchFits
<1> DEFINE key == Search!Key(v3, v4, v5)
<1>1. key \in Search!Sheets /\ key.words = v3
    BY KeysAreSheets
<1>2. UNCHANGED <<v3, v4, v5, v8, v11, v12>>
    BY DEF Search!TimerFires, Search!Retry
<1> HIDE DEF key
<1>3. CASE Search!TimerFires /\ v3 = "none"
  <2>1. v6' = "none" /\ v9' = Search!NoSearch /\ v7' = "idle"
    BY <1>3 DEF Search!TimerFires
  <2> QED
    BY <1>2, <2>1, NothingFits DEF Search!TotalsAreFound, Search!OnlyPastTheEndIsCorrected,
       Search!WaitingForOnesQuery, Search!Waiting, Search!Words
<1>4. CASE Search!TimerFires /\ v3 # "none"
  <2>1. Search!Ask(v3, v3, key, v7)
    BY <1>4 DEF Search!TimerFires, key
  <2>2. v6' = v3 /\ v9' \in [key : Search!Sheets, aborted : BOOLEAN] /\ Search!Requesting'
    BY <1>1, <1>4, <2>1, AskedForOnesQuery
  <2> QED
    BY <1>2, <1>4, <2>2 DEF Search!TotalsAreFound, Search!OnlyPastTheEndIsCorrected,
       Search!WaitingForOnesQuery
<1>5. CASE Search!Retry
  <2>1. Search!Ask(v6, v3, key, v7) /\ v7 = "error" /\ v10' = v10
    BY <1>5 DEF Search!Retry, Search!Retryable, key
  <2>2. /\ v6' = v6 /\ v9' \in [key : Search!Sheets, aborted : BOOLEAN]
        /\ IF v6 # "none" /\ v6 = v3 THEN Search!Requesting' ELSE v7' = v7
    BY <1>1, <2>1, AskedForOnesQuery
  <2>3. Search!WaitingForOnesQuery'
    BY <1>2, <2>1, <2>2 DEF Search!WaitingForOnesQuery, Search!Waiting
  <2> QED
    BY <1>2, <2>2, <2>3 DEF Search!TotalsAreFound, Search!OnlyPastTheEndIsCorrected
<1> QED
    BY <1>3, <1>4, <1>5

\* An answer tells what the server has for its filter.
LEMMA SearchAnswered ==
    ASSUME Search!SearchInv, Search!Answered
    PROVE  Search!SearchInv'
<1> USE DEF Search!SearchInv, Search!SearchFits
<1> DEFINE some == v9.key.sheet <= v12[v9.key.filter]
           got == [of |-> v9.key, total |-> v12[v9.key.filter], some |-> some]
           key == Search!Key(v3, v4, v5)
<1>1. UNCHANGED <<v3, v4, v5, v6, v10, v12>> /\ v9' = Search!NoSearch
    BY DEF Search!Answered, Search!hookRest
<1>2. v8' = got /\ v7' \in {"success", "empty"} /\ v11' = Search!Correction(v7', v8', key)
    BY DEF Search!Answered
<1>3. got \in [of : Search!Sheets, total : Nat, some : BOOLEAN]
  <2>1. v9.key \in Search!Sheets /\ v12[v9.key.filter] \in Nat
    BY DEF Search!Sheets
  <2>2. some \in BOOLEAN
    BY <2>1 DEF Search!Sheets
  <2> HIDE DEF some
  <2> QED
    BY <2>1, <2>2
<1>4. got.total = v12[got.of.filter]
    OBVIOUS
<1>5. key \in Search!Sheets /\ key.filter = v4 /\ key.sheet = v5
    BY KeysAreSheets
<1> HIDE DEF got, key
<1>6. v11' \in Search!Sheets /\ (v11' # Search!NoKey => v5 > v12[v4])
    BY <1>2, <1>3, <1>4, <1>5, CorrectionsArePastTheEnd
<1>7. Search!WaitingForOnesQuery'
    BY <1>2 DEF Search!WaitingForOnesQuery, Search!Waiting
<1>8. Search!TotalsAreFound' /\ Search!OnlyPastTheEndIsCorrected'
    BY <1>1, <1>2, <1>4, <1>6 DEF Search!TotalsAreFound, Search!OnlyPastTheEndIsCorrected
<1> QED
    BY <1>1, <1>2, <1>3, <1>6, <1>7, <1>8, NothingFits

\* A failure finds nothing.
LEMMA SearchFailed ==
    ASSUME Search!SearchInv, Search!Fails
    PROVE  Search!SearchInv'
<1> USE DEF Search!SearchInv, Search!SearchFits
<1>1. UNCHANGED <<v3, v4, v5, v6, v10, v11, v12>> /\ v9' = Search!NoSearch /\ v7' \in {"error", "refused"}
    BY DEF Search!Fails, Search!hookRest
<1>2. v8' = [v8 EXCEPT !.total = 0, !.some = FALSE]
    BY DEF Search!Fails
<1>3. v8' \in [of : Search!Sheets, total : Nat, some : BOOLEAN] /\ v8'.total = 0
    BY <1>2
<1> QED
    BY <1>1, <1>3, NothingFits DEF Search!WaitingForOnesQuery, Search!Waiting,
       Search!TotalsAreFound, Search!OnlyPastTheEndIsCorrected

\* The page and the dialog.
LEMMA SearchKept ==
    ASSUME MaxSheet \in Nat \ {0}, Search!SearchInv, [Search!Next]_(Search!searchVars)
    PROVE  Search!SearchInv'
<1>1. CASE UNCHANGED Search!searchVars \/ Search!OpenDialog
  <2>1. UNCHANGED <<v3, v4, v5, v6, v7, v8, v9, v10, v11, v12>>
    BY <1>1 DEF Search!searchVars, Search!OpenDialog
  <2> QED
    BY <2>1 DEF Search!SearchInv, Search!SearchFits, Search!WaitingForOnesQuery,
       Search!Waiting, Search!Requesting, Search!TotalsAreFound,
       Search!OnlyPastTheEndIsCorrected
<1>2. v3 \in Search!Words /\ v4 \in Search!Filters /\ v5 \in Nat \ {0} /\ v11 \in Search!Sheets
    BY DEF Search!SearchInv, Search!SearchFits
<1>3. "none" \in Search!Words /\ "all" \in Search!Filters /\ 1 \in Nat \ {0}
    BY DEF Search!Words, Search!Filters
<1>4. ASSUME NEW w \in Search!Words, Search!Submit(w) \/ Search!Suggest(w) \/ Search!Type(w)
      PROVE  Search!SearchInv'
    BY <1>2, <1>3, <1>4, RenderKeeps DEF Search!Submit, Search!Suggest, Search!Type
<1>5. CASE Search!ClearBox
    BY <1>2, <1>3, <1>5, RenderKeeps DEF Search!ClearBox, Search!Submit
<1>6. ASSUME NEW f \in Search!Filters, Search!FilterPage(f) \/ Search!FilterDialog(f)
      PROVE  Search!SearchInv'
    BY <1>2, <1>3, <1>6, RenderKeeps DEF Search!FilterPage, Search!FilterDialog
<1>7. CASE Search!ClearAllFilters
    BY <1>3, <1>6, <1>7 DEF Search!ClearAllFilters
<1>8. ASSUME NEW s \in 0..(MaxSheet + 1), Search!ChangePage(s)
      PROVE  Search!SearchInv'
  <2> DEFINE to == IF s > MaxSheet THEN MaxSheet ELSE s
  <2>1. s \in Nat /\ s # 0
    BY <1>2, <1>8 DEF Search!ChangePage
  <2>2. to \in Nat \ {0}
    BY <2>1
  <2>3. Search!Render(v3, v4, to) /\ UNCHANGED v12
    BY <1>8 DEF Search!ChangePage
  <2> HIDE DEF to
  <2> QED
    BY <1>2, <2>2, <2>3, RenderKeeps
<1>9. CASE Search!Correct
  <2>1. v11.words \in Search!Words /\ v11.filter \in Search!Filters /\ v11.sheet \in Nat \ {0}
    BY <1>2 DEF Search!Sheets
  <2> QED
    BY <1>9, <2>1, RenderKeeps DEF Search!Correct
<1>10. ASSUME NEW w \in Search!Words, NEW f \in Search!Filters, NEW s \in 1..MaxSheet,
              Search!Visit(w, f, s)
       PROVE  Search!SearchInv'
    BY <1>10, RenderKeeps DEF Search!Visit
<1>11. ASSUME NEW w \in Search!Words, NEW f \in Search!Filters, NEW s \in 1..MaxSheet,
              Search!MountPage(w, f, s)
       PROVE  Search!SearchInv'
    BY <1>11, FreshHook DEF Search!MountPage
<1>12. CASE Search!LeavePage
    BY <1>3, <1>12, FreshHook DEF Search!LeavePage
<1>13. CASE Search!CloseDialog
    BY <1>3, <1>13, RenderKeeps DEF Search!CloseDialog
<1>14. CASE Search!OpenResult
    BY <1>12, <1>13, <1>14 DEF Search!OpenResult
<1> QED
    BY <1>1, <1>4, <1>5, <1>6, <1>7, <1>8, <1>9, <1>10, <1>11, <1>12, <1>13, <1>14,
       SearchAsked, SearchAnswered, SearchFailed DEF Search!Next

\* Both users of the search hook begin with nothing.
LEMMA SearchStarts ==
    ASSUME MaxSheet \in Nat, Search!Init
    PROVE  Search!SearchInv
<1>1. v12 \in [Search!Filters -> Nat]
    BY DEF Search!Init, Search!Pages
<1>2. /\ v3 = "none" /\ v4 = "all" /\ v5 = 1 /\ v6 = "none" /\ v7 = "idle"
      /\ v8 = Search!NoHits /\ v9 = Search!NoSearch /\ v11 = Search!NoKey
    BY DEF Search!Init
<1>3. Search!SearchFits
    BY <1>1, <1>2, NothingFits DEF Search!SearchFits, Search!Words, Search!Filters
<1>4. Search!WaitingForOnesQuery
    BY <1>2 DEF Search!WaitingForOnesQuery, Search!Waiting
<1>5. Search!TotalsAreFound /\ Search!OnlyPastTheEndIsCorrected
    BY <1>2, NothingFits, BoundsAreNumbers DEF Search!TotalsAreFound,
       Search!OnlyPastTheEndIsCorrected
<1> QED
    BY <1>3, <1>4, <1>5 DEF Search!SearchInv

-----------------------------------------------------------------------------
(* DirectoryTree: v1 listed, v3 requests, v4 loading, v6 expanded,         *)
(* v7 opened, v9 activeDir, v12 news, v13 failed.                          *)

\* A new request is the latest of its node; those of other nodes stay.
LEMMA AskingAgain ==
    ASSUME NEW rs, Tree!WalksAreOfDir(rs), NEW nodes \in SUBSET Tree!Nodes,
           NEW kind \in {"loud", "silent", "quiet"}, kind = "quiet" => nodes \subseteq {"dir"},
           Tree!Ask(rs, nodes, kind)
    PROVE  /\ Tree!WalksAreOfDir(v3')
           /\ \A r \in v3' : r.latest => \/ r \in rs /\ r.node \notin nodes
                                         \/ r.node \in nodes /\ r.read = "none"
           /\ \A r \in rs : r.node \notin nodes => r \in v3'
           /\ \A n \in nodes : \E r \in v3' : r.node = n /\ r.latest /\ r.mine /\ r.read = "none"
<1> DEFINE kept == {r \in rs : r.node \notin nodes}
           late == {[r EXCEPT !.latest = FALSE] : r \in {q \in rs : q.walked /\ q.node \in nodes}}
           new == {Tree!Request(n, kind) : n \in nodes}
<1>1. v3' = (kept \cup late) \cup new
    BY DEF Tree!Ask, Tree!Overtaken
<1>2. \A r \in kept : r \in Tree!Requests /\ (r.walked => r.node = "dir") /\ r \in rs /\
          r.node \notin nodes
    BY DEF Tree!WalksAreOfDir
<1>3. \A r \in late : r \in Tree!Requests /\ (r.walked => r.node = "dir") /\ ~r.latest
    BY DEF Tree!WalksAreOfDir, Tree!Requests
<1>4. ASSUME NEW n \in nodes
      PROVE  LET r == Tree!Request(n, kind)
             IN  /\ r \in Tree!Requests /\ (r.walked => r.node = "dir")
                 /\ r.node = n /\ r.latest /\ r.mine /\ r.read = "none"
  <2> DEFINE walked == kind = "quiet"
             r == Tree!Request(n, kind)
  <2>1. walked \in BOOLEAN
    BY Zenon
  <2>2. r = [node |-> n, kind |-> kind, latest |-> TRUE, mine |-> TRUE, walked |-> walked, read |-> "none"]
    BY DEF Tree!Request
  <2>3. walked => n = "dir"
    OBVIOUS
  <2> HIDE DEF walked, r
  <2>4. r \in Tree!Requests
    BY <2>1, <2>2 DEF Tree!Requests, Tree!Age
  <2>5. (r.walked => r.node = "dir") /\ r.node = n /\ r.latest /\ r.mine /\ r.read = "none"
    BY <2>2, <2>3
  <2> QED
    BY <2>4, <2>5 DEF r
<1>5. \A r \in new : \E n \in nodes :
          /\ r = Tree!Request(n, kind)
          /\ r \in Tree!Requests /\ (r.walked => r.node = "dir")
          /\ r.node = n /\ r.latest /\ r.mine /\ r.read = "none"
    BY <1>4
<1>6. \A r \in rs : r.node \notin nodes => r \in kept
    OBVIOUS
<1>7. \A n \in nodes : \E r \in new : r.node = n /\ r.latest /\ r.mine /\ r.read = "none"
    BY <1>4
<1> HIDE DEF kept, late, new
<1>8. Tree!WalksAreOfDir(v3')
    BY <1>1, <1>2, <1>3, <1>5 DEF Tree!WalksAreOfDir
<1>9. \A r \in v3' : r.latest => \/ r \in rs /\ r.node \notin nodes
                                 \/ r.node \in nodes /\ r.read = "none"
    BY <1>1, <1>2, <1>3, <1>5
<1> QED
    BY <1>1, <1>6, <1>7, <1>8, <1>9

\* So whatever it asks about is tended, and spins.
LEMMA AskedIsTended ==
    ASSUME NEW rs, Tree!WalksAreOfDir(rs), NEW nodes \in SUBSET Tree!Nodes,
           NEW kind \in {"loud", "silent", "quiet"}, kind = "quiet" => nodes \subseteq {"dir"},
           Tree!Ask(rs, nodes, kind), NEW ls, NEW F, NEW ns, Tree!Tended(rs, ls, F, ns, v13)
    PROVE  Tree!Tended(v3', ls, F, ns \ nodes, v13')
<1>1. v13' = v13 \ nodes
    BY DEF Tree!Ask
<1>2. /\ \A r \in v3' : r.latest => \/ r \in rs /\ r.node \notin nodes
                                    \/ r.node \in nodes /\ r.read = "none"
      /\ \A r \in rs : r.node \notin nodes => r \in v3'
      /\ \A n \in nodes : \E r \in v3' : r.node = n /\ r.latest /\ r.mine /\ r.read = "none"
    BY AskingAgain
<1>3. ASSUME NEW n \in F
      PROVE  \A r \in v3' : r.node = n /\ r.latest /\ r.read = "old" => n \in ns \ nodes
    BY <1>2 DEF Tree!Tended
<1>4. ASSUME NEW n \in F, ls[n] = "old"
      PROVE  \/ n \in ns \ nodes \/ n \in v13'
             \/ \E r \in v3' : r.node = n /\ r.latest /\ r.read # "old"
  <2>1. CASE n \in nodes
    BY <1>2, <2>1
  <2>2. CASE n \notin nodes
    BY <1>1, <1>2, <1>4, <2>2 DEF Tree!Tended
  <2> QED
    BY <2>1, <2>2
<1> QED
    BY <1>3, <1>4 DEF Tree!Tended

\* A spinner that is shown for a request is one of the tree's own.
LEMMA AskedSpins ==
    ASSUME NEW rs, Tree!WalksAreOfDir(rs), NEW nodes \in SUBSET Tree!Nodes,
           NEW kind \in {"loud", "silent", "quiet"}, kind = "quiet" => nodes \subseteq {"dir"},
           Tree!Ask(rs, nodes, kind), NEW lo, Tree!Spun(rs, lo)
    PROVE  Tree!Spun(v3', lo \cup nodes)
BY AskingAgain DEF Tree!Spun

\* A walk that is given up leaves its request to tend and to spin.
LEMMA AbandonedStay ==
    ASSUME NEW rs, Tree!WalksAreOfDir(rs)
    PROVE  /\ Tree!WalksAreOfDir(Tree!Abandoned(rs))
           /\ \A r \in Tree!Abandoned(rs) :
                 \E q \in rs : q.latest /\ r.latest /\ r.node = q.node /\ r.mine = q.mine /\
                     r.read = q.read
           /\ \A q \in rs : q.latest =>
                 \E r \in Tree!Abandoned(rs) : r.latest /\ r.node = q.node /\
                     r.mine = q.mine /\ r.read = q.read
<1>1. ASSUME NEW q \in rs, q.latest
      PROVE  LET r == [q EXCEPT !.walked = FALSE]
             IN  /\ r \in Tree!Requests /\ ~r.walked /\ r.latest
                 /\ r.node = q.node /\ r.mine = q.mine /\ r.read = q.read
    BY <1>1 DEF Tree!WalksAreOfDir, Tree!Requests
<1>2. \A r \in Tree!Abandoned(rs) : \E q \in rs : q.latest /\ r = [q EXCEPT !.walked = FALSE]
    BY DEF Tree!Abandoned
<1>3. \A q \in rs : q.latest => [q EXCEPT !.walked = FALSE] \in Tree!Abandoned(rs)
    BY DEF Tree!Abandoned
<1>4. Tree!WalksAreOfDir(Tree!Abandoned(rs))
    BY <1>1, <1>2 DEF Tree!WalksAreOfDir
<1> QED
    BY <1>1, <1>2, <1>3, <1>4, ZenonT(30)

\* Requests that are given up still leave every open folder tended.
LEMMA AbandonedTend ==
    ASSUME NEW rs, Tree!WalksAreOfDir(rs), NEW ls, NEW F, NEW ns, NEW fs, Tree!Tended(rs, ls, F, ns, fs)
    PROVE  Tree!Tended(Tree!Abandoned(rs), ls, F, ns, fs)
BY AbandonedStay DEF Tree!Tended

\* Requests that are given up still leave every spinner a request.
LEMMA AbandonedSpin ==
    ASSUME NEW rs, Tree!WalksAreOfDir(rs), NEW lo, Tree!Spun(rs, lo)
    PROVE  Tree!Spun(Tree!Abandoned(rs), lo)
BY AbandonedStay DEF Tree!Spun

\* The latest answer of a node is what is listed, or it failed, or what was
\* listed is forgotten.
LEMMA AnswerTends ==
    ASSUME NEW rs, NEW r \in rs, NEW ls, NEW ls2, NEW F, NEW ns, NEW fs, NEW fs2,
           Tree!Tended(rs, ls, F, ns, fs), fs \subseteq fs2,
           \A n \in F : n # r.node => ls2[n] = ls[n],
           r.latest => ls2[r.node] \in {r.read, "none"} \/ r.node \in fs2,
           ~r.latest => ls2[r.node] \in {ls[r.node], "none"}
    PROVE  Tree!Tended(rs \ {r}, ls2, F, ns, fs2)
BY DEF Tree!Tended

\* What is newly followed is resynchronised; an event more, or a listing less
\* to look after, does no harm.
LEMMA FollowedAfresh ==
    ASSUME NEW rs, NEW ls, NEW F, NEW F2, NEW ns, NEW fs, Tree!Tended(rs, ls, F, ns, fs)
    PROVE  Tree!Tended(rs, ls, F2, (ns \cap F2) \cup (F2 \ F), fs)
BY DEF Tree!Tended

\* More news, and listings that are not known any more, leave a folder tended.
LEMMA MoreNews ==
    ASSUME NEW rs, NEW ls, NEW ls2, NEW F, NEW ns, NEW ns2, NEW fs, Tree!Tended(rs, ls, F, ns, fs),
           ns \subseteq ns2, \A n \in F : ls2[n] \in {ls[n], "none"}
    PROVE  Tree!Tended(rs, ls2, F, ns2, fs)
BY DEF Tree!Tended

\* The spinner goes with the request that is its latest.
LEMMA SettledSpin ==
    ASSUME NEW r \in v3, Tree!Spun(v3, v4)
    PROVE  Tree!Spun(v3 \ {r}, Tree!Settled(r))
BY DEF Tree!Spun, Tree!Settled

\* Subscriptions depend on three things.
LEMMA SameSubscriptions ==
    ASSUME UNCHANGED <<v6, v7, v9>>
    PROVE  Tree!Subscribed' = Tree!Subscribed
BY DEF Tree!Subscribed

\* The listings, the requests, their events and their spinners.
LEMMA TreeUntouched ==
    ASSUME Tree!TreeInv, UNCHANGED <<v1, v3, v4, v6, v7, v9, v12, v13>>
    PROVE  Tree!TreeInv'
BY SameSubscriptions DEF Tree!TreeInv

\* The server reads a listing for a request.
LEMMA ListingRead ==
    ASSUME Tree!TreeInv, NEW r \in v3, Tree!Read(r)
    PROVE  Tree!TreeInv'
<1> USE DEF Tree!TreeInv
<1> DEFINE s == [r EXCEPT !.read = "now"]
<1>1. /\ s \in Tree!Requests /\ s.node = r.node /\ s.latest = r.latest /\ s.mine = r.mine
      /\ s.walked = r.walked /\ s.read = "now"
    BY DEF Tree!WalksAreOfDir, Tree!Requests, Tree!Age
<1>2. v3' = (v3 \ {r}) \cup {s} /\ UNCHANGED <<v1, v4, v6, v7, v9, v12, v13>>
    BY DEF Tree!Read
<1> HIDE DEF s
<1>3. Tree!WalksAreOfDir(v3')
    BY <1>1, <1>2 DEF Tree!WalksAreOfDir
<1>4. Tree!Tended(v3', v1, Tree!Subscribed, v12, v13)
    BY <1>1, <1>2 DEF Tree!Tended
<1>5. Tree!Spun(v3', v4)
    BY <1>1, <1>2 DEF Tree!Spun
<1> QED
    BY <1>2, <1>3, <1>4, <1>5, SameSubscriptions

\* A listing arrives, or its request fails.
LEMMA ListingAnswered ==
    ASSUME Tree!TreeInv, NEW r \in v3, Tree!Answered(r) \/ Tree!Fails(r)
    PROVE  Tree!TreeInv'
<1> USE DEF Tree!TreeInv
<1>1. r.node \in Tree!Nodes /\ r.read \in Tree!Age /\ r \in Tree!Requests
    BY DEF Tree!WalksAreOfDir, Tree!Requests
<1>2. /\ v3' = v3 \ {r} /\ v4' = Tree!Settled(r) /\ UNCHANGED <<v6, v7, v9, v12>>
      /\ v1' = IF Tree!Answered(r) /\ r.latest THEN [v1 EXCEPT ![r.node] = r.read] ELSE v1
      /\ v13 \subseteq v13' /\ (~Tree!Answered(r) /\ r.latest => r.node \in v13')
    BY DEF Tree!Answered, Tree!Fails
<1>3. v1' \in [Tree!Nodes -> Tree!Age]
    BY <1>1, <1>2
<1>4. Tree!Tended(v3', v1', Tree!Subscribed, v12, v13')
  <2>1. \A n \in Tree!Subscribed : n # r.node => v1'[n] = v1[n]
    BY <1>1, <1>2
  <2>2. (r.latest => v1'[r.node] \in {r.read, "none"} \/ r.node \in v13') /\ (~r.latest => v1' = v1)
    BY <1>1, <1>2
  <2> QED
    BY <1>2, <2>1, <2>2, AnswerTends
<1>5. Tree!Spun(v3', v4')
    BY <1>2, SettledSpin
<1>6. Tree!WalksAreOfDir(v3')
    BY <1>2 DEF Tree!WalksAreOfDir
<1> QED
    BY <1>2, <1>3, <1>4, <1>5, <1>6, SameSubscriptions

\* The walk ends, or asks for what it misses.
LEMMA WalkEnds ==
    ASSUME Tree!TreeInv, NEW rs, Tree!WalksAreOfDir(rs), Tree!Spun(rs, v4'), v1' \in
               [Tree!Nodes -> Tree!Age],
           Tree!Tended(rs, v1', Tree!Subscribed, v12, v13'), Tree!EndWalk(rs) \/ Tree!GiveUpWalk(rs)
    PROVE  Tree!TreeInv'
<1> USE DEF Tree!TreeInv
<1>1. CASE Tree!GiveUpWalk(rs)
  <2>1. v3' = rs /\ UNCHANGED <<v6, v7, v9, v12>>
    BY <1>1 DEF Tree!GiveUpWalk
  <2> QED
    BY <2>1, SameSubscriptions
<1>2. CASE Tree!EndWalk(rs)
  <2> DEFINE F == Tree!Followed(v7, v6 \/ v10 # v8, TRUE)
  <2>1. v3' = rs /\ v12' = (v12 \cap F) \cup (F \ Tree!Subscribed)
    BY <1>2 DEF Tree!EndWalk, Tree!Resubscribe
  <2>2. Tree!Subscribed' = F
    BY <1>2 DEF Tree!EndWalk, Tree!Subscribed, Tree!Followed, Tree!Branches
  <2> HIDE DEF F
  <2>3. Tree!Tended(rs, v1', F, (v12 \cap F) \cup (F \ Tree!Subscribed), v13')
    BY FollowedAfresh
  <2> QED
    BY <2>1, <2>2, <2>3
<1> QED
    BY <1>1, <1>2

\* A walk that finds its folder asks for the next one.
LEMMA WalkGoesOn ==
    ASSUME Tree!TreeInv, NEW rs, Tree!WalksAreOfDir(rs), Tree!Spun(rs, v4'),
           NEW ls \in [Tree!Nodes -> Tree!Age], v1' = ls,
           Tree!Tended(rs, ls, Tree!Subscribed, v12, v13), Tree!Ask(rs, {"dir"}, "quiet"),
           UNCHANGED <<v6, v7, v9, v12>>
    PROVE  Tree!TreeInv'
<1> USE DEF Tree!TreeInv
<1> DEFINE nodes == {"dir"}
<1>1. nodes \in SUBSET Tree!Nodes /\ nodes \subseteq {"dir"} /\ Tree!Ask(rs, nodes, "quiet")
    BY DEF Tree!Nodes
<1> HIDE DEF nodes
<1>2. Tree!WalksAreOfDir(v3')
    BY <1>1, AskingAgain
<1>3. Tree!Tended(v3', ls, Tree!Subscribed, v12 \ nodes, v13')
    BY <1>1, AskedIsTended
<1>4. Tree!Tended(v3', ls, Tree!Subscribed, v12, v13')
    BY <1>3, MoreNews
<1>5. Tree!Spun(v3', v4' \cup nodes)
    BY <1>1, AskedSpins
<1> QED
    BY <1>2, <1>4, <1>5, SameSubscriptions DEF Tree!Spun

\* An answer to a walk goes on with it, ends it or gives it up.
LEMMA WalkIsAnswered ==
    ASSUME Tree!TreeInv, NEW r \in v3, Tree!WalkAnswered(r)
    PROVE  Tree!TreeInv'
<1> USE DEF Tree!TreeInv
<1> DEFINE rs == v3 \ {r}
<1>1. r.node = "dir" /\ r.read \in Tree!Age /\ r \in Tree!Requests /\ "dir" \in Tree!Nodes
    BY DEF Tree!WalksAreOfDir, Tree!Requests, Tree!WalkAnswered, Tree!Nodes
<1>2. Tree!WalksAreOfDir(rs)
    BY DEF Tree!WalksAreOfDir
<1>3. v4' = Tree!Settled(r) /\ Tree!Spun(rs, v4')
    BY SettledSpin DEF Tree!WalkAnswered
<1>4. CASE /\ v13' = v13 /\ v1' = IF r.latest THEN [v1 EXCEPT !["dir"] = r.read] ELSE v1
           /\ Tree!EndWalk(rs) \/ Tree!GiveUpWalk(rs)
  <2>1. v1' \in [Tree!Nodes -> Tree!Age]
    BY <1>1, <1>4
  <2>3. /\ \A n \in Tree!Subscribed : n # r.node => v1'[n] = v1[n]
        /\ r.latest => v1'[r.node] = r.read
        /\ ~r.latest => v1' = v1
        /\ v13 \subseteq v13'
    BY <1>1, <1>4
  <2>2. Tree!Tended(rs, v1', Tree!Subscribed, v12, v13')
    BY <2>3, AnswerTends
  <2> HIDE DEF rs
  <2> QED
    BY <1>2, <1>3, <1>4, <2>1, <2>2, WalkEnds
<1>5. CASE Tree!FetchAgain(rs)
  <2> DEFINE ls == [v1 EXCEPT !["dir"] = "none"]
  <2>1. ls \in [Tree!Nodes -> Tree!Age] /\ ls["dir"] = "none"
    BY <1>1 DEF Tree!Age
  <2>2. \A n \in Tree!Subscribed : n # "dir" => ls[n] = v1[n]
    OBVIOUS
  <2>3. v1' = ls /\ Tree!Ask(rs, {"dir"}, "quiet") /\ UNCHANGED <<v6, v7, v9, v12>>
    BY <1>5 DEF Tree!FetchAgain
  <2> HIDE DEF ls
  <2>4. Tree!Tended(rs, ls, Tree!Subscribed, v12, v13)
    BY <1>1, <2>1, <2>2, AnswerTends
  <2> HIDE DEF rs
  <2> QED
    BY <1>2, <1>3, <2>1, <2>3, <2>4, WalkGoesOn
<1>6. CASE /\ v13' = IF r.latest THEN v13 \cup {"dir"} ELSE v13
           /\ v1' = v1
           /\ Tree!EndWalk(rs) \/ Tree!GiveUpWalk(rs)
  <2>2. v13 \subseteq v13' /\ (r.latest => r.node \in v13')
    BY <1>1, <1>6
  <2>1. Tree!Tended(rs, v1', Tree!Subscribed, v12, v13')
    BY <1>6, <2>2, AnswerTends
  <2> HIDE DEF rs
  <2> QED
    BY <1>2, <1>3, <1>6, <2>1, WalkEnds
<1> QED
    BY <1>4, <1>5, <1>6 DEF Tree!WalkAnswered

\* A listing that is asked for, and what the sidebar then follows.
LEMMA AskedAndFollowed ==
    ASSUME Tree!TreeInv, NEW nodes \in SUBSET Tree!Nodes, NEW kind \in {"loud", "silent"},
           Tree!Ask(v3, nodes, kind), v1' = v1, v4' \in {v4, v4 \cup nodes},
           \/ v12 \ nodes \subseteq v12' /\ UNCHANGED <<v6, v7, v9>>
           \/ v12' = (v12 \cap Tree!Subscribed') \cup (Tree!Subscribed' \ Tree!Subscribed)
    PROVE  Tree!TreeInv'
<1> USE DEF Tree!TreeInv
<1>1. Tree!WalksAreOfDir(v3')
    BY AskingAgain
<1>2. Tree!Tended(v3', v1, Tree!Subscribed, v12 \ nodes, v13')
    BY AskedIsTended
<1>3. Tree!Spun(v3', v4')
    BY AskedSpins DEF Tree!Spun
<1>4. CASE v12 \ nodes \subseteq v12' /\ UNCHANGED <<v6, v7, v9>>
    BY <1>1, <1>2, <1>3, <1>4, MoreNews, SameSubscriptions
<1>5. CASE v12' = (v12 \cap Tree!Subscribed') \cup (Tree!Subscribed' \ Tree!Subscribed)
  <2>1. Tree!Tended(v3', v1, Tree!Subscribed, v12, v13')
    BY <1>2, MoreNews
  <2>2. Tree!Tended(v3', v1, Tree!Subscribed', v12', v13')
    BY <1>5, <2>1, FollowedAfresh
  <2> QED
    BY <1>1, <1>3, <2>2
<1> QED
    BY <1>4, <1>5

\* The user opens and closes, asks again, and hears of changes.
LEMMA UserInTree ==
    ASSUME Tree!TreeInv,
           \/ Tree!RetryRoots \/ Tree!Collapse \/ Tree!Expand \/ Tree!CloseSidebar \/ Tree!OpenSidebar
           \/ Tree!Refresh \/ \E n \in Tree!Nodes : Tree!Hear(n)
    PROVE  Tree!TreeInv'
<1>1. {"root"} \in SUBSET Tree!Nodes /\ {"dir"} \in SUBSET Tree!Nodes
    BY DEF Tree!Nodes
<1>2. \A e, a : {"root"} \cup Tree!Branches(e, a) \in SUBSET Tree!Nodes
    BY DEF Tree!Nodes, Tree!Branches
<1>3. CASE Tree!RetryRoots
    BY <1>1, <1>3, AskedAndFollowed DEF Tree!RetryRoots
<1>4. CASE Tree!Collapse \/ Tree!CloseSidebar
  <2>1. UNCHANGED <<v1, v3, v4, v13>>
    BY <1>4 DEF Tree!Collapse, Tree!CloseSidebar
  <2>2. v12' = (v12 \cap Tree!Subscribed') \cup (Tree!Subscribed' \ Tree!Subscribed)
    BY <1>4 DEF Tree!Collapse, Tree!CloseSidebar, Tree!Resubscribe, Tree!Subscribed
  <2>3. Tree!Tended(v3, v1, Tree!Subscribed', v12', v13)
    BY <2>2, FollowedAfresh DEF Tree!TreeInv
  <2> QED
    BY <2>1, <2>3 DEF Tree!TreeInv
<1>5. CASE Tree!Expand
  <2>1. v12' = (v12 \cap Tree!Subscribed') \cup (Tree!Subscribed' \ Tree!Subscribed)
    BY <1>5 DEF Tree!Expand, Tree!Resubscribe, Tree!Subscribed
  <2>2. \E kind \in {"loud", "silent"} : Tree!Ask(v3, {"dir"}, kind) /\ v4' \in {v4, v4 \cup {"dir"}}
    BY <1>5 DEF Tree!Expand
  <2>3. v1' = v1
    BY <1>5 DEF Tree!Expand
  <2> QED
    BY <1>1, <2>1, <2>2, <2>3, AskedAndFollowed
<1>6. CASE Tree!OpenSidebar
  <2>1. v12' = (v12 \cap Tree!Subscribed') \cup (Tree!Subscribed' \ Tree!Subscribed)
    BY <1>6 DEF Tree!OpenSidebar, Tree!Resubscribe, Tree!Subscribed
  <2> QED
    BY <1>2, <1>6, <2>1, AskedAndFollowed DEF Tree!OpenSidebar
<1>7. CASE Tree!Refresh
  <2>1. v12 \ ({"root"} \cup Tree!Branches(v6, v9)) \subseteq v12'
    BY <1>7 DEF Tree!Refresh
  <2> QED
    BY <1>2, <1>7, <2>1, AskedAndFollowed DEF Tree!Refresh
<1>8. ASSUME NEW n \in Tree!Nodes, Tree!Hear(n)
      PROVE  Tree!TreeInv'
  <2>1. {n} \in SUBSET Tree!Nodes /\ v12 \ {n} \subseteq v12'
    BY <1>8 DEF Tree!Hear
  <2> QED
    BY <1>8, <2>1, AskedAndFollowed DEF Tree!Hear
<1> QED
    BY <1>3, <1>4, <1>5, <1>6, <1>7, <1>8

\* Another page, and the walk to it.
LEMMA WalkStarts ==
    ASSUME Tree!TreeInv, (\E page \in Tree!Pages : Tree!Navigate(page)) \/ Tree!StartWalk
    PROVE  Tree!TreeInv'
<1> USE DEF Tree!TreeInv
<1> DEFINE rs == Tree!Abandoned(v3)
<1>1. Tree!WalksAreOfDir(rs) /\ Tree!Spun(rs, v4) /\ Tree!Tended(rs, v1, Tree!Subscribed, v12, v13)
    BY AbandonedStay, AbandonedSpin, AbandonedTend
<1>2. v4' = v4
    BY DEF Tree!Navigate, Tree!StartWalk
<1>3. CASE \E page \in Tree!Pages : Tree!Navigate(page)
  <2>1. v3' = rs /\ UNCHANGED <<v1, v6, v7, v9, v12, v13>>
    BY <1>3 DEF Tree!Navigate
  <2> HIDE DEF rs
  <2> QED
    BY <1>1, <1>2, <2>1, SameSubscriptions
<1>4. CASE Tree!StartWalk
  <2>1. CASE /\ v3' = rs /\ v9' = (v2["root"] # "none") /\ UNCHANGED <<v1, v6, v7, v13>>
             /\ Tree!Resubscribe(v7, v6, v2["root"] # "none")
    <3>1. v12' = (v12 \cap Tree!Subscribed') \cup (Tree!Subscribed' \ Tree!Subscribed)
        BY <2>1 DEF Tree!Resubscribe, Tree!Subscribed, Tree!Followed, Tree!Branches
    <3> HIDE DEF rs
    <3>2. Tree!Tended(rs, v1, Tree!Subscribed', v12', v13)
        BY <1>1, <3>1, FollowedAfresh
    <3> QED
        BY <1>1, <1>2, <2>1, <3>2
  <2>2. CASE UNCHANGED <<v1, v13>> /\ Tree!EndWalk(rs)
    <3> HIDE DEF rs
    <3> QED
        BY <1>1, <1>2, <2>2, WalkEnds
  <2>3. CASE Tree!FetchAgain(rs)
    <3> DEFINE ls == [v1 EXCEPT !["dir"] = "none"]
    <3> HIDE DEF rs
    <3>1. ls \in [Tree!Nodes -> Tree!Age] /\ \A n \in Tree!Subscribed : ls[n] \in {v1[n], "none"}
        BY DEF Tree!Age, Tree!Nodes, Tree!Subscribed, Tree!Followed, Tree!Branches
    <3>2. v1' = ls /\ Tree!Ask(rs, {"dir"}, "quiet") /\ UNCHANGED <<v6, v7, v9, v12>>
        BY <2>3 DEF Tree!FetchAgain
    <3> HIDE DEF ls
    <3>3. Tree!Tended(rs, ls, Tree!Subscribed, v12, v13)
        BY <1>1, <3>1, MoreNews
    <3> QED
        BY <1>1, <1>2, <3>1, <3>2, <3>3, WalkGoesOn
  <2>4. CASE Tree!Ask(rs, {"dir"}, "quiet") /\ UNCHANGED <<v1, v6, v7, v9, v12>>
    <3> HIDE DEF rs
    <3> QED
        BY <1>1, <1>2, <2>4, WalkGoesOn
  <2> QED
    BY <1>4, <2>1, <2>2, <2>3, <2>4 DEF Tree!StartWalk
<1> QED
    BY <1>3, <1>4

\* The component comes back and resynchronises all it follows.
LEMMA TreeRemounted ==
    ASSUME Tree!TreeInv, Tree!Remount
    PROVE  Tree!TreeInv'
<1> USE DEF Tree!TreeInv
<1> DEFINE rs == {[r EXCEPT !.mine = FALSE] : r \in Tree!Abandoned(v3)}
           nodes == {"root"}
<1>1. Tree!WalksAreOfDir(rs)
  <2>1. Tree!WalksAreOfDir(Tree!Abandoned(v3))
    BY AbandonedStay
  <2>2. ASSUME NEW r \in Tree!Abandoned(v3)
        PROVE  LET s == [r EXCEPT !.mine = FALSE]
               IN  s \in Tree!Requests /\ (s.walked => s.node = "dir")
    BY <2>1 DEF Tree!WalksAreOfDir, Tree!Requests
  <2> QED
    BY <2>2 DEF Tree!WalksAreOfDir
<1>2. Tree!Spun(rs, {})
    BY DEF Tree!Spun
<1>3. \/ Tree!Ask(rs, nodes, "loud") /\ v4' = nodes
      \/ v3' = rs /\ v4' = {}
    BY DEF Tree!Remount
<1>4. nodes \in SUBSET Tree!Nodes
    BY DEF Tree!Nodes
<1>5. v1' = v1 /\ Tree!Subscribed' = v12'
    BY DEF Tree!Remount, Tree!Subscribed, Tree!Followed, Tree!Branches
<1> HIDE DEF rs, nodes
<1>6. Tree!WalksAreOfDir(v3') /\ Tree!Spun(v3', v4')
  <2>1. CASE v3' = rs /\ v4' = {}
    BY <1>1, <1>2, <2>1
  <2>2. CASE Tree!Ask(rs, nodes, "loud") /\ v4' = nodes
    BY <1>1, <1>4, <2>2, AskingAgain DEF Tree!Spun
  <2> QED
    BY <1>3, <2>1, <2>2
<1>7. Tree!Tended(v3', v1', v12', v12', v13')
    BY DEF Tree!Tended
<1> QED
    BY <1>5, <1>6, <1>7

\* What changes on the server is told of.
LEMMA ListingAged ==
    ASSUME Tree!TreeInv, NEW n \in Tree!Nodes, Tree!ServerChanges(n)
    PROVE  Tree!TreeInv'
<1> USE DEF Tree!TreeInv
<1> DEFINE older(r) == [r EXCEPT !.read = IF r.node = n THEN Tree!Aged(r.read) ELSE r.read]
<1>1. v3' = {older(r) : r \in v3}
    BY DEF Tree!ServerChanges
<1>2. \A age \in Tree!Age : Tree!Aged(age) \in Tree!Age
    BY DEF Tree!Age, Tree!Aged
<1>3. ASSUME NEW r \in v3
      PROVE  /\ older(r) \in Tree!Requests /\ older(r).node = r.node /\ older(r).latest = r.latest
             /\ older(r).mine = r.mine /\ older(r).walked = r.walked
             /\ (r.node # n => older(r).read = r.read)
    BY <1>2 DEF Tree!WalksAreOfDir, Tree!Requests
<1> HIDE DEF older
<1>4. Tree!WalksAreOfDir(v3')
    BY <1>1, <1>3 DEF Tree!WalksAreOfDir
<1>5. UNCHANGED <<v4, v6, v7, v9, v13>> /\ v12' = v12 \cup ({n} \cap Tree!Subscribed)
    BY DEF Tree!ServerChanges
<1>6. v1' \in [Tree!Nodes -> Tree!Age] /\ \A m \in Tree!Nodes : m # n => v1'[m] = v1[m]
    BY <1>2 DEF Tree!ServerChanges
<1>7. Tree!Subscribed \in SUBSET Tree!Nodes
    BY DEF Tree!Nodes, Tree!Subscribed, Tree!Followed, Tree!Branches
<1>8. Tree!Tended(v3', v1', Tree!Subscribed, v12', v13)
  <2>1. ASSUME NEW m \in Tree!Subscribed, m = n
        PROVE  m \in v12'
    BY <1>5, <2>1
  <2>2. ASSUME NEW m \in Tree!Subscribed, m # n
        PROVE  \A r \in v3' : r.node = m /\ r.latest /\ r.read = "old" => m \in v12'
    BY <1>1, <1>3, <1>5, <2>2 DEF Tree!Tended
  <2>3. ASSUME NEW m \in Tree!Subscribed, m # n, v1'[m] = "old"
        PROVE  \/ m \in v12' \/ m \in v13
               \/ \E r \in v3' : r.node = m /\ r.latest /\ r.read # "old"
    BY <1>1, <1>3, <1>5, <1>6, <1>7, <2>3 DEF Tree!Tended
  <2> QED
    BY <2>1, <2>2, <2>3 DEF Tree!Tended
<1>9. Tree!Spun(v3', v4)
    BY <1>1, <1>3 DEF Tree!Spun
<1> QED
    BY <1>4, <1>5, <1>6, <1>8, <1>9, SameSubscriptions

\* Every step of the tree keeps its invariant.
LEMMA TreeKept ==
    ASSUME Tree!TreeInv, [Tree!Next]_(Tree!treeVars)
    PROVE  Tree!TreeInv'
BY TreeUntouched, ListingRead, ListingAnswered, WalkIsAnswered, UserInTree, WalkStarts,
   TreeRemounted, ListingAged DEF Tree!Next, Tree!treeVars

\* The tree starts with its invariant.
LEMMA TreeStarts ==
    ASSUME Tree!Init
    PROVE  Tree!TreeInv
<1> DEFINE r == Tree!Request("root", "loud")
           walked == "loud" = "quiet"
<1>1. walked = FALSE
    OBVIOUS
<1>2. r = [node |-> "root", kind |-> "loud", latest |-> TRUE, mine |-> TRUE, walked |-> walked, read |-> "none"]
    BY DEF Tree!Request
<1> HIDE DEF walked, r
<1>7. r.node = "root" /\ r.latest /\ r.mine /\ ~r.walked
    BY <1>1, <1>2
<1>3. r \in Tree!Requests
    BY <1>1, <1>2 DEF Tree!Requests, Tree!Nodes, Tree!Age
<1>4. v3 = {r} /\ v4 = {"root"} /\ v1 = [n \in Tree!Nodes |-> "none"] /\ v12 = Tree!Subscribed
    BY DEF Tree!Init, Tree!Subscribed, Tree!Followed, Tree!Branches, r
<1>5. v1 \in [Tree!Nodes -> Tree!Age] /\ Tree!WalksAreOfDir(v3) /\ Tree!Spun(v3, v4)
    BY <1>3, <1>4, <1>7 DEF Tree!WalksAreOfDir, Tree!Spun, Tree!Age
<1>6. Tree!Tended(v3, v1, Tree!Subscribed, v12, v13)
    BY <1>4 DEF Tree!Tended
<1> QED
    BY <1>5, <1>6 DEF Tree!TreeInv

-----------------------------------------------------------------------------
(* DirectoryListing: v14 submittingBatch, v15 sends.                       *)

\* Going to a folder leaves the batches alone, or mounts a listing that
\* submits none.
LEMMA FollowedBatches ==
    ASSUME NEW f, NEW cached, Listing!Follow(f, cached)
    PROVE  v14' = FALSE \/ UNCHANGED <<v14, v15>>
BY DEF Listing!Follow, Listing!Arrive, Listing!Away, Listing!Remounted, Listing!Batch

\* Whatever is done in a listing, a batch it submits is under way.
LEMMA ListingKept ==
    ASSUME Listing!BatchesEnd, [Listing!Next]_(Listing!listingVars)
    PROVE  Listing!BatchesEnd'
<1> USE DEF Listing!Batch
<1>1. CASE v14' = FALSE \/ UNCHANGED <<v14, v15>>
    BY <1>1 DEF Listing!BatchesEnd
<1>2. ASSUME NEW s \in v15, Listing!Settles(s)
      PROVE  Listing!BatchesEnd'
    BY <1>2 DEF Listing!BatchesEnd, Listing!Settles
<1>3. CASE Listing!SubmitBatch
  <2> DEFINE s == <<v13.what, "here">>
  <2>1. s[2] = "here"
    OBVIOUS
  <2>2. s \in v15'
    BY <1>3 DEF Listing!SubmitBatch
  <2> QED
    BY <2>1, <2>2 DEF Listing!BatchesEnd
<1>4. ASSUME NEW f, NEW cached, Listing!GoTo(f, cached)
      PROVE  Listing!BatchesEnd'
    BY <1>1, <1>4, FollowedBatches DEF Listing!GoTo
<1>5. CASE Listing!Leave \/ Listing!refresh
    BY <1>1, <1>5 DEF Listing!Leave, Listing!refresh, Listing!Away, Listing!Remounted
<1>6. CASE \/ \E i \in Listing!TreeItems :
                 \E to \in Listing!Folders \cup {"gone"} : Listing!OthersChange(i, to)
           \/ \E mode \in {"list", "grid"} : Listing!setViewMode(mode)
    BY <1>1, <1>6 DEF Listing!OthersChange, Listing!setViewMode
<1>7. ASSUME NEW n, NEW cached, Listing!PressFolder(n, cached)
      PROVE  Listing!BatchesEnd'
    BY <1>1, <1>7, FollowedBatches DEF Listing!PressFolder, Listing!enterGhostDir
<1>8. ASSUME NEW n, Listing!PressLeaf(n)
      PROVE  Listing!BatchesEnd'
    BY <1>5, <1>8 DEF Listing!PressLeaf
<1>9. ASSUME NEW n,
             \/ Listing!PressLeafRow(n) \/ Listing!PressLeafCard(n) \/ Listing!DeleteFromMenu(n)
             \/ \E cached \in BOOLEAN : Listing!PressRow(n, cached) \/ Listing!PressCard(n, cached)
             \/ \E shift \in BOOLEAN : Listing!handleToggleItem(n, shift)
      PROVE  Listing!BatchesEnd'
    BY <1>1, <1>7, <1>8, <1>9 DEF Listing!PressLeafRow, Listing!PressLeafCard,
       Listing!DeleteFromMenu, Listing!OnDraft, Listing!PressRow, Listing!PressCard,
       Listing!handleToggleItem
<1>10. CASE \/ \E depth \in 0..MaxDepth : Listing!goBack(depth)
            \/ \E key \in {"down", "up"} : Listing!Arrow(key)
    BY <1>1, <1>10 DEF Listing!goBack, Listing!Arrow
<1>11. CASE Listing!Enter
    BY <1>7, <1>8, <1>11 DEF Listing!Enter
<1>12. CASE \/ \E on \in BOOLEAN : Listing!setSelectMode(on)
            \/ Listing!toggleAll \/ Listing!handleCut \/ Listing!clearClipboard
    BY <1>1, <1>12 DEF Listing!setSelectMode, Listing!toggleAll, Listing!handleCut,
       Listing!clearClipboard
<1>13. CASE Listing!handleBatchDelete \/ Listing!handlePaste \/ Listing!CloseBatch \/ Listing!StageBatch
    BY <1>1, <1>13 DEF Listing!handleBatchDelete, Listing!handlePaste, Listing!CloseBatch,
       Listing!StageBatch
<1>14. ASSUME NEW s \in v15, Listing!Failed(s) \/ Listing!Submitted(s)
       PROVE  Listing!BatchesEnd'
    BY <1>2, <1>14 DEF Listing!Failed, Listing!Submitted
<1>15. CASE (\E g \in Drafted : Listing!NewFolder(g)) \/ Listing!DraftGoes
    BY <1>1, <1>15 DEF Listing!NewFolder, Listing!DraftGoes, Listing!OnDraft
<1>16. CASE \/ Listing!handleDownloadZip \/ Listing!PartStarts \/ Listing!ButtonReturns
            \/ \E n \in 0..MaxArchives : Listing!ChunksArrive(n)
    BY <1>1, <1>16 DEF Listing!handleDownloadZip, Listing!PartStarts, Listing!ButtonReturns,
       Listing!ChunksArrive, Listing!OnZip
<1>17. CASE UNCHANGED Listing!listingVars
    BY <1>1, <1>17 DEF Listing!listingVars
<1> HIDE DEF Listing!Batch
<1> QED
    BY <1>3, <1>4, <1>5, <1>6, <1>9, <1>10, <1>11, <1>12, <1>13, <1>14, <1>15, <1>16, <1>17
       DEF Listing!Next, Listing!Steps

-----------------------------------------------------------------------------
(* ItemReactions: v1 onPage, v2 target, v3 likes, v4 overrides, v5 bar,    *)
(* v6 inSheet, v7 inBar, v9 orderly, v10 overridden, v11 data, v12 strayed. *)

\* A press is about an item, and what settles one leaves none.
LEMMA PressesAreOfItems ==
    ASSUME "none" \notin Items
    PROVE  /\ Reactions!Idle \notin Reactions!Press /\ Reactions!Idle.of \notin Items
           /\ \A p \in Reactions!Press : p.of \in Items /\ p.next \in BOOLEAN /\ p.done \in
                  BOOLEAN /\ p.alone \in BOOLEAN
    BY DEF Reactions!Idle, Reactions!Press

\* The bar shows of its target what the target is shown to be; so it goes on
\* if it showed that before, or is told of it.
LEMMA BarShows ==
    ASSUME "none" \notin Items, Reactions!LikesFit, NEW was \in BOOLEAN, Reactions!Synced(was),
           v2' \in Items \cup {"none"}, v4' \in [Items -> BOOLEAN], v10' \subseteq Items, v11' \in BOOLEAN
    PROVE  /\ v5' \in BOOLEAN
           /\ /\ v2' \in Items => v2' \in v10' \/ v11' = v4'[v2']
              /\ \/ was = v5 /\ Reactions!BarIsTargets
                 \/ v2' \in Items => was = v4'[v2']
              => Reactions!BarIsTargets'
<1> USE DEF Reactions!LikesFit
<1> DEFINE now == IF v2 \in v10 THEN v4[v2] ELSE v11
           next == IF v2' \in v10' THEN v4'[v2'] ELSE v11'
<1>1. v5' = IF v2' = v2 /\ next = now THEN was ELSE next
    BY DEF Reactions!Synced, Reactions!EffectiveIsLiked
<1>2. next \in BOOLEAN
    OBVIOUS
<1>3. ASSUME v2' \in Items, v2' \in v10' \/ v11' = v4'[v2'],
             (was = v5 /\ Reactions!BarIsTargets) \/ was = v4'[v2']
      PROVE  v5' = v4'[v2']
  <2>1. next = v4'[v2']
    BY <1>3
  <2>2. v2' = v2 /\ was = v5 /\ Reactions!BarIsTargets => was = now
    BY <1>3 DEF Reactions!BarIsTargets
  <2> HIDE DEF now, next
  <2> QED
    BY <1>1, <1>3, <2>1, <2>2
<1>4. v5' \in BOOLEAN
    BY <1>1, <1>2
<1> QED
    BY <1>3, <1>4 DEF Reactions!BarIsTargets

\* Moving about leaves the presses alone; the data are loaded with the target.
LEMMA MovedAbout ==
    ASSUME "none" \notin Items, Reactions!LikesInv, NEW i \in Items,
           Reactions!Navigate(i) \/ Reactions!OpenSidebar(i)
    PROVE  Reactions!LikesInv'
<1> USE DEF Reactions!LikesInv, Reactions!LikesFit
<1>1. /\ v2' = i /\ v11' = v4[i] /\ Reactions!Synced(v5) /\ v1' \in {i, "none"}
      /\ UNCHANGED <<v3, v4, v6, v7, v9, v10, v12>>
    BY DEF Reactions!Navigate, Reactions!OpenSidebar, Reactions!SetTarget
<1>2. v5' \in BOOLEAN /\ (v9 /\ ~v12 => Reactions!BarIsTargets')
    BY <1>1, BarShows
<1>3. /\ Reactions!LikesFit' /\ Reactions!AloneHasNoOther' /\ Reactions!PressedIsOverridden'
      /\ Reactions!PageIsTarget'
    BY <1>1, <1>2 DEF Reactions!AloneHasNoOther, Reactions!PressedIsOverridden, Reactions!PageIsTarget
<1>4. ASSUME v9, ~v12 PROVE Reactions!PressesAreCounted' /\ Reactions!AloneIsShown'
    BY <1>1, <1>4 DEF Reactions!PressesAreCounted, Reactions!AloneIsShown, Reactions!Owes
<1> QED
    BY <1>1, <1>2, <1>3, <1>4

\* A press of a heart joins the other's, if that is of the same item.
LEMMA JoinedFits ==
    ASSUME "none" \notin Items, NEW p \in Reactions!Press \cup {Reactions!Idle}, NEW i \in Items
    PROVE  LET q == Reactions!Joined(p, i)
           IN  /\ q \in Reactions!Press \cup {Reactions!Idle}
               /\ q.of = p.of /\ q.next = p.next /\ q.done = p.done
               /\ p.of = i => ~q.alone
               /\ p.of # i => q = p
<1>1. CASE p.of = i
  <2>1. Reactions!Joined(p, i) = [p EXCEPT !.alone = FALSE]
    BY <1>1 DEF Reactions!Joined
  <2>2. p \in Reactions!Press
    BY <1>1 DEF Reactions!Idle
  <2> QED
    BY <1>1, <2>1, <2>2 DEF Reactions!Press
<1>2. CASE p.of # i
    BY <1>2 DEF Reactions!Joined
<1> QED
    BY <1>1, <1>2

\* A press is made with the other at hand.
LEMMA PressIsMade ==
    ASSUME NEW i \in Items, NEW next \in BOOLEAN, NEW q
    PROVE  LET p == Reactions!Pressed(i, next, q)
           IN  p \in Reactions!Press /\ p.of = i /\ p.next = next /\ ~p.done /\ (p.alone <=> q.of # i)
<1> DEFINE alone == q.of # i
           p == [of |-> i, next |-> next, done |-> FALSE, alone |-> alone]
<1>1. alone \in BOOLEAN /\ Reactions!Pressed(i, next, q) = p
    BY DEF Reactions!Pressed
<1>2. alone <=> q.of # i
    OBVIOUS
<1> HIDE DEF alone
<1>3. p \in Reactions!Press /\ p.of = i /\ p.next = next /\ p.done = FALSE /\ p.alone = alone
    BY <1>1 DEF Reactions!Press
<1> HIDE DEF p
<1> QED
    BY <1>1, <1>2, <1>3

\* What a press brings: the one that is new is owed, the other as before.
LEMMA PressCounts ==
    ASSUME "none" \notin Items, Reactions!LikesFit,
           NEW i \in Items, NEW q \in {v6, v7}, {Reactions!Idle, q} = {v6, v7}
    PROVE  LET pp == Reactions!Pressed(i, ~v4[i], q)
               qq == Reactions!Joined(q, i)
               over == [v4 EXCEPT ![i] = ~v4[i]]
           IN  /\ over \in [Items -> BOOLEAN]
               /\ pp \in Reactions!Press /\ qq \in Reactions!Press \cup {Reactions!Idle}
               /\ pp.of = qq.of => ~pp.alone /\ ~qq.alone
               /\ \A r \in {pp, qq} : Reactions!AloneIsShown /\ r.of \in Items /\ r.alone =>
                      over[r.of] = r.next
               /\ Reactions!PressesAreCounted =>
                     \A j \in Items : (over[j] = v3[j]) <=>
                         (Reactions!Owes(pp, j) <=> Reactions!Owes(qq, j))
<1> USE DEF Reactions!LikesFit
<1> DEFINE next == ~v4[i]
           pp == Reactions!Pressed(i, next, q)
           qq == Reactions!Joined(q, i)
           over == [v4 EXCEPT ![i] = next]
<1>1. next \in BOOLEAN
    OBVIOUS
<1> HIDE DEF next
<1>2. pp \in Reactions!Press /\ pp.of = i /\ pp.next = next /\ ~pp.done /\ (pp.alone <=> q.of # i)
    BY <1>1, PressIsMade
<1>3. /\ qq \in Reactions!Press \cup {Reactions!Idle} /\ qq.of = q.of /\ qq.next = q.next /\
             qq.done = q.done
      /\ (q.of = i => ~qq.alone) /\ (q.of # i => qq = q)
    BY JoinedFits
<1>4. over \in [Items -> BOOLEAN] /\ over[i] = next /\ \A j \in Items \ {i} : over[j] = v4[j]
    BY <1>1
<1> HIDE DEF pp, qq, over
<1>5. ASSUME Reactions!AloneIsShown
      PROVE  \A r \in {pp, qq} : r.of \in Items /\ r.alone => over[r.of] = r.next
    BY <1>2, <1>3, <1>4, <1>5 DEF Reactions!AloneIsShown
<1>6. ASSUME Reactions!PressesAreCounted, NEW j \in Items
      PROVE  (over[j] = v3[j]) <=> (Reactions!Owes(pp, j) <=> Reactions!Owes(qq, j))
  <2>1. (v4[j] = v3[j]) <=> ~Reactions!Owes(q, j)
    BY <1>6, PressesAreOfItems DEF Reactions!PressesAreCounted, Reactions!Owes
  <2>2. Reactions!Owes(qq, j) <=> Reactions!Owes(q, j)
    BY <1>3 DEF Reactions!Owes
  <2>3. Reactions!Owes(pp, j) <=> i = j
    BY <1>2 DEF Reactions!Owes
  <2>4. v3[j] \in BOOLEAN /\ v4[j] \in BOOLEAN
    OBVIOUS
  <2>5. i = j => over[j] = ~v4[j]
    BY <1>4 DEF next
  <2>6. i # j => over[j] = v4[j]
    BY <1>4
  <2>7. CASE i = j
    BY <2>1, <2>2, <2>3, <2>4, <2>5, <2>7
  <2>8. CASE i # j
    BY <2>1, <2>2, <2>3, <2>6, <2>8
  <2> QED
    BY <2>7, <2>8
<1>7. /\ over \in [Items -> BOOLEAN]
      /\ pp \in Reactions!Press /\ qq \in Reactions!Press \cup {Reactions!Idle}
      /\ pp.of = qq.of => ~pp.alone /\ ~qq.alone
    BY <1>2, <1>3, <1>4
<1> QED
    BY <1>5, <1>6, <1>7 DEF next, pp, qq, over

\* What a press of either heart keeps, whatever the heart showed.
LEMMA PressFits ==
    ASSUME "none" \notin Items, Reactions!LikesInv, NEW i \in Items, NEW next \in BOOLEAN,
           NEW q \in {v6, v7}, {Reactions!Idle, q} = {v6, v7}
    PROVE  LET pp == Reactions!Pressed(i, next, q)
               qq == Reactions!Joined(q, i)
           IN  /\ [v4 EXCEPT ![i] = next] \in [Items -> BOOLEAN]
               /\ pp \in Reactions!Press /\ pp.of = i
               /\ qq \in Reactions!Press \cup {Reactions!Idle} /\ qq.of = q.of
               /\ pp.of = qq.of => ~pp.alone /\ ~qq.alone
               /\ qq.of \in Items => qq.of \in v10
<1> USE DEF Reactions!LikesInv, Reactions!LikesFit
<1> DEFINE pp == Reactions!Pressed(i, next, q)
           qq == Reactions!Joined(q, i)
<1>1. pp \in Reactions!Press /\ pp.of = i /\ (pp.alone <=> q.of # i)
    BY PressIsMade
<1>2. /\ qq \in Reactions!Press \cup {Reactions!Idle} /\ qq.of = q.of
      /\ q.of = i => ~qq.alone
    BY JoinedFits
<1> HIDE DEF pp, qq
<1>3. q.of \in Items => q.of \in v10
    BY DEF Reactions!PressedIsOverridden
<1>4. /\ [v4 EXCEPT ![i] = next] \in [Items -> BOOLEAN]
      /\ pp.of = qq.of => ~pp.alone /\ ~qq.alone
    BY <1>1, <1>2
<1> QED
    BY <1>1, <1>2, <1>3, <1>4 DEF pp, qq

\* The sheet shows what is shown of its item.
LEMMA SheetShows ==
    ASSUME "none" \notin Items, Reactions!LikesInv, v1 \in Items
    PROVE  /\ Reactions!SheetIsLiked \in BOOLEAN /\ v2 = v1
           /\ v9 /\ ~v12 => Reactions!SheetIsLiked = v4[v1]
BY DEF Reactions!LikesInv, Reactions!LikesFit, Reactions!PageIsTarget, Reactions!SheetIsLiked,
   Reactions!BarIsTargets

\* A press on the heart of the sheet.
LEMMA SheetPressed ==
    ASSUME "none" \notin Items, Reactions!LikesInv, Reactions!PressInSheet
    PROVE  Reactions!LikesInv'
<1> USE DEF Reactions!LikesInv, Reactions!LikesFit
<1> DEFINE next == ~Reactions!SheetIsLiked
           over == [v4 EXCEPT ![v1] = next]
<1>1. /\ v6 = Reactions!Idle /\ v6' = Reactions!Pressed(v1, next, v7) /\ v7' = Reactions!Joined(v7, v1)
      /\ v4' = over /\ v10' = v10 \cup {v1} /\ v11' = (IF v2 = "none" THEN v11 ELSE next)
      /\ Reactions!Synced(v5) /\ UNCHANGED <<v1, v2, v3, v9, v12>> /\ v1 \in Items
    BY DEF Reactions!PressInSheet, Reactions!Override, Reactions!UpdateSidebarData
<1>2. next \in BOOLEAN /\ v2 = v1 /\ (v9 /\ ~v12 => next = ~v4[v1])
    BY <1>1, SheetShows
<1> HIDE DEF next
<1>3. /\ over \in [Items -> BOOLEAN]
      /\ v6' \in Reactions!Press /\ v6'.of = v1 /\ v7' \in Reactions!Press \cup {Reactions!Idle}
      /\ v6'.of = v7'.of => ~v6'.alone /\ ~v7'.alone
      /\ v7'.of \in Items => v7'.of \in v10
  <2>1. {Reactions!Idle, v7} = {v6, v7} /\ v7 \in {v6, v7}
    BY <1>1
  <2> QED
    BY <1>1, <1>2, <2>1, PressFits
<1>4. ASSUME v9, ~v12
      PROVE  /\ \A r \in {v6', v7'} : r.of \in Items /\ r.alone => over[r.of] = r.next
             /\ \A j \in Items : (over[j] = v3[j]) <=> (Reactions!Owes(v6', j) <=> Reactions!Owes(v7', j))
  <2>1. {Reactions!Idle, v7} = {v6, v7} /\ v7 \in {v6, v7}
    BY <1>1
  <2>2. over = [v4 EXCEPT ![v1] = ~v4[v1]] /\ v6' = Reactions!Pressed(v1, ~v4[v1], v7)
    BY <1>1, <1>2, <1>4
  <2>3. /\ \A r \in {v6', v7'} : Reactions!AloneIsShown /\ r.of \in Items /\ r.alone =>
               over[r.of] = r.next
        /\ Reactions!PressesAreCounted =>
              \A j \in Items : (over[j] = v3[j]) <=> (Reactions!Owes(v6', j) <=> Reactions!Owes(v7', j))
    BY <1>1, <2>1, <2>2, PressCounts
  <2> QED
    BY <1>4, <2>3
<1> HIDE DEF over
<1>5. v11' \in BOOLEAN /\ v10' \subseteq Items /\ v2' \in v10'
    BY <1>1, <1>2
<1>6. v5' \in BOOLEAN /\ (v9 /\ ~v12 => Reactions!BarIsTargets')
    BY <1>1, <1>3, <1>5, BarShows
<1>7. /\ Reactions!LikesFit' /\ Reactions!AloneHasNoOther' /\ Reactions!PressedIsOverridden'
      /\ Reactions!PageIsTarget'
    BY <1>1, <1>2, <1>3, <1>5, <1>6 DEF Reactions!AloneHasNoOther, Reactions!PressedIsOverridden,
       Reactions!PageIsTarget
<1>8. ASSUME v9, ~v12 PROVE Reactions!PressesAreCounted' /\ Reactions!AloneIsShown'
    BY <1>1, <1>4, <1>8 DEF Reactions!PressesAreCounted, Reactions!AloneIsShown
<1> QED
    BY <1>1, <1>6, <1>7, <1>8

\* A press on the heart of the bar.
LEMMA BarPressed ==
    ASSUME "none" \notin Items, Reactions!LikesInv, Reactions!PressInBar
    PROVE  Reactions!LikesInv'
<1> USE DEF Reactions!LikesInv, Reactions!LikesFit
<1> DEFINE next == ~v5
           over == [v4 EXCEPT ![v2] = next]
<1>1. /\ v7 = Reactions!Idle /\ v7' = Reactions!Pressed(v2, next, v6) /\ v6' = Reactions!Joined(v6, v2)
      /\ v4' = over /\ v10' = v10 \cup {v2} /\ Reactions!Synced(next)
      /\ UNCHANGED <<v1, v2, v3, v9, v11, v12>> /\ v2 \in Items
    BY DEF Reactions!PressInBar, Reactions!Override
<1>2. next \in BOOLEAN
    OBVIOUS
<1>3. v9 /\ ~v12 => next = ~v4[v2]
    BY <1>1 DEF Reactions!BarIsTargets
<1> HIDE DEF next
<1>4. /\ over \in [Items -> BOOLEAN] /\ over[v2] = next
      /\ v6' \in Reactions!Press \cup {Reactions!Idle} /\ v7' \in Reactions!Press /\ v7'.of = v2
      /\ v6'.of = v7'.of => ~v6'.alone /\ ~v7'.alone
      /\ v6'.of \in Items => v6'.of \in v10
  <2>1. {Reactions!Idle, v6} = {v6, v7} /\ v6 \in {v6, v7}
    BY <1>1
  <2> QED
    BY <1>1, <1>2, <2>1, PressFits
<1>5. ASSUME v9, ~v12
      PROVE  /\ \A r \in {v6', v7'} : r.of \in Items /\ r.alone => over[r.of] = r.next
             /\ \A j \in Items : (over[j] = v3[j]) <=> (Reactions!Owes(v7', j) <=> Reactions!Owes(v6', j))
  <2>1. {Reactions!Idle, v6} = {v6, v7} /\ v6 \in {v6, v7}
    BY <1>1
  <2>2. over = [v4 EXCEPT ![v2] = ~v4[v2]] /\ v7' = Reactions!Pressed(v2, ~v4[v2], v6)
    BY <1>1, <1>3, <1>5
  <2>3. /\ \A r \in {v7', v6'} : Reactions!AloneIsShown /\ r.of \in Items /\ r.alone =>
               over[r.of] = r.next
        /\ Reactions!PressesAreCounted =>
              \A j \in Items : (over[j] = v3[j]) <=> (Reactions!Owes(v7', j) <=> Reactions!Owes(v6', j))
    BY <1>1, <1>2, <2>1, <2>2, PressCounts
  <2> QED
    BY <1>5, <2>3
<1> HIDE DEF over
<1>6. v10' \subseteq Items /\ v2' \in v10' /\ v4'[v2'] = next
    BY <1>1, <1>4
<1>7. v5' \in BOOLEAN /\ Reactions!BarIsTargets'
    BY <1>1, <1>2, <1>4, <1>6, BarShows
<1>8. /\ Reactions!LikesFit' /\ Reactions!AloneHasNoOther' /\ Reactions!PressedIsOverridden'
      /\ Reactions!PageIsTarget'
    BY <1>1, <1>4, <1>6, <1>7 DEF Reactions!AloneHasNoOther, Reactions!PressedIsOverridden,
       Reactions!PageIsTarget
<1>9. ASSUME v9, ~v12 PROVE Reactions!PressesAreCounted' /\ Reactions!AloneIsShown'
    BY <1>1, <1>4, <1>5, <1>9 DEF Reactions!PressesAreCounted, Reactions!AloneIsShown
<1> QED
    BY <1>1, <1>7, <1>8, <1>9

\* The server turns a like around, and the press is no longer owed.
LEMMA PressIsTaken ==
    ASSUME "none" \notin Items, Reactions!LikesFit,
           NEW p \in {v6, v7}, NEW q \in {v6, v7}, {p, q} = {v6, v7}, p # Reactions!Idle, ~p.done
    PROVE  LET pp == [p EXCEPT !.done = TRUE]
               likes == [v3 EXCEPT ![p.of] = ~@]
           IN  /\ likes \in [Items -> BOOLEAN]
               /\ pp \in Reactions!Press /\ pp.of = p.of /\ pp.next = p.next /\ pp.alone = p.alone
               /\ Reactions!PressesAreCounted =>
                     \A j \in Items : (v4[j] = likes[j]) <=>
                         (Reactions!Owes(pp, j) <=> Reactions!Owes(q, j))
<1> USE DEF Reactions!LikesFit
<1> DEFINE pp == [p EXCEPT !.done = TRUE]
           likes == [v3 EXCEPT ![p.of] = ~@]
<1>1. p \in Reactions!Press /\ p.of \in Items
    BY PressesAreOfItems
<1>2. pp \in Reactions!Press /\ pp.of = p.of /\ pp.next = p.next /\ pp.alone = p.alone /\ pp.done
    BY <1>1 DEF Reactions!Press
<1>3. likes \in [Items -> BOOLEAN] /\ (likes[p.of] <=> ~v3[p.of]) /\ \A j \in
          Items \ {p.of} : likes[j] = v3[j]
    BY <1>1
<1> HIDE DEF pp, likes
<1>4. ASSUME Reactions!PressesAreCounted, NEW j \in Items
      PROVE  (v4[j] = likes[j]) <=> (Reactions!Owes(pp, j) <=> Reactions!Owes(q, j))
  <2>1. (v4[j] = v3[j]) <=> (Reactions!Owes(p, j) <=> Reactions!Owes(q, j))
    BY <1>4 DEF Reactions!PressesAreCounted
  <2>2. ~Reactions!Owes(pp, j) /\ (Reactions!Owes(p, j) <=> j = p.of)
    BY <1>2 DEF Reactions!Owes
  <2>3. v3[j] \in BOOLEAN /\ v4[j] \in BOOLEAN /\ likes[j] \in BOOLEAN
    BY <1>3
  <2>4. CASE j = p.of
    <3>1. (v4[j] = likes[j]) <=> ~(v4[j] = v3[j])
        BY <1>3, <2>3, <2>4
    <3> QED
        BY <2>1, <2>2, <2>4, <3>1
  <2>5. CASE j # p.of
    BY <1>3, <2>1, <2>2, <2>5
  <2> QED
    BY <2>4, <2>5
<1> QED
    BY <1>2, <1>3, <1>4 DEF pp, likes

\* The server takes a press of either heart.
LEMMA ServerTakes ==
    ASSUME "none" \notin Items, Reactions!LikesInv, Reactions!ServerTakesSheet \/ Reactions!ServerTakesBar
    PROVE  Reactions!LikesInv'
<1> USE DEF Reactions!LikesInv, Reactions!LikesFit
<1>1. PICK p \in {v6, v7}, q \in {v6, v7} :
         /\ {p, q} = {v6, v7} /\ p # Reactions!Idle /\ ~p.done /\ v3' = [v3 EXCEPT ![p.of] = ~@]
         /\ \/ p = v6 /\ q = v7 /\ v6' = [p EXCEPT !.done = TRUE] /\ v7' = q
            \/ p = v7 /\ q = v6 /\ v7' = [p EXCEPT !.done = TRUE] /\ v6' = q
         /\ UNCHANGED <<v1, v2, v4, v5, v9, v10, v11, v12>>
  <2>1. CASE Reactions!ServerTakesSheet
    BY <2>1 DEF Reactions!ServerTakesSheet, Reactions!ServerTurns, Reactions!Written
  <2>2. CASE Reactions!ServerTakesBar
    <3>1. {v7, v6} = {v6, v7}
        OBVIOUS
    <3> QED
        BY <2>2, <3>1 DEF Reactions!ServerTakesBar, Reactions!ServerTurns, Reactions!Written
  <2> QED
    BY <2>1, <2>2
<1>2. PICK pp \in Reactions!Press :
         /\ v3' \in [Items -> BOOLEAN]
         /\ pp.of = p.of /\ pp.next = p.next /\ pp.alone = p.alone
         /\ Reactions!PressesAreCounted =>
               \A j \in Items : (v4[j] = v3'[j]) <=> (Reactions!Owes(pp, j) <=> Reactions!Owes(q, j))
         /\ \/ v6' = pp /\ v7' = q /\ p = v6 /\ q = v7
            \/ v7' = pp /\ v6' = q /\ p = v7 /\ q = v6
  <2>1. CASE p = v6 /\ q = v7 /\ v6' = [p EXCEPT !.done = TRUE] /\ v7' = q
    <3>1. v6 # Reactions!Idle /\ ~v6.done /\ v6' = [v6 EXCEPT !.done = TRUE] /\ v3' = [v3 EXCEPT ![v6.of] = ~@]
        BY <1>1, <2>1
    <3>2. /\ v3' \in [Items -> BOOLEAN]
          /\ v6' \in Reactions!Press /\ v6'.of = v6.of /\ v6'.next = v6.next /\ v6'.alone = v6.alone
          /\ Reactions!PressesAreCounted =>
                \A j \in Items : (v4[j] = v3'[j]) <=> (Reactions!Owes(v6', j) <=> Reactions!Owes(v7, j))
        BY <3>1, PressIsTaken
    <3> QED
        BY <2>1, <3>2
  <2>2. CASE p = v7 /\ q = v6 /\ v7' = [p EXCEPT !.done = TRUE] /\ v6' = q
    <3>1. /\ {v7, v6} = {v6, v7} /\ v7 # Reactions!Idle /\ ~v7.done
          /\ v7' = [v7 EXCEPT !.done = TRUE] /\ v3' = [v3 EXCEPT ![v7.of] = ~@]
        BY <1>1, <2>2
    <3>2. /\ v3' \in [Items -> BOOLEAN]
          /\ v7' \in Reactions!Press /\ v7'.of = v7.of /\ v7'.next = v7.next /\ v7'.alone = v7.alone
          /\ Reactions!PressesAreCounted =>
                \A j \in Items : (v4[j] = v3'[j]) <=> (Reactions!Owes(v7', j) <=> Reactions!Owes(v6, j))
        BY <3>1, PressIsTaken
    <3> QED
        BY <2>2, <3>2
  <2> QED
    BY <1>1, <2>1, <2>2
<1>3. /\ Reactions!LikesFit' /\ Reactions!AloneHasNoOther' /\ Reactions!PressedIsOverridden'
      /\ Reactions!PageIsTarget'
    BY <1>1, <1>2 DEF Reactions!AloneHasNoOther, Reactions!PressedIsOverridden, Reactions!PageIsTarget
<1>4. ASSUME v9, ~v12
      PROVE  Reactions!BarIsTargets' /\ Reactions!AloneIsShown'
    BY <1>1, <1>2, <1>4 DEF Reactions!BarIsTargets, Reactions!AloneIsShown
<1>5. ASSUME v9, ~v12
      PROVE  Reactions!PressesAreCounted'
    BY <1>1, <1>2, <1>5 DEF Reactions!PressesAreCounted
<1> QED
    BY <1>1, <1>3, <1>4, <1>5

\* A press that is confirmed was taken, and nothing is owed for it.
LEMMA PressIsSettled ==
    ASSUME "none" \notin Items, Reactions!LikesInv, UNCHANGED <<v1, v2, v3, v4, v10>>,
           \/ v6.done /\ v6' = Reactions!Idle /\ v7' = v7
           \/ v7.done /\ v7' = Reactions!Idle /\ v6' = v6
    PROVE  /\ Reactions!AloneHasNoOther' /\ Reactions!PressedIsOverridden' /\ Reactions!PageIsTarget'
           /\ v6' \in Reactions!Press \cup {Reactions!Idle} /\ v7' \in Reactions!Press \cup {Reactions!Idle}
           /\ v9 /\ ~v12 => Reactions!PressesAreCounted' /\ Reactions!AloneIsShown'
<1>1. (\A j \in Items : ~Reactions!Owes(Reactions!Idle, j)) /\ Reactions!Idle.of \notin Items
    BY DEF Reactions!Owes, Reactions!Idle
<1>2. \A p \in {v6, v7} : p.done => \A j \in Items : ~Reactions!Owes(p, j)
    BY DEF Reactions!Owes
<1>3. /\ Reactions!AloneHasNoOther' /\ Reactions!PressedIsOverridden' /\ Reactions!PageIsTarget'
      /\ v6' \in Reactions!Press \cup {Reactions!Idle} /\ v7' \in Reactions!Press \cup {Reactions!Idle}
    BY <1>1 DEF Reactions!LikesInv, Reactions!LikesFit, Reactions!AloneHasNoOther,
       Reactions!PressedIsOverridden, Reactions!PageIsTarget
<1>4. ASSUME v9, ~v12 PROVE Reactions!AloneIsShown'
    BY <1>1, <1>4 DEF Reactions!LikesInv, Reactions!AloneIsShown
<1>5. ASSUME v9, ~v12 PROVE Reactions!PressesAreCounted'
    BY <1>1, <1>2, <1>5 DEF Reactions!LikesInv, Reactions!PressesAreCounted
<1> QED
    BY <1>3, <1>4, <1>5

\* What is confirmed is written into the data of the target: an override hides
\* it, or it has strayed.
LEMMA PressConfirmed ==
    ASSUME "none" \notin Items, Reactions!LikesInv, Reactions!SheetConfirmed \/ Reactions!BarConfirmed
    PROVE  Reactions!LikesInv'
<1> USE DEF Reactions!LikesInv, Reactions!LikesFit
<1>1. CASE Reactions!SheetConfirmed
  <2>1. v6' = Reactions!Idle /\ v6.done /\ UNCHANGED <<v1, v2, v3, v4, v5, v7, v9, v10, v11, v12>>
    BY <1>1 DEF Reactions!SheetConfirmed, Reactions!Written
  <2>2. v9 /\ ~v12 => Reactions!BarIsTargets'
    BY <2>1 DEF Reactions!BarIsTargets
  <2> QED
    BY <2>1, <2>2, PressIsSettled
<1>2. CASE Reactions!BarConfirmed
  <2>1. /\ v7' = Reactions!Idle /\ v7.done /\ v7 # Reactions!Idle /\ Reactions!Synced(v5)
        /\ v11' = (IF v2 = "none" THEN v11 ELSE v7.next)
        /\ UNCHANGED <<v1, v2, v3, v4, v6, v9, v10>>
    BY <1>2 DEF Reactions!BarConfirmed, Reactions!UpdateSidebarData
  <2>2. v12' \in BOOLEAN
    BY <1>2, Zenon DEF Reactions!BarConfirmed
  <2>3. ~v12' => ~v12 /\ (v2 = "none" \/ v2 \in v10)
    BY <1>2 DEF Reactions!BarConfirmed
  <2>4. v11' \in BOOLEAN
    BY <2>1, PressesAreOfItems
  <2>5. v5' \in BOOLEAN /\ (v9 /\ ~v12' => Reactions!BarIsTargets')
    BY <2>1, <2>3, <2>4, BarShows
  <2> QED
    BY <2>1, <2>2, <2>3, <2>4, <2>5, PressIsSettled
<1> QED
    BY <1>1, <1>2

\* What was shown is taken back: as the server has it, if the press was
\* alone and did not reach it.
LEMMA PressTakenBack ==
    ASSUME "none" \notin Items, Reactions!LikesFit, Reactions!AloneHasNoOther,
           NEW p \in {v6, v7}, NEW q \in {v6, v7}, {p, q} = {v6, v7}, p # Reactions!Idle
    PROVE  LET over == [v4 EXCEPT ![p.of] = ~p.next]
           IN  /\ over \in [Items -> BOOLEAN] /\ p.of \in Items
               /\ Reactions!PressesAreCounted /\ Reactions!AloneIsShown /\ ~p.done /\ p.alone =>
                     \A j \in Items : (over[j] = v3[j]) <=> ~Reactions!Owes(q, j)
               /\ Reactions!AloneIsShown /\ p.alone /\ q.of \in Items /\ q.alone => over[q.of] = q.next
<1> USE DEF Reactions!LikesFit
<1> DEFINE over == [v4 EXCEPT ![p.of] = ~p.next]
<1>1. p \in Reactions!Press /\ p.of \in Items /\ p.next \in BOOLEAN
    BY PressesAreOfItems
<1>2. over \in [Items -> BOOLEAN] /\ (over[p.of] <=> ~p.next) /\ \A j \in Items \ {p.of} : over[j] = v4[j]
    BY <1>1
<1> HIDE DEF over
<1>3. p.alone => q.of # p.of
    BY <1>1 DEF Reactions!AloneHasNoOther
<1>4. ASSUME Reactions!PressesAreCounted, Reactions!AloneIsShown, ~p.done, p.alone, NEW j \in Items
      PROVE  (over[j] = v3[j]) <=> ~Reactions!Owes(q, j)
  <2>1. (v4[j] = v3[j]) <=> (Reactions!Owes(p, j) <=> Reactions!Owes(q, j))
    BY <1>4 DEF Reactions!PressesAreCounted
  <2>2. Reactions!Owes(p, j) <=> j = p.of
    BY <1>4 DEF Reactions!Owes
  <2>3. v3[j] \in BOOLEAN /\ v4[j] \in BOOLEAN /\ over[j] \in BOOLEAN
    BY <1>2
  <2>4. CASE j = p.of
    <3>1. ~Reactions!Owes(q, j)
        BY <1>3, <1>4, <2>4 DEF Reactions!Owes
    <3>2. v4[j] = p.next
        BY <1>1, <1>4, <2>4 DEF Reactions!AloneIsShown
    <3>3. v4[j] # v3[j]
        BY <2>1, <2>2, <2>4, <3>1
    <3>4. over[j] = v3[j]
        BY <1>2, <2>3, <2>4, <3>2, <3>3
    <3> QED
        BY <3>1, <3>4
  <2>5. CASE j # p.of
    BY <1>2, <2>1, <2>2, <2>5
  <2> QED
    BY <2>4, <2>5
<1>5. ASSUME Reactions!AloneIsShown, p.alone, q.of \in Items, q.alone
      PROVE  over[q.of] = q.next
    BY <1>2, <1>3, <1>5 DEF Reactions!AloneIsShown
<1> QED
    BY <1>1, <1>2, <1>4, <1>5 DEF over

\* A press of either heart is refused, and taken back where it is shown.
LEMMA PressFails ==
    ASSUME "none" \notin Items, Reactions!LikesInv, Reactions!SheetFails \/ Reactions!BarFails
    PROVE  Reactions!LikesInv'
<1> USE DEF Reactions!LikesInv, Reactions!LikesFit
<1>1. PICK p \in {v6, v7}, q \in {v6, v7}, was \in BOOLEAN :
         /\ was \in {v5, ~p.next}
         /\ {p, q} = {v6, v7} /\ p # Reactions!Idle /\ v4' = [v4 EXCEPT ![p.of] = ~p.next]
         /\ v10' = v10 \cup {p.of} /\ v11' \in {v11, ~p.next}
         /\ Reactions!Synced(was) /\ UNCHANGED <<v1, v2, v3, v12>>
         /\ v9' \in BOOLEAN /\ (v9' => v9 /\ ~p.done /\ p.alone /\ v2 = p.of)
         /\ \/ p = v6 /\ q = v7 /\ v6' = Reactions!Idle /\ v7' = q
            \/ p = v7 /\ q = v6 /\ v7' = Reactions!Idle /\ v6' = q
  <2>1. CASE Reactions!SheetFails
    <3>1. v9' \in BOOLEAN
        BY <2>1, Zenon DEF Reactions!SheetFails
    <3> QED
        BY <2>1, <3>1 DEF Reactions!SheetFails, Reactions!TakenBack, Reactions!Override,
           Reactions!UpdateSidebarData
  <2>2. CASE Reactions!BarFails
    <3>1. v9' \in BOOLEAN /\ {v7, v6} = {v6, v7}
        BY <2>2, Zenon DEF Reactions!BarFails
    <3> QED
        BY <2>2, <3>1 DEF Reactions!BarFails, Reactions!TakenBack, Reactions!Override
  <2> QED
    BY <2>1, <2>2
<1>2. /\ v4' \in [Items -> BOOLEAN] /\ p.of \in Items
      /\ Reactions!PressesAreCounted /\ Reactions!AloneIsShown /\ ~p.done /\ p.alone =>
            \A j \in Items : (v4'[j] = v3[j]) <=> ~Reactions!Owes(q, j)
      /\ Reactions!AloneIsShown /\ p.alone /\ q.of \in Items /\ q.alone => v4'[q.of] = q.next
    BY <1>1, PressTakenBack
<1>3. p.next \in BOOLEAN /\ Reactions!Idle.of \notin Items /\ \A j \in Items : ~Reactions!Owes(Reactions!Idle, j)
    BY <1>1, PressesAreOfItems DEF Reactions!Owes
<1>4. v11' \in BOOLEAN /\ v10' \subseteq Items /\ v4'[p.of] = ~p.next
    BY <1>1, <1>2, <1>3
<1>5. v5' \in BOOLEAN /\ (v9' /\ ~v12 => Reactions!BarIsTargets')
  <2>1. v9' => v2' \in v10' /\ v4'[v2'] = ~p.next
    BY <1>1, <1>4
  <2> QED
    BY <1>1, <1>2, <1>4, <2>1, BarShows
<1>6. /\ Reactions!LikesFit' /\ Reactions!AloneHasNoOther' /\ Reactions!PressedIsOverridden'
      /\ Reactions!PageIsTarget'
    BY <1>1, <1>2, <1>3, <1>4, <1>5 DEF Reactions!AloneHasNoOther, Reactions!PressedIsOverridden,
       Reactions!PageIsTarget
<1>7. ASSUME v9', ~v12 PROVE Reactions!AloneIsShown'
    BY <1>1, <1>2, <1>3, <1>7 DEF Reactions!AloneIsShown
<1>8. ASSUME v9', ~v12 PROVE Reactions!PressesAreCounted'
    BY <1>1, <1>2, <1>3, <1>8 DEF Reactions!PressesAreCounted
<1> QED
    BY <1>1, <1>5, <1>6, <1>7, <1>8

\* Every step of the hearts keeps their invariant.
LEMMA LikesKept ==
    ASSUME "none" \notin Items, Reactions!LikesInv, [Reactions!Next]_(Reactions!likeVars)
    PROVE  Reactions!LikesInv'
<1>1. CASE UNCHANGED Reactions!likeVars
    BY <1>1 DEF Reactions!likeVars, Reactions!LikesInv, Reactions!LikesFit,
       Reactions!PressesAreCounted, Reactions!BarIsTargets, Reactions!AloneIsShown,
       Reactions!AloneHasNoOther, Reactions!PressedIsOverridden, Reactions!PageIsTarget
<1>2. CASE Reactions!Next
    BY <1>2, MovedAbout, SheetPressed, BarPressed, ServerTakes, PressConfirmed, PressFails
       DEF Reactions!Next
<1> QED
    BY <1>1, <1>2

\* The hearts start with their invariant.
LEMMA LikesStart ==
    ASSUME "none" \notin Items, Reactions!Init
    PROVE  Reactions!LikesInv
<1>1. /\ v1 = "none" /\ v2 = "none" /\ v3 \in [Items -> BOOLEAN] /\ v4 = v3 /\ v5 = FALSE
      /\ v6 = Reactions!Idle /\ v7 = Reactions!Idle /\ v9 = TRUE
      /\ v10 = {} /\ v11 = FALSE /\ v12 = FALSE
    BY DEF Reactions!Init
<1>2. Reactions!Idle.of \notin Items /\ \A j \in Items : ~Reactions!Owes(Reactions!Idle, j)
    BY DEF Reactions!Idle, Reactions!Owes
<1> QED
    BY <1>1, <1>2
    DEF Reactions!LikesInv, Reactions!LikesFit, Reactions!PressesAreCounted,
           Reactions!BarIsTargets, Reactions!AloneIsShown, Reactions!AloneHasNoOther,
           Reactions!PressedIsOverridden, Reactions!PageIsTarget

\* Where the invariant holds, a heart with no press under way shows the
\* server's like wherever it is shown.
LEMMA HeartsAgree ==
    ASSUME Reactions!LikesInv
    PROVE  Reactions!HeartIsServers
<1> SUFFICES ASSUME v9, ~v12, NEW i \in Items, v6.of # i, v7.of # i
             PROVE  /\ v4[i] = v3[i]
                    /\ v2 = i => v5 = v3[i]
                    /\ v1 = i => Reactions!SheetIsLiked = v3[i]
    BY DEF Reactions!HeartIsServers, Reactions!HeartsAgree
<1>1. v4[i] = v3[i]
    BY DEF Reactions!LikesInv, Reactions!PressesAreCounted, Reactions!Owes
<1> QED
    BY <1>1 DEF Reactions!LikesInv, Reactions!BarIsTargets, Reactions!SheetIsLiked

-----------------------------------------------------------------------------
(* Discussions: v1 view, v4 alive, v5 wire, v6 threads, v7 seenRootIds,    *)
(* v10 load, v14 sends.                                                    *)

\* The root of a note is one, and a thread stays one whoever replies.
LEMMA ThreadsAreBuilt ==
    ASSUME NEW n \in Discuss!Notes
    PROVE  /\ n.reply = 0 => [root |-> n, replies |-> {}] \in Discuss!Threads
           /\ n.reply # 0 => \A t \in Discuss!Threads :
                 /\ [t EXCEPT !.replies = @ \cup {n}] \in Discuss!Threads
                 /\ [t EXCEPT !.replies = @ \cup {n}].root = t.root
           /\ \A t \in Discuss!Threads :
                 /\ [t EXCEPT !.replies = @ \ {n}] \in Discuss!Threads
                 /\ [t EXCEPT !.replies = @ \ {n}].root = t.root
    BY DEF Discuss!Notes, Discuss!Threads

\* A note that is told of joins the list and the roots that are known.
LEMMA NoteIsApplied ==
    ASSUME v6 \subseteq Discuss!Threads, v7 = Discuss!Roots, NEW n \in Discuss!Notes,
           Discuss!applyCreated(n) \/ Discuss!applyDeleted(n)
    PROVE  v6' \subseteq Discuss!Threads /\ (v7 = Discuss!Roots)'
<1> USE DEF Discuss!Roots, Discuss!RootsOf
<1>1. CASE Discuss!applyCreated(n) /\ n.reply = 0
  <2>1. /\ v7' = v7 \cup {n}
        /\ v6' = IF n \in v7 THEN v6 ELSE v6 \cup {[root |-> n, replies |-> {}]}
    BY <1>1 DEF Discuss!applyCreated
  <2>2. [root |-> n, replies |-> {}] \in Discuss!Threads
    BY <1>1, ThreadsAreBuilt
  <2> QED
    BY <2>1, <2>2
<1>2. CASE Discuss!applyCreated(n) /\ n.reply # 0
  <2> DEFINE told(t) == IF t.root = Discuss!Root(n) THEN [t EXCEPT !.replies = @ \cup {n}] ELSE t
  <2>1. v7' = v7 /\ v6' = {told(t) : t \in v6}
    BY <1>2 DEF Discuss!applyCreated
  <2>2. \A t \in v6 : told(t) \in Discuss!Threads /\ told(t).root = t.root
    BY <1>2, ThreadsAreBuilt
  <2> HIDE DEF told
  <2> QED
    BY <2>1, <2>2
<1>3. CASE Discuss!applyDeleted(n) /\ n.reply = 0
  <2>1. v7' = v7 \ {n} /\ v6' = {t \in v6 : t.root # n}
    BY <1>3 DEF Discuss!applyDeleted, Discuss!WithoutRoot
  <2> QED
    BY <2>1
<1>4. CASE Discuss!applyDeleted(n) /\ n.reply # 0
  <2> DEFINE told(t) == [t EXCEPT !.replies = @ \ {n}]
  <2>1. v7' = v7 /\ v6' = {told(t) : t \in v6}
    BY <1>4 DEF Discuss!applyDeleted, Discuss!WithoutReply
  <2>2. \A t \in v6 : told(t) \in Discuss!Threads /\ told(t).root = t.root
    BY ThreadsAreBuilt
  <2> HIDE DEF told
  <2> QED
    BY <2>1, <2>2
<1> QED
    BY <1>1, <1>2, <1>3, <1>4

\* Writing and erasing keep what is told of among the notes.
LEMMA NoteIsWritten ==
    ASSUME Discuss!DiscussFits, NEW n \in Discuss!Notes, Discuss!Write(n) \/ Discuss!Erase(n)
    PROVE  v4' \subseteq Discuss!Notes /\ v5' \in Seq(Discuss!Events)
<1> USE DEF Discuss!DiscussFits
<1>1. \A what \in {"created", "deleted"} : [what |-> what, note |-> n] \in Discuss!Events
    BY DEF Discuss!Events
<1>2. \A what \in {"created", "deleted"} : Append(v5, [what |-> what, note |-> n]) \in Seq(Discuss!Events)
    BY <1>1
<1>3. v4' \subseteq Discuss!Notes
    BY DEF Discuss!Write, Discuss!Erase
<1>4. v5' \in Seq(Discuss!Events)
    BY <1>2 DEF Discuss!Write, Discuss!Erase, Discuss!Emit
<1> QED
    BY <1>3, <1>4

\* What is asked for brings nothing yet.
LEMMA NothingAsked ==
    ASSUME Discuss!DiscussFits, NEW p, NEW reset, Discuss!fetchAnnotations(p, reset)
    PROVE  DOMAIN v10' = DOMAIN Discuss!NoLoad /\ v10'.items \subseteq Discuss!Threads
<1>1. v10' = v10 \/ v10' = [Discuss!NoLoad EXCEPT !.of = p, !.reset = reset, !.phase = "asked",
                                                  !.after = IF reset THEN 0 ELSE v8]
    BY DEF Discuss!fetchAnnotations
<1>2. v10' = v10 \/ (v10'.items = {} /\ DOMAIN v10' = DOMAIN Discuss!NoLoad)
    BY <1>1 DEF Discuss!NoLoad
<1> QED
    BY <1>2 DEF Discuss!DiscussFits

\* What the server, the stream and others do.
LEMMA OthersDiscuss ==
    ASSUME Discuss!DiscussFits, v7 = Discuss!Roots,
           \/ \E n \in Discuss!Notes : Discuss!OtherWrites(n) \/ Discuss!OtherErases(n)
           \/ Discuss!EventArrives \/ Discuss!Resync \/ Discuss!Retry \/ Discuss!loadMore
    PROVE  Discuss!DiscussFits' /\ (v7 = Discuss!Roots)'
<1> USE DEF Discuss!List, Discuss!Server
<1>1. ASSUME NEW n \in Discuss!Notes, Discuss!OtherWrites(n) \/ Discuss!OtherErases(n)
      PROVE  Discuss!DiscussFits' /\ (v7 = Discuss!Roots)'
  <2>1. v4' \subseteq Discuss!Notes /\ v5' \in Seq(Discuss!Events)
    BY <1>1, NoteIsWritten DEF Discuss!OtherWrites, Discuss!OtherErases
  <2>2. UNCHANGED <<v6, v7, v10, v14>>
    BY <1>1 DEF Discuss!OtherWrites, Discuss!OtherErases
  <2> QED
    BY <2>1, <2>2 DEF Discuss!DiscussFits, Discuss!Roots, Discuss!RootsOf
<1>2. CASE Discuss!EventArrives
  <2>1. v5 # <<>> /\ v5' = Tail(v5) /\ UNCHANGED <<v4, v10, v14>>
    BY <1>2 DEF Discuss!EventArrives
  <2>2. v5 \in Seq(Discuss!Events)
    BY DEF Discuss!DiscussFits
  <2>3. Head(v5) \in Discuss!Events /\ v5' \in Seq(Discuss!Events)
    BY <2>1, <2>2
  <2>4. Head(v5).note \in Discuss!Notes
    BY <2>3 DEF Discuss!Events
  <2>5. v6' \subseteq Discuss!Threads /\ (v7 = Discuss!Roots)'
    BY <1>2, <2>4, NoteIsApplied DEF Discuss!EventArrives, Discuss!DiscussFits
  <2> QED
    BY <2>1, <2>3, <2>5 DEF Discuss!DiscussFits
<1>3. CASE Discuss!Resync \/ Discuss!Retry \/ Discuss!loadMore
  <2>1. DOMAIN v10' = DOMAIN Discuss!NoLoad /\ v10'.items \subseteq Discuss!Threads
    BY <1>3, NothingAsked DEF Discuss!Resync, Discuss!Retry, Discuss!loadMore
  <2>2. UNCHANGED <<v4, v6, v7, v14>> /\ (v5' = v5 \/ v5' = <<>>)
    BY <1>3 DEF Discuss!Resync, Discuss!Retry, Discuss!loadMore
  <2>3. <<>> \in Seq(Discuss!Events)
    OBVIOUS
  <2>4. v5' \in Seq(Discuss!Events)
    BY <2>2, <2>3 DEF Discuss!DiscussFits
  <2> QED
    BY <2>1, <2>2, <2>4 DEF Discuss!DiscussFits, Discuss!Roots, Discuss!RootsOf
<1> QED
    BY <1>1, <1>2, <1>3

\* Lists that are fetched: what is read are threads of notes there are.
LEMMA ListsAreFetched ==
    ASSUME Discuss!DiscussFits, v7 = Discuss!Roots,
           \/ Discuss!LoadReads \/ Discuss!LoadAnswered \/ Discuss!LoadFails
           \/ \E p \in Subjects : Discuss!OpenPage(p)
    PROVE  Discuss!DiscussFits' /\ (v7 = Discuss!Roots)'
<1> USE DEF Discuss!List, Discuss!Server
<1>1. CASE Discuss!LoadReads
  <2>1. PICK page, next :
           /\ page \subseteq {n \in v4 : n.reply = 0}
           /\ v10' = [v10 EXCEPT !.phase = "read",
                 !.items = {[root |-> n, replies |-> {m \in v4 : m.reply = 1 /\ Discuss!Root(m) = n}] : n \in page},
                 !.next = next]
    BY <1>1 DEF Discuss!LoadReads
  <2> DEFINE items == {[root |-> n, replies |-> {m \in v4 : m.reply = 1 /\ Discuss!Root(m) = n}] : n \in page}
  <2>2. items \subseteq Discuss!Threads
    BY <2>1 DEF Discuss!Threads, Discuss!DiscussFits
  <2>3. v10' = [v10 EXCEPT !.phase = "read", !.items = items, !.next = next]
    BY <2>1
  <2> HIDE DEF items
  <2>4. DOMAIN v10' = DOMAIN Discuss!NoLoad /\ v10'.items = items
    BY <2>3 DEF Discuss!DiscussFits, Discuss!NoLoad
  <2>5. UNCHANGED <<v4, v5, v6, v7, v14>>
    BY <1>1 DEF Discuss!LoadReads
  <2> QED
    BY <2>2, <2>4, <2>5 DEF Discuss!DiscussFits, Discuss!Roots, Discuss!RootsOf
<1>2. CASE Discuss!LoadAnswered
  <2>1. v10'.items = {} /\ DOMAIN v10' = DOMAIN Discuss!NoLoad /\ UNCHANGED <<v4, v5, v14>>
    BY <1>2 DEF Discuss!LoadAnswered, Discuss!NoLoad
  <2>2. \/ v6' = v10.items /\ v7' = Discuss!RootsOf(v10.items)
        \/ v6' = v6 \cup v10.items /\ v7' = v7 \cup Discuss!RootsOf(v10.items)
    BY <1>2 DEF Discuss!LoadAnswered
  <2> QED
    BY <2>1, <2>2 DEF Discuss!DiscussFits, Discuss!Roots, Discuss!RootsOf
<1>3. CASE Discuss!LoadFails
  <2>1. v10'.items = {} /\ DOMAIN v10' = DOMAIN Discuss!NoLoad /\ UNCHANGED <<v4, v5, v6, v7, v14>>
    BY <1>3 DEF Discuss!LoadFails, Discuss!NoLoad
  <2> QED
    BY <2>1 DEF Discuss!DiscussFits, Discuss!Roots, Discuss!RootsOf
<1>4. ASSUME NEW p \in Subjects, Discuss!OpenPage(p)
      PROVE  Discuss!DiscussFits' /\ (v7 = Discuss!Roots)'
  <2>1. v5' = <<>> /\ v6' = {} /\ v7' = {} /\ UNCHANGED <<v4, v14>> /\ (v10'.items = {} \/ v10' = v10)
        /\ DOMAIN v10' = DOMAIN Discuss!NoLoad
    BY <1>4 DEF Discuss!OpenPage, Discuss!DiscussFits, Discuss!NoLoad
  <2> QED
    BY <2>1 DEF Discuss!DiscussFits, Discuss!Roots, Discuss!RootsOf
<1> QED
    BY <1>1, <1>2, <1>3, <1>4

\* One's own notes.
LEMMA OneDiscusses ==
    ASSUME Discuss!Live, Discuss!DiscussFits, v7 = Discuss!Roots,
           \/ \E n \in Discuss!Notes : \/ Discuss!Delete(n)
                                       \/ Discuss!SubmitRoot(n) \/ Discuss!SubmitTip(n) \/
                                              Discuss!SubmitReply(n)
           \/ Discuss!SaveEdit
           \/ \E s \in Discuss!Sends : Discuss!Created(s) \/ Discuss!Edited(s) \/
                  Discuss!Deleted(s) \/ Discuss!Refused(s)
    PROVE  Discuss!DiscussFits' /\ (v7 = Discuss!Roots)'
<1> USE DEF Discuss!List, Discuss!Server
<1>1. ASSUME NEW n \in Discuss!Notes, Discuss!Delete(n)
      PROVE  Discuss!DiscussFits' /\ (v7 = Discuss!Roots)'
  <2>1. v14' \subseteq Discuss!Sends /\ UNCHANGED <<v4, v5, v10>> /\ Discuss!applyDeleted(n)
    BY <1>1 DEF Discuss!Delete, Discuss!Sends
  <2>2. v6' \subseteq Discuss!Threads /\ (v7 = Discuss!Roots)'
    BY <2>1, NoteIsApplied DEF Discuss!DiscussFits
  <2> QED
    BY <2>1, <2>2 DEF Discuss!DiscussFits
<1>2. ASSUME NEW n \in Discuss!Notes, Discuss!SubmitRoot(n) \/ Discuss!SubmitTip(n) \/
                 Discuss!SubmitReply(n)
      PROVE  Discuss!DiscussFits' /\ (v7 = Discuss!Roots)'
  <2>1. Discuss!Write(n) /\ UNCHANGED <<v6, v7, v10>> /\ v14' \subseteq Discuss!Sends
    BY <1>2 DEF Discuss!SubmitRoot, Discuss!SubmitTip, Discuss!SubmitReply, Discuss!Send,
       Discuss!Sends
  <2>2. v4' \subseteq Discuss!Notes /\ v5' \in Seq(Discuss!Events)
    BY <2>1, NoteIsWritten
  <2> QED
    BY <2>1, <2>2 DEF Discuss!DiscussFits, Discuss!Roots, Discuss!RootsOf
<1>3. CASE Discuss!SaveEdit
  <2>1. UNCHANGED <<v4, v5, v6, v7, v10>>
    BY <1>3 DEF Discuss!SaveEdit
  <2>2. v12.note \in Discuss!Notes
    BY <1>3 DEF Discuss!SaveEdit, Discuss!Listed, Discuss!DiscussFits, Discuss!Threads
  <2>3. v14' \subseteq Discuss!Sends
    BY <1>3, <2>2 DEF Discuss!SaveEdit, Discuss!Sends
  <2> QED
    BY <2>1, <2>3 DEF Discuss!DiscussFits, Discuss!Roots, Discuss!RootsOf
<1>4. ASSUME NEW s \in Discuss!Sends, Discuss!Created(s)
      PROVE  Discuss!DiscussFits' /\ (v7 = Discuss!Roots)'
  <2>1. v14' = {} /\ UNCHANGED <<v4, v5, v10>> /\ Discuss!applyCreated(s.note) /\ s.note \in Discuss!Notes
    BY <1>4 DEF Discuss!Created, Discuss!Sends
  <2>2. v6' \subseteq Discuss!Threads /\ (v7 = Discuss!Roots)'
    BY <2>1, NoteIsApplied DEF Discuss!DiscussFits
  <2> QED
    BY <2>1, <2>2 DEF Discuss!DiscussFits
<1>5. ASSUME NEW s \in Discuss!Sends, Discuss!Deleted(s)
      PROVE  Discuss!DiscussFits' /\ (v7 = Discuss!Roots)'
  <2>1. v14' = {} /\ UNCHANGED <<v6, v7, v10>> /\ Discuss!Erase(s.note) /\ s.note \in Discuss!Notes
    BY <1>5 DEF Discuss!Deleted, Discuss!Sends
  <2>2. v4' \subseteq Discuss!Notes /\ v5' \in Seq(Discuss!Events)
    BY <2>1, NoteIsWritten
  <2> QED
    BY <2>1, <2>2 DEF Discuss!DiscussFits, Discuss!Roots, Discuss!RootsOf
<1>6. ASSUME NEW s \in Discuss!Sends, Discuss!Edited(s) \/ Discuss!Refused(s)
      PROVE  Discuss!DiscussFits' /\ (v7 = Discuss!Roots)'
  <2>1. v14' = {} /\ UNCHANGED <<v4, v5, v6, v7, v10>>
    BY <1>6 DEF Discuss!Edited, Discuss!Refused
  <2> QED
    BY <2>1 DEF Discuss!DiscussFits, Discuss!Roots, Discuss!RootsOf
<1> QED
    BY <1>1, <1>2, <1>3, <1>4, <1>5, <1>6

\* Every step of the discussions keeps their invariant.
LEMMA ThreadsKept ==
    ASSUME Discuss!DiscussInv, [Discuss!Next]_(Discuss!discussVars)
    PROVE  Discuss!DiscussInv'
<1>1. v1' = v1
    BY DEF Discuss!Next, Discuss!discussVars, Discuss!OtherWrites, Discuss!OtherErases,
       Discuss!handleReply, Discuss!handleStartEdit, Discuss!Delete, Discuss!SubmitRoot,
       Discuss!SubmitTip, Discuss!SubmitReply, Discuss!Send, Discuss!EventArrives,
       Discuss!Resync, Discuss!Retry, Discuss!loadMore, Discuss!LoadReads,
       Discuss!LoadAnswered, Discuss!LoadFails, Discuss!OpenPage, Discuss!handleCancel,
       Discuss!Annotate, Discuss!ClickOutside, Discuss!SaveEdit, Discuss!Created,
       Discuss!Edited, Discuss!Deleted, Discuss!Refused
<1>2. SUFFICES ASSUME Discuss!Live PROVE Discuss!DiscussFits' /\ (v7 = Discuss!Roots)'
    BY <1>1 DEF Discuss!DiscussInv, Discuss!Live
<1>3. Discuss!DiscussFits /\ v7 = Discuss!Roots
    BY <1>2 DEF Discuss!DiscussInv
<1>4. CASE UNCHANGED <<v4, v5, v6, v7, v10, v14>>
    BY <1>3, <1>4 DEF Discuss!DiscussFits, Discuss!Roots, Discuss!RootsOf
<1>5. CASE \/ \E n \in Discuss!Notes : Discuss!handleReply(n) \/ Discuss!handleStartEdit(n)
           \/ Discuss!handleCancel \/ Discuss!Annotate \/ Discuss!ClickOutside \/
                  UNCHANGED Discuss!discussVars
    BY <1>4, <1>5
    DEF Discuss!handleReply, Discuss!handleStartEdit, Discuss!handleCancel, Discuss!Annotate,
           Discuss!ClickOutside, Discuss!discussVars, Discuss!List, Discuss!Server
<1> QED
    BY <1>2, <1>3, <1>5, OthersDiscuss, ListsAreFetched, OneDiscusses DEF Discuss!Next

\* The discussions start with their invariant.
LEMMA ThreadsStart ==
    ASSUME MaxRoots \in Nat \ {0}, Discuss!Init
    PROVE  Discuss!DiscussInv
<1>1. /\ v4 = {[on |-> p, root |-> 1, reply |-> 0] : p \in Subjects} /\ v5 = <<>> /\ v6 = {} /\ v7 = {}
      /\ v10.items = {} /\ DOMAIN v10 = DOMAIN Discuss!NoLoad /\ v14 = {}
    BY DEF Discuss!Init, Discuss!NoLoad
<1>2. v4 \subseteq Discuss!Notes
    BY <1>1 DEF Discuss!Notes
<1> QED
    BY <1>1, <1>2 DEF Discuss!DiscussInv, Discuss!DiscussFits, Discuss!Roots, Discuss!RootsOf

-----------------------------------------------------------------------------
(* MaterialViewer: v1 viewer, v2 material, v3 file, v4 load, v5 waits, v6  *)
(* engine, v7 works, v8 view, v9 printable.                                *)

\* What is no longer wanted.
LEMMA LeftAreWhole ==
    ASSUME Viewer!ViewerParts
    PROVE  \A w \in Viewer!Left(v7) : w = [of |-> w.of, live |-> w.live] /\ ~w.live
BY DEF Viewer!ViewerParts, Viewer!Left

\* The document's effect opens the file of the page, or nothing.
LEMMA DocumentOpened ==
    ASSUME Viewer!ViewerParts, NEW url, NEW state, Viewer!OpenDocument(url, state)
    PROVE  /\ \A w \in v7' : w = [of |-> w.of, live |-> w.live]
           /\ \A w \in v7' : w.live => w.of = url /\ state = "up" /\ url # "none"
           /\ v8' = [status |-> v8'.status, of |-> v8'.of]
           /\ IF url # "none" /\ state = "up" THEN v8'.status = "loading" ELSE v8' = v8
<1>1. CASE url = "none" \/ state # "up"
    BY <1>1, LeftAreWhole DEF Viewer!OpenDocument, Viewer!ViewerParts
<1>2. CASE ~(url = "none" \/ state # "up")
  <2>1. v7' = Viewer!Left(v7) \cup {[of |-> url, live |-> TRUE]} /\ v8' = [v8 EXCEPT !.status = "loading"]
    BY <1>2 DEF Viewer!OpenDocument
  <2>2. v8' = [status |-> v8'.status, of |-> v8'.of] /\ v8'.status = "loading"
    BY <2>1 DEF Viewer!ViewerParts
  <2> QED
    BY <1>2, <2>1, <2>2, LeftAreWhole
<1> QED
    BY <1>1, <1>2

\* The status alone changes, to none that shows a document.
LEMMA StatusKeeps ==
    ASSUME Viewer!ViewerParts, Viewer!OpenedIsAsked, v8' = [status |-> v8'.status, of |-> v8.of],
           \/ v8'.status \in {"loading", "error"}
           \/ v1 = "office" /\ v8.status \notin {"loading", "error"},
           \A w \in v7' : w \in v7,
           UNCHANGED <<v1, v2, v3>>, v6' = v6 \/ (v6 # "up" /\ v6' # "up")
    PROVE  Viewer!ViewerParts' /\ Viewer!OpenedIsAsked'
<1>1. v8' = [status |-> v8'.status, of |-> v8'.of] /\ v8'.of = v8.of
    OBVIOUS
<1>2. Viewer!ViewerParts'
    BY <1>1 DEF Viewer!ViewerParts
<1> QED
    BY <1>1, <1>2 DEF Viewer!OpenedIsAsked

\* The file: it comes, is waited for, or fails.
LEMMA FileKeeps ==
    ASSUME "none" \notin Materials, Viewer!ViewerParts, Viewer!OpenedIsAsked,
               Viewer!FileAnswered \/ Viewer!FileBreaks \/ Viewer!BackoffEnds \/ Viewer!FileFails
    PROVE  Viewer!ViewerParts' /\ Viewer!OpenedIsAsked'
<1>1. CASE Viewer!FileAnswered
  <2>1. /\ UNCHANGED <<v1, v2, v6>> /\ v3' = [loading |-> FALSE, error |-> FALSE, of |-> v2]
        /\ IF v1 = "pdf" THEN Viewer!OpenDocument(v2, v6) ELSE UNCHANGED <<v7, v8>>
    BY <1>1 DEF Viewer!FileAnswered, Viewer!fileRest
  <2>2. CASE v1 = "pdf"
    <3>1. Viewer!OpenDocument(v2, v6) /\ v2 # "none"
      BY <2>1, <2>2 DEF Viewer!ViewerParts
    <3> QED
      BY <2>1, <2>2, <3>1, DocumentOpened DEF Viewer!ViewerParts, Viewer!OpenedIsAsked
  <2>3. CASE v1 # "pdf"
    BY <2>1, <2>3 DEF Viewer!ViewerParts, Viewer!OpenedIsAsked
  <2> QED
    BY <2>2, <2>3
<1>2. CASE Viewer!FileBreaks \/ Viewer!BackoffEnds
    BY <1>2 DEF Viewer!FileBreaks, Viewer!BackoffEnds, Viewer!fileRest, Viewer!ViewerParts,
       Viewer!OpenedIsAsked
<1>3. CASE Viewer!FileFails
  <2>1. UNCHANGED <<v1, v2, v6, v7, v8>> /\ v3' = [v3 EXCEPT !.loading = FALSE, !.error = (v1 # "audio")]
    BY <1>3 DEF Viewer!FileFails, Viewer!fileRest
  <2>2. (v1 # "audio") = TRUE
    BY DEF Viewer!ViewerParts
  <2>3. v3' = [v3 EXCEPT !.loading = FALSE, !.error = TRUE]
    BY <2>1, <2>2, Zenon
  <2>4. v3' = [loading |-> FALSE, error |-> TRUE, of |-> v3'.of]
    BY <2>3 DEF Viewer!ViewerParts
  <2> QED
    BY <2>1, <2>4 DEF Viewer!ViewerParts, Viewer!OpenedIsAsked
<1> QED
    BY <1>1, <1>2, <1>3

\* The engine: it comes up, fails or starts anew.
LEMMA EngineKeeps ==
    ASSUME Viewer!ViewerParts, Viewer!OpenedIsAsked, Viewer!EngineUp \/ Viewer!EngineFails \/
               Viewer!EngineRestarts
    PROVE  Viewer!ViewerParts' /\ Viewer!OpenedIsAsked'
<1>1. CASE Viewer!EngineUp
  <2>1. UNCHANGED <<v1, v2, v3>> /\ v1 = "pdf" /\ v6' = "up" /\ v6 = "starting" /\
            Viewer!OpenDocument(Viewer!Url, "up")
    BY <1>1 DEF Viewer!EngineUp, Viewer!loadRest
  <2>2. Viewer!Url = "none" \/ Viewer!Url = v2
    BY <2>1 DEF Viewer!Url, Viewer!OpenedIsAsked
  <2> QED
    BY <2>1, <2>2, DocumentOpened DEF Viewer!ViewerParts, Viewer!OpenedIsAsked
<1>2. CASE Viewer!EngineFails
  <2>1. /\ UNCHANGED <<v1, v2, v3, v7>> /\ v6 # "up" /\ v6' # "up"
        /\ v8' = [status |-> "error", of |-> v8.of]
    BY <1>2 DEF Viewer!EngineFails, Viewer!loadRest, Viewer!ViewerParts
  <2> QED
    BY <2>1, StatusKeeps
<1>3. CASE Viewer!EngineRestarts
    BY <1>3, LeftAreWhole DEF Viewer!EngineRestarts, Viewer!StartEngine, Viewer!loadRest,
       Viewer!ViewerParts, Viewer!OpenedIsAsked
<1> QED
    BY <1>1, <1>2, <1>3

\* The documents and editors that were being opened.
LEMMA WorksKeep ==
    ASSUME Viewer!ViewerParts, Viewer!OpenedIsAsked, NEW w \in v7,
           Viewer!DocumentOpens(w) \/ Viewer!DocumentFails(w) \/ Viewer!DocumentTimesOut(w) \/
               Viewer!EditorStarts(w) \/ Viewer!StartupFails(w)
    PROVE  Viewer!ViewerParts' /\ Viewer!OpenedIsAsked'
<1>1. UNCHANGED <<v1, v2, v3, v6>>
    BY DEF Viewer!DocumentOpens, Viewer!DocumentFails, Viewer!DocumentTimesOut,
       Viewer!EditorStarts, Viewer!StartupFails, Viewer!loadRest
<1>2. CASE Viewer!DocumentOpens(w) \/ Viewer!EditorStarts(w)
  <2>1. /\ v1 # "file" /\ v7' = v7 \ {w}
        /\ IF w.live THEN v8'.of = w.of /\ v8' = [status |-> v8'.status, of |-> w.of] ELSE v8' = v8
    BY <1>2 DEF Viewer!DocumentOpens, Viewer!EditorStarts, Viewer!Receive
  <2>2. w.live => w.of = v2 /\ (v1 = "pdf" => v6 = "up")
    BY <2>1 DEF Viewer!OpenedIsAsked
  <2>3. v8' = [status |-> v8'.status, of |-> v8'.of]
    BY <2>1 DEF Viewer!ViewerParts
  <2>4. v8' = v8 \/ (v8'.of = v2 /\ (v1 = "pdf" => v6 = "up"))
    <3>1. CASE w.live
      BY <2>1, <2>2, <3>1
    <3>2. CASE ~w.live
      BY <2>1, <3>2
    <3> QED
      BY <3>1, <3>2
  <2>5. Viewer!ViewerParts'
    BY <1>1, <2>1, <2>3 DEF Viewer!ViewerParts
  <2>6. v1 # "file" /\ \A v \in v7' : v \in v7
    BY <2>1
  <2>7. CASE v8' = v8
    BY <1>1, <2>5, <2>6, <2>7 DEF Viewer!OpenedIsAsked
  <2>8. CASE v8'.of = v2 /\ (v1 = "pdf" => v6 = "up")
    <3>1. \A v \in v7' : v.live => v.of = v2'
      BY <1>1, <2>6 DEF Viewer!OpenedIsAsked
    <3>2. v1' = "pdf" => v6' = "up"
      BY <1>1, <2>8
    <3>3. v1' # "office" => v3'.loading \/ v3'.error \/ v3'.of = v2'
      BY <1>1 DEF Viewer!OpenedIsAsked
    <3>4. v8'.of = v2'
      BY <1>1, <2>8
    <3> QED
      BY <2>5, <3>1, <3>2, <3>3, <3>4 DEF Viewer!OpenedIsAsked
  <2> QED
    BY <2>4, <2>7, <2>8
<1>3. CASE Viewer!DocumentFails(w) \/ Viewer!StartupFails(w)
  <2>1. CASE w.live
    <3>1. v8' = [status |-> "error", of |-> v8.of] /\ \A v \in v7' : v \in v7
      BY <1>3, <2>1 DEF Viewer!DocumentFails, Viewer!StartupFails, Viewer!ViewerParts
    <3>2. UNCHANGED <<v1, v2, v3>> /\ v6' = v6
      BY <1>1
    <3> QED
      BY <3>1, <3>2, StatusKeeps
  <2>2. CASE ~w.live
    BY <1>1, <1>3, <2>2 DEF Viewer!DocumentFails, Viewer!StartupFails, Viewer!ViewerParts,
       Viewer!OpenedIsAsked
  <2> QED
    BY <2>1, <2>2
<1>4. CASE Viewer!DocumentTimesOut(w)
  <2>1. /\ v7' = (v7 \ {w}) \cup {[w EXCEPT !.live = FALSE]} /\ v1 = "pdf" /\ w.live
        /\ v8' = [v8 EXCEPT !.status = "error"]
    BY <1>4 DEF Viewer!DocumentTimesOut
  <2>2. [w EXCEPT !.live = FALSE] \in Viewer!Left(v7)
    BY DEF Viewer!Left
  <2>3. v8' = [status |-> v8'.status, of |-> v8'.of] /\ v8'.status = "error"
    BY <2>1 DEF Viewer!ViewerParts
  <2>4. \A v \in v7' : v = [of |-> v.of, live |-> v.live] /\ (v.live => v \in v7)
    BY <2>1, <2>2, LeftAreWhole DEF Viewer!ViewerParts
  <2> QED
    BY <1>1, <2>1, <2>3, <2>4 DEF Viewer!ViewerParts, Viewer!OpenedIsAsked
<1> QED
    BY <1>2, <1>3, <1>4

\* The editor of office documents.
LEMMA EditorKeeps ==
    ASSUME Viewer!ViewerParts, Viewer!OpenedIsAsked, Viewer!EditorReady \/ Viewer!EditorFails
    PROVE  Viewer!ViewerParts' /\ Viewer!OpenedIsAsked'
<1>1. CASE Viewer!EditorReady
  <2>1. /\ UNCHANGED <<v1, v2, v3, v6, v7>> /\ v1 = "office" /\ v8.status = "starting"
        /\ v8' = [status |-> "ready", of |-> v8.of]
    BY <1>1 DEF Viewer!EditorReady, Viewer!ViewerParts
  <2> QED
    BY <2>1, StatusKeeps
<1>2. CASE Viewer!EditorFails
  <2>1. /\ UNCHANGED <<v1, v2, v3, v6, v7>> /\ v8' = [status |-> "error", of |-> v8.of]
    BY <1>2 DEF Viewer!EditorFails, Viewer!loadRest, Viewer!ViewerParts
  <2> QED
    BY <2>1, StatusKeeps
<1> QED
    BY <1>1, <1>2

\* A file that is loaded anew: the document that is open is not of it.
LEMMA LoadKeeps ==
    ASSUME Viewer!ViewerParts, Viewer!OpenedIsAsked, Viewer!StartLoad, v1 # "office",
               UNCHANGED <<v1, v6>>, v2' \in Materials,
           IF v1 = "pdf" THEN Viewer!OpenDocument("none", v6) ELSE UNCHANGED <<v7, v8>>
    PROVE  Viewer!ViewerParts' /\ Viewer!OpenedIsAsked'
<1>1. v3' = [loading |-> TRUE, error |-> FALSE, of |-> "none"]
    BY DEF Viewer!StartLoad, Viewer!Fresh, Viewer!ViewerParts
<1>2. CASE v1 = "pdf"
    BY <1>1, <1>2, DocumentOpened DEF Viewer!ViewerParts, Viewer!OpenedIsAsked
<1>3. CASE v1 = "file"
    BY <1>1, <1>3 DEF Viewer!ViewerParts, Viewer!OpenedIsAsked
<1> QED
    BY <1>2, <1>3 DEF Viewer!ViewerParts

\* An editor that is started anew.
LEMMA StartKeeps ==
    ASSUME Viewer!ViewerParts, v1 = "office", Viewer!StartEditor(v2'), UNCHANGED <<v1, v3>>,
               v2' \in Materials
    PROVE  Viewer!ViewerParts' /\ Viewer!OpenedIsAsked'
BY LeftAreWhole DEF Viewer!StartEditor, Viewer!ViewerParts, Viewer!OpenedIsAsked

\* A second try, of whatever had failed.
LEMMA RetryKeeps ==
    ASSUME Viewer!ViewerParts, Viewer!OpenedIsAsked, Viewer!Retry
    PROVE  Viewer!ViewerParts' /\ Viewer!OpenedIsAsked'
<1>1. UNCHANGED <<v1, v2>> /\ v2 \in Materials
    BY DEF Viewer!Retry, Viewer!ViewerParts
<1>2. CASE v1 = "office"
  <2>1. Viewer!StartEditor(v2) /\ UNCHANGED v3
    BY <1>2 DEF Viewer!Retry
  <2> QED
    BY <1>1, <1>2, <2>1, StartKeeps
<1>3. CASE v1 = "file" \/ (v1 = "pdf" /\ v3.error)
  <2>1. Viewer!StartLoad /\ UNCHANGED v6 /\
            IF v1 = "pdf" THEN Viewer!OpenDocument("none", v6) ELSE UNCHANGED <<v7, v8>>
    BY <1>3 DEF Viewer!Retry
  <2> QED
    BY <1>1, <1>3, <2>1, LoadKeeps
<1>4. CASE v1 = "pdf" /\ ~v3.error
  <2>1. /\ UNCHANGED v3
        /\ IF v6 = "up"
                        THEN /\ UNCHANGED v6
                             /\ v7' = Viewer!Left(v7) \cup
                                    (IF Viewer!Url = "none" THEN {} ELSE {[of |-> Viewer!Url, live |-> TRUE]})
                             /\ v8' = [v8 EXCEPT !.status = "loading"]
                        ELSE Viewer!StartEngine
    BY <1>4 DEF Viewer!Retry
  <2>2. CASE v6 = "up"
    <3>1. \A w \in v7' : w = [of |-> w.of, live |-> w.live] /\
              (w.live => w.of = Viewer!Url /\ Viewer!Url # "none")
      BY <2>1, <2>2, LeftAreWhole
    <3>2. Viewer!Url # "none" => Viewer!Url = v2
      BY <1>4 DEF Viewer!Url, Viewer!OpenedIsAsked
    <3>3. v8' = [status |-> v8'.status, of |-> v8'.of] /\ v8'.status = "loading"
      BY <2>1, <2>2 DEF Viewer!ViewerParts
    <3> QED
      BY <1>1, <1>4, <2>1, <2>2, <3>1, <3>2, <3>3 DEF Viewer!ViewerParts, Viewer!OpenedIsAsked
  <2>3. CASE v6 # "up"
    BY <1>1, <1>4, <2>1, <2>3, LeftAreWhole DEF Viewer!StartEngine, Viewer!ViewerParts,
       Viewer!OpenedIsAsked
  <2> QED
    BY <2>2, <2>3
<1> QED
    BY <1>2, <1>3, <1>4 DEF Viewer!ViewerParts

\* Another material in the same viewer.
LEMMA SwitchKeeps ==
    ASSUME Viewer!ViewerParts, Viewer!OpenedIsAsked, NEW m \in Materials, Viewer!SwitchMaterial(m)
    PROVE  Viewer!ViewerParts' /\ Viewer!OpenedIsAsked'
<1>1. CASE v1 = "office"
    BY <1>1, StartKeeps DEF Viewer!SwitchMaterial
<1>2. CASE v1 # "office"
    BY <1>2, LoadKeeps DEF Viewer!SwitchMaterial
<1> QED
    BY <1>1, <1>2

\* Every step keeps what is shown that of the page.
LEMMA ViewerKept ==
    ASSUME "none" \notin Materials, Viewer!ViewerInv, [Viewer!Next]_(Viewer!viewerVars)
    PROVE  Viewer!ViewerInv'
<1>1. v1' = v1
    BY DEF Viewer!Next, Viewer!viewerVars, Viewer!FileAnswered, Viewer!FileBreaks,
       Viewer!BackoffEnds, Viewer!FileFails, Viewer!fileRest, Viewer!loadRest, Viewer!EngineUp,
       Viewer!EngineFails, Viewer!EngineRestarts, Viewer!EditorReady, Viewer!EditorFails,
       Viewer!DocumentOpens, Viewer!DocumentFails, Viewer!DocumentTimesOut,
       Viewer!EditorStarts, Viewer!StartupFails, Viewer!Retry, Viewer!SwitchMaterial
<1>2. SUFFICES ASSUME Viewer!ViewerParts, Viewer!OpenedIsAsked
               PROVE  Viewer!ViewerParts' /\ Viewer!OpenedIsAsked'
    BY <1>1 DEF Viewer!ViewerInv
<1>3. CASE UNCHANGED Viewer!viewerVars
    BY <1>2, <1>3 DEF Viewer!viewerVars, Viewer!ViewerParts, Viewer!OpenedIsAsked
<1>4. CASE Viewer!Next
    BY <1>2, <1>4, FileKeeps, EngineKeeps, WorksKeep, EditorKeeps, RetryKeeps, SwitchKeeps
       DEF Viewer!Next
<1> QED
    BY <1>3, <1>4

\* It holds at first.
LEMMA ViewerStarts == Viewer!Init => Viewer!ViewerInv
<1> SUFFICES ASSUME Viewer!Init, v1 # "audio" PROVE Viewer!ViewerParts /\ Viewer!OpenedIsAsked
    BY DEF Viewer!ViewerInv
<1>1. v3 = [loading |-> v3.loading, error |-> FALSE, of |-> "none"] /\ (v1 # "office" => v3.loading)
    BY DEF Viewer!Init, Viewer!Fresh, Viewer!Loads
<1> QED
    BY <1>1 DEF Viewer!Init, Viewer!ViewerParts, Viewer!OpenedIsAsked

\* What the invariant says of what is shown.
LEMMA ViewerShows == Viewer!ViewerInv => Viewer!ShownIsAsked
    BY DEF Viewer!ViewerInv, Viewer!ViewerParts, Viewer!OpenedIsAsked, Viewer!ShownIsAsked,
       Viewer!Spinner, Viewer!Failed

-----------------------------------------------------------------------------
(* ItemPanel: v1 target, v2 tab, v3 open, v4 preview, v5 names, v6 asking, *)
(* v7 author, v8 awaited, v9 unfolded, v10 attached, v11 fetches, v12      *)
(* edits, v13 queries, v14 editsFailed, v15 chores.                        *)

\* The effect of the author's name, whatever is shown next.
LEMMA AuthorFollows ==
    ASSUME "none" \notin Items, Panel!PanelInv, NEW tgt, NEW tb, NEW op, NEW anew,
               Panel!Show(tgt, tb, op, anew)
    PROVE  Panel!AuthorIsTargets'
<1>1. /\ v1' = tgt /\ v2' = tb /\ v3' = op /\ v5' = v5
      /\ Panel!AuthorEffect(tgt, Panel!Detailed(tgt, tb, op), Panel!Detailed(v1, v2, v3))
  BY DEF Panel!Show
<1>2. Panel!Detailed(v1, v2, v3)' <=> Panel!Detailed(tgt, tb, op)
  BY <1>1 DEF Panel!Detailed
<1>3. CASE Panel!Detailed(tgt, tb, op)
  BY <1>1, <1>2, <1>3 DEF Panel!AuthorEffect, Panel!AuthorIsTargets, Panel!PanelInv,
     Panel!Detailed
<1>4. CASE ~Panel!Detailed(tgt, tb, op)
  BY <1>1, <1>2, <1>4 DEF Panel!AuthorEffect, Panel!AuthorIsTargets, Panel!PanelInv
<1> QED
  BY <1>3, <1>4

\* The effect of the edits, whatever is shown next: they are asked for anew, or
\* the target is the same.
LEMMA EditsFollow ==
    ASSUME Panel!PanelInv, NEW tgt, NEW tb, NEW op, NEW anew, Panel!Show(tgt, tb, op, anew),
               anew \/ tgt = v1
    PROVE  /\ Panel!QueriesAreTargets'
           /\ Panel!Edited(v1, v2, v3)' /\ ~v14' /\ (\A q \in v13' : ~q.live) => v12' = v1'
<1> DEFINE on == Panel!Edited(tgt, tb, op)
           was == Panel!Edited(v1, v2, v3)
           dead == {[q EXCEPT !.live = FALSE] : q \in v13}
<1>1. /\ v1' = tgt /\ v2' = tb /\ v3' = op
      /\ Panel!EditsEffect(tgt, on, was, anew)
  BY DEF Panel!Show
<1>2. Panel!Edited(v1, v2, v3)' <=> on
  BY <1>1 DEF Panel!Edited
<1>3. \A q \in dead : q = [of |-> q.of, live |-> q.live] /\ ~q.live
  BY DEF Panel!PanelInv, Panel!QueriesAreTargets
<1>4. CASE on /\ (anew \/ ~was)
  <2>1. v13' = dead \cup {[of |-> tgt, live |-> TRUE]}
    BY <1>1, <1>4 DEF Panel!EditsEffect
  <2>2. [of |-> tgt, live |-> TRUE] \in v13' /\ [of |-> tgt, live |-> TRUE].live
    BY <2>1
  <2>3. Panel!QueriesAreTargets'
    BY <1>1, <1>3, <2>1 DEF Panel!QueriesAreTargets
  <2> QED
    BY <2>2, <2>3
<1>5. CASE on /\ ~anew /\ was
  <2>1. v13' = v13 /\ v12' = v12 /\ (~v14' => ~v14) /\ tgt = v1
    BY <1>1, <1>5 DEF Panel!EditsEffect
  <2> QED
    BY <1>1, <1>5, <2>1 DEF Panel!QueriesAreTargets, Panel!PanelInv, Panel!PanelIsTargets
<1>6. CASE ~on
  <2>1. v13' = {}
    BY <1>1, <1>6 DEF Panel!EditsEffect
  <2> QED
    BY <1>2, <1>6, <2>1 DEF Panel!QueriesAreTargets
<1> QED
  BY <1>4, <1>5, <1>6

\* Whatever the sidebar is made to show, its effects follow.
LEMMA ShowKeeps ==
    ASSUME "none" \notin Items, Panel!PanelInv, NEW tgt, NEW tb, NEW op, NEW anew,
               Panel!Show(tgt, tb, op, anew), anew \/ tgt = v1
    PROVE  Panel!PanelInv'
<1>1. Panel!AuthorIsTargets'
  BY AuthorFollows
<1>2. /\ Panel!QueriesAreTargets'
      /\ Panel!Edited(v1, v2, v3)' /\ ~v14' /\ (\A q \in v13' : ~q.live) => v12' = v1'
  BY EditsFollow
<1> QED
  BY <1>1, <1>2 DEF Panel!PanelInv, Panel!PanelIsTargets, Panel!AuthorIsTargets, Panel!Edited

\* A name that comes is taken by the details that wait for it alone.
LEMMA NameKeeps ==
    ASSUME "none" \notin Items, Panel!PanelInv, NEW i \in Items, NEW as \in
               {"known", "unknown"}, Panel!NameResolved(i, as)
    PROVE  Panel!PanelInv'
<1>1. /\ UNCHANGED <<v1, v2, v3, v13, v12, v14>> /\ v6' = v6 \ {i}
      /\ v5' = [v5 EXCEPT ![i] = as] /\ v7' = (IF v8 = i THEN i ELSE v7)
      /\ v8' = IF v8 = i THEN "none" ELSE v8
  BY DEF Panel!NameResolved, Panel!Named
<1>2. Panel!Detailed(v1, v2, v3)' = Panel!Detailed(v1, v2, v3) /\
          Panel!Edited(v1, v2, v3)' = Panel!Edited(v1, v2, v3)
  BY <1>1 DEF Panel!Detailed, Panel!Edited
<1>3. Panel!AuthorIsTargets'
  BY <1>1, <1>2 DEF Panel!AuthorIsTargets, Panel!PanelInv, Panel!Detailed
<1> QED
  BY <1>1, <1>2, <1>3 DEF Panel!PanelInv, Panel!PanelIsTargets, Panel!QueriesAreTargets,
     Panel!AuthorIsTargets

\* A list of edits that counts is the target's.
LEMMA EditsKeep ==
    ASSUME Panel!PanelInv, NEW q \in v13, Panel!EditsAnswered(q) \/ Panel!EditsFail(q)
    PROVE  Panel!PanelInv'
<1>1. /\ UNCHANGED <<v1, v2, v3, v5, v6, v7, v8>> /\ v13' = v13 \ {q}
      /\ q.live /\ ~v14' => v12' = q.of
      /\ ~q.live => v12' = v12 /\ (~v14' => ~v14)
  <2>1. CASE Panel!EditsAnswered(q)
    BY <2>1 DEF Panel!EditsAnswered
  <2>2. CASE Panel!EditsFail(q)
    BY <2>2, Zenon DEF Panel!EditsFail
  <2> QED
    BY <2>1, <2>2
<1>2. Panel!Detailed(v1, v2, v3)' = Panel!Detailed(v1, v2, v3) /\
          Panel!Edited(v1, v2, v3)' = Panel!Edited(v1, v2, v3)
  BY <1>1 DEF Panel!Detailed, Panel!Edited
<1>3. Panel!AuthorIsTargets' /\ Panel!QueriesAreTargets'
  BY <1>1, <1>2 DEF Panel!AuthorIsTargets, Panel!QueriesAreTargets, Panel!PanelInv
<1>4. (\A r \in v13' : ~r.live) /\ ~q.live => \A r \in v13 : ~r.live
  BY <1>1
<1> QED
  BY <1>1, <1>2, <1>3, <1>4 DEF Panel!PanelInv, Panel!PanelIsTargets, Panel!QueriesAreTargets,
     Panel!AuthorIsTargets

\* What of a step concerns neither the author nor the edits.
LEMMA NothingInPanel ==
    ASSUME Panel!PanelInv, UNCHANGED <<v1, v2, v3, v5, v6, v7, v8, v12, v13, v14>>
    PROVE  Panel!PanelInv'
BY DEF Panel!PanelInv, Panel!PanelIsTargets, Panel!QueriesAreTargets, Panel!AuthorIsTargets,
   Panel!Detailed, Panel!Edited

\* Every step keeps the panel about its target.
LEMMA PanelKept ==
    ASSUME "none" \notin Items, Panel!PanelInv, [Panel!Next]_(Panel!panelVars)
    PROVE  Panel!PanelInv'
<1>1. CASE UNCHANGED Panel!panelVars
    BY <1>1, NothingInPanel DEF Panel!panelVars
<1>2. ASSUME NEW i \in Panel!Targets, \/ \E p \in BOOLEAN : Panel!Navigate(i, p)
                          \/ \E tb \in {"details", "chat", "edits"} : Panel!OpenSidebar(i, tb)
      PROVE Panel!PanelInv'
    BY <1>2, ShowKeeps DEF Panel!Navigate, Panel!OpenSidebar
<1>3. CASE Panel!CloseSidebar \/ \E tb \in {"details", "chat", "edits"} : Panel!SetTab(tb)
    BY <1>3, ShowKeeps DEF Panel!CloseSidebar, Panel!SetTab
<1>4. CASE Panel!BadgeStatus \/ \E c \in
               Panel!ForFolders \cup Panel!ForMaterials : Panel!ChoreDone(c) \/ \E badge \in
                   BOOLEAN : Panel!ChoreFails(c, badge)
    BY <1>4, ShowKeeps DEF Panel!BadgeStatus, Panel!ChoreDone, Panel!ChoreFails
<1>5. CASE \/ \E c \in Panel!ForFolders \cup Panel!ForMaterials : Panel!StartChore(c)
           \/ \E was \in BOOLEAN : Panel!ToggleAttachments(was)
           \/ Panel!RefreshAttachments
           \/ \E i \in Items : \E got \in {i, "none"} : Panel!AttachmentsAnswered(i, got)
    BY <1>5, NothingInPanel DEF Panel!StartChore, Panel!ToggleAttachments,
       Panel!RefreshAttachments, Panel!AttachmentsAnswered
<1> QED
    BY <1>1, <1>2, <1>3, <1>4, <1>5, NameKeeps, EditsKeep DEF Panel!Next

\* It holds at first.
LEMMA PanelStarts == Panel!Init => Panel!PanelInv
    BY DEF Panel!Init, Panel!PanelInv, Panel!PanelIsTargets, Panel!QueriesAreTargets,
       Panel!AuthorIsTargets, Panel!Detailed, Panel!Edited

-----------------------------------------------------------------------------
(* StaffLists: v1 kind, v2 filter, v3 page, v4 cursor, v5 timer, v6 loads, *)
(* v7 loading, v8 listed, v9 of, v10 failed, v11 selected, v12 captured,   *)
(* v13 acts.                                                               *)

\* Requests that have been overtaken no longer count.
LEMMA OvertakenAreWhole ==
    ASSUME Lists!ListsInv
    PROVE  \A q \in Lists!Overtaken : q = [filter |-> q.filter, page |-> q.page, live |-> q.live, act |-> q.act] /\ ~q.live
BY DEF Lists!ListsInv, Lists!CountedAreTheFilters, Lists!Overtaken

\* What was asked for no longer counts, and a timer will ask again.
LEMMA OvertakeKeeps ==
    ASSUME Lists!ListsInv, v6' = Lists!Overtaken, v5' = TRUE, v7' = TRUE, UNCHANGED <<v1, v8, v11>>
    PROVE  Lists!ListsInv'
BY OvertakenAreWhole DEF Lists!ListsInv, Lists!ListIsItsFilters, Lists!CountedAreTheFilters,
   Lists!Refetches, Lists!Ticks

\* The list asks, for its filter or for that of an action's closure.
LEMMA AskKeeps ==
    ASSUME Lists!ListsInv, NEW f, NEW p, NEW act, v6' = Lists!Asking(f, p, act),
               Lists!Refetches \/ v2' = f, v7' = TRUE, UNCHANGED <<v1, v8, v11>>
    PROVE  Lists!ListsInv'
<1> DEFINE new == [filter |-> f, page |-> IF Lists!NamesPage THEN p ELSE 1, live |-> TRUE, act |-> act]
<1>1. v6' = Lists!Overtaken \cup {new}
    BY DEF Lists!Asking
<1>2. new = [filter |-> new.filter, page |-> new.page, live |-> new.live, act |-> new.act] /\
          new.live /\ new.filter = f
    OBVIOUS
<1> HIDE DEF new
<1>3. Lists!CountedAreTheFilters'
    BY <1>1, <1>2, OvertakenAreWhole DEF Lists!ListsInv, Lists!CountedAreTheFilters,
       Lists!Refetches, Lists!Ticks
<1> QED
    BY <1>1, <1>2, <1>3 DEF Lists!ListsInv, Lists!ListIsItsFilters

\* Every step keeps the rows those of the filter.
LEMMA ListsKept ==
    ASSUME Lists!ListsInv, [Lists!Next]_(Lists!listVars)
    PROVE  Lists!ListsInv'
<1>1. CASE UNCHANGED Lists!listVars
    BY <1>1 DEF Lists!ListsInv, Lists!ListIsItsFilters, Lists!CountedAreTheFilters,
       Lists!Refetches, Lists!Ticks, Lists!listVars
<1>2. ASSUME NEW f, Lists!ChangeFilter(f)
      PROVE  Lists!ListsInv'
  <2>1. CASE Lists!Debounced
    BY <1>2, <2>1, OvertakeKeeps DEF Lists!ChangeFilter
  <2>2. CASE ~Lists!Debounced
    BY <1>2, <2>2, AskKeeps DEF Lists!ChangeFilter
  <2> QED
    BY <2>1, <2>2
<1>3. CASE Lists!TimerFires
    BY <1>3, AskKeeps DEF Lists!TimerFires
<1>4. ASSUME NEW p, Lists!Turn(p)
      PROVE  Lists!ListsInv'
    BY <1>4, OvertakeKeeps, AskKeeps DEF Lists!Turn, Lists!TurnContent, Lists!TurnAccounts,
       Lists!TurnQueue
<1>5. ASSUME NEW q \in v6, Lists!LoadFails(q) \/ \E found \in SUBSET Rows : Lists!Answered(q, found)
      PROVE  Lists!ListsInv'
    BY <1>5 DEF Lists!LoadFails, Lists!Answered, Lists!ListsInv, Lists!ListIsItsFilters,
       Lists!CountedAreTheFilters, Lists!Refetches, Lists!Ticks
<1>6. CASE (\E r \in Rows : Lists!Toggle(r)) \/ Lists!ToggleAll \/ Lists!Clear
    BY <1>6 DEF Lists!Toggle, Lists!ToggleAll, Lists!Clear, Lists!Tick, Lists!ListsInv,
       Lists!ListIsItsFilters, Lists!CountedAreTheFilters, Lists!Refetches, Lists!Ticks
<1>7. CASE \/ \E s \in SUBSET Rows : Lists!Act(s) \/ Lists!Ask(s)
           \/ \E yes \in BOOLEAN : Lists!Decide(yes)
           \/ \E a \in v13 : Lists!ActFails(a)
    BY <1>7 DEF Lists!Act, Lists!Ask, Lists!Decide, Lists!ActFails, Lists!ListsInv,
       Lists!ListIsItsFilters, Lists!CountedAreTheFilters, Lists!Refetches, Lists!Ticks
<1>8. ASSUME NEW a \in v13, NEW goes \in BOOLEAN, Lists!ActDone(a, goes)
      PROVE  Lists!ListsInv'
  <2>1. CASE Lists!Patched(a, goes)
    BY <1>8, <2>1 DEF Lists!ActDone, Lists!Patched, Lists!ListsInv, Lists!ListIsItsFilters,
       Lists!CountedAreTheFilters, Lists!Refetches, Lists!Ticks
  <2>2. CASE Lists!Refetched(a)
    BY <1>8, <2>2, AskKeeps DEF Lists!ActDone, Lists!Refetched
  <2> QED
    BY <1>8, <2>1, <2>2 DEF Lists!ActDone
<1> QED
    BY <1>1, <1>2, <1>3, <1>4, <1>5, <1>6, <1>7, <1>8 DEF Lists!Next, Lists!Steps

\* It holds at first.
LEMMA ListsStart == Lists!Init => Lists!ListsInv
<1> SUFFICES ASSUME Lists!Init PROVE Lists!ListsInv
    OBVIOUS
<1> DEFINE first == [filter |-> "all", page |-> 1, live |-> TRUE, act |-> FALSE]
<1>1. first = [filter |-> first.filter, page |-> first.page, live |-> first.live, act |-> first.act] /\ first.live /\ first.filter = "all"
    OBVIOUS
<1>2. /\ v6 = IF Lists!Debounced THEN {} ELSE {first}
      /\ v5 = Lists!Debounced /\ v7 = TRUE /\ v2 = "all" /\ v11 = {}
    BY DEF Lists!Init
<1> HIDE DEF first
<1>3. CASE Lists!Debounced
    BY <1>1, <1>2, <1>3 DEF Lists!ListsInv, Lists!ListIsItsFilters, Lists!CountedAreTheFilters
<1>4. CASE ~Lists!Debounced
    BY <1>1, <1>2, <1>4 DEF Lists!ListsInv, Lists!ListIsItsFilters, Lists!CountedAreTheFilters
<1> QED
    BY <1>3, <1>4
-----------------------------------------------------------------------------
(* DeliveryWorker: v1 atEdge, v2 blob, v3 edge, v4 puts, v5 task, v6 ask,  *)
(* v7 reply, v8 archive.                                                   *)

\* Refusals fit every request.
LEMMA RefusalFits ==
    ASSUME NEW c, NEW s \in Worker!Statuses \ {"200", "206"}
    PROVE  Worker!Fits(c, Worker!Refusal(s))
    BY DEF Worker!Fits, Worker!Refusal, Worker!Reply, Worker!Statuses

\* A whole file fits every request, under the type of the store or of the
\* request's own capability.
LEMMA WholeFits ==
    ASSUME NEW c \in Clients
    PROVE  Worker!Fits(c, Worker!Whole) /\ Worker!Fits(c, Worker!Overridden(c, Worker!Whole))
    BY DEF Worker!Fits, Worker!Whole, Worker!Overridden, Worker!Reply, Worker!Statuses

\* To send a fitting answer keeps the replies and the stages in order.
LEMMA SendingKeeps ==
    ASSUME Worker!WorkerInv, NEW c \in Clients, NEW r, Worker!Fits(c, r), Worker!Send(c, r),
           UNCHANGED v6
    PROVE  Worker!StagesFit' /\ (v7 \in [Clients -> Worker!Reply])' /\ Worker!ServedAsAsked'
<1>1. (v7 \in [Clients -> Worker!Reply])'
    BY DEF Worker!WorkerInv, Worker!Send, Worker!Fits
<1>2. Worker!StagesFit'
    BY DEF Worker!WorkerInv, Worker!StagesFit, Worker!Send
<1>3. ASSUME NEW d \in Clients
      PROVE  v7'[d] = IF d = c THEN r ELSE v7[d]
    BY DEF Worker!WorkerInv, Worker!Send
<1>4. Worker!ServedAsAsked'
  <2> SUFFICES ASSUME NEW d \in Clients
               PROVE  Worker!Fits(d, v7[d])'
    BY DEF Worker!ServedAsAsked, Worker!Fits
  <2>1. CASE d = c
    BY <1>3, <2>1 DEF Worker!Fits
  <2>2. CASE d # c
    BY <1>3, <2>2 DEF Worker!WorkerInv, Worker!ServedAsAsked, Worker!Fits
  <2> QED
    BY <2>1, <2>2
<1> QED
    BY <1>1, <1>2, <1>4

\* To go on to a stage that suits the request keeps them as well.
LEMMA GoingOnKeeps ==
    ASSUME Worker!WorkerInv, NEW c \in Clients, UNCHANGED v6,
           NEW s \in {"match", "get", "getAll", "head", "zip"}, Worker!Go(c, s),
           s = "match" => v6[c].route = "file" /\ v6[c].range = "no",
           s = "zip" => v6[c].route # "file"
    PROVE  Worker!StagesFit' /\ (v7 \in [Clients -> Worker!Reply])' /\ Worker!ServedAsAsked'
<1>1. Worker!StagesFit'
    BY DEF Worker!WorkerInv, Worker!StagesFit, Worker!Go
<1>2. (v7 \in [Clients -> Worker!Reply])' /\ Worker!ServedAsAsked'
    BY DEF Worker!WorkerInv, Worker!Go, Worker!ServedAsAsked
<1> QED
    BY <1>1, <1>2

\* A cache nothing is sent to stays clean.
LEMMA CacheUntouched ==
    ASSUME Worker!CacheIsClean, UNCHANGED <<v3, v4>>
    PROVE  Worker!CacheIsClean'
    BY DEF Worker!CacheIsClean, Worker!Nothing, Worker!Refusal, Worker!Whole

\* So does one that whole files are sent to.
LEMMA CacheFilled ==
    ASSUME Worker!CacheIsClean, NEW k, UNCHANGED v3, v4' \in {v4, v4 \cup {<<k, Worker!Whole>>}}
    PROVE  Worker!CacheIsClean'
    BY DEF Worker!CacheIsClean, Worker!Nothing, Worker!Refusal

\* The initial states satisfy the invariant.
LEMMA WorkerStarts == Worker!Init => Worker!WorkerInv
<1> SUFFICES ASSUME Worker!Init PROVE Worker!WorkerInv
    OBVIOUS
<1>a. \A a \in Worker!Asks : a.key \in Keys
  <2> DEFINE file(k) == [route |-> "file", method |-> "GET", token |-> "valid", key |-> k,
                         range |-> "no", typed |-> FALSE]
  <2> DEFINE ofKey(k) == {file(k)} \cup {[file(k) EXCEPT !.typed = TRUE]}
                   \cup {[file(k) EXCEPT !.range = r] : r \in {"part", "past", "malformed"}}
                   \cup {[file(k) EXCEPT !.token = t] : t \in Worker!Tokens}
                   \cup {[file(k) EXCEPT !.route = r] : r \in Worker!Routes}
                   \cup {[file(k) EXCEPT !.method = m] : m \in {"OPTIONS", "POST"}}
  <2>1. Worker!Asks = UNION {ofKey(k) : k \in Keys}
    BY Zenon DEF Worker!Asks
  <2>2. ASSUME NEW k \in Keys, NEW a \in ofKey(k)
        PROVE  a.key \in Keys
    <3>1. \/ a = file(k) \/ \E t : a = [file(k) EXCEPT !.typed = t]
          \/ \E r : a = [file(k) EXCEPT !.range = r]
          \/ \E t : a = [file(k) EXCEPT !.token = t]
          \/ \E r : a = [file(k) EXCEPT !.route = r]
          \/ \E m : a = [file(k) EXCEPT !.method = m]
      BY <2>2, Zenon
    <3> QED
      BY <3>1
  <2> HIDE DEF ofKey
  <2> QED
    BY <2>1, <2>2
<1>1. Worker!CacheIsClean /\ Worker!StagesFit
    BY <1>a DEF Worker!Init, Worker!CacheIsClean, Worker!StagesFit
<1>2. Worker!Nothing \in Worker!Reply /\ Worker!Nothing.typed = "store"
      /\ Worker!Nothing.status = "none"
    BY DEF Worker!Nothing, Worker!Refusal, Worker!Reply, Worker!Statuses
<1>3. v7 \in [Clients -> Worker!Reply] /\ Worker!ServedAsAsked
    BY <1>2 DEF Worker!Init, Worker!ServedAsAsked
<1> QED
    BY <1>1, <1>3 DEF Worker!WorkerInv

\* A request arrives: it is refused, or goes on to a stage that suits it.
LEMMA ArriveKeeps ==
    ASSUME Worker!WorkerInv, NEW c \in Clients, Worker!Arrive(c)
    PROVE  Worker!WorkerInv'
<1>1. Worker!CacheIsClean'
    BY CacheUntouched DEF Worker!Arrive, Worker!WorkerInv
<1>2. UNCHANGED v6
    BY DEF Worker!Arrive
<1>3. ASSUME NEW s \in {"204", "400", "401", "403", "404", "405", "416"}, Worker!Refuse(c, s)
      PROVE  Worker!WorkerInv'
    BY <1>1, <1>2, <1>3, RefusalFits, SendingKeeps DEF Worker!Refuse, Worker!Statuses,
          Worker!WorkerInv
<1>4. ASSUME NEW s \in {"get", "getAll"}, Worker!Go(c, s)
      PROVE  Worker!WorkerInv'
    BY <1>1, <1>2, <1>4, GoingOnKeeps DEF Worker!WorkerInv
<1>5. CASE v6[c].route = "file" /\ v6[c].range = "no" /\ Worker!Go(c, "match")
    BY <1>1, <1>2, <1>5, GoingOnKeeps DEF Worker!WorkerInv
<1>6. CASE v6[c].route # "file" /\ Worker!Go(c, "zip")
    BY <1>1, <1>2, <1>6, GoingOnKeeps DEF Worker!WorkerInv
<1>7. CASE v6[c].route = "file" /\ Worker!FileRequest(c)
    BY <1>3, <1>4, <1>5, <1>7 DEF Worker!FileRequest
<1> QED
    BY <1>3, <1>4, <1>6, <1>7 DEF Worker!Arrive

\* A whole file, fresh from the store, is sent and perhaps kept.
LEMMA WholeKeeps ==
    ASSUME Worker!WorkerInv, NEW c \in Clients, UNCHANGED <<v6, v3>>,
           Worker!Send(c, Worker!Overridden(c, Worker!Whole)),
           v4' \in {v4, v4 \cup {<<v6[c].key, Worker!Whole>>}}
    PROVE  Worker!WorkerInv'
<1>1. Worker!CacheIsClean'
    BY CacheFilled DEF Worker!WorkerInv
<1>2. Worker!Fits(c, Worker!Overridden(c, Worker!Whole))
    BY WholeFits
<1>3. Worker!StagesFit' /\ (v7 \in [Clients -> Worker!Reply])' /\ Worker!ServedAsAsked'
    BY <1>2, SendingKeeps
<1> QED
    BY <1>1, <1>3 DEF Worker!WorkerInv

\* A refusal or a further read changes neither replies nor cache for the worse.
LEMMA QuietStepsKeep ==
    ASSUME Worker!WorkerInv, NEW c \in Clients, UNCHANGED <<v6, v3, v4>>,
           \/ \E s \in {"404", "416", "500", "502"} : Worker!Refuse(c, s)
           \/ \E s \in {"get", "getAll", "head"} : Worker!Go(c, s)
    PROVE  Worker!WorkerInv'
<1>1. Worker!CacheIsClean'
    BY CacheUntouched DEF Worker!WorkerInv
<1>2. ASSUME NEW s \in {"404", "416", "500", "502"}, Worker!Refuse(c, s)
      PROVE  Worker!WorkerInv'
    BY <1>1, <1>2, RefusalFits, SendingKeeps DEF Worker!Refuse, Worker!Statuses,
          Worker!WorkerInv
<1>3. ASSUME NEW s \in {"get", "getAll", "head"}, Worker!Go(c, s)
      PROVE  Worker!WorkerInv'
    BY <1>1, <1>3, GoingOnKeeps DEF Worker!WorkerInv
<1> QED
    BY <1>2, <1>3

\* The cache is asked: what it holds is whole, and so is what was asked for.
LEMMA MatchKeeps ==
    ASSUME Worker!WorkerInv, NEW c \in Clients, Worker!MatchCache(c)
    PROVE  Worker!WorkerInv'
<1>1. CASE Worker!Go(c, "get")
    BY <1>1, QuietStepsKeep DEF Worker!MatchCache
<1>2. CASE v3[v6[c].key] # Worker!Nothing /\ Worker!Send(c, Worker!Overridden(c, v3[v6[c].key]))
  <2>1. v3[v6[c].key] = Worker!Whole
    BY <1>2 DEF Worker!WorkerInv, Worker!CacheIsClean, Worker!StagesFit
  <2> QED
    BY <1>2, <2>1, WholeKeeps DEF Worker!MatchCache
<1> QED
    BY <1>1, <1>2 DEF Worker!MatchCache

\* A file is read: whole and plain, in ranged, or not at all.  A part is no
\* whole file and stays out of the cache.
LEMMA GetKeeps ==
    ASSUME Worker!WorkerInv, NEW c \in Clients, Worker!Get(c)
    PROVE  Worker!WorkerInv'
<1> DEFINE ranged == [Worker!Whole EXCEPT !.status = "206", !.whole = FALSE]
<1>1. UNCHANGED <<v6, v3>>
    BY DEF Worker!Get
<1>2. ASSUME UNCHANGED v4,
             \/ \E s \in {"404", "416", "500", "502"} : Worker!Refuse(c, s)
             \/ \E s \in {"get", "getAll", "head"} : Worker!Go(c, s)
      PROVE  Worker!WorkerInv'
    BY <1>1, <1>2, QuietStepsKeep
<1>3. CASE v6[c].range = "part" /\ Worker!Send(c, Worker!Overridden(c, ranged))
      /\ v4' = v4 \cup Worker!Kept(c, ranged)
  <2>1. Worker!CacheIsClean'
    BY <1>1, <1>3, CacheUntouched DEF Worker!Kept, Worker!WorkerInv
  <2>2. Worker!Fits(c, Worker!Overridden(c, ranged))
    BY <1>3 DEF Worker!Fits, Worker!Overridden, Worker!Whole, Worker!Reply, Worker!Statuses
  <2>3. Worker!StagesFit' /\ (v7 \in [Clients -> Worker!Reply])' /\ Worker!ServedAsAsked'
    BY <1>1, <1>3, <2>2, SendingKeeps
  <2> QED
    BY <2>1, <2>3 DEF Worker!WorkerInv
<1>4. CASE Worker!Send(c, Worker!Overridden(c, Worker!Whole)) /\ v4' = v4 \cup Worker!Kept(c,
      Worker!Whole)
    BY <1>1, <1>4, WholeKeeps DEF Worker!Kept
<1> QED
    BY <1>2, <1>3, <1>4 DEF Worker!Get

\* A compressed file is read as a whole for a range.
LEMMA GetAllKeeps ==
    ASSUME Worker!WorkerInv, NEW c \in Clients, Worker!GetAll(c)
    PROVE  Worker!WorkerInv'
<1>1. CASE Worker!Refuse(c, "404") /\ UNCHANGED v4
    BY <1>1, QuietStepsKeep DEF Worker!GetAll
<1>2. CASE Worker!Send(c, Worker!Overridden(c, Worker!Whole)) /\ v4' \in {v4,
      v4 \cup {<<v6[c].key, Worker!Whole>>}}
    BY <1>2, WholeKeeps DEF Worker!GetAll
<1> QED
    BY <1>1, <1>2 DEF Worker!GetAll

\* Answers to other routes say nothing of files.
LEMMA OtherRoutesKeep ==
    ASSUME Worker!WorkerInv, NEW c \in Clients, Worker!GetBranding(c) \/ Worker!EndArchive(c)
    PROVE  Worker!WorkerInv'
<1>1. UNCHANGED <<v6, v3, v4>> /\ v6[c].route # "file"
    BY DEF Worker!GetBranding, Worker!EndArchive, Worker!WorkerInv, Worker!StagesFit
<1>2. CASE Worker!Refuse(c, "404")
    BY <1>1, <1>2, QuietStepsKeep
<1>3. ASSUME NEW r \in Worker!Reply, r.typed = "store", Worker!Send(c, r)
      PROVE  Worker!WorkerInv'
  <2>1. Worker!Fits(c, r)
    BY <1>1, <1>3 DEF Worker!Fits
  <2>2. Worker!CacheIsClean'
    BY <1>1, CacheUntouched DEF Worker!WorkerInv
  <2>3. Worker!StagesFit' /\ (v7 \in [Clients -> Worker!Reply])' /\ Worker!ServedAsAsked'
    BY <1>1, <1>3, <2>1, SendingKeeps
  <2> QED
    BY <2>2, <2>3 DEF Worker!WorkerInv
<1>4. CASE Worker!GetBranding(c)
  <2>1. ASSUME NEW d \in BOOLEAN
        PROVE  [Worker!Whole EXCEPT !.decoded = d] \in Worker!Reply
               /\ [Worker!Whole EXCEPT !.decoded = d].typed = "store"
    BY DEF Worker!Whole, Worker!Reply, Worker!Statuses
  <2>2. PICK d \in BOOLEAN : Worker!Refuse(c, "404") \/ Worker!Send(c,
        [Worker!Whole EXCEPT !.decoded = d])
    BY <1>4, Zenon DEF Worker!GetBranding
  <2> QED
    BY <1>2, <1>3, <2>1, <2>2
<1>5. CASE Worker!EndArchive(c)
  <2>1. ASSUME NEW w \in BOOLEAN
        PROVE  [Worker!Whole EXCEPT !.whole = w] \in Worker!Reply
               /\ [Worker!Whole EXCEPT !.whole = w].typed = "store"
    BY DEF Worker!Whole, Worker!Reply, Worker!Statuses
  <2>2. PICK w \in BOOLEAN : Worker!Send(c, [Worker!Whole EXCEPT !.whole = w])
    BY <1>5, Zenon DEF Worker!EndArchive
  <2> QED
    BY <1>3, <2>1, <2>2
<1> QED
    BY <1>4, <1>5

\* Puts that end, evictions, rewrites and entries of archives touch no reply.
LEMMA BackgroundKeeps ==
    ASSUME Worker!WorkerInv,
           \/ \E p \in v4 : Worker!Put(p)
           \/ \E k \in Keys : Worker!Evict(k) \/ (\E b \in {"absent", "plain",
              "gzip"} : Worker!Rewrite(k, b))
           \/ \E c \in Clients, k \in Keys : Worker!StreamEntry(c, k)
           \/ UNCHANGED Worker!workerVars
    PROVE  Worker!WorkerInv'
<1>1. UNCHANGED <<v5, v6, v7>>
    BY DEF Worker!Put, Worker!Evict, Worker!Rewrite, Worker!StreamEntry, Worker!workerVars
<1>2. Worker!StagesFit' /\ (v7 \in [Clients -> Worker!Reply])' /\ Worker!ServedAsAsked'
    BY <1>1 DEF Worker!WorkerInv, Worker!StagesFit, Worker!ServedAsAsked
<1>3. Worker!CacheIsClean'
  <2>1. ASSUME NEW p \in v4, Worker!Put(p) PROVE Worker!CacheIsClean'
    BY <2>1 DEF Worker!Put, Worker!WorkerInv, Worker!CacheIsClean, Worker!Nothing,
          Worker!Refusal
  <2>2. ASSUME NEW k \in Keys, Worker!Evict(k) PROVE Worker!CacheIsClean'
    BY <2>2 DEF Worker!Evict, Worker!WorkerInv, Worker!CacheIsClean, Worker!Whole
  <2>3. ASSUME UNCHANGED <<v3, v4>> PROVE Worker!CacheIsClean'
    BY <2>3, CacheUntouched DEF Worker!WorkerInv
  <2> QED
    BY <2>1, <2>2, <2>3 DEF Worker!Rewrite, Worker!StreamEntry, Worker!workerVars
<1> QED
    BY <1>2, <1>3 DEF Worker!WorkerInv

\* Every step of the worker, of the store and of the cache keeps the invariant.
LEMMA WorkerKept == Worker!WorkerInv /\ [Worker!Next]_(Worker!workerVars) => Worker!WorkerInv'
<1> SUFFICES ASSUME Worker!WorkerInv, [Worker!Next]_(Worker!workerVars)
             PROVE  Worker!WorkerInv'
    OBVIOUS
<1>1. ASSUME NEW c \in Clients, Worker!RangeIgnored(c) \/ Worker!Head(c) \/ Worker!ReadFails(c)
      PROVE  Worker!WorkerInv'
  <2>1. UNCHANGED <<v6, v3, v4>> /\ \E s \in {"404", "416", "500", "502"} : Worker!Refuse(c, s)
    BY <1>1 DEF Worker!RangeIgnored, Worker!Head, Worker!ReadFails
  <2> QED
    BY <2>1, QuietStepsKeep
<1>2. ASSUME NEW c \in Clients,
             \/ Worker!Arrive(c) \/ Worker!MatchCache(c) \/ Worker!Get(c) \/ Worker!GetAll(c)
                \/ Worker!GetBranding(c) \/ Worker!EndArchive(c)
      PROVE  Worker!WorkerInv'
    BY <1>2, ArriveKeeps, MatchKeeps, GetKeeps, GetAllKeeps, OtherRoutesKeep
<1> QED
    BY <1>1, <1>2, BackgroundKeeps DEF Worker!Next

\* Who asks for a file is sent what was asked for, whatever answers to others
\* left in the cache of the edge and however objects change in between.
THEOREM ServedWell == Worker!Spec => []Worker!ServedAsAsked
<1>1. Worker!WorkerInv => Worker!ServedAsAsked
    BY DEF Worker!WorkerInv
<1> QED
    BY WorkerStarts, WorkerKept, <1>1, PTL DEF Worker!Spec
=============================================================================
