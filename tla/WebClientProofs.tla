--------------------------- MODULE WebClientProofs --------------------------
(***************************************************************************)
(* What holds in every part of the web client and of the delivery worker,  *)
(* for every value of the constants. The parts are those of MCWebClient,   *)
(* which runs each of them alone: a step of the run is a step of its part, *)
(* or a stutter, and an invariant of a part, kept by its steps as the      *)
(* lemmas of the groups say, is one of the run.                            *)
(***************************************************************************)
EXTENDS MCWebClient, ContributingPartsProofs, BrowsingPartsProofs, BrowsingTypes
-----------------------------------------------------------------------------
(* The parts and the run.                                                  *)

\* No step leaves its part.
LEMMA PartStays == [Next]_vars => part' = part
    BY DEF Next, vars, SessionStep, RoutingStep, EventsStep, TransferStep, QueueStep,
       DraftStep, TreeStep, BrowseStep, PullsStep, SearchStep, WorkerStep, ViewerStep,
       ThumbsStep, ReactionsStep, PanelStep, MenuStep, ListsStep, SystemStep, QuizStep,
       DiscussStep, NoticesStep, SavedStep, FormsStep, AccountStep, EditingStep, PendingStep,
       ListingStep

\* A step of the run is one of its part, or leaves its variables alone.
LEMMA OwnSteps ==
    ASSUME [Next]_vars
    PROVE  /\ part = "session" => [Session!Next]_(Session!sessionVars)
           /\ part = "routing" => [Routing!Next]_(Routing!routingVars)
           /\ part = "transfer" => [Transfer!Next]_(Transfer!transferVars)
           /\ part = "worker" => [Worker!Next]_(Worker!workerVars)
           /\ part = "forms" => [Forms!Next]_(Forms!formVars)
           /\ part = "browse" => [Browse!Next]_(Browse!browseVars)
           /\ part = "thumbs" => [Thumbs!Next]_(Thumbs!thumbVars)
           /\ part = "queue" => [Queue!Next]_(Queue!queueVars)
           /\ part = "menu" => [Menu!Next]_(Menu!menuVars)
           /\ part = "system" => [System!Next]_(System!systemVars)
           /\ part = "quiz" => [Quiz!Next]_(Quiz!quizVars)
           /\ part = "pulls" => [Pulls!Next]_(Pulls!pullVars)
           /\ part = "search" => [Search!Next]_(Search!searchVars)
           /\ part = "tree" => [Tree!Next]_(Tree!treeVars)
           /\ part = "listing" => [Listing!Next]_(Listing!listingVars)
           /\ part = "pending" => [Pending!Next]_(Pending!pendingVars)
           /\ part = "reactions" => [Reactions!Next]_(Reactions!likeVars)
           /\ part = "discuss" => [Discuss!Next]_(Discuss!discussVars)
           /\ part = "events" => [Events!Next]_(Events!eventVars)
           /\ part = "viewer" => [Viewer!Next]_(Viewer!viewerVars)
           /\ part = "panel" => [Panel!Next]_(Panel!panelVars)
           /\ part = "lists" => [Lists!Next]_(Lists!listVars)
           /\ part = "notices" => [Notices!Next]_(Notices!notificationVars)
           /\ part = "saved" => [Saved!Next]_(Saved!savedVars)
           /\ part = "account" => [Account!Next]_(Account!accountVars)
           /\ part = "editing" => [Editing!Next]_(Editing!editVars)
           /\ part = "draft" => [Draft!Next]_(Draft!draftVars)
<1> USE DEF Next, vars, SessionStep, RoutingStep, EventsStep, TransferStep, QueueStep,
       DraftStep, TreeStep, BrowseStep, PullsStep, SearchStep, WorkerStep, ViewerStep,
       ThumbsStep, ReactionsStep, PanelStep, MenuStep, ListsStep, SystemStep, QuizStep,
       DiscussStep, NoticesStep, SavedStep, FormsStep, AccountStep, EditingStep, PendingStep,
       ListingStep
<1>1. part = "session" => [Session!Next]_(Session!sessionVars)
    BY DEF Session!sessionVars
<1>2. part = "routing" => [Routing!Next]_(Routing!routingVars)
    BY DEF Routing!routingVars
<1>3. part = "transfer" => [Transfer!Next]_(Transfer!transferVars)
    BY DEF Transfer!transferVars
<1>4. part = "worker" => [Worker!Next]_(Worker!workerVars)
    BY DEF Worker!workerVars
<1>5. part = "forms" => [Forms!Next]_(Forms!formVars)
    BY DEF Forms!formVars
<1>6. part = "browse" => [Browse!Next]_(Browse!browseVars)
    BY DEF Browse!browseVars
<1>7. part = "thumbs" => [Thumbs!Next]_(Thumbs!thumbVars)
    BY DEF Thumbs!thumbVars
<1>8. part = "queue" => [Queue!Next]_(Queue!queueVars)
    BY DEF Queue!queueVars
<1>9. part = "menu" => [Menu!Next]_(Menu!menuVars)
    BY DEF Menu!menuVars
<1>10. part = "system" => [System!Next]_(System!systemVars)
    BY DEF System!systemVars
<1>11. part = "quiz" => [Quiz!Next]_(Quiz!quizVars)
    BY DEF Quiz!quizVars
<1>12. part = "pulls" => [Pulls!Next]_(Pulls!pullVars)
    BY DEF Pulls!pullVars
<1>13. part = "search" => [Search!Next]_(Search!searchVars)
    BY DEF Search!searchVars
<1>14. part = "tree" => [Tree!Next]_(Tree!treeVars)
    BY DEF Tree!treeVars
<1>15. part = "listing" => [Listing!Next]_(Listing!listingVars)
    BY DEF Listing!listingVars
<1>16. part = "pending" => [Pending!Next]_(Pending!pendingVars)
    BY DEF Pending!pendingVars
<1>17. part = "reactions" => [Reactions!Next]_(Reactions!likeVars)
    BY DEF Reactions!likeVars
<1>18. part = "discuss" => [Discuss!Next]_(Discuss!discussVars)
    BY DEF Discuss!discussVars
<1>19. part = "events" => [Events!Next]_(Events!eventVars)
    BY DEF Events!eventVars
<1>20. part = "viewer" => [Viewer!Next]_(Viewer!viewerVars)
    BY DEF Viewer!viewerVars
<1>21. part = "panel" => [Panel!Next]_(Panel!panelVars)
    BY DEF Panel!panelVars
<1>22. part = "lists" => [Lists!Next]_(Lists!listVars)
    BY DEF Lists!listVars
<1>23. part = "notices" => [Notices!Next]_(Notices!notificationVars)
    BY DEF Notices!notificationVars
<1>24. part = "saved" => [Saved!Next]_(Saved!savedVars)
    BY DEF Saved!savedVars
<1>25. part = "account" => [Account!Next]_(Account!accountVars)
    BY DEF Account!accountVars
<1>26. part = "editing" => [Editing!Next]_(Editing!editVars)
    BY DEF Editing!editVars, Editing!Server, Editing!Form, Editing!Reading, Editing!Picking,
       Editing!Sent
<1>27. part = "draft" => [Draft!Next]_(Draft!draftVars)
    BY DEF Draft!draftVars
<1> QED
    BY <1>1, <1>2, <1>3, <1>4, <1>5, <1>6, <1>7, <1>8, <1>9, <1>10, <1>11, <1>12, <1>13, <1>14,
       <1>15, <1>16, <1>17, <1>18, <1>19, <1>20, <1>21, <1>22, <1>23, <1>24, <1>25, <1>26, <1>27

-----------------------------------------------------------------------------
(* The delivery worker, and the tokens of the session.                     *)

\* A client that asked for a whole file is sent the whole of it, under the
\* capability it showed, whatever the cache of the edge holds and forgets.
THEOREM WholeFilesAreServed == Spec => []ServedAsAsked
<1>1. (part = "worker" => Worker!WorkerInv) => ServedAsAsked
    BY DEF ServedAsAsked, Worker!WorkerInv
<1>2. Init => (part = "worker" => Worker!WorkerInv)
    BY WorkerStarts DEF Init
<1>3. (part = "worker" => Worker!WorkerInv) /\ [Next]_vars
      => (part = "worker" => Worker!WorkerInv)'
    BY WorkerKept, PartStays, OwnSteps
<1> QED
    BY <1>1, <1>2, <1>3, PTL DEF Spec

\* A tab with a token has the timer of its renewal armed, or a renewal under way.
THEOREM TokensHaveRenewals == Spec => []TokenIsTended
<1>1. (part = "session" => Session!TendedInv) => TokenIsTended
    BY TendedFits DEF TokenIsTended
<1>2. Init => (part = "session" => Session!TendedInv)
    BY TendedStarts DEF Init
<1>3. (part = "session" => Session!TendedInv) /\ [Next]_vars
      => (part = "session" => Session!TendedInv)'
    BY TendedKept, PartStays, OwnSteps, FailuresAreKnown
<1> QED
    BY <1>1, <1>2, <1>3, PTL DEF Spec

-----------------------------------------------------------------------------
(* ClientRouting.                                                          *)

\* The redirects of the shell, the provider, the guard and the pages never send
\* a visitor round in circles: after three of them he is at rest.
THEOREM VisitorsComeToRest == Spec => []RedirectsSettle
<1>1. (part = "routing" => Routing!RoutingInv) => RedirectsSettle
    BY NoneAheadRests, HopsSuffice DEF RedirectsSettle
<1>2. Init => (part = "routing" => Routing!RoutingInv)
    BY RoutingStarts, HopsSuffice DEF Init
<1>3. (part = "routing" => Routing!RoutingInv) /\ [Next]_vars
      => (part = "routing" => Routing!RoutingInv)'
    BY RoutingKept, PartStays, OwnSteps, HopsSuffice
<1> QED
    BY <1>1, <1>2, <1>3, PTL DEF Spec

\* The page a visitor comes to rest on, with its content, is one that his
\* account may use.
THEOREM RestingPagesAreAllowed == Spec => []RestIsAllowed
<1>1. (part = "routing" => Routing!RoutingInv) => RestIsAllowed
    BY RestFits DEF RestIsAllowed
<1>2. Init => (part = "routing" => Routing!RoutingInv)
    BY RoutingStarts, HopsSuffice DEF Init
<1>3. (part = "routing" => Routing!RoutingInv) /\ [Next]_vars
      => (part = "routing" => Routing!RoutingInv)'
    BY RoutingKept, PartStays, OwnSteps, HopsSuffice
<1> QED
    BY <1>1, <1>2, <1>3, PTL DEF Spec

-----------------------------------------------------------------------------
(* UploadTransfer.                                                         *)

\* Whatever is lost, retried or cancelled, the client asks the server to remove
\* no upload that the server may have completed.
THEOREM CompletedUploadsStay == Spec => []CommittedIsKept
<1>1. (part = "transfer" => Transfer!TransferInv) => CommittedIsKept
    BY DEF CommittedIsKept, Transfer!TransferInv, Transfer!CommittedIsKept,
           Transfer!WithdrawalEndsCall
<1>2. Init => (part = "transfer" => Transfer!TransferInv)
    BY TransferStarts DEF Init
<1>3. (part = "transfer" => Transfer!TransferInv) /\ [Next]_vars
      => (part = "transfer" => Transfer!TransferInv)'
    BY TransferKept, PartStays, OwnSteps
<1> QED
    BY <1>1, <1>2, <1>3, PTL DEF Spec

-----------------------------------------------------------------------------
(* SignInForms.                                                            *)

\* A challenge with a grant is not in Redis any more, and in no call.
THEOREM NoCredentialIsUsedTwice == Spec => []CredentialsAreUsedOnce
<1> DEFINE CredentialsInv == /\ part = "session" => Session!CookieInv
                             /\ part = "forms" => Forms!FormsInv
<1>1. CredentialsInv => CredentialsAreUsedOnce
    BY CookiesFit DEF CredentialsAreUsedOnce, Forms!FormsInv
<1>2. Init => CredentialsInv
    BY CookiesStart, FormsStart, BoundsAreNumbers DEF Init
<1>3. CredentialsInv /\ [Next]_vars => CredentialsInv'
    BY CookiesKept, FormsKept, PartStays, OwnSteps, FailuresAreKnown, BoundsAreNumbers
<1> QED
    BY <1>1, <1>2, <1>3, PTL DEF Spec

-----------------------------------------------------------------------------
(* BrowsePage.                                                             *)

\* A request that an event overtook never puts its old answer back into the
\* cache: the listing a page shows from the cache is old only while an event
\* about it is on its way.
THEOREM CacheFollowsEvents == Spec => []CachedIsPostEvent
<1>1. (part = "browse" => Browse!BrowseInv) => CachedIsPostEvent
    BY DEF CachedIsPostEvent, Browse!BrowseInv
<1>2. Init => (part = "browse" => Browse!BrowseInv)
    BY BrowseStarts DEF Init
<1>3. (part = "browse" => Browse!BrowseInv) /\ [Next]_vars
      => (part = "browse" => Browse!BrowseInv)'
    BY BrowseKept, PartStays, OwnSteps
<1> QED
    BY <1>1, <1>2, <1>3, PTL DEF Spec

-----------------------------------------------------------------------------
(* MaterialThumbnails.                                                     *)

\* A card that listens never goes back behind a thumbnail the server said it
\* had made, however many requests share the bounded queue.
THEOREM NoThumbnailFromBefore == Spec => []NoneOlderThanTold
<1>1. (part = "thumbs" => Thumbs!ThumbsInv) => NoneOlderThanTold
    BY DEF NoneOlderThanTold, Thumbs!ThumbsInv
<1>2. Init => (part = "thumbs" => Thumbs!ThumbsInv)
    BY ThumbsStart DEF Init
<1>3. (part = "thumbs" => Thumbs!ThumbsInv) /\ [Next]_vars
      => (part = "thumbs" => Thumbs!ThumbsInv)'
    BY ThumbsKept, PartStays, OwnSteps
<1> QED
    BY <1>1, <1>2, <1>3, PTL DEF Spec

-----------------------------------------------------------------------------
(* UploadQueue.                                                            *)

\* However pauses, removals, reloads and verdicts fall, activeCount counts no
\* run that is not there: the queue never stops for a slot nobody gives back.
THEOREM SlotsComeBack == Spec => []NoSlotIsLost
<1>1. (part = "queue" => Queue!QueueInv) => NoSlotIsLost
    BY SlotsAreRuns, FewAtATime DEF NoSlotIsLost
<1>2. Init => (part = "queue" => Queue!QueueInv)
    BY QueueStarts, FewAtATime DEF Init
<1>3. (part = "queue" => Queue!QueueInv) /\ [Next]_vars
      => (part = "queue" => Queue!QueueInv)'
    BY QueueKept, PartStays, OwnSteps, FewAtATime
<1> QED
    BY <1>1, <1>2, <1>3, PTL DEF Spec

-----------------------------------------------------------------------------
(* ItemMenu.                                                               *)

\* A folder whose row is gone, before its chunks were answered or between two
\* of its archives, has no further archive of several downloaded, even when the
\* row is back and downloads the folder again: the ref of the visit stays set.
THEOREM GoneRowsStopArchives == Spec => ZipStopsWithItem
<1>1. Init => (part = "menu" => Menu!MenuInv)
  <2>1. Menu!Init => Menu!MenuInv
    BY MenuBounds DEF Menu!Init, Menu!MenuInv, Menu!Visits, Menu!Zipped, Menu!NoZip
  <2> QED
    BY <2>1 DEF Init
<1>2. (part = "menu" => Menu!MenuInv) /\ [Next]_vars => (part = "menu" => Menu!MenuInv)'
    BY MenuKept, PartStays, OwnSteps
<1>3. (part = "menu" => Menu!MenuInv) /\ [Next]_vars => [part = "menu" => Menu!NoFurtherArchive]_vars
    BY NoArchiveOfTheGone, OwnSteps
<1> QED
    BY <1>1, <1>2, <1>3, PTL DEF Spec, ZipStopsWithItem

-----------------------------------------------------------------------------
(* StaffSystem.                                                            *)

\* What a row or an upload names is stored, however old the scan is whose
\* result the staff member confirms, and whoever stores an object and names it
\* between the look of a deletion at its key and the deletion.
THEOREM NamedStaysStored == Spec => []NamedIsStored
<1>1. Init => (part = "system" => System!PruneInv)
  <2>1. System!Init => System!PruneInv
    BY DEF System!Init, System!PruneInv
  <2> QED
    BY <2>1 DEF Init
<1>2. (part = "system" => System!PruneInv) /\ [Next]_vars => (part = "system" => System!PruneInv)'
    BY PruneKept, PartStays, OwnSteps
<1>3. (part = "system" => System!PruneInv) => NamedIsStored
    BY DEF NamedIsStored, System!NamedIsStored, System!PruneInv
<1> QED
    BY <1>1, <1>2, <1>3, PTL DEF Spec

-----------------------------------------------------------------------------
(* QuizPages.                                                              *)

\* A viewer of a quiz is of its file in every reachable state.
LEMMA QuizzesAreTheirFiles == Spec => [](part = "quiz" => Quiz!QuizInv)
<1>1. Init => (part = "quiz" => Quiz!QuizInv)
  <2>1. Quiz!Init => Quiz!QuizInv
    <3> SUFFICES ASSUME Quiz!Init PROVE Quiz!QuizInv
        OBVIOUS
    <3>1. v13 = 1 /\ v11 = {}
        BY DEF Quiz!Init
    <3>2. v15 <=> v1 = "page"
        BY DEF Quiz!Init
    <3>3. v1 = "editor" => v14 = {}
        BY DEF Quiz!Init
    <3> QED
        BY <3>1, <3>2, <3>3 DEF Quiz!QuizInv, Quiz!QuizIsItsFile, Quiz!Editing
  <2> QED
    BY <2>1 DEF Init
<1>2. (part = "quiz" => Quiz!QuizInv) /\ [Next]_vars => (part = "quiz" => Quiz!QuizInv)'
    BY QuizKept, PartStays, OwnSteps
<1> QED
    BY <1>1, <1>2, PTL DEF Spec

\* Once a quiz has an answer, neither a late image nor an imported quiz nor a
\* late file replaces what is shown, and no answer is forgotten.
THEOREM AnswersOutliveImports == Spec => AnswersAreKept
<1>1. (part = "quiz" => Quiz!QuizInv) /\ [Next]_vars => [part = "quiz" => Quiz!AnswersStay]_vars
    BY NoAnswerIsForgotten, OwnSteps
<1> QED
    BY <1>1, QuizzesAreTheirFiles, PTL DEF Spec, AnswersAreKept

-----------------------------------------------------------------------------
\* Removing a staged folder from the draft removes what is staged inside it, in
\* folders nested however deep, so that no operation that is left puts something
\* into a folder that was removed.
THEOREM RemovalsTakeContents == Spec => RemovalTakesContents
<1>1. Init => (part = "draft" => Draft!DraftInv)
    BY DraftInit DEF Init
<1>2. (part = "draft" => Draft!DraftInv) /\ [Next]_vars => (part = "draft" => Draft!DraftInv)'
    BY DraftKept, PartStays, OwnSteps
<1>3. (part = "draft" => Draft!DraftInv) /\ [Next]_vars => [part = "draft" => Draft!ContentsGo]_vars
    BY DraftKept, OwnSteps
<1> QED
    BY <1>1, <1>2, <1>3, PTL DEF Spec, RemovalTakesContents

-----------------------------------------------------------------------------
(* PullRequestPages.                                                       *)

\* A decision a page of a pull request shows is the one the server has made,
\* whoever decided meanwhile and whichever page its request outlived.
THEOREM DecisionsShownWereMade == Spec => []ShownIsDecided
<1>1. Init => (part = "pulls" => Pulls!PullsInv)
    BY PullsStart DEF Init
<1>2. (part = "pulls" => Pulls!PullsInv) /\ [Next]_vars => (part = "pulls" => Pulls!PullsInv)'
    BY PullsKept, PartStays, OwnSteps
<1>3. (part = "pulls" => Pulls!PullsInv) => ShownIsDecided
    BY DEF Pulls!PullsInv, ShownIsDecided
<1> QED
    BY <1>1, <1>2, <1>3, PTL DEF Spec

-----------------------------------------------------------------------------
(* SearchPages.                                                            *)

\* What a search waits for is what its user asked, in every reachable state.
LEMMA SearchIsForOnesQuery == Spec => [](part = "search" => Search!SearchInv)
<1>1. Init => (part = "search" => Search!SearchInv)
    BY SearchStarts, BoundsAreNumbers DEF Init
<1>2. (part = "search" => Search!SearchInv) /\ [Next]_vars => (part = "search" => Search!SearchInv)'
    BY SearchKept, PartStays, OwnSteps, BoundsAreNumbers
<1> QED
    BY <1>1, <1>2, PTL DEF Spec

\* Only a page past the end of what this very search finds is led back from,
\* whatever was searched for, filtered and answered before.
THEOREM CorrectionsAreDue == Spec => []OnlyPastTheEndIsCorrected
<1>1. (part = "search" => Search!SearchInv) => OnlyPastTheEndIsCorrected
    BY DEF Search!SearchInv, OnlyPastTheEndIsCorrected
<1> QED
    BY <1>1, SearchIsForOnesQuery, PTL

-----------------------------------------------------------------------------
(* DirectoryTree.                                                          *)

\* An open folder of the tree is tended in every reachable state.
LEMMA TreeIsTended == Spec => [](part = "tree" => Tree!TreeInv)
<1>1. Init => (part = "tree" => Tree!TreeInv)
    BY TreeStarts DEF Init
<1>2. (part = "tree" => Tree!TreeInv) /\ [Next]_vars => (part = "tree" => Tree!TreeInv)'
    BY TreeKept, PartStays, OwnSteps
<1> QED
    BY <1>1, <1>2, PTL DEF Spec

\* What the open sidebar follows is current, or an event or an answer that
\* will make it so is under way, whichever requests overtake each other.
THEOREM OpenTreeFollows == Spec => []FollowedIsCurrent
<1>1. (part = "tree" => Tree!TreeInv) => FollowedIsCurrent
    BY DEF Tree!TreeInv, Tree!Tended, FollowedIsCurrent, Tree!FollowedIsCurrent
<1> QED
    BY <1>1, TreeIsTended, PTL

-----------------------------------------------------------------------------
\* What the tree, the search and a listing show to be under way is, however
\* requests overtake each other and whatever is closed and opened again.
THEOREM WaitingIsForSomething == Spec => []WaitingEnds
<1>1. Init => (part = "listing" => Listing!BatchesEnd)
  <2>1. Listing!Init => Listing!BatchesEnd
    BY DEF Listing!Init, Listing!BatchesEnd
  <2> QED
    BY <2>1 DEF Init
<1>2. (part = "listing" => Listing!BatchesEnd) /\ [Next]_vars => (part = "listing" => Listing!BatchesEnd)'
    BY ListingKept, PartStays, OwnSteps
<1>3. (part = "tree" => Tree!TreeInv) => (part = "tree" => Tree!SpinnersEnd)
    BY DEF Tree!TreeInv, Tree!Spun, Tree!SpinnersEnd
<1>4. (part = "search" => Search!SearchInv) => (part = "search" => Search!SearchingEnds)
    BY DEF Search!SearchInv, Search!WaitingForOnesQuery, Search!SearchingEnds
<1>5. ( /\ part = "listing" => Listing!BatchesEnd
        /\ part = "tree" => Tree!SpinnersEnd
        /\ part = "search" => Search!SearchingEnds ) => WaitingEnds
    BY DEF WaitingEnds
<1> QED
    BY <1>1, <1>2, <1>3, <1>4, <1>5, TreeIsTended, SearchIsForOnesQuery, PTL DEF Spec

-----------------------------------------------------------------------------
(* PendingContributions.                                                   *)

\* What is pending is its owner's in every reachable state.
LEMMA PendingIsTended == Spec => [](part = "pending" => Pending!PendingInv)
<1>1. Init => (part = "pending" => Pending!PendingInv)
  <2>1. Pending!Init => Pending!PendingInv
    BY DEF Pending!Init, Pending!PendingInv, Pending!PendingFits, Pending!StoreIsItsOwners,
       Pending!PostsAreTheirAuthors, Pending!NoStaleGhost
  <2> QED
    BY <2>1 DEF Init
<1>2. (part = "pending" => Pending!PendingInv) /\ [Next]_vars => (part = "pending" => Pending!PendingInv)'
    BY PendingKept, PartStays, OwnSteps, BoundsAreNumbers
<1> QED
    BY <1>1, <1>2, PTL DEF Spec

\* A ghost of a contribution that has closed is about to go, whether the event
\* came before the ghost, was lost with the stream, or the page was reloaded.
THEOREM ClosedGhostsGo == Spec => []NoStaleGhost
<1>1. (part = "pending" => Pending!PendingInv) => NoStaleGhost
    BY DEF Pending!PendingInv, NoStaleGhost
<1> QED
    BY <1>1, PendingIsTended, PTL

-----------------------------------------------------------------------------
(* ItemReactions.                                                          *)

\* What a heart shows of an item differs from what the server holds by the
\* presses that have not reached it, and the bar and the data of the sidebar
\* follow, as long as no like was confirmed into the data of another item.
THEOREM PressesStayCounted == Spec => [](part = "reactions" => Reactions!LikesInv)
<1>1. Init => (part = "reactions" => Reactions!LikesInv)
    BY LikesStart, NoneIsNone DEF Init
<1>2. (part = "reactions" => Reactions!LikesInv) /\ [Next]_vars =>
          (part = "reactions" => Reactions!LikesInv)'
    BY LikesKept, OwnSteps, PartStays, NoneIsNone
<1> QED
    BY <1>1, <1>2, PTL DEF Spec

-----------------------------------------------------------------------------
(* Discussions.                                                            *)

\* Beside a material the roots that are known are those that are listed.
THEOREM ThreadsAreKnown == Spec => [](part = "discuss" => Discuss!DiscussInv)
<1>1. Init => (part = "discuss" => Discuss!DiscussInv)
    BY ThreadsStart, BoundsAreNumbers DEF Init
<1>2. (part = "discuss" => Discuss!DiscussInv) /\ [Next]_vars => (part = "discuss" => Discuss!DiscussInv)'
    BY ThreadsKept, OwnSteps, PartStays
<1> QED
    BY <1>1, <1>2, PTL DEF Spec

-----------------------------------------------------------------------------
(* CopiesAgree: the hearts, the threads and the ghosts.                    *)

\* What a page keeps twice agrees: the heart of an item in its row, sheet and
\* bar with the server's like, until an answer was lost or a like has strayed;
\* the roots known with the threads listed; the ghosts with their author.
THEOREM CopiesStayAlike == Spec => []CopiesAgree
<1> DEFINE Hearts == part = "reactions" => Reactions!LikesInv
           Known == part = "discuss" => Discuss!DiscussInv
           Ghosts == part = "pending" => Pending!PendingInv
<1>1. Hearts /\ Known /\ Ghosts => CopiesAgree
    BY HeartsAgree
    DEF CopiesAgree, Discuss!DiscussInv, Discuss!SeenIsListed, Pending!PendingInv,
           Pending!StoreIsItsOwners, Pending!GhostsAreOnesOwn
<1>2. Spec => []Hearts /\ []Known /\ []Ghosts
    BY PressesStayCounted, ThreadsAreKnown, PendingIsTended
<1> QED
    BY <1>1, <1>2, PTL

-----------------------------------------------------------------------------
(* EventStream.                                                            *)

\* Once the stream is quiet and the leader knows what the tabs want, a page is
\* up to date or on the overflow timer, whatever reconnects, elections and
\* overflows came before.
THEOREM QuietStreamsAreCurrent == Spec => []QuietMeansCurrent
<1>1. Init => (part = "events" => Events!StreamInv)
    BY StreamStarts, NoneIsNone DEF Init
<1>2. (part = "events" => Events!StreamInv) /\ [Next]_vars => (part = "events" => Events!StreamInv)'
    BY StreamKept, OwnSteps, PartStays, NoneIsNone
<1>3. (part = "events" => Events!StreamInv) => QuietMeansCurrent
    BY QuietIsCurrent, NoneIsNone, FewAtATime, BoundsAreNumbers DEF QuietMeansCurrent
<1> QED
    BY <1>1, <1>2, <1>3, PTL DEF Spec

-----------------------------------------------------------------------------
(* What pages show is what they were asked for.                            *)

\* A viewer shows the material of its page in every reachable state.
LEMMA ViewersAreAsked == Spec => [](part = "viewer" => Viewer!ViewerInv)
<1>1. Init => (part = "viewer" => Viewer!ViewerInv)
    BY ViewerStarts DEF Init
<1>2. (part = "viewer" => Viewer!ViewerInv) /\ [Next]_vars => (part = "viewer" => Viewer!ViewerInv)'
    BY ViewerKept, PartStays, OwnSteps, NoneIsNone
<1> QED
    BY <1>1, <1>2, PTL DEF Spec

\* The inspector is about its target in every reachable state.
LEMMA PanelsAreTargets == Spec => [](part = "panel" => Panel!PanelInv)
<1>1. Init => (part = "panel" => Panel!PanelInv)
    BY PanelStarts DEF Init
<1>2. (part = "panel" => Panel!PanelInv) /\ [Next]_vars => (part = "panel" => Panel!PanelInv)'
    BY PanelKept, PartStays, OwnSteps, NoneIsNone
<1> QED
    BY <1>1, <1>2, PTL DEF Spec

\* The rows of a staff list are its filter's in every reachable state.
LEMMA RowsAreTheFilters == Spec => [](part = "lists" => Lists!ListsInv)
<1>1. Init => (part = "lists" => Lists!ListsInv)
    BY ListsStart DEF Init
<1>2. (part = "lists" => Lists!ListsInv) /\ [Next]_vars => (part = "lists" => Lists!ListsInv)'
    BY ListsKept, PartStays, OwnSteps
<1> QED
    BY <1>1, <1>2, PTL DEF Spec

\* The notifications are the filter's in every reachable state.
LEMMA NoticesAreTheFilters == Spec => [](part = "notices" => Notices!NotificationsInv)
<1>1. Init => (part = "notices" => Notices!NotificationsInv)
    BY NotificationsStart DEF Init
<1>2. (part = "notices" => Notices!NotificationsInv) /\ [Next]_vars =>
          (part = "notices" => Notices!NotificationsInv)'
    BY NotificationsKept, PartStays, OwnSteps
<1> QED
    BY <1>1, <1>2, PTL DEF Spec

\* A press in the picker is of its item in every reachable state.
LEMMA PressesAreTheItems == Spec => [](part = "saved" => Saved!PickerInv)
<1>1. Init => (part = "saved" => Saved!PickerInv)
    BY PickerStarts DEF Init
<1>2. (part = "saved" => Saved!PickerInv) /\ [Next]_vars => (part = "saved" => Saved!PickerInv)'
    BY PickerKept, PartStays, OwnSteps
<1> QED
    BY <1>1, <1>2, PTL DEF Spec

\* The profile and the leaderboard display what is chosen in every reachable
\* state.
LEMMA TabsAreTheOpenOnes == Spec => [](part = "account" => Account!AccountInv)
<1>1. Init => (part = "account" => Account!AccountInv)
    BY AccountStarts DEF Init
<1>2. (part = "account" => Account!AccountInv) /\ [Next]_vars => (part = "account" => Account!AccountInv)'
    BY AccountKept, PartStays, OwnSteps
<1> QED
    BY <1>1, <1>2, PTL DEF Spec

\* What a row's dialog holds is its row's in every reachable state.
LEMMA FormsAreTheRows == Spec => [](part = "editing" => Editing!RowsInv)
<1>1. Init => (part = "editing" => Editing!RowsInv)
    BY RowsStart DEF Init
<1>2. (part = "editing" => Editing!RowsInv) /\ [Next]_vars => (part = "editing" => Editing!RowsInv)'
    BY RowsKept, PartStays, OwnSteps
<1> QED
    BY <1>1, <1>2, PTL DEF Spec

\* Viewers, the inspector, the lists of the staff, quizzes, notifications,
\* saved items, accounts and the dialogs of rows show what they were last asked
\* for, whichever answers come late, fail or are overtaken.
THEOREM PagesShowWhatIsAsked == Spec => []WhatIsShownIsAsked
<1>1. Viewer!ViewerInv => Viewer!ShownIsAsked
    BY ViewerShows
<1>2. /\ (part = "viewer" => Viewer!ViewerInv) /\ (part = "panel" => Panel!PanelInv)
      /\ (part = "lists" => Lists!ListsInv) /\ (part = "quiz" => Quiz!QuizInv)
      /\ (part = "notices" => Notices!NotificationsInv) /\ (part = "saved" => Saved!PickerInv)
      /\ (part = "account" => Account!AccountInv) /\ (part = "editing" => Editing!RowsInv)
      => WhatIsShownIsAsked
    BY <1>1 DEF WhatIsShownIsAsked, Panel!PanelInv, Lists!ListsInv, Quiz!QuizInv,
       Notices!NotificationsInv, Saved!PickerInv, Account!AccountInv, Editing!RowsInv
<1> QED
    BY <1>2, ViewersAreAsked, PanelsAreTargets, RowsAreTheFilters, QuizzesAreTheirFiles,
       NoticesAreTheFilters, PressesAreTheItems, TabsAreTheOpenOnes, FormsAreTheRows, PTL

-----------------------------------------------------------------------------
(* The types. The types of the other parts - routing, forms and the draft -  *)
(* are in their invariants already.                                          *)

\* The fields of the session have their types in every reachable state.
LEMMA SessionTyped == Spec => [](part = "session" => Session!TypeOK)
<1> DEFINE Typed == part = "session" => Session!TypeOK /\ Session!ChannelsFit /\ Session!RequestFits
<1>1. Init => Typed
    BY SessionTypesStart DEF Init
<1>2. Typed /\ [Next]_vars => Typed'
    BY SessionTypesKept, PartStays, OwnSteps
<1>3. Typed => (part = "session" => Session!TypeOK)
    OBVIOUS
<1> QED
    BY <1>1, <1>2, <1>3, PTL DEF Spec

\* The fields of the stream of events have their types in every reachable state.
LEMMA EventsTyped == Spec => [](part = "events" => Events!TypeOK)
<1> DEFINE Typed == part = "events" => Events!TypeOK /\ Events!StreamInv
<1>1. Init => Typed
    BY EventsTypesStart, StreamStarts, NoneIsNone DEF Init
<1>2. Typed /\ [Next]_vars => Typed'
    BY EventsTypesKept, StreamKept, NoneIsNone, PartStays, OwnSteps
<1>3. Typed => (part = "events" => Events!TypeOK)
    OBVIOUS
<1> QED
    BY <1>1, <1>2, <1>3, PTL DEF Spec

\* The fields of an upload have their types in every reachable state.
LEMMA TransferTyped == Spec => [](part = "transfer" => Transfer!TypeOK)
<1> DEFINE Typed == part = "transfer" => Transfer!TypeOK /\ Transfer!TransferInv /\ Transfer!AttemptsFit
<1>1. Init => Typed
    BY TransferTypesStart, TransferStarts, AttemptsStart DEF Init
<1>2. Typed /\ [Next]_vars => Typed'
    BY TransferTypesKept, TransferKept, AttemptsStep, PartStays, OwnSteps
<1>3. Typed => (part = "transfer" => Transfer!TypeOK)
    OBVIOUS
<1> QED
    BY <1>1, <1>2, <1>3, PTL DEF Spec

\* The fields of the queue of uploads have their types in every reachable state.
LEMMA QueueTyped == Spec => [](part = "queue" => Queue!TypeOK)
<1> DEFINE Typed == part = "queue" => Queue!TypeOK /\ Queue!QueueInv
<1>1. Init => Typed
    BY QueueTypesStart, QueueStarts, FewAtATime DEF Init
<1>2. Typed /\ [Next]_vars => Typed'
    BY QueueTypesKept, QueueKept, FewAtATime, PartStays, OwnSteps
<1>3. Typed => (part = "queue" => Queue!TypeOK)
    OBVIOUS
<1> QED
    BY <1>1, <1>2, <1>3, PTL DEF Spec

\* The fields of the tree have their types in every reachable state.
LEMMA TreeTyped == Spec => [](part = "tree" => Tree!TypeOK)
<1>1. Init => (part = "tree" => Tree!TypeOK)
    BY TreeTypesStart DEF Init
<1>2. (part = "tree" => Tree!TypeOK) /\ [Next]_vars => (part = "tree" => Tree!TypeOK)'
    BY TreeTypesKept, PartStays, OwnSteps
<1> QED
    BY <1>1, <1>2, PTL DEF Spec

\* The fields of a listing's cache have their types in every reachable state.
LEMMA BrowseTyped == Spec => [](part = "browse" => Browse!TypeOK)
<1> DEFINE Typed == part = "browse" => Browse!TypeOK /\ Browse!BrowseInv
<1>1. Init => Typed
    BY BrowseTypesStart, BrowseStarts DEF Init
<1>2. Typed /\ [Next]_vars => Typed'
    BY BrowseTypesKept, BrowseKept, PartStays, OwnSteps
<1>3. Typed => (part = "browse" => Browse!TypeOK)
    OBVIOUS
<1> QED
    BY <1>1, <1>2, <1>3, PTL DEF Spec

\* The fields of the pages of pull requests have their types in every reachable state.
LEMMA PullsTyped == Spec => [](part = "pulls" => Pulls!TypeOK)
<1> DEFINE Typed == part = "pulls" => Pulls!TypeOK /\ Pulls!PullsInv
<1>1. Init => Typed
    BY PullsTypesStart, PullsStart DEF Init
<1>2. Typed /\ [Next]_vars => Typed'
    BY PullsTypesKept, PullsKept, PartStays, OwnSteps
<1>3. Typed => (part = "pulls" => Pulls!TypeOK)
    OBVIOUS
<1> QED
    BY <1>1, <1>2, <1>3, PTL DEF Spec

\* The fields of a search have their types in every reachable state.
LEMMA SearchTyped == Spec => [](part = "search" => Search!TypeOK)
<1>1. Init => (part = "search" => Search!TypeOK)
    BY SearchTypesStart DEF Init
<1>2. (part = "search" => Search!TypeOK) /\ [Next]_vars => (part = "search" => Search!TypeOK)'
    BY SearchTypesKept, PartStays, OwnSteps
<1> QED
    BY <1>1, <1>2, PTL DEF Spec

\* The fields of the delivery worker have their types in every reachable state.
LEMMA WorkerTyped == Spec => [](part = "worker" => Worker!TypeOK)
<1> DEFINE Typed == part = "worker" => Worker!TypeOK /\ Worker!WorkerInv
<1>1. Init => Typed
    BY WorkerTypesStart, WorkerStarts DEF Init
<1>2. Typed /\ [Next]_vars => Typed'
    BY WorkerTypesKept, WorkerKept, PartStays, OwnSteps
<1>3. Typed => (part = "worker" => Worker!TypeOK)
    OBVIOUS
<1> QED
    BY <1>1, <1>2, <1>3, PTL DEF Spec

\* The fields of a viewer have their types in every reachable state.
LEMMA ViewerTyped == Spec => [](part = "viewer" => Viewer!TypeOK)
<1> DEFINE Typed == part = "viewer" => Viewer!TypeOK /\ Viewer!TriesRemain
<1>1. Init => Typed
    BY ViewerTypesStart, TriesStart DEF Init
<1>2. Typed /\ [Next]_vars => Typed'
    BY ViewerTypesKept, TriesStep, PartStays, OwnSteps
<1>3. Typed => (part = "viewer" => Viewer!TypeOK)
    OBVIOUS
<1> QED
    BY <1>1, <1>2, <1>3, PTL DEF Spec

\* The fields of the thumbnails have their types in every reachable state.
LEMMA ThumbsTyped == Spec => [](part = "thumbs" => Thumbs!TypeOK)
<1> DEFINE Typed == part = "thumbs" => Thumbs!TypeOK /\ Thumbs!RequestsFit /\ Thumbs!DropsFit
<1>1. Init => Typed
    BY ThumbsTypesStart, RequestsStart, DropsStart DEF Init
<1>2. Typed /\ [Next]_vars => Typed'
    BY ThumbsTypesKept, RequestsStep, DropsStep, PartStays, OwnSteps
<1>3. Typed => (part = "thumbs" => Thumbs!TypeOK)
    OBVIOUS
<1> QED
    BY <1>1, <1>2, <1>3, PTL DEF Spec

\* The fields of the reactions have their types in every reachable state.
LEMMA ReactionsTyped == Spec => [](part = "reactions" => Reactions!TypeOK)
<1> DEFINE Typed == part = "reactions" => Reactions!TypeOK /\ Reactions!LikesInv
<1>1. Init => Typed
    BY ReactionsTypesStart, LikesStart, NoneIsNone DEF Init
<1>2. Typed /\ [Next]_vars => Typed'
    BY ReactionsTypesKept, LikesKept, NoneIsNone, PartStays, OwnSteps
<1>3. Typed => (part = "reactions" => Reactions!TypeOK)
    OBVIOUS
<1> QED
    BY <1>1, <1>2, <1>3, PTL DEF Spec

\* The fields of the inspector have their types in every reachable state.
LEMMA PanelTyped == Spec => [](part = "panel" => Panel!TypeOK)
<1>1. Init => (part = "panel" => Panel!TypeOK)
    BY PanelTypesStart DEF Init
<1>2. (part = "panel" => Panel!TypeOK) /\ [Next]_vars => (part = "panel" => Panel!TypeOK)'
    BY PanelTypesKept, PartStays, OwnSteps
<1> QED
    BY <1>1, <1>2, PTL DEF Spec

\* The fields of a menu have their types in every reachable state.
LEMMA MenuTyped == Spec => [](part = "menu" => Menu!TypeOK)
<1> DEFINE Typed == part = "menu" => Menu!TypeOK /\ Menu!PartsRemain
<1>1. Init => Typed
    BY MenuTypesStart, PartsStart DEF Init
<1>2. Typed /\ [Next]_vars => Typed'
    BY MenuTypesKept, PartStays, OwnSteps
<1>3. Typed => (part = "menu" => Menu!TypeOK)
    OBVIOUS
<1> QED
    BY <1>1, <1>2, <1>3, PTL DEF Spec

\* The fields of the lists of the staff have their types in every reachable state.
LEMMA ListsTyped == Spec => [](part = "lists" => Lists!TypeOK)
<1>1. Init => (part = "lists" => Lists!TypeOK)
    BY ListsTypesStart DEF Init
<1>2. (part = "lists" => Lists!TypeOK) /\ [Next]_vars => (part = "lists" => Lists!TypeOK)'
    BY ListsTypesKept, PartStays, OwnSteps
<1> QED
    BY <1>1, <1>2, PTL DEF Spec

\* The fields of the pages of the system have their types in every reachable state.
LEMMA SystemTyped == Spec => [](part = "system" => System!TypeOK)
<1> DEFINE Typed == part = "system" => System!TypeOK /\ System!BackupsFit
<1>1. Init => Typed
    BY SystemTypesStart, BackupsStart DEF Init
<1>2. Typed /\ [Next]_vars => Typed'
    BY SystemTypesKept, BackupsStep, PartStays, OwnSteps
<1>3. Typed => (part = "system" => System!TypeOK)
    OBVIOUS
<1> QED
    BY <1>1, <1>2, <1>3, PTL DEF Spec

\* The fields of a quiz have their types in every reachable state.
LEMMA QuizTyped == Spec => [](part = "quiz" => Quiz!TypeOK)
<1> DEFINE Typed == part = "quiz" => Quiz!TypeOK /\ Quiz!PlaceFits
<1>1. Init => Typed
    BY QuizTypesStart, PlaceStarts DEF Init
<1>2. Typed /\ [Next]_vars => Typed'
    BY QuizTypesKept, PlaceStep, PartStays, OwnSteps
<1>3. Typed => (part = "quiz" => Quiz!TypeOK)
    OBVIOUS
<1> QED
    BY <1>1, <1>2, <1>3, PTL DEF Spec

\* The fields of a discussion have their types in every reachable state.
LEMMA DiscussTyped == Spec => [](part = "discuss" => Discuss!TypeOK)
<1> DEFINE Typed == part = "discuss" => Discuss!TypeOK /\ Discuss!LoadFits /\ Discuss!SendsFit
<1>1. Init => Typed
    BY DiscussTypesStart, LoadStarts DEF Init
<1>2. Typed /\ [Next]_vars => Typed'
    BY DiscussTypesKept, LoadStep, SendsStep, PartStays, OwnSteps
<1>3. Typed => (part = "discuss" => Discuss!TypeOK)
    OBVIOUS
<1> QED
    BY <1>1, <1>2, <1>3, PTL DEF Spec

\* The fields of the notifications have their types in every reachable state.
LEMMA NoticesTyped == Spec => [](part = "notices" => Notices!TypeOK)
<1>1. Init => (part = "notices" => Notices!TypeOK)
    BY NoticesTypesStart DEF Init
<1>2. (part = "notices" => Notices!TypeOK) /\ [Next]_vars => (part = "notices" => Notices!TypeOK)'
    BY NoticesTypesKept, PartStays, OwnSteps
<1> QED
    BY <1>1, <1>2, PTL DEF Spec

\* The fields of the saved items have their types in every reachable state.
LEMMA SavedTyped == Spec => [](part = "saved" => Saved!TypeOK)
<1>1. Init => (part = "saved" => Saved!TypeOK)
    BY SavedTypesStart DEF Init
<1>2. (part = "saved" => Saved!TypeOK) /\ [Next]_vars => (part = "saved" => Saved!TypeOK)'
    BY SavedTypesKept, PartStays, OwnSteps
<1> QED
    BY <1>1, <1>2, PTL DEF Spec

\* The fields of an account's pages have their types in every reachable state.
LEMMA AccountTyped == Spec => [](part = "account" => Account!TypeOK)
<1>1. Init => (part = "account" => Account!AccountFits)
    BY AccountTypesStart DEF Init
<1>2. (part = "account" => Account!AccountFits) /\ [Next]_vars => (part = "account" => Account!AccountFits)'
    BY AccountTypesKept, PartStays, OwnSteps
<1>3. (part = "account" => Account!AccountFits) => (part = "account" => Account!TypeOK)
    BY AccountIsTyped
<1> QED
    BY <1>1, <1>2, <1>3, PTL DEF Spec

\* The fields of the dialogs of materials have their types in every reachable state.
LEMMA EditingTyped == Spec => [](part = "editing" => Editing!TypeOK)
<1>1. Init => (part = "editing" => Editing!EditingFits)
    BY EditingTypesStart DEF Init
<1>2. (part = "editing" => Editing!EditingFits) /\ [Next]_vars => (part = "editing" => Editing!EditingFits)'
    BY EditingTypesKept, PartStays, OwnSteps
<1>3. (part = "editing" => Editing!EditingFits) => (part = "editing" => Editing!TypeOK)
    BY EditingIsTyped
<1> QED
    BY <1>1, <1>2, <1>3, PTL DEF Spec

\* The fields of what is pending have their types in every reachable state.
LEMMA PendingTyped == Spec => [](part = "pending" => Pending!TypeOK)
<1> DEFINE Typed == part = "pending" => Pending!TypeOK
           Tended == part = "pending" => Pending!PendingInv
<1>1. Init => Typed
    BY PendingTypesStart DEF Init
<1>2. Typed /\ Tended' /\ [Next]_vars => Typed'
    BY PendingTypesKept, PartStays, OwnSteps
<1> QED
    BY <1>1, <1>2, PendingIsTended, PTL DEF Spec

\* The fields of a directory's listing have their types in every reachable state.
LEMMA ListingTyped == Spec => [](part = "listing" => Listing!TypeOK)
<1>1. Init => (part = "listing" => Listing!ListingFits)
    BY ListingTypesStart DEF Init
<1>2. (part = "listing" => Listing!ListingFits) /\ [Next]_vars => (part = "listing" => Listing!ListingFits)'
    BY ListingTypesKept, PartStays, OwnSteps
<1>3. (part = "listing" => Listing!ListingFits) => (part = "listing" => Listing!TypeOK)
    BY ListingIsTyped
<1> QED
    BY <1>1, <1>2, <1>3, PTL DEF Spec

\* The fields of a visit have their types in every reachable state.
LEMMA RoutingTyped == Spec => [](part = "routing" => Routing!TypeOK)
<1>1. Init => (part = "routing" => Routing!RoutingInv)
    BY RoutingStarts, HopsSuffice DEF Init
<1>2. (part = "routing" => Routing!RoutingInv) /\ [Next]_vars => (part = "routing" => Routing!RoutingInv)'
    BY RoutingKept, HopsSuffice, PartStays, OwnSteps
<1>3. (part = "routing" => Routing!RoutingInv) => (part = "routing" => Routing!TypeOK)
    BY DEF Routing!RoutingInv
<1> QED
    BY <1>1, <1>2, <1>3, PTL DEF Spec

\* The fields of the draft have their types in every reachable state.
LEMMA DraftTyped == Spec => [](part = "draft" => Draft!TypeOK)
<1>1. Init => (part = "draft" => Draft!DraftInv)
    BY DraftInit DEF Init
<1>2. (part = "draft" => Draft!DraftInv) /\ [Next]_vars => (part = "draft" => Draft!DraftInv)'
    BY DraftKept, PartStays, OwnSteps
<1>3. (part = "draft" => Draft!DraftInv) => (part = "draft" => Draft!TypeOK)
    BY DEF Draft!DraftInv
<1> QED
    BY <1>1, <1>2, <1>3, PTL DEF Spec

\* The fields of the forms have their types in every reachable state.
LEMMA FormsTyped == Spec => [](part = "forms" => Forms!TypeOK)
<1>1. Init => (part = "forms" => Forms!FormsInv)
    BY FormsStart, BoundsAreNumbers DEF Init
<1>2. (part = "forms" => Forms!FormsInv) /\ [Next]_vars => (part = "forms" => Forms!FormsInv)'
    BY FormsKept, BoundsAreNumbers, PartStays, OwnSteps
<1>3. (part = "forms" => Forms!FormsInv) => (part = "forms" => Forms!TypeOK)
    BY DEF Forms!FormsInv
<1> QED
    BY <1>1, <1>2, <1>3, PTL DEF Spec

\* Every part of the web client and the delivery worker stays in its types: no
\* counter passes its bound, and what is asked for, held or shown is always
\* something the part knows how to hold.
THEOREM PartsAreTyped == Spec => []TypeOK
<1> DEFINE Accounts ==
               /\ part = "session" => Session!TypeOK
               /\ part = "routing" => Routing!TypeOK
               /\ part = "forms" => Forms!TypeOK
               /\ part = "account" => Account!TypeOK
               /\ part = "notices" => Notices!TypeOK
               /\ part = "saved" => Saved!TypeOK
           Uploads ==
               /\ part = "events" => Events!TypeOK
               /\ part = "transfer" => Transfer!TypeOK
               /\ part = "queue" => Queue!TypeOK
               /\ part = "draft" => Draft!TypeOK
               /\ part = "pulls" => Pulls!TypeOK
           Edits ==
               /\ part = "editing" => Editing!TypeOK
               /\ part = "pending" => Pending!TypeOK
               /\ part = "panel" => Panel!TypeOK
               /\ part = "menu" => Menu!TypeOK
               /\ part = "reactions" => Reactions!TypeOK
           Pages ==
               /\ part = "tree" => Tree!TypeOK
               /\ part = "browse" => Browse!TypeOK
               /\ part = "listing" => Listing!TypeOK
               /\ part = "search" => Search!TypeOK
               /\ part = "viewer" => Viewer!TypeOK
               /\ part = "thumbs" => Thumbs!TypeOK
           Consoles ==
               /\ part = "lists" => Lists!TypeOK
               /\ part = "system" => System!TypeOK
               /\ part = "quiz" => Quiz!TypeOK
               /\ part = "discuss" => Discuss!TypeOK
               /\ part = "worker" => Worker!TypeOK
<1>1. Spec => []Accounts
    BY SessionTyped, RoutingTyped, FormsTyped, AccountTyped, NoticesTyped, SavedTyped, PTL
<1>2. Spec => []Uploads
    BY EventsTyped, TransferTyped, QueueTyped, DraftTyped, PullsTyped, PTL
<1>3. Spec => []Edits
    BY EditingTyped, PendingTyped, PanelTyped, MenuTyped, ReactionsTyped, PTL
<1>4. Spec => []Pages
    BY TreeTyped, BrowseTyped, ListingTyped, SearchTyped, ViewerTyped, ThumbsTyped, PTL
<1>5. Spec => []Consoles
    BY ListsTyped, SystemTyped, QuizTyped, DiscussTyped, WorkerTyped, PTL
<1>6. Accounts /\ Uploads /\ Edits /\ Pages /\ Consoles => TypeOK
    BY DEF TypeOK
<1> HIDE DEF Accounts, Uploads, Edits, Pages, Consoles
<1> QED
    BY <1>1, <1>2, <1>3, <1>4, <1>5, <1>6, PTL
=============================================================================
