----------------------------- MODULE MCWebClient ----------------------------
(***************************************************************************)
(* One run for the parts of the web client and the delivery worker. They   *)
(* share no state, so that a product of them would say nothing that each   *)
(* alone does not: "part" names the one whose behaviour this is. The parts *)
(* are instantiated in the module of their group.                          *)
(***************************************************************************)
EXTENDS ContributingParts, BrowsingParts, Naturals, Sequences, FiniteSets, TLC

\* The variables a part does not have.
After6 == <<v7, v8, v9, v10, v11, v12, v13, v14, v15, v16, v17, v18, v19, v20,
            v21, v22, v23, v24, v25>>
After8 == <<v9, v10, v11, v12, v13, v14, v15, v16, v17, v18, v19, v20, v21,
            v22, v23, v24, v25>>
After9 == <<v10, v11, v12, v13, v14, v15, v16, v17, v18, v19, v20, v21, v22,
            v23, v24, v25>>
After10 == <<v11, v12, v13, v14, v15, v16, v17, v18, v19, v20, v21, v22, v23,
             v24, v25>>
After12 == <<v13, v14, v15, v16, v17, v18, v19, v20, v21, v22, v23, v24, v25>>
After13 == <<v14, v15, v16, v17, v18, v19, v20, v21, v22, v23, v24, v25>>
After14 == <<v15, v16, v17, v18, v19, v20, v21, v22, v23, v24, v25>>
After15 == <<v16, v17, v18, v19, v20, v21, v22, v23, v24, v25>>
After16 == <<v17, v18, v19, v20, v21, v22, v23, v24, v25>>
After17 == <<v18, v19, v20, v21, v22, v23, v24, v25>>
After18 == <<v19, v20, v21, v22, v23, v24, v25>>
After21 == <<v22, v23, v24, v25>>
After24 == <<v25>>

Init ==
    \/ part = "session" /\ Session!Init /\ v19 = "unused" /\ v20 = "unused" /\
       v21 = "unused" /\ v22 = "unused" /\ v23 = "unused" /\ v24 = "unused" /\
       v25 = "unused"
    \/ part = "routing" /\ Routing!Init /\ v7 = "unused" /\ v8 = "unused" /\
       v9 = "unused" /\ v10 = "unused" /\ v11 = "unused" /\ v12 = "unused" /\
       v13 = "unused" /\ v14 = "unused" /\ v15 = "unused" /\ v16 = "unused" /\
       v17 = "unused" /\ v18 = "unused" /\ v19 = "unused" /\ v20 = "unused" /\
       v21 = "unused" /\ v22 = "unused" /\ v23 = "unused" /\ v24 = "unused" /\
       v25 = "unused"
    \/ part = "events" /\ Events!Init /\ v11 = "unused" /\ v12 = "unused" /\
       v13 = "unused" /\ v14 = "unused" /\ v15 = "unused" /\ v16 = "unused" /\
       v17 = "unused" /\ v18 = "unused" /\ v19 = "unused" /\ v20 = "unused" /\
       v21 = "unused" /\ v22 = "unused" /\ v23 = "unused" /\ v24 = "unused" /\
       v25 = "unused"
    \/ part = "transfer" /\ Transfer!Init /\ v11 = "unused" /\ v12 = "unused"
       /\ v13 = "unused" /\ v14 = "unused" /\ v15 = "unused" /\ v16 = "unused"
       /\ v17 = "unused" /\ v18 = "unused" /\ v19 = "unused" /\ v20 = "unused"
       /\ v21 = "unused" /\ v22 = "unused" /\ v23 = "unused" /\ v24 = "unused"
       /\ v25 = "unused"
    \/ part = "queue" /\ Queue!Init /\ v11 = "unused" /\ v12 = "unused" /\ v13
       = "unused" /\ v14 = "unused" /\ v15 = "unused" /\ v16 = "unused" /\ v17
       = "unused" /\ v18 = "unused" /\ v19 = "unused" /\ v20 = "unused" /\ v21
       = "unused" /\ v22 = "unused" /\ v23 = "unused" /\ v24 = "unused" /\ v25
       = "unused"
    \/ part = "draft" /\ Draft!Init /\ v7 = "unused" /\ v8 = "unused" /\ v9 =
       "unused" /\ v10 = "unused" /\ v11 = "unused" /\ v12 = "unused" /\ v13 =
       "unused" /\ v14 = "unused" /\ v15 = "unused" /\ v16 = "unused" /\ v17 =
       "unused" /\ v18 = "unused" /\ v19 = "unused" /\ v20 = "unused" /\ v21 =
       "unused" /\ v22 = "unused" /\ v23 = "unused" /\ v24 = "unused" /\ v25 =
       "unused"
    \/ part = "tree" /\ Tree!Init /\ v14 = "unused" /\ v15 = "unused" /\ v16 =
       "unused" /\ v17 = "unused" /\ v18 = "unused" /\ v19 = "unused" /\ v20 =
       "unused" /\ v21 = "unused" /\ v22 = "unused" /\ v23 = "unused" /\ v24 =
       "unused" /\ v25 = "unused"
    \/ part = "browse" /\ Browse!Init /\ v9 = "unused" /\ v10 = "unused" /\
       v11 = "unused" /\ v12 = "unused" /\ v13 = "unused" /\ v14 = "unused" /\
       v15 = "unused" /\ v16 = "unused" /\ v17 = "unused" /\ v18 = "unused" /\
       v19 = "unused" /\ v20 = "unused" /\ v21 = "unused" /\ v22 = "unused" /\
       v23 = "unused" /\ v24 = "unused" /\ v25 = "unused"
    \/ part = "pulls" /\ Pulls!Init /\ v16 = "unused" /\ v17 = "unused" /\ v18
       = "unused" /\ v19 = "unused" /\ v20 = "unused" /\ v21 = "unused" /\ v22
       = "unused" /\ v23 = "unused" /\ v24 = "unused" /\ v25 = "unused"
    \/ part = "search" /\ Search!Init /\ v13 = "unused" /\ v14 = "unused" /\
       v15 = "unused" /\ v16 = "unused" /\ v17 = "unused" /\ v18 = "unused" /\
       v19 = "unused" /\ v20 = "unused" /\ v21 = "unused" /\ v22 = "unused" /\
       v23 = "unused" /\ v24 = "unused" /\ v25 = "unused"
    \/ part = "worker" /\ Worker!Init /\ v9 = "unused" /\ v10 = "unused" /\
       v11 = "unused" /\ v12 = "unused" /\ v13 = "unused" /\ v14 = "unused" /\
       v15 = "unused" /\ v16 = "unused" /\ v17 = "unused" /\ v18 = "unused" /\
       v19 = "unused" /\ v20 = "unused" /\ v21 = "unused" /\ v22 = "unused" /\
       v23 = "unused" /\ v24 = "unused" /\ v25 = "unused"
    \/ part = "viewer" /\ Viewer!Init /\ v10 = "unused" /\ v11 = "unused" /\
       v12 = "unused" /\ v13 = "unused" /\ v14 = "unused" /\ v15 = "unused" /\
       v16 = "unused" /\ v17 = "unused" /\ v18 = "unused" /\ v19 = "unused" /\
       v20 = "unused" /\ v21 = "unused" /\ v22 = "unused" /\ v23 = "unused" /\
       v24 = "unused" /\ v25 = "unused"
    \/ part = "thumbs" /\ Thumbs!Init /\ v15 = "unused" /\ v16 = "unused" /\
       v17 = "unused" /\ v18 = "unused" /\ v19 = "unused" /\ v20 = "unused" /\
       v21 = "unused" /\ v22 = "unused" /\ v23 = "unused" /\ v24 = "unused" /\
       v25 = "unused"
    \/ part = "reactions" /\ Reactions!Init /\ v13 = "unused" /\ v14 = "unused"
       /\ v15 = "unused" /\ v16 = "unused" /\ v17 = "unused" /\ v18 = "unused"
       /\ v19 = "unused" /\ v20 = "unused" /\ v21 = "unused" /\ v22 = "unused"
       /\ v23 = "unused" /\ v24 = "unused" /\ v25 = "unused"
    \/ part = "panel" /\ Panel!Init /\ v16 = "unused" /\ v17 = "unused" /\ v18
       = "unused" /\ v19 = "unused" /\ v20 = "unused" /\ v21 = "unused" /\ v22
       = "unused" /\ v23 = "unused" /\ v24 = "unused" /\ v25 = "unused"
    \/ part = "menu" /\ Menu!Init /\ v16 = "unused" /\ v17 = "unused" /\ v18 =
       "unused" /\ v19 = "unused" /\ v20 = "unused" /\ v21 = "unused" /\ v22 =
       "unused" /\ v23 = "unused" /\ v24 = "unused" /\ v25 = "unused"
    \/ part = "lists" /\ Lists!Init /\ v14 = "unused" /\ v15 = "unused" /\ v16
       = "unused" /\ v17 = "unused" /\ v18 = "unused" /\ v19 = "unused" /\ v20
       = "unused" /\ v21 = "unused" /\ v22 = "unused" /\ v23 = "unused" /\ v24
       = "unused" /\ v25 = "unused"
    \/ part = "system" /\ System!Init /\ v22 = "unused" /\ v23 = "unused" /\
       v24 = "unused" /\ v25 = "unused"
    \/ part = "quiz" /\ Quiz!Init /\ v18 = "unused" /\ v19 = "unused" /\ v20 =
       "unused" /\ v21 = "unused" /\ v22 = "unused" /\ v23 = "unused" /\ v24 =
       "unused" /\ v25 = "unused"
    \/ part = "discuss" /\ Discuss!Init /\ v15 = "unused" /\ v16 = "unused" /\
       v17 = "unused" /\ v18 = "unused" /\ v19 = "unused" /\ v20 = "unused" /\
       v21 = "unused" /\ v22 = "unused" /\ v23 = "unused" /\ v24 = "unused" /\
       v25 = "unused"
    \/ part = "notices" /\ Notices!Init /\ v16 = "unused" /\ v17 = "unused" /\
       v18 = "unused" /\ v19 = "unused" /\ v20 = "unused" /\ v21 = "unused" /\
       v22 = "unused" /\ v23 = "unused" /\ v24 = "unused" /\ v25 = "unused"
    \/ part = "saved" /\ Saved!Init
    \/ part = "forms" /\ Forms!Init /\ v13 = "unused" /\ v14 = "unused" /\ v15
       = "unused" /\ v16 = "unused" /\ v17 = "unused" /\ v18 = "unused" /\ v19
       = "unused" /\ v20 = "unused" /\ v21 = "unused" /\ v22 = "unused" /\ v23
       = "unused" /\ v24 = "unused" /\ v25 = "unused"
    \/ part = "account" /\ Account!Init /\ v25 = "unused"
    \/ part = "editing" /\ Editing!Init /\ v22 = "unused" /\ v23 = "unused" /\
       v24 = "unused" /\ v25 = "unused"
    \/ part = "pending" /\ Pending!Init /\ v14 = "unused" /\ v15 = "unused" /\
       v16 = "unused" /\ v17 = "unused" /\ v18 = "unused" /\ v19 = "unused" /\
       v20 = "unused" /\ v21 = "unused" /\ v22 = "unused" /\ v23 = "unused" /\
       v24 = "unused" /\ v25 = "unused"
    \/ part = "listing" /\ Listing!Init /\ v17 = "unused" /\ v18 = "unused" /\
       v19 = "unused" /\ v20 = "unused" /\ v21 = "unused" /\ v22 = "unused" /\
       v23 = "unused" /\ v24 = "unused" /\ v25 = "unused"

SessionStep == part = "session" /\ Session!Next /\ UNCHANGED part /\ UNCHANGED After18
RoutingStep == part = "routing" /\ Routing!Next /\ UNCHANGED part /\ UNCHANGED After6
EventsStep == part = "events" /\ Events!Next /\ UNCHANGED part /\ UNCHANGED After10
TransferStep == part = "transfer" /\ Transfer!Next /\ UNCHANGED part /\ UNCHANGED After10
QueueStep == part = "queue" /\ Queue!Next /\ UNCHANGED part /\ UNCHANGED After10
DraftStep == part = "draft" /\ Draft!Next /\ UNCHANGED part /\ UNCHANGED After6
TreeStep == part = "tree" /\ Tree!Next /\ UNCHANGED part /\ UNCHANGED After13
BrowseStep == part = "browse" /\ Browse!Next /\ UNCHANGED part /\ UNCHANGED After8
PullsStep == part = "pulls" /\ Pulls!Next /\ UNCHANGED part /\ UNCHANGED After15
SearchStep == part = "search" /\ Search!Next /\ UNCHANGED part /\ UNCHANGED After12
WorkerStep == part = "worker" /\ Worker!Next /\ UNCHANGED part /\ UNCHANGED After8
ViewerStep == part = "viewer" /\ Viewer!Next /\ UNCHANGED part /\ UNCHANGED After9
ThumbsStep == part = "thumbs" /\ Thumbs!Next /\ UNCHANGED part /\ UNCHANGED After14
ReactionsStep == part = "reactions" /\ Reactions!Next /\ UNCHANGED part /\ UNCHANGED After12
PanelStep == part = "panel" /\ Panel!Next /\ UNCHANGED part /\ UNCHANGED After15
MenuStep == part = "menu" /\ Menu!Next /\ UNCHANGED part /\ UNCHANGED After15
ListsStep == part = "lists" /\ Lists!Next /\ UNCHANGED part /\ UNCHANGED After13
SystemStep == part = "system" /\ System!Next /\ UNCHANGED part /\ UNCHANGED After21
QuizStep == part = "quiz" /\ Quiz!Next /\ UNCHANGED part /\ UNCHANGED After17
DiscussStep == part = "discuss" /\ Discuss!Next /\ UNCHANGED part /\ UNCHANGED After14
NoticesStep == part = "notices" /\ Notices!Next /\ UNCHANGED part /\ UNCHANGED After15
SavedStep == part = "saved" /\ Saved!Next /\ UNCHANGED part
FormsStep == part = "forms" /\ Forms!Next /\ UNCHANGED part /\ UNCHANGED After12
AccountStep == part = "account" /\ Account!Next /\ UNCHANGED part /\ UNCHANGED After24
EditingStep == part = "editing" /\ Editing!Next /\ UNCHANGED part /\ UNCHANGED After21
PendingStep == part = "pending" /\ Pending!Next /\ UNCHANGED part /\ UNCHANGED After13
ListingStep == part = "listing" /\ Listing!Next /\ UNCHANGED part /\ UNCHANGED After16

Next == SessionStep \/ RoutingStep \/ EventsStep \/ TransferStep \/ QueueStep
        \/ DraftStep \/ TreeStep \/ BrowseStep \/ PullsStep \/ SearchStep \/
        WorkerStep \/ ViewerStep \/ ThumbsStep \/ ReactionsStep \/ PanelStep
        \/ MenuStep \/ ListsStep \/ SystemStep \/ QuizStep \/ DiscussStep \/
        NoticesStep \/ SavedStep \/ FormsStep \/ AccountStep \/ EditingStep \/
        PendingStep \/ ListingStep

vars == <<part, v1, v2, v3, v4, v5, v6, v7, v8, v9, v10, v11, v12, v13, v14,
          v15, v16, v17, v18, v19, v20, v21, v22, v23, v24, v25>>
Spec == Init /\ [][Next]_vars

(* The variables of a part keep their types. *)
TypeOK ==
    /\ part = "session" => Session!TypeOK
    /\ part = "routing" => Routing!TypeOK
    /\ part = "events" => Events!TypeOK
    /\ part = "transfer" => Transfer!TypeOK
    /\ part = "queue" => Queue!TypeOK
    /\ part = "draft" => Draft!TypeOK
    /\ part = "tree" => Tree!TypeOK
    /\ part = "browse" => Browse!TypeOK
    /\ part = "pulls" => Pulls!TypeOK
    /\ part = "search" => Search!TypeOK
    /\ part = "worker" => Worker!TypeOK
    /\ part = "viewer" => Viewer!TypeOK
    /\ part = "thumbs" => Thumbs!TypeOK
    /\ part = "reactions" => Reactions!TypeOK
    /\ part = "panel" => Panel!TypeOK
    /\ part = "menu" => Menu!TypeOK
    /\ part = "lists" => Lists!TypeOK
    /\ part = "system" => System!TypeOK
    /\ part = "quiz" => Quiz!TypeOK
    /\ part = "discuss" => Discuss!TypeOK
    /\ part = "notices" => Notices!TypeOK
    /\ part = "saved" => Saved!TypeOK
    /\ part = "forms" => Forms!TypeOK
    /\ part = "account" => Account!TypeOK
    /\ part = "editing" => Editing!TypeOK
    /\ part = "pending" => Pending!TypeOK
    /\ part = "listing" => Listing!TypeOK

(* A token always has its renewal ahead of it (ClientSession). *)
TokenIsTended == part = "session" => Session!TokenIsTended
(* Redirects come to rest (ClientRouting). *)
RedirectsSettle == part = "routing" => Routing!RedirectsSettle
(* The page at rest is one the account may use (ClientRouting). *)
RestIsAllowed == part = "routing" => Routing!RestIsAllowed
(* A quiet stream leaves every page up to date or tended (EventStream). *)
QuietMeansCurrent == part = "events" => Events!QuietMeansCurrent
(* The client withdraws no upload the server may have completed (UploadTransfer). *)
CommittedIsKept == part = "transfer" => Transfer!CommittedIsKept
(* No upload slot is lost for good (UploadQueue). *)
NoSlotIsLost == part = "queue" => Queue!NoSlotIsLost
(* Removing a staged folder removes what is staged inside it (DraftStaging). *)
RemovalTakesContents == [][part = "draft" => Draft!ContentsGo]_vars
(* What the open tree follows is current or tended (DirectoryTree). *)
FollowedIsCurrent == part = "tree" => Tree!FollowedIsCurrent
(* No answer an event overtook fills the browse cache (BrowsePage). *)
CachedIsPostEvent == part = "browse" => Browse!CachedIsPostEvent
(* A decision a page shows is the server's (PullRequestPages). *)
ShownIsDecided == part = "pulls" => Pulls!ShownIsDecided
(* Only a page past the end of what this search finds is corrected (SearchPages). *)
OnlyPastTheEndIsCorrected == part = "search" => Search!OnlyPastTheEndIsCorrected
(* Who asks for a whole file is sent the whole of it, under its own capability (DeliveryWorker). *)
ServedAsAsked == part = "worker" => Worker!ServedAsAsked
(* No card shows a thumbnail older than the page was told of (MaterialThumbnails). *)
NoneOlderThanTold == part = "thumbs" => Thumbs!NoneOlderThanTold
(* No further archive of a folder starts once its row is gone (ItemMenu). *)
ZipStopsWithItem == [][part = "menu" => Menu!NoFurtherArchive]_vars
(* What a row or an upload names is stored, whatever is pruned (StaffSystem). *)
NamedIsStored == part = "system" => System!NamedIsStored
(* No arrival takes away or replaces what is being answered (QuizPages). *)
AnswersAreKept == [][part = "quiz" => Quiz!AnswersStay]_vars
(* A ghost of a contribution that has closed is about to go (PendingContributions). *)
NoStaleGhost == part = "pending" => Pending!NoStaleGhost
(* Viewers, the inspector, the lists of the staff, quizzes and notifications
   show what they were last asked for. *)
WhatIsShownIsAsked ==
    /\ (part = "viewer" => Viewer!ShownIsAsked)
    /\ (part = "panel" => Panel!PanelIsTargets)
    /\ (part = "lists" => Lists!ListIsItsFilters)
    /\ (part = "quiz" => Quiz!QuizIsItsFile)
    /\ (part = "notices" => Notices!NotificationsAreTheFilters)
    /\ (part = "saved" => Saved!PickerIsItsItem)
    /\ (part = "account" => Account!OpenTabIsDisplayed)
    /\ (part = "editing" => Editing!RowsEditThemselves)
(* What a page keeps twice agrees: a heart with the server, the known roots
   with the listed threads, the ghosts with their author. *)
CopiesAgree ==
    /\ (part = "reactions" => Reactions!HeartIsServers)
    /\ (part = "discuss" => Discuss!SeenIsListed)
    /\ (part = "pending" => Pending!GhostsAreOnesOwn)
(* No credential is used twice: no refresh cookie unless the answer that was
   to replace it was lost, no code or link that was mailed, and none after a
   password reset. *)
CredentialsAreUsedOnce ==
    /\ (part = "session" => Session!OnlyLostAnswersAreReplayed)
    /\ (part = "forms" => Forms!ChallengesAreUsedOnce)
(* What is shown to be under way is: a spinner of the tree, a search, a batch. *)
WaitingEnds ==
    /\ (part = "tree" => Tree!SpinnersEnd)
    /\ (part = "search" => Search!SearchingEnds)
    /\ (part = "listing" => Listing!BatchesEnd)
=============================================================================
