-------------------------- MODULE ContributingParts -------------------------
(***************************************************************************)
(* Parts of the web client: sign-in and accounts, events, uploads and      *)
(* contributions. Each is an instance of its module over the variables of  *)
(* the run.                                                                *)
(***************************************************************************)
EXTENDS ClientParts

Session == INSTANCE ClientSession WITH jar <- v1, hint <- v2,
    logins <- v3, spent <- v4, lost <- v5, ended <- v6, late <- v7,
    lock <- v8, sent <- v9, answer <- v10, call <- v11, token <- v12,
    shown <- v13, stage <- v14, timer <- v15, asks <- v16, held <- v17,
    channel <- v18
Routing == INSTANCE ClientRouting WITH path <- v1, account <- v2,
    session <- v3, unready <- v4, next <- v5, hops <- v6
Events == INSTANCE EventStream WITH subs <- v1, leader <- v2, snapshots <- v3,
    source <- v4, url <- v5, due <- v6, polling <- v7, wire <- v8, mail <- v9,
    current <- v10
Transfer == INSTANCE UploadTransfer WITH size <- v1, step <- v2, parts <- v3,
    tries <- v4, unsure <- v5, committed <- v6, withdrawn <- v7,
    cancelled <- v8, job <- v9, outcome <- v10
Queue == INSTANCE UploadQueue WITH status <- v1, resumable <- v2,
    attached <- v3, lost <- v4, run <- v5, waiting <- v6, active <- v7,
    unsorted <- v8, folder <- v9, staged <- v10
Draft == INSTANCE DraftStaging WITH draft <- v1, counter <- v2, saves <- v3,
    editing <- v4, upload <- v5, submitting <- v6
Pulls == INSTANCE PullRequestPages WITH verdict <- v1, undone <- v2,
    role <- v3, screen <- v4, detail <- v5, dialog <- v6, filled <- v7,
    acting <- v8, asked <- v9, rows <- v10, preview <- v11, list <- v12,
    queries <- v13, heard <- v14, unlisted <- v15
Notices == INSTANCE Notifications WITH unread <- v1, read <- v2, filter <- v3,
    fetches <- v4, loading <- v5, more <- v6, failed <- v7, of <- v8,
    shown <- v9, done <- v10, page <- v11, hasMore <- v12, selected <- v13,
    marks <- v14, all <- v15
Saved == INSTANCE SavedPages WITH saved <- v1, shelves <- v2, holds <- v3,
    place <- v4, library <- v5, collections <- v6, selectedId <- v7,
    detailOf <- v8, detail <- v9, loads <- v10, loading <- v11,
    detailLoading <- v12, narrow <- v13, keys <- v14, dialog <- v15,
    acts <- v16, target <- v17, open <- v18, asks <- v19, picking <- v20,
    listedFor <- v21, listed <- v22, members <- v23, changing <- v24,
    creating <- v25
Forms == INSTANCE SignInForms WITH account <- v1, password <- v2,
    generation <- v3, bootstrapped <- v4, challenge <- v5, resetLink <- v6,
    issued <- v7, resets <- v8, page <- v9, step <- v10, calls <- v11,
    grants <- v12
Account == INSTANCE AccountPages WITH screen <- v1, server <- v2, store <- v3,
    signedIn <- v4, profile <- v5, loaded <- v6, fetches <- v7, form <- v8,
    saving <- v9, upload <- v10, activeTab <- v11, displayedTab <- v12,
    visitedTabs <- v13, readyTabs <- v14, failedTabs <- v15, tabLoads <- v16,
    switching <- v17, creating <- v18, exporting <- v19, confirming <- v20,
    board <- v21, shownBoard <- v22, boardLoads <- v23, boardFailed <- v24
Editing == INSTANCE MaterialEditing WITH head <- v1, seen <- v2, place <- v3,
    target <- v4, open <- v5, tab <- v6, base <- v7, dirty <- v8, title <- v9,
    retitled <- v10, loads <- v11, loading <- v12, failed <- v13,
    panel <- v14, picks <- v15, replacement <- v16, busy <- v17, saves <- v18,
    drafts <- v19, contributions <- v20, history <- v21
Pending == INSTANCE PendingContributions WITH status <- v1, author <- v2,
    user <- v3, ownerId <- v4, ghosts <- v5, form <- v6, submitting <- v7,
    posts <- v8, events <- v9, connecting <- v10, checks <- v11,
    unanswered <- v12, within <- v13
=============================================================================
