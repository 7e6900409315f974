---------------------------- MODULE BrowsingParts ---------------------------
(***************************************************************************)
(* Parts of the web client: pages on which the library is read and tended. *)
(* Each is an instance of its module over the variables of the run.        *)
(***************************************************************************)
EXTENDS ClientParts

Tree == INSTANCE DirectoryTree WITH listed <- v1, displayed <- v2,
    requests <- v3, loading <- v4, failing <- v5, expanded <- v6,
    opened <- v7, at <- v8, activeDir <- v9, auto <- v10, walk <- v11,
    news <- v12, failed <- v13
Browse == INSTANCE BrowsePage WITH cached <- v1, pulls <- v2, page <- v3,
    fetched <- v4, fetching <- v5, mishap <- v6, events <- v7, missed <- v8
Search == INSTANCE SearchPages WITH host <- v1, open <- v2, words <- v3,
    filter <- v4, sheet <- v5, debounced <- v6, phase <- v7, hits <- v8,
    search <- v9, delay <- v10, back <- v11, found <- v12
Viewer == INSTANCE MaterialViewer WITH viewer <- v1, material <- v2,
    file <- v3, load <- v4, waits <- v5, engine <- v6, works <- v7,
    view <- v8, printable <- v9
Thumbs == INSTANCE MaterialThumbnails WITH published <- v1, jobs <- v2,
    gen <- v3, thumb <- v4, slots <- v5, fetches <- v6, button <- v7,
    previous <- v8, told <- v9, cardKind <- v10, card <- v11, awaits <- v12,
    shows <- v13, cardFailed <- v14
Reactions == INSTANCE ItemReactions WITH onPage <- v1, target <- v2,
    likes <- v3, overrides <- v4, bar <- v5, inSheet <- v6, inBar <- v7,
    presses <- v8, orderly <- v9, overridden <- v10, data <- v11,
    strayed <- v12
Panel == INSTANCE ItemPanel WITH target <- v1, tab <- v2, open <- v3,
    preview <- v4, names <- v5, asking <- v6, author <- v7, awaited <- v8,
    unfolded <- v9, attached <- v10, fetches <- v11, edits <- v12,
    queries <- v13, editsFailed <- v14, chores <- v15
Menu == INSTANCE ItemMenu WITH kind <- v1, restricted <- v2, role <- v3,
    place <- v4, mounted <- v5, arming <- v6, popup <- v7, deleting <- v8,
    drafted <- v9, downloading <- v10, printing <- v11, remaking <- v12,
    zips <- v13, visit <- v14, cancelled <- v15
Lists == INSTANCE StaffLists WITH kind <- v1, filter <- v2, page <- v3,
    cursor <- v4, timer <- v5, loads <- v6, loading <- v7, listed <- v8,
    of <- v9, failed <- v10, selected <- v11, captured <- v12, acts <- v13
System == INSTANCE StaffSystem WITH screen <- v1, stored <- v2, live <- v3,
    scan <- v4, scanned <- v5, found <- v6, dialog <- v7, prune <- v8,
    locked <- v9, judged <- v10, fetches <- v11, kept <- v12, made <- v13,
    shown <- v14, asks <- v15, works <- v16, restoring <- v17, form <- v18,
    sends <- v19, condemned <- v20, admitting <- v21
Quiz == INSTANCE QuizPages WITH where <- v1, quiz <- v2, images <- v3,
    insert <- v4, parse <- v5, asks <- v6, saving <- v7, open <- v8,
    shown <- v9, started <- v10, answered <- v11, finished <- v12,
    file <- v13, loads <- v14, loading <- v15, failed <- v16, held <- v17
Discuss == INSTANCE Discussions WITH view <- v1, at <- v2, ever <- v3,
    alive <- v4, wire <- v5, threads <- v6, seenRootIds <- v7, cursor <- v8,
    hasMore <- v9, load <- v10, failed <- v11, form <- v12, tip <- v13,
    sends <- v14
Listing == INSTANCE DirectoryListing WITH parent <- v1, here <- v2,
    rows <- v3, crumbs <- v4, ghostDirStack <- v5, focusedIndex <- v6,
    lastSelectedIndex <- v7, viewMode <- v8, selectMode <- v9,
    selected <- v10, clipboard <- v11, draft <- v12, batch <- v13,
    submittingBatch <- v14, sends <- v15, zip <- v16
Worker == INSTANCE DeliveryWorker WITH atEdge <- v1, blob <- v2,
    edge <- v3, puts <- v4, task <- v5, ask <- v6, reply <- v7, archive <- v8
=============================================================================
