-------------------------- MODULE DirectoryListing --------------------------
(***************************************************************************)
(* A folder's listing: its rows with what is staged of them, the keyboard, *)
(* selecting rows over several folders, cutting and pasting them, deleting *)
(* them as a batch, and the download of a folder in parts.  Others change  *)
(* the tree meanwhile.                                                     *)
(***************************************************************************)
EXTENDS Naturals, SequencesExt

CONSTANTS Subfolders, Leaves,     \* the folders and materials of the tree
          Drafted,                \* the folders of the draft
          MaxStaged,              \* bound: operations in the draft
          MaxArchives,            \* bound: the parts of a download
          MaxHeld,                \* bound: what is selected, cut and staged at once
          MaxSends,               \* bound: the batches being submitted
          MaxDepth                \* bound: folders of the draft entered one in another

VARIABLES parent,                 \* the server's tree
          here, rows, crumbs,     \* the folder of the page, its children and ancestors as told
          ghostDirStack,          \* the folders of the draft that are looked into
          focusedIndex, lastSelectedIndex,    \* 0 for null
          viewMode,
          selectMode, selected, clipboard,    \* the selection store
          draft,                  \* the staged deletions, moves and folders
          batch,                  \* batchDeleteOps or batchPasteOps
          submittingBatch, sends, \* the batches being submitted
          zip                     \* isDownloading, and the parts left to start

listingVars == <<parent, here, rows, crumbs, ghostDirStack, focusedIndex, lastSelectedIndex, viewMode, selectMode, selected, clipboard, draft, batch, submittingBatch, sends, zip>>
Told == <<here, rows, crumbs>>
Focus == <<focusedIndex, lastSelectedIndex>>
Selection == <<selectMode, selected, clipboard>>
Batch == <<batch, submittingBatch, sends>>

TreeItems == Subfolders \cup Leaves
Folders == Subfolders \cup {"root"}
Rowed == TreeItems \cup Drafted
Places == Folders \cup Drafted
Chosen == [of : Rowed, from : Places]
Ops == [kind : {"delete"}, of : Rowed, to : {"none"}] \cup [kind : {"move"}, of : Rowed, to : Places]
Creates == [kind : {"create"}, of : Drafted, to : Places]
NoBatch == [what |-> "none", ops |-> {}]
NoZip == [at |-> "none", left |-> 0]

TypeOK ==
    /\ parent \in [TreeItems -> Folders \cup {"gone"}]
    /\ here \in Folders \cup {"away"} /\ rows \subseteq TreeItems /\ crumbs \subseteq Folders
    /\ Len(ghostDirStack) <= MaxDepth
    /\ \A n \in DOMAIN ghostDirStack : ghostDirStack[n] \in Drafted \cup Subfolders
    /\ focusedIndex \in Nat /\ lastSelectedIndex \in Nat /\ viewMode \in {"list", "grid"}
    /\ selectMode \in BOOLEAN /\ selected \subseteq Chosen /\ clipboard \subseteq Chosen
    /\ Len(draft) <= MaxStaged /\ \A n \in DOMAIN draft : draft[n] \in Ops \cup Creates
    /\ batch.what \in {"none", "delete", "move"} /\ batch.ops \subseteq Ops
    /\ submittingBatch \in BOOLEAN /\ sends \subseteq {"delete", "move"} \X {"here", "left"}
    /\ zip \in [at : {"none", "asked", "parts", "cooling"}, left : 0..MaxArchives]

Init ==
    /\ parent = [i \in TreeItems |-> "root"]
    /\ here = "root" /\ rows = TreeItems /\ crumbs = {"root"} /\ ghostDirStack = <<>>
    /\ focusedIndex = 0 /\ lastSelectedIndex = 0 /\ viewMode = "grid"
    /\ selectMode = FALSE /\ selected = {} /\ clipboard = {}
    /\ draft = <<>> /\ batch = NoBatch /\ submittingBatch = FALSE /\ sends = {} /\ zip = NoZip

\* The bounds; what is done during a download, but for changing the page, is
\* left out, and so are the arrows and a change of view with anything held.
Held == Cardinality(selected) + Cardinality(clipboard) + Len(draft)
Bounded == Held <= MaxHeld /\ Cardinality(sends) <= MaxSends /\ (zip # NoZip => Held = 0 /\ sends = {} /\ Focus = <<0, 0>>)

-----------------------------------------------------------------------------
(* What is listed.                                                          *)
InDraft == ghostDirStack # <<>>
dirId == IF InDraft THEN Last(ghostDirStack) ELSE here
effective == IF InDraft THEN {} ELSE rows

\* What the draft creates in this folder or moves into it.
Ghosts(S) ==
    {draft[n].of : n \in {m \in DOMAIN draft : draft[m].kind # "delete" /\ draft[m].to = dirId}} \cap S

\* The rows in their order; a ghost stands for an operation of the draft.
Ordered(S, ghost) == SetToSeq({[of |-> i, ghost |-> ghost] : i \in S})
flatItems ==
    Ordered(effective \cap Subfolders, FALSE) \o Ordered(Ghosts(Subfolders \cup Drafted), TRUE)
        \o Ordered(effective \cap Leaves, FALSE) \o Ordered(Ghosts(Leaves), TRUE)

\* A row can be selected, with the folder it is listed in.
Selectable(n) == [of |-> flatItems[n].of, from |-> dirId]
allSelectableItems == {Selectable(n) : n \in DOMAIN flatItems}

\* What is said to be staged of an item is the first operation about it.
stagedStatus(i) ==
    LET about == SelectSeq(draft, LAMBDA o : o.of = i /\ o.kind # "create")
    IN  IF about = <<>> THEN "none" ELSE about[1].kind

\* The mark of a row of the list and of a card of the grid.
RowMark(n) == IF flatItems[n].ghost THEN "create" ELSE stagedStatus(flatItems[n].of)
CardMark(n) == IF flatItems[n].ghost THEN "create" ELSE stagedStatus(flatItems[n].of)

\* The folders that hold a folder, itself included, and what it holds.
Above(f) == {g \in Folders : g \in {"root", f} \/ (f \in Subfolders /\ parent[f] = g)}
Exists(f) == f = "root" \/ (f \in Subfolders /\ parent[f] # "gone")
Children(f) == {i \in TreeItems : parent[i] = f}

-----------------------------------------------------------------------------
(* The page of a folder.                                                    *)

\* The listing is mounted anew; the batches of the previous one go on.
Remounted ==
    /\ ghostDirStack' = <<>> /\ focusedIndex' = 0 /\ lastSelectedIndex' = 0
    /\ batch' = NoBatch /\ submittingBatch' = FALSE /\ zip' = NoZip
    /\ sends' = {<<s[1], "left">> : s \in sends}

Away == here' = "away" /\ rows' = {} /\ crumbs' = {} /\ Remounted

\* A listing that is cached keeps the component, and a folder of the draft that
\* is looked into; the focus is forgotten.
Arrive(f, cached) ==
    /\ here' = f /\ rows' = Children(f) /\ crumbs' = Above(f)
    /\ IF cached /\ here # "away"
       THEN /\ focusedIndex' = 0 /\ lastSelectedIndex' = 0
            /\ UNCHANGED <<ghostDirStack, Batch, zip>>
       ELSE Remounted

Follow(f, cached) ==
    /\ IF Exists(f) THEN Arrive(f, cached) ELSE Away
    /\ UNCHANGED <<parent, viewMode, Selection, draft>>

\* By the breadcrumbs, the tree of the sidebar and the history.
GoTo(f, cached) ==
    /\ f \in Folders \ {here}
    /\ f \in crumbs \cup rows \/ (here = "away" /\ f = "root")
    /\ Follow(f, cached)

\* To another page.
Leave ==
    /\ here # "away" /\ Away
    /\ UNCHANGED <<parent, viewMode, Selection, draft>>

\* Others move and delete what is in the tree (the bound: each item once).
OthersChange(i, to) ==
    /\ parent[i] = "root" /\ to # "root" /\ to # i
    /\ to \in Subfolders => i \in Leaves /\ parent[to] # "gone"
    /\ parent' = [parent EXCEPT ![i] = to]
    /\ UNCHANGED <<Told, ghostDirStack, Focus, viewMode, Selection, draft, Batch, zip>>

\* The page asks again; a folder that is gone shows an error instead.
refresh ==
    /\ here # "away"
    /\ <<rows, crumbs>> # <<Children(here), Above(here)>> \/ ~Exists(here)
    /\ IF Exists(here)
       THEN /\ rows' = Children(here) /\ crumbs' = Above(here)
            /\ UNCHANGED <<here, ghostDirStack, Focus, Batch, zip>>
       ELSE Away
    /\ UNCHANGED <<parent, viewMode, Selection, draft>>

-----------------------------------------------------------------------------
(* Rows.                                                                    *)
OnListing == here # "away" /\ batch = NoBatch
Stays == UNCHANGED <<parent, Told>>

setViewMode(mode) ==
    /\ OnListing /\ ~selectMode /\ Held = 0 /\ Focus = <<0, 0>> /\ mode # viewMode /\ viewMode' = mode
    /\ Stays /\ UNCHANGED <<ghostDirStack, Focus, Selection, draft, Batch, zip>>

enterGhostDir(n) ==
    /\ ghostDirStack' = Append(ghostDirStack, flatItems[n].of)
    /\ Stays /\ UNCHANGED <<Focus, viewMode, Selection, draft, Batch, zip>>

\* A row leads to its folder, one of the draft (or staged to move) is entered
\* where it is; one marked as deleted does nothing.
Unmarked(mark) == OnListing /\ ~selectMode /\ mark # "delete"
IsGhostDir(n) == flatItems[n].ghost /\ flatItems[n].of \notin Leaves
PressFolder(n, cached) ==
    \/ IsGhostDir(n) /\ Len(ghostDirStack) < MaxDepth /\ enterGhostDir(n)
    \/ ~flatItems[n].ghost /\ flatItems[n].of \in Subfolders /\ Follow(flatItems[n].of, cached)

PressRow(n, cached) == viewMode = "list" /\ Unmarked(RowMark(n)) /\ PressFolder(n, cached)
PressCard(n, cached) == viewMode = "grid" /\ Unmarked(CardMark(n)) /\ PressFolder(n, cached)

\* A material's row leads to its page (one of the draft opens the draft's drawer).
PressLeaf(n) == ~flatItems[n].ghost /\ flatItems[n].of \in Leaves /\ Leave
PressLeafRow(n) == viewMode = "list" /\ Unmarked(RowMark(n)) /\ PressLeaf(n)
PressLeafCard(n) == viewMode = "grid" /\ Unmarked(CardMark(n)) /\ PressLeaf(n)

\* Back by one folder of the draft, or to the one that is pressed above them.
goBack(depth) ==
    /\ OnListing /\ depth < Len(ghostDirStack)
    /\ ghostDirStack' = SubSeq(ghostDirStack, 1, depth)
    /\ Stays /\ UNCHANGED <<Focus, viewMode, Selection, draft, Batch, zip>>

\* The arrows and Enter; what is listed may have shrunk since.
Arrow(key) ==
    /\ here # "away" /\ ~selectMode /\ Held = 0 /\ sends = {} /\ flatItems # <<>>
    /\ focusedIndex' =
          CASE focusedIndex = 0 -> IF key = "down" THEN 1 ELSE Len(flatItems)
            [] key = "down" -> IF focusedIndex < Len(flatItems) THEN focusedIndex + 1 ELSE Len(flatItems)
            [] OTHER -> IF focusedIndex > 1 THEN focusedIndex - 1 ELSE 1
    /\ Stays /\ UNCHANGED <<ghostDirStack, lastSelectedIndex, viewMode, Selection, draft, Batch, zip>>

Enter ==
    /\ here # "away" /\ ~selectMode /\ focusedIndex \in DOMAIN flatItems
    /\ PressFolder(focusedIndex, TRUE) \/ PressLeaf(focusedIndex)

-----------------------------------------------------------------------------
(* Selecting.                                                               *)

\* The selection mode is left or entered, and with it the focus forgotten.
Mode(on, chosen) ==
    /\ selectMode' = on /\ selected' = chosen
    /\ IF on # selectMode THEN focusedIndex' = 0 /\ lastSelectedIndex' = 0 ELSE UNCHANGED Focus

setSelectMode(on) ==
    /\ OnListing /\ on # selectMode /\ (on => flatItems # <<>>)
    /\ Mode(on, IF on THEN selected ELSE {})
    /\ Stays /\ UNCHANGED <<ghostDirStack, viewMode, clipboard, draft, Batch, zip>>

\* The selection is by item: a second choice of one replaces the first.
Without(S) == {c \in selected : ~\E d \in S : d.of = c.of}
Select(S) == Without(S) \cup S
toggle(c) == IF Without({c}) # selected THEN Without({c}) ELSE selected \cup {c}

Span(a, b) == (IF a < b THEN a ELSE b)..(IF a < b THEN b ELSE a)

\* With the shift key a range is selected, from the row of the last press; the
\* press does nothing when the list no longer reaches that row.
handleToggleItem(n, shift) ==
    /\ OnListing /\ selectMode /\ n \in DOMAIN flatItems
    /\ IF shift /\ lastSelectedIndex # 0
       THEN /\ Span(lastSelectedIndex, n) \subseteq DOMAIN flatItems
            /\ selected' = Select({Selectable(m) : m \in Span(lastSelectedIndex, n)})
       ELSE selected' = toggle(Selectable(n))
    /\ lastSelectedIndex' = n
    /\ Stays /\ UNCHANGED <<ghostDirStack, focusedIndex, viewMode, selectMode, clipboard, draft, Batch, zip>>

Everything == allSelectableItems # {} /\ \A c \in allSelectableItems : \E d \in selected : d.of = c.of
toggleAll ==
    /\ OnListing /\ selectMode
    /\ selected' = IF Everything THEN Without(allSelectableItems) ELSE Select(allSelectableItems)
    /\ Stays /\ UNCHANGED <<ghostDirStack, Focus, viewMode, selectMode, clipboard, draft, Batch, zip>>

handleCut ==
    /\ OnListing /\ selectMode /\ selected # {}
    /\ \A c \in selected : stagedStatus(c.of) # "delete"
    /\ clipboard' = selected /\ Mode(FALSE, {})
    /\ Stays /\ UNCHANGED <<ghostDirStack, viewMode, draft, Batch, zip>>

clearClipboard ==
    /\ OnListing /\ ~selectMode /\ clipboard # {} /\ clipboard' = {}
    /\ Stays /\ UNCHANGED <<ghostDirStack, Focus, viewMode, selectMode, selected, draft, Batch, zip>>

-----------------------------------------------------------------------------
(* Batches.                                                                 *)

\* Only items that are not staged to be deleted; there may be none.
handleBatchDelete ==
    /\ OnListing /\ selectMode /\ selected # {}
    /\ LET ops == {[kind |-> "delete", of |-> c.of, to |-> "none"] :
                      c \in {d \in selected : stagedStatus(d.of) # "delete"}}
       IN  IF ops = {} THEN Mode(FALSE, {}) /\ UNCHANGED batch
           ELSE batch' = [what |-> "delete", ops |-> ops] /\ UNCHANGED <<selectMode, selected, Focus>>
    /\ Stays /\ UNCHANGED <<ghostDirStack, viewMode, clipboard, draft, submittingBatch, sends, zip>>

ancestorIds == crumbs \cup {dirId}
handlePaste ==
    /\ OnListing /\ ~selectMode
    /\ LET safe == {c \in clipboard : c.of \notin ancestorIds /\ c.from # dirId}
       IN  /\ safe # {}
           /\ batch' = [what |-> "move", ops |-> {[kind |-> "move", of |-> c.of, to |-> dirId] : c \in safe}]
    /\ Stays /\ UNCHANGED <<ghostDirStack, Focus, viewMode, Selection, draft, submittingBatch, sends, zip>>

\* What is confirmed ends the selection, or empties the clipboard.
Over(what) ==
    IF what = "delete" THEN Mode(FALSE, {}) /\ UNCHANGED clipboard
    ELSE clipboard' = {} /\ UNCHANGED <<selectMode, selected, Focus>>

CloseBatch ==
    /\ batch # NoBatch /\ batch' = NoBatch
    /\ Stays /\ UNCHANGED <<ghostDirStack, Focus, viewMode, Selection, draft, submittingBatch, sends, zip>>

StageBatch ==
    /\ batch # NoBatch /\ ~submittingBatch /\ Len(draft) + Cardinality(batch.ops) <= MaxStaged
    /\ draft' = draft \o SetToSeq(batch.ops) /\ batch' = NoBatch /\ Over(batch.what)
    /\ Stays /\ UNCHANGED <<ghostDirStack, viewMode, submittingBatch, sends, zip>>

SubmitBatch ==
    /\ batch # NoBatch /\ ~submittingBatch /\ (batch.what = "move" => dirId \notin Drafted)
    /\ submittingBatch' = TRUE /\ sends' = sends \cup {<<batch.what, "here">>}
    /\ Stays /\ UNCHANGED <<ghostDirStack, Focus, viewMode, Selection, draft, batch, zip>>

\* As if the answer did not tell that nothing is under way.
SettlesSilently(s) == s \in sends /\ sends' = sends \ {s} /\ UNCHANGED submittingBatch

\* The answer of a batch; the dialog may have been closed and opened since.
Settles(s) == /\ s \in sends /\ sends' = sends \ {s}
              /\ submittingBatch' = (submittingBatch /\ s[2] = "left")

Failed(s) ==
    /\ Settles(s)
    /\ Stays /\ UNCHANGED <<ghostDirStack, Focus, viewMode, Selection, draft, batch, zip>>

Submitted(s) ==
    /\ Settles(s) /\ Over(s[1])
    /\ batch' = IF s[2] = "here" /\ batch.what = s[1] THEN NoBatch ELSE batch
    /\ Stays /\ UNCHANGED <<ghostDirStack, viewMode, draft, zip>>

-----------------------------------------------------------------------------
(* The draft, as other parts of the page change it.                         *)
OnDraft == Stays /\ UNCHANGED <<ghostDirStack, Focus, viewMode, Selection, Batch, zip>>

NewFolder(g) ==
    /\ OnListing /\ ~selectMode /\ Len(draft) < MaxStaged
    /\ \A n \in DOMAIN draft : draft[n].of # g
    /\ draft' = Append(draft, [kind |-> "create", of |-> g, to |-> dirId]) /\ OnDraft

\* The menu of a row, which a card does not show while items are selected.
DeleteFromMenu(n) ==
    /\ OnListing /\ (viewMode = "grid" => ~selectMode) /\ Len(draft) < MaxStaged
    /\ n \in DOMAIN flatItems /\ RowMark(n) = "none"
    /\ draft' = Append(draft, [kind |-> "delete", of |-> flatItems[n].of, to |-> "none"]) /\ OnDraft

DraftGoes == draft # <<>> /\ draft' = <<>> /\ OnDraft

-----------------------------------------------------------------------------
(* The download of a folder: one link, or parts one and a half seconds apart. *)
isDownloading == zip # NoZip
PartsLeft(n) == [at |-> IF n = 0 THEN "cooling" ELSE "parts", left |-> n]
OnZip == Stays /\ UNCHANGED <<ghostDirStack, Focus, viewMode, Selection, draft, Batch>>

handleDownloadZip ==
    /\ OnListing /\ ~selectMode /\ ~InDraft /\ ~isDownloading
    /\ zip' = [at |-> "asked", left |-> 0] /\ OnZip

\* The first part starts at once; there may be none that is not too large.
ChunksArrive(n) == zip.at = "asked" /\ zip' = PartsLeft(IF n = 0 THEN 0 ELSE n - 1) /\ OnZip
PartStarts == zip.at = "parts" /\ zip' = PartsLeft(zip.left - 1) /\ OnZip
ButtonReturns == zip.at = "cooling" /\ zip' = NoZip /\ OnZip

Steps ==
    \/ \E f \in Folders, cached \in BOOLEAN : GoTo(f, cached)
    \/ Leave \/ refresh
    \/ \E i \in TreeItems, to \in Folders \cup {"gone"} : OthersChange(i, to)
    \/ \E mode \in {"list", "grid"} : setViewMode(mode)
    \/ \E n \in DOMAIN flatItems :
          \/ PressLeafRow(n) \/ PressLeafCard(n) \/ DeleteFromMenu(n)
          \/ \E cached \in BOOLEAN : PressRow(n, cached) \/ PressCard(n, cached)
          \/ \E shift \in BOOLEAN : handleToggleItem(n, shift)
    \/ \E depth \in 0..MaxDepth : goBack(depth)
    \/ \E key \in {"down", "up"} : Arrow(key)
    \/ Enter
    \/ \E on \in BOOLEAN : setSelectMode(on)
    \/ toggleAll \/ handleCut \/ clearClipboard
    \/ handleBatchDelete \/ handlePaste \/ CloseBatch \/ StageBatch \/ SubmitBatch
    \/ \E s \in sends : Failed(s) \/ Submitted(s)
    \/ \E g \in Drafted : NewFolder(g)
    \/ DraftGoes
    \/ handleDownloadZip \/ PartStarts \/ ButtonReturns
    \/ \E n \in 0..MaxArchives : ChunksArrive(n)

Next == Steps /\ Bounded'

Spec == Init /\ [][Next]_listingVars

-----------------------------------------------------------------------------
\* The buttons of a batch are disabled only while a batch of this listing is
\* under way: whatever was closed, left or opened again, they come back.
BatchesEnd == submittingBatch => \E s \in sends : s[2] = "here"

-----------------------------------------------------------------------------
(* Inductive strengthening of TypeOK: what bounds the folders that are open, *)
(* the draft and the archives of a folder.                                   *)
TreeFits ==
    /\ parent \in [TreeItems -> Folders \cup {"gone"}]
    /\ here \in Folders \cup {"away"} /\ rows \subseteq TreeItems /\ crumbs \subseteq Folders
    /\ viewMode \in {"list", "grid"}

StackFits == ghostDirStack \in Seq(Drafted \cup Subfolders) /\ Len(ghostDirStack) <= MaxDepth

FocusFits == focusedIndex \in Nat /\ lastSelectedIndex \in Nat

SelectionFits == selectMode \in BOOLEAN /\ selected \subseteq Chosen /\ clipboard \subseteq Chosen

DraftFits == draft \in Seq(Ops \cup Creates) /\ Len(draft) <= MaxStaged

BatchFits ==
    /\ batch = NoBatch \/ batch \in [what : {"delete", "move"}, ops : SUBSET Ops]
    /\ submittingBatch \in BOOLEAN /\ sends \subseteq {"delete", "move"} \X {"here", "left"}

ZipFits ==
    /\ zip \in [at : {"none", "asked", "parts", "cooling"}, left : 0..MaxArchives]
    /\ zip.at = "parts" => zip.left > 0

ListingFits ==
    TreeFits /\ StackFits /\ FocusFits /\ SelectionFits /\ DraftFits /\ BatchFits /\ ZipFits

\* What flatItems is a sequence of.
RowRecords == [of : Rowed, ghost : BOOLEAN]
=============================================================================
