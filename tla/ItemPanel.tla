----------------------------- MODULE ItemPanel ------------------------------
(***************************************************************************)
(* The inspector in the sidebar: the tab and the target the store holds,   *)
(* and what the tabs fetch about the target.  A tab is mounted only while  *)
(* it is shown; from one material to the next the details stay mounted,    *)
(* and what they fetched for the last one stays until it is replaced.      *)
(* Every material has an author of its own, who stands under its name.     *)
(***************************************************************************)
EXTENDS Naturals, FiniteSets

CONSTANTS Items,             \* materials
          WithAttachments,   \* those that have attachments
          MaxChores          \* bound: staff requests under way at a time

VARIABLES target, tab, open, \* sidebarTarget, sidebarTab, sidebarOpen
          preview,           \* the page previews a pull request
          names, asking,     \* authorNameCache, authorNameInflight
          author, awaited,   \* the name shown; the one the last effect waits for
          unfolded,          \* attachmentsOpen
          attached, fetches, \* the attachments shown; requests for some
          edits, queries,    \* the open edits shown; requests for some
          editsFailed,       \* the last such request failed
          chores             \* staff requests under way

panelVars == <<target, tab, open, preview, names, asking, author, awaited, unfolded, attached, fetches, edits, queries, editsFailed, chores>>

Targets == Items \cup {"folder"}
Shown == Targets \cup {"none"}
Queries == [of : Targets, live : BOOLEAN]
ForFolders == {"icon", "colour", "status"}
ForMaterials == {"thumbnail", "status"}

TypeOK ==
    /\ target \in Shown /\ tab \in {"details", "chat", "edits"} /\ open \in BOOLEAN /\ preview \in BOOLEAN
    /\ names \in [Items -> {"unasked", "known", "unknown"}] /\ asking \subseteq Items
    /\ author \in Items \cup {"none"} /\ awaited \in Items \cup {"none"}
    /\ unfolded \in BOOLEAN /\ attached \in Items \cup {"none"} /\ fetches \subseteq Items
    /\ edits \in Shown /\ queries \subseteq Queries /\ editsFailed \in BOOLEAN
    /\ chores \subseteq ForFolders \cup ForMaterials

Init ==
    /\ target = "none" /\ tab = "details" /\ open = FALSE /\ preview = FALSE
    /\ names = [i \in Items |-> "unasked"] /\ asking = {} /\ author = "none" /\ awaited = "none"
    /\ unfolded = FALSE /\ attached = "none" /\ fetches = {}
    /\ edits = "none" /\ queries = {} /\ editsFailed = FALSE /\ chores = {}

-----------------------------------------------------------------------------
(* What is mounted, and the effects that run when that changes.            *)
Detailed(tgt, tb, op) == op /\ tb = "details" /\ tgt \in Items
Edited(tgt, tb, op) == op /\ tb = "edits" /\ tgt # "none"

AuthorEffect(tgt, on, was) ==
    /\ author' = IF ~on THEN "none"
                 ELSE IF names[tgt] # "unasked" THEN tgt
                 ELSE IF was THEN author ELSE "none"
    /\ awaited' = IF on /\ names[tgt] = "unasked" THEN tgt ELSE "none"
    /\ asking' = asking \cup ({awaited'} \ {"none"})

AttachmentsEffect(tgt, on, was) ==
    /\ unfolded' = (on /\ IF was THEN unfolded ELSE tgt \in WithAttachments)
    /\ attached' = IF on /\ was THEN attached ELSE "none"
    /\ fetches' = IF ~on THEN {}
                  ELSE IF unfolded' /\ ~(was /\ tgt = target) THEN fetches \cup {tgt} ELSE fetches

\* The tab of the edits asks again whenever the target is another object.
EditsEffect(tgt, on, was, anew) ==
    /\ edits' = IF on /\ was THEN edits ELSE "none"
    /\ queries' = IF ~on THEN {}
                  ELSE IF anew \/ ~was THEN {[q EXCEPT !.live = FALSE] : q \in queries} \cup {[of |-> tgt, live |-> TRUE]}
                  ELSE queries
    /\ editsFailed' = (editsFailed /\ on /\ was /\ ~anew)

\* "anew": the target is another object, if not another item.
Show(tgt, tb, op, anew) ==
    /\ target' = tgt /\ tab' = tb /\ open' = op
    /\ AuthorEffect(tgt, Detailed(tgt, tb, op), Detailed(target, tab, open))
    /\ AttachmentsEffect(tgt, Detailed(tgt, tb, op), Detailed(target, tab, open))
    /\ EditsEffect(tgt, Edited(tgt, tb, op), Edited(target, tab, open), anew)
    /\ UNCHANGED names

-----------------------------------------------------------------------------
(* The store.                                                              *)

\* A preview has details only.
Fallback(tb, restricted) == IF restricted THEN "details" ELSE tb

\* setSidebarTarget, by the page of a material or of a folder
Navigate(i, p) ==
    /\ preview' = p /\ Show(i, Fallback(tab, p), open, TRUE)
    /\ UNCHANGED chores

\* openSidebar: what the menu of an item, the toolbar and the sheet of its page offer
InMenu == {"details"} \cup (IF preview THEN {} ELSE {"chat"})
InToolbar == {"details"}
InSheet == {"details"} \cup (IF preview THEN {} ELSE {"chat", "edits"})

OpenSidebar(i, tb) ==
    /\ \/ tb \in InMenu
       \/ tb \in InToolbar \cup InSheet /\ i = target
    /\ Show(i, tb, TRUE, TRUE) /\ UNCHANGED <<preview, chores>>

CloseSidebar ==
    /\ open /\ Show(target, tab, FALSE, FALSE) /\ UNCHANGED <<preview, chores>>

SetTab(tb) ==
    /\ open /\ tb # tab /\ tb = Fallback(tb, preview)
    /\ Show(target, tb, open, FALSE) /\ UNCHANGED <<preview, chores>>

-----------------------------------------------------------------------------
(* The details.                                                            *)

\* mutant: the effect of another material still sets the name
NamedAnyway(i) == author' = IF Detailed(target, tab, open) THEN i ELSE author

Named(i) == author' = IF awaited = i THEN i ELSE author

\* A name that could not be had is "unknown" for the rest of the session.
NameResolved(i, as) ==
    /\ i \in asking /\ asking' = asking \ {i} /\ names' = [names EXCEPT ![i] = as]
    /\ Named(i) /\ awaited' = IF awaited = i THEN "none" ELSE awaited
    /\ UNCHANGED <<target, tab, open, preview, unfolded, attached, fetches, edits, queries, editsFailed, chores>>

\* Also what closing the drawer of uploads does; a fold asks for nothing.
ToggleAttachments(was) ==
    /\ Detailed(target, tab, open)
    /\ unfolded = was /\ unfolded' = ~was
    /\ fetches' = IF was THEN fetches ELSE fetches \cup {target}
    /\ UNCHANGED <<target, tab, open, preview, names, asking, author, awaited, attached, edits, queries, editsFailed, chores>>

\* refreshAttachments, after an upload, an edit or a deletion of one
RefreshAttachments ==
    /\ Detailed(target, tab, open) /\ ~preview /\ unfolded
    /\ fetches' = fetches \cup {target}
    /\ UNCHANGED <<target, tab, open, preview, names, asking, author, awaited, unfolded, attached, edits, queries, editsFailed, chores>>

\* Whatever material the details are about by now.
AttachmentsAnswered(i, got) ==
    /\ i \in fetches /\ fetches' = fetches \ {i} /\ attached' = got
    /\ UNCHANGED <<target, tab, open, preview, names, asking, author, awaited, unfolded, edits, queries, editsFailed, chores>>

\* The staff starts one from the details, or for any item from its menu.
FolderChore(c) == open /\ tab = "details" /\ target = "folder" /\ c \in ForFolders
MaterialChore(c) == Detailed(target, tab, open) /\ c \in ForMaterials
MenuChore(c) == c = "status"

StartChore(c) ==
    /\ ~preview /\ (FolderChore(c) \/ MaterialChore(c) \/ MenuChore(c))
    /\ chores' = chores \cup {c} /\ Cardinality(chores') <= MaxChores
    /\ UNCHANGED <<target, tab, open, preview, names, asking, author, awaited, unfolded, attached, fetches, edits, queries, editsFailed>>

\* handleSelectStatus of a badge, which shows the status before it is set
BadgeStatus ==
    /\ target # "none" /\ "status" \notin chores
    /\ chores' = chores \cup {"status"} /\ Cardinality(chores') <= MaxChores
    /\ Show(target, tab, open, TRUE) /\ UNCHANGED preview

\* updateSidebarData patches the target the sidebar has by now.
ChoreDone(c) ==
    /\ c \in chores /\ chores' = chores \ {c}
    /\ Show(target, tab, open, c # "thumbnail") /\ UNCHANGED preview

\* Only a badge takes back what it showed.
ChoreFails(c, badge) ==
    /\ c \in chores /\ chores' = chores \ {c} /\ (badge => c = "status")
    /\ Show(target, tab, open, badge) /\ UNCHANGED preview

-----------------------------------------------------------------------------
(* The edits.                                                              *)
EditsAnswered(q) ==
    /\ q \in queries /\ queries' = queries \ {q}
    /\ edits' = IF q.live THEN q.of ELSE edits
    /\ UNCHANGED <<target, tab, open, preview, names, asking, author, awaited, unfolded, attached, fetches, editsFailed, chores>>

\* The last list stays.
EditsFail(q) ==
    /\ q \in queries /\ queries' = queries \ {q} /\ editsFailed' = (editsFailed \/ q.live)
    /\ UNCHANGED <<target, tab, open, preview, names, asking, author, awaited, unfolded, attached, fetches, edits, chores>>

Next ==
    \/ \E i \in Targets : \/ \E p \in BOOLEAN : Navigate(i, p)
                          \/ \E tb \in {"details", "chat", "edits"} : OpenSidebar(i, tb)
    \/ CloseSidebar
    \/ \E tb \in {"details", "chat", "edits"} : SetTab(tb)
    \/ \E i \in Items : \/ \E as \in {"known", "unknown"} : NameResolved(i, as)
                        \/ \E got \in {i, "none"} : AttachmentsAnswered(i, got)
    \/ \E was \in BOOLEAN : ToggleAttachments(was)
    \/ RefreshAttachments
    \/ \E c \in ForFolders \cup ForMaterials : \/ StartChore(c) \/ ChoreDone(c)
                                              \/ \E badge \in BOOLEAN : ChoreFails(c, badge)
    \/ BadgeStatus
    \/ \E q \in queries : EditsAnswered(q) \/ EditsFail(q)

Spec == Init /\ [][Next]_panelVars

-----------------------------------------------------------------------------
(* With no request of theirs under way the name of the author and the list  *)
(* of edits are those of the item in the sidebar, however many items were   *)
(* looked at meanwhile and in whatever order the answers came.  (A list of  *)
(* edits that could not be fetched leaves the last one.)                    *)
PanelIsTargets ==
    /\ Detailed(target, tab, open) /\ target \notin asking => author = target
    /\ Edited(target, tab, open) /\ ~editsFailed /\ (\A q \in queries : ~q.live) => edits = target

\* The details show the author of their material, or wait for his name; what
\* they wait for is of the material they are about.
AuthorIsTargets ==
    /\ names \in [Items -> {"unasked", "known", "unknown"}]
    /\ Detailed(target, tab, open) =>
          IF names[target] = "unasked" THEN awaited = target /\ target \in asking
                                       ELSE author = target
    /\ awaited # "none" => Detailed(target, tab, open) /\ awaited = target

\* A request for edits that counts is about the target.
QueriesAreTargets ==
    /\ \A q \in queries : q = [of |-> q.of, live |-> q.live]
    /\ \A q \in queries : q.live => q.of = target

\* What keeps PanelIsTargets.
PanelInv == PanelIsTargets /\ AuthorIsTargets /\ QueriesAreTargets
=============================================================================
