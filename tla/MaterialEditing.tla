--------------------------- MODULE MaterialEditing ---------------------------
(***************************************************************************)
(* The dialog in which a member edits a file and its title: the menu of a  *)
(* row mounts it when it opens, the actions of a material's page on a      *)
(* phone keep it mounted.  An edit goes to the draft or is submitted; when *)
(* it is approved it must name the version it replaces.                    *)
(***************************************************************************)
EXTENDS Naturals, FiniteSets, Functions

CONSTANTS Contents,      \* the materials
          Texts,         \* those whose file is edited as text, the others' is replaced
          MaxReads,      \* bound: requests for a text that are under way
          MaxEdits       \* bound: edits, published or on their way, of everyone

VARIABLES head, seen,         \* version_lock of the published version, of the page's copy
          place, target,      \* the page; the material the dialog is for
          open, tab,
          base, dirty,        \* originalTextRef: the text loaded; it was changed
          title, retitled,    \* whose title the form started from; it was changed
          loads, loading, failed,
          panel, picks,       \* the upload shown; the uploads under way
          replacement,        \* replacementFile
          busy,               \* savingText or submitting
          saves,              \* what was pressed and is under way
          drafts, contributions,
          history             \* the edits published

Server == <<head, history>>
Form == <<base, dirty, title, retitled, failed, replacement>>
Reading == <<loads, loading>>
Picking == <<panel, picks>>
Sent == <<saves, drafts, contributions>>
editVars == <<Server, seen, place, target, open, tab, Form, Reading, Picking, busy, Sent>>

Versions == 0..MaxEdits
Sources == [item : Contents, version : Versions]
Edits == [item : Contents, lock : Versions, kind : {"text", "file", "title"}, of : Contents, version : Versions]
Reads == [item : Contents, since : Versions, n : 1..MaxReads]
Saves == [ops : SUBSET Edits, mode : {"draft", "direct"}, step : {"text", "submit"},
          at : {"directory", "material", "gone"}, item : Contents, mounted : BOOLEAN]
AtMostOne(S) == Cardinality(S) <= 1

TypeOK ==
    /\ head \in [Contents -> Versions] /\ seen \in [Contents -> Versions]
    /\ \A i \in Contents : seen[i] <= head[i]
    /\ place \in {"directory", "material"} /\ target \in Contents
    /\ open \in BOOLEAN /\ tab \in {"content", "metadata"}
    /\ base \subseteq Sources /\ AtMostOne(base) /\ dirty \in BOOLEAN
    /\ title \in Contents /\ retitled \in BOOLEAN
    /\ loads \subseteq Reads /\ loading \in BOOLEAN /\ failed \in BOOLEAN
    /\ panel \in {"idle", "uploading", "done", "error"} /\ picks \subseteq [of : Contents, shown : BOOLEAN]
    /\ replacement \subseteq Contents /\ AtMostOne(replacement)
    /\ busy \in BOOLEAN /\ \A s \in saves : s \in Saves
    /\ drafts \subseteq Edits /\ \A c \in contributions : c \subseteq Edits
    /\ \A h \in history : h.edit \in Edits /\ h.replaces \in Versions

Init ==
    /\ head = [i \in Contents |-> 0] /\ seen = head /\ history = {}
    /\ place = "directory" /\ target = (CHOOSE i \in Contents : TRUE)
    /\ open = FALSE /\ tab = "content" /\ base = {} /\ dirty = FALSE
    /\ title = target /\ retitled = FALSE /\ failed = FALSE /\ replacement = {}
    /\ loads = {} /\ loading = FALSE
    /\ panel = "idle" /\ picks = {} /\ busy = FALSE
    /\ saves = {} /\ drafts = {} /\ contributions = {}

-----------------------------------------------------------------------------
(* Opening, closing and moving about.                                       *)

\* The effect that loads the text, of the render the primed variables give.
LoadText ==
    IF open' /\ tab' = "content" /\ target' \in Texts /\ base' = {}
    THEN \E n \in 1..MaxReads :
            /\ \A l \in loads : l.n # n
            /\ loads' = loads \cup {[item |-> target', since |-> head[target'], n |-> n]}
            /\ loading' = TRUE /\ failed' = FALSE
    ELSE UNCHANGED <<loads, loading, failed>>

\* The bound: of the last edit, by whomever, only the fate is followed.
Edited == SumFunction(head)
Room == Edited + Cardinality(drafts) + Cardinality(contributions) < MaxEdits

\* A dialog that is mounted anew; what the previous one awaited reaches nothing.
Mounted(i) ==
    /\ target' = i /\ tab' = "content" /\ base' = {} /\ dirty' = FALSE
    /\ title' = i /\ retitled' = FALSE /\ replacement' = {}
    /\ panel' = "idle" /\ picks' = {} /\ busy' = FALSE

Fresh(i) == Mounted(i) /\ loads' = {} /\ loading' = FALSE /\ failed' = FALSE

\* As a dialog that is not mounted anew would open.
OpenKept(i) ==
    /\ Room /\ place = "directory" /\ ~open /\ open' = TRUE /\ target' = i
    /\ UNCHANGED <<Server, seen, place, tab, base, dirty, title, retitled, replacement, Picking, busy, Sent>>
    /\ LoadText

OpenFromRow(i) ==
    /\ Room /\ place = "directory" /\ ~open /\ open' = TRUE /\ Mounted(i)
    /\ UNCHANGED <<Server, seen, place, Sent>>
    /\ LoadText

\* The dialog is mounted already, and keeps what it held.
OpenFromActions ==
    /\ Room /\ place = "material" /\ ~open /\ open' = TRUE
    /\ UNCHANGED <<Server, seen, place, target, tab, base, dirty, title, retitled, replacement, Picking, busy, Sent>>
    /\ LoadText

\* The tab that showed an upload is gone (two that go on of one material are one).
Hidden == panel' = "idle" /\ picks' = {[p EXCEPT !.shown = FALSE] : p \in picks}

Unmounts ==
    IF place = "directory" THEN Fresh(target)
    ELSE Hidden /\ UNCHANGED <<target, tab, Form, Reading, busy>>

Detached == {[s EXCEPT !.mounted = @ /\ place = "material"] : s \in saves}

Close ==
    /\ Room /\ open /\ open' = FALSE /\ Unmounts /\ saves' = Detached
    /\ UNCHANGED <<Server, seen, place, drafts, contributions>>

\* To the page of a material, or back to a listing: the dialog there is another.
GoTo(i, there) ==
    /\ Room /\ place # there /\ place' = there /\ open' = FALSE /\ Fresh(i)
    /\ saves' = {[s EXCEPT !.at = "gone", !.mounted = FALSE] : s \in saves}
    /\ UNCHANGED <<Server, seen, drafts, contributions>>

\* Between two materials whose listings are cached the page stays mounted.
GoAcross(i) ==
    /\ Room /\ place = "material" /\ i # target /\ target' = i
    /\ UNCHANGED <<Server, seen, place, open, tab, base, dirty, title, retitled, replacement, Picking, busy, Sent>>
    /\ LoadText

\* Others' edits are published; the page fetches its listing again.
OtherEdits(i) ==
    /\ Room
    /\ head' = [head EXCEPT ![i] = @ + 1]
    /\ UNCHANGED <<history, seen, place, target, open, tab, Form, Reading, Picking, busy, Sent>>

fetchData(i) ==
    /\ seen[i] < head[i] /\ seen' = [seen EXCEPT ![i] = head[i]]
    /\ UNCHANGED <<Server, place, target, open, tab, Form, Reading, Picking, busy, Sent>>

-----------------------------------------------------------------------------
(* The forms.                                                               *)
InForm == Room /\ open /\ UNCHANGED <<Server, seen, place, open, target, busy, Sent>>

\* The other tab's content is unmounted, the uploads it started go on.
SwitchTab(to) ==
    /\ InForm /\ tab # to /\ tab' = to /\ Hidden
    /\ UNCHANGED <<base, dirty, title, retitled, replacement>>
    /\ LoadText

Type ==
    /\ InForm /\ tab = "content" /\ target \in Texts /\ ~loading /\ ~failed /\ base # {}
    /\ ~dirty /\ dirty' = TRUE
    /\ UNCHANGED <<tab, base, title, retitled, failed, replacement, Reading, Picking>>

Retitle ==
    /\ InForm /\ tab = "metadata" /\ ~busy /\ ~retitled /\ retitled' = TRUE
    /\ UNCHANGED <<tab, base, dirty, title, failed, replacement, Reading, Picking>>

TextArrives(l) ==
    /\ Room /\ l \in loads /\ loads' = loads \ {l} /\ loading' = FALSE
    /\ \E v \in l.since..head[l.item] : base' = {[item |-> l.item, version |-> v]}
    /\ dirty' = FALSE
    /\ UNCHANGED <<Server, seen, place, target, open, tab, title, retitled, failed, replacement, Picking, busy, Sent>>

TextFails(l) ==
    /\ Room /\ l \in loads /\ loads' = loads \ {l} /\ loading' = FALSE /\ failed' = TRUE
    /\ UNCHANGED <<Server, seen, place, target, open, tab, base, dirty, title, retitled, replacement, Picking, busy, Sent>>

\* Trying again leaves the tab, and a timer then switches back to it.
TryAgain ==
    /\ InForm /\ tab = "content" /\ target \in Texts /\ failed /\ ~loading
    /\ base' = {} /\ failed' = FALSE /\ tab' = "metadata"
    /\ UNCHANGED <<dirty, title, retitled, replacement, loads, loading, Picking>>

\* A file is dropped; its upload outlives the tab that shows it.
handleFile ==
    /\ InForm /\ tab = "content" /\ target \notin Texts /\ panel = "idle"
    /\ picks' = picks \cup {[of |-> target, shown |-> TRUE]} /\ panel' = "uploading"
    /\ UNCHANGED <<tab, Form, Reading>>

FileReady(p) ==
    /\ Room /\ p \in picks /\ picks' = picks \ {p} /\ replacement' = {p.of}
    /\ panel' = IF p.shown THEN "done" ELSE panel
    /\ UNCHANGED <<Server, seen, place, target, open, tab, base, dirty, title, retitled, failed, Reading, busy, Sent>>

FileFails(p) ==
    /\ Room /\ p \in picks /\ picks' = picks \ {p}
    /\ panel' = IF p.shown THEN "error" ELSE panel
    /\ UNCHANGED <<Server, seen, place, target, open, tab, Form, Reading, busy, Sent>>

reset ==
    /\ InForm /\ panel \in {"done", "error"} /\ panel' = "idle" /\ replacement' = {}
    /\ UNCHANGED <<tab, base, dirty, title, retitled, failed, Reading, picks>>

-----------------------------------------------------------------------------
(* Sending an edit.                                                         *)
textChanged == target \in Texts /\ dirty
binaryChanged == target \notin Texts /\ replacement # {}
metadataChanged == retitled \/ title # target
canSubmit == (textChanged \/ binaryChanged \/ metadataChanged) /\ ~busy

Edit(kind, of, v) == [item |-> target, lock |-> seen[target], kind |-> kind, of |-> of, version |-> v]

\* The operations, with the lock the page knew of when the button was pressed.
buildOps ==
       {Edit("title", title, 0) : x \in {title} \cap (IF metadataChanged THEN {title} ELSE {})}
  \cup {Edit("text", b.item, b.version) : b \in IF textChanged THEN base ELSE {}}
  \cup {Edit("file", r, 0) : r \in IF binaryChanged THEN replacement ELSE {}}

Pressed(mode, step) ==
    [ops |-> buildOps, mode |-> mode, step |-> step, at |-> place, item |-> target, mounted |-> TRUE]

WithFile(ops) == {e \in ops : e.kind # "title"}

\* An edit that is staged replaces the one of the same item and kind.
Staged(ops) ==
    {d \in drafts : ~\E e \in ops : e.item = d.item /\ (e.kind = "title") = (d.kind = "title")} \cup ops

\* A changed text is stored first; the rest goes to the draft at once.
handleDraft ==
    /\ open /\ canSubmit /\ Room /\ Edited + Cardinality(saves) < MaxEdits
    /\ IF textChanged
       THEN /\ busy' = TRUE /\ saves' = saves \cup {Pressed("draft", "text")}
            /\ UNCHANGED <<drafts, open, target, tab, Form, Reading, Picking>>
       ELSE /\ drafts' = Staged(buildOps) /\ open' = FALSE
            /\ Unmounts /\ saves' = Detached
    /\ UNCHANGED <<Server, seen, place, contributions>>

handleDirectSubmit ==
    /\ open /\ canSubmit /\ Room /\ Edited + Cardinality(saves) < MaxEdits
    /\ busy' = TRUE
    /\ saves' = saves \cup {Pressed("direct", IF textChanged THEN "text" ELSE "submit")}
    /\ UNCHANGED <<Server, seen, place, target, open, tab, Form, Reading, Picking, drafts, contributions>>

\* What the end of a save does to the dialogs: onOpenChange reaches the one that
\* is open at its place, of its row, though it may have been opened since.
Closes(s) == open /\ s.at = place /\ (place = "material" \/ s.item = target)
Ends(s, closing) ==
    IF closing /\ Closes(s)
    THEN /\ open' = FALSE
         /\ IF place = "directory" THEN Fresh(target)
            ELSE Hidden /\ busy' = FALSE /\ UNCHANGED <<target, tab, Form, Reading>>
    ELSE /\ busy' = (busy /\ ~s.mounted)
         /\ UNCHANGED <<open, target, tab, Form, Reading, Picking>>

TextStored(s) ==
    /\ s \in saves /\ s.step = "text"
    /\ IF s.mode = "draft"
       THEN drafts' = Staged(s.ops) /\ Ends(s, TRUE) /\ saves' = saves \ {s}
       ELSE /\ saves' = (saves \ {s}) \cup {[s EXCEPT !.step = "submit"]}
            /\ UNCHANGED <<drafts, open, busy, target, tab, Form, Reading, Picking>>
    /\ UNCHANGED <<Server, seen, place, contributions>>

Submitted(s) ==
    /\ s \in saves /\ s.step = "submit" /\ saves' = saves \ {s}
    /\ contributions' = contributions \cup {s.ops} /\ Ends(s, TRUE)
    /\ UNCHANGED <<Server, seen, place, drafts>>

SaveFails(s) ==
    /\ s \in saves /\ saves' = saves \ {s} /\ Ends(s, FALSE)
    /\ UNCHANGED <<Server, seen, place, drafts, contributions>>

-----------------------------------------------------------------------------
(* What becomes of an edit.                                                 *)
OnServer == UNCHANGED <<seen, place, target, open, tab, Form, Reading, Picking, busy, saves>>

\* The draft is submitted as one contribution, or cleared.
SubmitDraft ==
    /\ drafts # {} /\ drafts' = {}
    /\ contributions' \in {contributions, contributions \cup {drafts}}
    /\ UNCHANGED Server /\ OnServer

\* An approved edit with a file must name the version that it replaces.
_exec_edit_material(c) ==
    /\ c \in contributions /\ contributions' = contributions \ {c}
    /\ \A e \in WithFile(c) : e.lock = head[e.item] /\ \A f \in WithFile(c) : f.item = e.item => f = e
    /\ head' = [i \in Contents |-> head[i] + Cardinality({e \in WithFile(c) : e.item = i})]
    /\ history' = history \cup {[edit |-> e, replaces |-> head[e.item]] : e \in WithFile(c)}
    /\ UNCHANGED drafts /\ OnServer

Rejected(c) ==
    /\ c \in contributions /\ contributions' = contributions \ {c}
    /\ UNCHANGED <<drafts, Server>> /\ OnServer

Next ==
    \/ \E i \in Contents :
          \/ OpenFromRow(i) \/ GoAcross(i) \/ OtherEdits(i) \/ fetchData(i)
          \/ \E there \in {"directory", "material"} : GoTo(i, there)
    \/ OpenFromActions \/ Close \/ TryAgain
    \/ \E to \in {"content", "metadata"} : SwitchTab(to)
    \/ Type \/ Retitle \/ handleFile \/ reset
    \/ \E l \in loads : TextArrives(l) \/ TextFails(l)
    \/ \E p \in picks : FileReady(p) \/ FileFails(p)
    \/ handleDraft \/ handleDirectSubmit
    \/ \E s \in saves : TextStored(s) \/ Submitted(s) \/ SaveFails(s)
    \/ SubmitDraft
    \/ \E c \in contributions : _exec_edit_material(c) \/ Rejected(c)

Spec == Init /\ [][Next]_editVars

-----------------------------------------------------------------------------
\* A text that is published was edited from the version it replaces: that is
\* what the optimistic lock is for.  (The lock is of the page's copy when the
\* button was pressed, and the text of when the dialog loaded it.)
EditsBuildOnWhatTheyReplace ==
    \A h \in history : h.edit.kind = "text" => h.edit.version = h.replaces

\* What the dialog of a row sends was loaded, picked or typed for its row.
RowsEditThemselves ==
    place = "directory" =>
        /\ title = target /\ replacement \subseteq {target} /\ \A b \in base : b.item = target

\* Whatever a row's dialog still awaits is its row's, and a dialog that is
\* closed awaits no text.
RowsAwaitTheirOwn ==
    /\ \A p \in picks : p = [of |-> p.of, shown |-> p.shown]
    /\ place = "directory" =>
          /\ \A l \in loads : l.item = target
          /\ \A p \in picks : p.of = target
          /\ ~open => loads = {}

\* What keeps RowsEditThemselves.
RowsInv == RowsEditThemselves /\ RowsAwaitTheirOwn

-----------------------------------------------------------------------------
(* Inductive strengthening of TypeOK: a page knows of no later version than  *)
(* the server's, and what is sent replaces one that is not the last.         *)
ServerFits ==
    /\ head \in [Contents -> Versions] /\ seen \in [Contents -> Versions]
    /\ \A i \in Contents : seen[i] <= head[i]
    /\ \A h \in history : h.edit \in Edits /\ h.replaces \in Versions

DialogFits ==
    /\ target \in Contents /\ tab \in {"content", "metadata"}
    /\ base \subseteq Sources /\ AtMostOne(base) /\ IsFiniteSet(base) /\ dirty \in BOOLEAN
    /\ title \in Contents /\ retitled \in BOOLEAN
    /\ loads \subseteq Reads /\ loading \in BOOLEAN /\ failed \in BOOLEAN
    /\ panel \in {"idle", "uploading", "done", "error"}
    /\ picks \subseteq [of : Contents, shown : BOOLEAN]
    /\ replacement \subseteq Contents /\ AtMostOne(replacement)

Early(ops) == ops \subseteq Edits /\ \A e \in ops : e.lock < MaxEdits
SaveFits(s) == s \in Saves /\ IsFiniteSet(s.ops) /\ Early(s.ops)

SentFits ==
    /\ \A s \in saves : SaveFits(s)
    /\ IsFiniteSet(drafts) /\ Early(drafts)
    /\ IsFiniteSet(contributions) /\ \A c \in contributions : Early(c)

EditingFits ==
    /\ ServerFits /\ DialogFits /\ SentFits
    /\ place \in {"directory", "material"} /\ open \in BOOLEAN /\ busy \in BOOLEAN
=============================================================================
