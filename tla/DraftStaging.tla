---------------------------- MODULE DraftStaging ----------------------------
(***************************************************************************)
(* The draft of a contributor: the staged operations of one tab, the       *)
(* dialogs and the QCM editor that add to it, and the review drawer that   *)
(* edits, purges and submits it.  An operation in a folder that is itself  *)
(* only staged names it by its temporary id.  Saves that go through the    *)
(* server first reach the draft when they are answered, by an index that   *)
(* may have moved.  Another tab that rewrites the stored draft is not      *)
(* modelled; the ids of a folder drop come from the same counter.          *)
(***************************************************************************)
EXTENDS Integers, Sequences, FiniteSets

CONSTANTS MaxOps,     \* bound: operations in the draft
          MaxDraftFiles, \* bound: operations with an upload
          MaxTemp     \* bound: temporary ids given out between two clears

VARIABLES draft,      \* the staged operations, oldest first
          counter,    \* _tempCounter
          saves,      \* text and QCM saves under way, each with its draftIndex
          editing,    \* the index the edit dialog was opened with, or 0
          upload,     \* that dialog is uploading a replacement file
          submitting  \* the review drawer waits for the answer to its POST

draftVars == <<draft, counter, saves, editing, upload, submitting>>

\* Ids: temporary ones are positive; a published item has the id Document.  As a
\* place to put something, every published item is Root.
Root == 0
Document == -1
Temps == 1..MaxTemp

\* "file" and "old": it has an upload, and that upload has expired.
Operation(op, id, in, of, file) == [op |-> op, id |-> id, in |-> in, of |-> of, file |-> file, old |-> FALSE]
Ops == {"create_directory", "create_material", "edit_material", "delete_directory", "delete_material", "move_item"}

TypeOK ==
    /\ \A i \in DOMAIN draft :
          /\ draft[i].op \in Ops /\ draft[i].id \in -1..MaxTemp /\ draft[i].in \in 0..MaxTemp
          /\ draft[i].of \in 0..MaxTemp /\ draft[i].file \in BOOLEAN /\ draft[i].old \in BOOLEAN
    /\ Len(draft) <= MaxOps /\ counter \in 0..MaxTemp
    /\ \A s \in saves : s.index \in 0..MaxOps /\ s.op.op \in {"create_material", "edit_material"}
    /\ editing \in 0..MaxOps /\ upload \in BOOLEAN /\ submitting \in BOOLEAN

Init ==
    /\ draft = <<>> /\ counter = 0 /\ saves = {}
    /\ editing = 0 /\ upload = FALSE /\ submitting = FALSE

-----------------------------------------------------------------------------
(* The staging store.                                                      *)

\* Where a page may create something: a listing may still show a staged
\* folder that is no longer in the draft.
Containers == 0..counter

SameSlot(a, b) == a.op = b.op /\ a.op = "edit_material" /\ a.id = b.id /\ a.file = b.file

Room(op, n) == op.file => Cardinality({i \in DOMAIN draft : draft[i].file}) + n <= MaxDraftFiles

\* addOperation: a repeated edit replaces the last of its slot.
Add(op) ==
    LET slots == {i \in DOMAIN draft : SameSlot(draft[i], op)}
    IN IF slots = {} THEN Len(draft) < MaxOps /\ Room(op, 1) /\ draft' = Append(draft, op)
       ELSE draft' = [draft EXCEPT ![CHOOSE i \in slots : \A j \in slots : j <= i] = op]

AddAll(ops) == Len(draft) + Len(ops) <= MaxOps /\ Room(ops[1], Len(ops)) /\ draft' = draft \o ops

Update(index, op) ==
    draft' = IF index \in DOMAIN draft
             THEN [draft EXCEPT ![index] = [op EXCEPT !.old = draft[index].old /\ op.file]] ELSE draft

\* The staged folders inside a set of staged folders, however deep.
Nested(ids) ==
    LET step(k) == {draft[i].id : i \in {j \in DOMAIN draft :
                        draft[j].op = "create_directory" /\ draft[j].in \in k}}
        within[n \in 0..MaxOps] == IF n = 0 THEN ids ELSE within[n - 1] \cup step(within[n - 1])
    IN within[MaxOps]

\* mutant: the folders are expanded one level only
CascadeOneLevel(i) ==
    LET target == draft[i]
        dirs == IF target.op = "create_directory" /\ target.id > 0 THEN {target.id} ELSE {}
    IN {j \in DOMAIN draft :
          \/ j = i
          \/ draft[j].op \in {"create_directory", "create_material", "move_item"} /\ draft[j].in \in dirs
          \/ /\ target.op = "create_material" /\ target.id > 0
             /\ draft[j].op = "create_material" /\ draft[j].of = target.id}

\* What removeOperation removes with the operation at i.
Cascade(i) ==
    LET target == draft[i]
        dirs == IF target.op = "create_directory" /\ target.id > 0 THEN Nested({target.id}) ELSE {}
    IN {j \in DOMAIN draft :
          \/ j = i
          \/ draft[j].op \in {"create_directory", "create_material", "move_item"} /\ draft[j].in \in dirs
          \/ /\ target.op = "create_material" /\ target.id > 0
             /\ draft[j].op = "create_material" /\ draft[j].of = target.id}

\* What is left of s in its order without the operations at idx.
Nth(S, k) == CHOOSE i \in S : Cardinality({j \in S : j <= i}) = k
Keep(s, idx) ==
    LET kept == DOMAIN s \ idx IN [k \in 1..Cardinality(kept) |-> s[Nth(kept, k)]]

Expired(s) == {i \in DOMAIN s : s[i].old}
NextTempId == counter < MaxTemp /\ counter' = counter + 1

-----------------------------------------------------------------------------
(* What adds to the draft.                                                 *)

DraftFolder(c) ==
    /\ c \in Containers /\ NextTempId
    /\ Add(Operation("create_directory", counter + 1, c, Root, FALSE))
    /\ UNCHANGED <<saves, editing, upload, submitting>>

DraftLink(c) ==
    /\ c \in Containers /\ NextTempId
    /\ Add(Operation("create_material", counter + 1, c, Root, FALSE))
    /\ UNCHANGED <<saves, editing, upload, submitting>>

\* A direct submission uses up an id and leaves the draft alone.
SubmitDirectly ==
    /\ NextTempId
    /\ UNCHANGED <<draft, saves, editing, upload, submitting>>

\* The upload drawer stages files, as attachments of a material or not.
StageUpload(c, m) ==
    /\ c \in Containers /\ m \in 0..counter /\ (c = Root \/ m = Root) /\ NextTempId
    /\ AddAll(<<Operation("create_material", counter + 1, c, m, TRUE)>>)
    /\ UNCHANGED <<saves, editing, upload, submitting>>

\* The picture a document misses, once uploaded, becomes its attachment.
StageMissingImage ==
    /\ NextTempId
    /\ AddAll(<<Operation("create_material", counter + 1, Root, Root, TRUE)>>)
    /\ UNCHANGED <<saves, editing, upload, submitting>>

\* A folder's name is edited like a document's.
DraftMetadata ==
    /\ Add(Operation("edit_material", Document, Root, Root, FALSE))
    /\ UNCHANGED <<counter, saves, editing, upload, submitting>>

DraftReplacement ==
    /\ Add(Operation("edit_material", Document, Root, Root, TRUE))
    /\ UNCHANGED <<counter, saves, editing, upload, submitting>>

\* The text editor and the QCM editor store the content first.
SaveStarts(index, op) ==
    /\ saves = {} /\ Len(draft) < MaxOps /\ (index = 0 => Room(op, 1)) /\ saves' = {[index |-> index, op |-> op]}
    /\ UNCHANGED <<draft, counter, editing, upload, submitting>>

SaveText == SaveStarts(0, Operation("edit_material", Document, Root, Root, TRUE))
SaveQuiz(index) ==
    \/ /\ index = 0 \/ (index \in DOMAIN draft /\ draft[index].op = "edit_material" /\ draft[index].file)
       /\ SaveStarts(index, Operation("edit_material", Document, Root, Root, TRUE))
    \/ /\ index = 0 \/ (index \in DOMAIN draft /\ draft[index].op = "create_material" /\ draft[index].file)
       /\ SaveStarts(index, Operation("create_material", Root, Root, Root, TRUE))

SaveAnswered ==
    /\ \E s \in saves : IF s.index = 0 THEN Add(s.op) ELSE Update(s.index, s.op)
    /\ saves' = {}
    /\ UNCHANGED <<counter, editing, upload, submitting>>

SaveFails ==
    /\ saves # {} /\ saves' = {}
    /\ UNCHANGED <<draft, counter, editing, upload, submitting>>

\* Deleting an item that is only staged takes its creation back.
DeleteItem(id) ==
    /\ id \in {Document} \cup 1..counter
    /\ LET own == {i \in DOMAIN draft : draft[i].op \in {"create_directory", "create_material"} /\ draft[i].id = id}
       IN IF id > 0 THEN own # {} /\ draft' = Keep(draft, Cascade(CHOOSE i \in own : \A j \in own : i <= j))
          ELSE Add(Operation("delete_material", id, Root, Root, FALSE))
    /\ UNCHANGED <<counter, saves, editing, upload, submitting>>

\* A selection is deleted, staged items included, unless that is staged already.
BatchDelete(id) ==
    /\ id \in 1..counter
    /\ LET op == IF \E i \in DOMAIN draft : draft[i].op = "create_material" /\ draft[i].id = id
                 THEN "delete_material" ELSE "delete_directory"
       IN /\ \A i \in DOMAIN draft : ~(draft[i].op = op /\ draft[i].id = id)
          /\ AddAll(<<Operation(op, id, Root, Root, FALSE)>>)
    /\ UNCHANGED <<counter, saves, editing, upload, submitting>>

\* Cut items, staged ones included, are pasted elsewhere and not into themselves.
BatchPaste(id, c) ==
    /\ id \in {Document, counter} \ {Root} /\ c \in Containers \ {id}
    /\ AddAll(<<Operation("move_item", id, c, Root, FALSE)>>)
    /\ UNCHANGED <<counter, saves, editing, upload, submitting>>

-----------------------------------------------------------------------------
(* The review drawer, which may be opened at any time.                     *)

RemoveOperation(i) ==
    /\ i \in DOMAIN draft
    /\ draft' = Keep(draft, Cascade(i))
    /\ UNCHANGED <<counter, saves, editing, upload, submitting>>

OpenEdit(i) ==
    /\ editing = 0 /\ i \in DOMAIN draft
    /\ draft[i].op \in {"create_material", "edit_material", "create_directory"}
    /\ editing' = i /\ upload' = FALSE
    /\ UNCHANGED <<draft, counter, saves, submitting>>

ReplaceFile ==
    /\ editing \in DOMAIN draft /\ draft[editing].op = "create_material" /\ draft[editing].file
    /\ upload' = TRUE
    /\ UNCHANGED <<draft, counter, saves, editing, submitting>>

ReplacementEnds ==
    /\ upload /\ upload' = FALSE
    /\ UNCHANGED <<draft, counter, saves, editing, submitting>>

\* The replaced file does not renew stagedAt: the operation expires with the
\* upload it first had.
SaveEdit ==
    /\ editing \in DOMAIN draft /\ ~upload
    /\ Update(editing, draft[editing]) /\ editing' = 0 /\ upload' = FALSE
    /\ UNCHANGED <<counter, saves, submitting>>

CloseEdit ==
    /\ editing # 0 /\ editing' = 0 /\ upload' = FALSE
    /\ UNCHANGED <<draft, counter, saves, submitting>>

PurgeExpired ==
    /\ Expired(draft) # {} /\ draft' = Keep(draft, Expired(draft))
    /\ UNCHANGED <<counter, saves, editing, upload, submitting>>

CanSubmit == draft # <<>> /\ ~submitting /\ Expired(draft) = {}

Submit ==
    /\ CanSubmit /\ submitting' = TRUE
    /\ UNCHANGED <<draft, counter, saves, editing, upload>>

\* clearOperations empties the draft as it is when the answer arrives.
Submitted ==
    /\ submitting /\ submitting' = FALSE
    /\ \/ draft' = <<>> /\ counter' = 0
       \/ UNCHANGED <<draft, counter>>
    /\ UNCHANGED <<saves, editing, upload>>

DiscardAll ==
    /\ draft # <<>> /\ ~submitting
    /\ draft' = <<>> /\ counter' = 0
    /\ UNCHANGED <<saves, editing, upload, submitting>>

\* Uploads expire in the order of the draft, which is that of stagedAt.
UploadExpires(i) ==
    /\ i \in DOMAIN draft /\ draft[i].file /\ \A j \in 1..i - 1 : draft[j].file => draft[j].old
    /\ draft' = [draft EXCEPT ![i].old = TRUE]
    /\ UNCHANGED <<counter, saves, editing, upload, submitting>>

\* A reload keeps the stored draft but for what has expired.
Reload ==
    /\ draft' = Keep(draft, Expired(draft))
    /\ saves' = {} /\ editing' = 0 /\ upload' = FALSE /\ submitting' = FALSE
    /\ UNCHANGED counter

\* The edit dialog is modal: nothing else is done while it is open.
WithoutDialog ==
    /\ editing = 0
    /\ \/ SubmitDirectly \/ StageMissingImage \/ DraftMetadata \/ DraftReplacement \/ SaveText
       \/ PurgeExpired \/ Submit \/ DiscardAll
       \/ \E i \in 0..MaxOps : SaveQuiz(i) \/ RemoveOperation(i) \/ OpenEdit(i)
       \/ \E c \in 0..MaxTemp : DraftFolder(c) \/ DraftLink(c)
       \/ \E c, m \in 0..MaxTemp : StageUpload(c, m)
       \/ \E m \in (-1..MaxTemp) \ {Root} : DeleteItem(m) \/ BatchDelete(m)
       \/ \E m \in (-1..MaxTemp) \ {Root}, c \in 0..MaxTemp : BatchPaste(m, c)

Next == \/ WithoutDialog
        \/ SaveAnswered \/ SaveFails \/ ReplaceFile \/ ReplacementEnds \/ SaveEdit \/ CloseEdit
        \/ Submitted \/ Reload
        \/ \E i \in 1..MaxOps : UploadExpires(i)

Spec == Init /\ [][Next]_draftVars

-----------------------------------------------------------------------------
(* Removing a staged folder from the draft removes everything staged       *)
(* inside it with it, folders within folders included: what is left never  *)
(* asks the server to put something into a folder that was removed.        *)
Created(s) == {s[i].id : i \in {j \in DOMAIN s : s[j].op = "create_directory"}}
ContentsGo ==
    Len(draft') < Len(draft) =>
       \A gone \in Created(draft) \ Created(draft') :
          \A i \in DOMAIN draft' : draft'[i].op \in {"create_directory", "create_material", "move_item"}
                                      => draft'[i].in # gone
RemovalTakesContents == [][ContentsGo]_draftVars

\* What keeps ContentsGo: a staged folder has a temporary id and no upload, and
\* only uploads expire.
Staged ==
    {o \in [op : Ops, id : -1..MaxTemp, in : 0..MaxTemp, of : 0..MaxTemp, file : BOOLEAN, old : BOOLEAN] :
        /\ o.op = "create_directory" => o.id > 0 /\ ~o.file
        /\ o.old => o.file}
DraftInv ==
    /\ TypeOK /\ draft \in Seq(Staged)
    /\ saves \subseteq [index : 0..MaxOps, op : {o \in Staged : o.op \in {"create_material", "edit_material"}}]
=============================================================================
