----------------------------- MODULE Discussions -----------------------------
(***************************************************************************)
(* What people say of an item: the threads of annotations beside a         *)
(* material, kept up to date by its event stream, and the comments of an   *)
(* item or of a pull request, which are fetched once.  Bodies are left     *)
(* out, and which of two threads stands first.  A note is the root of a    *)
(* thread, or the reply in it.                                             *)
(***************************************************************************)
EXTENDS Naturals, Sequences, FiniteSets

CONSTANTS Subjects,       \* materials, items or pull requests, opened one after another
          MaxRoots,       \* bound: threads of a page
          PageLimit,      \* threads of an answer
          MaxWritten,     \* bound: notes written
          MaxErased,      \* bound: notes deleted
          MaxWire,        \* bound: events under way
          MaxListed       \* bound: threads listed when more are asked for

VARIABLES view,           \* "annotations", or "comments" of an item or a pull request
          at,             \* the page that is open
          ever, alive,    \* notes ever written, notes there are
          wire,           \* events of the page on their way
          threads,        \* what is listed: roots with their replies
          seenRootIds,    \* roots the page takes to be listed
          cursor, hasMore, \* nextCursorRef, and whether there is more
          load, failed,   \* loadingRef: the request under way, or NoLoad; error
          form,           \* the reply or the edit that is open, or NoForm
          tip,            \* the form over a selection is open
          sends           \* changes of one's own under way

discussVars == <<view, at, ever, alive, wire, threads, seenRootIds, cursor, hasMore, load, failed, form, tip, sends>>
Server == <<ever, alive, wire>>
List == <<threads, seenRootIds>>
Paging == <<cursor, hasMore>>
Forms == <<form, tip>>

Notes == [on : Subjects, root : 1..MaxRoots, reply : {0, 1}]
First == CHOOSE p \in Subjects : TRUE             \* the page that is opened first
Root(n) == [n EXCEPT !.reply = 0]
Threads == [root : {n \in Notes : n.reply = 0}, replies : SUBSET {n \in Notes : n.reply = 1}]
NoNote == [on |-> First, root |-> 0, reply |-> 0]
Events == [what : {"created", "deleted"}, note : Notes]
NoLoad == [of |-> NoNote.on, reset |-> FALSE, after |-> 0, phase |-> "none", items |-> {}, next |-> 0]
NoForm == [what |-> "none", note |-> NoNote]
Sends == [what : {"root", "tip", "reply", "edit", "delete"}, note : Notes]

RootsOf(list) == {t.root : t \in list}
Roots == RootsOf(threads)

TypeOK ==
    /\ view \in {"annotations", "comments"} /\ at \in Subjects
    /\ ever \subseteq Notes /\ alive \subseteq ever
    /\ wire \in Seq(Events) /\ threads \subseteq Threads
    /\ seenRootIds \subseteq Notes
    /\ cursor \in 0..MaxRoots /\ hasMore \in BOOLEAN /\ failed \in BOOLEAN
    /\ load.phase \in {"none", "asked", "read"}
    /\ form.what \in {"none", "reply", "edit"}
    /\ tip \in BOOLEAN /\ sends \subseteq Sends

Init ==
    /\ view \in {"annotations", "comments"}
    /\ at = First
    /\ ever = {[on |-> p, root |-> 1, reply |-> 0] : p \in Subjects} /\ alive = ever
    /\ wire = <<>> /\ threads = {} /\ seenRootIds = {} /\ cursor = 0 /\ hasMore = FALSE
    /\ load = [NoLoad EXCEPT !.of = at, !.reset = TRUE, !.phase = "asked"] /\ failed = FALSE
    /\ form = NoForm /\ tip = FALSE /\ sends = {}

Live == view = "annotations"

-----------------------------------------------------------------------------
(* The server, its other users, and the stream.                             *)
Emit(what, n) ==
    wire' = IF Live /\ n.on = at THEN Append(wire, [what |-> what, note |-> n]) ELSE wire

\* The next root of a page, or the reply of a root.
Writable == {n \in Notes \ ever :
                IF n.reply = 0 THEN n.root = 1 + Cardinality({m \in ever : m.on = n.on /\ m.reply = 0})
                               ELSE Root(n) \in alive}
Write(n) ==
    /\ n \in Writable /\ n.on = at
    /\ Cardinality(ever) - Cardinality(Subjects) < MaxWritten /\ Len(wire) < MaxWire
    /\ ever' = ever \cup {n} /\ alive' = alive \cup {n} /\ Emit("created", n)

\* A root takes its replies with it.
Erase(n) ==
    /\ n \in alive /\ Cardinality(ever \ alive) < MaxErased /\ Len(wire) < MaxWire
    /\ alive' = IF n.reply = 0 THEN {m \in alive : Root(m) # n} ELSE alive \ {n}
    /\ Emit("deleted", n)
    /\ UNCHANGED ever

OtherWrites(n) ==
    /\ Live /\ Write(n)
    /\ UNCHANGED <<view, at, List, Paging, load, failed, Forms, sends>>

OtherErases(n) ==
    /\ Live /\ n.on = at /\ Erase(n)
    /\ UNCHANGED <<view, at, List, Paging, load, failed, Forms, sends>>

-----------------------------------------------------------------------------
(* What the page does with a note it is told of, by an event or an answer.  *)
applyCreated(n) ==
    IF n.reply = 0
    THEN /\ threads' = IF n \in seenRootIds THEN threads ELSE threads \cup {[root |-> n, replies |-> {}]}
         /\ seenRootIds' = seenRootIds \cup {n}
    ELSE /\ threads' = {IF t.root = Root(n) THEN [t EXCEPT !.replies = @ \cup {n}] ELSE t : t \in threads}
         /\ UNCHANGED seenRootIds

WithoutRoot(n) == {t \in threads : t.root # n}
WithoutReply(n) == {[t EXCEPT !.replies = @ \ {n}] : t \in threads}

\* mutant: the root stays among those that are listed
applyDeletedUnseen(n) ==
    IF n.reply = 0
    THEN threads' = WithoutRoot(n) /\ UNCHANGED seenRootIds
    ELSE /\ threads' = WithoutReply(n)
         /\ UNCHANGED seenRootIds

applyDeleted(n) ==
    IF n.reply = 0
    THEN /\ threads' = WithoutRoot(n)
         /\ seenRootIds' = seenRootIds \ {n}
    ELSE /\ threads' = WithoutReply(n)
         /\ UNCHANGED seenRootIds

EventArrives ==
    /\ wire # <<>> /\ wire' = Tail(wire)
    /\ IF Head(wire).what = "created" THEN applyCreated(Head(wire).note) ELSE applyDeleted(Head(wire).note)
    /\ UNCHANGED <<view, at, ever, alive, Paging, load, failed, Forms, sends>>

(* Lists are fetched.  A request that is under way keeps any other from being  *)
(* made, that of the next material too.                                     *)
fetchAnnotations(p, reset) ==
    IF load # NoLoad
    THEN UNCHANGED <<load, failed, cursor>>
    ELSE /\ load' = [NoLoad EXCEPT !.of = p, !.reset = reset, !.phase = "asked",
                                   !.after = IF reset THEN 0 ELSE cursor]
         /\ failed' = FALSE
         /\ cursor' = IF reset THEN 0 ELSE cursor

Resync ==
    /\ Live /\ wire # <<>> /\ wire' = <<>>                  \* what was missed is not sent again
    /\ fetchAnnotations(at, TRUE)
    /\ UNCHANGED <<view, at, ever, alive, List, hasMore, Forms, sends>>

Retry ==
    /\ Live /\ failed /\ fetchAnnotations(at, TRUE)
    /\ UNCHANGED <<view, at, Server, List, hasMore, Forms, sends>>

loadMore ==
    /\ Live /\ hasMore /\ load = NoLoad /\ Cardinality(threads) < MaxListed
    /\ fetchAnnotations(at, FALSE)
    /\ UNCHANGED <<view, at, Server, List, hasMore, Forms, sends>>

\* The newest, or the newest after the cursor, PageLimit at a time.
LoadReads ==
    /\ load.phase = "asked"
    /\ LET older == {n \in alive : n.on = load.of /\ n.reply = 0 /\ (load.after = 0 \/ n.root < load.after)}
           page == {n \in older : Live => Cardinality({m \in older : m.root > n.root}) < PageLimit}
       IN  load' = [load EXCEPT !.phase = "read",
                    !.items = {[root |-> n, replies |-> {m \in alive : m.reply = 1 /\ Root(m) = n}] : n \in page},
                    !.next = IF page = older THEN 0
                             ELSE CHOOSE k \in 1..MaxRoots : \E n \in page : n.root = k /\ \A m \in page : k <= m.root]
    /\ UNCHANGED <<view, at, Server, List, Paging, failed, Forms, sends>>

LoadAnswered ==
    /\ load.phase = "read" /\ load' = NoLoad
    /\ IF load.reset
       THEN threads' = load.items /\ seenRootIds' = RootsOf(load.items)
       ELSE threads' = threads \cup load.items /\ seenRootIds' = seenRootIds \cup RootsOf(load.items)
    /\ cursor' = load.next /\ hasMore' = (load.next > 0)
    /\ UNCHANGED <<view, at, Server, failed, Forms, sends>>

LoadFails ==
    /\ load # NoLoad /\ load' = NoLoad /\ failed' = Live
    /\ UNCHANGED <<view, at, Server, List, Paging, Forms, sends>>

\* Another material, item or pull request is opened.
OpenPage(p) ==
    /\ at = First /\ p # at /\ at' = p /\ wire' = <<>>
    /\ threads' = {} /\ seenRootIds' = {} /\ hasMore' = FALSE /\ cursor' = 0
    /\ IF load = NoLoad \/ ~Live
       THEN load' = [NoLoad EXCEPT !.of = p, !.reset = TRUE, !.phase = "asked"]
       ELSE UNCHANGED load
    /\ failed' = FALSE
    /\ UNCHANGED <<view, ever, alive, Forms, sends>>

-----------------------------------------------------------------------------
(* One's own notes.                                                         *)
Listed == UNION {{t.root} \cup t.replies : t \in threads}

handleReply(n) ==
    /\ Live /\ n \in Listed /\ form' = [what |-> "reply", note |-> Root(n)]
    /\ UNCHANGED <<view, at, Server, List, Paging, load, failed, tip, sends>>

handleStartEdit(n) ==
    /\ n \in Listed /\ form' = [what |-> "edit", note |-> n]
    /\ UNCHANGED <<view, at, Server, List, Paging, load, failed, tip, sends>>

handleCancel ==
    /\ form # NoForm /\ form' = NoForm
    /\ UNCHANGED <<view, at, Server, List, Paging, load, failed, tip, sends>>

Annotate ==
    /\ Live /\ ~tip /\ tip' = TRUE
    /\ UNCHANGED <<view, at, Server, List, Paging, load, failed, form, sends>>

ClickOutside ==
    /\ tip /\ tip' = FALSE
    /\ UNCHANGED <<view, at, Server, List, Paging, load, failed, form, sends>>

\* The server takes a new note, and the answer is on its way.
Send(what, n) ==
    /\ sends = {} /\ Write(n) /\ sends' = {[what |-> what, note |-> n]}
    /\ UNCHANGED <<view, at, List, Paging, load, failed, Forms>>

SubmitRoot(n) == n.reply = 0 /\ Send("root", n)
SubmitTip(n) == tip /\ n.reply = 0 /\ Send("tip", n)
SubmitReply(n) == form.what = "reply" /\ n.reply = 1 /\ Root(n) = form.note /\ Send("reply", n)

SaveEdit ==
    /\ sends = {} /\ form.what = "edit" /\ form.note \in Listed
    /\ sends' = {[what |-> "edit", note |-> form.note]}
    /\ UNCHANGED <<view, at, Server, List, Paging, load, failed, Forms>>

\* An annotation goes at once, and stays gone when the server refuses; a
\* comment goes with the answer.
Delete(n) ==
    /\ sends = {} /\ n \in Listed
    /\ sends' = {[what |-> "delete", note |-> n]}
    /\ IF Live THEN applyDeleted(n) ELSE UNCHANGED List
    /\ UNCHANGED <<view, at, Server, Paging, load, failed, Forms>>

\* What an answer closes is what is open by then.
Closes(what) ==
    /\ tip' = (tip /\ what # "tip")
    /\ form' = IF what = form.what THEN NoForm ELSE form

Created(s) ==
    /\ s \in sends /\ s.what \in {"root", "tip", "reply"} /\ sends' = {}
    /\ IF Live
       THEN applyCreated(s.note)
       ELSE /\ threads' = threads \cup {[root |-> s.note, replies |-> {}]}
            /\ seenRootIds' = seenRootIds \cup {s.note}
    /\ Closes(s.what)
    /\ UNCHANGED <<view, at, Server, Paging, load, failed>>

Edited(s) ==
    /\ s \in sends /\ s.what = "edit" /\ sends' = {} /\ Closes("edit")
    /\ UNCHANGED <<view, at, Server, List, Paging, load, failed>>

Deleted(s) ==
    /\ s \in sends /\ s.what = "delete" /\ sends' = {} /\ Erase(s.note)
    /\ IF Live THEN UNCHANGED List ELSE applyDeleted(s.note)
    /\ UNCHANGED <<view, at, Paging, load, failed, Forms>>

\* No answer, or a refusal: what was typed is still there.
Refused(s) ==
    /\ s \in sends /\ sends' = {}
    /\ UNCHANGED <<view, at, Server, List, Paging, load, failed, Forms>>

Next ==
    \/ \E n \in Notes :
          \/ OtherWrites(n) \/ OtherErases(n)
          \/ handleReply(n) \/ handleStartEdit(n) \/ Delete(n)
          \/ SubmitRoot(n) \/ SubmitTip(n) \/ SubmitReply(n)
    \/ EventArrives \/ Resync \/ Retry \/ loadMore
    \/ LoadReads \/ LoadAnswered \/ LoadFails
    \/ \E p \in Subjects : OpenPage(p)
    \/ handleCancel \/ Annotate \/ ClickOutside \/ SaveEdit
    \/ \E s \in Sends : Created(s) \/ Edited(s) \/ Deleted(s) \/ Refused(s)

Spec == Init /\ [][Next]_discussVars

-----------------------------------------------------------------------------
(* The roots the page takes to be listed, by which it tells an event that    *)
(* repeats an answer from a new thread, are those it lists: whatever order   *)
(* events, answers, resyncs and changes of material come in                  *)
(* (use-annotations.ts:52).                                                  *)
SeenIsListed == Live => seenRootIds = Roots

-----------------------------------------------------------------------------
(* Why: beside a material what is listed, what an answer brings and what is *)
(* told of are threads and notes, and each step changes the two together.   *)
DiscussFits ==
    /\ alive \subseteq Notes /\ threads \subseteq Threads
    /\ DOMAIN load = DOMAIN NoLoad /\ load.items \subseteq Threads
    /\ wire \in Seq(Events) /\ sends \subseteq Sends

DiscussInv == Live => DiscussFits /\ seenRootIds = Roots

-----------------------------------------------------------------------------
(* Inductive strengthening of TypeOK, with DiscussInv: loads on every page,  *)
(* and that only beside a material one replies; what starts a thread is its  *)
(* root.                                                                     *)
Load == [of : Subjects, reset : BOOLEAN, after : 0..MaxRoots, phase : {"none", "asked", "read"},
         items : SUBSET Threads, next : 0..MaxRoots]
LoadFits == load \in Load

SendsFit ==
    /\ form.what = "reply" => Live
    /\ \A s \in sends : IF s.what = "reply" THEN Live
                        ELSE s.what \in {"root", "tip"} => s.note.reply = 0
=============================================================================
