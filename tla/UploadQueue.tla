----------------------------- MODULE UploadQueue -----------------------------
(***************************************************************************)
(* The upload engine of one tab: the queue of files in the drawer, the     *)
(* runs that transfer them, at most MaxConcurrent of them by a counter     *)
(* kept beside the runs, and what the user does to a file meanwhile:       *)
(* pause, resume, remove, retry, reload the page and attach it again.      *)
(* The File objects and the runs do not survive a reload, the items do.    *)
(* One drawer of one tab: another tab that rewrites the stored queue, or   *)
(* another drawer that mounts meanwhile, is not modelled.                  *)
(***************************************************************************)
EXTENDS Naturals, Sequences, FiniteSets

CONSTANTS Files, MaxConcurrent, MaxFiles, MaxQueue

VARIABLES status,     \* an item's durable status; "absent" when not listed
          resumable,  \* items whose tus URL is known
          attached,       \* items whose File object this page holds
          lost,       \* items marked referenceLost
          run,        \* the run of an item: none, or where it stands
          waiting,    \* uploadQueueRef, the ids still to be started
          active,     \* activeCount
          unsorted,   \* files the user must first give a type
          folder,     \* a dropped folder being scanned or admitted
          staged      \* items handed to the draft

queueVars == <<status, resumable, attached, lost, run, waiting, active, unsorted, folder, staged>>

Statuses == {"absent", "pending", "uploading", "paused", "done", "error", "virus"}
Runs == {"none", "transfer", "halted", "verdict", "aborted"}
Folders == {"none", "scanning", "admitting", "error"}

TypeOK ==
    /\ status \in [Files -> Statuses] /\ resumable \subseteq Files /\ attached \subseteq Files
    /\ lost \subseteq Files /\ run \in [Files -> Runs] /\ waiting \in Seq(Files)
    /\ active \in Nat /\ unsorted \subseteq Files /\ folder \in Folders /\ staged \subseteq Files

Init ==
    /\ status = [f \in Files |-> "absent"] /\ resumable = {} /\ attached = {} /\ lost = {}
    /\ run = [f \in Files |-> "none"] /\ waiting = <<>> /\ active = 0
    /\ unsorted = {} /\ folder = "none" /\ staged = {}

-----------------------------------------------------------------------------
Listed == {f \in Files : status[f] # "absent"}
New == Files \ (Listed \cup unsorted \cup staged \cup {f \in Files : run[f] # "none" \/ \E i \in DOMAIN waiting : waiting[i] = f})
InFlight == {f \in Files : status[f] \in {"uploading", "pending", "paused"}}
Startable(st, f) == st[f] \in {"pending", "paused"}
MayStart(count) == count < MaxConcurrent
LessOne(count) == IF count = 0 THEN 0 ELSE count - 1

\* drainQueue: one id leaves the queue, started or not.
Drain(st, rn, q, count) ==
    IF ~MayStart(count) \/ q = <<>>
    THEN status' = st /\ run' = rn /\ waiting' = q /\ active' = count
    ELSE /\ waiting' = Tail(q)
         /\ IF Startable(st, Head(q))
            THEN /\ status' = [st EXCEPT ![Head(q)] = "uploading"]
                 /\ run' = [rn EXCEPT ![Head(q)] = "transfer"] /\ active' = count + 1
            ELSE status' = st /\ run' = rn /\ active' = count

Start(f, st) == Len(waiting) < MaxQueue /\ Drain(st, run, Append(waiting, f), active)

\* processScannedFiles: a file that is too large, unreadable or of a type the
\* server refuses is dropped; one without a type is asked about first.
AddFile(f) ==
    /\ f \in New /\ Cardinality(Listed) < MaxFiles
    /\ attached' = attached \cup {f} /\ Start(f, [status EXCEPT ![f] = "pending"])
    /\ UNCHANGED <<resumable, lost, unsorted, folder, staged>>

DeferFile(f) ==
    /\ f \in New /\ unsorted' = unsorted \cup {f}
    /\ UNCHANGED <<status, resumable, attached, lost, run, waiting, active, folder, staged>>

MimeConfirmed(f) ==
    /\ f \in unsorted /\ unsorted' = unsorted \ {f} /\ Cardinality(Listed) < MaxFiles
    /\ attached' = attached \cup {f} /\ Start(f, [status EXCEPT ![f] = "pending"])
    /\ UNCHANGED <<resumable, lost, folder, staged>>

DismissMime ==
    /\ unsorted # {} /\ unsorted' = {}
    /\ UNCHANGED <<status, resumable, attached, lost, run, waiting, active, folder, staged>>

\* A dropped file that matches an interrupted item continues that item.
Recover(f) ==
    /\ status[f] \in {"error", "paused"} /\ f \in lost /\ f \notin attached
    /\ attached' = attached \cup {f} /\ lost' = lost \ {f}
    /\ Start(f, [status EXCEPT ![f] = "pending"])
    /\ UNCHANGED <<resumable, unsorted, folder, staged>>

\* A folder is scanned, admitted by the server as one group, then added.
DropFolder ==
    /\ folder \in {"none", "error"} /\ folder' = "scanning"
    /\ UNCHANGED <<status, resumable, attached, lost, run, waiting, active, unsorted, staged>>

FolderScanned ==
    /\ folder = "scanning" /\ folder' \in {"admitting", "error", "none"}
    /\ UNCHANGED <<status, resumable, attached, lost, run, waiting, active, unsorted, staged>>

FolderAdmitted(f) ==
    /\ folder = "admitting" /\ f \in New /\ Cardinality(Listed) < MaxFiles
    /\ folder' = "none" /\ attached' = attached \cup {f}
    /\ Start(f, [status EXCEPT ![f] = "pending"])
    /\ UNCHANGED <<resumable, lost, unsorted, staged>>

FolderRefused ==
    /\ folder = "admitting" /\ folder' = "error"
    /\ UNCHANGED <<status, resumable, attached, lost, run, waiting, active, unsorted, staged>>

-----------------------------------------------------------------------------
(* A run.                                                                  *)

TusUrlKnown(f) ==
    /\ run[f] = "transfer" /\ status[f] # "absent" /\ resumable' = resumable \cup {f}
    /\ UNCHANGED <<status, attached, lost, run, waiting, active, unsorted, folder, staged>>

Transferred(f) ==
    /\ run[f] = "transfer" /\ run' = [run EXCEPT ![f] = "verdict"]
    /\ UNCHANGED <<status, resumable, attached, lost, waiting, active, unsorted, folder, staged>>

\* mutant: a cancelled run leaves before it gives its slot back
SettleLeaking(f, s) ==
    /\ LET listed == IF status[f] = "absent" \/ s = "kept" THEN status ELSE [status EXCEPT ![f] = s]
       IN Drain(listed, [run EXCEPT ![f] = "none"], waiting,
                IF s = "kept" THEN active ELSE LessOne(active))
    /\ UNCHANGED <<resumable, attached, lost, unsorted, folder, staged>>

\* The run ends: its item, if still listed, gets the outcome ("kept": none),
\* and the slot goes to the next in the queue.
Settle(f, s) ==
    /\ LET listed == IF status[f] = "absent" \/ s = "kept" THEN status ELSE [status EXCEPT ![f] = s]
       IN Drain(listed, [run EXCEPT ![f] = "none"], waiting, LessOne(active))
    /\ UNCHANGED <<resumable, attached, lost, unsorted, folder, staged>>

RunFails(f)  == run[f] \in {"transfer", "verdict"} /\ Settle(f, "error")
RunEnds(f)   == run[f] = "verdict" /\ \E s \in {"done", "virus", "error"} : Settle(f, s)
RunAborts(f) == run[f] = "aborted" /\ Settle(f, "kept")

-----------------------------------------------------------------------------
(* The buttons of an item, as the drawer offers them.                      *)

\* Pausing tells the tus upload to stop, which means nothing to a run that
\* already waits for the verdict.  The slot is given back either way.
Pause(f) ==
    /\ status[f] = "uploading" /\ f \in resumable /\ run[f] \in {"transfer", "verdict"}
    /\ status' = [status EXCEPT ![f] = "paused"] /\ active' = LessOne(active)
    /\ run' = [run EXCEPT ![f] = IF @ = "transfer" THEN "halted" ELSE @]
    /\ UNCHANGED <<resumable, attached, lost, waiting, unsorted, folder, staged>>

Resume(f) ==
    /\ status[f] = "paused" /\ f \in attached /\ run[f] \in {"halted", "verdict"}
    /\ MayStart(active)
    /\ status' = [status EXCEPT ![f] = "uploading"] /\ active' = active + 1
    /\ run' = [run EXCEPT ![f] = IF @ = "halted" THEN "transfer" ELSE @]
    /\ UNCHANGED <<resumable, attached, lost, waiting, unsorted, folder, staged>>

Retry(f) ==
    /\ status[f] \in {"error", "virus"} /\ f \in attached
    /\ Start(f, [status EXCEPT ![f] = "pending"])
    /\ UNCHANGED <<resumable, attached, lost, unsorted, folder, staged>>

\* The id stays in the queue of those to start; the run unwinds by itself.
Remove(f) ==
    /\ f \in Listed
    /\ status' = [status EXCEPT ![f] = "absent"] /\ attached' = attached \ {f} /\ lost' = lost \ {f}
    /\ run' = [run EXCEPT ![f] = IF @ = "none" THEN "none" ELSE "aborted"]
    /\ resumable' = resumable \ {f}
    /\ UNCHANGED <<waiting, active, unsorted, folder, staged>>

\* The page is reloaded: items come back from storage without their files.
Reload ==
    /\ Listed # {}
    /\ status' = [f \in Files |->
          IF status[f] \in {"pending", "uploading", "paused"}
          THEN IF f \in resumable THEN "paused" ELSE "error" ELSE status[f]]
    /\ lost' = lost \cup InFlight
    /\ attached' = {} /\ run' = [f \in Files |-> "none"] /\ waiting' = <<>> /\ active' = 0
    /\ unsorted' = {} /\ folder' = "none" /\ UNCHANGED <<resumable, staged>>

\* Attaching the file again, once its name, size and hash match, only clears
\* the error: the item is started by a retry, or by dropping the file.
ReAttach(f) ==
    /\ f \in Listed \ attached /\ status[f] \in {"pending", "uploading", "paused", "error"}
    /\ attached' = attached \cup {f} /\ lost' = lost \ {f}
    /\ UNCHANGED <<status, resumable, run, waiting, active, unsorted, folder, staged>>

\* Everything done goes to the draft at once, when nothing is under way.
Stage ==
    /\ InFlight = {} /\ \E f \in Files : status[f] = "done"
    /\ staged' = staged \cup {f \in Files : status[f] = "done"}
    /\ status' = [f \in Files |-> IF status[f] = "done" THEN "absent" ELSE status[f]]
    /\ attached' = {f \in attached : status[f] # "done"}
    /\ UNCHANGED <<resumable, lost, run, waiting, active, unsorted, folder>>

\* The drawer closes for good only when it lists nothing.
CloseEmpty ==
    /\ Listed = {} /\ waiting # <<>>
    /\ run' = [f \in Files |-> IF run[f] = "none" THEN "none" ELSE "aborted"]
    /\ waiting' = <<>> /\ active' = 0 /\ attached' = {}
    /\ UNCHANGED <<status, resumable, lost, unsorted, folder, staged>>

Next == \/ DismissMime \/ DropFolder \/ FolderScanned \/ FolderRefused \/ Reload \/ Stage \/ CloseEmpty
        \/ \E f \in Files :
              \/ AddFile(f) \/ DeferFile(f) \/ MimeConfirmed(f) \/ Recover(f) \/ FolderAdmitted(f)
              \/ TusUrlKnown(f) \/ Transferred(f) \/ RunFails(f) \/ RunEnds(f) \/ RunAborts(f)
              \/ Pause(f) \/ Resume(f) \/ Retry(f) \/ Remove(f) \/ ReAttach(f)

Spec == Init /\ [][Next]_queueVars

-----------------------------------------------------------------------------
(* The counter never counts a run that is not there: pauses, removals and  *)
(* reloads may leave it too low, but no slot is lost for good, so a queue  *)
(* that nothing holds up can always start its next file.                   *)
NoSlotIsLost == active <= Cardinality({f \in Files : run[f] # "none"})

-----------------------------------------------------------------------------
(* Inductive strengthening of NoSlotIsLost, for the values a step starts     *)
(* from or ends with: only a run that is under way and not paused is counted. *)
Slots(st, rn) == {f \in Files : rn[f] \in {"transfer", "verdict", "aborted"} /\ st[f] # "paused"}

ItemFits(f, st, rn, q, at, lo, un) ==
    /\ st[f] \in {"pending", "done", "error", "virus"} => rn[f] = "none"
    /\ st[f] = "absent" => rn[f] \in {"none", "aborted"}
    /\ rn[f] = "aborted" => st[f] = "absent"
    /\ f \in lo => /\ st[f] \in {"paused", "error"} /\ rn[f] = "none" /\ f \notin at
                   /\ \A i \in 1..Len(q) : q[i] # f
    /\ f \in un => st[f] = "absent" /\ rn[f] = "none"

QueueFits(st, rn, q, count, at, lo, un) ==
    /\ st \in [Files -> Statuses] /\ rn \in [Files -> Runs] /\ q \in Seq(Files) /\ count \in Nat
    /\ \A f \in Files : ItemFits(f, st, rn, q, at, lo, un)
    /\ count <= Cardinality(Slots(st, rn))

QueueInv == QueueFits(status, run, waiting, active, attached, lost, unsorted)
=============================================================================
