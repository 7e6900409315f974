---------------------------- MODULE StaffSystem ----------------------------
(***************************************************************************)
(* The pages of the staff console that work on the whole system: its       *)
(* health, the reconciliation of stored objects with the rows that name    *)
(* them, backups, and the items set forward on the home page.  A deletion  *)
(* looks whether a key is live and deletes it in two steps; that nothing   *)
(* comes to name the key in between is up to the advisory lock of the key, *)
(* which those who store an object hold until its row is there.            *)
(***************************************************************************)
EXTENDS Naturals, FiniteSets

CONSTANTS Objects,        \* content-addressed objects and thumbnails
          Featured,       \* items set forward
          MaxSaves,       \* bound: backups made
          MaxKept,        \* MAX_LOCAL_BACKUPS
          MaxFetches      \* bound: fetches, and requests, of a page under way at a time

VARIABLES screen,         \* the page: "system", "backup" or "featured"
          stored, live,   \* objects in the bucket, and those a row or an upload names
          scan, scanned,  \* a scan: its stage, and the keys it read as live
          found, dialog,  \* orphans the dialog shows; the dialog is open
          prune, locked,  \* a deletion: its keys left; keys whose lock it holds
          judged,         \* the key it has locked and is to look up
          fetches,        \* lists or healths under way, as they were read
          kept, made,     \* backups on the server; backups ever made
          shown,          \* the list on the page
          asks,           \* what a confirmation is open for
          works,          \* backup requests under way
          restoring,      \* the restore the page names
          form, sends,    \* the item the form is about; the forms under way
          condemned,      \* the key that was not live, and is to be deleted
          admitting       \* of each object: whether one holds its lock to store it

systemVars == <<screen, stored, live, scan, scanned, found, dialog, prune, locked, judged, fetches, kept, made, shown, asks, works, restoring, form, sends, condemned, admitting>>
PruneVars == <<prune, locked, judged, condemned>>
StorageVars == <<stored, live, admitting, scan, scanned, found, dialog, PruneVars>>
BackupVars == <<kept, made, asks, works, restoring>>

Backups == 1..MaxSaves
File == MaxSaves + 1                         \* a backup restored from a file
Works == [what : {"save", "delete", "restore"}, of : 0..File]
NoWork == [what |-> "none", of |-> 0]

TypeOK ==
    /\ screen \in {"system", "backup", "featured"}
    /\ stored \subseteq Objects /\ live \subseteq Objects
    /\ scan \in {"idle", "asked", "read"} /\ scanned \subseteq Objects
    /\ found \subseteq Objects /\ dialog \in BOOLEAN
    /\ prune \subseteq Objects /\ locked \subseteq Objects /\ judged \subseteq Objects
    /\ fetches \subseteq SUBSET (Backups \cup Featured) /\ shown \subseteq Backups \cup Featured
    /\ kept \subseteq Backups \cup Featured /\ made \in 0..MaxSaves
    /\ asks \in Works \cup {NoWork} /\ works \subseteq Works
    /\ restoring \in 0..File
    /\ form \subseteq Featured \cup {"new"} /\ sends \subseteq Featured \cup {"new"}
    /\ condemned \subseteq Objects /\ admitting \in [Objects -> {"no", "locked", "written"}]

Init ==
    /\ screen \in {"system", "backup", "featured"}
    /\ stored = Objects /\ live \in {{o} : o \in Objects}
    /\ scan = "idle" /\ scanned = {} /\ found = {} /\ dialog = FALSE
    /\ prune = {} /\ locked = {} /\ judged = {} /\ fetches = {}
    /\ kept = {} /\ made = 0 /\ shown = {} /\ asks = NoWork /\ works = {} /\ restoring = 0
    /\ form = {} /\ sends = {} /\ condemned = {} /\ admitting = [o \in Objects |-> "no"]

-----------------------------------------------------------------------------
(* Objects: who uploads a file, stages a quiz or remakes a thumbnail holds   *)
(* the lock of its key from before it is stored until a row names it.       *)

\* mutant: a lock that does nothing, as that of other databases
FreeAnyway(o) == TRUE

\* pg_advisory_lock and pg_advisory_xact_lock of one key exclude each other.
Free(o) == o \notin locked /\ admitting[o] = "no"

Admission(o, step) ==
    /\ admitting' = [admitting EXCEPT ![o] = step]
    /\ UNCHANGED <<screen, scan, scanned, found, dialog, PruneVars, fetches, shown, BackupVars, form, sends>>

AdmitLocks(o) ==
    /\ screen = "system" /\ Free(o) /\ Admission(o, "locked") /\ UNCHANGED <<stored, live>>

\* The object is written, or found to be there.
AdmitStores(o) ==
    /\ admitting[o] = "locked" /\ Admission(o, "written")
    /\ stored' = stored \cup {o} /\ UNCHANGED live

\* The row is committed, and then the lock given back.
AdmitNames(o) ==
    /\ admitting[o] = "written" /\ Admission(o, "no")
    /\ live' = live \cup {o} /\ UNCHANGED stored

\* It failed, or was cancelled by then.
AdmitFails(o) ==
    /\ admitting[o] # "no" /\ Admission(o, "no") /\ UNCHANGED <<stored, live>>

Unname(o) ==
    /\ screen = "system" /\ o \in live /\ live' = live \ {o}
    /\ UNCHANGED <<screen, stored, admitting, scan, scanned, found, dialog, PruneVars, fetches, shown, BackupVars, form, sends>>

Pruning == prune # {} \/ locked # {}

Dialog(open, orphans) ==
    /\ dialog' = open /\ found' = orphans

OpenDialog ==
    /\ screen = "system" /\ ~dialog /\ Dialog(TRUE, found)
    /\ UNCHANGED <<screen, stored, live, admitting, scan, scanned, PruneVars, fetches, shown, BackupVars, form, sends>>

\* What was found is forgotten; a scan under way is not.
CloseDialog ==
    /\ dialog /\ Dialog(FALSE, {})
    /\ UNCHANGED <<screen, stored, live, admitting, scan, scanned, PruneVars, fetches, shown, BackupVars, form, sends>>

ResetDialog ==
    /\ dialog /\ found # {} /\ scan = "idle" /\ ~Pruning
    /\ Dialog(TRUE, {})
    /\ UNCHANGED <<screen, stored, live, admitting, scan, scanned, PruneVars, fetches, shown, BackupVars, form, sends>>

RunReconcile ==
    /\ dialog /\ found = {} /\ scan = "idle" /\ scan' = "asked"
    /\ UNCHANGED <<screen, stored, live, admitting, scanned, found, dialog, PruneVars, fetches, shown, BackupVars, form, sends>>

\* (A result without orphans is reset, and the dialog as it was.)
\* The rows are read first, the bucket is listed next.
ReconcileReads ==
    /\ scan = "asked" /\ scan' = "read" /\ scanned' = live
    /\ UNCHANGED <<screen, stored, live, admitting, found, dialog, PruneVars, fetches, shown, BackupVars, form, sends>>

ReconcileAnswered ==
    /\ scan = "read" /\ scan' = "idle" /\ scanned' = {}
    /\ Dialog(dialog, stored \ scanned)
    /\ UNCHANGED <<screen, stored, live, admitting, PruneVars, fetches, shown, BackupVars, form, sends>>

ReconcileFails ==
    /\ scan # "idle" /\ scan' = "idle" /\ scanned' = {}
    /\ UNCHANGED <<screen, stored, live, admitting, found, dialog, PruneVars, fetches, shown, BackupVars, form, sends>>

Prune ==
    /\ dialog /\ found # {} /\ ~Pruning /\ prune' = found
    /\ UNCHANGED <<screen, stored, live, admitting, scan, scanned, found, dialog, locked, judged, condemned, fetches, shown, BackupVars, form, sends>>

Judging == judged \cup condemned

\* The lock of a key is kept until the request ends.
PruneLocks(o) ==
    /\ o \in prune /\ Judging = {} /\ Free(o) /\ prune' = prune \ {o}
    /\ locked' = locked \cup {o} /\ judged' = {o}
    /\ UNCHANGED <<screen, stored, live, admitting, scan, scanned, found, dialog, condemned, fetches, shown, BackupVars, form, sends>>

\* storage_key_is_live
StillOrphan(o) == o \notin live

\* A key that became live is skipped; one that cannot be looked up is passed over.
PruneChecks(o, fails) ==
    /\ o \in judged /\ judged' = {}
    /\ condemned' = IF StillOrphan(o) /\ ~fails THEN {o} ELSE {}
    /\ UNCHANGED <<screen, stored, live, admitting, scan, scanned, found, dialog, prune, locked, fetches, shown, BackupVars, form, sends>>

\* A deletion that failed is passed over.
PruneDeletes(o, fails) ==
    /\ o \in condemned /\ condemned' = {}
    /\ stored' = IF fails THEN stored ELSE stored \ {o}
    /\ UNCHANGED <<screen, live, admitting, scan, scanned, found, dialog, prune, locked, judged, fetches, shown, BackupVars, form, sends>>

\* The dialog forgets what it shows by now.
PruneEnds(lost) ==
    /\ prune = {} /\ Judging = {} /\ locked # {} /\ locked' = {}
    /\ found' = IF lost THEN found ELSE {}
    /\ UNCHANGED <<screen, stored, live, admitting, scan, scanned, dialog, prune, judged, condemned, fetches, shown, BackupVars, form, sends>>

-----------------------------------------------------------------------------
(* Lists: a fetch is answered with what the server held, in any order.      *)
Fetch ==
    /\ screen # "system" /\ kept \notin fetches /\ Cardinality(fetches) < MaxFetches
    /\ fetches' = fetches \cup {kept}
    /\ UNCHANGED <<screen, StorageVars, shown, BackupVars, form, sends>>

Fetched(list) ==
    /\ list \in fetches /\ fetches' = fetches \ {list} /\ shown' \in {list, shown}
    /\ UNCHANGED <<screen, StorageVars, BackupVars, form, sends>>

\* The health is asked for at once, every thirty seconds, and on demand.
FetchHealth ==
    /\ screen = "system" /\ fetches' = {{}}
    /\ UNCHANGED <<screen, StorageVars, shown, BackupVars, form, sends>>

-----------------------------------------------------------------------------
(* Backups.                                                                *)
Confirmable ==
    [what : {"save"}, of : {0}] \cup [what : {"delete", "restore"}, of : shown] \cup [what : {"restore"}, of : {File}]

\* Each button is off only while what it names is under way.
MayAsk(w) ==
    CASE w.what = "save" -> w \notin works
      [] w.what = "restore" -> restoring # w.of
      [] OTHER -> TRUE

Ask(w) ==
    /\ screen = "backup" /\ asks = NoWork /\ w \in Confirmable /\ MayAsk(w) /\ asks' = w
    /\ UNCHANGED <<screen, StorageVars, fetches, kept, made, shown, works, restoring, form, sends>>

Decide(yes) ==
    /\ asks # NoWork /\ asks' = NoWork
    /\ works' = IF yes THEN works \cup {asks} ELSE works
    /\ restoring' = IF yes /\ asks.what = "restore" THEN asks.of ELSE restoring
    /\ Cardinality(works') <= MaxFetches
    /\ UNCHANGED <<screen, StorageVars, fetches, kept, made, shown, form, sends>>

\* enforce_backup_rotation: the oldest go.
Rotated(s) == {b \in s : Cardinality({c \in s : c > b}) < MaxKept}

SaveDone(w) ==
    /\ w.what = "save" /\ made < MaxSaves /\ made' = made + 1
    /\ kept' = Rotated(kept \cup {made + 1}) /\ fetches' = fetches \cup {kept'}
    /\ UNCHANGED <<restoring>>

DeleteDone(w) ==
    /\ w.what = "delete" /\ kept' = kept \ {w.of} /\ fetches' = fetches \cup {kept'}
    /\ UNCHANGED <<made, restoring>>

\* Also when it failed; the page then names no restore, whichever else runs.
RestoreDone(w) ==
    /\ w.what = "restore" /\ restoring' = 0 /\ UNCHANGED <<kept, made, fetches>>

WorkDone(w) ==
    /\ w \in works /\ works' = works \ {w}
    /\ SaveDone(w) \/ DeleteDone(w) \/ RestoreDone(w)
    /\ Cardinality(fetches') <= MaxFetches
    /\ UNCHANGED <<screen, StorageVars, shown, asks, form, sends>>

WorkFails(w) ==
    /\ w \in works /\ w.what # "restore" /\ works' = works \ {w}
    /\ UNCHANGED <<screen, StorageVars, fetches, kept, made, shown, asks, restoring, form, sends>>

-----------------------------------------------------------------------------
(* Items set forward.                                                       *)
Offered == shown \cup {"new"}
Pickable == Featured         \* what the search of the form finds

OpenForm(f) ==
    /\ screen = "featured" /\ form = {} /\ f \in Offered /\ form' = {f}
    /\ UNCHANGED <<screen, StorageVars, fetches, shown, BackupVars, sends>>

\* Escape closes it even while it is sent.
CloseForm ==
    /\ form # {} /\ form' = {}
    /\ UNCHANGED <<screen, StorageVars, fetches, shown, BackupVars, sends>>

\* One form at a time, whichever item the dialog is about by now.
Submit ==
    /\ form # {} /\ sends = {} /\ sends' = form
    /\ UNCHANGED <<screen, StorageVars, fetches, shown, BackupVars, form>>

\* The answer closes the dialog, even one opened since, and the list is fetched.
Submitted(f, i) ==
    /\ f \in sends /\ sends' = {} /\ form' = {}
    /\ kept' = IF f = "new" THEN kept \cup {i} ELSE kept
    /\ fetches' = fetches \cup {kept'} /\ Cardinality(fetches') <= MaxFetches
    /\ UNCHANGED <<screen, StorageVars, made, shown, asks, works, restoring>>

SubmitFails ==
    /\ sends # {} /\ sends' = {}
    /\ UNCHANGED <<screen, StorageVars, fetches, shown, BackupVars, form>>

\* A deletion takes the row out without a fetch.
Remove(f) ==
    /\ screen = "featured" /\ f \in shown /\ shown' = shown \ {f} /\ kept' = kept \ {f}
    /\ UNCHANGED <<screen, StorageVars, fetches, made, asks, works, restoring, form, sends>>

Next ==
    \/ \E o \in Objects : \/ AdmitLocks(o) \/ AdmitStores(o) \/ AdmitNames(o) \/ AdmitFails(o)
                          \/ Unname(o) \/ PruneLocks(o)
                          \/ \E fails \in BOOLEAN : PruneChecks(o, fails) \/ PruneDeletes(o, fails)
    \/ OpenDialog \/ CloseDialog \/ ResetDialog
    \/ RunReconcile \/ ReconcileReads \/ ReconcileAnswered \/ ReconcileFails
    \/ Prune \/ (\E lost \in BOOLEAN : PruneEnds(lost))
    \/ Fetch \/ FetchHealth \/ (\E list \in fetches : Fetched(list))
    \/ (\E w \in Confirmable : Ask(w)) \/ (\E yes \in BOOLEAN : Decide(yes))
    \/ \E w \in works : WorkDone(w) \/ WorkFails(w)
    \/ \E f \in Featured \cup {"new"} : OpenForm(f) \/ Remove(f) \/ \E i \in Pickable : Submitted(f, i)
    \/ CloseForm \/ Submit \/ SubmitFails

Spec == Init /\ [][Next]_systemVars

-----------------------------------------------------------------------------
(* An object that a row or an upload names is stored: it is not pruned,     *)
(* however old the scan is by which it was listed - "a stale reconcile      *)
(* response can never authorize deletion" (admin_storage.py:159) - nor when *)
(* the row comes after the deletion looked it up: "GC cannot delete the     *)
(* object between the storage write and authoritative DB admission"         *)
(* (qcm.py:369).  (An object that is lost otherwise, and a connection that  *)
(* is lost with its locks, are left out.)                                   *)
NamedIsStored == live \subseteq stored

-----------------------------------------------------------------------------
(* Inductive strengthening of NamedIsStored: a key that is looked up or to  *)
(* be deleted is locked, by nobody who would store it, what is to be        *)
(* deleted is not live, and what was written is still there.                *)
PruneInv ==
    /\ live \subseteq stored /\ condemned \cap live = {} /\ judged \cup condemned \subseteq locked
    /\ admitting \in [Objects -> {"no", "locked", "written"}]
    /\ live \cup locked \subseteq Objects
    /\ \A o \in Objects : o \in locked => admitting[o] = "no"
    /\ \A o \in Objects : admitting[o] = "written" => o \in stored

-----------------------------------------------------------------------------
\* Inductive strengthening of TypeOK: what the page of backups lists.
BackupsFit ==
    screen = "backup" =>
        /\ shown \subseteq Backups /\ kept \subseteq Backups /\ fetches \subseteq SUBSET Backups
        /\ form = {} /\ sends = {}
=============================================================================
