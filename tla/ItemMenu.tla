------------------------------ MODULE ItemMenu ------------------------------
(***************************************************************************)
(* What can be done with one item: the menu of its row, which is built     *)
(* only when the pointer has rested on the row or the row is used, and the *)
(* toolbar and the sheet of its page.  A row that is scrolled away and     *)
(* back is built anew: what an earlier visit to it asked for may still be  *)
(* under way, with the state of that visit.                                *)
(***************************************************************************)
EXTENDS Naturals

CONSTANTS MaxParts,       \* bound: archives a folder is sent as
          MaxVisits       \* bound: times the item is shown, one after another

VARIABLES kind, restricted, \* "file", "quiz" or "folder"; staged or previewed
          role,           \* "guest", "member" or "staff"
          place,          \* its row in a listing, or its page
          mounted,        \* the item is on the page
          arming,         \* armTimer and armed: "cold", "soon", "ready"
          popup,          \* deleteDialogOpen, editDialogOpen
          deleting,       \* a direct deletion is under way
          drafted,        \* what the draft holds of the item
          downloading, printing, remaking,
          zips,           \* the archives of the folder, for each visit
          visit,          \* which visit this is
          cancelled       \* dirDownloadCancelRef, for each visit

menuVars == <<kind, restricted, role, place, mounted, arming, popup, deleting, drafted, downloading, printing, remaking, zips, visit, cancelled>>

Visits == 1..MaxVisits
NoZip == [phase |-> "idle", parts |-> 0, started |-> 0]

TypeOK ==
    /\ kind \in {"file", "quiz", "folder"} /\ restricted \in {"no", "created", "preview"}
    /\ role \in {"guest", "member", "staff"} /\ place \in {"row", "page"} /\ mounted \in BOOLEAN
    /\ arming \in {"cold", "soon", "ready"} /\ popup \in {"none", "delete", "edit"}
    /\ deleting \in BOOLEAN /\ drafted \in {"none", "create", "delete"}
    /\ downloading \in BOOLEAN /\ printing \in BOOLEAN /\ remaking \in BOOLEAN
    /\ zips \in [Visits -> [phase : {"idle", "asked", "waits", "cools"}, parts : 0..MaxParts, started : 0..MaxParts]]
    /\ visit \in Visits /\ cancelled \in [Visits -> BOOLEAN]

Init ==
    /\ kind \in {"file", "quiz", "folder"} /\ restricted \in {"no", "created", "preview"}
    /\ role \in {"guest", "member", "staff"} /\ mounted = TRUE
    /\ place \in IF kind = "folder" THEN {"row"} ELSE {"row", "page"}
    /\ arming = "cold" /\ popup = "none" /\ deleting = FALSE
    /\ drafted = IF restricted = "created" THEN "create" ELSE "none"
    /\ downloading = FALSE /\ printing = FALSE /\ remaking = FALSE
    /\ visit = 1 /\ zips = [v \in Visits |-> NoZip] /\ cancelled = [v \in Visits |-> FALSE]

Ready == mounted /\ arming = "ready"
Zips == <<zips, visit, cancelled>>
Asks == <<downloading, printing, remaking, Zips>>
Item == <<kind, restricted, role, place>>

-----------------------------------------------------------------------------
(* Arming.                                                                 *)
PointerEnters ==
    /\ mounted /\ arming = "cold" /\ arming' = "soon"
    /\ UNCHANGED <<Item, mounted, popup, deleting, drafted, Asks>>

PointerLeaves ==
    /\ arming = "soon" /\ arming' = "cold"
    /\ UNCHANGED <<Item, mounted, popup, deleting, drafted, Asks>>

\* The pointer rested, or the row was focused or right-clicked.
Arm ==
    /\ mounted /\ arming # "ready" /\ arming' = "ready"
    /\ UNCHANGED <<Item, mounted, popup, deleting, drafted, Asks>>

\* The row is scrolled away or the page left; what was asked for comes anyway.
Unmount ==
    /\ mounted /\ mounted' = FALSE /\ arming' = "cold" /\ popup' = "none"
    /\ cancelled' = [cancelled EXCEPT ![visit] = TRUE]
    /\ UNCHANGED <<Item, deleting, drafted, downloading, printing, remaking, zips, visit>>

\* It is back, and knows nothing of what it was asked before.
Remount ==
    /\ ~mounted /\ visit < MaxVisits
    /\ mounted' = TRUE /\ visit' = visit + 1
    /\ deleting' = FALSE /\ downloading' = FALSE /\ printing' = FALSE /\ remaking' = FALSE
    /\ UNCHANGED <<Item, arming, popup, drafted, zips, cancelled>>

-----------------------------------------------------------------------------
(* Dialogs and deletion.                                                   *)
MayEdit == restricted = "no" /\ kind # "quiz" /\ role # "guest"     \* a quiz has an editor of its own
MayDelete == role # "guest"

OpenDialog(p) ==
    /\ Ready /\ popup = "none" /\ popup' = p
    /\ IF p = "edit" THEN MayEdit ELSE MayDelete
    /\ UNCHANGED <<Item, mounted, arming, deleting, drafted, Asks>>

CloseDialog ==
    /\ popup # "none" /\ ~deleting /\ popup' = "none"
    /\ UNCHANGED <<Item, mounted, arming, deleting, drafted, Asks>>

\* handleDraftDelete: a creation is withdrawn, anything else is to be deleted.
DraftDelete ==
    /\ popup = "delete" /\ ~deleting /\ popup' = "none"
    /\ drafted' = IF restricted = "created" THEN "none" ELSE "delete"
    /\ UNCHANGED <<Item, mounted, arming, deleting, Asks>>

\* handleDelete of the sheet of a material's page does not ask which it is.
SheetDelete ==
    /\ mounted /\ place = "page" /\ role # "guest" /\ drafted' = "delete"
    /\ UNCHANGED <<Item, mounted, arming, popup, deleting, Asks>>

DirectDelete ==
    /\ popup = "delete" /\ restricted # "created" /\ ~deleting /\ deleting' = TRUE
    /\ UNCHANGED <<Item, mounted, arming, popup, drafted, Asks>>

\* The dialog stays when it failed or was refused.
DirectDeleteEnds ==
    /\ deleting /\ deleting' = FALSE /\ popup' \in {popup, "none"}
    /\ UNCHANGED <<Item, mounted, arming, drafted, Asks>>

-----------------------------------------------------------------------------
(* Files.                                                                  *)

\* The menu does so for what is published, the page for any material.
InMenu == Ready /\ kind # "folder" /\ restricted = "no"
InToolbar == mounted /\ place = "page"
InSheet == mounted /\ place = "page"

Download ==
    /\ InMenu \/ InToolbar \/ InSheet
    /\ ~downloading /\ downloading' = TRUE
    /\ UNCHANGED <<Item, mounted, arming, popup, deleting, drafted, printing, remaking, Zips>>

Downloaded ==
    /\ downloading /\ downloading' = FALSE
    /\ UNCHANGED <<Item, mounted, arming, popup, deleting, drafted, printing, remaking, Zips>>

\* Also by Ctrl+P, which no disabled button stops.
PrintFile ==
    /\ (InMenu /\ ~printing) \/ InToolbar \/ InSheet
    /\ printing' = TRUE
    /\ UNCHANGED <<Item, mounted, arming, popup, deleting, drafted, downloading, remaking, Zips>>

\* The window opened, was blocked, or there was nothing to print yet.
Printed ==
    /\ printing /\ printing' = FALSE
    /\ UNCHANGED <<Item, mounted, arming, popup, deleting, drafted, downloading, remaking, Zips>>

RecalculateThumbnail ==
    /\ Ready \/ InToolbar
    /\ kind = "file" /\ role = "staff" /\ restricted = "no" /\ ~remaking /\ remaking' = TRUE
    /\ UNCHANGED <<Item, mounted, arming, popup, deleting, drafted, downloading, printing, Zips>>

ThumbnailRecalculated ==
    /\ remaking /\ remaking' = FALSE
    /\ UNCHANGED <<Item, mounted, arming, popup, deleting, drafted, downloading, printing, Zips>>

-----------------------------------------------------------------------------
(* A folder is downloaded as one archive or as several, a while apart.     *)
Zip(v, z) ==
    /\ zips' = [zips EXCEPT ![v] = z]
    /\ UNCHANGED <<Item, mounted, arming, popup, deleting, drafted, downloading, printing, remaking, visit>>

\* mutant: one ref for every visit, which the next download resets
ShareRef == cancelled' = [v \in Visits |-> FALSE]

ResetRef == cancelled' = [cancelled EXCEPT ![visit] = FALSE]

DownloadDirectory ==
    /\ Ready /\ kind = "folder" /\ restricted = "no" /\ zips[visit].phase = "idle"
    /\ ResetRef /\ Zip(visit, [NoZip EXCEPT !.phase = "asked"])

Started(z) == [z EXCEPT !.started = z.started + 1, !.phase = IF z.started + 1 = z.parts THEN "cools" ELSE "waits"]
Stopped(z) == [z EXCEPT !.phase = "cools"]

\* One archive starts at once, even of a row that is gone.
ChunksAnswered(v, n) ==
    /\ zips[v].phase = "asked" /\ UNCHANGED cancelled
    /\ LET asked == [zips[v] EXCEPT !.parts = n] IN
       Zip(v, IF n > 1 /\ cancelled[v] THEN Stopped(asked) ELSE Started(asked))

ChunksFail(v) == zips[v].phase = "asked" /\ UNCHANGED cancelled /\ Zip(v, Stopped(zips[v]))

NextPart(v) ==
    /\ zips[v].phase = "waits" /\ UNCHANGED cancelled
    /\ Zip(v, IF cancelled[v] THEN Stopped(zips[v]) ELSE Started(zips[v]))

Cooled(v) == zips[v].phase = "cools" /\ UNCHANGED cancelled /\ Zip(v, NoZip)

Next ==
    \/ PointerEnters \/ PointerLeaves \/ Arm \/ Unmount \/ Remount
    \/ \E p \in {"delete", "edit"} : OpenDialog(p)
    \/ CloseDialog \/ DraftDelete \/ SheetDelete \/ DirectDelete \/ DirectDeleteEnds
    \/ Download \/ Downloaded \/ PrintFile \/ Printed \/ RecalculateThumbnail \/ ThumbnailRecalculated
    \/ DownloadDirectory
    \/ \E v \in Visits : \/ \E n \in 1..MaxParts : ChunksAnswered(v, n)
                        \/ ChunksFail(v) \/ NextPart(v) \/ Cooled(v)

Spec == Init /\ [][Next]_menuVars

-----------------------------------------------------------------------------
(* Once the row of a folder is gone no further archive of several starts,   *)
(* whenever it went - before the answer, or between two archives - and even *)
(* when the row is back by then and downloads the folder once more.         *)
Gone(v) == v # visit \/ ~mounted
NoFurtherArchive == \A v \in Visits : Gone(v) /\ zips'[v].parts > 1 => zips'[v].started <= zips[v].started
ZipStopsWithItem == [][NoFurtherArchive]_menuVars

-----------------------------------------------------------------------------
(* Inductive strengthening of ZipStopsWithItem: the ref of every visit that *)
(* is over is set, and a visit to come has asked for nothing.               *)
Zipped == [phase : {"idle", "asked", "waits", "cools"}, parts : Nat, started : Nat]
MenuInv ==
    /\ zips \in [Visits -> Zipped] /\ visit \in Visits /\ cancelled \in [Visits -> BOOLEAN] /\ mounted \in BOOLEAN
    /\ \A v \in Visits : v < visit \/ (v = visit /\ ~mounted) => cancelled[v]
    /\ \A v \in Visits : v > visit => zips[v] = NoZip

-----------------------------------------------------------------------------
\* Inductive strengthening of TypeOK: archives start from the first one, and
\* the menu waits only while some are left.
Archived ==
    {z \in [phase : {"idle", "asked", "waits", "cools"}, parts : 0..MaxParts, started : 0..MaxParts] :
        (z.phase = "asked" => z.started = 0) /\ (z.phase = "waits" => z.started < z.parts)}
PartsRemain == zips \in [Visits -> Archived]
=============================================================================
