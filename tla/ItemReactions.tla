--------------------------- MODULE ItemReactions ----------------------------
(***************************************************************************)
(* Likes.  The heart of an item is shown by its row, by the sheet of its   *)
(* page and by the bar in the sidebar; the sheet and the bar each show at  *)
(* once what their press will bring, and the server's answer confirms or   *)
(* takes it back.  The endpoint turns the like around, it does not set it: *)
(* what is shown and what is held agree only as long as every press is     *)
(* counted on both sides.  A press is written to the overrides of its item *)
(* and to the data of whatever item the sidebar is about by then.  The     *)
(* counts beside the hearts, and a sidebar that is closed, are left out.   *)
(***************************************************************************)
EXTENDS Naturals, FiniteSets

CONSTANTS Items,
          MaxPresses      \* bound: presses of hearts

VARIABLES onPage,         \* the material of the page; "none" for a listing
          target,         \* sidebarTarget
          likes,          \* the server's
          overrides,      \* useLikeOverrides, or what the item was loaded with
          bar,            \* isLiked of the InteractionBar
          inSheet, inBar, \* isLiking of each, and its request
          presses, orderly,
          overridden,     \* the items useLikeOverrides has an entry of
          data,           \* is_liked of the data of the sidebar's target
          strayed         \* a like was confirmed into the data of another item

likeVars == <<onPage, target, likes, overrides, bar, inSheet, inBar, presses, orderly, overridden, data, strayed>>
Written == <<overridden, data, strayed>>

Idle == [of |-> "none", next |-> FALSE, done |-> FALSE, alone |-> TRUE]
Press == [of : Items, next : BOOLEAN, done : BOOLEAN, alone : BOOLEAN]

TypeOK ==
    /\ onPage \in Items \cup {"none"} /\ target \in Items \cup {"none"}
    /\ likes \in [Items -> BOOLEAN] /\ overrides \in [Items -> BOOLEAN] /\ bar \in BOOLEAN
    /\ inSheet \in Press \cup {Idle} /\ inBar \in Press \cup {Idle}
    /\ presses \in 0..MaxPresses /\ orderly \in BOOLEAN
    /\ overridden \subseteq Items /\ data \in BOOLEAN /\ strayed \in BOOLEAN

Init ==
    /\ onPage = "none" /\ target = "none"
    /\ likes \in [Items -> BOOLEAN] /\ overrides = likes /\ bar = FALSE
    /\ inSheet = Idle /\ inBar = Idle /\ presses = 0
    /\ orderly = TRUE     \* no answer was lost, no press failed amid others or after the sidebar moved
    /\ overridden = {} /\ data = FALSE /\ strayed = FALSE

\* An override goes before what an item was loaded with.
EffectiveIsLiked == IF target \in overridden THEN overrides[target] ELSE data
SheetIsLiked == IF onPage \notin overridden /\ target = onPage THEN data ELSE overrides[onPage]

\* The bar follows the item it is about and what is to be shown of it.
Synced(was) ==
    bar' = IF target' = target /\ EffectiveIsLiked' = EffectiveIsLiked THEN was ELSE EffectiveIsLiked'

-----------------------------------------------------------------------------
(* Moving about.                                                           *)
\* The data are the item's as it was loaded; an override hides what was of old.
SetTarget(i) ==
    /\ target' = i /\ data' = overrides[i] /\ UNCHANGED <<overrides, overridden>>
    /\ Synced(bar)

\* The page of a material, or the listing of a folder; an open sidebar follows,
\* and is told of it when closed.
Navigate(i) ==
    /\ onPage' \in {i, "none"} \ {onPage} /\ SetTarget(i)
    /\ UNCHANGED <<likes, inSheet, inBar, presses, orderly, strayed>>

\* openSidebar, from the page of the item or from its menu in a listing; and
\* what the page is about, when it was fetched again
OpenSidebar(i) ==
    /\ onPage \in {i, "none"} /\ SetTarget(i)
    /\ UNCHANGED <<onPage, likes, inSheet, inBar, presses, orderly, strayed>>

-----------------------------------------------------------------------------
(* Pressing.                                                               *)
Pressed(i, next, other) == [of |-> i, next |-> next, done |-> FALSE, alone |-> other.of # i]
Joined(p, i) == IF p.of = i THEN [p EXCEPT !.alone = FALSE] ELSE p

Override(i, l) ==
    /\ overrides' = [overrides EXCEPT ![i] = l] /\ overridden' = overridden \cup {i}

\* The like is written into the data of the target, whatever item that is.
UpdateSidebarData(l) == data' = IF target = "none" THEN data ELSE l

\* handleLike of the sheet
PressInSheet ==
    /\ onPage # "none" /\ inSheet = Idle /\ presses < MaxPresses /\ presses' = presses + 1
    /\ LET next == ~SheetIsLiked IN
       /\ inSheet' = Pressed(onPage, next, inBar)
       /\ Override(onPage, next) /\ UpdateSidebarData(next)
    /\ inBar' = Joined(inBar, onPage)
    /\ UNCHANGED <<onPage, target, likes, orderly, strayed>> /\ Synced(bar)

\* handleLike of the bar
PressInBar ==
    /\ target # "none" /\ inBar = Idle /\ presses < MaxPresses /\ presses' = presses + 1
    /\ inBar' = Pressed(target, ~bar, inSheet) /\ Override(target, ~bar)
    /\ inSheet' = Joined(inSheet, target)
    /\ UNCHANGED <<onPage, target, likes, orderly, data, strayed>> /\ Synced(~bar)

ServerTurns(p) == likes' = [likes EXCEPT ![p.of] = ~@]

ServerTakesSheet ==
    /\ inSheet # Idle /\ ~inSheet.done
    /\ inSheet' = [inSheet EXCEPT !.done = TRUE] /\ ServerTurns(inSheet)
    /\ UNCHANGED <<onPage, target, overrides, bar, inBar, presses, orderly, Written>>

ServerTakesBar ==
    /\ inBar # Idle /\ ~inBar.done
    /\ inBar' = [inBar EXCEPT !.done = TRUE] /\ ServerTurns(inBar)
    /\ UNCHANGED <<onPage, target, overrides, bar, inSheet, presses, orderly, Written>>

SheetConfirmed ==
    /\ inSheet # Idle /\ inSheet.done /\ inSheet' = Idle
    /\ UNCHANGED <<onPage, target, likes, overrides, bar, inBar, presses, orderly, Written>>

\* The like is told to the sidebar, whatever item it is about by now.
BarConfirmed ==
    /\ inBar # Idle /\ inBar.done /\ inBar' = Idle
    /\ UpdateSidebarData(inBar.next)
    /\ strayed' = (strayed \/ target \notin overridden \cup {"none"})   \* only an override hides it
    /\ UNCHANGED <<onPage, target, likes, overrides, inSheet, presses, orderly, overridden>>
    /\ Synced(bar)

\* mutant: what was shown is not taken back
Kept(p) == UNCHANGED <<overrides, overridden>>

TakenBack(p) == Override(p.of, ~p.next)

\* A request that failed, or whose answer was lost.
SheetFails ==
    /\ inSheet # Idle /\ TakenBack(inSheet) /\ UpdateSidebarData(~inSheet.next)
    /\ orderly' = (orderly /\ ~inSheet.done /\ inSheet.alone /\ target = inSheet.of)
    /\ inSheet' = Idle
    /\ UNCHANGED <<onPage, target, likes, inBar, presses, strayed>> /\ Synced(bar)

\* The bar shows what it showed, whatever item it is about by now.
BarFails ==
    /\ inBar # Idle /\ TakenBack(inBar)
    /\ orderly' = (orderly /\ ~inBar.done /\ inBar.alone /\ target = inBar.of)
    /\ inBar' = Idle
    /\ UNCHANGED <<onPage, target, likes, inSheet, presses, data, strayed>> /\ Synced(~inBar.next)

Next ==
    \/ \E i \in Items : Navigate(i) \/ OpenSidebar(i)
    \/ PressInSheet \/ PressInBar \/ ServerTakesSheet \/ ServerTakesBar
    \/ SheetConfirmed \/ BarConfirmed \/ SheetFails \/ BarFails

Spec == Init /\ [][Next]_likeVars

-----------------------------------------------------------------------------
(* With nothing under way for an item its heart shows what the server       *)
(* holds, in its row, in the sheet and in the bar, however the presses of   *)
(* the two hearts overlapped and the sidebar moved.  Not so, as the code    *)
(* stands, once                                                             *)
(*   - an answer was lost;                                                  *)
(*   - a press failed that was not alone, or after the sidebar moved: the   *)
(*     bar of the new item is then set to the opposite of the press, or     *)
(*     its data are (details-tab.tsx:220, viewer-fab.tsx:239);              *)
(*   - a press was confirmed after the sidebar moved to an item without an  *)
(*     override: the like is written into the data of that item             *)
(*     (details-tab.tsx:217, stores.ts:106), and its bar shows it.          *)
HeartsAgree ==
    \A i \in Items :
        inSheet.of # i /\ inBar.of # i =>
            /\ overrides[i] = likes[i]
            /\ target = i => bar = likes[i]
            /\ onPage = i => SheetIsLiked = likes[i]

HeartIsServers == orderly /\ ~strayed => HeartsAgree

-----------------------------------------------------------------------------
(* Why the hearts agree.  What is shown of an item differs from what the    *)
(* server holds as long as an odd number of presses has not reached it, the *)
(* data of the target are what it was loaded with unless an override hides  *)
(* them, the bar shows what is shown of its item, and of a press that was   *)
(* alone all along it is known what is shown.                               *)
Owes(p, i) == p.of = i /\ ~p.done

PressesAreCounted ==
    \A i \in Items : (overrides[i] = likes[i]) <=> (Owes(inSheet, i) <=> Owes(inBar, i))

BarIsTargets ==
    target \in Items => bar = overrides[target] /\ (target \in overridden \/ data = overrides[target])

AloneIsShown ==
    \A p \in {inSheet, inBar} : p.of \in Items /\ p.alone => overrides[p.of] = p.next

AloneHasNoOther == inSheet.of = inBar.of /\ inSheet.of \in Items => ~inSheet.alone /\ ~inBar.alone

PressedIsOverridden == \A p \in {inSheet, inBar} : p.of \in Items => p.of \in overridden

PageIsTarget == onPage \in Items => target = onPage

LikesFit ==
    /\ onPage \in Items \cup {"none"} /\ target \in Items \cup {"none"}
    /\ likes \in [Items -> BOOLEAN] /\ overrides \in [Items -> BOOLEAN] /\ bar \in BOOLEAN
    /\ inSheet \in Press \cup {Idle} /\ inBar \in Press \cup {Idle} /\ orderly \in BOOLEAN
    /\ overridden \subseteq Items /\ data \in BOOLEAN /\ strayed \in BOOLEAN

LikesInv ==
    /\ LikesFit /\ AloneHasNoOther /\ PressedIsOverridden /\ PageIsTarget
    /\ orderly /\ ~strayed => PressesAreCounted /\ BarIsTargets /\ AloneIsShown
=============================================================================
