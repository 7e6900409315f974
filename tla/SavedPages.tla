----------------------------- MODULE SavedPages -----------------------------
(***************************************************************************)
(* What a user saved: the page of saved items and collections, and the     *)
(* picker that puts one item into collections.  Each mutation has its      *)
(* effect when it is answered, and an answer is read when it comes.        *)
(***************************************************************************)
EXTENDS Naturals, FiniteSets

CONSTANTS Items, Shelves,     \* collections, existing or to be created
          SavedFirst,             \* the items saved, and in a collection, at first
          Narrow,             \* the items a narrower filter of the page leaves
          MaxActs,            \* bound: mutations of the page under way
          MaxLoads            \* bound: requests for lists under way

VARIABLES saved, shelves, holds,      \* the server's: favourites, collections and what they hold
          place,                      \* the page, or the picker of an item
          library, collections,       \* what the page was told
          selectedId,
          detailOf, detail,           \* the collection that was loaded, its items
          loads, loading, detailLoading,
          narrow,                     \* the filter
          keys,                       \* selectedKeys
          dialog,                     \* the form or the confirmation that is open
          acts,                       \* mutations under way
          target, open,               \* the picker's item; its popover is open
          asks, picking,              \* its requests for lists; loading
          listedFor, listed, members, \* loadedTargetKey; the collections, those with the item
          changing, creating          \* the toggles and the creations under way

savedVars == <<saved, shelves, holds, place, library, collections, selectedId, detailOf, detail, loads, loading, detailLoading, narrow, keys, dialog, acts, target, open, asks, picking, listedFor, listed, members, changing, creating>>
Server == <<saved, shelves, holds>>
Told == <<library, collections, detailOf, detail>>
Loading == <<loads, loading, detailLoading>>
Page == <<Told, selectedId, Loading, narrow, keys, dialog, acts>>
Picker == <<target, open, asks, picking, listedFor, listed, members, changing, creating>>

Maybe == Shelves \cup {"none"}
Forms == {"create", "rename", "delete", "remove", "add"}
Closed == [what |-> "none", of |-> "none", items |-> {}]
Dialogs == [what : Forms, of : Maybe, items : SUBSET Items] \cup {Closed}
Acts == [what : Forms \cup {"card"}, of : Maybe, here : Maybe, items : SUBSET Items]
Loads == [what : {"all", "detail", "collections"}, of : Maybe]
Asks == [of : Items, current : BOOLEAN]
Changes == [of : Shelves, item : Items, add : BOOLEAN, shown : Items, reloads : BOOLEAN]

TypeOK ==
    /\ saved \subseteq Items /\ shelves \subseteq Shelves /\ holds \subseteq shelves \X Items
    /\ place \in {"page", "picker"}
    /\ library \subseteq Items /\ collections \subseteq Shelves /\ selectedId \in Maybe
    /\ detailOf \in Maybe /\ detail \subseteq Items
    /\ loads \subseteq Loads /\ loading \in BOOLEAN /\ detailLoading \in BOOLEAN
    /\ narrow \in BOOLEAN /\ keys \subseteq Items
    /\ dialog \in Dialogs /\ acts \subseteq Acts
    /\ target \in Items /\ open \in BOOLEAN /\ asks \subseteq Asks /\ picking \in BOOLEAN
    /\ listedFor \in Items \cup {"none"} /\ listed \subseteq Shelves /\ members \subseteq listed
    /\ changing \subseteq Changes /\ creating \subseteq Items

Of(shelf) == {i \in Items : <<shelf, i>> \in holds}
rawItems == IF selectedId = "none" THEN library ELSE detail
filteredItems == IF narrow THEN rawItems \cap Narrow ELSE rawItems
selectedItems == filteredItems \cap keys

Init ==
    /\ saved = SavedFirst
    /\ shelves \in (SUBSET Shelves) \ {{}} /\ holds = {CHOOSE s \in shelves : TRUE} \X SavedFirst
    /\ place = "page"
    /\ library = {} /\ collections = {} /\ selectedId = "none" /\ detailOf = "none" /\ detail = {}
    /\ loads = {[what |-> "all", of |-> "none"]} /\ loading = TRUE /\ detailLoading = FALSE
    /\ narrow = FALSE /\ keys = {} /\ dialog = Closed /\ acts = {}
    /\ target = (CHOOSE i \in Items : TRUE) /\ open = FALSE /\ asks = {} /\ picking = FALSE
    /\ listedFor = "none" /\ listed = {} /\ members = {} /\ changing = {} /\ creating = {}

-----------------------------------------------------------------------------
(* The page: what it loads.                                                 *)
OnPage == place = "page" /\ UNCHANGED <<place, Picker>>

AllAnswered ==
    /\ OnPage /\ [what |-> "all", of |-> "none"] \in loads
    /\ loads' = loads \ {[what |-> "all", of |-> "none"]} /\ loading' = FALSE
    /\ library' = saved /\ collections' = shelves
    /\ UNCHANGED <<Server, selectedId, detailOf, detail, detailLoading, narrow, keys, dialog, acts>>

\* No number tells the request of this collection from those before it.
DetailAnswered(s) ==
    /\ OnPage /\ [what |-> "detail", of |-> s] \in loads /\ s \in shelves
    /\ loads' = loads \ {[what |-> "detail", of |-> s]} /\ detailLoading' = FALSE
    /\ detailOf' = s /\ detail' = Of(s)
    /\ UNCHANGED <<Server, selectedId, library, collections, loading, narrow, keys, dialog, acts>>

Selects(s) ==
    /\ selectedId' = s /\ keys' = {}
    /\ IF s = "none"
       THEN /\ detailOf' = "none" /\ detail' = {}
            /\ UNCHANGED detailLoading
       ELSE /\ detailLoading' = TRUE
            /\ UNCHANGED <<detailOf, detail>>

Detail(s) == IF s = "none" THEN {} ELSE {[what |-> "detail", of |-> s]}

\* After a creation or a deletion the collections are asked for again; a new one is then selected.
CollectionsAnswered(s) ==
    /\ OnPage /\ [what |-> "collections", of |-> s] \in loads
    /\ collections' = shelves
    /\ loads' = (loads \ {[what |-> "collections", of |-> s]}) \cup Detail(s)
    /\ IF s = "none" THEN UNCHANGED <<selectedId, detailOf, detail, detailLoading, keys>> ELSE Selects(s)
    /\ UNCHANGED <<Server, library, loading, narrow, dialog, acts>>

LoadFails(r) ==
    /\ OnPage /\ r \in loads /\ loads' = loads \ {r}
    /\ loading' = (loading /\ r.what # "all") /\ detailLoading' = (detailLoading /\ r.what # "detail")
    /\ UNCHANGED <<Server, Told, selectedId, narrow, keys, dialog, acts>>

Select(s) ==
    /\ OnPage /\ dialog = Closed /\ s # selectedId /\ s \in collections \cup {"none"}
    /\ Cardinality(loads) < MaxLoads
    /\ Selects(s) /\ loads' = loads \cup Detail(s)
    /\ UNCHANGED <<Server, library, collections, loading, narrow, dialog, acts>>

-----------------------------------------------------------------------------
(* Filter and selection.                                                    *)
Filter ==
    /\ OnPage /\ dialog = Closed /\ narrow' = ~narrow
    /\ UNCHANGED <<Server, Told, selectedId, Loading, keys, dialog, acts>>

toggleItemSelect(i) ==
    /\ OnPage /\ dialog = Closed /\ i \in filteredItems
    /\ keys' = IF i \in keys THEN keys \ {i} ELSE keys \cup {i}
    /\ UNCHANGED <<Server, Told, selectedId, Loading, narrow, dialog, acts>>

selectAll ==
    /\ OnPage /\ dialog = Closed /\ keys' = filteredItems
    /\ UNCHANGED <<Server, Told, selectedId, Loading, narrow, dialog, acts>>

deselectAll ==
    /\ OnPage /\ dialog = Closed /\ keys' = {}
    /\ UNCHANGED <<Server, Told, selectedId, Loading, narrow, dialog, acts>>

-----------------------------------------------------------------------------
(* Forms and confirmations.  A confirmation acts on what was selected when  *)
(* it was opened; the form of a name on what is selected when it is sent.   *)
Opens(d) ==
    /\ OnPage /\ dialog = Closed /\ dialog' = d
    /\ UNCHANGED <<Server, Told, narrow, keys, acts>>

openCreate ==
    /\ Opens([what |-> "create", of |-> "none", items |-> {}])
    /\ UNCHANGED <<selectedId, Loading>>

openRename ==
    /\ selectedId \in collections
    /\ Opens([what |-> "rename", of |-> "none", items |-> {}])
    /\ UNCHANGED <<selectedId, Loading>>

confirmDelete(s) ==
    /\ s \in collections
    /\ Opens([what |-> "delete", of |-> s, items |-> {}])
    /\ UNCHANGED <<selectedId, Loading>>

BatchRemove ==
    /\ selectedItems # {}
    /\ Opens([what |-> "remove", of |-> selectedId, items |-> selectedItems])
    /\ UNCHANGED <<selectedId, Loading>>

BatchAdd(s) ==
    /\ selectedItems # {} /\ s \in shelves
    /\ Opens([what |-> "add", of |-> s, items |-> selectedItems])
    /\ UNCHANGED <<selectedId, Loading>>

CloseDialog ==
    /\ OnPage /\ dialog # Closed /\ dialog' = Closed
    /\ UNCHANGED <<Server, Told, selectedId, Loading, narrow, keys, acts>>

Starts(what, s, items) ==
    /\ Cardinality(acts) < MaxActs /\ Cardinality(loads) < MaxLoads
    /\ acts' = acts \cup {[what |-> what, of |-> s, here |-> selectedId, items |-> items]}

Submit ==
    /\ OnPage /\ dialog # Closed
    /\ dialog.what = "rename" => selectedId # "none"
    /\ Starts(dialog.what, IF dialog.what = "rename" THEN selectedId ELSE dialog.of, dialog.items)
    /\ dialog' = IF dialog.what \in {"delete", "remove"} THEN Closed ELSE dialog
    /\ UNCHANGED <<Server, Told, selectedId, Loading, narrow, keys>>

\* The button of a card or of a row: out of the collection, or no favourite any more.
remove(i) ==
    /\ OnPage /\ dialog = Closed /\ i \in filteredItems
    /\ Starts("card", selectedId, {i})
    /\ UNCHANGED <<Server, Told, selectedId, Loading, narrow, keys, dialog>>

-----------------------------------------------------------------------------
(* Answers.                                                                 *)
Done(a) == OnPage /\ a \in acts /\ acts' = acts \ {a}

Created(a, s) ==
    /\ Done(a) /\ a.what = "create" /\ s \in Shelves \ shelves
    /\ shelves' = shelves \cup {s} /\ dialog' = Closed
    /\ loads' = loads \cup {[what |-> "collections", of |-> s]}
    /\ UNCHANGED <<saved, holds, Told, selectedId, loading, detailLoading, narrow, keys>>

Renamed(a) ==
    /\ Done(a) /\ a.what = "rename" /\ a.of \in shelves /\ dialog' = Closed
    /\ UNCHANGED <<Server, Told, selectedId, Loading, narrow, keys>>

\* The page leaves the collection if it was selected when its deletion was asked for.
Erased(a) ==
    /\ Done(a) /\ a.what = "delete" /\ a.of \in shelves
    /\ shelves' = shelves \ {a.of} /\ holds' = holds \ ({a.of} \X Items)
    /\ loads' = loads \cup {[what |-> "collections", of |-> "none"]}
    /\ IF a.here = a.of
       THEN Selects("none")
       ELSE UNCHANGED <<selectedId, detailOf, detail, detailLoading, keys>>
    /\ UNCHANGED <<saved, library, collections, loading, narrow, dialog>>

\* A favourite is toggled; a member is taken out.
Withdraws(s, items) ==
    IF s = "none"
    THEN saved' = (saved \ items) \cup (items \ saved) /\ UNCHANGED <<shelves, holds>>
    ELSE holds' = holds \ ({s} \X items) /\ UNCHANGED <<saved, shelves>>

removeVisibleItem(a) ==
    /\ Done(a) /\ a.what = "card"
    /\ Withdraws(a.of, a.items) /\ keys' = keys \ a.items
    /\ IF a.here = "none"
       THEN library' = library \ a.items /\ UNCHANGED detail
       ELSE detail' = detail \ a.items /\ UNCHANGED library
    /\ UNCHANGED <<collections, detailOf, selectedId, Loading, narrow, dialog>>

\* Each item of a batch may fail unnoticed; then all is loaded again, but not the collection.
BatchDone(a, items) ==
    /\ Done(a) /\ items \subseteq a.items
    /\ \/ a.what = "remove" /\ Withdraws(a.of, items)
       \/ /\ a.what = "add" /\ holds' = IF a.of \in shelves THEN holds \cup ({a.of} \X items) ELSE holds
          /\ UNCHANGED <<saved, shelves>>
    /\ keys' = {}
    /\ loads' = loads \cup {[what |-> "all", of |-> "none"]} /\ loading' = TRUE
    /\ dialog' = IF a.what = "add" THEN Closed ELSE dialog
    /\ UNCHANGED <<Told, selectedId, detailLoading, narrow>>

Refused(a) ==
    /\ Done(a) /\ a.what \in {"create", "rename", "delete", "card"}
    /\ UNCHANGED <<Server, Told, selectedId, Loading, narrow, keys, dialog>>

-----------------------------------------------------------------------------
(* The picker of an item.                                                   *)
OnPicker == place = "picker" /\ UNCHANGED <<place, saved, Page>>

\* The user goes to an item, once the page is at rest.
Leave ==
    /\ place = "page" /\ place' = "picker"
    /\ loads = {} /\ acts = {} /\ dialog = Closed
    /\ library' = {} /\ collections' = {} /\ selectedId' = "none" /\ detailOf' = "none" /\ detail' = {}
    /\ keys' = {} /\ narrow' = FALSE
    /\ UNCHANGED <<Server, Loading, dialog, acts, Picker>>

loadCollections(i) ==
    /\ asks' = {[of |-> r.of, current |-> FALSE] : r \in asks} \cup {[of |-> i, current |-> TRUE]}
    /\ picking' = TRUE
    /\ Cardinality(asks) < MaxLoads

Toggle ==
    /\ OnPicker /\ open' = ~open
    /\ IF open' THEN loadCollections(target) ELSE UNCHANGED <<asks, picking>>
    /\ UNCHANGED <<Server, target, listedFor, listed, members, changing, creating>>

\* The picker is given another item while it stays mounted.
Retarget(i) ==
    /\ OnPicker /\ i # target /\ target' = i
    /\ IF open THEN loadCollections(i) ELSE UNCHANGED <<asks, picking>>
    /\ UNCHANGED <<Server, open, listedFor, listed, members, changing, creating>>

ListAnswered(r) ==
    /\ OnPicker /\ r \in asks /\ asks' = asks \ {r}
    /\ IF r.current
       THEN /\ listed' = shelves /\ members' = {s \in shelves : <<s, r.of>> \in holds}
            /\ listedFor' = r.of /\ picking' = FALSE
            /\ changing' = {c \in changing : ~c.reloads}
       ELSE UNCHANGED <<listed, members, listedFor, picking, changing>>
    /\ UNCHANGED <<Server, target, open, creating>>

ListFails(r) ==
    /\ OnPicker /\ r \in asks /\ asks' = asks \ {r}
    /\ picking' = (picking /\ ~r.current)
    /\ changing' = {c \in changing : ~(c.reloads /\ r.current)}
    /\ UNCHANGED <<Server, target, open, listedFor, listed, members, creating>>

\* mutant: a list is shown before the one of this item has come
VisibleAnyway == listed

\* The list is hidden until the one of this item has come.
visibleCollections == IF listedFor = target THEN listed ELSE {}

Press(s) ==
    /\ OnPicker /\ open /\ s \in visibleCollections /\ changing = {}
    /\ changing' = {[of |-> s, item |-> target, add |-> s \notin members, shown |-> listedFor, reloads |-> FALSE]}
    /\ members' = IF s \in members THEN members \ {s} ELSE members \cup {s}
    /\ UNCHANGED <<Server, target, open, asks, picking, listedFor, listed, creating>>

Pressed(c) ==
    /\ OnPicker /\ c \in changing /\ ~c.reloads /\ changing' = changing \ {c}
    /\ holds' = IF c.add THEN holds \cup ({<<c.of, c.item>>} \cap (shelves \X Items))
                         ELSE holds \ {<<c.of, c.item>>}
    /\ UNCHANGED <<shelves, target, open, asks, picking, listedFor, listed, members, creating>>

\* The list is loaded again, of the item that was pressed, and awaited.
PressFails(c) ==
    /\ OnPicker /\ c \in changing /\ ~c.reloads
    /\ changing' = (changing \ {c}) \cup {[c EXCEPT !.reloads = TRUE]}
    /\ loadCollections(c.item)
    /\ UNCHANGED <<Server, target, open, listedFor, listed, members, creating>>

createAndAdd ==
    /\ OnPicker /\ open /\ creating = {} /\ creating' = {target}
    /\ UNCHANGED <<Server, target, open, asks, picking, listedFor, listed, members, changing>>

\* A collection is created and then given the item: the latter may fail.
CreatedAndAdded(i, s, fails) ==
    /\ OnPicker /\ i \in creating /\ creating' = {} /\ s \in Shelves \ shelves
    /\ shelves' = shelves \cup {s}
    /\ IF fails
       THEN UNCHANGED <<holds, listed, members>>
       ELSE /\ holds' = holds \cup {<<s, i>>}
            /\ listed' = listed \cup {s} /\ members' = members \cup {s}
    /\ UNCHANGED <<target, open, asks, picking, listedFor, changing>>

CreateFails(i) ==
    /\ OnPicker /\ i \in creating /\ creating' = {}
    /\ UNCHANGED <<Server, target, open, asks, picking, listedFor, listed, members, changing>>

-----------------------------------------------------------------------------
Next ==
    \/ AllAnswered \/ Filter \/ selectAll \/ deselectAll
    \/ \E s \in Maybe : Select(s) \/ CollectionsAnswered(s)
    \/ \E s \in Shelves : DetailAnswered(s) \/ confirmDelete(s) \/ BatchAdd(s) \/ Press(s)
    \/ \E r \in loads : LoadFails(r)
    \/ \E i \in Items : toggleItemSelect(i) \/ remove(i) \/ Retarget(i)
    \/ openCreate \/ openRename \/ BatchRemove \/ CloseDialog \/ Submit
    \/ \E a \in acts :
        \/ Renamed(a) \/ Erased(a) \/ removeVisibleItem(a) \/ Refused(a)
        \/ \E s \in Shelves : Created(a, s)
        \/ \E items \in SUBSET Items : BatchDone(a, items)
    \/ Leave \/ Toggle \/ createAndAdd
    \/ \E r \in asks : ListAnswered(r) \/ ListFails(r)
    \/ \E c \in changing : Pressed(c) \/ PressFails(c)
    \/ \E i \in creating : CreateFails(i) \/ \E s \in Shelves, b \in BOOLEAN : CreatedAndAdded(i, s, b)

Spec == Init /\ [][Next]_savedVars

-----------------------------------------------------------------------------
(* A press in the picker changes what the list of this very item said: none  *)
(* is taken from the list of the item that was shown before.                *)
PickerIsItsItem == \A c \in changing : c.shown = c.item

\* A press keeps what it was of while the list is loaded again.
PressesAreWhole ==
    \A c \in changing : {"item", "shown"} \subseteq DOMAIN c

\* What keeps PickerIsItsItem.
PickerInv == PickerIsItsItem /\ PressesAreWhole
=============================================================================
