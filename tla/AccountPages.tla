---------------------------- MODULE AccountPages ----------------------------
(***************************************************************************)
(* The signed-in user's profile and settings, and the leaderboard.  The    *)
(* user's record is kept three times: by the server, by the store of the   *)
(* session, and by the page of the profile.  Of a text or a picture only   *)
(* its version matters.                                                    *)
(***************************************************************************)
EXTENDS Naturals, FiniteSets

CONSTANTS Panels,         \* the tabs of a profile, "materials" the first
          Boards,         \* what the leaderboard, or another's profile, may be asked for
          MaxEdits,       \* bound: versions of the name, and of the picture
          MaxProfileFetches

VARIABLES screen,
          server, store,  \* the user's record: at the server, in the session
          signedIn,
          profile, loaded,                \* what the page of the profile shows
          fetches,                        \* requests for it: the record when it was asked
          form,                           \* the form of the profile: "closed", "open"
          saving,                         \* its request is under way
          upload,                         \* the stage of a new picture
          activeTab, displayedTab, visitedTabs, readyTabs, failedTabs,
          tabLoads,                       \* lists under way
          switching, creating,            \* settings under way: the record the page had, or "none"
          exporting, confirming,          \* the export is under way; the deletion is asked or sent
          board, shownBoard, boardLoads, boardFailed    \* of the leaderboard

accountVars == <<screen, server, store, signedIn, profile, loaded, fetches, form, saving, upload, activeTab, displayedTab, visitedTabs, readyTabs, failedTabs, tabLoads, switching, creating, exporting, confirming, board, shownBoard, boardLoads, boardFailed>>
Profile == <<profile, loaded>>
Editing == <<form, saving, upload>>
Tab == <<activeTab, displayedTab, visitedTabs, readyTabs, failedTabs, tabLoads>>
Settings == <<switching, creating, exporting, confirming>>
Board == <<board, shownBoard, boardLoads, boardFailed>>

Users == [name : 0..MaxEdits, avatar : 0..MaxEdits, auto : BOOLEAN, pass : BOOLEAN]
Faces == [name : 0..MaxEdits, avatar : 0..MaxEdits]
Face(u) == [name |-> u.name, avatar |-> u.avatar]
Fresh == [name |-> 0, avatar |-> 0, auto |-> FALSE, pass |-> FALSE]
Pending == [on : BOOLEAN, user : Users]
Idle == [on |-> FALSE, user |-> Fresh]

TypeOK ==
    /\ screen \in {"profile", "settings", "leaderboard", "login"}
    /\ server \in Users /\ store \in Users /\ signedIn \in BOOLEAN
    /\ profile \in Faces /\ loaded \in BOOLEAN
    /\ fetches \subseteq Faces
    /\ form \in {"closed", "open"} /\ saving \in BOOLEAN
    /\ upload \in {"none", "sending", "processing", "adopting"}
    /\ activeTab \in Panels /\ displayedTab \in Panels
    /\ visitedTabs \subseteq Panels /\ readyTabs \subseteq visitedTabs
    /\ failedTabs \subseteq visitedTabs \ readyTabs /\ tabLoads \subseteq visitedTabs
    /\ switching \in Pending /\ creating \in Pending
    /\ exporting \in BOOLEAN /\ confirming \in {"no", "asked", "sent"}
    /\ board \in Boards /\ shownBoard \in Boards \cup {"none"}
    /\ boardLoads \subseteq Boards /\ boardFailed \in BOOLEAN

Init ==
    /\ screen = "settings" /\ server = Fresh /\ store = Fresh /\ signedIn = TRUE
    /\ profile = Face(Fresh) /\ loaded = FALSE /\ fetches = {}
    /\ form = "closed" /\ saving = FALSE /\ upload = "none"
    /\ activeTab = "materials" /\ displayedTab = "materials" /\ visitedTabs = {"materials"}
    /\ readyTabs = {} /\ failedTabs = {} /\ tabLoads = {}
    /\ switching = Idle /\ creating = Idle /\ exporting = FALSE /\ confirming = "no"
    /\ board \in Boards /\ shownBoard = "none" /\ boardLoads = {} /\ boardFailed = FALSE

-----------------------------------------------------------------------------
(* From page to page.  What is under way goes on; what is shown starts anew. *)
Quiet == ~saving /\ upload = "none" /\ ~switching.on /\ ~creating.on /\ ~exporting /\ confirming = "no"

Leave(s) ==
    /\ signedIn /\ screen # s /\ Quiet /\ screen' = s
    /\ form' = "closed" /\ loaded' = FALSE /\ profile' = Face(Fresh)
    /\ activeTab' = "materials" /\ displayedTab' = "materials" /\ visitedTabs' = {"materials"}
    /\ readyTabs' = {} /\ failedTabs' = {} /\ tabLoads' = {}
    /\ shownBoard' = "none" /\ boardFailed' = FALSE
    /\ UNCHANGED <<server, store, signedIn, saving, upload, Settings, board>>

fetchProfile(u) ==
    /\ Cardinality(fetches) < MaxProfileFetches
    /\ fetches' = fetches \cup {Face(u)}

OpenProfile == Leave("profile") /\ fetchProfile(server) /\ boardLoads' = {}
OpenSettings == Leave("settings") /\ boardLoads' = {} /\ UNCHANGED fetches
OpenBoard == Leave("leaderboard") /\ boardLoads' = {board} /\ UNCHANGED fetches

-----------------------------------------------------------------------------
(* The profile.  The session's user follows whatever record comes.          *)
syncAuthUserFromProfile(f) ==
    store' = IF signedIn THEN [store EXCEPT !.name = f.name, !.avatar = f.avatar] ELSE store

\* The record as it was when it was asked for, or as it is.
ProfileAnswered(f, late) ==
    /\ f \in fetches /\ fetches' = fetches \ {f}
    /\ LET told == IF late THEN f ELSE Face(server)
       IN  /\ syncAuthUserFromProfile(told)
           /\ profile' = IF screen = "profile" THEN told ELSE profile
    /\ loaded' = (loaded \/ screen = "profile")
    /\ tabLoads' = IF screen = "profile" /\ ~loaded THEN {"materials"} ELSE tabLoads
    /\ UNCHANGED <<screen, server, signedIn, Editing, activeTab, displayedTab, visitedTabs, readyTabs, failedTabs, Settings, Board>>

ProfileFails(f) ==
    /\ f \in fetches /\ fetches' = fetches \ {f}
    /\ UNCHANGED <<screen, server, store, signedIn, Profile, Editing, Tab, Settings, Board>>

OnProfile == screen = "profile" /\ loaded /\ UNCHANGED <<screen, signedIn, Settings, Board>>

Edit ==
    /\ OnProfile /\ form' = IF form = "open" THEN "closed" ELSE "open"
    /\ UNCHANGED <<server, store, Profile, fetches, saving, upload, Tab>>

submit ==
    /\ OnProfile /\ form = "open" /\ ~saving /\ saving' = TRUE
    /\ UNCHANGED <<server, store, Profile, fetches, form, upload, Tab>>

Saved ==
    /\ OnProfile /\ saving /\ saving' = FALSE /\ server.name < MaxEdits
    /\ server' = [server EXCEPT !.name = @ + 1]
    /\ profile' = Face(server') /\ syncAuthUserFromProfile(Face(server')) /\ form' = "closed"
    /\ UNCHANGED <<loaded, fetches, upload, Tab>>

SaveFails ==
    /\ OnProfile /\ saving /\ saving' = FALSE
    /\ UNCHANGED <<server, store, Profile, fetches, form, upload, Tab>>

handleAvatarUpload ==
    /\ OnProfile /\ upload = "none" /\ server.avatar < MaxEdits /\ upload' = "sending"
    /\ UNCHANGED <<server, store, Profile, fetches, form, saving, Tab>>

\* It is uploaded, awaited until it is found clean, and only then adopted.
AvatarMoves ==
    /\ OnProfile /\ upload \in {"sending", "processing"}
    /\ upload' = IF upload = "sending" THEN "processing" ELSE "adopting"
    /\ UNCHANGED <<server, store, Profile, fetches, form, saving, Tab>>

\* The record is then fetched once more.
AvatarAdopted ==
    /\ OnProfile /\ upload = "adopting" /\ upload' = "none"
    /\ server' = [server EXCEPT !.avatar = @ + 1]
    /\ profile' = Face(server') /\ syncAuthUserFromProfile(Face(server'))
    /\ fetchProfile(server')
    /\ UNCHANGED <<loaded, form, saving, Tab>>

AvatarFails ==
    /\ OnProfile /\ upload # "none" /\ upload' = "none"
    /\ UNCHANGED <<server, store, Profile, fetches, form, saving, Tab>>

-----------------------------------------------------------------------------
(* The tabs of the profile: a panel is loaded when its tab is first opened,  *)
(* and the panel before it stays until it is ready.                          *)
OnTabs == OnProfile /\ UNCHANGED <<server, store, Profile, fetches, Editing>>
AtEase == form = "closed" /\ upload = "none"      \* bound: tabs are opened while nothing is edited

handleTabChange(v) ==
    /\ OnTabs /\ AtEase /\ v # activeTab /\ activeTab' = v
    /\ visitedTabs' = visitedTabs \cup {v}
    /\ tabLoads' = IF v \in visitedTabs THEN tabLoads ELSE tabLoads \cup {v}
    /\ displayedTab' = IF v \in readyTabs THEN v ELSE displayedTab
    /\ UNCHANGED <<readyTabs, failedTabs>>

\* mutant: the panel that is ready is displayed, whichever tab is open by now
markTabReadyAnyway(v) ==
    /\ OnTabs /\ v \in tabLoads /\ tabLoads' = tabLoads \ {v}
    /\ readyTabs' = readyTabs \cup {v} /\ failedTabs' = failedTabs \ {v}
    /\ displayedTab' = v
    /\ UNCHANGED <<activeTab, visitedTabs>>

markTabReady(v) ==
    /\ OnTabs /\ v \in tabLoads /\ tabLoads' = tabLoads \ {v}
    /\ readyTabs' = readyTabs \cup {v} /\ failedTabs' = failedTabs \ {v}
    /\ displayedTab' = IF activeTab = v THEN v ELSE displayedTab
    /\ UNCHANGED <<activeTab, visitedTabs>>

markTabError(v) ==
    /\ OnTabs /\ v \in tabLoads /\ tabLoads' = tabLoads \ {v}
    /\ failedTabs' = IF v \in readyTabs THEN failedTabs ELSE failedTabs \cup {v}
    /\ UNCHANGED <<activeTab, visitedTabs, displayedTab, readyTabs>>

retryTab ==
    /\ OnTabs /\ AtEase /\ activeTab \in failedTabs
    /\ failedTabs' = failedTabs \ {activeTab} /\ tabLoads' = tabLoads \cup {activeTab}
    /\ UNCHANGED <<activeTab, visitedTabs, displayedTab, readyTabs>>

\* Another page of the list of a panel.
fetchContributions ==
    /\ OnTabs /\ AtEase /\ displayedTab \in readyTabs \ tabLoads
    /\ tabLoads' = tabLoads \cup {displayedTab}
    /\ UNCHANGED <<activeTab, visitedTabs, displayedTab, readyTabs, failedTabs>>

-----------------------------------------------------------------------------
(* Settings.  An answer is merged into the record the page had when the     *)
(* button was pressed.                                                      *)
OnSettings == screen = "settings" /\ UNCHANGED <<Profile, fetches, Editing, Tab, Board>>
Had == [on |-> TRUE, user |-> store]

handleToggleAutoApprove ==
    /\ OnSettings /\ ~switching.on /\ switching' = Had
    /\ UNCHANGED <<screen, server, store, signedIn, creating, exporting, confirming>>

AutoApproveSet ==
    /\ OnSettings /\ switching.on /\ switching' = Idle
    /\ server' = [server EXCEPT !.auto = ~switching.user.auto]
    /\ store' = [switching.user EXCEPT !.auto = ~@]
    /\ UNCHANGED <<screen, signedIn, creating, exporting, confirming>>

handleCreatePassword ==
    /\ OnSettings /\ ~store.pass /\ ~creating.on /\ creating' = Had
    /\ UNCHANGED <<screen, server, store, signedIn, switching, exporting, confirming>>

\* The server refuses a second password.
PasswordCreated ==
    /\ OnSettings /\ creating.on /\ creating' = Idle /\ ~server.pass
    /\ server' = [server EXCEPT !.pass = TRUE]
    /\ store' = [creating.user EXCEPT !.pass = TRUE]
    /\ UNCHANGED <<screen, signedIn, switching, exporting, confirming>>

SettingFails ==
    /\ OnSettings
    /\ \/ switching.on /\ switching' = Idle /\ UNCHANGED <<creating, exporting, confirming>>
       \/ creating.on /\ creating' = Idle /\ UNCHANGED <<switching, exporting, confirming>>
       \/ confirming = "sent" /\ confirming' = "no" /\ UNCHANGED <<switching, creating, exporting>>
    /\ UNCHANGED <<screen, server, store, signedIn>>

handleExport ==
    /\ OnSettings /\ exporting' = ~exporting
    /\ UNCHANGED <<screen, server, store, signedIn, switching, creating, confirming>>

handleDeleteAccount ==
    /\ OnSettings /\ confirming \in {"no", "asked"}
    /\ confirming' \in IF confirming = "no" THEN {"asked"} ELSE {"no", "sent"}
    /\ UNCHANGED <<screen, server, store, signedIn, switching, creating, exporting>>

\* The session ends, and the page with it.
AccountDeleted ==
    /\ OnSettings /\ confirming = "sent" /\ confirming' = "no"
    /\ signedIn' = FALSE /\ screen' = "login"
    /\ switching' = Idle /\ creating' = Idle /\ exporting' = FALSE
    /\ UNCHANGED <<server, store>>

-----------------------------------------------------------------------------
(* The leaderboard: what was asked before is aborted.                       *)
OnBoard == screen = "leaderboard" /\ UNCHANGED <<screen, server, store, signedIn, Profile, fetches, Editing, Tab, Settings>>

changePeriod(b) ==
    /\ OnBoard /\ b # board /\ board' = b
    /\ boardLoads' = {b} /\ boardFailed' = FALSE /\ UNCHANGED shownBoard

BoardAnswered(b) ==
    /\ OnBoard /\ b \in boardLoads /\ boardLoads' = boardLoads \ {b}
    /\ shownBoard' = b /\ UNCHANGED <<board, boardFailed>>

BoardFails(b) ==
    /\ OnBoard /\ b \in boardLoads /\ boardLoads' = boardLoads \ {b}
    /\ boardFailed' = TRUE /\ UNCHANGED <<board, shownBoard>>

retry ==
    /\ OnBoard /\ boardFailed /\ boardFailed' = FALSE /\ boardLoads' = {board}
    /\ UNCHANGED <<board, shownBoard>>

-----------------------------------------------------------------------------
Next ==
    \/ OpenProfile \/ OpenSettings \/ OpenBoard
    \/ \E f \in fetches : ProfileFails(f) \/ \E late \in BOOLEAN : ProfileAnswered(f, late)
    \/ Edit \/ submit \/ Saved \/ SaveFails
    \/ handleAvatarUpload \/ AvatarMoves \/ AvatarAdopted \/ AvatarFails
    \/ \E v \in Panels : handleTabChange(v) \/ markTabReady(v) \/ markTabError(v)
    \/ retryTab \/ fetchContributions
    \/ handleToggleAutoApprove \/ AutoApproveSet \/ handleCreatePassword \/ PasswordCreated
    \/ SettingFails \/ handleExport \/ handleDeleteAccount \/ AccountDeleted
    \/ \E b \in Boards : changePeriod(b) \/ BoardAnswered(b) \/ BoardFails(b)
    \/ retry

Spec == Init /\ [][Next]_accountVars

-----------------------------------------------------------------------------
(* An open tab whose list has come displays it, and a leaderboard that is    *)
(* loaded is of the period that is chosen: no list of a tab the reader has   *)
(* left, late as it may come, takes its place.                               *)
OpenTabIsDisplayed ==
    /\ activeTab \in readyTabs => displayedTab = activeTab
    /\ screen = "leaderboard" /\ boardLoads = {} /\ ~boardFailed => shownBoard = board

\* A list of the leaderboard that is under way is of the period that is chosen.
BoardIsAsked == screen = "leaderboard" => boardLoads \subseteq {board}

\* What keeps OpenTabIsDisplayed.
AccountInv == OpenTabIsDisplayed /\ BoardIsAsked

-----------------------------------------------------------------------------
(* Inductive strengthening of TypeOK: a tab that is ready or has failed has  *)
(* been visited, and the server has room for a picture that is on its way.   *)
RecordsFit ==
    /\ screen \in {"profile", "settings", "leaderboard", "login"}
    /\ server \in Users /\ store \in Users /\ signedIn \in BOOLEAN
    /\ profile \in Faces /\ loaded \in BOOLEAN /\ fetches \subseteq Faces
    /\ form \in {"closed", "open"} /\ saving \in BOOLEAN
    /\ upload \in {"none", "sending", "processing", "adopting"}
    /\ upload # "none" => server.avatar < MaxEdits

TabsFit ==
    /\ activeTab \in Panels /\ displayedTab \in Panels
    /\ visitedTabs \subseteq Panels /\ "materials" \in visitedTabs
    /\ readyTabs \subseteq visitedTabs /\ tabLoads \subseteq visitedTabs
    /\ failedTabs \subseteq visitedTabs \ readyTabs

SettingsFit ==
    /\ switching \in Pending /\ creating \in Pending
    /\ exporting \in BOOLEAN /\ confirming \in {"no", "asked", "sent"}

BoardFits ==
    /\ board \in Boards /\ shownBoard \in Boards \cup {"none"}
    /\ boardLoads \subseteq Boards /\ boardFailed \in BOOLEAN

AccountFits == RecordsFit /\ TabsFit /\ SettingsFit /\ BoardFits
=============================================================================
