-------------------------- MODULE PullRequestPages --------------------------
(***************************************************************************)
(* The pages about pull requests: the list, kept up to date by events, the *)
(* page of one pull request, where moderators and its author decide on it, *)
(* and the page that previews one of its files.  One pull request stands   *)
(* for all; other people decide on it at the same time.  A query or a      *)
(* decision under way outlives the page that sent it.                      *)
(***************************************************************************)
EXTENDS Naturals, FiniteSets

CONSTANT MaxQueries  \* bound: requests under way

VARIABLES verdict,   \* the status at the server
          undone,    \* the server has a pull request that reverts it
          role,      \* what the user is to it
          screen,    \* the page
          detail,    \* pr
          dialog,    \* the open dialog
          filled,    \* what it asks for is filled in
          acting,    \* the decision the page waits for
          asked,     \* decisions under way
          rows,      \* itemDetails of the operations
          preview,   \* the file preview
          list,      \* prs
          queries,   \* requests for the list
          heard,     \* an event about the list is under way
          unlisted   \* error: the latest request for the list failed

pullVars == <<verdict, undone, role, screen, detail, dialog, filled, acting, asked, rows, preview,
              list, queries, heard, unlisted>>

Verdicts == {"open", "approved", "rejected", "cancelled"}
Decisions == {"approve", "reject", "cancel", "revert"}
Status == [approve |-> "approved", reject |-> "rejected", cancel |-> "cancelled", revert |-> "approved"]

\* What the page of a pull request holds.
Detail == [status : Verdicts \cup {"loading", "missing"}, undone : BOOLEAN, revertible : BOOLEAN]
Blank(s) == [status |-> s, undone |-> FALSE, revertible |-> FALSE]

\* "mine": sent by the page shown now.
Asked == [by : Decisions, mine : BOOLEAN, result : {"sent", "done", "refused"}]
Query == [active : BOOLEAN, read : {"none", "old", "now"}]

TypeOK ==
    /\ verdict \in Verdicts /\ undone \in BOOLEAN /\ role \in {"author", "moderator", "admin"}
    /\ screen \in {"list", "detail", "preview"} /\ detail \in Detail
    /\ dialog \in {"none"} \cup (Decisions \ {"approve"}) /\ filled \in BOOLEAN
    /\ acting \in {"none"} \cup Decisions /\ asked \subseteq Asked
    /\ rows \in {"none", "resolving", "fetched", "known", "bare"}
    /\ preview \in {"idle", "named", "asked", "fallback", "open", "failed"}
    /\ list \in {"none", "old", "now"} /\ queries \subseteq Query
    /\ heard \in BOOLEAN /\ unlisted \in BOOLEAN

Inactive == {[q EXCEPT !.active = FALSE] : q \in queries}
NewQuery == [active |-> TRUE, read |-> "none"]

\* refreshKey, a tab, a page or a scope changes: the effect runs again.
FetchList == queries' = Inactive \cup {NewQuery} /\ unlisted' = FALSE

Init ==
    /\ verdict = "open" /\ undone = FALSE /\ role \in {"author", "moderator", "admin"}
    /\ screen = "list" /\ detail = Blank("loading") /\ dialog = "none" /\ filled = FALSE
    /\ acting = "none" /\ asked = {} /\ rows = "none" /\ preview = "idle"
    /\ list = "none" /\ queries = {NewQuery} /\ heard = FALSE /\ unlisted = FALSE

listVars == <<list, queries, heard, unlisted>>
fileVars == <<rows, preview>>
decisionVars == <<dialog, filled, acting, asked>>

-----------------------------------------------------------------------------
(* The list.                                                               *)
ReadList(q) ==
    /\ q \in queries /\ q.read = "none"
    /\ queries' = (queries \ {q}) \cup {[q EXCEPT !.read = "now"]}
    /\ UNCHANGED <<verdict, undone, role, screen, detail, decisionVars, fileVars, list, heard, unlisted>>

ListAnswered(q) ==
    /\ q \in queries /\ q.read # "none" /\ queries' = queries \ {q}
    /\ list' = IF q.active THEN q.read ELSE list
    /\ UNCHANGED <<verdict, undone, role, screen, detail, decisionVars, fileVars, heard, unlisted>>

ListFails(q) ==
    /\ q \in queries /\ queries' = queries \ {q}
    /\ unlisted' = (unlisted \/ q.active)
    /\ UNCHANGED <<verdict, undone, role, screen, detail, decisionVars, fileVars, list, heard>>

\* pr_opened, pr_closed, a resynchronisation
Hear ==
    /\ screen = "list" /\ heard /\ heard' = FALSE /\ FetchList
    /\ UNCHANGED <<verdict, undone, role, screen, detail, decisionVars, fileVars, list>>

ChooseList ==
    /\ FetchList
    /\ UNCHANGED <<verdict, undone, role, screen, detail, decisionVars, fileVars, list, heard>>

\* Another status or scope: at any time.  The retry button: after a failure.
\* Another page: not while a page is loading.
SwitchTab == screen = "list" /\ ChooseList
RetryList == screen = "list" /\ unlisted /\ ChooseList
Loading == \E q \in queries : q.active
ChangePage == screen = "list" /\ list # "none" /\ ~Loading /\ ChooseList

-----------------------------------------------------------------------------
(* Going from page to page.                                                *)
Mount(to) ==
    /\ screen' = to /\ detail' = Blank("loading") /\ dialog' = "none" /\ filled' = FALSE
    /\ acting' = "none" /\ asked' = {[a EXCEPT !.mine = FALSE] : a \in asked}
    /\ rows' = "none" /\ preview' = "idle" /\ heard' = FALSE

OpenCard ==
    /\ screen = "list" /\ list # "none"
    /\ Mount("detail") /\ list' = "none" /\ queries' = Inactive /\ unlisted' = FALSE
    /\ UNCHANGED <<verdict, undone, role>>

LeavePreview ==
    /\ screen = "preview" /\ Mount("detail")
    /\ UNCHANGED <<verdict, undone, role, list, queries, unlisted>>

OpenPreviewPage ==
    /\ screen = "detail" /\ detail.status \in Verdicts /\ Mount("preview")
    /\ UNCHANGED <<verdict, undone, role, list, queries, unlisted>>

BackToList ==
    /\ screen = "detail" /\ Mount("list") /\ FetchList
    /\ UNCHANGED <<verdict, undone, role, list>>

-----------------------------------------------------------------------------
(* The page of a pull request.                                             *)
DetailAnswered ==
    /\ screen = "detail" /\ detail.status = "loading"
    /\ detail' \in {Blank("missing"),
                    [status |-> verdict, undone |-> undone, revertible |-> verdict = "approved" /\ ~undone]}
    /\ rows' = IF detail'.status = "missing" THEN "none" ELSE "resolving"
    /\ UNCHANGED <<verdict, undone, role, screen, decisionVars, preview, listVars>>

MayModerate == role \in {"moderator", "admin"} /\ detail.status = "open"
MayCancel == role = "author" /\ detail.status = "open"
MayRevert == role = "admin" /\ detail.revertible /\ ~detail.undone

May(d) == CASE d \in {"approve", "reject"} -> MayModerate
            [] d = "cancel" -> MayCancel
            [] d = "revert" -> MayRevert

Send(d) ==
    /\ acting' = d /\ asked' = asked \cup {[by |-> d, mine |-> TRUE, result |-> "sent"]}
    /\ dialog' = "none"

Approve ==
    /\ screen = "detail" /\ dialog = "none" /\ acting = "none" /\ May("approve") /\ Send("approve")
    /\ UNCHANGED <<verdict, undone, role, screen, detail, filled, fileVars, listVars>>

\* The buttons that open the dialogs of the other decisions.
OpenDialog(d) ==
    /\ screen = "detail" /\ dialog = "none" /\ acting = "none" /\ May(d) /\ dialog' = d
    /\ UNCHANGED <<verdict, undone, role, screen, detail, filled, acting, asked, fileVars, listVars>>

\* Ten characters of a reason; the box and the sentence typed again.
FillIn ==
    /\ dialog \in {"reject", "revert"} /\ filled' = ~filled
    /\ UNCHANGED <<verdict, undone, role, screen, detail, dialog, acting, asked, fileVars, listVars>>

\* Closing the dialog forgets what was filled in.
CloseDialog ==
    /\ dialog # "none" /\ dialog' = "none" /\ filled' = FALSE
    /\ UNCHANGED <<verdict, undone, role, screen, detail, acting, asked, fileVars, listVars>>

Confirm ==
    /\ dialog # "none" /\ (filled \/ dialog = "cancel") /\ Send(dialog)
    /\ UNCHANGED <<verdict, undone, role, screen, detail, filled, fileVars, listVars>>

\* mutant: shown whatever the answer
ShownAnyway(a) ==
    IF a.by = "revert" THEN [detail EXCEPT !.undone = TRUE, !.revertible = FALSE]
    ELSE [detail EXCEPT !.status = Status[a.by]]

\* What the page shows after the answer.
Shown(a) ==
    IF a.result # "done" THEN detail
    ELSE IF a.by = "revert" THEN [detail EXCEPT !.undone = TRUE, !.revertible = FALSE]
    ELSE [detail EXCEPT !.status = Status[a.by]]

\* Answered; a network failure leaves the page as after a refusal.
DecisionAnswered(a) ==
    /\ a \in asked /\ a.result # "sent" /\ asked' = asked \ {a}
    /\ IF ~a.mine THEN UNCHANGED <<detail, acting, filled>>
       ELSE /\ acting' = "none"
            /\ \/ detail' = Shown(a) /\ filled' = (filled /\ a.result # "done")
               \/ UNCHANGED <<detail, filled>>
    /\ UNCHANGED <<verdict, undone, role, screen, dialog, fileVars, listVars>>

-----------------------------------------------------------------------------
(* Its operations and the previews of their files.                         *)
\* What the operations are about is fetched, then where it is; failing that
\* the rows show the bare payload.
RowsFetched ==
    /\ rows = "resolving" /\ rows' \in {"fetched", "bare"}
    /\ UNCHANGED <<verdict, undone, role, screen, detail, decisionVars, preview, listVars>>

RowsPlaced ==
    /\ rows = "fetched" /\ rows' \in {"known", "bare"}
    /\ UNCHANGED <<verdict, undone, role, screen, detail, decisionVars, preview, listVars>>

\* handleQuickPreview, and the first request of the preview page.
AskPreview ==
    /\ \/ screen = "detail" /\ detail.status \in Verdicts /\ preview \in {"idle", "failed"}
       \/ screen = "preview" /\ preview = "idle"
    /\ preview' = IF screen = "detail" THEN "asked" ELSE "named"
    /\ UNCHANGED <<verdict, undone, role, screen, detail, decisionVars, rows, listVars>>

\* The page knows the pull request and asks for the file itself.
PreviewNamed ==
    /\ preview = "named" /\ preview' \in {"asked", "open", "failed"}
    /\ UNCHANGED <<verdict, undone, role, screen, detail, decisionVars, rows, listVars>>

\* Without a preview of the pull request's own, the row tries the material.
PreviewAnswered ==
    /\ \/ preview = "asked" /\ preview' \in {"open", "failed"}
       \/ preview = "asked" /\ screen = "detail" /\ preview' = "fallback"
       \/ preview = "fallback" /\ preview' \in {"open", "failed"}
    /\ UNCHANGED <<verdict, undone, role, screen, detail, decisionVars, rows, listVars>>

ClosePreview ==
    /\ preview = "open" /\ screen = "detail" /\ preview' = "idle"
    /\ UNCHANGED <<verdict, undone, role, screen, detail, decisionVars, rows, listVars>>

-----------------------------------------------------------------------------
(* The server.                                                             *)
Possible(d) == IF d = "revert" THEN verdict = "approved" /\ ~undone ELSE verdict = "open"

\* What was read of the list is old, and an event says so.
Announce ==
    /\ list' = IF list = "now" THEN "old" ELSE list
    /\ queries' = {[q EXCEPT !.read = IF @ = "now" THEN "old" ELSE @] : q \in queries}
    /\ heard' = (screen = "list")

Decide(d) ==
    /\ verdict' = Status[d] /\ undone' = (undone \/ d = "revert") /\ Announce
    /\ UNCHANGED <<role, screen, detail, dialog, filled, acting, fileVars, unlisted>>

Serve(a) ==
    /\ a \in asked /\ a.result = "sent"
    /\ \/ /\ Possible(a.by) /\ Decide(a.by)
          /\ asked' = (asked \ {a}) \cup {[a EXCEPT !.result = "done"]}
       \/ /\ asked' = (asked \ {a}) \cup {[a EXCEPT !.result = "refused"]}
          /\ UNCHANGED <<verdict, undone, role, screen, detail, dialog, filled, acting, fileVars, listVars>>

\* Another moderator, or the author, or the expiry of the pull request.
OthersDecide(d) == Possible(d) /\ Decide(d) /\ UNCHANGED asked

Next ==
    /\ \/ \E q \in queries : ReadList(q) \/ ListAnswered(q) \/ ListFails(q)
       \/ Hear \/ SwitchTab \/ RetryList \/ ChangePage \/ OpenCard \/ LeavePreview \/ OpenPreviewPage \/ BackToList
       \/ DetailAnswered \/ Approve \/ FillIn \/ CloseDialog \/ Confirm
       \/ \E d \in Decisions \ {"approve"} : OpenDialog(d)
       \/ \E d \in Decisions : OthersDecide(d)
       \/ \E a \in asked : DecisionAnswered(a) \/ Serve(a)
       \/ RowsFetched \/ RowsPlaced \/ AskPreview \/ PreviewNamed \/ PreviewAnswered \/ ClosePreview
    /\ Cardinality(queries') + Cardinality(asked') <= MaxQueries

Spec == Init /\ [][Next]_pullVars

-----------------------------------------------------------------------------
(* A decision the page shows is the one the server has made, whoever       *)
(* decided meanwhile and whatever became of the page's own request.        *)
ShownIsDecided ==
    /\ detail.status \in Verdicts \ {"open"} => detail.status = verdict
    /\ detail.undone => undone

-----------------------------------------------------------------------------
(* Inductive strengthening of ShownIsDecided: what the server answers that *)
(* it has done, it has done, and no decision is taken back.                *)
DoneIsDecided ==
    \A a \in asked :
        a.result = "done" => verdict = Status[a.by] /\ (a.by = "revert" => undone)

PullsFit ==
    /\ verdict \in Verdicts /\ undone \in BOOLEAN
    /\ detail \in Detail /\ asked \subseteq Asked /\ dialog \in {"none"} \cup Decisions
PullsInv == PullsFit /\ ShownIsDecided /\ DoneIsDecided
=============================================================================
