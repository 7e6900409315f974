---------------------------- MODULE SearchPages ----------------------------
(***************************************************************************)
(* The search hook and its two users: the search page, whose query,        *)
(* filters and page number live in the URL, and the search dialog, which   *)
(* waits while the user types.  An effect on the query arms a timer and    *)
(* drops the request under way; the timer, a filter or a page number asks  *)
(* the server; the page leads the user back from a page past the end.      *)
(***************************************************************************)
EXTENDS Naturals

CONSTANT MaxSheet   \* SEARCH_MAX_PAGE

VARIABLES host,     \* "page" or "dialog": the user of the hook
          open,     \* it is on screen
          words,    \* query
          filter,   \* kind, type, status and scope
          sheet,    \* page
          debounced,\* debouncedQuery
          phase,    \* status and error
          hits,     \* results, total and resolvedRequestKey
          search,   \* the request under way
          delay,    \* the timer is armed
          back,     \* where the correction of the page number leads
          found     \* how many pages the server has for each filter

searchVars == <<host, open, words, filter, sheet, debounced, phase, hits, search, delay, back, found>>

Words == {"none", "a", "b"}
Filters == {"all", "narrow"}
RequestKeys == [words : Words, filter : Filters, sheet : 1..MaxSheet]
Pages == 0..(MaxSheet + 1)
NoKey == [words |-> "none", filter |-> "all", sheet |-> 1]
NoSearch == [key |-> NoKey, aborted |-> FALSE]
Hits == [of : RequestKeys, total : Pages, some : BOOLEAN]
NoHits == [of |-> NoKey, total |-> 0, some |-> FALSE]

TypeOK ==
    /\ host \in {"page", "dialog"} /\ open \in BOOLEAN
    /\ words \in Words /\ filter \in Filters /\ sheet \in 1..MaxSheet /\ debounced \in Words
    /\ phase \in {"idle", "debouncing", "loading", "success", "empty", "error", "refused"}
    /\ hits \in Hits /\ search \in [key : RequestKeys, aborted : BOOLEAN]
    /\ delay \in BOOLEAN /\ back \in RequestKeys /\ found \in [Filters -> Pages]

Waiting == phase \in {"debouncing", "loading"}
Key(w, f, s) == [words |-> w, filter |-> f, sheet |-> s]
Requesting == search # NoSearch /\ ~search.aborted

Init ==
    /\ host \in {"page", "dialog"} /\ open = FALSE
    /\ words = "none" /\ filter = "all" /\ sheet = 1 /\ debounced = "none"
    /\ phase = "idle" /\ hits = NoHits /\ search = NoSearch /\ delay = FALSE /\ back = NoKey
    /\ found \in {g \in [Filters -> Pages] : g["narrow"] <= g["all"]}

-----------------------------------------------------------------------------
(* The hook.                                                               *)

\* The effect on the query.
Debounced(w) == IF w = words THEN phase ELSE IF w = "none" THEN "idle" ELSE "debouncing"

\* The effect that asks: not for a query the user has left.
Ask(d, w, key, p) ==
    /\ debounced' = d
    /\ IF d # "none" /\ d = w
       THEN search' = [key |-> key, aborted |-> FALSE] /\ phase' = "loading"
       ELSE search' = NoSearch /\ phase' = p

LastPage(total) == IF total = 0 THEN 1 ELSE total
ValidPage(total, s) == IF s < LastPage(total) THEN s ELSE LastPage(total)

\* mutant: whatever search the results belong to.
CorrectionOfAnyAnswer(p, h, key) ==
    IF /\ host = "page" /\ p \in {"success", "empty"}
       /\ h.total > 0 /\ ValidPage(h.total, key.sheet) # key.sheet
    THEN [key EXCEPT !.sheet = ValidPage(h.total, key.sheet)]
    ELSE NoKey

\* The effect that corrects the page number, with the status and the results
\* of the render it follows.
Correction(p, h, key) ==
    IF /\ host = "page" /\ p \in {"success", "empty"} /\ h.of = key
       /\ h.total > 0 /\ ValidPage(h.total, key.sheet) # key.sheet
    THEN [key EXCEPT !.sheet = ValidPage(h.total, key.sheet)]
    ELSE NoKey

\* A render with another query, filter or page number, and its effects.
Render(w, f, s) ==
    /\ words' = w /\ filter' = f /\ sheet' = s
    /\ IF w # words THEN hits' = NoHits /\ delay' = TRUE ELSE UNCHANGED <<hits, delay>>
    /\ IF f # filter \/ s # sheet THEN Ask(debounced, w, Key(w, f, s), Debounced(w))
       ELSE /\ phase' = Debounced(w) /\ UNCHANGED debounced
            /\ search' = IF w = words \/ search = NoSearch THEN search
                         ELSE [search EXCEPT !.aborted = TRUE]
    /\ back' = IF w = "none" THEN NoKey ELSE Correction(phase, hits, Key(w, f, s))

\* mutant: the effect depends on the query alone.
TimerFiresUnversioned ==
    /\ delay /\ delay' = FALSE
    /\ IF words = "none" THEN debounced' = "none" /\ search' = NoSearch /\ phase' = "idle"
       ELSE IF debounced = words
            THEN phase' = "loading" /\ UNCHANGED <<debounced, search>>
            ELSE Ask(words, words, Key(words, filter, sheet), phase)
    /\ UNCHANGED <<host, open, words, filter, sheet, hits, back, found>>

TimerFires ==
    /\ delay /\ delay' = FALSE
    /\ IF words = "none" THEN debounced' = "none" /\ search' = NoSearch /\ phase' = "idle"
       ELSE Ask(words, words, Key(words, filter, sheet), phase)
    /\ UNCHANGED <<host, open, words, filter, sheet, hits, back, found>>

hookRest == <<host, open, words, filter, sheet, debounced, delay, found>>

Answered ==
    /\ Requesting /\ search.key.words = words
    /\ search' = NoSearch
    /\ LET some == search.key.sheet <= found[search.key.filter]
       IN /\ hits' = [of |-> search.key, total |-> found[search.key.filter], some |-> some]
          /\ phase' = IF some THEN "success" ELSE "empty"
    /\ back' = Correction(phase', hits', Key(words, filter, sheet))
    /\ UNCHANGED hookRest

\* A refusal, a failure of the server or the network, ten seconds without answer.
Fails ==
    /\ Requesting /\ search' = NoSearch
    /\ hits' = [hits EXCEPT !.total = 0, !.some = FALSE]
    /\ phase' \in {"error", "refused"}
    /\ UNCHANGED <<hookRest, back>>

-----------------------------------------------------------------------------
(* What is on screen.                                                      *)
InitialLoading == Waiting /\ ~hits.some
View ==
    IF words = "none" THEN "suggestions"
    ELSE IF InitialLoading THEN "skeleton"
    ELSE IF phase \in {"error", "refused"} THEN "failure"
    ELSE IF ~hits.some THEN "nothing" ELSE "results"

DialogView ==
    IF hits.some THEN "results"
    ELSE IF Waiting THEN "skeleton"
    ELSE IF phase \in {"error", "refused"} THEN "failure"
    ELSE IF words = "none" THEN "suggestions" ELSE "nothing"

Shown(view) == open /\ (IF host = "page" THEN View ELSE DialogView) = view
Retryable == phase = "error"

Retry ==
    /\ Shown("failure") /\ Retryable
    /\ Ask(debounced, words, Key(words, filter, sheet), phase)
    /\ UNCHANGED <<host, open, words, filter, sheet, hits, delay, back, found>>

\* The page: a search from the box or a suggestion starts at the first page,
\* the URL's other parts stay; a filter starts at the first page as well.
OnPage == host = "page" /\ open
Submit(w) ==
    /\ OnPage /\ w # words /\ Render(w, filter, 1)
    /\ UNCHANGED <<host, open, found>>
Suggest(w) == w # "none" /\ Shown("suggestions") /\ Submit(w)
ClearBox == words # "none" /\ Submit("none")

FilterPage(f) ==
    /\ OnPage /\ f # filter /\ Render(words, f, 1)
    /\ UNCHANGED <<host, open, found>>
ClearAllFilters == filter # "all" /\ FilterPage("all")

PageCount == LastPage(hits.total)
ChangePage(s) ==
    /\ OnPage /\ Shown("results") /\ PageCount > 1
    /\ (s = sheet - 1 /\ sheet > 1) \/ (s = sheet + 1 /\ sheet < PageCount)
    /\ Render(words, filter, IF s > MaxSheet THEN MaxSheet ELSE s)
    /\ UNCHANGED <<host, open, found>>

Correct ==
    /\ OnPage /\ back # NoKey /\ Render(back.words, back.filter, back.sheet)
    /\ UNCHANGED <<host, open, found>>

\* A link, the history or the address bar: any URL, the page mounted or not.
Visit(w, f, s) ==
    /\ OnPage /\ Render(w, f, s)
    /\ UNCHANGED <<host, open, found>>

MountPage(w, f, s) ==
    /\ host = "page" /\ ~open /\ open' = TRUE
    /\ words' = w /\ filter' = f /\ sheet' = s
    /\ debounced' = "none" /\ search' = NoSearch /\ back' = NoKey
    /\ hits' = NoHits /\ delay' = TRUE /\ phase' = Debounced(w)
    /\ UNCHANGED <<host, found>>

\* Another page.
LeavePage ==
    /\ OnPage /\ open' = FALSE /\ words' = "none" /\ filter' = "all" /\ sheet' = 1
    /\ debounced' = "none" /\ phase' = "idle" /\ hits' = NoHits /\ search' = NoSearch
    /\ delay' = FALSE /\ back' = NoKey
    /\ UNCHANGED <<host, found>>

\* The dialog: its hook outlives it.
InDialog == host = "dialog" /\ open
OpenDialog ==
    /\ host = "dialog" /\ ~open /\ open' = TRUE
    /\ UNCHANGED <<host, words, filter, sheet, debounced, phase, hits, search, delay, back, found>>

Type(w) ==
    /\ InDialog /\ w # words /\ Render(w, filter, 1)
    /\ UNCHANGED <<host, open, found>>

FilterDialog(f) ==
    /\ InDialog /\ f # filter /\ Render(words, f, 1)
    /\ UNCHANGED <<host, open, found>>

\* Escape, or all results asked for.
CloseDialog ==
    /\ InDialog /\ open' = FALSE /\ Render("none", "all", 1)
    /\ UNCHANGED <<host, found>>

\* A result chosen from the list or the grid.
OpenResult == Shown("results") /\ (LeavePage \/ CloseDialog)

Next ==
    \/ TimerFires \/ Answered \/ Fails \/ Retry
    \/ \E w \in Words : Submit(w) \/ Suggest(w) \/ Type(w)
    \/ ClearBox \/ ClearAllFilters \/ Correct \/ LeavePage \/ OpenDialog \/ CloseDialog \/ OpenResult
    \/ \E f \in Filters : FilterPage(f) \/ FilterDialog(f)
    \/ \E s \in 0..(MaxSheet + 1) : ChangePage(s)
    \/ \E w \in Words, f \in Filters, s \in 1..MaxSheet : Visit(w, f, s) \/ MountPage(w, f, s)

Spec == Init /\ [][Next]_searchVars

-----------------------------------------------------------------------------
(* A search that says it is under way is: the timer of the hook is armed or  *)
(* its request is on the way, however the user types back and forth.         *)
SearchingEnds == Waiting => delay \/ Requesting

(* Only a page number past the end of what this very search finds is         *)
(* corrected, never one that the results of another search do not reach.     *)
OnlyPastTheEndIsCorrected == back # NoKey => sheet > found[filter]

-----------------------------------------------------------------------------
(* Inductive strengthening of the two: once the timer has fired the request *)
(* is for what the user sees; a total is that of the filter it was asked    *)
(* for.                                                                     *)
WaitingForOnesQuery == Waiting /\ ~delay => Requesting /\ debounced = words /\ words # "none"
TotalsAreFound == hits.total > 0 => hits.total = found[hits.of.filter]

Sheets == [words : Words, filter : Filters, sheet : Nat \ {0}]
SearchFits ==
    /\ words \in Words /\ filter \in Filters /\ sheet \in Nat \ {0} /\ debounced \in Words
    /\ found \in [Filters -> Nat] /\ hits \in [of : Sheets, total : Nat, some : BOOLEAN]
    /\ search \in [key : Sheets, aborted : BOOLEAN] /\ back \in Sheets
SearchInv == SearchFits /\ WaitingForOnesQuery /\ TotalsAreFound /\ OnlyPastTheEndIsCorrected

-----------------------------------------------------------------------------
\* The fields of the hook of the search.
Phases == {"idle", "debouncing", "loading", "success", "empty", "error", "refused"}
Hook == debounced \in Words /\ search \in [key : RequestKeys, aborted : BOOLEAN] /\ phase \in Phases
=============================================================================
