------------------------ MODULE PendingContributions ------------------------
(***************************************************************************)
(* What a member submitted and is not decided yet: the folders, links and  *)
(* batches submitted from a listing show there as ghosts until the stream  *)
(* of events, or an answer to a question asked again, says they closed.    *)
(***************************************************************************)
EXTENDS Naturals, FiniteSets

CONSTANTS Submissions, Members,
          FormKinds,           \* the dialogs of a listing that submit
          MaxAsks          \* bound: answers about one contribution under way

VARIABLES status, author,        \* the server's pull requests
          user,                  \* the session of this page
          ownerId, ghosts,       \* usePendingContributionsStore, kept in the browser
          form, submitting,      \* the open dialog; the dialogs that are submitting
          posts,                 \* POST /pull-requests under way
          events, connecting,    \* pr_closed on its way; the stream is not there yet
          checks,                \* reconcilePendingContribution under way
          unanswered,            \* the ghosts whose last question failed
          within                 \* ghostDirStack: the ghost whose folder is looked into

pendingVars == <<status, author, user, ownerId, ghosts, form, submitting, posts, events, connecting, checks, unanswered, within>>
Server == <<status, author>>
Store == <<ownerId, ghosts>>
Dialogs == <<form, submitting, within>>
Stream == <<events, connecting>>

Nobody == "nobody"
Posts == [of : Submissions \cup {"unsent"}, form : FormKinds, who : Members, to : {"open", "approved"}]
Checks == [of : Submissions, read : {"unread", "open", "closed"}, n : 1..MaxAsks]

TypeOK ==
    /\ status \in [Submissions -> {"none", "open", "closed"}]
    /\ author \in [Submissions -> Members \cup {Nobody}]
    /\ user \in Members \cup {Nobody} /\ ownerId \in Members \cup {Nobody}
    /\ ghosts \subseteq Submissions /\ form \in FormKinds \cup {"none"} /\ submitting \subseteq FormKinds
    /\ posts \subseteq Posts /\ events \subseteq Submissions /\ connecting \in BOOLEAN
    /\ checks \subseteq Checks /\ unanswered \subseteq Submissions
    /\ within \in Submissions \cup {"none"}

Init ==
    /\ status = [c \in Submissions |-> "none"] /\ author = [c \in Submissions |-> Nobody]
    /\ user = Nobody /\ ownerId = Nobody /\ ghosts = {}
    /\ form = "none" /\ submitting = {} /\ posts = {}
    /\ events = {} /\ connecting = FALSE /\ checks = {} /\ unanswered = {} /\ within = "none"

-----------------------------------------------------------------------------
(* The store, and asking again.                                             *)
activateOwner(id) ==
    /\ ownerId' = id
    /\ ghosts' = IF ownerId = id THEN ghosts ELSE {}

\* Asks about the ghosts of C; more answers than the bound are not waited for.
Asked(C) == {[of |-> c, read |-> "unread", n |-> n] : c \in C, n \in 1..MaxAsks}
Newly(C) == {k \in Asked(C) : \A j \in checks : j.of = k.of => j.n < k.n}
First(K) == {k \in K : \A j \in K : j.of = k.of => k.n <= j.n}
reconcile(C) ==
    /\ \A c \in C : \E k \in Newly(C) : k.of = c
    /\ checks' = checks \cup First(Newly(C)) /\ unanswered' = unanswered \ C

\* The effect of the session: the store is the user's, and the stream is opened.
SessionStarts(m) ==
    /\ user = Nobody /\ user' = m /\ activateOwner(m) /\ reconcile(ghosts')
    /\ connecting' = TRUE /\ events' = {}
    /\ UNCHANGED <<Server, posts, Dialogs>>

SessionEnds ==
    /\ user # Nobody /\ user' = Nobody /\ activateOwner(Nobody)
    /\ connecting' = FALSE /\ events' = {}
    /\ UNCHANGED <<Server, posts, checks, unanswered, Dialogs>>

\* The store is read back; what the previous page awaited is not heard of.
Reload ==
    /\ user # Nobody /\ user' = Nobody
    /\ form' = "none" /\ submitting' = {} /\ within' = "none"
    /\ posts' = {} /\ checks' = {} /\ unanswered' = {}
    /\ connecting' = FALSE /\ events' = {}
    /\ UNCHANGED <<Server, Store>>

\* The first snapshot, one after a gap, and each return to the page ask again.
Resync ==
    /\ user # Nobody /\ reconcile(ghosts) /\ connecting' = FALSE /\ events' = {}
    /\ UNCHANGED <<Server, user, Store, posts, Dialogs>>

onVisible ==
    /\ user # Nobody /\ reconcile(ghosts)
    /\ UNCHANGED <<Server, user, Store, posts, Stream, Dialogs>>

StreamBreaks ==
    /\ user # Nobody /\ ~connecting /\ connecting' = TRUE /\ events' = {}
    /\ UNCHANGED <<Server, user, Store, posts, checks, unanswered, Dialogs>>

resolvePendingContributionEvent(c) ==
    /\ c \in events /\ events' = events \ {c}
    /\ ghosts' = ghosts \ {c} /\ reconcile(ghosts')
    /\ UNCHANGED <<Server, user, ownerId, connecting, posts, Dialogs>>

CheckIsRead(k) ==
    /\ k \in checks /\ k.read = "unread"
    /\ checks' = (checks \ {k}) \cup {[k EXCEPT !.read = IF status[k.of] = "open" THEN "open" ELSE "closed"]}
    /\ UNCHANGED <<Server, user, Store, posts, Stream, unanswered, Dialogs>>

reconcilePendingContribution(k) ==
    /\ k \in checks /\ k.read # "unread" /\ checks' = checks \ {k}
    /\ ghosts' = IF k.read = "open" THEN ghosts ELSE ghosts \ {k.of}
    /\ UNCHANGED <<Server, user, ownerId, posts, Stream, unanswered, Dialogs>>

CheckFails(k) ==
    /\ k \in checks /\ checks' = checks \ {k} /\ unanswered' = unanswered \cup ({k.of} \cap ghosts)
    /\ UNCHANGED <<Server, user, Store, posts, Stream, Dialogs>>

-----------------------------------------------------------------------------
(* The dialogs of a listing, and what they submit.                          *)
OpenForm(f) ==
    /\ user # Nobody /\ form = "none" /\ form' = f
    /\ UNCHANGED <<Server, user, Store, submitting, posts, Stream, checks, unanswered, within>>

CloseForm ==
    /\ form # "none" /\ form' = "none"
    /\ UNCHANGED <<Server, user, Store, submitting, posts, Stream, checks, unanswered, within>>

submitDirectOperations ==
    /\ user # Nobody /\ form # "none" /\ form \notin submitting
    /\ submitting' = submitting \cup {form}
    /\ \E to \in {"open", "approved"} :
          posts' = posts \cup {[of |-> "unsent", form |-> form, who |-> user, to |-> to]}
    /\ UNCHANGED <<Server, user, Store, form, within, Stream, checks, unanswered>>

\* The server makes the pull request, and approves at once one that needs no work.
Created(p, c) ==
    /\ p \in posts /\ p.of = "unsent" /\ status[c] = "none"
    /\ status' = [status EXCEPT ![c] = IF p.to = "open" THEN "open" ELSE "closed"]
    /\ author' = [author EXCEPT ![c] = p.who]
    /\ posts' = (posts \ {p}) \cup {[p EXCEPT !.of = c]}
    /\ UNCHANGED <<user, Store, Dialogs, Stream, checks, unanswered>>

Closed(c) ==
    /\ status[c] = "open" /\ status' = [status EXCEPT ![c] = "closed"]
    /\ events' = IF user = Nobody \/ connecting THEN events ELSE events \cup {c}
    /\ UNCHANGED <<author, user, Store, Dialogs, posts, connecting, checks, unanswered>>

\* The end of a submission closes its dialog, even one that was opened since.
Finished(p) ==
    /\ submitting' = submitting \ {p.form}
    /\ form' = IF form = p.form THEN "none" ELSE form
    /\ posts' = posts \ {p} /\ UNCHANGED within

\* As reconcileSubmittedOperations would be, if it did not ask again.
TrackedUnasked(p) ==
    /\ p \in posts /\ p.of # "unsent" /\ Finished(p)
    /\ IF p.to = "open" /\ p.who = user
       THEN ownerId' = user /\ ghosts' = (IF ownerId = user THEN ghosts ELSE {}) \cup {p.of}
       ELSE UNCHANGED <<ownerId, ghosts>>
    /\ UNCHANGED <<Server, user, Stream, checks, unanswered>>

reconcileSubmittedOperations(p) ==
    /\ p \in posts /\ p.of # "unsent" /\ Finished(p)
    /\ IF p.to = "open" /\ p.who = user
       THEN /\ ownerId' = user /\ ghosts' = (IF ownerId = user THEN ghosts ELSE {}) \cup {p.of}
            /\ reconcile({p.of})
       ELSE UNCHANGED <<ownerId, ghosts, checks, unanswered>>
    /\ UNCHANGED <<Server, user, Stream>>

\* It failed, or was done and the answer was lost.
SubmissionFails(p) ==
    /\ p \in posts /\ posts' = posts \ {p} /\ submitting' = submitting \ {p.form}
    /\ UNCHANGED <<Server, user, Store, form, within, Stream, checks, unanswered>>

enterGhostDir(c) ==
    /\ c \in ghosts /\ form = "none" /\ within = "none" /\ within' = c
    /\ UNCHANGED <<Server, user, Store, form, submitting, posts, Stream, checks, unanswered>>

goBack ==
    /\ within # "none" /\ form = "none" /\ within' = "none"
    /\ UNCHANGED <<Server, user, Store, form, submitting, posts, Stream, checks, unanswered>>

Next ==
    \/ \E m \in Members : SessionStarts(m)
    \/ SessionEnds \/ Reload \/ Resync \/ onVisible \/ StreamBreaks
    \/ \E c \in Submissions : resolvePendingContributionEvent(c) \/ Closed(c) \/ enterGhostDir(c)
    \/ \E k \in checks : CheckIsRead(k) \/ reconcilePendingContribution(k) \/ CheckFails(k)
    \/ \E f \in FormKinds : OpenForm(f)
    \/ CloseForm \/ submitDirectOperations \/ goBack
    \/ \E p \in posts :
          \/ \E c \in Submissions : Created(p, c)
          \/ reconcileSubmittedOperations(p) \/ SubmissionFails(p)

Spec == Init /\ [][Next]_pendingVars

-----------------------------------------------------------------------------
\* A ghost of a contribution that has closed is about to go: the event is on
\* its way or will be replaced by a snapshot, or an answer that will say so is
\* (unless the last question about it failed).  The event may come before the
\* answer to the POST that makes the ghost.
NoStaleGhost ==
    user # Nobody => \A c \in ghosts :
        status[c] = "closed" =>
            \/ c \in events \/ connecting \/ c \in unanswered
            \/ \E k \in checks : k.of = c /\ k.read # "open"

\* A member's page has no ghosts of another member's contributions.
GhostsAreOnesOwn == user # Nobody => \A c \in ghosts : author[c] = user

-----------------------------------------------------------------------------
(* Inductive strengthening of the two: whose the ghosts in the store are, and *)
(* what is submitted and not heard of yet.                                   *)
StoreIsItsOwners ==
    /\ user # Nobody => ownerId = user
    /\ \A c \in ghosts : author[c] = ownerId /\ status[c] # "none"

PostsAreTheirAuthors ==
    \A p \in posts :
        p.who # Nobody /\ (p.of # "unsent" => author[p.of] = p.who /\ status[p.of] # "none")

PendingFits ==
    /\ status \in [Submissions -> {"none", "open", "closed"}]
    /\ author \in [Submissions -> Members \cup {Nobody}]
    /\ ghosts \subseteq Submissions /\ posts \subseteq Posts /\ checks \subseteq Checks
    /\ user \in Members \cup {Nobody} /\ form \in FormKinds \cup {"none"}
PendingInv == PendingFits /\ StoreIsItsOwners /\ PostsAreTheirAuthors /\ NoStaleGhost
=============================================================================
