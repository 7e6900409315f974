------------------------- MODULE MaterialThumbnails -------------------------
(***************************************************************************)
(* The thumbnail of a material in one tab: the cache with its shared and   *)
(* bounded requests, the buttons that have the thumbnail made again, and   *)
(* the cards that show it.  Pages are told of a new thumbnail by those     *)
(* buttons only: "ok" says that it is published, "queued" that it will be, *)
(* and the page then asks until the thumbnail has another path.            *)
(***************************************************************************)
EXTENDS Naturals, Sequences, FiniteSets

CONSTANTS Buttons,      \* the toolbar, the sheet, the menu, the details
          MaxPublished, \* bound: thumbnails published
          MaxDrops,     \* bound: generations of the cache
          MaxActive     \* MAX_CONCURRENT_REQUESTS

VARIABLES published,    \* thumbnails published so far, the server's
          jobs,         \* regenerations queued at the server
          gen,          \* materialGenerations and cacheGeneration
          thumb,        \* cache, empty or one entry
          slots,        \* requestQueue
          fetches,      \* the requests under way, with what the server read
          button,       \* isRecalculatingThumbnail, and where it is
          previous,     \* the thumbnail before
          told,         \* the newest that a button was answered "ok" for
          cardKind,     \* the component that shows it
          card,         \* its effect
          awaits,       \* the request it waits for
          shows,        \* url, and the thumbnail behind it
          cardFailed    \* the last answer was an error

thumbVars == <<published, jobs, gen, thumb, slots, fetches, button, previous, told,
               cardKind, card, awaits, shows, cardFailed>>

Version == 0..MaxPublished
Unread == MaxPublished + 1
Entry == [version : Version, polled : BOOLEAN]
Gets == {"get"} \X (0..MaxDrops)
Polls == {"poll"} \X Buttons
Stages == {"idle", "previous", "posting", "sleeping", "polling"}

TypeOK ==
    /\ published \in Version /\ jobs \in 0..Cardinality(Buttons) /\ gen \in 0..MaxDrops
    /\ thumb \subseteq Entry /\ Cardinality(thumb) <= 1
    /\ slots \in Seq(Gets \cup Polls)
    /\ DOMAIN fetches \subseteq Gets \cup Polls /\ Cardinality(DOMAIN fetches) <= MaxActive
    /\ button \in [Buttons -> Stages] /\ previous \in [Buttons -> Version \cup {Unread} \cup (0..MaxDrops)]
    /\ told \in Version /\ cardKind \in {"card", "collage", "row"}
    /\ card \in {"away", "out", "timer", "waits", "rests"} /\ awaits \in 0..MaxDrops
    /\ shows \subseteq Entry /\ cardFailed \in BOOLEAN

Init ==
    /\ published = 0 /\ jobs = 0 /\ gen = 0 /\ thumb = {}
    /\ slots = <<>> /\ fetches = [t \in {} |-> Unread]
    /\ button = [b \in Buttons |-> "idle"] /\ previous = [b \in Buttons |-> Unread] /\ told = 0
    /\ cardKind \in {"card", "collage", "row"} /\ card = "away" /\ awaits = 0
    /\ shows = {} /\ cardFailed = FALSE

serverRest == <<published, jobs>>
cardRest == <<cardKind, card, awaits, shows, cardFailed>>
buttonRest == <<button, previous, told>>

-----------------------------------------------------------------------------
(* The requests: at most MaxActive at a time, the others in their order.   *)
Waiting == {slots[i] : i \in 1..Len(slots)}
Start(t, running) ==
    IF Cardinality(DOMAIN running) < MaxActive
    THEN fetches' = [u \in DOMAIN running \cup {t} |-> IF u = t THEN Unread ELSE running[u]] /\ UNCHANGED slots
    ELSE slots' = Append(slots, t) /\ fetches' = running

Without(t) == [u \in DOMAIN fetches \ {t} |-> fetches[u]]
Finish(t) ==
    IF slots = <<>> THEN fetches' = Without(t) /\ UNCHANGED slots
    ELSE /\ slots' = Tail(slots)
         /\ fetches' = [u \in (DOMAIN fetches \ {t}) \cup {Head(slots)} |->
                           IF u = Head(slots) THEN Unread ELSE fetches[u]]

\* inFlight: the request of this generation, which later callers share.
InFlight == <<"get", gen>> \in DOMAIN fetches \cup Waiting

\* getMaterialThumbnail on a miss
Get == IF InFlight THEN UNCHANGED <<slots, fetches>> ELSE Start(<<"get", gen>>, fetches)

\* The endpoint answers with what is published when it reads.
ServerReads(t) ==
    /\ t \in DOMAIN fetches /\ fetches[t] = Unread
    /\ fetches' = [fetches EXCEPT ![t] = published]
    /\ UNCHANGED <<serverRest, gen, thumb, slots, buttonRest, cardRest>>

ServerPublishes ==
    /\ jobs > 0 /\ published < MaxPublished
    /\ jobs' = jobs - 1 /\ published' = published + 1
    /\ UNCHANGED <<gen, thumb, slots, fetches, buttonRest, cardRest>>

-----------------------------------------------------------------------------
(* The card.                                                               *)
Mounted == card \notin {"away", "out"}
Follows == cardKind # "row"     \* the others subscribe

\* An entry forgotten after ten minutes, or for one of 256 others.
CacheForgets ==
    /\ thumb # {} /\ thumb' = {}
    /\ UNCHANGED <<serverRest, gen, slots, fetches, buttonRest, cardRest>>

Mount ==
    /\ card = "away" /\ card' = IF cardKind = "row" THEN "timer" ELSE "out"
    /\ shows' = {} /\ cardFailed' = FALSE
    /\ UNCHANGED <<serverRest, gen, thumb, slots, fetches, buttonRest, cardKind, awaits>>

Unmount ==
    /\ card # "away" /\ card' = "away"
    /\ UNCHANGED <<serverRest, gen, thumb, slots, fetches, buttonRest, cardKind, awaits, shows, cardFailed>>

ComesIntoView ==
    /\ card = "out" /\ card' = "timer"
    /\ UNCHANGED <<serverRest, gen, thumb, slots, fetches, buttonRest, cardKind, awaits, shows, cardFailed>>

\* fetchPreview, a tenth of a second later in a card, at once elsewhere
CardAsks ==
    /\ card = "timer"
    /\ IF thumb # {}
       THEN /\ card' = "rests" /\ shows' = thumb /\ cardFailed' = FALSE
            /\ UNCHANGED <<awaits, slots, fetches>>
       ELSE card' = "waits" /\ awaits' = gen /\ Get /\ UNCHANGED <<shows, cardFailed>>
    /\ UNCHANGED <<serverRest, gen, thumb, buttonRest, cardKind>>

\* The effect runs again; a collage starts from empty cells.
Notified ==
    /\ card' = IF Mounted /\ Follows THEN "timer" ELSE card
    /\ shows' = IF Mounted /\ cardKind = "collage" THEN {} ELSE shows
    /\ UNCHANGED <<cardKind, awaits, cardFailed>>

-----------------------------------------------------------------------------
(* The answers.                                                            *)

\* mutant: what was asked before the cache was dropped fills it
RememberAnyway(g, e) == thumb' = {e}

Remember(g, e) == thumb' = IF g = gen THEN {e} ELSE thumb

AwaitsIt(b, g) == button[b] = "previous" /\ previous[b] = g

GetAnswered(g) ==
    LET t == <<"get", g>>
        e == [version |-> fetches[t], polled |-> FALSE] IN
    /\ t \in DOMAIN fetches /\ fetches[t] # Unread
    /\ Finish(t) /\ Remember(g, e)
    /\ IF card = "waits" /\ awaits = g
       THEN card' = "rests" /\ shows' = {e} /\ cardFailed' = FALSE
       ELSE UNCHANGED <<card, shows, cardFailed>>
    /\ button' = [b \in Buttons |-> IF AwaitsIt(b, g) THEN "posting" ELSE button[b]]
    /\ previous' = [b \in Buttons |-> IF AwaitsIt(b, g) THEN e.version ELSE previous[b]]
    /\ UNCHANGED <<serverRest, gen, told, cardKind, awaits>>

\* The card shows the file itself, an icon, or what it showed before.
GetFails(g) ==
    LET t == <<"get", g>> IN
    /\ t \in DOMAIN fetches /\ Finish(t)
    /\ IF card = "waits" /\ awaits = g THEN card' = "rests" /\ cardFailed' = TRUE
       ELSE UNCHANGED <<card, cardFailed>>
    /\ button' = [b \in Buttons |-> IF AwaitsIt(b, g) THEN "posting" ELSE button[b]]
    /\ previous' = [b \in Buttons |-> IF AwaitsIt(b, g) THEN Unread ELSE previous[b]]
    /\ UNCHANGED <<serverRest, gen, thumb, told, cardKind, awaits, shows>>

-----------------------------------------------------------------------------
(* The buttons.                                                            *)

\* handleRecalculateThumbnail, then the thumbnail before
Press(b) ==
    /\ button[b] = "idle" /\ gen + Cardinality({c \in Buttons : button[c] \in {"previous", "posting"}}) < MaxDrops
    /\ IF thumb # {}
       THEN /\ button' = [button EXCEPT ![b] = "posting"]
            /\ previous' = [previous EXCEPT ![b] = (CHOOSE e \in thumb : TRUE).version]
            /\ UNCHANGED <<slots, fetches>>
       ELSE /\ button' = [button EXCEPT ![b] = "previous"] /\ previous' = [previous EXCEPT ![b] = gen]
            /\ Get
    /\ UNCHANGED <<serverRest, gen, thumb, told, cardRest>>

\* dropMaterialThumbnailCache
Drop == gen' = gen + 1 /\ thumb' = {}

\* The server waited for the job.
RecalculatedNow(b) ==
    /\ button[b] = "posting" /\ published < MaxPublished
    /\ published' = published + 1 /\ told' = published + 1
    /\ Drop /\ Notified
    /\ button' = [button EXCEPT ![b] = "idle"]
    /\ UNCHANGED <<jobs, slots, fetches, previous>>

RecalculationQueued(b) ==
    /\ button[b] = "posting" /\ jobs < Cardinality(Buttons)
    /\ jobs' = jobs + 1 /\ Drop
    /\ button' = [button EXCEPT ![b] = "sleeping"]
    /\ UNCHANGED <<published, slots, fetches, previous, told, cardRest>>

\* refused, or the answer is lost; after five minutes of asking, too
RecalculationFails(b) ==
    /\ button[b] \in {"posting", "sleeping"} /\ button' = [button EXCEPT ![b] = "idle"]
    /\ UNCHANGED <<serverRest, gen, thumb, slots, fetches, previous, told, cardRest>>

PollStarts(b) ==
    /\ button[b] = "sleeping" /\ button' = [button EXCEPT ![b] = "polling"]
    /\ Start(<<"poll", b>>, fetches)
    /\ UNCHANGED <<serverRest, gen, thumb, previous, told, cardRest>>

\* isPublishedRegeneration
Regenerated(v, before) == v > 0 /\ v # before

\* What the poll found is remembered whatever happened since it asked.
PollAnswered(b) ==
    LET t == <<"poll", b>> IN
    /\ t \in DOMAIN fetches /\ fetches[t] # Unread /\ Finish(t)
    /\ IF Regenerated(fetches[t], previous[b])
       THEN /\ thumb' = {[version |-> fetches[t], polled |-> TRUE]} /\ Notified
            /\ button' = [button EXCEPT ![b] = "idle"]
       ELSE /\ button' = [button EXCEPT ![b] = "sleeping"]
            /\ UNCHANGED <<thumb, cardRest>>
    /\ UNCHANGED <<serverRest, gen, previous, told>>

PollFails(b) ==
    LET t == <<"poll", b>> IN
    /\ t \in DOMAIN fetches /\ Finish(t)
    /\ button' = [button EXCEPT ![b] = "sleeping"]
    /\ UNCHANGED <<serverRest, gen, thumb, previous, told, cardRest>>

-----------------------------------------------------------------------------
Next ==
    \/ ServerPublishes \/ CacheForgets \/ Mount \/ Unmount \/ ComesIntoView \/ CardAsks
    \/ \E t \in DOMAIN fetches : ServerReads(t)
    \/ \E g \in 0..gen : GetAnswered(g) \/ GetFails(g)
    \/ \E b \in Buttons : Press(b) \/ RecalculatedNow(b) \/ RecalculationQueued(b) \/ RecalculationFails(b)
                          \/ PollStarts(b) \/ PollAnswered(b) \/ PollFails(b)

Spec == Init /\ [][Next]_thumbVars

-----------------------------------------------------------------------------
(* A card at rest that listens, and had an answer, shows no thumbnail older *)
(* than the newest the server said it had made: neither the cache, nor a    *)
(* request that was already under way, brings back the one before.  What a  *)
(* poll finds promises less, and is left out: it is remembered whatever     *)
(* happened since the poll asked, and starts no generation, so that a       *)
(* request shared since the job was queued may still replace it.            *)
NoneOlderThanTold ==
    card = "rests" /\ Follows /\ ~cardFailed =>
        \A e \in shows : e.polled \/ e.version >= told

-----------------------------------------------------------------------------
(* Inductive strengthening of NoneOlderThanTold: what the cache holds, what  *)
(* may still fill it, and what a card waits for, is no older either.         *)
Asked == ({"get"} \X (0..gen)) \cup Polls
ReadSinceTold(g) ==
    <<"get", g>> \in DOMAIN fetches => fetches[<<"get", g>>] = Unread \/ fetches[<<"get", g>>] >= told

ThumbsInv ==
    /\ published \in Nat /\ told \in Nat /\ told <= published /\ gen \in Nat
    /\ slots \in Seq(Asked) /\ DOMAIN fetches \subseteq Asked
    /\ \A e \in thumb : e.polled \/ e.version >= told
    /\ ReadSinceTold(gen)
    /\ card = "waits" /\ Follows => ReadSinceTold(awaits)
    /\ NoneOlderThanTold

-----------------------------------------------------------------------------
(* Inductive strengthening of TypeOK: no more requests are under way than    *)
(* may be, and every thumbnail that is being made anew still has its         *)
(* generation of the cache.                                                  *)
ReadValues == Version \cup {Unread}

RequestsFit ==
    /\ slots \in Seq(Gets \cup Polls)
    /\ DOMAIN fetches \subseteq Gets \cup Polls /\ IsFiniteSet(DOMAIN fetches)
    /\ Cardinality(DOMAIN fetches) <= MaxActive
    /\ \A t \in DOMAIN fetches : fetches[t] \in ReadValues

Remaking == {c \in Buttons : button[c] \in {"previous", "posting"}}
DropsFit == gen \in Nat /\ gen + Cardinality(Remaking) <= MaxDrops
=============================================================================
