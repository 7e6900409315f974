----------------------------- MODULE EventStream -----------------------------
(***************************************************************************)
(* The one event stream the tabs of a browser share.  The tab that holds   *)
(* the Web Lock is the leader: it opens the EventSource with the topics    *)
(* all tabs want, hands every event to its own pages and relays it over a  *)
(* BroadcastChannel.  A page refetches what an event or a resync names, so *)
(* all that is kept of the data is which channels a tab shows up to date.  *)
(* A page's first fetch is taken to be no older than its subscription, and *)
(* the server to deliver what it publishes or to ask for a resync.         *)
(***************************************************************************)
EXTENDS Naturals, Sequences, FiniteSets

CONSTANTS Tabs,       \* the tabs
          Topics,      \* material: and directory: channels
          Plain,       \* a channel of every stream, such as "notifications"
          MaxTopics,   \* MAX_MASTER_TOPICS
          MaxOwn,      \* bound: channels of one tab
          MaxMail      \* bound: messages under way to one tab

VARIABLES subs,        \* channels a tab subscribes to; {} while it is closed
          leader,      \* the tab that holds the lock, or "none"
          snapshots,   \* what each tab knows of the others' subscriptions
          source,      \* the leader's EventSource
          url,         \* the topics it was opened with
          due,         \* the leader's connect or reconnect timer
          polling,     \* tabs with the overflow resync timer armed
          wire,        \* events the stream holds for the leader
          mail,        \* messages of the BroadcastChannel, per recipient
          current      \* channels a tab shows as the server has them

eventVars == <<subs, leader, snapshots, source, url, due, polling, wire, mail, current>>

Channels == Topics \cup {Plain}
Sources == {"none", "connecting", "open"}
Notes == {[kind |-> k] : k \in {"resync", "snapshot_request"}}
         \cup [kind : {"event"}, channel : Channels]
         \cup [kind : {"snapshot"}, sender : Tabs, channels : SUBSET Channels]

TypeOK ==
    /\ subs \in [Tabs -> SUBSET Channels] /\ leader \in Tabs \cup {"none"}
    /\ snapshots \in [Tabs -> [Tabs -> SUBSET Channels]]
    /\ source \in Sources /\ url \subseteq Topics /\ due \in BOOLEAN
    /\ polling \subseteq Tabs /\ wire \subseteq Channels \cup {"resync"}
    /\ mail \in [Tabs -> Seq(Notes)] /\ current \in [Tabs -> SUBSET Channels]

Init ==
    /\ subs = [t \in Tabs |-> {}] /\ leader = "none"
    /\ snapshots = [t \in Tabs |-> [p \in Tabs |-> {}]]
    /\ source = "none" /\ url = {} /\ due = FALSE /\ polling = {} /\ wire = {}
    /\ mail = [t \in Tabs |-> <<>>] /\ current = [t \in Tabs |-> {}]

-----------------------------------------------------------------------------
Open(t) == subs[t] # {}

\* aggregateChannels, of what tab t knows when its own channels are "own"
Wanted(t, own, known) ==
    own \cup (IF leader = t THEN UNION {known[p] : p \in Tabs \ {t}} ELSE {})

MasterTopics(wanted) ==
    LET topics == wanted \cap Topics
    IN IF Cardinality(topics) <= MaxTopics THEN topics
       ELSE CHOOSE s \in SUBSET topics : Cardinality(s) = MaxTopics

Snapshot(t, own) == [kind |-> "snapshot", sender |-> t, channels |-> own]

\* postMessage: every other open tab gets the messages, in order
Broadcast(t, messages) ==
    mail' = [p \in Tabs |-> IF p # t /\ Open(p) THEN mail[p] \o messages ELSE mail[p]]

\* Room for n more messages from t.
Room(t, n) == \A p \in Tabs \ {t} : Len(mail[p]) + n <= MaxMail

\* mutant: the timer is only ever armed by the leader's first refresh
OverflowUnnoticed(t, wanted) == polling' = polling \ {t}

OverflowResync(t, wanted) ==
    polling' = IF Cardinality(wanted \cap Topics) > MaxTopics THEN polling \cup {t} ELSE polling \ {t}

\* scheduleConnectionRefresh with tab t's channels "own" and its knowledge
ConnectionRefresh(t, own, known) ==
    LET wanted == Wanted(t, own, known)
    IN /\ OverflowResync(t, wanted)
       /\ IF leader # t THEN UNCHANGED <<source, url, due, wire>>
          ELSE IF wanted = {}
          THEN source' = "none" /\ url' = {} /\ due' = FALSE /\ wire' = {}
          ELSE IF source # "none" /\ url = MasterTopics(wanted)
          THEN due' = FALSE /\ UNCHANGED <<source, url, wire>>
          ELSE source' = "none" /\ url' = {} /\ wire' = {} /\ due' = TRUE

-----------------------------------------------------------------------------
(* Tabs and their subscriptions.                                           *)

\* The shell of a tab subscribes first: the coordinator starts with it.
OpenTab(t) ==
    /\ ~Open(t) /\ Room(t, 2)
    /\ subs' = [subs EXCEPT ![t] = {Plain}]
    /\ current' = [current EXCEPT ![t] = {Plain}]
    /\ Broadcast(t, <<Snapshot(t, {}), Snapshot(t, {Plain})>>)
    /\ UNCHANGED <<leader, snapshots, source, url, due, polling, wire>>

Subscribe(t, c) ==
    /\ Open(t) /\ c \notin subs[t] /\ Cardinality(subs[t]) < MaxOwn /\ Room(t, 1)
    /\ LET own == subs[t] \cup {c}
       IN /\ subs' = [subs EXCEPT ![t] = own]
          /\ Broadcast(t, <<Snapshot(t, own)>>)
          /\ ConnectionRefresh(t, own, snapshots[t])
    /\ current' = [current EXCEPT ![t] = @ \cup {c}]
    /\ UNCHANGED <<leader, snapshots>>

Unsubscribe(t, c) ==
    /\ c \in subs[t] \ {Plain} /\ Room(t, 1)
    /\ LET own == subs[t] \ {c}
       IN /\ subs' = [subs EXCEPT ![t] = own]
          /\ Broadcast(t, <<Snapshot(t, own)>>)
          /\ ConnectionRefresh(t, own, snapshots[t])
    /\ current' = [current EXCEPT ![t] = @ \ {c}]
    /\ UNCHANGED <<leader, snapshots>>

\* Closing a tab frees its lock and its stream; the others are not told.
CloseTab(t) ==
    /\ Open(t)
    /\ subs' = [subs EXCEPT ![t] = {}] /\ current' = [current EXCEPT ![t] = {}]
    /\ snapshots' = [snapshots EXCEPT ![t] = [p \in Tabs |-> {}]]
    /\ mail' = [mail EXCEPT ![t] = <<>>] /\ polling' = polling \ {t}
    /\ IF leader = t
       THEN leader' = "none" /\ source' = "none" /\ url' = {} /\ due' = FALSE /\ wire' = {}
       ELSE UNCHANGED <<leader, source, url, due, wire>>

Elected(t) ==
    /\ leader = "none" /\ Open(t) /\ Room(t, 2)
    /\ leader' = t /\ due' = TRUE
    /\ Broadcast(t, <<[kind |-> "snapshot_request"], Snapshot(t, subs[t])>>)
    /\ LET wanted == subs[t] \cup UNION {snapshots[t][p] : p \in Tabs \ {t}}
       IN OverflowResync(t, wanted)
    /\ UNCHANGED <<subs, snapshots, source, url, wire, current>>

\* The heartbeat repeats a tab's snapshot; the leader's also drops tabs that
\* have been silent for half a minute, closed or throttled in the background.
Heartbeat(t) ==
    /\ Open(t) /\ Room(t, 2)
    /\ \/ /\ \E p \in Tabs \ {t} : Open(p) /\ snapshots[p][t] # subs[t]
          /\ UNCHANGED <<snapshots, polling, source, url, due, wire>>
          /\ Broadcast(t, <<Snapshot(t, subs[t])>>)
       \/ /\ leader = t
          /\ \E p \in Tabs \ {t} :
                LET known == [snapshots[t] EXCEPT ![p] = {}]
                IN /\ snapshots[t][p] # {} /\ snapshots' = [snapshots EXCEPT ![t] = known]
                   /\ ConnectionRefresh(t, subs[t], known)
          /\ Broadcast(t, <<Snapshot(t, subs[t]), Snapshot(t, subs[t])>>)
    /\ UNCHANGED <<subs, leader, current>>

-----------------------------------------------------------------------------
(* The stream.                                                             *)

Connect ==
    /\ due
    /\ due' = FALSE /\ source' = "connecting"
    /\ url' = MasterTopics(Wanted(leader, subs[leader], snapshots[leader]))
    /\ UNCHANGED <<subs, leader, snapshots, polling, wire, mail, current>>

ResyncLocal(t) == current' = [current EXCEPT ![t] = subs[t]]

\* mutant: an opened stream refreshes only the leader's own pages
StreamOpensSilently ==
    /\ source = "connecting" /\ Room(leader, 1)
    /\ source' = "open"
    /\ ResyncLocal(leader)
    /\ UNCHANGED <<subs, leader, snapshots, url, due, polling, wire, mail>>

StreamOpens ==
    /\ source = "connecting" /\ Room(leader, 1)
    /\ source' = "open"
    /\ ResyncLocal(leader) /\ Broadcast(leader, <<[kind |-> "resync"]>>)
    /\ UNCHANGED <<subs, leader, snapshots, url, due, polling, wire>>

StreamFails ==
    /\ source # "none" /\ Room(leader, 1)
    /\ source' = "none" /\ url' = {} /\ wire' = {} /\ due' = TRUE
    /\ ResyncLocal(leader) /\ Broadcast(leader, <<[kind |-> "resync"]>>)
    /\ UNCHANGED <<subs, leader, snapshots, polling>>

\* Something changes on the server, which publishes it to an open stream.
ServerChanges(c) ==
    /\ current' = [t \in Tabs |-> current[t] \ {c}]
    /\ wire' = IF source = "open" /\ c \in url \cup {Plain}
               THEN wire \cup {c} ELSE wire
    /\ UNCHANGED <<subs, leader, snapshots, source, url, due, polling, mail>>

\* The stream's queue overflows on the server: resync_required instead.
ServerDropsEvents ==
    /\ wire \cap Channels # {} /\ wire' = {"resync"}
    /\ UNCHANGED <<subs, leader, snapshots, source, url, due, polling, mail, current>>

Dispatch(t, c) == current' = [current EXCEPT ![t] = @ \cup (subs[t] \cap {c})]

StreamDelivers(c) ==
    /\ c \in wire /\ Room(leader, 1)
    /\ wire' = wire \ {c}
    /\ IF c = "resync"
       THEN ResyncLocal(leader) /\ Broadcast(leader, <<[kind |-> "resync"]>>)
       ELSE Dispatch(leader, c) /\ Broadcast(leader, <<[kind |-> "event", channel |-> c]>>)
    /\ UNCHANGED <<subs, leader, snapshots, source, url, due, polling>>

OverflowTick(t) ==
    /\ t \in polling /\ ResyncLocal(t)
    /\ IF leader = t THEN Room(t, 1) /\ Broadcast(t, <<[kind |-> "resync"]>>) ELSE UNCHANGED mail
    /\ UNCHANGED <<subs, leader, snapshots, source, url, due, polling, wire>>

\* A message of the BroadcastChannel.  The leader heeds no relayed event.
Receive(t) ==
    /\ mail[t] # <<>>
    /\ LET m == Head(mail[t])
           rest == [mail EXCEPT ![t] = Tail(@)]
           answered(note) == [p \in Tabs |-> IF p # t /\ Open(p) THEN Append(rest[p], note) ELSE rest[p]]
       IN CASE m.kind = "snapshot_request" ->
                 /\ Room(t, 1) /\ mail' = answered(Snapshot(t, subs[t]))
                 /\ UNCHANGED <<snapshots, source, url, due, polling, wire, current>>
            [] m.kind = "event" ->
                 /\ mail' = rest
                 /\ IF leader # t THEN Dispatch(t, m.channel) ELSE UNCHANGED current
                 /\ UNCHANGED <<snapshots, source, url, due, polling, wire>>
            [] m.kind = "resync" ->
                 /\ mail' = rest
                 /\ IF leader # t THEN ResyncLocal(t) ELSE UNCHANGED current
                 /\ UNCHANGED <<snapshots, source, url, due, polling, wire>>
            [] OTHER ->
                 LET known == [snapshots[t] EXCEPT ![m.sender] = m.channels]
                 IN /\ snapshots' = [snapshots EXCEPT ![t] = known]
                    /\ IF leader = t
                       THEN /\ Room(t, 1) /\ mail' = answered(Snapshot(t, subs[t]))
                            /\ ConnectionRefresh(t, subs[t], known)
                       ELSE mail' = rest /\ UNCHANGED <<source, url, due, polling, wire>>
                    /\ UNCHANGED current
    /\ UNCHANGED <<subs, leader>>

Next == \/ \E t \in Tabs : OpenTab(t) \/ CloseTab(t) \/ Elected(t) \/ Heartbeat(t) \/ OverflowTick(t) \/ Receive(t)
        \/ \E t \in Tabs, c \in Topics : Subscribe(t, c) \/ Unsubscribe(t, c)
        \/ Connect \/ StreamOpens \/ StreamFails \/ ServerDropsEvents
        \/ \E c \in Channels : ServerChanges(c)
        \/ \E c \in Channels \cup {"resync"} : StreamDelivers(c)

Spec == Init /\ [][Next]_eventVars

-----------------------------------------------------------------------------
(* Once the stream is open and nothing is under way, and the leader knows  *)
(* what the tabs want, every page is up to date or is tended: a channel of *)
(* the stream is shown as the server has it, whatever reconnects, changes  *)
(* of leader and overflows came before, and a channel the stream has no    *)
(* room for is refetched on the overflow timer.                            *)
QuietMeansCurrent ==
    ( /\ source = "open" /\ wire = {} /\ \A t \in Tabs : mail[t] = <<>>
      /\ \A t \in Tabs \ {leader} : snapshots[leader][t] = subs[t] ) =>
    \A t \in Tabs : \A c \in subs[t] :
        IF c \in url \cup {Plain} THEN c \in current[t] ELSE leader \in polling

-----------------------------------------------------------------------------
(* Why: the stream is that of an open leader and has the topics the leader   *)
(* knows of, the timer is armed when they are too many for it, and whatever  *)
(* a page does not show as the server has it is still on its way to it.      *)
StreamIsLeaders ==
    /\ leader = "none" => source = "none" /\ ~due
    /\ leader \in Tabs => Open(leader)
    /\ \A t \in Tabs : Open(t) => Plain \in subs[t]

Known == Wanted(leader, subs[leader], snapshots[leader])

UrlIsKnown == source # "none" => url = MasterTopics(Known)

OverflowIsTended ==
    leader \in Tabs /\ Cardinality(Known \cap Topics) > MaxTopics => leader \in polling

\* A message that brings channel c up to date.
Tells(messages, c) ==
    \E i \in DOMAIN messages :
        \/ messages[i].kind = "resync"
        \/ messages[i].kind = "event" /\ messages[i].channel = c

OldIsTold ==
    source = "open" => \A t \in Tabs : \A c \in subs[t] \cap (url \cup {Plain}) :
        \/ c \in current[t] \/ c \in wire \/ "resync" \in wire
        \/ t # leader /\ Tells(mail[t], c)

StreamFits ==
    /\ subs \in [Tabs -> SUBSET Channels] /\ leader \in Tabs \cup {"none"}
    /\ snapshots \in [Tabs -> [Tabs -> SUBSET Channels]]
    /\ source \in Sources /\ due \in BOOLEAN
    /\ mail \in [Tabs -> Seq(Notes)] /\ current \in [Tabs -> SUBSET Channels]

StreamInv == StreamFits /\ StreamIsLeaders /\ UrlIsKnown /\ OverflowIsTended /\ OldIsTold
=============================================================================
