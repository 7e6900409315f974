--------------------------- MODULE DeliveryWorker ---------------------------
(***************************************************************************)
(* The delivery worker, at the edge or beside the API.  It answers a file, *)
(* an archive or a branding request: the path and the token are checked,   *)
(* then every read of the cache or of the store is a step of its own, and  *)
(* other requests, deletions and rewrites of objects come in between.      *)
(* Files in the store may be compressed; they are served decompressed.     *)
(***************************************************************************)
EXTENDS FiniteSets

CONSTANTS Clients, Keys

VARIABLES atEdge,    \* the edge runtime, with its cache and waitUntil
          blob,      \* objects in the store: absent, plain or gzip
          edge,      \* the cache
          puts,      \* responses on their way to the cache
          task,      \* what each request does now
          ask,       \* what it asks for
          reply,     \* its answer
          archive    \* entries its archive has taken, and those to come

workerVars == <<atEdge, blob, edge, puts, task, ask, reply, archive>>

Statuses == {"none", "200", "206", "204", "400", "401", "403", "404", "405", "416", "500", "502"}
Routes == {"file", "zip", "branding", "other"}
Tokens == {"valid", "foreign", "bare", "expired", "forged", "missing"}

\* A body and the headers of an answer: "typed" names the capability whose
\* content type it carries.
Reply == [status : Statuses, whole : BOOLEAN, decoded : BOOLEAN, typed : Clients \cup {"store"}]
Refusal(s) == [status |-> s, whole |-> TRUE, decoded |-> TRUE, typed |-> "store"]
Nothing == Refusal("none")
Ask == [route : Routes, method : {"GET", "OPTIONS", "POST"}, token : Tokens, key : Keys,
        range : {"no", "part", "past", "malformed"}, typed : BOOLEAN]

TypeOK ==
    /\ atEdge \in BOOLEAN /\ blob \in [Keys -> {"absent", "plain", "gzip"}]
    /\ edge \in [Keys -> Reply] /\ puts \subseteq (Keys \X Reply)
    /\ task \in [Clients -> {"idle", "match", "get", "getAll", "head", "zip", "done"}]
    /\ ask \in [Clients -> Ask] /\ reply \in [Clients -> Reply]
    /\ archive \in [Clients -> [taken : SUBSET Keys, left : SUBSET Keys]]

\* What requests ask for, each client once: one thing at a time is out of the
\* ordinary.
Asks == LET file(k) == [route |-> "file", method |-> "GET", token |-> "valid", key |-> k,
                        range |-> "no", typed |-> FALSE]
        IN  UNION {{file(k)} \cup {[file(k) EXCEPT !.typed = TRUE]}
                   \cup {[file(k) EXCEPT !.range = r] : r \in {"part", "past", "malformed"}}
                   \cup {[file(k) EXCEPT !.token = t] : t \in Tokens}
                   \cup {[file(k) EXCEPT !.route = r] : r \in Routes}
                   \cup {[file(k) EXCEPT !.method = m] : m \in {"OPTIONS", "POST"}} : k \in Keys}

Init ==
    /\ atEdge \in BOOLEAN /\ blob = [k \in Keys |-> "plain"]
    /\ edge = [k \in Keys |-> Nothing] /\ puts = {}
    /\ task = [c \in Clients |-> "idle"]
    /\ ask \in [Clients -> Asks] /\ reply = [c \in Clients |-> Nothing]
    /\ archive = [c \in Clients |-> [taken |-> {}, left |-> {}]]

-----------------------------------------------------------------------------
Go(c, stage) == task' = [task EXCEPT ![c] = stage] /\ UNCHANGED reply
Send(c, r) == task' = [task EXCEPT ![c] = "done"] /\ reply' = [reply EXCEPT ![c] = r]
Refuse(c, s) == Send(c, Refusal(s))

\* The capability's type, when it has one, whatever the response carried.
Overridden(c, r) == IF ask[c].typed THEN [r EXCEPT !.typed = c] ELSE r

\* verifyToken
Genuine(c) == ask[c].token \in {"valid", "foreign", "bare"}

FileRequest(c) ==
    CASE ask[c].token = "bare" -> Refuse(c, "400")
      [] ask[c].token = "foreign" -> Refuse(c, "403")
      [] ask[c].token = "valid" /\ ask[c].range = "malformed" -> Refuse(c, "416")
      [] OTHER -> Go(c, IF atEdge /\ ask[c].range = "no" THEN "match" ELSE "get")

Arrive(c) ==
    /\ task[c] = "idle"
    /\ IF ask[c].route = "other" THEN Refuse(c, "404")
       ELSE IF ask[c].method = "OPTIONS" THEN Refuse(c, "204")
       ELSE IF ask[c].method # "GET" THEN Refuse(c, "405")
       ELSE IF ask[c].route = "branding" THEN Go(c, "getAll")
       ELSE IF ~Genuine(c) THEN Refuse(c, "401")
       ELSE IF ask[c].route = "file" THEN FileRequest(c)
       ELSE IF ask[c].token = "bare" THEN Refuse(c, "400")
       ELSE Go(c, "zip")
    /\ archive' = [archive EXCEPT ![c] = [taken |-> {}, left |-> Keys]]
    /\ UNCHANGED <<atEdge, blob, edge, puts, ask>>

-----------------------------------------------------------------------------
(* Files.                                                                  *)
MatchCache(c) ==
    /\ task[c] = "match"
    /\ LET hit == edge[ask[c].key]
       IN IF hit = Nothing THEN Go(c, "get") ELSE Send(c, Overridden(c, hit))
    /\ UNCHANGED <<atEdge, blob, edge, puts, ask, archive>>

\* mutant: ranges are kept too
KeptAnyway(c, r) == IF atEdge THEN {<<ask[c].key, r>>} ELSE {}

\* A response that is not a range is kept, without what the capability says.
Kept(c, r) == IF atEdge /\ ask[c].range = "no" THEN {<<ask[c].key, r>>} ELSE {}

Whole == [status |-> "200", whole |-> TRUE, decoded |-> TRUE, typed |-> "store"]

\* The runtime's store says null for a range past the end and for no object.
Get(c) ==
    /\ task[c] = "get" /\ ask[c].route = "file"
    /\ LET object == blob[ask[c].key]  range == ask[c].range
       IN  IF object = "absent" /\ range # "no" /\ atEdge THEN Go(c, "head") /\ UNCHANGED puts
           ELSE IF object = "absent" THEN Refuse(c, "404") /\ UNCHANGED puts
           ELSE IF range = "past"
                THEN UNCHANGED puts /\ IF atEdge THEN Go(c, "head") ELSE Refuse(c, "416")
           ELSE IF range = "part" /\ object = "gzip" THEN Go(c, "getAll") /\ UNCHANGED puts
           ELSE LET part == [Whole EXCEPT !.status = "206", !.whole = FALSE]
                    r == IF range = "part" THEN part ELSE Whole
                IN  Send(c, Overridden(c, r)) /\ puts' = puts \cup Kept(c, r)
    /\ UNCHANGED <<atEdge, blob, edge, ask, archive>>

\* A store that sends the whole object for a range.
RangeIgnored(c) ==
    /\ task[c] = "get" /\ ask[c].range = "part" /\ blob[ask[c].key] = "plain"
    /\ ~atEdge /\ Refuse(c, "502")
    /\ UNCHANGED <<atEdge, blob, edge, puts, ask, archive>>

Head(c) ==
    /\ task[c] = "head"
    /\ Refuse(c, IF blob[ask[c].key] = "absent" THEN "404" ELSE "416")
    /\ UNCHANGED <<atEdge, blob, edge, puts, ask, archive>>

\* A range of a compressed file: the whole file, read anew.
GetAll(c) ==
    /\ task[c] = "getAll" /\ ask[c].route = "file"
    /\ IF blob[ask[c].key] = "absent" THEN Refuse(c, "404") /\ UNCHANGED puts
       ELSE /\ Send(c, Overridden(c, Whole))
            /\ puts' = IF atEdge THEN puts \cup {<<ask[c].key, Whole>>} ELSE puts
    /\ UNCHANGED <<atEdge, blob, edge, ask, archive>>

\* Branding files are stored as they are served.
GetBranding(c) ==
    /\ task[c] = "getAll" /\ ask[c].route = "branding"
    /\ IF blob[ask[c].key] = "absent" THEN Refuse(c, "404")
       ELSE Send(c, [Whole EXCEPT !.decoded = blob[ask[c].key] = "plain"])
    /\ UNCHANGED <<atEdge, blob, edge, puts, ask, archive>>

ReadFails(c) ==
    /\ task[c] \in {"get", "getAll", "head"} /\ Refuse(c, "500")
    /\ UNCHANGED <<atEdge, blob, edge, puts, ask, archive>>

\* The put ends, or fails, after the answer.
Put(p) ==
    /\ p \in puts /\ puts' = puts \ {p}
    /\ edge' \in {edge, [edge EXCEPT ![p[1]] = p[2]]}
    /\ UNCHANGED <<atEdge, blob, task, ask, reply, archive>>

Evict(k) ==
    /\ edge[k] # Nothing /\ edge' = [edge EXCEPT ![k] = Nothing]
    /\ UNCHANGED <<atEdge, blob, puts, task, ask, reply, archive>>

-----------------------------------------------------------------------------
(* Archives: the entries are read one after the other while the archive is *)
(* sent; one that is missing is left out.                                  *)
StreamEntry(c, k) ==
    /\ task[c] = "zip" /\ k \in archive[c].left
    /\ archive' = [archive EXCEPT ![c] =
           [taken |-> IF blob[k] = "absent" THEN @.taken ELSE @.taken \cup {k}, left |-> @.left \ {k}]]
    /\ UNCHANGED <<atEdge, blob, edge, puts, task, ask, reply>>

EndArchive(c) ==
    /\ task[c] = "zip" /\ archive[c].left = {}
    /\ Send(c, [Whole EXCEPT !.whole = archive[c].taken = Keys])
    /\ UNCHANGED <<atEdge, blob, edge, puts, ask, archive>>

-----------------------------------------------------------------------------
(* The store.                                                              *)
Rewrite(k, b) ==
    /\ b # blob[k] /\ blob' = [blob EXCEPT ![k] = b]
    /\ UNCHANGED <<atEdge, edge, puts, task, ask, reply, archive>>

Next ==
    \/ \E c \in Clients :
        \/ Arrive(c) \/ MatchCache(c) \/ Get(c) \/ RangeIgnored(c) \/ Head(c) \/ GetAll(c)
        \/ GetBranding(c) \/ ReadFails(c) \/ EndArchive(c)
        \/ \E k \in Keys : StreamEntry(c, k)
    \/ \E p \in puts : Put(p)
    \/ \E k \in Keys : Evict(k) \/ (\E b \in {"absent", "plain", "gzip"} : Rewrite(k, b))

Spec == Init /\ [][Next]_workerVars

-----------------------------------------------------------------------------
(* Who asks for a file without a range is sent the whole of it, with a type  *)
(* of the store or of its own capability, never a part or a type that an     *)
(* answer to someone else left in the cache; a part goes to who asked for it.*)
ServedAsAsked ==
    \A c \in Clients :
        /\ reply[c].typed \in {"store", c}
        /\ ask[c].route = "file" =>
            /\ reply[c].status = "200" => reply[c].whole /\ reply[c].decoded
            /\ reply[c].status = "206" => ask[c].range = "part"
-----------------------------------------------------------------------------
(* Inductive strengthening of ServedAsAsked: only whole, decoded files that  *)
(* no capability has typed ever travel to the cache, and only requests for   *)
(* whole files look there.                                                   *)

\* What the cache holds, and what is on its way to it.
CacheIsClean ==
    /\ edge \in [Keys -> {Nothing, Whole}]
    /\ \A p \in puts : p[2] = Whole

\* Where a request stands agrees with what it asks for.
StagesFit ==
    /\ task \in [Clients -> {"idle", "match", "get", "getAll", "head", "zip", "done"}]
    /\ \A c \in Clients :
        /\ ask[c].key \in Keys
        /\ task[c] = "match" => ask[c].route = "file" /\ ask[c].range = "no"
        /\ task[c] = "zip" => ask[c].route # "file"

WorkerInv == CacheIsClean /\ StagesFit /\ reply \in [Clients -> Reply] /\ ServedAsAsked

\* An answer that fits the request of client c.
Fits(c, r) ==
    /\ r \in Reply /\ r.typed \in {"store", c}
    /\ ask[c].route = "file" =>
        /\ r.status = "200" => r.whole /\ r.decoded
        /\ r.status = "206" => ask[c].range = "part"
=============================================================================
