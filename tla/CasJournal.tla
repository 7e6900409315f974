----------------------------- MODULE CasJournal -----------------------------
(***************************************************************************)
(* Physical-usage accounting of the content-addressed store.               *)
(*                                                                         *)
(* Every write or delete under the cas/ prefix changes the number of bytes *)
(* the object store holds, and Redis keeps that number as a cached total.  *)
(* The two systems share no transaction, so a mutation is journalled: an   *)
(* intent is recorded and fsynced in Redis before the request leaves, and  *)
(* while an intent is pending the total is marked dirty.  An intent whose  *)
(* actor disappeared is recovered by scanning the store, but only after    *)
(* the presigned capability of the request can no longer change anything.  *)
(*                                                                         *)
(* Sources: api/app/core/storage/capacity.py, api/app/core/storage/        *)
(* facade.py, api/app/core/storage/s3.py and the Lua scripts they run.     *)
(***************************************************************************)
EXTENDS Integers, FiniteSets, Functions

CONSTANTS
    Actors,           \* tasks of the API and worker processes
    Keys,             \* object keys under cas/
    Sizes,            \* sizes an object may be written with
    Totals,           \* what a listing torn by a concurrent change may add up to
    None,             \* "no such Redis key", "nobody"
    Orphan,           \* the lease of an actor that died
    Ttl,              \* _CAS_STORAGE_MUTATION_CAPABILITY_TTL_SECONDS
    Leads,            \* how far the signer's clock may be ahead of the store's
    FenceMargin,      \* the two extra seconds of _presigned_recovery_fence_ms
    IoTimeout,        \* cas_mutation_io_timeout_seconds
    Grace,            \* cas_mutation_recovery_grace_seconds
    Durability,       \* _CAS_MUTATION_DURABILITY_TIMEOUT_MS
    Settle,           \* how long an admitted request may take to land
    MaxMutations,     \* bound: mutations ever started
    MaxFaults         \* bound: failures of any kind

ASSUME NoneAssumption ==
    /\ None \notin Actors /\ None \notin Int
    /\ Orphan \notin Actors /\ Orphan # None

ASSUME DataAssumption ==
    /\ Keys # {} /\ IsFiniteSet(Keys)
    /\ Sizes \subseteq Nat \ {0} /\ Totals \subseteq Nat

\* Settle <= IoTimeout + Grace is what the code assumes of the object store:
\* "recovery also waits through the complete local I/O timeout + ambiguity grace".
ASSUME TimeAssumption ==
    /\ Ttl \in Nat /\ FenceMargin \in Nat \ {0} /\ IoTimeout \in Nat
    /\ Grace \in Nat /\ Durability \in Nat /\ Settle \in Nat
    /\ Leads \subseteq Int /\ Settle <= IoTimeout + Grace

ASSUME BoundAssumption == MaxMutations \in Nat /\ MaxFaults \in Nat

VARIABLES
    size,       \* the store: bytes of each key, 0 when absent
    physical,   \* the store: bytes a complete listing of cas/ adds up to
    wire,       \* requests that may still change the store
    db,         \* Redis memory: cached total, generation, epoch, dirty, intents
    aof,        \* what the append-only file would restore after a Redis crash
    now,        \* time
    fence,      \* owner of the PostgreSQL session advisory lock
    lease,      \* owner of the Redis lease storage:cas-physical-usage
    pc,         \* where each actor is
    loc,        \* local variables of each actor
    uuid,       \* mutation identifiers handed out so far
    faults      \* failures so far

redis == <<db, aof>>
locks == <<fence, lease>>
store == <<size, physical, wire>>
vars == <<size, physical, wire, db, aof, now, fence, lease, pc, loc, uuid, faults>>

----------------------------------------------------------------------------
(* Types *)

Phases == {"preflight", "dispatched"}

Intent == [mid : Nat, epoch : Nat, phase : Phases, recoverAfter : Nat]

Journal == [usage : Int \cup {None}, gen : Nat, epoch : Nat, dirty : {0, 1},
            intents : SUBSET Intent]

Request == [mid : Nat, key : Keys, to : Nat, admitted : BOOLEAN, until : Int]

Jobs == {"mutate", "usage", "reconcile", "recover"}

Places == {"idle", "fenced", "inspect", "expire", "probe", "confirm", "rescan",
           "publish", "recheck", "cached", "snapshot", "scan", "install",
           "begin", "beginSync", "undoBegin", "measure", "dispatch",
           "dispatchSync", "undoDispatch", "send", "await", "head", "commit",
           "repair", "settle", "leave"}

(* job, after: what the actor came for, and where a recovery returns to.   *)
(* key, to: the mutation it was asked for (to = 0 deletes).  mid, epoch,   *)
(* deadline: the intent it works on.  gen: the generation it read.  until, *)
(* window: last instant the store admits its capability, and the recovery  *)
(* fence of that capability.  old, delta: the size before, and the change. *)
(* total, fresh: what its last listing added up to, and whether no object  *)
(* has landed since that listing began.  ok: its request was answered.  A  *)
(* local that is not used again goes back to its value in Blank.           *)
Locals == [job : Jobs, after : {"leave", "cached", "snapshot"},
           key : Keys, to : Nat, mid : Nat, epoch : Nat,
           deadline : Nat, gen : Nat, until : Int, window : Nat,
           old : Nat, delta : Int, total : Int, fresh : BOOLEAN, ok : BOOLEAN]

Blank == [job |-> "recover", after |-> "leave", key |-> CHOOSE k \in Keys : TRUE,
          to |-> 0, mid |-> 0, epoch |-> 0, deadline |-> 0, gen |-> 0,
          until |-> 0, window |-> 0, old |-> 0, delta |-> 0, total |-> 0,
          fresh |-> TRUE, ok |-> FALSE]

TypeOK ==
    /\ size \in [Keys -> Nat] /\ physical \in Int
    /\ wire \subseteq Request
    /\ db \in Journal /\ aof \in Journal
    /\ now \in Nat /\ uuid \in Nat /\ faults \in Nat
    /\ fence \in Actors \cup {None} /\ lease \in Actors \cup {None, Orphan}
    /\ pc \in [Actors -> Places] /\ loc \in [Actors -> Locals]

----------------------------------------------------------------------------
(* The Lua scripts.  Each runs atomically in Redis. *)

Holds(d, m, e, ph) ==
    /\ d.epoch = e
    /\ \E i \in d.intents : i.mid = m /\ i.epoch = e /\ i.phase = ph

\* HDEL of the intent, INCR of the epoch, and DEL of the dirty mark once no
\* intent is left: the common tail of commit, abort and resolve.
Retire(d, m) ==
    LET rest == {i \in d.intents : i.mid # m}
    IN  [d EXCEPT !.intents = rest, !.epoch = @ + 1, !.dirty = IF rest = {} THEN 0 ELSE @]

\* Mutant: HLEN is not consulted.
MayBeginAlways(d) == TRUE

MayBegin(d) == d.intents = {}

Begun(d, m) ==
    [d EXCEPT !.epoch = @ + 1, !.dirty = 1,
              !.intents = @ \cup {[mid |-> m, epoch |-> d.epoch + 1,
                                   phase |-> "preflight", recoverAfter |-> 0]}]

Dispatched(d, m, deadline) ==
    [d EXCEPT !.intents = {IF i.mid = m
                           THEN [i EXCEPT !.phase = "dispatched", !.recoverAfter = deadline]
                           ELSE i : i \in @}]

MayAdd(d, delta) == d.usage # None /\ d.usage + delta >= 0

\* Mutant: the delta is taken as old - new.
CommittedSwapped(d, m, delta) == [Retire(d, m) EXCEPT !.usage = @ - delta, !.gen = @ + 1]

Committed(d, m, delta) == [Retire(d, m) EXCEPT !.usage = @ + delta, !.gen = @ + 1]

Resolved(d, m, total) == [Retire(d, m) EXCEPT !.usage = total, !.gen = @ + 1]

\* Mutant: the scan is installed without its generation and epoch fence.
MayReconcileAlways(d, gen, epoch) == TRUE

MayReconcile(d, gen, epoch) == d.gen = gen /\ d.epoch = epoch

Reconciled(d, total) == [d EXCEPT !.usage = total, !.dirty = 0]

\* The MGET of _read_cached_cas_storage_usage: the total may be used.
Clean(d) == d.usage # None /\ d.dirty = 0

----------------------------------------------------------------------------
(* Time.  A capability minted now by a signer that is lead ahead is        *)
(* admitted by the store for Ttl + lead; the recovery fence never shrinks  *)
(* for a signer that is behind.                                            *)

ValidUntil(lead) == now + Ttl + lead

\* Mutant: the signer's clock is taken to agree with the store's.
WindowWithoutLead(lead) == Ttl + FenceMargin

Window(lead) == Ttl + (IF lead > 0 THEN lead ELSE 0) + FenceMargin

RecoveryDelay(window) == window + IoTimeout + Grace + Durability

\* Mutant: an intent is recovered as soon as somebody finds it.
RecoverableAtOnce(deadline) == TRUE

\* Mutant: the comparison with the recovery deadline is inverted.
RecoverableBefore(deadline) == now < deadline

\* _redis_time_ms(redis) < intent.recover_after_ms fails.
Recoverable(deadline) == now >= deadline

\* The last instant a request can change the store.
LastLanding(r) == IF r.admitted THEN r.until ELSE r.until + Settle

Waiting(a) ==
    pc[a] \in {"dispatch", "dispatchSync", "send"} /\ loc[a].until >= now

\* Time passes while somebody is waiting for it; requests that can no longer
\* be admitted or land are gone.
Tick ==
    /\ \/ wire # {}
       \/ \E a \in Actors : Waiting(a)
       \/ \E i \in db.intents : i.phase = "dispatched" /\ i.recoverAfter > now
    /\ now' = now + 1
    /\ wire' = {r \in wire : r.until >= now + 1}
    /\ UNCHANGED <<size, physical, db, aof, fence, lease, pc, loc, uuid, faults>>

----------------------------------------------------------------------------
(* Entering and leaving the serialized section: the PostgreSQL fence first, *)
(* then the Redis lease.                                                   *)

Move(a, place) == pc' = [pc EXCEPT ![a] = place]

MoveWith(a, place, locals) ==
    Move(a, place) /\ loc' = [loc EXCEPT ![a] = locals]

Quit(a) == MoveWith(a, "leave", Blank)

TakeFence(a, job) ==
    /\ pc[a] = "idle" /\ fence = None
    /\ fence' = a
    /\ MoveWith(a, "fenced",
                [Blank EXCEPT !.job = job, !.after = CASE job = "recover"   -> "leave"
                                                       [] job = "reconcile" -> "snapshot"
                                                       [] OTHER             -> "cached"])
    /\ UNCHANGED <<store, redis, now, lease, uuid, faults>>

TakeLease(a) ==
    /\ pc[a] = "fenced" /\ lease = None
    /\ lease' = a
    /\ Move(a, "inspect")
    /\ UNCHANGED <<store, redis, now, fence, loc, uuid, faults>>

\* The lock releases compare the owner, so a lease that has lapsed and was
\* taken by somebody else is left alone.
Leave(a) ==
    /\ pc[a] = "leave"
    /\ fence' = IF fence = a THEN None ELSE fence
    /\ lease' = IF lease = a THEN None ELSE lease
    /\ Move(a, "idle")
    /\ UNCHANGED <<store, redis, now, loc, uuid, faults>>

\* On to place, with nothing remembered but the job.
Resume(a, place) == MoveWith(a, place, [Blank EXCEPT !.job = loc[a].job])

\* The cached total is usable: what is left to do.
Proceed(a) == IF loc[a].job = "mutate" THEN Resume(a, "begin") ELSE Quit(a)

----------------------------------------------------------------------------
(* Recovery of an abandoned intent. *)

\* What _recover_stale_cas_mutation_locked does with the pending intent i.
Classify(a, i) ==
    MoveWith(a, CASE i.phase = "preflight"          -> "expire"
                  [] ~Recoverable(i.recoverAfter)   -> "recheck"
                  [] OTHER                          -> "probe",
             [loc[a] EXCEPT !.mid = i.mid, !.epoch = i.epoch,
                            !.deadline = i.recoverAfter, !.fresh = TRUE])

Inspect(a) ==
    /\ pc[a] = "inspect"
    /\ \/ db.intents = {} /\ Resume(a, loc[a].after)
       \/ \E i \in db.intents : Classify(a, i)
    /\ UNCHANGED <<store, redis, now, locks, uuid, faults>>

\* An abandoned preflight is aborted without a scan.  When the intent changed
\* in between, it is read again and must still be the same mutation.
Expire(a) ==
    /\ pc[a] = "expire"
    /\ IF Holds(db, loc[a].mid, loc[a].epoch, "preflight")
       THEN db' = Retire(db, loc[a].mid) /\ Move(a, "recheck") /\ UNCHANGED loc
       ELSE /\ UNCHANGED db
            /\ \/ db.intents = {} /\ Move(a, "recheck") /\ UNCHANGED loc
               \/ \E i \in db.intents :
                    IF i.mid = loc[a].mid /\ i.epoch = loc[a].epoch
                    THEN Classify(a, i)
                    ELSE Quit(a)
    /\ UNCHANGED <<store, aof, now, locks, uuid, faults>>

\* A listing is paginated.  If an object landed while it ran it may add up to
\* anything.
Listed(a, total) == IF loc[a].fresh THEN total = physical ELSE total \in Totals

Probe(a) ==
    /\ pc[a] = "probe"
    /\ \E total \in Totals \cup {physical} :
         Listed(a, total) /\ MoveWith(a, "confirm", [loc[a] EXCEPT !.total = total])
    /\ UNCHANGED <<store, redis, now, locks, uuid, faults>>

Confirm(a) ==
    /\ pc[a] = "confirm"
    /\ LET same(i) == /\ i.mid = loc[a].mid /\ i.epoch = loc[a].epoch
                      /\ i.recoverAfter = loc[a].deadline
       IN  \/ /\ db.intents = {} /\ Move(a, "recheck") /\ UNCHANGED loc
           \/ \E i \in db.intents :
                IF same(i) THEN MoveWith(a, "rescan", [loc[a] EXCEPT !.fresh = TRUE])
                           ELSE Quit(a)
    /\ UNCHANGED <<store, redis, now, locks, uuid, faults>>

Rescan(a) ==
    /\ pc[a] = "rescan"
    /\ \E total \in Totals \cup {physical} :
         /\ Listed(a, total)
         /\ IF total = loc[a].total THEN Move(a, "publish") /\ UNCHANGED loc
                                    ELSE Quit(a)
    /\ UNCHANGED <<store, redis, now, locks, uuid, faults>>

Publish(a) ==
    /\ pc[a] = "publish"
    /\ IF Holds(db, loc[a].mid, loc[a].epoch, "dispatched")
       THEN /\ db' = Resolved(db, loc[a].mid, loc[a].total)
            /\ Move(a, "recheck") /\ UNCHANGED loc
       ELSE UNCHANGED db /\ Quit(a)
    /\ UNCHANGED <<store, aof, now, locks, uuid, faults>>

\* Recovery is over; every caller but the recovery job itself insists that no
\* intent is left.
Recheck(a) ==
    /\ pc[a] = "recheck"
    /\ IF db.intents = {} THEN Resume(a, loc[a].after) ELSE Quit(a)
    /\ UNCHANGED <<store, redis, now, locks, uuid, faults>>

----------------------------------------------------------------------------
(* Using or rebuilding the cached total. *)

Cached(a) ==
    /\ pc[a] = "cached"
    /\ IF Clean(db) THEN Proceed(a)
       ELSE MoveWith(a, "inspect", [loc[a] EXCEPT !.after = "snapshot"])
    /\ UNCHANGED <<store, redis, now, locks, uuid, faults>>

Snapshot(a) ==
    /\ pc[a] = "snapshot"
    /\ MoveWith(a, "scan", [loc[a] EXCEPT !.gen = db.gen, !.epoch = db.epoch, !.fresh = TRUE])
    /\ UNCHANGED <<store, redis, now, locks, uuid, faults>>

Scan(a) ==
    /\ pc[a] = "scan"
    /\ \E total \in Totals \cup {physical} :
         Listed(a, total) /\ MoveWith(a, "install", [loc[a] EXCEPT !.total = total])
    /\ UNCHANGED <<store, redis, now, locks, uuid, faults>>

\* A changed generation or epoch means another try, up to the retry limit.
Install(a) ==
    /\ pc[a] = "install"
    /\ IF db.intents # {} THEN Quit(a) /\ UNCHANGED db
       ELSE IF MayReconcile(db, loc[a].gen, loc[a].epoch)
       THEN db' = Reconciled(db, loc[a].total) /\ Proceed(a)
       ELSE UNCHANGED db /\ (Resume(a, "snapshot") \/ Quit(a))
    /\ UNCHANGED <<store, aof, now, locks, uuid, faults>>

----------------------------------------------------------------------------
(* One journalled write or delete. *)

Begin(a) ==
    /\ pc[a] = "begin"
    /\ IF MayBegin(db) /\ uuid < MaxMutations
       THEN /\ uuid' = uuid + 1
            /\ db' = Begun(db, uuid + 1)
            /\ \E k \in Keys, to \in Sizes \cup {0} :
                 MoveWith(a, "beginSync", [Blank EXCEPT !.job = "mutate", !.key = k, !.to = to,
                                               !.mid = uuid + 1, !.epoch = db.epoch + 1])
       ELSE UNCHANGED <<db, uuid>> /\ Quit(a)
    /\ UNCHANGED <<store, aof, now, locks, faults>>

\* WAITAOF returns once everything this connection wrote is in the local AOF.
Fsync == aof' = db

WaitAof(a, from, to) ==
    /\ pc[a] = from
    /\ Fsync
    /\ Move(a, to)
    /\ UNCHANGED <<store, db, now, locks, loc, uuid, faults>>

BeginSync(a) == WaitAof(a, "beginSync", "measure")

DispatchSync(a) == WaitAof(a, "dispatchSync", "send")

\* The handlers that take an intent back; they ignore a refusal.
Undo(a, from, phase) ==
    /\ pc[a] = from
    /\ db' = IF Holds(db, loc[a].mid, loc[a].epoch, phase) THEN Retire(db, loc[a].mid) ELSE db
    /\ Quit(a)
    /\ UNCHANGED <<store, aof, now, locks, uuid, faults>>

UndoBegin(a) == Undo(a, "undoBegin", "preflight")

UndoDispatch(a) == Undo(a, "undoDispatch", "dispatched")

\* HEAD the object and mint the expiring capability.
Measure(a) ==
    /\ pc[a] = "measure"
    /\ \E lead \in Leads :
         MoveWith(a, "dispatch", [loc[a] EXCEPT !.old = size[loc[a].key],
                                     !.until = ValidUntil(lead), !.window = Window(lead)])
    /\ UNCHANGED <<store, redis, now, locks, uuid, faults>>

Dispatch(a) ==
    /\ pc[a] = "dispatch"
    /\ IF Holds(db, loc[a].mid, loc[a].epoch, "preflight")
       THEN /\ db' = Dispatched(db, loc[a].mid, now + RecoveryDelay(loc[a].window))
            /\ MoveWith(a, "dispatchSync", [loc[a] EXCEPT !.window = 0])
       ELSE UNCHANGED db /\ Quit(a)
    /\ UNCHANGED <<store, aof, now, locks, uuid, faults>>

\* The store refuses a capability that has expired.
Send(a) ==
    /\ pc[a] = "send"
    /\ IF loc[a].until >= now
       THEN /\ wire' = wire \cup {[mid |-> loc[a].mid, key |-> loc[a].key, to |-> loc[a].to,
                                   admitted |-> FALSE, until |-> loc[a].until]}
            /\ MoveWith(a, "await", [loc[a] EXCEPT !.until = 0])
       ELSE UNCHANGED wire /\ Quit(a)
    /\ UNCHANGED <<size, physical, redis, now, locks, uuid, faults>>

Admit(r) ==
    /\ ~r.admitted
    /\ wire' = (wire \ {r}) \cup {[r EXCEPT !.admitted = TRUE, !.until = now + Settle]}
    /\ UNCHANGED <<size, physical, redis, now, locks, pc, loc, uuid, faults>>

Land(r) ==
    /\ r.admitted
    /\ wire' = wire \ {r}
    /\ size' = [size EXCEPT ![r.key] = r.to]
    /\ physical' = physical - size[r.key] + r.to
    /\ loc' = [a \in Actors |->
                 [loc[a] EXCEPT !.fresh = FALSE,
                                !.ok = IF pc[a] = "await" /\ loc[a].mid = r.mid
                                       THEN TRUE ELSE @]]
    /\ UNCHANGED <<redis, now, locks, pc, uuid, faults>>

Reply(a) ==
    /\ pc[a] = "await" /\ loc[a].ok
    /\ Move(a, "head")
    /\ UNCHANGED <<store, redis, now, locks, loc, uuid, faults>>

\* The client gives up on a request that can no longer succeed.
GiveUp(a) ==
    /\ pc[a] = "await" /\ ~loc[a].ok
    /\ \A r \in wire : r.mid # loc[a].mid
    /\ Quit(a)
    /\ UNCHANGED <<store, redis, now, locks, uuid, faults>>

\* A write that is not visible, or a delete that still is, leaves the intent.
Head(a) ==
    /\ pc[a] = "head"
    /\ IF (size[loc[a].key] = 0) = (loc[a].to = 0)
       THEN MoveWith(a, "commit", [Blank EXCEPT !.mid = loc[a].mid, !.epoch = loc[a].epoch,
                                      !.delta = size[loc[a].key] - loc[a].old])
       ELSE Quit(a)
    /\ UNCHANGED <<store, redis, now, locks, uuid, faults>>

Commit(a) ==
    /\ pc[a] = "commit"
    /\ IF ~Holds(db, loc[a].mid, loc[a].epoch, "dispatched")
       THEN Quit(a) /\ UNCHANGED db
       ELSE IF MayAdd(db, loc[a].delta)
       THEN db' = Committed(db, loc[a].mid, loc[a].delta) /\ Quit(a)
       ELSE MoveWith(a, "repair", [loc[a] EXCEPT !.fresh = TRUE]) /\ UNCHANGED db
    /\ UNCHANGED <<store, aof, now, locks, uuid, faults>>

\* resolve_cas_storage_mutation_by_scan: the request is known to have landed.
Repair(a) ==
    /\ pc[a] = "repair"
    /\ \E total \in Totals \cup {physical} :
         Listed(a, total) /\ MoveWith(a, "settle", [loc[a] EXCEPT !.total = total])
    /\ UNCHANGED <<store, redis, now, locks, uuid, faults>>

SettleByScan(a) ==
    /\ pc[a] = "settle"
    /\ db' = IF Holds(db, loc[a].mid, loc[a].epoch, "dispatched")
             THEN Resolved(db, loc[a].mid, loc[a].total) ELSE db
    /\ Quit(a)
    /\ UNCHANGED <<store, aof, now, locks, uuid, faults>>

----------------------------------------------------------------------------
(* Failures.  Every one uses up a fault. *)

Fault == faults < MaxFaults /\ faults' = faults + 1

\* Where an exception raised at a place is handled.
Handler(place) ==
    CASE place \in {"beginSync", "measure"} -> "undoBegin"
      [] place = "dispatchSync"             -> "undoDispatch"
      [] place = "head"                     -> "repair"
      [] OTHER                              -> "leave"

\* Any await may raise: a Redis, PostgreSQL or storage error, or cancellation.
\* A script whose reply is lost is this failure at the place that follows it.
Raise(a) ==
    /\ pc[a] \notin {"idle", "leave"} /\ Fault
    /\ IF Handler(pc[a]) = "leave" THEN Quit(a)
       ELSE MoveWith(a, Handler(pc[a]), [loc[a] EXCEPT !.fresh = TRUE])
    /\ UNCHANGED <<store, redis, now, locks, uuid>>

\* The process dies: PostgreSQL drops its session lock, the Redis lease stays.
Die(a) ==
    /\ pc[a] # "idle" /\ Fault
    /\ fence' = IF fence = a THEN None ELSE fence
    /\ lease' = IF lease = a THEN Orphan ELSE lease
    /\ MoveWith(a, "idle", Blank)
    /\ UNCHANGED <<store, redis, now, uuid>>

\* The PostgreSQL session is lost while its actor lives on.
LoseFence ==
    /\ fence # None /\ Fault
    /\ fence' = None
    /\ UNCHANGED <<store, redis, now, lease, pc, loc, uuid>>

\* The lease of a live actor lapses: it was suspended or could not renew it.
LoseLease ==
    /\ lease \in Actors /\ Fault
    /\ lease' = None
    /\ UNCHANGED <<store, redis, now, fence, pc, loc, uuid>>

ExpireOrphan ==
    /\ lease = Orphan
    /\ lease' = None
    /\ UNCHANGED <<store, redis, now, fence, pc, loc, uuid, faults>>

\* appendfsync everysec.
BackgroundFsync ==
    /\ aof # db
    /\ Fsync
    /\ UNCHANGED <<store, db, now, locks, pc, loc, uuid, faults>>

\* Redis restarts from its append-only file; a WAITAOF in progress fails.
CrashRedis ==
    /\ aof # db /\ Fault
    /\ db' = aof
    /\ pc' = [a \in Actors |->
                IF pc[a] \in {"beginSync", "dispatchSync"} THEN Handler(pc[a]) ELSE pc[a]]
    /\ UNCHANGED <<store, aof, now, locks, loc, uuid>>

\* The storage administration page deletes the cached total after a prune.
ForgetUsage ==
    /\ db.usage # None /\ Fault
    /\ db' = [db EXCEPT !.usage = None]
    /\ UNCHANGED <<store, aof, now, locks, pc, loc, uuid>>

----------------------------------------------------------------------------
Recovery(a) ==
    \/ Inspect(a) \/ Expire(a) \/ Probe(a) \/ Confirm(a) \/ Rescan(a)
    \/ Publish(a) \/ Recheck(a)

Accounting(a) == Cached(a) \/ Snapshot(a) \/ Scan(a) \/ Install(a)

Mutation(a) ==
    \/ Begin(a) \/ BeginSync(a) \/ UndoBegin(a) \/ Measure(a) \/ Dispatch(a)
    \/ DispatchSync(a) \/ UndoDispatch(a) \/ Send(a) \/ Reply(a) \/ GiveUp(a)
    \/ Head(a) \/ Commit(a) \/ Repair(a) \/ SettleByScan(a)

Step(a) == TakeLease(a) \/ Leave(a) \/ Recovery(a) \/ Accounting(a) \/ Mutation(a)

Store == \E r \in wire : Admit(r) \/ Land(r)

Failure ==
    \/ \E a \in Actors : Raise(a) \/ Die(a)
    \/ LoseFence \/ LoseLease \/ CrashRedis \/ ForgetUsage

Next ==
    \/ \E a \in Actors : Step(a) \/ \E job \in Jobs : TakeFence(a, job)
    \/ Store \/ Tick \/ ExpireOrphan \/ BackgroundFsync \/ Failure

Init ==
    /\ size = [k \in Keys |-> 0] /\ physical = 0 /\ wire = {}
    /\ db = [usage |-> None, gen |-> 0, epoch |-> 0, dirty |-> 0, intents |-> {}]
    /\ aof = db
    /\ now = 0 /\ fence = None /\ lease = None
    /\ pc = [a \in Actors |-> "idle"] /\ loc = [a \in Actors |-> Blank]
    /\ uuid = 0 /\ faults = 0

Spec == Init /\ [][Next]_vars

\* The client library retries a command on a new connection after a
\* connection error.  A new connection has written nothing, so a repeated
\* WAITAOF succeeds at once whatever the crash has lost.
CrashRedisRetried ==
    /\ aof # db /\ Fault
    /\ db' = aof
    /\ UNCHANGED <<store, aof, now, locks, pc, loc, uuid>>

SpecWithRetries == Init /\ [][Next \/ CrashRedisRetried]_vars

\* Every task keeps running, time passes, a dead owner's lease expires, and
\* the recovery job, scheduled every five minutes and at worker start, gets
\* the fence again and again.
Fairness ==
    /\ \A a \in Actors : WF_vars(Step(a))
    /\ WF_vars(Tick) /\ WF_vars(ExpireOrphan)
    /\ SF_vars(\E a \in Actors : TakeFence(a, "recover"))

FairSpec == Spec /\ Fairness

----------------------------------------------------------------------------
(* Properties *)

(* A clean total is the truth: whenever the capacity check may use the     *)
(* cached total, it is exactly the number of bytes in the store.           *)
CleanMeansExact == Clean(db) => db.usage = physical

\* Intent of mutation m, dispatched, not recoverable before the instant t.
Covers(d, m, t) ==
    \E i \in d.intents : i.mid = m /\ i.phase = "dispatched" /\ t < i.recoverAfter

(* A request that can still change the store is always covered by a        *)
(* dispatched intent, in memory and in the AOF, that nobody may recover    *)
(* before the last instant at which the request can land.                  *)
EveryRequestIsJournaled ==
    \A r \in wire : Covers(db, r.mid, LastLanding(r)) /\ Covers(aof, r.mid, LastLanding(r))

(* What a recovering actor is about to publish for an intent that is still *)
(* pending is the exact content of the store.                              *)
RecoveryIsExact ==
    \A a \in Actors :
        pc[a] \in {"publish", "settle"} /\ Holds(db, loc[a].mid, loc[a].epoch, "dispatched")
            => loc[a].total = physical

(* The journal serializes mutations even when both locks are lost: neither *)
(* Redis nor its AOF ever holds two intents.                               *)
SingleIntent == \A d \in {db, aof} : \A i, j \in d.intents : i = j

(* A listing adds up the sizes of the objects, and neither a cached total, *)
(* in memory or in the AOF, nor one that an actor is about to install is   *)
(* ever negative, whatever commits and restarts are interleaved.           *)
TotalsAddUp ==
    /\ TypeOK
    /\ physical = SumFunctionOnSet(size, Keys)
    /\ \A d \in {db, aof} : d.usage # None => d.usage >= 0
    /\ \A a \in Actors : loc[a].total >= 0

(* A pending intent is eventually resolved, whoever wrote it and however   *)
(* its actor ended: the journal never blocks the store for good.           *)
JournalDrains == db.intents # {} ~> db.intents = {}

----------------------------------------------------------------------------
(* Inductive strengthening of EveryRequestIsJournaled. *)

BeforeDispatch == {"beginSync", "undoBegin", "measure", "dispatch"}

\* Places at which loc[a].mid is a mutation of a's own.
Owning == BeforeDispatch \cup {"dispatchSync", "undoDispatch", "send", "await",
                               "head", "commit", "repair", "settle"}

Recovering == {"probe", "confirm", "rescan", "publish"}

IsDispatched(m) ==
    \E d \in {db, aof} : \E i \in d.intents : i.mid = m /\ i.phase = "dispatched"

\* Identifiers are handed out once.
IdsAreUnique ==
    /\ \A d \in {db, aof} : \A i \in d.intents : i.mid <= uuid
    /\ \A r \in wire : r.mid <= uuid
    /\ \A r, q \in wire : r.mid = q.mid => r = q
    /\ \A a \in Actors : pc[a] \in Owning \cup Recovering => loc[a].mid <= uuid
    /\ \A a, b \in Actors :
         pc[a] \in Owning /\ pc[b] \in Owning /\ loc[a].mid = loc[b].mid => a = b

\* Only an actor still waiting for its answer has a request on the wire, and
\* there is no answer before the request.
RequestsAreAwaited ==
    \A a \in Actors :
        /\ \A r \in wire :
             pc[a] \in Owning /\ r.mid = loc[a].mid => pc[a] = "await" /\ ~loc[a].ok
        /\ pc[a] \in BeforeDispatch \cup {"dispatchSync", "send"} => ~loc[a].ok

\* An intent is dispatched once, by its own actor.
DispatchedOnce ==
    /\ \A a \in Actors : pc[a] \in BeforeDispatch =>
         /\ ~IsDispatched(loc[a].mid)
         /\ \A b \in Actors : pc[b] \in Recovering => loc[b].mid # loc[a].mid
    /\ \A i \in db.intents, j \in aof.intents :
         i.mid = j.mid /\ i.phase = "dispatched" /\ j.phase = "dispatched" => i = j

\* Whoever recovers an intent has seen its deadline pass.
RecoveryWaits ==
    \A a \in Actors : pc[a] \in Recovering =>
        \A d \in {db, aof} : \A i \in d.intents :
            i.mid = loc[a].mid /\ i.phase = "dispatched" => i.recoverAfter <= now

\* A capability that can still be used is covered before it is.
CapabilityIsCovered ==
    \A a \in Actors :
        LET last == loc[a].until + Settle IN
        /\ pc[a] = "dispatch" => last < now + RecoveryDelay(loc[a].window)
        /\ pc[a] \in {"dispatchSync", "send"} /\ loc[a].until >= now
             => Covers(db, loc[a].mid, last)
        /\ pc[a] = "send" /\ loc[a].until >= now => Covers(aof, loc[a].mid, last)

RequestsAreLive == \A r \in wire : r.until >= now

JournalInv ==
    /\ EveryRequestIsJournaled /\ SingleIntent /\ IdsAreUnique /\ RequestsAreAwaited
    /\ DispatchedOnce /\ RecoveryWaits /\ CapabilityIsCovered /\ RequestsAreLive
----------------------------------------------------------------------------
(* Inductive strengthening of RecoveryIsExact: what the store and the      *)
(* journal agree on whatever the total is.                                 *)

Journals == {db, aof}

InDoubt(d, m) == \E i \in d.intents : i.mid = m /\ i.phase = "dispatched"

IsPending(m) == \E d \in Journals : \E i \in d.intents : i.mid = m

\* What the object of a's mutation has grown by since it was measured.
Growth(a) == size[loc[a].key] - loc[a].old

\* A mutation that is dispatched and whose request has not landed.
Unlanded(a) ==
    pc[a] \in {"dispatchSync", "undoDispatch", "send"} \/ (pc[a] = "await" /\ ~loc[a].ok)

\* An intent marks the total dirty and bears the epoch of the journal.
IntentsAreMarked ==
    \A d \in Journals :
        /\ d.intents # {} => d.dirty = 1
        /\ \A i \in d.intents : i.epoch = d.epoch

\* The size an actor measured is the size for as long as its intent is pending
\* and its request has not landed.
SizeIsKnown(a) ==
    /\ pc[a] = "dispatch" /\ IsPending(loc[a].mid) => Growth(a) = 0
    /\ Unlanded(a) /\ IsDispatched(loc[a].mid) => Growth(a) = 0

\* A request names the key its actor waits for.
RequestIsAsked(a) ==
    \A r \in wire : pc[a] = "await" /\ r.mid = loc[a].mid => r.key = loc[a].key

\* Nothing lands while the intent somebody settles by listing is pending, and
\* a listing during which nothing landed is exact.
ListingIsExact(a) ==
    /\ pc[a] \in Recovering \cup {"repair", "settle"} /\ IsDispatched(loc[a].mid) => loc[a].fresh
    /\ pc[a] \in {"publish", "settle", "install"} /\ loc[a].fresh => loc[a].total = physical

ActorInv(a) == SizeIsKnown(a) /\ RequestIsAsked(a) /\ ListingIsExact(a)

LandingInv == IntentsAreMarked /\ \A a \in Actors : ActorInv(a)

----------------------------------------------------------------------------
(* Inductive strengthening of CleanMeansExact.                             *)

\* The total is unknown, or just this change is missing in it.
OffBy(d, change) == d.usage # None => d.usage + change = physical

\* Only a dispatched intent leaves the total in doubt.
TotalsAreKnown ==
    \A d \in Journals : (\A i \in d.intents : i.phase = "preflight") => OffBy(d, 0)

\* While its intent is pending, a mutation's own change is all the total lacks.
LackIsKnown(a) ==
    \A d \in Journals : InDoubt(d, loc[a].mid) =>
        /\ Unlanded(a) \/ pc[a] \in {"await", "head"} => OffBy(d, Growth(a))
        /\ pc[a] = "commit" => OffBy(d, loc[a].delta)

\* The journal is past the epoch a scan has read, or will be once the intent
\* is retired that was pending when an object landed during the scan.
ScanIsFenced(a) ==
    pc[a] \in {"scan", "install"} =>
        /\ db.epoch >= loc[a].epoch
        /\ ~loc[a].fresh => \A d \in Journals :
             d.epoch > loc[a].epoch \/ (d.epoch = loc[a].epoch /\ d.intents # {})

TotalInv == TotalsAreKnown /\ \A a \in Actors : LackIsKnown(a) /\ ScanIsFenced(a)

\* A restart of Redis does not take the journal back before the epoch that a
\* scan in progress has read.  Taking an intent back raises the epoch but not
\* the generation, so an epoch that was lost can come again.
RestartKeepsScans ==
    CrashRedis => \A a \in Actors :
                     pc[a] \in {"scan", "install"} => aof.epoch >= loc[a].epoch

RestartsKeepScans == [][RestartKeepsScans]_vars
=============================================================================
