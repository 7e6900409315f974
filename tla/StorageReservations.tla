------------------------- MODULE StorageReservations -------------------------
(***************************************************************************)
(* Admission of uploads against the global storage limit.                  *)
(*                                                                         *)
(* An upload reserves its bytes before they are stored.  The decision adds *)
(* three numbers that live in different places: the cached total of the    *)
(* content-addressed store (kept by CasJournal), the sizes of the files    *)
(* outside it, read from PostgreSQL before the decision is made in Redis,  *)
(* and the reservations of the uploads in flight.  Bytes move from one     *)
(* number to another while other uploads are deciding.                     *)
(*                                                                         *)
(* Sources: api/app/core/storage/capacity.py, storage_reserve.lua,         *)
(* storage_release.lua, storage_release_promoted_legacy.lua.               *)
(***************************************************************************)
EXTENDS Integers, FiniteSets, Functions

CONSTANTS
    CasUploads,       \* uploads that end up under cas/
    LegacyUploads,    \* text edits that are promoted to a key of their own
    Lapsing,          \* uploads that may outlive their reservation
    Sizes,            \* sizes an upload may ask for
    Capacity,         \* max_storage_gb, in the unit of Sizes
    None,             \* "no such Redis key", "nobody"
    MaxGeneration     \* bound: promotions ever released

Uploads == CasUploads \cup LegacyUploads

ASSUME UploadsAssumption ==
    /\ CasUploads \cap LegacyUploads = {} /\ IsFiniteSet(Uploads) /\ None \notin Uploads
    /\ Lapsing \subseteq Uploads

ASSUME SizesAssumption ==
    Sizes \subseteq Nat \ {0} /\ Capacity \in Nat /\ None \notin Int /\ MaxGeneration \in Nat

VARIABLES
    usage,        \* Redis: cached total of cas/, or None
    sizes,        \* Redis: size each upload has reserved, 0 for none
    total,        \* Redis: cached sum of the reservations
    lapsed,       \* Redis: reservations whose expiry has passed, not swept yet
    generation,   \* Redis: fence of the snapshots of the database
    stored,       \* the store: CAS uploads whose object exists
    mutation,     \* the pending CAS write (the total is dirty), or None
    rows,         \* PostgreSQL: legacy uploads with a material version
    bytes,        \* the real size of each upload's file
    pc,           \* where each upload is
    loc           \* local variables of each upload's admission

reservations == <<sizes, total, lapsed>>
files == <<usage, stored, mutation, rows, bytes>>
vars == <<reservations, generation, files, pc, loc>>

Places == {"new", "generation", "snapshot", "reserve", "announced", "held", "writing",
           "promoted", "ending", "done"}

\* ask: the size asked for; gen: the generation read before the snapshot of
\* the database; rows: the legacy uploads that snapshot contains; expired: the
\* reservations that had expired by the time passed to the script.
Locals == [ask : Nat, gen : Nat, rows : SUBSET LegacyUploads, expired : SUBSET Uploads]

Blank == [ask |-> 0, gen |-> 0, rows |-> {}, expired |-> {}]

TypeOK ==
    /\ usage \in Nat \cup {None} /\ sizes \in [Uploads -> Nat] /\ total \in Nat
    /\ lapsed \subseteq Uploads /\ generation \in Nat
    /\ stored \subseteq CasUploads /\ mutation \in CasUploads \cup {None}
    /\ rows \subseteq LegacyUploads /\ bytes \in [Uploads -> Sizes]
    /\ pc \in [Uploads -> Places] /\ loc \in [Uploads -> Locals]

Bytes(S) == SumFunctionOnSet(bytes, S)

Go(u, place) == pc' = [pc EXCEPT ![u] = place] /\ loc' = [loc EXCEPT ![u] = Blank]

----------------------------------------------------------------------------
(* The cached total, as CasJournal keeps it: exact unless a mutation is    *)
(* pending, rebuilt by a scan when it is missing.                          *)

Clean == usage # None /\ mutation = None

Synced == IF usage = None THEN Bytes(stored) ELSE usage

----------------------------------------------------------------------------
(* Admission. *)

\* get_storage_usage.  While a mutation is pending it waits or fails.
Ask(u, n) ==
    /\ \/ pc[u] = "new"
       \/ pc[u] \in {"announced", "held"} /\ n = bytes[u]
    /\ mutation = None
    /\ usage' = Synced
    /\ pc' = [pc EXCEPT ![u] = "generation"]
    /\ loc' = [loc EXCEPT ![u] = [Blank EXCEPT !.ask = n]]
    /\ UNCHANGED <<reservations, generation, stored, mutation, rows, bytes>>

ReadGeneration(u) ==
    /\ pc[u] = "generation"
    /\ pc' = [pc EXCEPT ![u] = "snapshot"]
    /\ loc' = [loc EXCEPT ![u].gen = generation]
    /\ UNCHANGED <<reservations, generation, files>>

ReadDatabase(u) ==
    /\ pc[u] = "snapshot"
    /\ pc' = [pc EXCEPT ![u] = "reserve"]
    /\ loc' = [loc EXCEPT ![u].rows = rows, ![u].expired = lapsed]
    /\ UNCHANGED <<reservations, generation, files>>

\* Mutant: the snapshot is used whatever has been released meanwhile.
FencedNever(u) == TRUE

Fenced(u) == loc[u].gen = generation

Expired(u) == lapsed \cap loc[u].expired

\* The reservations without the expired ones, and their total.
SweptSizes(u) == [v \in Uploads |-> IF v \in Expired(u) THEN 0 ELSE sizes[v]]

\* Mutant: the total of a sweep is not written back when the upload is refused.
UnsweptTotal(u) == total

\* Mutant: whatever had expired by then is deducted, though it may have been
\* reserved again since.
SweptAgain(u) == total - SumFunctionOnSet(sizes, loc[u].expired)

SweptTotal(u) ==
    LET left == total - SumFunctionOnSet(sizes, Expired(u))
    IN  IF left > 0 THEN left ELSE 0

NextTotal(u) == SweptTotal(u) - SweptSizes(u)[u] + loc[u].ask

\* What the script adds up; a missing cached total counts as nothing.
Demand(u) == (IF usage = None THEN 0 ELSE usage) + Bytes(loc[u].rows) + NextTotal(u)

Granted(u) ==
    /\ pc[u] = "reserve" /\ Fenced(u) /\ Demand(u) <= Capacity
    /\ sizes' = [SweptSizes(u) EXCEPT ![u] = loc[u].ask]
    /\ total' = NextTotal(u)
    /\ lapsed' = lapsed \ (Expired(u) \cup {u})
    /\ Go(u, IF loc[u].ask = bytes[u] THEN "held" ELSE "announced")
    /\ UNCHANGED <<generation, files>>

Refused(u) ==
    /\ pc[u] = "reserve" /\ Fenced(u) /\ Demand(u) > Capacity
    /\ sizes' = SweptSizes(u) /\ total' = SweptTotal(u) /\ lapsed' = lapsed \ Expired(u)
    /\ Go(u, "ending")
    /\ UNCHANGED <<generation, files>>

\* Another try, up to the retry limit.
Stale(u) ==
    /\ pc[u] = "reserve" /\ ~Fenced(u)
    /\ \/ /\ pc' = [pc EXCEPT ![u] = "generation"]
          /\ loc' = [loc EXCEPT ![u] = [Blank EXCEPT !.ask = loc[u].ask]]
       \/ Go(u, "ending")
    /\ UNCHANGED <<reservations, generation, files>>

\* storage_release.lua; a second call changes nothing.
Release(u) ==
    /\ sizes' = [sizes EXCEPT ![u] = 0]
    /\ total' = IF total > sizes[u] THEN total - sizes[u] ELSE 0
    /\ lapsed' = lapsed \ {u}

\* Time passes.  A text edit is reserved for longer than its pull request lives.
Lapse(u) ==
    /\ u \in Lapsing /\ sizes[u] > 0 /\ u \notin lapsed
    /\ u \in LegacyUploads => pc[u] \notin {"held", "promoted"}
    /\ lapsed' = lapsed \cup {u}
    /\ UNCHANGED <<sizes, total, generation, files, pc, loc>>

----------------------------------------------------------------------------
(* What becomes of an admitted upload. *)

\* A journalled CAS write is dispatched, lands and is committed.
Write(u) ==
    /\ u \in CasUploads /\ pc[u] = "held" /\ mutation = None
    /\ mutation' = u /\ usage' = Synced
    /\ Go(u, "writing")
    /\ UNCHANGED <<reservations, generation, stored, rows, bytes>>

Land ==
    /\ mutation # None
    /\ stored' = stored \cup {mutation}
    /\ UNCHANGED <<reservations, generation, usage, mutation, rows, bytes, pc, loc>>

Commit(u) ==
    /\ pc[u] = "writing" /\ u \in stored
    /\ usage' = IF usage = None THEN Bytes(stored) ELSE usage + bytes[u]
    /\ mutation' = None
    /\ Go(u, "ending")
    /\ UNCHANGED <<reservations, generation, stored, rows, bytes>>

\* The upload fails at any point; a write of its own stays pending.
Fail(u) ==
    /\ pc[u] \notin {"promoted", "ending", "done"}
    /\ Go(u, "ending")
    /\ UNCHANGED <<reservations, generation, files>>

\* Recovery of the journal: a scan, once the write can no longer land.
Recover ==
    /\ mutation # None /\ pc[mutation] # "writing"
    /\ usage' = Bytes(stored) /\ mutation' = None
    /\ UNCHANGED <<reservations, generation, stored, rows, bytes, pc, loc>>

\* The reservation of a finished upload is released, or left to expire.
End(u) ==
    /\ pc[u] = "ending"
    /\ Release(u) \/ UNCHANGED reservations
    /\ Go(u, "done")
    /\ UNCHANGED <<generation, files>>

\* A pull request is approved: the material version is committed first.
Promote(u) ==
    /\ u \in LegacyUploads /\ pc[u] = "held"
    /\ rows' = rows \cup {u}
    /\ Go(u, "promoted")
    /\ UNCHANGED <<reservations, generation, usage, stored, mutation, bytes>>

\* storage_release_promoted_legacy.lua, from a job that may run twice.
ReleasePromoted(u) ==
    /\ u \in LegacyUploads /\ pc[u] = "promoted" /\ generation < MaxGeneration
    /\ generation' = generation + 1
    /\ Release(u)
    /\ Go(u, "done") \/ UNCHANGED <<pc, loc>>
    /\ UNCHANGED files

\* The file of a deleted version is gone and its row is removed.
Purge(u) ==
    /\ pc[u] = "done" /\ u \in rows
    /\ rows' = rows \ {u}
    /\ UNCHANGED <<reservations, generation, usage, stored, mutation, bytes, pc, loc>>

\* The storage administration page deletes the cached total after a prune.
Prune ==
    /\ usage # None
    /\ usage' = None
    /\ UNCHANGED <<reservations, generation, stored, mutation, rows, bytes, pc, loc>>

----------------------------------------------------------------------------
Step(u) ==
    \/ \E n \in Sizes : Ask(u, n)
    \/ ReadGeneration(u) \/ ReadDatabase(u) \/ Granted(u) \/ Refused(u) \/ Stale(u)
    \/ Lapse(u) \/ Write(u) \/ Commit(u) \/ Fail(u) \/ End(u) \/ Promote(u)
    \/ ReleasePromoted(u) \/ Purge(u)

Next == (\E u \in Uploads : Step(u)) \/ Land \/ Recover \/ Prune

Init ==
    /\ usage = None /\ stored = {} /\ mutation = None /\ rows = {}
    /\ sizes = [u \in Uploads |-> 0] /\ total = 0 /\ lapsed = {} /\ generation = 0
    /\ bytes \in [Uploads -> Sizes]
    /\ pc = [u \in Uploads |-> "new"] /\ loc = [u \in Uploads |-> Blank]

Spec == Init /\ [][Next]_vars

----------------------------------------------------------------------------
(* Properties *)

\* What is stored or promised, every upload counted once.
Footprint ==
    Bytes(stored \cup rows)
        + SumFunctionOnSet(sizes, Uploads \ (stored \cup rows))

(* The cached sum of the reservations is their sum, whatever was swept,    *)
(* replaced or released twice.                                             *)
TotalIsSum == total = SumFunctionOnSet(sizes, Uploads)

(* An admission decided while the cached total is clean leaves at most     *)
(* Capacity bytes stored or promised, although the bytes of other uploads  *)
(* moved from one of the three numbers to another meanwhile.               *)
CleanGrantsFit ==
    [][\A u \in Uploads : Granted(u) /\ Clean => Footprint' <= Capacity]_vars

(* The same of every admission: reserve_storage_limit says that it reserves *)
(* the capacity atomically.                                                *)
GrantsFit == [][\A u \in Uploads : Granted(u) => Footprint' <= Capacity]_vars

(* A snapshot that will still be accepted misses no promoted file whose    *)
(* reservation has been released.                                          *)
SnapshotsAreFenced ==
    \A u \in Uploads : pc[u] = "reserve" /\ Fenced(u) =>
        \A v \in rows \ loc[u].rows : sizes[v] = bytes[v] /\ pc[v] = "promoted"
=============================================================================
