---------------------- MODULE StorageReservationsProofs ----------------------
(***************************************************************************)
(* The admission of uploads is correct for every number of uploads, every  *)
(* size and every capacity: the cached total of the reservations is exact, *)
(* accepted snapshots are fenced, and an admission decided while the total *)
(* of the pool is clean fits.                                              *)
(***************************************************************************)
EXTENDS StorageReservations, SumTheorems

----------------------------------------------------------------------------
(* What the properties rest on.                                           *)

\* Places of an admission between its first step and its answer.
Asking == {"generation", "snapshot", "reserve"}
\* Places of an upload whose journalled write has been dispatched.
Written == {"writing", "ending", "done"}
\* An upload that is writing owns the pending mutation, and only one that wrote
\* has an object.
WritesArePending ==
    /\ \A u \in Uploads : pc[u] = "writing" => mutation = u
    /\ mutation # None => pc[mutation] \in Written
    /\ \A u \in stored : pc[u] \in Written
\* The cached total counts what is stored, except the object of a mutation that is
\* still pending.
UsageIsExact == usage # None => usage = Bytes(stored \ {mutation})
\* A text edit that waits for approval holds its reservation, which cannot expire
\* before it is promoted.
HeldIsReserved ==
    \A u \in LegacyUploads : pc[u] \in {"held", "promoted"} =>
        u \notin lapsed /\ (pc[u] = "held" => sizes[u] = bytes[u])
\* An admission asks for a size of the system.
AsksAreSizes == \A u \in Uploads : pc[u] \in Asking => loc[u].ask \in Sizes
\* An admission has read a generation of the past.
GenerationsAreRead == \A u \in Uploads : pc[u] \in Asking => loc[u].gen <= generation

----------------------------------------------------------------------------
(* The reservations and their total.                                      *)

\* There are finitely many uploads.
LEMMA UploadsFinite == IsFiniteSet(Uploads) /\ \A S \in SUBSET Uploads : IsFiniteSet(S)
  BY UploadsAssumption, FS_Subset

\* Sizes of sets of files are naturals.
LEMMA BytesType ==
  ASSUME TypeOK
  PROVE  \A S \in SUBSET Uploads : Bytes(S) \in Nat
<1> SUFFICES ASSUME NEW S \in SUBSET Uploads PROVE Bytes(S) \in Nat
  OBVIOUS
<1>1. IsFiniteSet(S) /\ \A x \in S : bytes[x] \in Nat
  BY UploadsFinite, SizesAssumption DEF TypeOK
<1> QED BY <1>1, SumType DEF Bytes

\* Sweeping the expired reservations leaves the sum of the others: the floor at 0
\* in storage_reserve.lua is never reached.
LEMMA SweptIsSum ==
  ASSUME TypeOK, TotalIsSum, NEW u \in Uploads
  PROVE  /\ SweptSizes(u) \in [Uploads -> Nat]
         /\ SweptTotal(u) = SumFunctionOnSet(SweptSizes(u), Uploads)
         /\ SweptTotal(u) \in Nat
<1> DEFINE E == Expired(u)
           f == SweptSizes(u)
<1>1. /\ IsFiniteSet(Uploads) /\ E \in SUBSET Uploads /\ IsFiniteSet(E)
      /\ \A v \in Uploads : sizes[v] \in Nat
  BY UploadsFinite DEF TypeOK, Expired
<1>2. f \in [Uploads -> Nat] /\ \A v \in Uploads : f[v] = IF v \in E THEN 0 ELSE sizes[v]
  BY <1>1 DEF SweptSizes
<1>3. SumFunctionOnSet(f, Uploads)
        = SumFunctionOnSet(sizes, Uploads) - SumFunctionOnSet(sizes, E)
  <2> HIDE DEF f, E
  <2> QED BY <1>1, <1>2, SumWithout
<1>4. SumFunctionOnSet(f, Uploads) \in Nat
  <2> HIDE DEF f, E
  <2> QED BY <1>1, <1>2, SumType
<1>5. total - SumFunctionOnSet(sizes, E) = SumFunctionOnSet(f, Uploads)
  BY <1>3 DEF TotalIsSum
<1>6. SweptTotal(u) = SumFunctionOnSet(f, Uploads)
  <2> HIDE DEF f
  <2> QED BY <1>4, <1>5 DEF SweptTotal
<1> QED BY <1>2, <1>4, <1>6

\* What storage_reserve.lua writes back is the sum of what it leaves reserved.
LEMMA GrantIsSum ==
  ASSUME TypeOK, TotalIsSum, NEW u \in Uploads
  PROVE  /\ [SweptSizes(u) EXCEPT ![u] = loc[u].ask] \in [Uploads -> Nat]
         /\ NextTotal(u)
              = SumFunctionOnSet([SweptSizes(u) EXCEPT ![u] = loc[u].ask], Uploads)
         /\ NextTotal(u) \in Nat
<1> DEFINE f == SweptSizes(u)
           g == [f EXCEPT ![u] = loc[u].ask]
<1>1. f \in [Uploads -> Nat] /\ SweptTotal(u) = SumFunctionOnSet(f, Uploads)
  BY SweptIsSum
<1>2. loc[u].ask \in Nat
  BY DEF TypeOK, Locals
<1>3. /\ g \in [Uploads -> Nat] /\ g[u] = loc[u].ask
      /\ \A v \in Uploads \ {u} : f[v] = g[v]
  <2> HIDE DEF f
  <2> QED BY <1>1, <1>2
<1>4. SumFunctionOnSet(g, Uploads) = SumFunctionOnSet(f, Uploads) - f[u] + g[u]
  <2>1. \A v \in Uploads : f[v] \in Nat /\ g[v] \in Nat
    BY <1>1, <1>3
  <2> HIDE DEF f, g
  <2> QED BY <1>3, <2>1, UploadsFinite, SumChange
<1>5. SumFunctionOnSet(g, Uploads) \in Nat
  <2>1. \A v \in Uploads : g[v] \in Nat
    BY <1>3
  <2> HIDE DEF f, g
  <2> QED BY <2>1, UploadsFinite, SumType
<1>6. NextTotal(u) = SumFunctionOnSet(g, Uploads)
  <2>1. NextTotal(u) = SweptTotal(u) - f[u] + loc[u].ask
    BY DEF NextTotal
  <2> HIDE DEF f, g
  <2> QED BY <2>1, <1>1, <1>3, <1>4
<1> QED BY <1>3, <1>5, <1>6

\* storage_release.lua deducts what it releases, once.
LEMMA ReleaseIsSum ==
  ASSUME TypeOK, TotalIsSum, NEW u \in Uploads, Release(u)
  PROVE  /\ sizes' \in [Uploads -> Nat] /\ total' \in Nat /\ lapsed' \subseteq Uploads
         /\ total' = SumFunctionOnSet(sizes', Uploads)
<1>1. /\ sizes \in [Uploads -> Nat] /\ sizes' \in [Uploads -> Nat] /\ sizes'[u] = 0
      /\ \A v \in Uploads \ {u} : sizes[v] = sizes'[v]
  BY DEF TypeOK, Release
<1>2. SumFunctionOnSet(sizes', Uploads)
        = SumFunctionOnSet(sizes, Uploads) - sizes[u] + 0
  <2>1. \A v \in Uploads : sizes[v] \in Nat /\ sizes'[v] \in Nat
    BY <1>1
  <2> QED BY <1>1, <2>1, UploadsFinite, SumChange
<1>3. SumFunctionOnSet(sizes', Uploads) \in Nat
  BY <1>1, UploadsFinite, SumType
<1>4. total' = SumFunctionOnSet(sizes', Uploads)
  BY <1>1, <1>2, <1>3 DEF TypeOK, TotalIsSum, Release
<1> QED BY <1>1, <1>3, <1>4 DEF TypeOK, Release

\* Every step keeps the reservations typed and their cached total exact.
LEMMA ReservationsStep ==
  ASSUME TypeOK, TotalIsSum, [Next]_vars
  PROVE  /\ sizes' \in [Uploads -> Nat] /\ total' \in Nat /\ lapsed' \subseteq Uploads
         /\ TotalIsSum'
<1>1. CASE UNCHANGED reservations
  BY <1>1 DEF TypeOK, TotalIsSum, reservations
<1>2. ASSUME NEW u \in Uploads, Granted(u)
      PROVE  /\ sizes' \in [Uploads -> Nat] /\ total' \in Nat /\ lapsed' \subseteq Uploads
             /\ TotalIsSum'
  <2>1. sizes' = [SweptSizes(u) EXCEPT ![u] = loc[u].ask] /\ total' = NextTotal(u)
        /\ lapsed' \subseteq lapsed
    BY <1>2 DEF Granted
  <2> QED BY <2>1, GrantIsSum DEF TypeOK, TotalIsSum
<1>3. ASSUME NEW u \in Uploads, Refused(u)
      PROVE  /\ sizes' \in [Uploads -> Nat] /\ total' \in Nat /\ lapsed' \subseteq Uploads
             /\ TotalIsSum'
  <2>1. sizes' = SweptSizes(u) /\ total' = SweptTotal(u) /\ lapsed' \subseteq lapsed
    BY <1>3 DEF Refused
  <2> QED BY <2>1, SweptIsSum DEF TypeOK, TotalIsSum
<1>4. ASSUME NEW u \in Uploads, Release(u)
      PROVE  /\ sizes' \in [Uploads -> Nat] /\ total' \in Nat /\ lapsed' \subseteq Uploads
             /\ TotalIsSum'
  BY <1>4, ReleaseIsSum DEF TotalIsSum
<1>5. ASSUME NEW u \in Uploads, Lapse(u)
      PROVE  /\ sizes' \in [Uploads -> Nat] /\ total' \in Nat /\ lapsed' \subseteq Uploads
             /\ TotalIsSum'
  BY <1>5 DEF TypeOK, TotalIsSum, Lapse
<1>6. ASSUME NEW u \in Uploads, Step(u)
      PROVE  \/ UNCHANGED reservations \/ Granted(u) \/ Refused(u) \/ Release(u) \/ Lapse(u)
  BY <1>6 DEF Step, Ask, ReadGeneration, ReadDatabase, Stale, Write, Commit, Fail, End,
              Promote, ReleasePromoted, Purge, reservations
<1>7. Land \/ Recover \/ Prune \/ UNCHANGED vars => UNCHANGED reservations
  BY DEF Land, Recover, Prune, vars, reservations
<1> QED BY <1>1, <1>2, <1>3, <1>4, <1>5, <1>6, <1>7 DEF Next

----------------------------------------------------------------------------
(* Types.                                                                 *)

\* The locals of an admission that has only chosen its size.
LEMMA BlankTyped ==
  /\ Blank \in Locals /\ Blank.gen = 0
  /\ \A n \in Nat : LET l == [Blank EXCEPT !.ask = n]
                    IN  l \in Locals /\ l.ask = n /\ l.gen = 0
  BY DEF Blank, Locals

\* The locals of an admission that has read the database.
LEMMA SnapshotTyped ==
  ASSUME NEW l \in Locals, NEW r \in SUBSET LegacyUploads, NEW e \in SUBSET Uploads
  PROVE  [l EXCEPT !.rows = r, !.expired = e] \in Locals
  BY DEF Locals

\* Every step keeps the places and the locals typed.
LEMMA LocalsStep ==
  ASSUME TypeOK, [Next]_vars
  PROVE  pc' \in [Uploads -> Places] /\ loc' \in [Uploads -> Locals]
<1>1. /\ pc \in [Uploads -> Places] /\ loc \in [Uploads -> Locals]
      /\ generation \in Nat /\ rows \in SUBSET LegacyUploads /\ lapsed \in SUBSET Uploads
  BY DEF TypeOK
<1>2. ASSUME NEW u \in Uploads, NEW place \in Places, Go(u, place)
      PROVE  pc' \in [Uploads -> Places] /\ loc' \in [Uploads -> Locals]
  BY <1>1, <1>2, BlankTyped DEF Go
<1>3. ASSUME NEW u \in Uploads, NEW n \in Sizes, Ask(u, n)
      PROVE  pc' \in [Uploads -> Places] /\ loc' \in [Uploads -> Locals]
  <2> DEFINE l == [Blank EXCEPT !.ask = n]
  <2>1. n \in Nat
    BY SizesAssumption
  <2>2. l \in Locals
    BY <2>1, BlankTyped
  <2>3. pc' = [pc EXCEPT ![u] = "generation"] /\ loc' = [loc EXCEPT ![u] = l]
    BY <1>3, Zenon DEF Ask
  <2> HIDE DEF l
  <2> QED BY <1>1, <2>2, <2>3 DEF Places
<1>4. ASSUME NEW u \in Uploads, ReadGeneration(u)
      PROVE  pc' \in [Uploads -> Places] /\ loc' \in [Uploads -> Locals]
  <2> DEFINE l == [loc[u] EXCEPT !.gen = generation]
  <2>1. l \in Locals
    BY <1>1 DEF Locals
  <2>2. pc' = [pc EXCEPT ![u] = "snapshot"] /\ loc' = [loc EXCEPT ![u] = l]
    BY <1>4, Zenon DEF ReadGeneration
  <2> HIDE DEF l
  <2> QED BY <1>1, <2>1, <2>2 DEF Places
<1>5. ASSUME NEW u \in Uploads, ReadDatabase(u)
      PROVE  pc' \in [Uploads -> Places] /\ loc' \in [Uploads -> Locals]
  <2>1. /\ pc' = [pc EXCEPT ![u] = "reserve"]
        /\ loc' = [loc EXCEPT ![u].rows = rows, ![u].expired = lapsed]
    BY <1>5 DEF ReadDatabase
  <2>2. pc' \in [Uploads -> Places]
    BY <1>1, <2>1 DEF Places
  <2>3. [loc[u] EXCEPT !.rows = rows, !.expired = lapsed] \in Locals
    BY <1>1, SnapshotTyped
  <2>4. loc' = [loc EXCEPT ![u] = [loc[u] EXCEPT !.rows = rows, !.expired = lapsed]]
    BY <2>1
  <2>5. loc' \in [Uploads -> Locals]
    BY <1>1, <2>3, <2>4, Zenon
  <2> QED BY <2>2, <2>5
<1>6. ASSUME NEW u \in Uploads, Stale(u)
      PROVE  pc' \in [Uploads -> Places] /\ loc' \in [Uploads -> Locals]
  <2> DEFINE l == [Blank EXCEPT !.ask = loc[u].ask]
  <2>1. loc[u].ask \in Nat
    BY <1>1 DEF Locals
  <2>2. l \in Locals
    BY <2>1, BlankTyped
  <2>3. \/ pc' = [pc EXCEPT ![u] = "generation"] /\ loc' = [loc EXCEPT ![u] = l]
        \/ Go(u, "ending")
    BY <1>6, Zenon DEF Stale
  <2> HIDE DEF l
  <2>4. "generation" \in Places /\ "ending" \in Places
    BY DEF Places
  <2> QED BY <1>1, <1>2, <2>2, <2>3, <2>4
<1>7. ASSUME NEW u \in Uploads, Step(u)
      PROVE  \/ UNCHANGED <<pc, loc>> \/ \E place \in Places : Go(u, place)
             \/ \E n \in Sizes : Ask(u, n)
             \/ ReadGeneration(u) \/ ReadDatabase(u) \/ Stale(u)
  BY <1>7, Zenon DEF Step, Granted, Refused, Lapse, Write, Commit, Fail, End, Promote,
              ReleasePromoted, Purge, Places
<1>8. Land \/ Recover \/ Prune \/ UNCHANGED vars => UNCHANGED <<pc, loc>>
  BY DEF Land, Recover, Prune, vars
<1>9. UNCHANGED <<pc, loc>> => pc' \in [Uploads -> Places] /\ loc' \in [Uploads -> Locals]
  BY <1>1
<1> QED BY <1>2, <1>3, <1>4, <1>5, <1>6, <1>7, <1>8, <1>9 DEF Next

\* Every step keeps what is stored typed; a file never changes its size.
LEMMA FilesStep ==
  ASSUME TypeOK, [Next]_vars
  PROVE  /\ usage' \in Nat \cup {None} /\ generation' \in Nat
         /\ stored' \subseteq CasUploads /\ mutation' \in CasUploads \cup {None}
         /\ rows' \subseteq LegacyUploads /\ bytes' = bytes
<1> DEFINE P == /\ usage' \in Nat \cup {None} /\ generation' \in Nat
                /\ stored' \subseteq CasUploads /\ mutation' \in CasUploads \cup {None}
                /\ rows' \subseteq LegacyUploads /\ bytes' = bytes
<1>1. /\ usage \in Nat \cup {None} /\ generation \in Nat
      /\ stored \subseteq CasUploads /\ mutation \in CasUploads \cup {None}
      /\ rows \subseteq LegacyUploads /\ \A u \in Uploads : bytes[u] \in Nat
  BY SizesAssumption DEF TypeOK
<1>2. Bytes(stored) \in Nat
  BY <1>1, BytesType DEF Uploads
<1>3. Synced \in Nat
  BY <1>1, <1>2 DEF Synced
<1>4. UNCHANGED <<generation, files>> => P
  BY <1>1 DEF files
<1>5. ASSUME NEW u \in Uploads, NEW n \in Sizes, Ask(u, n) PROVE P
  <2>1. usage' = Synced /\ UNCHANGED <<generation, stored, mutation, rows, bytes>>
    BY <1>5, Zenon DEF Ask
  <2> QED BY <1>1, <1>3, <2>1
<1>6. ASSUME NEW u \in Uploads, Write(u) PROVE P
  BY <1>1, <1>3, <1>6 DEF Write
<1>7. ASSUME NEW u \in Uploads, Commit(u) PROVE P
  BY <1>1, <1>2, <1>7 DEF Commit
<1>8. ASSUME NEW u \in Uploads, Promote(u) PROVE P
  BY <1>1, <1>8 DEF Promote
<1>9. ASSUME NEW u \in Uploads, ReleasePromoted(u) PROVE P
  BY <1>1, <1>9 DEF ReleasePromoted, files
<1>10. ASSUME NEW u \in Uploads, Purge(u) PROVE P
  BY <1>1, <1>10 DEF Purge
<1>11. ASSUME Land PROVE P
  BY <1>1, <1>11 DEF Land
<1>12. ASSUME Recover PROVE P
  BY <1>1, <1>2, <1>12 DEF Recover
<1>13. ASSUME Prune PROVE P
  BY <1>1, <1>13 DEF Prune
<1>14. ASSUME NEW u \in Uploads, Step(u)
       PROVE  \/ UNCHANGED <<generation, files>> \/ \E n \in Sizes : Ask(u, n)
              \/ Write(u) \/ Commit(u) \/ Promote(u) \/ ReleasePromoted(u) \/ Purge(u)
  BY <1>14 DEF Step, ReadGeneration, ReadDatabase, Granted, Refused, Stale, Lapse, Fail, End
<1>15. UNCHANGED vars => UNCHANGED <<generation, files>>
  BY DEF vars
<1> HIDE DEF P
<1>16. P
  BY <1>4, <1>5, <1>6, <1>7, <1>8, <1>9, <1>10, <1>11, <1>12, <1>13, <1>14, <1>15 DEF Next
<1> QED BY <1>16 DEF P

\* Every step keeps the type invariant, given that the total is exact: without it
\* the total could become negative.
LEMMA TypeStep ==
  ASSUME TypeOK, TotalIsSum, [Next]_vars
  PROVE  TypeOK' /\ TotalIsSum'
  BY ReservationsStep, LocalsStep, FilesStep DEF TypeOK

\* Where an upload goes when its locals are dropped.
LEMMA BlankPlaces ==
  ASSUME TypeOK, NEW u \in Uploads, NEW place, Go(u, place)
  PROVE  /\ pc'[u] = place /\ \A v \in Uploads \ {u} : pc'[v] = pc[v] /\ loc'[v] = loc[v]
         /\ loc'[u] = Blank
  BY DEF TypeOK, Go

----------------------------------------------------------------------------
(* The steps of the system, as the proofs below use them.                 *)

\* What the first step of an admission changes.
LEMMA AskMoves ==
  ASSUME TypeOK, NEW u \in Uploads, NEW n \in Sizes, Ask(u, n)
  PROVE  /\ pc[u] \in {"new", "announced", "held"} /\ pc'[u] = "generation"
         /\ loc'[u].ask = n /\ loc'[u].gen = 0
         /\ \A v \in Uploads \ {u} : pc'[v] = pc[v] /\ loc'[v] = loc[v]
         /\ mutation = None /\ usage' = Synced
         /\ UNCHANGED <<reservations, generation, stored, mutation, rows, bytes>>
<1> DEFINE l == [Blank EXCEPT !.ask = n]
<1>1. n \in Nat
  BY SizesAssumption
<1>2. l.ask = n /\ l.gen = 0
  BY <1>1, BlankTyped
<1>3. /\ pc[u] = "new" \/ pc[u] \in {"announced", "held"}
      /\ mutation = None /\ usage' = Synced
      /\ UNCHANGED <<reservations, generation, stored, mutation, rows, bytes>>
      /\ pc' = [pc EXCEPT ![u] = "generation"] /\ loc' = [loc EXCEPT ![u] = l]
  BY Zenon DEF Ask
<1>4. DOMAIN loc = Uploads /\ DOMAIN pc = Uploads
  BY DEF TypeOK
<1> HIDE DEF l
<1> QED BY <1>2, <1>3, <1>4

\* What an outdated snapshot leads to.
LEMMA StaleMoves ==
  ASSUME TypeOK, NEW u \in Uploads, Stale(u)
  PROVE  /\ pc[u] = "reserve" /\ pc'[u] \in {"generation", "ending"}
         /\ pc'[u] = "generation" => loc'[u].ask = loc[u].ask /\ loc'[u].gen = 0
         /\ \A v \in Uploads \ {u} : pc'[v] = pc[v] /\ loc'[v] = loc[v]
         /\ UNCHANGED <<reservations, generation, files>>
<1> DEFINE l == [Blank EXCEPT !.ask = loc[u].ask]
<1>1. loc[u].ask \in Nat
  BY DEF TypeOK, Locals
<1>2. l.ask = loc[u].ask /\ l.gen = 0
  BY <1>1, BlankTyped
<1>3. /\ pc[u] = "reserve" /\ UNCHANGED <<reservations, generation, files>>
      /\ \/ pc' = [pc EXCEPT ![u] = "generation"] /\ loc' = [loc EXCEPT ![u] = l]
         \/ Go(u, "ending")
  BY Zenon DEF Stale
<1>4. DOMAIN loc = Uploads /\ DOMAIN pc = Uploads
  BY DEF TypeOK
<1> HIDE DEF l
<1> QED BY <1>2, <1>3, <1>4 DEF Go

\* What the two reads of an admission change.
LEMMA ReadMoves ==
  ASSUME TypeOK, NEW u \in Uploads, ReadGeneration(u) \/ ReadDatabase(u)
  PROVE  /\ pc[u] \in {"generation", "snapshot"}
         /\ \/ /\ ReadGeneration(u) /\ pc'[u] = "snapshot" /\ loc'[u].gen = generation
               /\ pc[u] = "generation"
            \/ /\ ReadDatabase(u) /\ pc'[u] = "reserve" /\ loc'[u].gen = loc[u].gen
               /\ loc'[u].rows = rows /\ pc[u] = "snapshot"
         /\ loc'[u].ask = loc[u].ask
         /\ \A v \in Uploads \ {u} : pc'[v] = pc[v] /\ loc'[v] = loc[v]
         /\ UNCHANGED <<reservations, generation, files>>
<1>1. DOMAIN loc = Uploads /\ DOMAIN pc = Uploads /\ loc[u] \in Locals
  BY DEF TypeOK
<1>2. CASE ReadGeneration(u)
  BY <1>1, <1>2 DEF ReadGeneration, Locals
<1>3. CASE ReadDatabase(u)
  BY <1>1, <1>3 DEF ReadDatabase, Locals
<1> QED BY <1>2, <1>3

----------------------------------------------------------------------------
(* The other invariants.                                                  *)

\* Every step keeps WritesArePending.
LEMMA WritesStep ==
  ASSUME TypeOK, WritesArePending, [Next]_vars
  PROVE  WritesArePending'
<1>1. /\ DOMAIN pc = Uploads /\ None \notin Uploads /\ stored \subseteq Uploads
      /\ mutation \in Uploads \cup {None}
  BY UploadsAssumption DEF TypeOK, Uploads
<1>2. ASSUME NEW u \in Uploads, UNCHANGED <<stored, mutation>>,
             \A v \in Uploads \ {u} : pc'[v] = pc[v],
             pc[u] \in Written => pc'[u] \in Written, pc'[u] # "writing"
      PROVE  WritesArePending'
  BY <1>1, <1>2 DEF WritesArePending
<1>3. UNCHANGED <<stored, mutation, pc>> => WritesArePending'
  BY DEF WritesArePending
<1>4. ASSUME NEW u \in Uploads, NEW n \in Sizes, Ask(u, n) PROVE WritesArePending'
  BY <1>2, <1>4, AskMoves DEF Written
<1>5. ASSUME NEW u \in Uploads, ReadGeneration(u) \/ ReadDatabase(u) PROVE WritesArePending'
  <2>1. UNCHANGED <<stored, mutation>>
    BY <1>5, ReadMoves DEF files
  <2> QED BY <1>2, <1>5, <2>1, ReadMoves DEF Written
<1>6. ASSUME NEW u \in Uploads, Stale(u) PROVE WritesArePending'
  <2>1. UNCHANGED <<stored, mutation>>
    BY <1>6, StaleMoves DEF files
  <2> QED BY <1>2, <1>6, <2>1, StaleMoves DEF Written
<1>7. ASSUME NEW u \in Uploads, Granted(u) \/ Refused(u) PROVE WritesArePending'
  <2>1. /\ UNCHANGED <<stored, mutation>> /\ pc[u] = "reserve"
        /\ \E place \in {"held", "announced", "ending"} : Go(u, place)
    BY <1>7, Zenon DEF files, Granted, Refused
  <2> QED BY <1>2, <2>1, BlankPlaces DEF Written
<1>8. ASSUME NEW u \in Uploads, Lapse(u) PROVE WritesArePending'
  BY <1>3, <1>8 DEF Lapse, files
<1>9. ASSUME NEW u \in Uploads, Write(u) PROVE WritesArePending'
  <2>1. /\ mutation = None /\ mutation' = u /\ stored' = stored
        /\ pc'[u] = "writing" /\ \A v \in Uploads \ {u} : pc'[v] = pc[v]
    BY <1>9, BlankPlaces DEF Write
  <2> QED BY <1>1, <2>1 DEF WritesArePending, Written
<1>10. ASSUME NEW u \in Uploads, Commit(u) PROVE WritesArePending'
  <2>1. /\ pc[u] = "writing" /\ mutation' = None /\ stored' = stored
        /\ pc'[u] = "ending" /\ \A v \in Uploads \ {u} : pc'[v] = pc[v]
    BY <1>10, BlankPlaces DEF Commit
  <2> QED BY <1>1, <2>1 DEF WritesArePending, Written
<1>11. ASSUME NEW u \in Uploads, Fail(u) \/ End(u) PROVE WritesArePending'
  <2>1. /\ UNCHANGED <<stored, mutation>> /\ \E place \in {"ending", "done"} : Go(u, place)
    BY <1>11, Zenon DEF files, Fail, End
  <2> QED BY <1>2, <2>1, BlankPlaces DEF Written
<1>12. ASSUME NEW u \in Uploads, Promote(u) PROVE WritesArePending'
  <2>1. UNCHANGED <<stored, mutation>> /\ pc[u] = "held" /\ Go(u, "promoted")
    BY <1>12 DEF Promote
  <2> QED BY <1>2, <2>1, BlankPlaces DEF Written
<1>13. ASSUME NEW u \in Uploads, ReleasePromoted(u) PROVE WritesArePending'
  <2>1. UNCHANGED <<stored, mutation>> /\ (Go(u, "done") \/ UNCHANGED pc)
    BY <1>13 DEF ReleasePromoted, files
  <2> QED BY <1>2, <1>3, <2>1, BlankPlaces DEF Written
<1>14. ASSUME NEW u \in Uploads, Purge(u) PROVE WritesArePending'
  BY <1>3, <1>14 DEF Purge
<1>15. ASSUME Land PROVE WritesArePending'
  BY <1>1, <1>15 DEF Land, WritesArePending
<1>16. ASSUME Recover PROVE WritesArePending'
  BY <1>1, <1>16 DEF Recover, WritesArePending
<1>17. ASSUME Prune \/ UNCHANGED vars PROVE WritesArePending'
  BY <1>3, <1>17 DEF Prune, vars, files
<1> QED
  BY <1>4, <1>5, <1>6, <1>7, <1>8, <1>9, <1>10, <1>11, <1>12, <1>13, <1>14, <1>15, <1>16, <1>17
  DEF Next, Step

\* Every step keeps UsageIsExact: a commit adds the bytes that landed, a scan adds
\* up what is there.
LEMMA UsageStep ==
  ASSUME TypeOK, WritesArePending, UsageIsExact, [Next]_vars
  PROVE  UsageIsExact'
<1>1. /\ None \notin Uploads /\ stored \subseteq Uploads /\ mutation \in Uploads \cup {None}
      /\ bytes' = bytes /\ usage \in Nat \cup {None} /\ \A u \in Uploads : bytes[u] \in Nat
  BY UploadsAssumption, SizesAssumption, FilesStep DEF TypeOK, Uploads
<1>2. UsageIsExact' <=> (usage' # None => usage' = Bytes(stored' \ {mutation'}))
  BY <1>1 DEF UsageIsExact, Bytes
<1>3. /\ stored \ {None} = stored
      /\ mutation = None => Synced = Bytes(stored)
  BY <1>1 DEF Synced, UsageIsExact
<1>4. UNCHANGED <<usage, stored, mutation>> => UsageIsExact'
  BY <1>2 DEF UsageIsExact
<1>5. ASSUME NEW u \in Uploads, NEW n \in Sizes, Ask(u, n) PROVE UsageIsExact'
  BY <1>2, <1>3, <1>5, AskMoves
<1>6. ASSUME NEW u \in Uploads, Write(u) PROVE UsageIsExact'
  <2>1. /\ pc[u] = "held" /\ mutation = None /\ mutation' = u /\ usage' = Synced
        /\ stored' = stored
    BY <1>6 DEF Write
  <2>2. stored \ {u} = stored
    BY <2>1 DEF WritesArePending, Written
  <2> QED BY <1>2, <1>3, <2>1, <2>2
<1>7. ASSUME NEW u \in Uploads, Commit(u) PROVE UsageIsExact'
  <2>1. /\ mutation = u /\ u \in stored /\ mutation' = None /\ stored' = stored
        /\ usage' = IF usage = None THEN Bytes(stored) ELSE usage + bytes[u]
    BY <1>7 DEF Commit, WritesArePending
  <2>2. Bytes(stored) = bytes[u] + Bytes(stored \ {u})
    <3>1. IsFiniteSet(stored) /\ \A v \in stored : bytes[v] \in Nat
      BY <1>1, UploadsFinite
    <3> QED BY <2>1, <3>1, SumRemove DEF Bytes
  <2>3. Bytes(stored \ {u}) \in Nat /\ bytes[u] \in Nat
    BY <1>1, BytesType
  <2>4. stored' \ {mutation'} = stored
    BY <1>3, <2>1
  <2>5. usage' = Bytes(stored)
    BY <2>1, <2>2, <2>3 DEF UsageIsExact
  <2> QED BY <1>2, <2>4, <2>5
<1>8. ASSUME Land PROVE UsageIsExact'
  <2>1. usage' = usage /\ stored' \ {mutation'} = stored \ {mutation}
    BY <1>8 DEF Land
  <2> QED BY <1>2, <2>1 DEF UsageIsExact
<1>9. ASSUME Recover PROVE UsageIsExact'
  BY <1>2, <1>3, <1>9 DEF Recover
<1>10. ASSUME Prune PROVE UsageIsExact'
  BY <1>2, <1>10 DEF Prune
<1>11. ASSUME NEW u \in Uploads, Step(u)
       PROVE  \/ UNCHANGED <<usage, stored, mutation>> \/ \E n \in Sizes : Ask(u, n)
              \/ Write(u) \/ Commit(u)
  BY <1>11 DEF Step, ReadGeneration, ReadDatabase, Granted, Refused, Stale, Lapse, Fail, End,
               Promote, ReleasePromoted, Purge, files
<1>12. UNCHANGED vars => UNCHANGED <<usage, stored, mutation>>
  BY DEF vars, files
<1> QED BY <1>4, <1>5, <1>6, <1>7, <1>8, <1>9, <1>10, <1>11, <1>12 DEF Next

\* The admission of one upload leaves the reservation of a text edit that waits
\* for approval, or was approved, alone.
LEMMA SweepSpares ==
  ASSUME TypeOK, HeldIsReserved, NEW u \in Uploads, Granted(u) \/ Refused(u)
  PROVE  /\ pc[u] = "reserve" /\ Fenced(u) /\ lapsed' \subseteq lapsed
         /\ UNCHANGED <<generation, files>>
         /\ \A v \in Uploads \ {u} : pc'[v] = pc[v] /\ loc'[v] = loc[v]
         /\ \A v \in LegacyUploads \ {u} :
              pc[v] \in {"held", "promoted"} => sizes'[v] = sizes[v]
         /\ pc'[u] \in {"held", "announced", "ending"}
         /\ pc'[u] = "held" => sizes'[u] = bytes[u] /\ u \notin lapsed'
<1>1. /\ DOMAIN sizes = Uploads /\ LegacyUploads \subseteq Uploads
      /\ Expired(u) \subseteq lapsed
  BY DEF TypeOK, Uploads, Expired
<1>2. \A v \in LegacyUploads :
        pc[v] \in {"held", "promoted"} => SweptSizes(u)[v] = sizes[v]
  BY <1>1 DEF HeldIsReserved, SweptSizes
<1>3. DOMAIN SweptSizes(u) = Uploads
  BY DEF SweptSizes
<1>4. CASE Granted(u)
  <2>1. /\ pc[u] = "reserve" /\ Fenced(u) /\ UNCHANGED <<generation, files>>
        /\ sizes' = [SweptSizes(u) EXCEPT ![u] = loc[u].ask]
        /\ lapsed' \subseteq lapsed /\ u \notin lapsed'
        /\ Go(u, IF loc[u].ask = bytes[u] THEN "held" ELSE "announced")
    BY <1>4 DEF Granted
  <2>2. /\ sizes'[u] = loc[u].ask
        /\ \A v \in LegacyUploads \ {u} :
             pc[v] \in {"held", "promoted"} => sizes'[v] = sizes[v]
    BY <1>1, <1>2, <1>3, <2>1
  <2>3. /\ pc'[u] = IF loc[u].ask = bytes[u] THEN "held" ELSE "announced"
        /\ \A v \in Uploads \ {u} : pc'[v] = pc[v] /\ loc'[v] = loc[v]
    BY <2>1, BlankPlaces
  <2> QED BY <2>1, <2>2, <2>3
<1>5. CASE Refused(u)
  <2>1. /\ pc[u] = "reserve" /\ Fenced(u) /\ UNCHANGED <<generation, files>>
        /\ sizes' = SweptSizes(u) /\ lapsed' \subseteq lapsed /\ Go(u, "ending")
    BY <1>5 DEF Refused
  <2> QED BY <1>2, <2>1, BlankPlaces
<1> QED BY <1>4, <1>5

\* A release touches the reservation of its own upload only.
LEMMA ReleaseSpares ==
  ASSUME TypeOK, NEW u \in Uploads, Release(u)
  PROVE  lapsed' \subseteq lapsed /\ \A v \in Uploads \ {u} : sizes'[v] = sizes[v]
  BY DEF TypeOK, Release

\* Every step keeps HeldIsReserved.
LEMMA HeldStep ==
  ASSUME TypeOK, HeldIsReserved, [Next]_vars
  PROVE  HeldIsReserved'
<1>1. /\ LegacyUploads \subseteq Uploads /\ bytes' = bytes /\ CasUploads \cap LegacyUploads = {}
      /\ DOMAIN pc = Uploads
  BY UploadsAssumption, FilesStep DEF TypeOK, Uploads
<1>2. HeldIsReserved' <=>
        \A v \in LegacyUploads : pc'[v] \in {"held", "promoted"} =>
          v \notin lapsed' /\ (pc'[v] = "held" => sizes'[v] = bytes[v])
  BY <1>1 DEF HeldIsReserved
<1>3. ASSUME NEW u \in Uploads, UNCHANGED <<sizes, lapsed>>,
             \A v \in Uploads \ {u} : pc'[v] = pc[v],
             \/ pc'[u] \notin {"held", "promoted"}
             \/ u \notin LegacyUploads
             \/ (pc[u] = "held" /\ pc'[u] = "promoted")
      PROVE  HeldIsReserved'
  BY <1>1, <1>2, <1>3 DEF HeldIsReserved
<1>4. UNCHANGED <<sizes, lapsed, pc>> => HeldIsReserved'
  BY <1>2 DEF HeldIsReserved
<1>5. ASSUME NEW u \in Uploads, NEW n \in Sizes, Ask(u, n) PROVE HeldIsReserved'
  <2>1. UNCHANGED <<sizes, lapsed>>
    BY <1>5, AskMoves DEF reservations
  <2> QED BY <1>3, <1>5, <2>1, AskMoves
<1>6. ASSUME NEW u \in Uploads, ReadGeneration(u) \/ ReadDatabase(u) PROVE HeldIsReserved'
  <2>1. UNCHANGED <<sizes, lapsed>>
    BY <1>6, ReadMoves DEF reservations
  <2> QED BY <1>3, <1>6, <2>1, ReadMoves
<1>7. ASSUME NEW u \in Uploads, Stale(u) PROVE HeldIsReserved'
  <2>1. UNCHANGED <<sizes, lapsed>>
    BY <1>7, StaleMoves DEF reservations
  <2> QED BY <1>3, <1>7, <2>1, StaleMoves
<1>8. ASSUME NEW u \in Uploads, Granted(u) \/ Refused(u) PROVE HeldIsReserved'
  <2>1. ASSUME NEW v \in LegacyUploads, pc'[v] \in {"held", "promoted"}
        PROVE  v \notin lapsed' /\ (pc'[v] = "held" => sizes'[v] = bytes[v])
    <3>1. CASE v = u
      BY <1>8, <2>1, <3>1, SweepSpares
    <3>2. CASE v # u
      <4>1. v \in Uploads \ {u} /\ v \in LegacyUploads \ {u}
        BY <1>1, <3>2
      <4>2. pc'[v] = pc[v] /\ sizes'[v] = sizes[v] /\ lapsed' \subseteq lapsed
        BY <1>8, <2>1, <4>1, SweepSpares
      <4> QED BY <2>1, <4>2 DEF HeldIsReserved
    <3> QED BY <3>1, <3>2
  <2> QED BY <1>2, <2>1
<1>9. ASSUME NEW u \in Uploads, Lapse(u) PROVE HeldIsReserved'
  BY <1>2, <1>9 DEF Lapse, HeldIsReserved
<1>10. ASSUME NEW u \in Uploads, Write(u) \/ Commit(u) PROVE HeldIsReserved'
  <2>1. /\ UNCHANGED <<sizes, lapsed>>
        /\ \E place \in {"writing", "ending"} : Go(u, place)
    BY <1>10, Zenon DEF Write, Commit, reservations
  <2> QED BY <1>3, <2>1, BlankPlaces
<1>11. ASSUME NEW u \in Uploads, Fail(u) PROVE HeldIsReserved'
  <2>1. UNCHANGED <<sizes, lapsed>> /\ Go(u, "ending")
    BY <1>11 DEF Fail, reservations
  <2> QED BY <1>3, <2>1, BlankPlaces
<1>12. ASSUME NEW u \in Uploads, Promote(u) PROVE HeldIsReserved'
  <2>1. UNCHANGED <<sizes, lapsed>> /\ pc[u] = "held" /\ Go(u, "promoted")
    BY <1>12 DEF Promote, reservations
  <2> QED BY <1>3, <2>1, BlankPlaces
<1>13. ASSUME NEW u \in Uploads, Release(u),
              Go(u, "done") \/ (UNCHANGED pc /\ pc[u] = "promoted")
       PROVE  HeldIsReserved'
  <2>1. /\ lapsed' \subseteq lapsed /\ \A v \in Uploads \ {u} : sizes'[v] = sizes[v]
    BY <1>13, ReleaseSpares
  <2>2. \/ pc'[u] = "done" /\ \A v \in Uploads \ {u} : pc'[v] = pc[v]
        \/ (pc' = pc /\ pc[u] = "promoted")
    BY <1>13, BlankPlaces
  <2> QED BY <1>1, <1>2, <2>1, <2>2 DEF HeldIsReserved
<1>14. ASSUME NEW u \in Uploads, End(u) PROVE HeldIsReserved'
  <2>1. Go(u, "done") /\ (Release(u) \/ UNCHANGED <<sizes, lapsed>>)
    BY <1>14 DEF End, reservations
  <2>2. CASE Release(u)
    BY <2>1, <2>2, <1>13
  <2>3. CASE UNCHANGED <<sizes, lapsed>>
    BY <2>1, <2>3, <1>3, BlankPlaces
  <2> QED BY <2>1, <2>2, <2>3
<1>15. ASSUME NEW u \in Uploads, ReleasePromoted(u) PROVE HeldIsReserved'
  BY <1>13, <1>15 DEF ReleasePromoted
<1>16. ASSUME NEW u \in Uploads, Purge(u) PROVE HeldIsReserved'
  BY <1>4, <1>16 DEF Purge, reservations
<1>17. Land \/ Recover \/ Prune \/ UNCHANGED vars => HeldIsReserved'
  BY <1>4 DEF Land, Recover, Prune, vars, reservations
<1> QED
  BY <1>5, <1>6, <1>7, <1>8, <1>9, <1>10, <1>11, <1>12, <1>14, <1>15, <1>16, <1>17
  DEF Next, Step

\* Every step keeps the sizes asked for and the generations read in range.
LEMMA AsksStep ==
  ASSUME TypeOK, AsksAreSizes, GenerationsAreRead, [Next]_vars
  PROVE  AsksAreSizes' /\ GenerationsAreRead'
<1> DEFINE P(u) == pc'[u] \in Asking =>
                      loc'[u].ask \in Sizes /\ loc'[u].gen <= generation'
<1>1. generation \in Nat /\ generation' \in Nat /\ generation <= generation'
      /\ \A u \in Uploads : loc[u].gen \in Nat
  <2>1. generation \in Nat /\ generation' \in Nat /\ \A u \in Uploads : loc[u].gen \in Nat
    BY FilesStep DEF TypeOK, Locals
  <2>2. generation' = generation \/ \E u \in Uploads : ReleasePromoted(u)
    <3>1. ASSUME NEW u \in Uploads, NEW n \in Sizes, Ask(u, n) PROVE generation' = generation
      BY <3>1, AskMoves
    <3> QED
      BY <3>1 DEF Next, Step, ReadGeneration, ReadDatabase, Granted, Refused, Stale, Lapse,
         Write, Commit, Fail, End, Promote, Purge, Land, Recover, Prune, vars
  <2> QED BY <2>1, <2>2 DEF ReleasePromoted
<1>2. (\A u \in Uploads : P(u)) => AsksAreSizes' /\ GenerationsAreRead'
  BY DEF AsksAreSizes, GenerationsAreRead
<1>3. ASSUME NEW u \in Uploads, pc'[u] = pc[u], loc'[u] = loc[u] PROVE P(u)
  BY <1>1, <1>3 DEF AsksAreSizes, GenerationsAreRead
<1> HIDE DEF P
<1>4. ASSUME NEW u \in Uploads, P(u),
             \A v \in Uploads \ {u} : pc'[v] = pc[v] /\ loc'[v] = loc[v]
      PROVE  AsksAreSizes' /\ GenerationsAreRead'
  BY <1>2, <1>3, <1>4
<1>5. ASSUME NEW u \in Uploads, NEW n \in Sizes, Ask(u, n)
      PROVE  AsksAreSizes' /\ GenerationsAreRead'
  <2>1. P(u)
    BY <1>1, <1>5, AskMoves DEF P
  <2> QED BY <1>4, <1>5, <2>1, AskMoves
<1>6. ASSUME NEW u \in Uploads, ReadGeneration(u) \/ ReadDatabase(u)
      PROVE  AsksAreSizes' /\ GenerationsAreRead'
  <2>1. P(u)
    BY <1>1, <1>6, ReadMoves DEF P, Asking, AsksAreSizes, GenerationsAreRead
  <2> QED BY <1>4, <1>6, <2>1, ReadMoves
<1>7. ASSUME NEW u \in Uploads, Stale(u)
      PROVE  AsksAreSizes' /\ GenerationsAreRead'
  <2>1. P(u)
    BY <1>1, <1>7, StaleMoves DEF P, Asking, AsksAreSizes
  <2> QED BY <1>4, <1>7, <2>1, StaleMoves
<1>8. ASSUME NEW u \in Uploads, NEW place \in Places \ Asking, Go(u, place)
      PROVE  AsksAreSizes' /\ GenerationsAreRead'
  <2>1. P(u)
    BY <1>8, BlankPlaces DEF P
  <2> QED BY <1>4, <1>8, <2>1, BlankPlaces
<1>9. UNCHANGED <<pc, loc>> => AsksAreSizes' /\ GenerationsAreRead'
  BY <1>2, <1>3
<1>10. ASSUME NEW u \in Uploads, Step(u)
       PROVE  \/ UNCHANGED <<pc, loc>> \/ \E place \in Places \ Asking : Go(u, place)
              \/ \E n \in Sizes : Ask(u, n)
              \/ ReadGeneration(u) \/ ReadDatabase(u) \/ Stale(u)
  <2>1. {"announced", "held", "writing", "promoted", "ending", "done"} \subseteq Places \ Asking
    BY DEF Places, Asking
  <2>2. \/ UNCHANGED <<pc, loc>> \/ \E n \in Sizes : Ask(u, n)
        \/ ReadGeneration(u) \/ ReadDatabase(u) \/ Stale(u)
        \/ Go(u, "held") \/ Go(u, "announced") \/ Go(u, "writing") \/ Go(u, "promoted")
        \/ Go(u, "ending") \/ Go(u, "done")
    BY <1>10, Zenon DEF Step, Granted, Refused, Lapse, Write, Commit, Fail, End, Promote,
                ReleasePromoted, Purge
  <2> QED BY <2>1, <2>2
<1>11. Land \/ Recover \/ Prune \/ UNCHANGED vars => UNCHANGED <<pc, loc>>
  BY DEF Land, Recover, Prune, vars
<1> QED BY <1>5, <1>6, <1>7, <1>8, <1>9, <1>10, <1>11 DEF Next

\* Every step keeps SnapshotsAreFenced: the row is written before the reservation
\* is released, and the release moves the generation on.
LEMMA FencedStep ==
  ASSUME TypeOK, HeldIsReserved, GenerationsAreRead, SnapshotsAreFenced, [Next]_vars
  PROVE  SnapshotsAreFenced'
<1> DEFINE Covered(u, v) == sizes[v] = bytes[v] /\ pc[v] = "promoted"
           After(u) == pc'[u] = "reserve" /\ loc'[u].gen = generation' =>
                         \A v \in rows' \ loc'[u].rows : sizes'[v] = bytes[v] /\ pc'[v] = "promoted"
<1>1. /\ bytes' = bytes /\ rows \subseteq LegacyUploads /\ LegacyUploads \subseteq Uploads
      /\ DOMAIN pc = Uploads
  BY FilesStep DEF TypeOK, Uploads
<1>2. (\A u \in Uploads : After(u)) => SnapshotsAreFenced'
  BY <1>1 DEF SnapshotsAreFenced, Fenced
<1>3. \A u \in Uploads : pc[u] = "reserve" /\ loc[u].gen = generation =>
        \A v \in rows \ loc[u].rows : sizes[v] = bytes[v] /\ pc[v] = "promoted"
  BY DEF SnapshotsAreFenced, Fenced
<1>4. ASSUME NEW u \in Uploads, generation' = generation, rows' \subseteq rows,
             \A v \in Uploads \ {u} : pc'[v] = pc[v] /\ loc'[v] = loc[v],
             \A v \in LegacyUploads \ {u} : pc[v] = "promoted" => sizes'[v] = sizes[v],
             pc[u] # "promoted", pc'[u] # "reserve" \/ rows' = loc'[u].rows
      PROVE  SnapshotsAreFenced'
  <2>1. ASSUME NEW w \in Uploads PROVE After(w)
    <3>1. CASE w = u
      BY <1>4, <3>1
    <3>2. CASE w # u
      <4> SUFFICES ASSUME pc'[w] = "reserve", loc'[w].gen = generation',
                          NEW v \in rows' \ loc'[w].rows
                   PROVE  sizes'[v] = bytes[v] /\ pc'[v] = "promoted"
        OBVIOUS
      <4>1. pc[w] = "reserve" /\ loc[w].gen = generation /\ v \in rows \ loc[w].rows
        BY <1>4, <3>2
      <4>2. sizes[v] = bytes[v] /\ pc[v] = "promoted"
        BY <1>3, <4>1
      <4>3. v # u /\ v \in LegacyUploads
        BY <1>1, <1>4, <4>1, <4>2
      <4> QED BY <1>1, <1>4, <4>2, <4>3
    <3> QED BY <3>1, <3>2
  <2> HIDE DEF After
  <2> QED BY <1>2, <2>1
<1>5. ASSUME UNCHANGED <<generation, rows, pc, loc, sizes>> PROVE SnapshotsAreFenced'
  <2>1. \A u \in Uploads : After(u)
    BY <1>3, <1>5
  <2> HIDE DEF After
  <2> QED BY <1>2, <2>1
<1>6. ASSUME NEW u \in Uploads, NEW n \in Sizes, Ask(u, n) PROVE SnapshotsAreFenced'
  <2>1. UNCHANGED <<sizes, generation, rows>>
    BY <1>6, AskMoves DEF reservations
  <2> QED BY <1>4, <1>6, <2>1, AskMoves
<1>7. ASSUME NEW u \in Uploads, ReadGeneration(u) \/ ReadDatabase(u) PROVE SnapshotsAreFenced'
  <2>1. UNCHANGED <<sizes, generation, rows>>
    BY <1>7, ReadMoves DEF reservations, files
  <2> QED BY <1>4, <1>7, <2>1, ReadMoves
<1>8. ASSUME NEW u \in Uploads, Stale(u) PROVE SnapshotsAreFenced'
  <2>1. UNCHANGED <<sizes, generation, rows>>
    BY <1>8, StaleMoves DEF reservations, files
  <2> QED BY <1>4, <1>8, <2>1, StaleMoves
<1>9. ASSUME NEW u \in Uploads, Granted(u) \/ Refused(u) PROVE SnapshotsAreFenced'
  <2>1. UNCHANGED <<generation, rows>>
    BY <1>9, SweepSpares DEF files
  <2> QED BY <1>4, <1>9, <2>1, SweepSpares
<1>10. ASSUME NEW u \in Uploads, Lapse(u) PROVE SnapshotsAreFenced'
  BY <1>5, <1>10 DEF Lapse, files
<1>11. ASSUME NEW u \in Uploads, Write(u) \/ Commit(u) \/ Fail(u) PROVE SnapshotsAreFenced'
  <2>1. /\ UNCHANGED <<sizes, generation, rows>> /\ pc[u] # "promoted"
        /\ Go(u, "writing") \/ Go(u, "ending")
    BY <1>11, Zenon DEF Write, Commit, Fail, reservations, files
  <2> QED BY <1>4, <2>1, BlankPlaces
<1>12. ASSUME NEW u \in Uploads, End(u) PROVE SnapshotsAreFenced'
  <2>1. /\ UNCHANGED <<generation, rows>> /\ pc[u] = "ending" /\ Go(u, "done")
        /\ Release(u) \/ UNCHANGED sizes
    BY <1>12 DEF End, reservations, files
  <2>2. \A v \in LegacyUploads \ {u} : sizes'[v] = sizes[v]
    BY <1>1, <2>1, ReleaseSpares
  <2> QED BY <1>4, <2>1, <2>2, BlankPlaces
<1>13. ASSUME NEW u \in Uploads, Promote(u) PROVE SnapshotsAreFenced'
  <2>1. /\ UNCHANGED <<sizes, generation>> /\ u \in LegacyUploads /\ pc[u] = "held"
        /\ rows' = rows \cup {u} /\ Go(u, "promoted")
    BY <1>13 DEF Promote, reservations
  <2>2. sizes'[u] = bytes[u] /\ pc'[u] = "promoted"
        /\ \A v \in Uploads \ {u} : pc'[v] = pc[v] /\ loc'[v] = loc[v]
    BY <2>1, BlankPlaces DEF HeldIsReserved
  <2>3. ASSUME NEW w \in Uploads PROVE After(w)
    BY <1>1, <1>3, <2>1, <2>2
  <2> HIDE DEF After
  <2> QED BY <1>2, <2>3
<1>14. ASSUME NEW u \in Uploads, ReleasePromoted(u) PROVE SnapshotsAreFenced'
  <2>1. /\ generation' = generation + 1
        /\ Go(u, "done") \/ UNCHANGED <<pc, loc>>
    BY <1>14 DEF ReleasePromoted
  <2>2. generation \in Nat /\ \A w \in Uploads : loc[w].gen \in Nat
    BY DEF TypeOK, Locals
  <2>3. ASSUME NEW w \in Uploads, pc'[w] = "reserve" PROVE pc[w] = "reserve" /\ loc'[w] = loc[w]
    BY <2>1, <2>3, BlankPlaces
  <2>4. ASSUME NEW w \in Uploads PROVE After(w)
    BY <2>1, <2>2, <2>3 DEF GenerationsAreRead, Asking
  <2> HIDE DEF After
  <2> QED BY <1>2, <2>4
<1>15. ASSUME NEW u \in Uploads, Purge(u) PROVE SnapshotsAreFenced'
  <2>1. /\ pc[u] = "done" /\ rows' \subseteq rows /\ UNCHANGED <<generation, sizes, pc, loc>>
    BY <1>15 DEF Purge, reservations
  <2> QED BY <1>4, <2>1
<1>16. Land \/ Recover \/ Prune \/ UNCHANGED vars => SnapshotsAreFenced'
  BY <1>5 DEF Land, Recover, Prune, vars, reservations, files
<1> QED
  BY <1>6, <1>7, <1>8, <1>9, <1>10, <1>11, <1>12, <1>13, <1>14, <1>15, <1>16 DEF Next, Step

----------------------------------------------------------------------------
(* Theorems.                                                              *)

\* The induction hypothesis: the properties a run checks, and what they need.
Inv ==
    /\ TypeOK /\ TotalIsSum /\ SnapshotsAreFenced
    /\ WritesArePending /\ UsageIsExact /\ HeldIsReserved
    /\ AsksAreSizes /\ GenerationsAreRead

\* The induction hypothesis holds at the start.
LEMMA InitInv == Init => Inv
<1> SUFFICES ASSUME Init PROVE Inv
  OBVIOUS
<1>1. /\ usage = None /\ stored = {} /\ mutation = None /\ rows = {} /\ total = 0
      /\ lapsed = {} /\ generation = 0 /\ bytes \in [Uploads -> Sizes]
      /\ sizes = [u \in Uploads |-> 0] /\ pc = [u \in Uploads |-> "new"]
      /\ loc = [u \in Uploads |-> Blank]
  BY DEF Init
<1>2. TypeOK
  BY <1>1, BlankTyped DEF TypeOK, Places
<1>3. TotalIsSum
  <2>1. \A u \in Uploads : sizes[u] = 0
    BY <1>1
  <2> QED BY <1>1, <2>1, UploadsFinite, SumOfZeros DEF TotalIsSum
<1>4. \A u \in Uploads : pc[u] = "new"
  BY <1>1
<1>5. SnapshotsAreFenced /\ WritesArePending /\ UsageIsExact /\ HeldIsReserved
  BY <1>1, <1>4 DEF SnapshotsAreFenced, WritesArePending, UsageIsExact, HeldIsReserved, Uploads
<1>6. AsksAreSizes /\ GenerationsAreRead
  BY <1>4 DEF AsksAreSizes, GenerationsAreRead, Asking
<1> QED BY <1>2, <1>3, <1>5, <1>6 DEF Inv

\* Every step keeps the induction hypothesis.
LEMMA StepInv == Inv /\ [Next]_vars => Inv'
  BY TypeStep, WritesStep, UsageStep, HeldStep, AsksStep, FencedStep DEF Inv

\* The state of the admission is always well typed; in particular the cached total
\* of the reservations never becomes negative (storage_release.lua).
THEOREM TypeCorrect == Spec => []TypeOK
<1>1. Inv => TypeOK
  BY DEF Inv
<1> QED BY InitInv, StepInv, <1>1, PTL DEF Spec

\* The cached total of the reservations is their sum in every reachable state,
\* whatever was swept, replaced or released twice.
THEOREM TotalIsTheSum == Spec => []TotalIsSum
<1>1. Inv => TotalIsSum
  BY DEF Inv
<1> QED BY InitInv, StepInv, <1>1, PTL DEF Spec

\* A database snapshot that storage_reserve.lua would still accept misses no
\* promoted file whose reservation has been released, for any number of uploads.
THEOREM SnapshotsStayFenced == Spec => []SnapshotsAreFenced
<1>1. Inv => SnapshotsAreFenced
  BY DEF Inv
<1> QED BY InitInv, StepInv, <1>1, PTL DEF Spec

\* The three numbers an admission adds up, against what is stored or promised
\* after it.  The files of the pool and the legacy files are disjoint; a legacy
\* file the snapshot misses is still reserved, because the snapshot is fenced, so
\* it is counted once, among the reservations.
LEMMA GrantFits ==
  ASSUME Inv, NEW u \in Uploads, Granted(u), Clean
  PROVE  Footprint' <= Capacity
<1> DEFINE f == [SweptSizes(u) EXCEPT ![u] = loc[u].ask]
           seen == loc[u].rows
           kept == stored \cup rows
<1>1. /\ TypeOK /\ TotalIsSum /\ SnapshotsAreFenced /\ UsageIsExact /\ HeldIsReserved
      /\ None \notin Uploads /\ CasUploads \cap LegacyUploads = {} /\ Capacity \in Nat
  BY UploadsAssumption, SizesAssumption DEF Inv
<1>2. /\ stored \subseteq CasUploads /\ rows \subseteq LegacyUploads
      /\ seen \subseteq LegacyUploads /\ seen \subseteq Uploads /\ kept \subseteq Uploads
      /\ stored \subseteq Uploads /\ rows \subseteq Uploads
      /\ \A v \in Uploads : bytes[v] \in Nat
  BY <1>1, SizesAssumption DEF TypeOK, Locals, Uploads
<1>3. usage = Bytes(stored) /\ usage # None
  <2>1. stored \ {None} = stored
    BY <1>1, <1>2
  <2> QED BY <1>1, <2>1 DEF Clean, UsageIsExact
<1>4. /\ f \in [Uploads -> Nat] /\ NextTotal(u) = SumFunctionOnSet(f, Uploads)
      /\ sizes' = f
  BY <1>1, GrantIsSum DEF Granted
<1> HIDE DEF f
<1>5. usage + Bytes(seen) + NextTotal(u) <= Capacity
  BY <1>3 DEF Granted, Demand
<1>6. Footprint' = Bytes(kept) + SumFunctionOnSet(f, Uploads \ kept)
  <2>1. stored' = stored /\ rows' = rows /\ bytes' = bytes
    BY DEF Granted, files
  <2> QED BY <1>4, <2>1 DEF Footprint, Bytes
<1>7. Bytes(kept) = Bytes(stored) + Bytes(rows)
  <2>1. kept \ stored = rows
    BY <1>1, <1>2
  <2>2. IsFiniteSet(kept) /\ (\A v \in kept : bytes[v] \in Nat) /\ stored \in SUBSET kept
    BY <1>2, UploadsFinite
  <2>3. SumFunctionOnSet(bytes, kept)
          = SumFunctionOnSet(bytes, stored) + SumFunctionOnSet(bytes, kept \ stored)
    BY <2>2, SumUnion
  <2> QED BY <2>1, <2>3 DEF Bytes
<1>8. Bytes(rows) = Bytes(rows \cap seen) + Bytes(rows \ seen)
  <2>1. rows \ (rows \cap seen) = rows \ seen
    OBVIOUS
  <2>2. IsFiniteSet(rows) /\ (\A v \in rows : bytes[v] \in Nat) /\ rows \cap seen \in SUBSET rows
    BY <1>2, UploadsFinite
  <2>3. SumFunctionOnSet(bytes, rows)
          = SumFunctionOnSet(bytes, rows \cap seen)
              + SumFunctionOnSet(bytes, rows \ (rows \cap seen))
    BY <2>2, SumUnion
  <2> QED BY <2>1, <2>3 DEF Bytes
<1>9. Bytes(rows \cap seen) <= Bytes(seen)
  <2>1. IsFiniteSet(seen) /\ (\A v \in seen : bytes[v] \in Nat) /\ rows \cap seen \in SUBSET seen
    BY <1>2, UploadsFinite
  <2> QED BY <2>1, SumOfPart DEF Bytes
<1>10. Bytes(rows \ seen) = SumFunctionOnSet(f, rows \ seen)
  <2>1. \A v \in rows \ seen : f[v] = bytes[v]
    <3> SUFFICES ASSUME NEW v \in rows \ seen PROVE f[v] = bytes[v]
      OBVIOUS
    <3>1. pc[u] = "reserve" /\ Fenced(u)
      BY DEF Granted
    <3>2. sizes[v] = bytes[v] /\ pc[v] = "promoted"
      BY <1>1, <3>1 DEF SnapshotsAreFenced
    <3>3. v \in LegacyUploads \ {u}
      BY <1>2, <3>1, <3>2
    <3>4. sizes'[v] = sizes[v]
      BY <1>1, <3>2, <3>3, SweepSpares
    <3> QED BY <1>4, <3>2, <3>4
  <2>2. IsFiniteSet(rows \ seen)
    BY <1>2, UploadsFinite
  <2> QED BY <2>1, <2>2, SumAgree DEF Bytes
<1>11. SumFunctionOnSet(f, rows \ seen) <= SumFunctionOnSet(f, kept)
  <2>1. IsFiniteSet(kept) /\ (\A v \in kept : f[v] \in Nat) /\ rows \ seen \in SUBSET kept
    BY <1>2, <1>4, UploadsFinite
  <2> QED BY <2>1, SumOfPart
<1>12. NextTotal(u) = SumFunctionOnSet(f, kept) + SumFunctionOnSet(f, Uploads \ kept)
  <2>1. (\A v \in Uploads : f[v] \in Nat) /\ kept \in SUBSET Uploads
    BY <1>2, <1>4
  <2> HIDE DEF kept
  <2> QED BY <1>4, <2>1, UploadsFinite, SumUnion
<1>13. /\ SumFunctionOnSet(f, kept) \in Nat
        /\ SumFunctionOnSet(f, Uploads \ kept) \in Nat
       /\ SumFunctionOnSet(f, rows \ seen) \in Nat
  <2>1. /\ IsFiniteSet(kept) /\ IsFiniteSet(Uploads \ kept) /\ IsFiniteSet(rows \ seen)
        /\ \A v \in kept \cup (Uploads \ kept) \cup (rows \ seen) : f[v] \in Nat
    BY <1>2, <1>4, UploadsFinite
  <2> HIDE DEF kept, seen
  <2> QED BY <2>1, SumType
<1>14. /\ Bytes(stored) \in Nat /\ Bytes(rows) \in Nat /\ Bytes(seen) \in Nat
       /\ Bytes(rows \cap seen) \in Nat /\ Bytes(rows \ seen) \in Nat /\ Bytes(kept) \in Nat
  <2>1. /\ rows \cap seen \in SUBSET Uploads /\ rows \ seen \in SUBSET Uploads
        /\ kept \in SUBSET Uploads /\ seen \in SUBSET Uploads
    BY <1>2
  <2> HIDE DEF kept, seen
  <2> QED BY <1>1, <1>2, <2>1, BytesType
<1> HIDE DEF kept, seen
<1>15. Bytes(kept) + SumFunctionOnSet(f, Uploads \ kept)
         <= usage + Bytes(seen) + NextTotal(u)
  BY <1>3, <1>7, <1>8, <1>9, <1>10, <1>11, <1>12, <1>13, <1>14
<1>16. usage \in Nat /\ NextTotal(u) \in Nat
  BY <1>3, <1>12, <1>13, <1>14
<1> QED BY <1>1, <1>5, <1>6, <1>13, <1>14, <1>15, <1>16

\* No admission decided while the cached total is clean lets the bytes stored or
\* promised exceed the capacity, for any number of uploads, sizes and capacity.
THEOREM CleanAdmissionsFit == Spec => CleanGrantsFit
<1>1. Inv /\ [Next]_vars => [\A u \in Uploads : Granted(u) /\ Clean => Footprint' <= Capacity]_vars
  BY GrantFits
<1> QED BY InitInv, StepInv, <1>1, PTL DEF Spec, CleanGrantsFit
=============================================================================
