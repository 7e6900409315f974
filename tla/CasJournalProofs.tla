-------------------------- MODULE CasJournalProofs --------------------------
(***************************************************************************)
(* Proofs about CasJournal, for any number of actors, keys, mutations and  *)
(* failures, and for any durations that satisfy TimeAssumption.  The first *)
(* part proves the types, the second that every request that can still     *)
(* change the store is covered by a durable intent nobody may recover yet, *)
(* the third what the store holds and what a listing of it shows, the      *)
(* fourth that a clean total is the content of the store, and the last     *)
(* that totals are sums and never negative.                                *)
(***************************************************************************)
EXTENDS CasJournal, SumTheorems

(* Types of the building blocks.                                           *)
LEMMA BlankType == Blank \in Locals
BY DataAssumption DEF Blank, Locals, Jobs

LEMMA IntentsUpdate ==
    ASSUME NEW d \in Journal, NEW rest \in SUBSET Intent, NEW e \in Nat, NEW b \in {0, 1}
    PROVE  /\ [d EXCEPT !.intents = rest, !.epoch = e, !.dirty = b] \in Journal
           /\ [d EXCEPT !.epoch = e, !.dirty = b, !.intents = rest] \in Journal
BY DEF Journal

LEMMA UsageUpdate ==
    ASSUME NEW d \in Journal, NEW g \in Nat, NEW u \in Int
    PROVE  /\ [d EXCEPT !.usage = u, !.gen = g] \in Journal
           /\ [d EXCEPT !.usage = u, !.dirty = 0] \in Journal
           /\ [d EXCEPT !.usage = None] \in Journal
BY DEF Journal

LEMMA JournalFields ==
    ASSUME NEW d \in Journal
    PROVE  /\ d.intents \in SUBSET Intent /\ d.dirty \in {0, 1}
           /\ d.epoch \in Nat /\ d.epoch + 1 \in Nat
           /\ d.gen \in Nat /\ d.gen + 1 \in Nat
           /\ d.usage \in Int \cup {None}
BY DEF Journal

LEMMA RetireType ==
    ASSUME NEW d \in Journal, NEW m
    PROVE  Retire(d, m) \in Journal /\ Retire(d, m).usage = d.usage
                                    /\ Retire(d, m).gen = d.gen
<1>. DEFINE rest == {i \in d.intents : i.mid # m}
            e == d.epoch + 1
            b == IF rest = {} THEN 0 ELSE d.dirty
<1>1. rest \in SUBSET Intent /\ e \in Nat /\ b \in {0, 1}
  BY JournalFields
<1>2. Retire(d, m) = [d EXCEPT !.intents = rest, !.epoch = e, !.dirty = b]
  BY Zenon DEF Retire
<1>. HIDE DEF rest, e, b
<1>3. [d EXCEPT !.intents = rest, !.epoch = e, !.dirty = b] \in Journal
  BY <1>1, IntentsUpdate
<1>4. /\ [d EXCEPT !.intents = rest, !.epoch = e, !.dirty = b].usage = d.usage
      /\ [d EXCEPT !.intents = rest, !.epoch = e, !.dirty = b].gen = d.gen
  BY DEF Journal
<1>. QED BY <1>2, <1>3, <1>4

LEMMA BegunType ==
    ASSUME NEW d \in Journal, NEW m \in Nat
    PROVE  Begun(d, m) \in Journal
<1>. DEFINE new == [mid |-> m, epoch |-> d.epoch + 1, phase |-> "preflight",
                    recoverAfter |-> 0]
            rest == d.intents \cup {new}
            e == d.epoch + 1
<1>1. rest \in SUBSET Intent /\ e \in Nat
  <2>1. new \in Intent
    BY JournalFields DEF Intent, Phases
  <2>. QED BY <2>1, JournalFields
<1>2. Begun(d, m) = [d EXCEPT !.epoch = e, !.dirty = 1, !.intents = rest]
  BY Zenon DEF Begun
<1>. HIDE DEF rest, e
<1>3. [d EXCEPT !.epoch = e, !.dirty = 1, !.intents = rest] \in Journal
  BY <1>1, IntentsUpdate
<1>. QED BY <1>2, <1>3

LEMMA DispatchedType ==
    ASSUME NEW d \in Journal, NEW m \in Nat, NEW t \in Nat
    PROVE  Dispatched(d, m, t) \in Journal
<1>. DEFINE upd(i) == IF i.mid = m
                      THEN [i EXCEPT !.phase = "dispatched", !.recoverAfter = t] ELSE i
<1>1. ASSUME NEW i \in Intent
      PROVE  [i EXCEPT !.phase = "dispatched", !.recoverAfter = t] \in Intent
  BY DEF Intent, Phases
<1>2. {upd(i) : i \in d.intents} \in SUBSET Intent
  BY <1>1 DEF Journal
<1>3. Dispatched(d, m, t) = [d EXCEPT !.intents = {upd(i) : i \in d.intents}]
  BY Zenon DEF Dispatched
<1>. QED BY <1>2, <1>3 DEF Journal

LEMMA PublishedTypes ==
    ASSUME NEW d \in Journal, NEW m \in Nat, NEW n \in Int
    PROVE  /\ MayAdd(d, n) => Committed(d, m, n) \in Journal
           /\ Resolved(d, m, n) \in Journal
           /\ Reconciled(d, n) \in Journal
<1>. DEFINE r == Retire(d, m)
<1>1. r \in Journal /\ r.usage = d.usage /\ r.gen = d.gen /\ r.gen + 1 \in Nat
  BY RetireType, JournalFields
<1>. HIDE DEF r
<1>2. ASSUME MayAdd(d, n) PROVE [r EXCEPT !.usage = @ + n, !.gen = @ + 1] \in Journal
  <2>1. r.usage + n \in Int
    BY <1>1, <1>2, JournalFields DEF MayAdd
  <2>. QED BY <2>1, <1>1, UsageUpdate
<1>3. [r EXCEPT !.usage = n, !.gen = @ + 1] \in Journal
  BY <1>1, UsageUpdate
<1>4. [d EXCEPT !.usage = n, !.dirty = 0] \in Journal
  BY UsageUpdate, 0 \in Nat
<1>. QED BY <1>2, <1>3, <1>4 DEF Committed, Resolved, Reconciled, r

(* Every action of an actor that only moves it and rewrites its locals     *)
(* keeps the types if the new locals have theirs.                          *)
LEMMA MoveType ==
    ASSUME TypeOK, NEW a \in Actors, NEW place \in Places, NEW locals \in Locals,
           MoveWith(a, place, locals)
    PROVE  pc' \in [Actors -> Places] /\ loc' \in [Actors -> Locals]
BY DEF MoveWith, Move, TypeOK

LEMMA QuitType ==
    ASSUME TypeOK, NEW a \in Actors, Quit(a)
    PROVE  pc' \in [Actors -> Places] /\ loc' \in [Actors -> Locals]
BY BlankType, MoveType DEF Quit, Places

LEMMA ResumeType ==
    ASSUME TypeOK, NEW a \in Actors, NEW place \in Places, Resume(a, place)
    PROVE  pc' \in [Actors -> Places] /\ loc' \in [Actors -> Locals]
<1>1. [Blank EXCEPT !.job = loc[a].job] \in Locals
  BY BlankType DEF TypeOK, Locals
<1>. QED BY <1>1, MoveType DEF Resume

LEMMA ProceedType ==
    ASSUME TypeOK, NEW a \in Actors, Proceed(a)
    PROVE  pc' \in [Actors -> Places] /\ loc' \in [Actors -> Locals]
BY ResumeType, QuitType DEF Proceed, Places

LEMMA ClassifyType ==
    ASSUME TypeOK, NEW a \in Actors, NEW i \in db.intents, Classify(a, i)
    PROVE  pc' \in [Actors -> Places] /\ loc' \in [Actors -> Locals]
<1>1. loc[a] \in Locals /\ i.mid \in Nat /\ i.epoch \in Nat /\ i.recoverAfter \in Nat
  BY DEF TypeOK, Journal, Intent
<1>2. [loc[a] EXCEPT !.mid = i.mid, !.epoch = i.epoch,
                     !.deadline = i.recoverAfter, !.fresh = TRUE] \in Locals
  BY <1>1 DEF Locals
<1>3. (CASE i.phase = "preflight"        -> "expire"
         [] ~Recoverable(i.recoverAfter) -> "recheck"
         [] OTHER                        -> "probe") \in Places
  BY DEF Places
<1>. QED BY <1>2, <1>3, MoveType DEF Classify

-----------------------------------------------------------------------------
(* Each actor's steps keep the types. *)

\* What a step of an actor that leaves the store alone has to show.
ActorTyped == pc' \in [Actors -> Places] /\ loc' \in [Actors -> Locals]

LEMMA RecoveryTypes ==
    ASSUME TypeOK, NEW a \in Actors, Recovery(a)
    PROVE  TypeOK'
<1>. USE DEF store, redis, locks
<1>0. loc[a] \in Locals /\ db \in Journal /\ loc[a].mid \in Nat /\ loc[a].total \in Int
      /\ loc[a].after \in Places
  BY DEF TypeOK, Locals, Places
<1>1. ASSUME Inspect(a) PROVE TypeOK'
  <2>1. ActorTyped
    BY <1>0, <1>1, ClassifyType, ResumeType DEF Inspect, ActorTyped
  <2>. QED BY <1>1, <2>1 DEF Inspect, TypeOK, ActorTyped
<1>2. ASSUME Expire(a) PROVE TypeOK'
  <2>1. ActorTyped
    <3>1. CASE Holds(db, loc[a].mid, loc[a].epoch, "preflight")
      BY <1>2, <3>1 DEF Expire, ActorTyped, TypeOK, Move, Places
    <3>2. CASE ~Holds(db, loc[a].mid, loc[a].epoch, "preflight")
      <4>1. CASE db.intents = {} /\ Move(a, "recheck") /\ UNCHANGED loc
        BY <4>1 DEF ActorTyped, TypeOK, Move, Places
      <4>2. ASSUME NEW i \in db.intents, Classify(a, i) \/ Quit(a)
            PROVE  ActorTyped
        BY <4>2, ClassifyType, QuitType DEF ActorTyped
      <4>. QED BY <1>2, <3>2, <4>1, <4>2 DEF Expire
    <3>. QED BY <3>1, <3>2
  <2>2. db' \in Journal
    BY <1>0, <1>2, RetireType DEF Expire
  <2>. QED BY <1>2, <2>1, <2>2 DEF Expire, TypeOK, ActorTyped
<1>3. ASSUME Probe(a) PROVE TypeOK'
  <2>1. PICK total \in Totals \cup {physical} :
          MoveWith(a, "confirm", [loc[a] EXCEPT !.total = total])
    BY <1>3 DEF Probe
  <2>2. [loc[a] EXCEPT !.total = total] \in Locals
    BY <1>0, DataAssumption DEF Locals, TypeOK
  <2>3. ActorTyped
    BY <2>1, <2>2, MoveType DEF ActorTyped, Places
  <2>. QED BY <1>3, <2>3 DEF Probe, TypeOK, ActorTyped
<1>4. ASSUME Confirm(a) PROVE TypeOK'
  <2>1. [loc[a] EXCEPT !.fresh = TRUE] \in Locals
    BY <1>0 DEF Locals
  <2>2. CASE db.intents = {} /\ Move(a, "recheck") /\ UNCHANGED loc
    BY <1>4, <2>2 DEF Confirm, TypeOK, Move, Places
  <2>3. CASE MoveWith(a, "rescan", [loc[a] EXCEPT !.fresh = TRUE]) \/ Quit(a)
    <3>1. ActorTyped
      BY <2>1, <2>3, MoveType, QuitType DEF ActorTyped, Places
    <3>. QED BY <1>4, <3>1 DEF Confirm, TypeOK, ActorTyped
  <2>. QED BY <1>4, <2>2, <2>3 DEF Confirm
<1>5. ASSUME Rescan(a) PROVE TypeOK'
  <2>1. CASE Move(a, "publish") /\ UNCHANGED loc
    BY <1>5, <2>1 DEF Rescan, TypeOK, Move, Places
  <2>2. CASE Quit(a)
    BY <1>5, <2>2, QuitType DEF Rescan, TypeOK
  <2>. QED BY <1>5, <2>1, <2>2 DEF Rescan
<1>6. ASSUME Publish(a) PROVE TypeOK'
  <2>1. CASE db' = Resolved(db, loc[a].mid, loc[a].total) /\ Move(a, "recheck") /\ UNCHANGED loc
    <3>1. db' \in Journal
      BY <1>0, <2>1, PublishedTypes
    <3>. QED BY <1>6, <2>1, <3>1 DEF Publish, TypeOK, Move, Places
  <2>2. CASE UNCHANGED db /\ Quit(a)
    BY <1>6, <2>2, QuitType DEF Publish, TypeOK
  <2>. QED BY <1>6, <2>1, <2>2 DEF Publish
<1>7. ASSUME Recheck(a) PROVE TypeOK'
  <2>1. ActorTyped
    BY <1>0, <1>7, ResumeType, QuitType DEF Recheck, ActorTyped
  <2>. QED BY <1>7, <2>1 DEF Recheck, TypeOK, ActorTyped
<1>. QED BY <1>1, <1>2, <1>3, <1>4, <1>5, <1>6, <1>7 DEF Recovery

LEMMA AccountingTypes ==
    ASSUME TypeOK, NEW a \in Actors, Accounting(a)
    PROVE  TypeOK'
<1>. USE DEF store, redis, locks
<1>0. loc[a] \in Locals /\ db \in Journal /\ loc[a].total \in Int
  BY DEF TypeOK, Locals
<1>1. ASSUME Cached(a) PROVE TypeOK'
  <2>1. [loc[a] EXCEPT !.after = "snapshot"] \in Locals
    BY <1>0 DEF Locals
  <2>2. ActorTyped
    BY <1>1, <2>1, MoveType, ProceedType DEF Cached, ActorTyped, Places
  <2>. QED BY <1>1, <2>2 DEF Cached, TypeOK, ActorTyped
<1>2. ASSUME Snapshot(a) PROVE TypeOK'
  <2>1. [loc[a] EXCEPT !.gen = db.gen, !.epoch = db.epoch, !.fresh = TRUE] \in Locals
    BY <1>0, JournalFields DEF Locals
  <2>2. ActorTyped
    BY <1>2, <2>1, MoveType DEF Snapshot, ActorTyped, Places
  <2>. QED BY <1>2, <2>2 DEF Snapshot, TypeOK, ActorTyped
<1>3. ASSUME Scan(a) PROVE TypeOK'
  <2>1. PICK total \in Totals \cup {physical} :
          MoveWith(a, "install", [loc[a] EXCEPT !.total = total])
    BY <1>3 DEF Scan
  <2>2. [loc[a] EXCEPT !.total = total] \in Locals
    BY <1>0, DataAssumption DEF Locals, TypeOK
  <2>3. ActorTyped
    BY <2>1, <2>2, MoveType DEF ActorTyped, Places
  <2>. QED BY <1>3, <2>3 DEF Scan, TypeOK, ActorTyped
<1>4. ASSUME Install(a) PROVE TypeOK'
  <2>1. CASE UNCHANGED db /\ (Resume(a, "snapshot") \/ Quit(a))
    <3>1. ActorTyped
      BY <2>1, ResumeType, QuitType DEF ActorTyped, Places
    <3>. QED BY <1>4, <2>1, <3>1 DEF Install, TypeOK, ActorTyped
  <2>2. CASE db' = Reconciled(db, loc[a].total) /\ Proceed(a)
    <3>1. db' \in Journal
      BY <1>0, <2>2, PublishedTypes, 0 \in Nat
    <3>2. ActorTyped
      BY <2>2, ProceedType DEF ActorTyped
    <3>. QED BY <1>4, <3>1, <3>2 DEF Install, TypeOK, ActorTyped
  <2>. QED BY <1>4, <2>1, <2>2 DEF Install
<1>. QED BY <1>1, <1>2, <1>3, <1>4 DEF Accounting

\* The arithmetic of time stays within its types.
LEMMA TimeTypes ==
    ASSUME TypeOK, NEW lead \in Leads
    PROVE  /\ ValidUntil(lead) \in Int /\ Window(lead) \in Nat
           /\ \A w \in Nat : now + RecoveryDelay(w) \in Nat
           /\ now + Settle \in Nat
BY TimeAssumption DEF ValidUntil, Window, RecoveryDelay, TypeOK

LEMMA MutationTypes ==
    ASSUME TypeOK, NEW a \in Actors, Mutation(a)
    PROVE  TypeOK'
<1>. USE DEF store, redis, locks
<1>0. loc[a] \in Locals /\ db \in Journal /\ loc[a].mid \in Nat /\ loc[a].total \in Int
      /\ loc[a].window \in Nat /\ loc[a].delta \in Int /\ loc[a].until \in Int
      /\ loc[a].key \in Keys /\ loc[a].to \in Nat /\ size[loc[a].key] \in Nat
      /\ loc[a].old \in Nat /\ loc[a].epoch \in Nat
  BY DEF TypeOK, Locals
<1>1. ASSUME Begin(a) PROVE TypeOK'
  <2>1. CASE UNCHANGED <<db, uuid>> /\ Quit(a)
    BY <1>1, <2>1, QuitType DEF Begin, TypeOK
  <2>2. CASE MayBegin(db) /\ uuid < MaxMutations
    <3>. DEFINE m == uuid + 1
                e == db.epoch + 1
    <3>1. m \in Nat /\ e \in Nat
      BY <1>0, JournalFields DEF TypeOK
    <3>2. uuid' = m /\ db' = Begun(db, m)
      BY <1>1, <2>2 DEF Begin
    <3>3. PICK k \in Keys, to \in Sizes \cup {0} :
            MoveWith(a, "beginSync", [Blank EXCEPT !.job = "mutate", !.key = k, !.to = to,
                                                   !.mid = m, !.epoch = e])
      BY <1>1, <2>2 DEF Begin
    <3>. HIDE DEF m, e
    <3>4. to \in Nat
      BY DataAssumption
    <3>5. [Blank EXCEPT !.job = "mutate", !.key = k, !.to = to, !.mid = m, !.epoch = e]
             \in Locals
      BY <3>1, <3>4, BlankType DEF Locals, Jobs
    <3>6. ActorTyped
      BY <3>3, <3>5, MoveType DEF ActorTyped, Places
    <3>7. db' \in Journal
      BY <1>0, <3>1, <3>2, BegunType
    <3>. QED BY <1>1, <3>1, <3>2, <3>6, <3>7 DEF Begin, TypeOK, ActorTyped
  <2>. QED BY <1>1, <2>1, <2>2 DEF Begin
<1>2. ASSUME BeginSync(a) \/ DispatchSync(a) PROVE TypeOK'
  BY <1>2 DEF BeginSync, DispatchSync, WaitAof, Fsync, Move, TypeOK, Places
<1>3. ASSUME UndoBegin(a) \/ UndoDispatch(a) PROVE TypeOK'
  <2>1. db' \in Journal
    BY <1>0, <1>3, RetireType DEF UndoBegin, UndoDispatch, Undo
  <2>. QED BY <1>3, <2>1, QuitType DEF UndoBegin, UndoDispatch, Undo, TypeOK
<1>4. ASSUME Measure(a) PROVE TypeOK'
  <2>1. PICK lead \in Leads :
          MoveWith(a, "dispatch", [loc[a] EXCEPT !.old = size[loc[a].key],
                                     !.until = ValidUntil(lead), !.window = Window(lead)])
    BY <1>4 DEF Measure
  <2>2. [loc[a] EXCEPT !.old = size[loc[a].key],
                       !.until = ValidUntil(lead), !.window = Window(lead)] \in Locals
    BY <1>0, TimeTypes DEF Locals
  <2>3. ActorTyped
    BY <2>1, <2>2, MoveType DEF ActorTyped, Places
  <2>. QED BY <1>4, <2>3 DEF Measure, TypeOK, ActorTyped
<1>5. ASSUME Dispatch(a) PROVE TypeOK'
  <2>1. CASE UNCHANGED db /\ Quit(a)
    BY <1>5, <2>1, QuitType DEF Dispatch, TypeOK
  <2>2. CASE /\ db' = Dispatched(db, loc[a].mid, now + RecoveryDelay(loc[a].window))
             /\ MoveWith(a, "dispatchSync", [loc[a] EXCEPT !.window = 0])
    <3>1. now + RecoveryDelay(loc[a].window) \in Nat
      BY <1>0, TimeAssumption DEF RecoveryDelay, TypeOK
    <3>2. db' \in Journal
      BY <1>0, <2>2, <3>1, DispatchedType
    <3>3. [loc[a] EXCEPT !.window = 0] \in Locals
      BY <1>0 DEF Locals
    <3>4. ActorTyped
      BY <2>2, <3>3, MoveType DEF ActorTyped, Places
    <3>. QED BY <1>5, <3>2, <3>4 DEF Dispatch, TypeOK, ActorTyped
  <2>. QED BY <1>5, <2>1, <2>2 DEF Dispatch
<1>6. ASSUME Send(a) PROVE TypeOK'
  <2>1. CASE UNCHANGED wire /\ Quit(a)
    BY <1>6, <2>1, QuitType DEF Send, TypeOK
  <2>2. CASE loc[a].until >= now
    <3>1. [mid |-> loc[a].mid, key |-> loc[a].key, to |-> loc[a].to,
           admitted |-> FALSE, until |-> loc[a].until] \in Request
      BY <1>0 DEF Request
    <3>2. wire' \subseteq Request
      BY <1>6, <2>2, <3>1 DEF Send, TypeOK
    <3>3. [loc[a] EXCEPT !.until = 0] \in Locals
      BY <1>0 DEF Locals
    <3>4. ActorTyped
      BY <1>6, <2>2, <3>3, MoveType DEF Send, ActorTyped, Places
    <3>. QED BY <1>6, <3>2, <3>4 DEF Send, TypeOK, ActorTyped
  <2>. QED BY <1>6, <2>1, <2>2 DEF Send
<1>7. ASSUME Reply(a) \/ GiveUp(a) PROVE TypeOK'
  BY <1>7, QuitType DEF Reply, GiveUp, Move, TypeOK, Places
<1>8. ASSUME Head(a) PROVE TypeOK'
  <2>1. CASE Quit(a)
    BY <1>8, <2>1, QuitType DEF Head, TypeOK
  <2>2. CASE MoveWith(a, "commit", [Blank EXCEPT !.mid = loc[a].mid, !.epoch = loc[a].epoch,
                                      !.delta = size[loc[a].key] - loc[a].old])
    <3>. DEFINE n == size[loc[a].key] - loc[a].old
    <3>1. n \in Int
      BY <1>0
    <3>. HIDE DEF n
    <3>2. [Blank EXCEPT !.mid = loc[a].mid, !.epoch = loc[a].epoch, !.delta = n] \in Locals
      BY <1>0, <3>1, BlankType DEF Locals
    <3>3. ActorTyped
      BY <2>2, <3>2, MoveType DEF ActorTyped, Places, n
    <3>. QED BY <1>8, <3>3 DEF Head, TypeOK, ActorTyped
  <2>. QED BY <1>8, <2>1, <2>2 DEF Head
<1>9. ASSUME Commit(a) PROVE TypeOK'
  <2>1. CASE Quit(a) /\ UNCHANGED db
    BY <1>9, <2>1, QuitType DEF Commit, TypeOK
  <2>2. CASE MayAdd(db, loc[a].delta) /\ db' = Committed(db, loc[a].mid, loc[a].delta) /\ Quit(a)
    <3>1. db' \in Journal
      BY <1>0, <2>2, PublishedTypes
    <3>. QED BY <1>9, <2>2, <3>1, QuitType DEF Commit, TypeOK
  <2>3. CASE MoveWith(a, "repair", [loc[a] EXCEPT !.fresh = TRUE]) /\ UNCHANGED db
    <3>1. [loc[a] EXCEPT !.fresh = TRUE] \in Locals
      BY <1>0 DEF Locals
    <3>2. ActorTyped
      BY <2>3, <3>1, MoveType DEF ActorTyped, Places
    <3>. QED BY <1>9, <2>3, <3>2 DEF Commit, TypeOK, ActorTyped
  <2>. QED BY <1>9, <2>1, <2>2, <2>3 DEF Commit
<1>10. ASSUME Repair(a) PROVE TypeOK'
  <2>1. PICK total \in Totals \cup {physical} :
          MoveWith(a, "settle", [loc[a] EXCEPT !.total = total])
    BY <1>10 DEF Repair
  <2>2. [loc[a] EXCEPT !.total = total] \in Locals
    BY <1>0, DataAssumption DEF Locals, TypeOK
  <2>3. ActorTyped
    BY <2>1, <2>2, MoveType DEF ActorTyped, Places
  <2>. QED BY <1>10, <2>3 DEF Repair, TypeOK, ActorTyped
<1>11. ASSUME SettleByScan(a) PROVE TypeOK'
  <2>1. db' \in Journal
    BY <1>0, <1>11, PublishedTypes DEF SettleByScan
  <2>. QED BY <1>11, <2>1, QuitType DEF SettleByScan, TypeOK
<1>. QED
  BY <1>1, <1>2, <1>3, <1>4, <1>5, <1>6, <1>7, <1>8, <1>9, <1>10, <1>11 DEF Mutation

LEMMA EntryTypes ==
    ASSUME TypeOK, NEW a \in Actors,
           TakeLease(a) \/ Leave(a) \/ \E job \in Jobs : TakeFence(a, job)
    PROVE  TypeOK'
<1>. USE DEF store, redis, locks
<1>1. ASSUME TakeLease(a) \/ Leave(a) PROVE TypeOK'
  BY <1>1 DEF TakeLease, Leave, Move, TypeOK, Places
<1>2. ASSUME NEW job \in Jobs, TakeFence(a, job) PROVE TypeOK'
  <2>. DEFINE to == CASE job = "recover"   -> "leave"
                      [] job = "reconcile" -> "snapshot"
                      [] OTHER             -> "cached"
  <2>1. to \in {"leave", "cached", "snapshot"}
    OBVIOUS
  <2>2. MoveWith(a, "fenced", [Blank EXCEPT !.job = job, !.after = to])
    BY <1>2 DEF TakeFence
  <2>. HIDE DEF to
  <2>3. [Blank EXCEPT !.job = job, !.after = to] \in Locals
    BY <2>1, BlankType DEF Locals
  <2>4. ActorTyped
    BY <2>2, <2>3, MoveType DEF ActorTyped, Places
  <2>. QED BY <1>2, <2>4 DEF TakeFence, TypeOK, ActorTyped
<1>. QED BY <1>1, <1>2

LEMMA StoreTypes ==
    ASSUME TypeOK, NEW r \in wire, Admit(r) \/ Land(r)
    PROVE  TypeOK'
<1>. USE DEF store, redis, locks
<1>0. r \in Request /\ r.to \in Nat /\ r.key \in Keys /\ size[r.key] \in Nat
  BY DEF TypeOK, Request
<1>1. ASSUME Admit(r) PROVE TypeOK'
  <2>1. now + Settle \in Int
    BY TimeAssumption DEF TypeOK
  <2>2. [r EXCEPT !.admitted = TRUE, !.until = now + Settle] \in Request
    BY <1>0, <2>1 DEF Request
  <2>. QED BY <1>1, <2>2 DEF Admit, TypeOK
<1>2. ASSUME Land(r) PROVE TypeOK'
  <2>1. size' \in [Keys -> Nat]
    BY <1>0, <1>2 DEF Land, TypeOK
  <2>4. physical' \in Int
    <3>1. physical \in Int /\ physical' = physical - size[r.key] + r.to
      BY <1>2 DEF Land, TypeOK
    <3>. QED BY <1>0, <3>1
  <2>2. ASSUME NEW a \in Actors
        PROVE  [loc[a] EXCEPT !.fresh = FALSE,
                              !.ok = IF pc[a] = "await" /\ loc[a].mid = r.mid
                                     THEN TRUE ELSE @] \in Locals
    <3>1. loc[a] \in Locals /\ loc[a].ok \in BOOLEAN
      BY DEF TypeOK, Locals
    <3>2. CASE pc[a] = "await" /\ loc[a].mid = r.mid
      BY <3>1, <3>2 DEF Locals
    <3>3. CASE ~(pc[a] = "await" /\ loc[a].mid = r.mid)
      BY <3>1, <3>3 DEF Locals
    <3>. QED BY <3>2, <3>3
  <2>3. loc' \in [Actors -> Locals]
    BY <1>2, <2>2 DEF Land
  <2>. QED BY <1>2, <2>1, <2>3, <2>4 DEF Land, TypeOK
<1>. QED BY <1>1, <1>2

LEMMA FailureTypes ==
    ASSUME TypeOK, Failure
    PROVE  TypeOK'
<1>. USE DEF store, redis, locks, Fault
<1>1. ASSUME NEW a \in Actors, Raise(a) PROVE TypeOK'
  <2>1. Handler(pc[a]) \in Places
    BY DEF Handler, Places
  <2>2. [loc[a] EXCEPT !.fresh = TRUE] \in Locals
    <3>1. loc[a] \in Locals
      BY DEF TypeOK
    <3>. QED BY <3>1 DEF Locals
  <2>3. ActorTyped
    BY <1>1, <2>1, <2>2, MoveType, QuitType DEF Raise, ActorTyped
  <2>. QED BY <1>1, <2>3 DEF Raise, TypeOK, ActorTyped
<1>2. ASSUME NEW a \in Actors, Die(a) PROVE TypeOK'
  <2>1. ActorTyped
    BY <1>2, BlankType, MoveType DEF Die, ActorTyped, Places
  <2>. QED BY <1>2, <2>1 DEF Die, TypeOK, ActorTyped
<1>3. ASSUME LoseFence \/ LoseLease PROVE TypeOK'
  BY <1>3 DEF LoseFence, LoseLease, TypeOK
<1>4. ASSUME CrashRedis PROVE TypeOK'
  <2>1. pc' \in [Actors -> Places]
    BY <1>4 DEF CrashRedis, TypeOK, Handler, Places
  <2>. QED BY <1>4, <2>1 DEF CrashRedis, TypeOK
<1>5. ASSUME ForgetUsage PROVE TypeOK'
  <2>1. db' \in Journal
    BY <1>5 DEF ForgetUsage, TypeOK, Journal
  <2>. QED BY <1>5, <2>1 DEF ForgetUsage, TypeOK
<1>. QED BY <1>1, <1>2, <1>3, <1>4, <1>5 DEF Failure

LEMMA TypeInit == Init => TypeOK
<1>1. [usage |-> None, gen |-> 0, epoch |-> 0, dirty |-> 0, intents |-> {}] \in Journal
  BY DEF Journal
<1>. QED BY <1>1, BlankType DEF Init, TypeOK, Places

LEMMA TypeNext == TypeOK /\ [Next]_vars => TypeOK'
<1>. SUFFICES ASSUME TypeOK, [Next]_vars PROVE TypeOK'
  OBVIOUS
<1>1. ASSUME NEW a \in Actors, Step(a) \/ \E job \in Jobs : TakeFence(a, job)
      PROVE  TypeOK'
  BY <1>1, EntryTypes, RecoveryTypes, AccountingTypes, MutationTypes DEF Step
<1>2. CASE Store
  BY <1>2, StoreTypes DEF Store
<1>3. CASE Tick
  BY <1>3 DEF Tick, TypeOK
<1>4. CASE ExpireOrphan \/ BackgroundFsync
  BY <1>4 DEF ExpireOrphan, BackgroundFsync, Fsync, TypeOK, store, redis, locks
<1>5. CASE Failure
  BY <1>5, FailureTypes
<1>6. CASE UNCHANGED vars
  BY <1>6 DEF vars, TypeOK
<1>. QED BY <1>1, <1>2, <1>3, <1>4, <1>5, <1>6 DEF Next

(* Every variable always has its type, whatever fails and however often:   *)
(* in particular the journal's counters stay natural numbers and no actor  *)
(* is ever at a place the code does not have.                              *)
THEOREM TypeCorrect == Spec => []TypeOK
BY TypeInit, TypeNext, PTL DEF Spec

----------------------------------------------------------------------------
(* Requests and intents.  JournalInv is the inductive invariant: that      *)
(* every request is covered is not inductive, because it says nothing      *)
(* about the actors that are about to send a request, to retire an intent, *)
(* or to publish for somebody else.                                        *)

\* What a step of actor a may take out of the journal: the intent of mutation
\* m once no request of it is left and nobody else can still send one.
Unneeded(m, a) ==
    /\ \A r \in wire : r.mid # m
    /\ \A b \in Actors \ {a} :
         pc[b] \in {"dispatchSync", "send"} /\ loc[b].until >= now => loc[b].mid # m

ShrinksJournal(a) ==
    /\ db'.intents \subseteq db.intents
    /\ \A i \in db.intents \ db'.intents : i.phase = "dispatched" => Unneeded(i.mid, a)
    /\ \/ aof'.intents = aof.intents
       \/ aof'.intents = db.intents /\ db'.intents = db.intents
    /\ UNCHANGED <<wire, now, uuid>>

OnlyActor(a) ==
    /\ pc' \in [Actors -> Places] /\ loc' \in [Actors -> Locals]
    /\ \A b \in Actors \ {a} : pc'[b] = pc[b] /\ loc'[b] = loc[b]

\* What actor a may go on to do with its mutation, or with one it recovers.
OwnsOn(a) ==
    pc'[a] \in Owning =>
        /\ pc[a] \in Owning /\ loc'[a].mid = loc[a].mid
        /\ pc'[a] \in BeforeDispatch \cup {"send"} => loc'[a].ok = loc[a].ok
        /\ pc'[a] \notin {"await", "dispatchSync"} /\ (pc[a] = "await" => loc[a].ok)
        /\ pc'[a] \in BeforeDispatch => pc[a] \in BeforeDispatch
        /\ pc'[a] = "dispatch" =>
             loc'[a].until + Settle < now + RecoveryDelay(loc'[a].window)
        /\ pc'[a] = "send" => /\ pc[a] = "dispatchSync" /\ loc'[a].until = loc[a].until
                              /\ aof'.intents = db.intents /\ db'.intents = db.intents

RecoversOn(a) ==
    pc'[a] \in Recovering =>
        /\ loc'[a].mid <= uuid
        /\ \A b \in Actors \ {a} : pc[b] \in BeforeDispatch => loc[b].mid # loc'[a].mid
        /\ \A d \in {db, aof} : \A i \in d.intents :
             i.mid = loc'[a].mid /\ i.phase = "dispatched" => i.recoverAfter <= now

(* A step of one actor that only takes intents out of the journal, and     *)
(* only those nobody needs, keeps the invariant.                           *)
LEMMA ActorStep ==
    ASSUME TypeOK, JournalInv, NEW a \in Actors, OnlyActor(a), ShrinksJournal(a),
           OwnsOn(a), RecoversOn(a)
    PROVE  JournalInv'
<1>1. EveryRequestIsJournaled'
  <2>1. ASSUME NEW r \in wire PROVE Covers(db', r.mid, LastLanding(r))
    BY DEF JournalInv, EveryRequestIsJournaled, Covers, ShrinksJournal, Unneeded
  <2>2. ASSUME NEW r \in wire PROVE Covers(aof', r.mid, LastLanding(r))
    BY DEF JournalInv, EveryRequestIsJournaled, Covers, ShrinksJournal
  <2>. QED BY <2>1, <2>2 DEF EveryRequestIsJournaled, ShrinksJournal, LastLanding, Covers
<1>2. SingleIntent'
  BY DEF JournalInv, SingleIntent, ShrinksJournal
<1>3. IdsAreUnique'
  BY DEF JournalInv, IdsAreUnique, ShrinksJournal, OnlyActor, OwnsOn, RecoversOn
<1>4. RequestsAreAwaited'
  <2>1. ASSUME NEW b \in Actors, NEW r \in wire, pc'[b] \in Owning, r.mid = loc'[b].mid
        PROVE  pc'[b] = "await" /\ ~loc'[b].ok
    BY <2>1 DEF JournalInv, RequestsAreAwaited, OnlyActor, OwnsOn
  <2>2. ASSUME NEW b \in Actors \ {a}, pc'[b] \in BeforeDispatch \cup {"dispatchSync", "send"}
        PROVE  ~loc'[b].ok
    BY <2>2 DEF JournalInv, RequestsAreAwaited, OnlyActor
  <2>3. ASSUME pc'[a] \in BeforeDispatch \cup {"dispatchSync", "send"} PROVE ~loc'[a].ok
    <3>1. /\ pc[a] \in BeforeDispatch \cup {"dispatchSync", "send"}
          /\ loc'[a].ok = loc[a].ok
      BY <2>3 DEF OwnsOn, Owning
    <3>. QED BY <3>1 DEF JournalInv, RequestsAreAwaited
  <2>. QED BY <2>1, <2>2, <2>3 DEF RequestsAreAwaited, ShrinksJournal
<1>5. DispatchedOnce'
  <2>1. ASSUME NEW m, IsDispatched(m)' PROVE IsDispatched(m)
    BY <2>1 DEF IsDispatched, ShrinksJournal
  <2>2. ASSUME NEW b \in Actors, pc'[b] \in BeforeDispatch
        PROVE  pc[b] \in BeforeDispatch /\ loc'[b].mid = loc[b].mid
    BY <2>2 DEF OnlyActor, OwnsOn, Owning
  <2>3. ASSUME NEW b \in Actors, NEW c \in Actors,
               pc'[b] \in BeforeDispatch, pc'[c] \in Recovering
        PROVE  loc'[c].mid # loc'[b].mid
    BY <2>2, <2>3 DEF OnlyActor, RecoversOn, JournalInv, DispatchedOnce, BeforeDispatch,
                      Recovering
  <2>4. ASSUME NEW i \in db'.intents, NEW j \in aof'.intents,
               i.mid = j.mid, i.phase = "dispatched", j.phase = "dispatched"
        PROVE  i = j
    BY <2>4 DEF ShrinksJournal, JournalInv, DispatchedOnce, SingleIntent
  <2>. QED BY <2>1, <2>2, <2>3, <2>4 DEF JournalInv, DispatchedOnce
<1>6. RecoveryWaits'
  BY DEF JournalInv, RecoveryWaits, ShrinksJournal, OnlyActor, RecoversOn
<1>7. CapabilityIsCovered'
  <2>1. ASSUME NEW b \in Actors \ {a}, pc'[b] \in {"dispatchSync", "send"}, loc'[b].until >= now
        PROVE  Covers(db', loc'[b].mid, loc'[b].until + Settle)
    BY <2>1 DEF JournalInv, CapabilityIsCovered, Covers, ShrinksJournal, Unneeded, OnlyActor
  <2>2. ASSUME NEW b \in Actors \ {a}, pc'[b] = "send", loc'[b].until >= now
        PROVE  Covers(aof', loc'[b].mid, loc'[b].until + Settle)
    BY <2>2 DEF JournalInv, CapabilityIsCovered, Covers, ShrinksJournal, OnlyActor
  <2>3. ASSUME pc'[a] = "send", loc'[a].until >= now
        PROVE  /\ Covers(db', loc'[a].mid, loc'[a].until + Settle)
               /\ Covers(aof', loc'[a].mid, loc'[a].until + Settle)
    BY <2>3 DEF JournalInv, CapabilityIsCovered, Covers, OwnsOn, Owning
  <2>4. pc'[a] # "dispatchSync"
    BY DEF OwnsOn, Owning
  <2>5. ASSUME NEW b \in Actors, pc'[b] = "dispatch"
        PROVE  loc'[b].until + Settle < now + RecoveryDelay(loc'[b].window)
    BY <2>5 DEF JournalInv, CapabilityIsCovered, OnlyActor, OwnsOn, Owning, BeforeDispatch
  <2>. QED BY <2>1, <2>2, <2>3, <2>4, <2>5
           DEF CapabilityIsCovered, ShrinksJournal, RecoveryDelay, Covers
<1>8. RequestsAreLive'
  BY DEF JournalInv, RequestsAreLive, ShrinksJournal
<1>. QED
  BY <1>1, <1>2, <1>3, <1>4, <1>5, <1>6, <1>7, <1>8 DEF JournalInv

(* An actor that ends up neither owning nor recovering a mutation takes no *)
(* obligation with it.                                                     *)
LEMMA QuietStep ==
    ASSUME TypeOK, JournalInv, NEW a \in Actors, OnlyActor(a), ShrinksJournal(a),
           pc'[a] \notin Owning, pc'[a] \notin Recovering
    PROVE  JournalInv'
BY ActorStep DEF OwnsOn, RecoversOn

JournalUnchanged ==
    db'.intents = db.intents /\ aof'.intents = aof.intents /\ UNCHANGED <<wire, now, uuid>>

(* What happens outside the journal and the actors does not matter.        *)
LEMMA FrameStep ==
    ASSUME JournalInv, JournalUnchanged, UNCHANGED <<pc, loc>>
    PROVE  JournalInv'
<1>. USE DEF JournalUnchanged, JournalInv
<1>1. EveryRequestIsJournaled'
  BY DEF EveryRequestIsJournaled, Covers, LastLanding
<1>2. SingleIntent' /\ IdsAreUnique' /\ RequestsAreAwaited'
  BY DEF SingleIntent, IdsAreUnique, RequestsAreAwaited
<1>3. DispatchedOnce' /\ RecoveryWaits' /\ RequestsAreLive'
  BY DEF DispatchedOnce, IsDispatched, RecoveryWaits, RequestsAreLive
<1>4. CapabilityIsCovered'
  BY DEF CapabilityIsCovered, Covers, RecoveryDelay
<1>. QED BY <1>1, <1>2, <1>3, <1>4

LEMMA RetireIntents ==
    ASSUME NEW d \in Journal, NEW m, NEW n
    PROVE  LET rest == {i \in d.intents : i.mid # m} IN
           /\ Retire(d, m).intents = rest /\ Committed(d, m, n).intents = rest
           /\ Resolved(d, m, n).intents = rest /\ Reconciled(d, n).intents = d.intents
<1>. DEFINE r == Retire(d, m)
<1>1. r.intents = {i \in d.intents : i.mid # m}
  BY DEF Retire, Journal
<1>2. r \in Journal
  BY RetireType
<1>3. Committed(d, m, n) = [r EXCEPT !.usage = @ + n, !.gen = @ + 1]
      /\ Resolved(d, m, n) = [r EXCEPT !.usage = n, !.gen = @ + 1]
  BY Zenon DEF Committed, Resolved
<1>. HIDE DEF r
<1>4. [r EXCEPT !.usage = @ + n, !.gen = @ + 1].intents = r.intents
      /\ [r EXCEPT !.usage = n, !.gen = @ + 1].intents = r.intents
  BY <1>2 DEF Journal
<1>5. Reconciled(d, n).intents = d.intents
  BY DEF Reconciled, Journal
<1>. QED BY <1>1, <1>3, <1>4, <1>5 DEF r
(* An actor past its dispatch that is not waiting for an answer: nothing   *)
(* of its mutation is on the wire.                                         *)
LEMMA OwnUnneeded ==
    ASSUME JournalInv, NEW a \in Actors, pc[a] \in Owning \ {"await"}
    PROVE  Unneeded(loc[a].mid, a)
BY DEF Unneeded, JournalInv, RequestsAreAwaited, IdsAreUnique, Owning

(* The mutation an actor recovers: its deadline has passed.                *)
LEMMA DueUnneeded ==
    ASSUME TypeOK, JournalInv, NEW a \in Actors, pc[a] \in Recovering,
           NEW i \in db.intents, i.mid = loc[a].mid, i.phase = "dispatched"
    PROVE  Unneeded(i.mid, a)
<1>1. ASSUME NEW r \in wire, r.mid = i.mid PROVE FALSE
  <2>1. PICK j \in db.intents : /\ j.mid = r.mid /\ j.phase = "dispatched"
                                /\ LastLanding(r) < j.recoverAfter
    BY DEF JournalInv, EveryRequestIsJournaled, Covers
  <2>2. j.recoverAfter <= now /\ r.until >= now
    BY <1>1, <2>1 DEF JournalInv, RecoveryWaits, RequestsAreLive
  <2>3. r.until <= LastLanding(r) /\ LastLanding(r) \in Int /\ r.until \in Int
    BY TimeAssumption DEF LastLanding, TypeOK, Request
  <2>. QED BY <2>1, <2>2, <2>3 DEF TypeOK, Journal, Intent
<1>2. ASSUME NEW b \in Actors \ {a}, pc[b] \in {"dispatchSync", "send"},
             loc[b].until >= now, loc[b].mid = i.mid
      PROVE  FALSE
  <2>1. PICK j \in db.intents : /\ j.mid = i.mid /\ j.phase = "dispatched"
                                /\ loc[b].until + Settle < j.recoverAfter
    BY <1>2 DEF JournalInv, CapabilityIsCovered, Covers
  <2>2. j.recoverAfter <= now
    BY <1>2, <2>1 DEF JournalInv, RecoveryWaits
  <2>3. loc[b].until \in Int
    BY DEF TypeOK, Locals
  <2>. QED BY <1>2, <2>1, <2>2, <2>3, TimeAssumption DEF TypeOK, Journal, Intent
<1>. QED BY <1>1, <1>2 DEF Unneeded

(* Taking intent m out of the journal shrinks it if m is not needed.       *)
LEMMA RetireShrinks ==
    ASSUME TypeOK, NEW a \in Actors, NEW m,
           db'.intents = {i \in db.intents : i.mid # m}, aof' = aof,
           UNCHANGED <<wire, now, uuid>>,
           \A i \in db.intents : i.mid = m /\ i.phase = "dispatched" => Unneeded(m, a)
    PROVE  ShrinksJournal(a)
BY DEF ShrinksJournal

LEMMA SamePhase ==
    ASSUME JournalInv, NEW m, NEW e, NEW ph \in Phases, Holds(db, m, e, ph)
    PROVE  \A i \in db.intents : i.mid = m /\ i.phase = ph
BY DEF Holds, JournalInv, SingleIntent, Phases

LEMMA MoveEffect ==
    ASSUME TypeOK, NEW a \in Actors, NEW p \in Places, NEW l, MoveWith(a, p, l)
    PROVE  /\ pc'[a] = p /\ loc'[a] = l
           /\ \A b \in Actors \ {a} : pc'[b] = pc[b] /\ loc'[b] = loc[b]
BY DEF MoveWith, Move, TypeOK

(* Entering and leaving the serialized section.                            *)
LEMMA EntrySafe ==
    ASSUME TypeOK, TypeOK', JournalInv, NEW a \in Actors,
           TakeLease(a) \/ Leave(a) \/ \E job \in Jobs : TakeFence(a, job)
    PROVE  JournalInv'
<1>1. OnlyActor(a) /\ pc'[a] \in {"inspect", "idle", "fenced"}
  BY DEF TakeLease, Leave, TakeFence, Move, MoveWith, TypeOK, OnlyActor
<1>2. ShrinksJournal(a)
  BY DEF TakeLease, Leave, TakeFence, store, redis, ShrinksJournal
<1>3. pc'[a] \notin Owning /\ pc'[a] \notin Recovering
  BY <1>1 DEF Owning, BeforeDispatch, Recovering
<1>. QED BY <1>1, <1>2, <1>3, QuietStep

QuietPlaces == Places \ (Owning \cup Recovering)

(* Going to a place without a mutation, leaving Redis alone.               *)
LEMMA QuietMove ==
    ASSUME TypeOK, TypeOK', JournalInv, NEW a \in Actors, NEW p \in QuietPlaces, NEW l,
           MoveWith(a, p, l), ShrinksJournal(a)
    PROVE  JournalInv'
<1>1. OnlyActor(a) /\ pc'[a] = p
  BY MoveEffect DEF OnlyActor, QuietPlaces, TypeOK
<1>. QED BY <1>1, QuietStep DEF QuietPlaces

LEMMA QuietNames ==
    {"leave", "cached", "snapshot", "begin", "recheck", "expire", "inspect", "scan",
     "install"} \subseteq QuietPlaces
BY DEF QuietPlaces, Places, Owning, BeforeDispatch, Recovering

LEMMA QuitSafe ==
    ASSUME TypeOK, TypeOK', JournalInv, NEW a \in Actors, Quit(a), ShrinksJournal(a)
    PROVE  JournalInv'
BY QuietMove, QuietNames DEF Quit

LEMMA ResumeSafe ==
    ASSUME TypeOK, TypeOK', JournalInv, NEW a \in Actors, NEW p \in QuietPlaces,
           Resume(a, p), ShrinksJournal(a)
    PROVE  JournalInv'
BY QuietMove DEF Resume

LEMMA ProceedSafe ==
    ASSUME TypeOK, TypeOK', JournalInv, NEW a \in Actors, Proceed(a), ShrinksJournal(a)
    PROVE  JournalInv'
BY ResumeSafe, QuitSafe, QuietNames DEF Proceed

(* Whoever classifies an intent as recoverable has seen its deadline pass. *)
LEMMA ClassifySafe ==
    ASSUME TypeOK, TypeOK', JournalInv, NEW a \in Actors, NEW i \in db.intents,
           Classify(a, i), ShrinksJournal(a)
    PROVE  JournalInv'
<1>. DEFINE l == [loc[a] EXCEPT !.mid = i.mid, !.epoch = i.epoch,
                                !.deadline = i.recoverAfter, !.fresh = TRUE]
<1>0. i \in Intent /\ loc[a] \in Locals
  BY DEF TypeOK, Journal
<1>1. CASE i.phase = "preflight"
  BY <1>1, QuietMove, QuietNames DEF Classify
<1>2. CASE i.phase # "preflight" /\ ~Recoverable(i.recoverAfter)
  BY <1>2, QuietMove, QuietNames DEF Classify
<1>3. CASE i.phase # "preflight" /\ Recoverable(i.recoverAfter)
  <2>1. MoveWith(a, "probe", l)
    BY <1>3 DEF Classify
  <2>2. OnlyActor(a) /\ pc'[a] = "probe" /\ loc'[a].mid = i.mid
    <3>1. l.mid = i.mid
      BY <1>0 DEF Locals
    <3>. HIDE DEF l
    <3>2. pc'[a] = "probe" /\ loc'[a] = l
      BY <2>1, MoveEffect DEF Places
    <3>. QED BY <3>1, <3>2, <2>1, MoveEffect DEF OnlyActor, TypeOK, Places
  <2>3. i.phase = "dispatched" /\ i.recoverAfter <= now
    BY <1>0, <1>3 DEF Intent, Phases, Recoverable, TypeOK
  <2>4. OwnsOn(a)
    BY <2>2 DEF OwnsOn, Owning, BeforeDispatch
  <2>5. RecoversOn(a)
    <3>1. i.mid <= uuid
      BY DEF JournalInv, IdsAreUnique
    <3>2. \A b \in Actors : pc[b] \in BeforeDispatch => loc[b].mid # i.mid
      BY <2>3 DEF JournalInv, DispatchedOnce, IsDispatched
    <3>3. \A d \in {db, aof} : \A j \in d.intents :
             j.mid = i.mid /\ j.phase = "dispatched" => j = i
      BY <2>3 DEF JournalInv, DispatchedOnce, SingleIntent
    <3>. QED BY <2>2, <2>3, <3>1, <3>2, <3>3 DEF RecoversOn
  <2>. QED BY <2>2, <2>4, <2>5, ActorStep
<1>. QED BY <1>1, <1>2, <1>3

(* A recovery that goes on with the same intent.                           *)
LEMMA RecoveringMove ==
    ASSUME TypeOK, TypeOK', JournalInv, NEW a \in Actors, pc[a] \in Recovering,
           NEW p \in Recovering, NEW l \in Locals, l.mid = loc[a].mid,
           MoveWith(a, p, l), ShrinksJournal(a)
    PROVE  JournalInv'
<1>1. OnlyActor(a) /\ pc'[a] = p /\ loc'[a].mid = loc[a].mid
  BY MoveEffect DEF OnlyActor, TypeOK, Recovering, Places
<1>2. OwnsOn(a)
  BY <1>1 DEF OwnsOn, Owning, BeforeDispatch, Recovering
<1>3. RecoversOn(a)
  BY <1>1 DEF RecoversOn, JournalInv, IdsAreUnique, DispatchedOnce, RecoveryWaits
<1>. QED BY <1>1, <1>2, <1>3, ActorStep

(* The recovery of an intent, from its inspection to its publication.      *)
LEMMA RecoverySafe ==
    ASSUME TypeOK, TypeOK', JournalInv, NEW a \in Actors, Recovery(a)
    PROVE  JournalInv'
<1>. USE DEF store, redis, locks
<1>0. /\ loc[a] \in Locals /\ db \in Journal /\ loc[a].mid \in Nat
      /\ loc[a].after \in QuietPlaces
  BY QuietNames DEF TypeOK, Locals
<1>. DEFINE still == db' = db /\ aof' = aof /\ UNCHANGED <<wire, now, uuid>>
<1>a. still => ShrinksJournal(a)
  BY DEF ShrinksJournal
<1>b. \A x : \A t : /\ [loc[a] EXCEPT !.fresh = x].mid = loc[a].mid
                    /\ [loc[a] EXCEPT !.total = t].mid = loc[a].mid
                    /\ x \in BOOLEAN => [loc[a] EXCEPT !.fresh = x] \in Locals
                    /\ t \in Int => [loc[a] EXCEPT !.total = t] \in Locals
  BY <1>0 DEF Locals
<1>c. \A p \in Places : Move(a, p) /\ UNCHANGED loc => MoveWith(a, p, loc[a])
  BY DEF MoveWith, TypeOK
<1>d. {"probe", "confirm", "rescan", "publish"} \subseteq Recovering
  BY DEF Recovering
<1>e. Recovering \subseteq Places /\ QuietPlaces \subseteq Places
  BY DEF Recovering, Places, QuietPlaces
<1>f. \A t \in Totals \cup {physical} : t \in Int
  BY DataAssumption DEF TypeOK
<1>1. ASSUME Inspect(a) PROVE JournalInv'
  BY <1>0, <1>1, <1>a, ResumeSafe, ClassifySafe DEF Inspect
<1>2. ASSUME Expire(a) PROVE JournalInv'
  <2>1. CASE Holds(db, loc[a].mid, loc[a].epoch, "preflight")
    <3>1. /\ db' = Retire(db, loc[a].mid) /\ MoveWith(a, "recheck", loc[a])
          /\ aof' = aof /\ UNCHANGED <<wire, now, uuid>>
      BY <1>2, <2>1, <1>c, <1>e, QuietNames DEF Expire
    <3>2. \A i \in db.intents : i.phase # "dispatched"
      BY <2>1, SamePhase DEF Phases
    <3>3. ShrinksJournal(a)
      <4>1. db'.intents = {i \in db.intents : i.mid # loc[a].mid}
        BY <1>0, <3>1, RetireIntents
      <4>. QED BY <3>1, <3>2, <4>1, RetireShrinks
    <3>. QED BY <3>1, <3>3, QuietMove, QuietNames
  <2>2. CASE ~Holds(db, loc[a].mid, loc[a].epoch, "preflight")
    <3>1. still
      BY <1>2, <2>2 DEF Expire
    <3>2. \/ MoveWith(a, "recheck", loc[a])
          \/ \E i \in db.intents : Classify(a, i)
          \/ Quit(a)
      BY <1>2, <2>2, <1>c, <1>e, QuietNames DEF Expire
    <3>. QED BY <3>1, <3>2, <1>a, QuietMove, QuietNames, ClassifySafe, QuitSafe
  <2>. QED BY <2>1, <2>2
<1>3. ASSUME Probe(a) PROVE JournalInv'
  <2>1. PICK t \in Totals \cup {physical} :
          MoveWith(a, "confirm", [loc[a] EXCEPT !.total = t])
    BY <1>3 DEF Probe
  <2>2. pc[a] \in Recovering /\ still
    BY <1>3 DEF Probe, Recovering
  <2>. QED BY <2>1, <2>2, <1>a, <1>b, <1>d, <1>f, RecoveringMove
<1>4. ASSUME Confirm(a) PROVE JournalInv'
  <2>1. \/ MoveWith(a, "recheck", loc[a])
        \/ MoveWith(a, "rescan", [loc[a] EXCEPT !.fresh = TRUE])
        \/ Quit(a)
    BY <1>4, <1>c, <1>e, QuietNames DEF Confirm
  <2>2. pc[a] \in Recovering /\ still
    BY <1>4 DEF Confirm, Recovering
  <2>. QED BY <2>1, <2>2, <1>a, <1>b, <1>d, RecoveringMove, QuietMove, QuietNames, QuitSafe
<1>5. ASSUME Rescan(a) PROVE JournalInv'
  <2>1. MoveWith(a, "publish", loc[a]) \/ Quit(a)
    BY <1>5, <1>c, <1>d, <1>e DEF Rescan
  <2>2. pc[a] \in Recovering /\ still
    BY <1>5 DEF Rescan, Recovering
  <2>. QED BY <1>0, <2>1, <2>2, <1>a, <1>d, RecoveringMove, QuitSafe
<1>6. ASSUME Publish(a) PROVE JournalInv'
  <2>1. pc[a] \in Recovering
    BY <1>6 DEF Publish, Recovering
  <2>2. CASE Holds(db, loc[a].mid, loc[a].epoch, "dispatched")
    <3>1. /\ db' = Resolved(db, loc[a].mid, loc[a].total) /\ MoveWith(a, "recheck", loc[a])
          /\ aof' = aof /\ UNCHANGED <<wire, now, uuid>>
      BY <1>6, <2>2, <1>c, <1>e, QuietNames DEF Publish
    <3>2. ShrinksJournal(a)
      <4>1. db'.intents = {i \in db.intents : i.mid # loc[a].mid}
        BY <1>0, <3>1, RetireIntents
      <4>2. ASSUME NEW i \in db.intents, i.mid = loc[a].mid, i.phase = "dispatched"
            PROVE  Unneeded(loc[a].mid, a)
        BY <2>1, <4>2, DueUnneeded
      <4>. QED BY <3>1, <4>1, <4>2, RetireShrinks
    <3>. QED BY <3>1, <3>2, QuietMove, QuietNames
  <2>3. CASE ~Holds(db, loc[a].mid, loc[a].epoch, "dispatched")
    BY <1>6, <2>3, <1>a, QuitSafe DEF Publish
  <2>. QED BY <2>2, <2>3
<1>7. ASSUME Recheck(a) PROVE JournalInv'
  BY <1>0, <1>7, <1>a, ResumeSafe, QuitSafe DEF Recheck
<1>. QED BY <1>1, <1>2, <1>3, <1>4, <1>5, <1>6, <1>7 DEF Recovery

(* Using and rebuilding the total never touches an intent.                 *)
LEMMA AccountingSafe ==
    ASSUME TypeOK, TypeOK', JournalInv, NEW a \in Actors, Accounting(a)
    PROVE  JournalInv'
<1>. USE DEF store, redis, locks
<1>0. db \in Journal
  BY DEF TypeOK
<1>1. ShrinksJournal(a)
  <2>1. db'.intents = db.intents
    BY <1>0, RetireIntents DEF Accounting, Cached, Snapshot, Scan, Install
  <2>2. aof' = aof /\ UNCHANGED <<wire, now, uuid>>
    BY DEF Accounting, Cached, Snapshot, Scan, Install
  <2>. QED BY <2>1, <2>2 DEF ShrinksJournal
<1>2. ASSUME Cached(a) PROVE JournalInv'
  BY <1>1, <1>2, ProceedSafe, QuietMove, QuietNames DEF Cached
<1>3. ASSUME Snapshot(a) PROVE JournalInv'
  BY <1>1, <1>3, QuietMove, QuietNames DEF Snapshot
<1>4. ASSUME Scan(a) PROVE JournalInv'
  BY <1>1, <1>4, QuietMove, QuietNames DEF Scan
<1>5. ASSUME Install(a) PROVE JournalInv'
  BY <1>1, <1>5, ProceedSafe, ResumeSafe, QuitSafe, QuietNames DEF Install
<1>. QED BY <1>2, <1>3, <1>4, <1>5 DEF Accounting

(* Steps of a mutation that leave the intents of Redis memory alone, or    *)
(* only take out one's own.                                                *)
LEMMA OwnerMove ==
    ASSUME TypeOK, TypeOK', JournalInv, NEW a \in Actors, pc[a] \in Owning,
           NEW p \in Owning \ {"await", "dispatchSync", "send", "dispatch"}, NEW l,
           l.mid = loc[a].mid, p \in BeforeDispatch => l.ok = loc[a].ok,
           pc[a] = "await" => loc[a].ok,
           p \in BeforeDispatch => pc[a] \in BeforeDispatch,
           MoveWith(a, p, l), ShrinksJournal(a)
    PROVE  JournalInv'
<1>1. OnlyActor(a) /\ pc'[a] = p /\ loc'[a] = l
  BY MoveEffect DEF OnlyActor, TypeOK, Owning, BeforeDispatch, Places
<1>2. OwnsOn(a)
  BY <1>1 DEF OwnsOn
<1>3. RecoversOn(a)
  BY <1>1 DEF RecoversOn, Recovering, Owning, BeforeDispatch
<1>. QED BY <1>1, <1>2, <1>3, ActorStep

(* The actor waits for its own connection's WAITAOF.                       *)
LEMMA SyncSafe ==
    ASSUME TypeOK, TypeOK', JournalInv, NEW a \in Actors, BeginSync(a) \/ DispatchSync(a)
    PROVE  JournalInv'
<1>. USE DEF BeginSync, DispatchSync, WaitAof, Fsync, Move, store, locks
<1>1. OnlyActor(a) /\ loc'[a] = loc[a]
  BY DEF OnlyActor, TypeOK
<1>2. ShrinksJournal(a)
  BY DEF ShrinksJournal
<1>3. \/ pc[a] = "beginSync" /\ pc'[a] = "measure"
      \/ pc[a] = "dispatchSync" /\ pc'[a] = "send"
  BY DEF TypeOK
<1>4. OwnsOn(a)
  BY <1>1, <1>3 DEF OwnsOn, Owning, BeforeDispatch
<1>5. RecoversOn(a)
  BY <1>3 DEF RecoversOn, Recovering
<1>. QED BY <1>1, <1>2, <1>4, <1>5, ActorStep

(* The capability minted now expires, and its request lands, before the    *)
(* recovery deadline counted from any later dispatch.                      *)
LEMMA MeasureSafe ==
    ASSUME TypeOK, TypeOK', JournalInv, NEW a \in Actors, Measure(a)
    PROVE  JournalInv'
<1>. USE DEF store, redis, locks
<1>1. PICK lead \in Leads :
        MoveWith(a, "dispatch", [loc[a] EXCEPT !.old = size[loc[a].key],
                                     !.until = ValidUntil(lead), !.window = Window(lead)])
  BY DEF Measure
<1>. DEFINE l == [loc[a] EXCEPT !.old = size[loc[a].key],
                                !.until = ValidUntil(lead), !.window = Window(lead)]
<1>2. /\ l.mid = loc[a].mid /\ l.ok = loc[a].ok
      /\ l.until = ValidUntil(lead) /\ l.window = Window(lead)
  BY DEF TypeOK, Locals
<1>. HIDE DEF l
<1>3. OnlyActor(a) /\ pc'[a] = "dispatch" /\ loc'[a] = l
  BY <1>1, MoveEffect DEF OnlyActor, TypeOK, Places, l
<1>4. ValidUntil(lead) + Settle < now + RecoveryDelay(Window(lead))
  <2>1. lead \in Int
    BY TimeAssumption
  <2>. QED BY <2>1, TimeAssumption DEF ValidUntil, RecoveryDelay, Window, TypeOK
<1>5. ShrinksJournal(a) /\ pc[a] = "measure"
  BY DEF Measure, ShrinksJournal
<1>6. OwnsOn(a)
  <2>1. loc'[a].until + Settle < now + RecoveryDelay(loc'[a].window)
    BY <1>2, <1>3, <1>4
  <2>. QED BY <1>2, <1>3, <1>5, <2>1 DEF OwnsOn, Owning, BeforeDispatch
<1>7. RecoversOn(a)
  BY <1>3 DEF RecoversOn, Recovering
<1>. QED BY <1>3, <1>5, <1>6, <1>7, ActorStep

(* Taking one's own intent back, or settling it.                           *)
LEMMA RetiringSafe ==
    ASSUME TypeOK, TypeOK', JournalInv, NEW a \in Actors,
           UndoBegin(a) \/ UndoDispatch(a) \/ Commit(a) \/ SettleByScan(a)
    PROVE  JournalInv'
<1>. USE DEF store, redis, locks
<1>0. db \in Journal /\ pc[a] \in Owning \ {"await"} /\ loc[a] \in Locals
  BY DEF TypeOK, UndoBegin, UndoDispatch, Undo, Commit, SettleByScan, Owning, BeforeDispatch
<1>1. ShrinksJournal(a)
  <2>1. db'.intents = db.intents \/ db'.intents = {i \in db.intents : i.mid # loc[a].mid}
    <3>1. \/ db' = db \/ db' = Retire(db, loc[a].mid)
          \/ db' = Committed(db, loc[a].mid, loc[a].delta)
          \/ db' = Resolved(db, loc[a].mid, loc[a].total)
      BY DEF UndoBegin, UndoDispatch, Undo, Commit, SettleByScan
    <3>. QED BY <1>0, <3>1, RetireIntents
  <2>2. aof' = aof /\ UNCHANGED <<wire, now, uuid>>
    BY DEF UndoBegin, UndoDispatch, Undo, Commit, SettleByScan
  <2>3. Unneeded(loc[a].mid, a)
    BY <1>0, OwnUnneeded
  <2>4. CASE db'.intents = db.intents
    BY <2>2, <2>4 DEF ShrinksJournal
  <2>. QED BY <2>1, <2>2, <2>3, <2>4, RetireShrinks
<1>2. CASE Quit(a)
  BY <1>1, <1>2, QuitSafe
<1>3. CASE ~Quit(a)
  <2>1. MoveWith(a, "repair", [loc[a] EXCEPT !.fresh = TRUE])
    BY <1>3 DEF UndoBegin, UndoDispatch, Undo, Commit, SettleByScan
  <2>2. [loc[a] EXCEPT !.fresh = TRUE].mid = loc[a].mid
    BY <1>0 DEF Locals
  <2>3. "repair" \in Owning \ {"await", "dispatchSync", "send", "dispatch"}
        /\ "repair" \notin BeforeDispatch
    BY DEF Owning, BeforeDispatch
  <2>. QED BY <1>0, <1>1, <2>1, <2>2, <2>3, OwnerMove
<1>. QED BY <1>2, <1>3

(* The rest of a mutation: its request has been answered, or given up.     *)
LEMMA AnsweredSafe ==
    ASSUME TypeOK, TypeOK', JournalInv, NEW a \in Actors,
           Reply(a) \/ GiveUp(a) \/ Head(a) \/ Repair(a)
    PROVE  JournalInv'
<1>. USE DEF store, redis, locks
<1>0. /\ pc[a] \in Owning /\ loc[a] \in Locals
      /\ {"head", "commit", "settle"} \subseteq
            (Owning \ {"await", "dispatchSync", "send", "dispatch"}) \ BeforeDispatch
  BY DEF TypeOK, Reply, GiveUp, Head, Repair, Owning, BeforeDispatch
<1>1. ShrinksJournal(a)
  BY DEF Reply, GiveUp, Head, Repair, ShrinksJournal
<1>2. ASSUME Reply(a) PROVE JournalInv'
  <2>1. MoveWith(a, "head", loc[a]) /\ loc[a].ok
    BY <1>2 DEF Reply, MoveWith, TypeOK
  <2>. QED BY <1>0, <1>1, <2>1, OwnerMove
<1>3. ASSUME GiveUp(a) PROVE JournalInv'
  BY <1>1, <1>3, QuitSafe DEF GiveUp
<1>4. ASSUME Head(a) PROVE JournalInv'
  <2>. DEFINE l == [Blank EXCEPT !.mid = loc[a].mid, !.epoch = loc[a].epoch,
                                 !.delta = size[loc[a].key] - loc[a].old]
  <2>1. l.mid = loc[a].mid
    BY BlankType DEF Locals
  <2>2. MoveWith(a, "commit", l) \/ Quit(a)
    BY <1>4 DEF Head
  <2>3. pc[a] # "await"
    BY <1>4 DEF Head
  <2>. HIDE DEF l
  <2>. QED BY <1>0, <1>1, <2>1, <2>2, <2>3, OwnerMove, QuitSafe
<1>5. ASSUME Repair(a) PROVE JournalInv'
  <2>1. PICK t \in Totals \cup {physical} :
          MoveWith(a, "settle", [loc[a] EXCEPT !.total = t])
    BY <1>5 DEF Repair
  <2>2. [loc[a] EXCEPT !.total = t].mid = loc[a].mid /\ pc[a] # "await"
    BY <1>0, <1>5 DEF Locals, Repair
  <2>. QED BY <1>0, <1>1, <2>1, <2>2, OwnerMove
<1>. QED BY <1>2, <1>3, <1>4, <1>5

(* An exception goes to a handler that may undo the intent, never to one   *)
(* that sends the request.                                                 *)
LEMMA RaiseSafe ==
    ASSUME TypeOK, TypeOK', JournalInv, NEW a \in Actors, Raise(a)
    PROVE  JournalInv'
<1>1. ShrinksJournal(a)
  BY DEF Raise, ShrinksJournal, store, redis
<1>2. CASE Quit(a)
  BY <1>1, <1>2, QuitSafe
<1>3. CASE ~Quit(a)
  <2>. DEFINE h == Handler(pc[a])
  <2>1. MoveWith(a, h, [loc[a] EXCEPT !.fresh = TRUE]) /\ h # "leave"
    BY <1>3 DEF Raise
  <2>2. /\ [loc[a] EXCEPT !.fresh = TRUE].mid = loc[a].mid
        /\ [loc[a] EXCEPT !.fresh = TRUE].ok = loc[a].ok
    BY DEF TypeOK, Locals
  <2>3. /\ pc[a] \in Owning \ {"await"}
        /\ h \in Owning \ {"await", "dispatchSync", "send", "dispatch"}
        /\ h \in BeforeDispatch => pc[a] \in BeforeDispatch
    BY <2>1 DEF Handler, Owning, BeforeDispatch
  <2>. HIDE DEF h
  <2>. QED BY <1>1, <2>1, <2>2, <2>3, OwnerMove
<1>. QED BY <1>2, <1>3

(* A new intent gets an identifier nobody has seen, and only when no other *)
(* intent is pending: nothing can be on the wire then.                     *)
LEMMA BeginSafe ==
    ASSUME TypeOK, TypeOK', JournalInv, NEW a \in Actors, Begin(a)
    PROVE  JournalInv'
<1>. USE DEF store, redis, locks
<1>1. CASE UNCHANGED <<db, uuid>> /\ Quit(a)
  <2>1. ShrinksJournal(a)
    BY <1>1 DEF Begin, ShrinksJournal
  <2>. QED BY <1>1, <2>1, QuitSafe
<1>2. CASE MayBegin(db) /\ uuid < MaxMutations
  <2>0. /\ uuid' = uuid + 1 /\ db' = Begun(db, uuid + 1) /\ db.intents = {}
        /\ aof' = aof /\ UNCHANGED <<wire, now>>
    BY <1>2 DEF Begin, MayBegin
  <2>. DEFINE l(k, to) == [Blank EXCEPT !.job = "mutate", !.key = k, !.to = to,
                                        !.mid = uuid + 1, !.epoch = db.epoch + 1]
  <2>1. PICK k \in Keys, to \in Sizes \cup {0} : MoveWith(a, "beginSync", l(k, to))
    BY <1>2 DEF Begin
  <2>2. l(k, to).mid = uuid + 1 /\ ~l(k, to).ok
    BY BlankType DEF Locals, Blank
  <2>. HIDE DEF l
  <2>3. /\ pc'[a] = "beginSync" /\ loc'[a].mid = uuid + 1 /\ ~loc'[a].ok
        /\ \A b \in Actors \ {a} : pc'[b] = pc[b] /\ loc'[b] = loc[b]
    BY <2>1, <2>2, MoveEffect DEF Places
  <2>4. db'.intents = {[mid |-> uuid + 1, epoch |-> db.epoch + 1,
                        phase |-> "preflight", recoverAfter |-> 0]}
    BY <2>0 DEF Begun, TypeOK, Journal
  <2>5. wire = {}
    BY <2>0 DEF JournalInv, EveryRequestIsJournaled, Covers
  <2>6. \A b \in Actors : pc[b] \in Owning \cup Recovering =>
            loc[b].mid # uuid + 1
    BY DEF JournalInv, IdsAreUnique, TypeOK, Locals
  <2>7. \A i \in aof.intents : i.mid # uuid + 1
    BY DEF JournalInv, IdsAreUnique, TypeOK, Journal, Intent
  <2>8. EveryRequestIsJournaled' /\ SingleIntent' /\ RequestsAreAwaited' /\ RequestsAreLive'
    BY <2>0, <2>3, <2>4, <2>5 DEF EveryRequestIsJournaled, SingleIntent, RequestsAreAwaited,
                            RequestsAreLive, JournalInv
  <2>9. IdsAreUnique'
    <3>1. uuid \in Nat /\ \A b \in Actors : loc[b].mid \in Nat
      BY DEF TypeOK, Locals
    <3>2. \A i \in db'.intents : i.mid <= uuid'
      BY <2>0, <2>4, <3>1
    <3>3. \A i \in aof'.intents : i.mid <= uuid'
      BY <2>0, <3>1 DEF JournalInv, IdsAreUnique, TypeOK, Journal, Intent
    <3>4. \A b \in Actors : pc'[b] \in Owning \cup Recovering => loc'[b].mid <= uuid'
      BY <2>0, <2>3, <3>1 DEF JournalInv, IdsAreUnique
    <3>5. \A b, c \in Actors :
            pc'[b] \in Owning /\ pc'[c] \in Owning /\ loc'[b].mid = loc'[c].mid => b = c
      BY <2>3, <2>6 DEF JournalInv, IdsAreUnique
    <3>. QED BY <2>0, <2>5, <3>2, <3>3, <3>4, <3>5 DEF IdsAreUnique
  <2>10. DispatchedOnce'
    <3>1. ASSUME NEW m, IsDispatched(m)'
          PROVE  IsDispatched(m) /\ m # uuid + 1
      BY <2>0, <2>4, <2>7, <3>1 DEF IsDispatched
    <3>2. ASSUME NEW b \in Actors, pc'[b] \in BeforeDispatch, IsDispatched(loc[b].mid)'
          PROVE  FALSE
      <4>1. IsDispatched(loc'[b].mid) /\ loc'[b].mid # uuid + 1
        BY <3>1, <3>2
      <4>. QED BY <2>3, <3>2, <4>1 DEF JournalInv, DispatchedOnce
    <3>3. \A b, c \in Actors : pc'[b] \in BeforeDispatch /\ pc'[c] \in Recovering =>
             loc'[c].mid # loc'[b].mid
      BY <2>3, <2>6 DEF JournalInv, DispatchedOnce, Recovering
    <3>4. \A i \in db'.intents : i.phase # "dispatched"
      BY <2>4
    <3>. QED BY <3>2, <3>3, <3>4 DEF DispatchedOnce
  <2>11. RecoveryWaits'
    BY <2>0, <2>3, <2>4 DEF JournalInv, RecoveryWaits, Recovering
  <2>12. CapabilityIsCovered'
    <3>1. \A b \in Actors : pc[b] \in {"dispatchSync", "send"} => loc[b].until < now
      BY <2>0 DEF JournalInv, CapabilityIsCovered, Covers, TypeOK, Locals
    <3>2. \A b \in Actors : pc'[b] = "dispatch" =>
             loc'[b].until + Settle < now + RecoveryDelay(loc'[b].window)
      BY <2>3 DEF JournalInv, CapabilityIsCovered
    <3>3. \A b \in Actors : pc'[b] \in {"dispatchSync", "send"} => ~(loc'[b].until >= now)
      BY <2>3, <3>1 DEF TypeOK, Locals
    <3>. QED BY <2>0, <3>2, <3>3 DEF CapabilityIsCovered, RecoveryDelay
  <2>. QED BY <2>8, <2>9, <2>10, <2>11, <2>12 DEF JournalInv
<1>. QED BY <1>1, <1>2 DEF Begin

(* The only intent becomes a dispatched one, with a deadline after the     *)
(* last instant at which the capability can change the store.              *)
LEMMA DispatchSafe ==
    ASSUME TypeOK, TypeOK', JournalInv, NEW a \in Actors, Dispatch(a)
    PROVE  JournalInv'
<1>. USE DEF store, redis, locks
<1>. DEFINE m == loc[a].mid
            t == now + RecoveryDelay(loc[a].window)
            l == [loc[a] EXCEPT !.window = 0]
<1>0. pc[a] = "dispatch" /\ aof' = aof /\ UNCHANGED <<wire, now, uuid>> /\ t \in Nat
  <2>1. loc[a].window \in Nat
    BY DEF TypeOK, Locals
  <2>2. t \in Nat
    BY <2>1, TimeAssumption DEF RecoveryDelay, TypeOK
  <2>. QED BY <2>2 DEF Dispatch
<1>1. CASE ~Holds(db, m, loc[a].epoch, "preflight")
  <2>1. ShrinksJournal(a) /\ Quit(a)
    BY <1>1 DEF Dispatch, ShrinksJournal
  <2>. QED BY <2>1, QuitSafe
<1>2. CASE Holds(db, m, loc[a].epoch, "preflight")
  <2>1. db' = Dispatched(db, m, t) /\ MoveWith(a, "dispatchSync", l)
    BY <1>2 DEF Dispatch
  <2>2. l.mid = m /\ l.until = loc[a].until /\ l.ok = loc[a].ok
    BY DEF TypeOK, Locals
  <2>. HIDE DEF l
  <2>3. /\ pc'[a] = "dispatchSync" /\ loc'[a].mid = m /\ loc'[a].until = loc[a].until
        /\ loc'[a].ok = loc[a].ok
        /\ \A b \in Actors \ {a} : pc'[b] = pc[b] /\ loc'[b] = loc[b]
    BY <2>1, <2>2, MoveEffect DEF Places
  <2>4. PICK i \in db.intents : i.mid = m /\ i.phase = "preflight"
    BY <1>2 DEF Holds
  <2>5. db.intents = {i} /\ i \in Intent
    BY DEF JournalInv, SingleIntent, TypeOK, Journal
  <2>. DEFINE j == [i EXCEPT !.phase = "dispatched", !.recoverAfter = t]
  <2>6. j.mid = m /\ j.phase = "dispatched" /\ j.recoverAfter = t
    BY <2>4, <2>5 DEF Intent
  <2>7. db'.intents = {j}
    <3>1. Dispatched(db, m, t).intents =
            {IF k.mid = m THEN [k EXCEPT !.phase = "dispatched", !.recoverAfter = t]
                          ELSE k : k \in db.intents}
      BY DEF Dispatched, TypeOK, Journal
    <3>. QED BY <2>1, <2>4, <2>5, <3>1
  <2>. HIDE DEF j, t
  <2>8. wire = {}
    BY <2>4, <2>5 DEF JournalInv, EveryRequestIsJournaled, Covers
  <2>9. EveryRequestIsJournaled' /\ SingleIntent' /\ RequestsAreAwaited' /\ RequestsAreLive'
    BY <1>0, <2>3, <2>7, <2>8 DEF EveryRequestIsJournaled, SingleIntent, RequestsAreAwaited,
                                  RequestsAreLive, JournalInv, BeforeDispatch
  <2>10. IdsAreUnique'
    <3>1. m <= uuid
      BY <2>4 DEF JournalInv, IdsAreUnique
    <3>2. \A b \in Actors : pc'[b] \in Owning \cup Recovering =>
            loc'[b].mid = loc[b].mid /\ (pc'[b] \in Owning => pc[b] \in Owning)
                                     /\ pc[b] \in Owning \cup Recovering
      BY <1>0, <2>3 DEF Owning, BeforeDispatch
    <3>. QED BY <1>0, <2>6, <2>7, <2>8, <3>1, <3>2 DEF JournalInv, IdsAreUnique
  <2>11. DispatchedOnce'
    <3>0. ~IsDispatched(m) /\ \A b \in Actors : pc[b] \in Recovering => loc[b].mid # m
      BY <1>0 DEF JournalInv, DispatchedOnce, BeforeDispatch
    <3>1. ASSUME NEW b \in Actors, pc'[b] \in BeforeDispatch
          PROVE  b # a /\ pc[b] \in BeforeDispatch /\ loc'[b].mid = loc[b].mid
                 /\ loc[b].mid # m
      BY <1>0, <2>3, <3>1 DEF JournalInv, IdsAreUnique, Owning, BeforeDispatch
    <3>2. ASSUME NEW k, k # m, IsDispatched(k)' PROVE IsDispatched(k)
      BY <1>0, <2>6, <2>7, <3>2 DEF IsDispatched
    <3>3. ASSUME NEW b \in Actors, pc'[b] \in BeforeDispatch, IsDispatched(loc[b].mid)'
          PROVE  FALSE
      <4>1. IsDispatched(loc'[b].mid)
        BY <3>1, <3>2, <3>3
      <4>. QED BY <3>1, <3>3, <4>1 DEF JournalInv, DispatchedOnce
    <3>4. \A b, c \in Actors : pc'[b] \in BeforeDispatch /\ pc'[c] \in Recovering =>
             loc'[c].mid # loc'[b].mid
      BY <2>3, <3>1 DEF JournalInv, DispatchedOnce, Recovering
    <3>5. \A x \in aof'.intents : ~(x.mid = m /\ x.phase = "dispatched")
      BY <1>0, <3>0 DEF IsDispatched
    <3>. QED BY <2>6, <2>7, <3>3, <3>4, <3>5 DEF DispatchedOnce
  <2>12. RecoveryWaits'
    <3>1. ASSUME NEW b \in Actors, pc'[b] \in Recovering
          PROVE  pc[b] \in Recovering /\ loc'[b].mid = loc[b].mid /\ loc[b].mid # m
      BY <1>0, <2>3, <3>1 DEF JournalInv, DispatchedOnce, BeforeDispatch, Recovering
    <3>. QED BY <1>0, <2>6, <2>7, <3>1 DEF JournalInv, RecoveryWaits
  <2>13. CapabilityIsCovered'
    <3>1. \A b \in Actors : pc[b] \in {"dispatchSync", "send"} => ~(loc[b].until >= now)
      BY <2>4, <2>5 DEF JournalInv, CapabilityIsCovered, Covers
    <3>2. loc[a].until + Settle < t
      BY <1>0 DEF JournalInv, CapabilityIsCovered, t
    <3>3. Covers(db', m, loc[a].until + Settle)
      BY <2>6, <2>7, <3>2 DEF Covers
    <3>4. \A b \in Actors : pc'[b] = "dispatch" =>
             loc'[b].until + Settle < now + RecoveryDelay(loc'[b].window)
      BY <2>3 DEF JournalInv, CapabilityIsCovered
    <3>. QED BY <1>0, <2>3, <3>1, <3>3, <3>4 DEF CapabilityIsCovered, RecoveryDelay, Covers
  <2>. QED BY <2>9, <2>10, <2>11, <2>12, <2>13 DEF JournalInv
<1>. QED BY <1>1, <1>2

(* A request leaves only under a capability that is still valid, and such  *)
(* a capability is covered in memory and in the AOF.                       *)
LEMMA SendSafe ==
    ASSUME TypeOK, TypeOK', JournalInv, NEW a \in Actors, Send(a)
    PROVE  JournalInv'
<1>. USE DEF store, redis, locks
<1>0. pc[a] = "send" /\ UNCHANGED <<db, aof, now, uuid>>
  BY DEF Send
<1>1. CASE ~(loc[a].until >= now)
  <2>1. ShrinksJournal(a) /\ Quit(a)
    BY <1>1 DEF Send, ShrinksJournal
  <2>. QED BY <2>1, QuitSafe
<1>2. CASE loc[a].until >= now
  <2>. DEFINE q == [mid |-> loc[a].mid, key |-> loc[a].key, to |-> loc[a].to,
                    admitted |-> FALSE, until |-> loc[a].until]
              l == [loc[a] EXCEPT !.until = 0]
  <2>1. wire' = wire \cup {q} /\ MoveWith(a, "await", l)
    BY <1>2 DEF Send
  <2>2. l.mid = loc[a].mid /\ l.ok = loc[a].ok
    BY DEF TypeOK, Locals
  <2>3. /\ q.mid = loc[a].mid /\ q.until = loc[a].until /\ LastLanding(q) = q.until + Settle
    BY DEF LastLanding
  <2>. HIDE DEF l, q
  <2>4. /\ pc'[a] = "await" /\ loc'[a].mid = loc[a].mid /\ loc'[a].ok = loc[a].ok
        /\ \A b \in Actors \ {a} : pc'[b] = pc[b] /\ loc'[b] = loc[b]
    BY <2>1, <2>2, MoveEffect DEF Places
  <2>5. \A r \in wire : r.mid # loc[a].mid
    BY <1>0 DEF JournalInv, RequestsAreAwaited, Owning
  <2>6. EveryRequestIsJournaled'
    <3>1. Covers(db, q.mid, LastLanding(q)) /\ Covers(aof, q.mid, LastLanding(q))
      BY <1>0, <1>2, <2>3 DEF JournalInv, CapabilityIsCovered
    <3>. QED BY <1>0, <2>1, <3>1 DEF JournalInv, EveryRequestIsJournaled, LastLanding, Covers
  <2>7. SingleIntent' /\ RequestsAreLive'
    BY <1>0, <1>2, <2>1, <2>3 DEF JournalInv, SingleIntent, RequestsAreLive
  <2>8. ASSUME NEW b \in Actors
        PROVE  /\ loc'[b].mid = loc[b].mid
               /\ pc'[b] \in Owning => pc[b] \in Owning
               /\ pc'[b] \in Recovering => pc[b] \in Recovering
               /\ pc'[b] \in BeforeDispatch => pc[b] \in BeforeDispatch
    BY <1>0, <2>4 DEF Owning, BeforeDispatch, Recovering
  <2>9. IdsAreUnique'
    <3>1. loc[a].mid <= uuid
      BY <1>0 DEF JournalInv, IdsAreUnique, Owning
    <3>2. \A r, s \in wire' : r.mid = s.mid => r = s
      BY <2>1, <2>3, <2>5 DEF JournalInv, IdsAreUnique
    <3>3. \A r \in wire' : r.mid <= uuid
      BY <2>1, <2>3, <3>1 DEF JournalInv, IdsAreUnique
    <3>. QED BY <1>0, <2>8, <3>2, <3>3 DEF JournalInv, IdsAreUnique
  <2>10. RequestsAreAwaited'
    <3>0. ~loc[a].ok
      BY <1>0 DEF JournalInv, RequestsAreAwaited
    <3>1. ASSUME NEW b \in Actors \ {a}, pc'[b] \in Owning PROVE loc'[b].mid # q.mid
      BY <1>0, <2>3, <2>8, <3>1 DEF JournalInv, IdsAreUnique, Owning
    <3>. QED BY <2>1, <2>3, <2>4, <2>5, <2>8, <3>0, <3>1 DEF JournalInv, RequestsAreAwaited
  <2>11. DispatchedOnce' /\ RecoveryWaits'
    BY <1>0, <2>8 DEF JournalInv, DispatchedOnce, RecoveryWaits, IsDispatched
  <2>12. CapabilityIsCovered'
    BY <1>0, <2>4 DEF JournalInv, CapabilityIsCovered, RecoveryDelay, Covers
  <2>. QED BY <2>6, <2>7, <2>9, <2>10, <2>11, <2>12 DEF JournalInv
<1>. QED BY <1>1, <1>2

(* The store admits a request only while its capability is valid, so it    *)
(* lands before the deadline that covered the capability.                  *)
LEMMA AdmitSafe ==
    ASSUME TypeOK, JournalInv, NEW r \in wire, Admit(r)
    PROVE  JournalInv'
<1>. USE DEF store, redis, locks
<1>. DEFINE q == [r EXCEPT !.admitted = TRUE, !.until = now + Settle]
<1>0. wire' = (wire \ {r}) \cup {q} /\ UNCHANGED <<db, aof, now, pc, loc, uuid>>
  BY DEF Admit
<1>1. q.mid = r.mid /\ q.until = now + Settle /\ q.admitted
  BY DEF TypeOK, Request
<1>. HIDE DEF q
<1>2. EveryRequestIsJournaled'
  <2>1. LastLanding(r) = r.until + Settle /\ r.until >= now /\ r.until \in Int
    BY DEF LastLanding, Admit, JournalInv, RequestsAreLive, TypeOK, Request
  <2>2. LastLanding(q) = now + Settle
    BY <1>1 DEF LastLanding
  <2>3. LastLanding(q) <= LastLanding(r) /\ LastLanding(q) \in Int /\ LastLanding(r) \in Int
    BY <2>1, <2>2, TimeAssumption DEF TypeOK
  <2>4. ASSUME NEW d \in {db, aof}, Covers(d, r.mid, LastLanding(r))
        PROVE  Covers(d, q.mid, LastLanding(q))
    BY <1>1, <2>3, <2>4 DEF Covers, TypeOK, Journal, Intent
  <2>5. ASSUME NEW s \in wire'
        PROVE  Covers(db, s.mid, LastLanding(s)) /\ Covers(aof, s.mid, LastLanding(s))
    BY <1>0, <2>4 DEF JournalInv, EveryRequestIsJournaled
  <2>. QED BY <1>0, <2>5 DEF EveryRequestIsJournaled, Covers, LastLanding
<1>3. IdsAreUnique' /\ RequestsAreAwaited'
  BY <1>0, <1>1 DEF JournalInv, IdsAreUnique, RequestsAreAwaited
<1>4. SingleIntent' /\ DispatchedOnce' /\ RecoveryWaits'
  BY <1>0 DEF JournalInv, SingleIntent, DispatchedOnce, IsDispatched, RecoveryWaits
<1>5. CapabilityIsCovered'
  BY <1>0 DEF JournalInv, CapabilityIsCovered, RecoveryDelay, Covers
<1>6. RequestsAreLive'
  BY <1>0, <1>1, TimeAssumption DEF JournalInv, RequestsAreLive, TypeOK
<1>. QED BY <1>2, <1>3, <1>4, <1>5, <1>6 DEF JournalInv

(* A request that lands leaves the wire; its actor may now be answered.    *)
LEMMA LandSafe ==
    ASSUME TypeOK, JournalInv, NEW r \in wire, Land(r)
    PROVE  JournalInv'
<1>. USE DEF redis, locks
<1>0. wire' = wire \ {r} /\ UNCHANGED <<db, aof, now, pc, uuid>>
  BY DEF Land
<1>1. ASSUME NEW a \in Actors
      PROVE  /\ loc'[a].mid = loc[a].mid /\ loc'[a].until = loc[a].until
             /\ loc'[a].window = loc[a].window
             /\ ~(pc[a] = "await" /\ loc[a].mid = r.mid) => loc'[a].ok = loc[a].ok
  BY DEF Land, TypeOK, Locals
<1>2. EveryRequestIsJournaled' /\ RequestsAreLive'
  BY <1>0 DEF JournalInv, EveryRequestIsJournaled, RequestsAreLive, Covers, LastLanding
<1>3. IdsAreUnique'
  BY <1>0, <1>1 DEF JournalInv, IdsAreUnique
<1>4. RequestsAreAwaited'
  <2>1. ASSUME NEW a \in Actors, NEW s \in wire', pc[a] \in Owning, s.mid = loc[a].mid
        PROVE  pc[a] = "await" /\ ~loc'[a].ok
    BY <1>0, <1>1, <2>1 DEF JournalInv, RequestsAreAwaited, IdsAreUnique
  <2>2. ASSUME NEW a \in Actors, pc[a] \in BeforeDispatch \cup {"dispatchSync", "send"}
        PROVE  ~loc'[a].ok
    BY <1>1, <2>2 DEF JournalInv, RequestsAreAwaited, BeforeDispatch
  <2>. QED BY <1>0, <1>1, <2>1, <2>2 DEF RequestsAreAwaited
<1>5. SingleIntent' /\ DispatchedOnce' /\ RecoveryWaits'
  BY <1>0, <1>1 DEF JournalInv, SingleIntent, DispatchedOnce, IsDispatched, RecoveryWaits
<1>6. CapabilityIsCovered'
  BY <1>0, <1>1 DEF JournalInv, CapabilityIsCovered, RecoveryDelay, Covers
<1>. QED BY <1>2, <1>3, <1>4, <1>5, <1>6 DEF JournalInv

(* Time only brings deadlines nearer and expires capabilities.             *)
LEMMA TickSafe ==
    ASSUME TypeOK, JournalInv, Tick
    PROVE  JournalInv'
<1>0. /\ wire' = {r \in wire : r.until >= now + 1} /\ now' = now + 1
      /\ UNCHANGED <<db, aof, pc, loc, uuid>>
  BY DEF Tick
<1>1. /\ now \in Nat /\ \A a \in Actors : loc[a].until \in Int /\ loc[a].window \in Nat
      /\ \A d \in {db, aof} : \A i \in d.intents : i.recoverAfter \in Nat
  BY DEF TypeOK, Locals, Journal, Intent
<1>2. EveryRequestIsJournaled' /\ RequestsAreLive'
  BY <1>0 DEF JournalInv, EveryRequestIsJournaled, RequestsAreLive, Covers, LastLanding
<1>3. IdsAreUnique' /\ RequestsAreAwaited'
  BY <1>0 DEF JournalInv, IdsAreUnique, RequestsAreAwaited
<1>4. SingleIntent' /\ DispatchedOnce'
  BY <1>0 DEF JournalInv, SingleIntent, DispatchedOnce, IsDispatched
<1>5. RecoveryWaits'
  BY <1>0, <1>1 DEF JournalInv, RecoveryWaits
<1>6. CapabilityIsCovered'
  <2>1. ASSUME NEW a \in Actors, pc[a] = "dispatch"
        PROVE  loc[a].until + Settle < now + 1 + RecoveryDelay(loc[a].window)
    <3>1. loc[a].until + Settle < now + RecoveryDelay(loc[a].window)
      BY <2>1 DEF JournalInv, CapabilityIsCovered
    <3>. QED BY <1>1, <3>1, TimeAssumption DEF RecoveryDelay
  <2>2. ASSUME NEW a \in Actors, loc[a].until >= now + 1 PROVE loc[a].until >= now
    BY <1>1, <2>2
  <2>. QED BY <1>0, <2>1, <2>2 DEF JournalInv, CapabilityIsCovered, RecoveryDelay, Covers
<1>. QED BY <1>2, <1>3, <1>4, <1>5, <1>6 DEF JournalInv

(* The AOF catches up with memory.                                         *)
LEMMA FsyncSafe ==
    ASSUME TypeOK, JournalInv, BackgroundFsync
    PROVE  JournalInv'
<1>0. aof' = db /\ UNCHANGED <<wire, db, now, pc, loc, uuid>>
  BY DEF BackgroundFsync, Fsync, store, locks
<1>1. EveryRequestIsJournaled' /\ SingleIntent' /\ IdsAreUnique' /\ RequestsAreAwaited'
  BY <1>0 DEF JournalInv, EveryRequestIsJournaled, SingleIntent, IdsAreUnique,
              RequestsAreAwaited, Covers, LastLanding
<1>2. DispatchedOnce' /\ RecoveryWaits' /\ RequestsAreLive'
  BY <1>0 DEF JournalInv, DispatchedOnce, RecoveryWaits, RequestsAreLive, SingleIntent,
              IsDispatched
<1>3. CapabilityIsCovered'
  BY <1>0 DEF JournalInv, CapabilityIsCovered, Covers, RecoveryDelay
<1>. QED BY <1>1, <1>2, <1>3 DEF JournalInv

(* Memory falls back to the AOF, and whoever waited for it undoes.         *)
LEMMA CrashSafe ==
    ASSUME TypeOK, JournalInv, CrashRedis
    PROVE  JournalInv'
<1>0. db' = aof /\ UNCHANGED <<wire, aof, now, loc, uuid>>
  BY DEF CrashRedis, store, locks
<1>1. ASSUME NEW a \in Actors
      PROVE  /\ pc'[a] \in Owning <=> pc[a] \in Owning
             /\ pc'[a] \in BeforeDispatch <=> pc[a] \in BeforeDispatch
             /\ pc'[a] \in Recovering <=> pc[a] \in Recovering
             /\ pc'[a] # "dispatchSync" /\ (pc'[a] = "await" <=> pc[a] = "await")
             /\ pc'[a] = "dispatch" <=> pc[a] = "dispatch"
             /\ pc'[a] = "send" <=> pc[a] = "send"
  BY DEF CrashRedis, Handler, Owning, BeforeDispatch, Recovering
<1>2. EveryRequestIsJournaled' /\ SingleIntent' /\ RequestsAreLive'
  BY <1>0 DEF JournalInv, EveryRequestIsJournaled, SingleIntent, RequestsAreLive, Covers,
              LastLanding
<1>3. IdsAreUnique' /\ RequestsAreAwaited'
  BY <1>0, <1>1 DEF JournalInv, IdsAreUnique, RequestsAreAwaited
<1>4. DispatchedOnce' /\ RecoveryWaits'
  BY <1>0, <1>1 DEF JournalInv, DispatchedOnce, RecoveryWaits, SingleIntent, IsDispatched
<1>5. CapabilityIsCovered'
  BY <1>0, <1>1 DEF JournalInv, CapabilityIsCovered, Covers, RecoveryDelay
<1>. QED BY <1>2, <1>3, <1>4, <1>5 DEF JournalInv

(* Losing a lock, forgetting the total.                                    *)
LEMMA FailureSafe ==
    ASSUME TypeOK, TypeOK', JournalInv, Failure
    PROVE  JournalInv'
<1>. USE DEF store, redis, locks
<1>1. ASSUME NEW a \in Actors, Raise(a) PROVE JournalInv'
  BY <1>1, RaiseSafe
<1>2. ASSUME NEW a \in Actors, Die(a) PROVE JournalInv'
  <2>1. ShrinksJournal(a) /\ MoveWith(a, "idle", Blank)
    BY <1>2 DEF Die, ShrinksJournal
  <2>2. "idle" \in QuietPlaces
    BY DEF QuietPlaces, Places, Owning, BeforeDispatch, Recovering
  <2>. QED BY <2>1, <2>2, QuietMove
<1>3. CASE LoseFence \/ LoseLease
  BY <1>3, FrameStep DEF LoseFence, LoseLease, JournalUnchanged
<1>4. CASE CrashRedis
  BY <1>4, CrashSafe
<1>5. CASE ForgetUsage
  <2>1. db'.intents = db.intents
    BY <1>5 DEF ForgetUsage, TypeOK, Journal
  <2>. QED BY <1>5, <2>1, FrameStep DEF ForgetUsage, JournalUnchanged
<1>. QED BY <1>1, <1>2, <1>3, <1>4, <1>5 DEF Failure

LEMMA JournalInit == Init => JournalInv
<1>. SUFFICES ASSUME Init PROVE JournalInv
  OBVIOUS
<1>1. db.intents = {} /\ aof.intents = {} /\ wire = {}
  BY DEF Init
<1>2. \A a \in Actors : pc[a] \notin Owning /\ pc[a] \notin Recovering
  BY DEF Init, Owning, BeforeDispatch, Recovering
<1>3. EveryRequestIsJournaled /\ SingleIntent /\ IdsAreUnique /\ RequestsAreAwaited
  BY <1>1, <1>2 DEF EveryRequestIsJournaled, SingleIntent, IdsAreUnique, RequestsAreAwaited,
                    Owning
<1>4. DispatchedOnce /\ RecoveryWaits /\ CapabilityIsCovered /\ RequestsAreLive
  BY <1>1, <1>2 DEF DispatchedOnce, RecoveryWaits, CapabilityIsCovered, RequestsAreLive,
                    Owning, BeforeDispatch
<1>. QED BY <1>3, <1>4 DEF JournalInv

LEMMA MutationSafe ==
    ASSUME TypeOK, TypeOK', JournalInv, NEW a \in Actors, Mutation(a)
    PROVE  JournalInv'
BY BeginSafe, SyncSafe, MeasureSafe, DispatchSafe, SendSafe, AnsweredSafe, RetiringSafe
   DEF Mutation

LEMMA JournalNext == TypeOK /\ TypeOK' /\ JournalInv /\ [Next]_vars => JournalInv'
<1>. SUFFICES ASSUME TypeOK, TypeOK', JournalInv, [Next]_vars PROVE JournalInv'
  OBVIOUS
<1>1. ASSUME NEW a \in Actors, Step(a) \/ \E job \in Jobs : TakeFence(a, job)
      PROVE  JournalInv'
  BY <1>1, EntrySafe, RecoverySafe, AccountingSafe, MutationSafe DEF Step
<1>2. CASE Store
  BY <1>2, AdmitSafe, LandSafe DEF Store
<1>3. CASE Tick \/ BackgroundFsync
  BY <1>3, TickSafe, FsyncSafe
<1>4. CASE ExpireOrphan
  BY <1>4, FrameStep DEF ExpireOrphan, JournalUnchanged, store, redis
<1>5. CASE Failure
  BY <1>5, FailureSafe
<1>6. CASE UNCHANGED vars
  BY <1>6, FrameStep DEF vars, JournalUnchanged
<1>. QED BY <1>1, <1>2, <1>3, <1>4, <1>5, <1>6 DEF Next

(* JournalInv holds in every reachable state, whatever the number of       *)
(* actors, keys and failures and however long the delays are.              *)
THEOREM JournalCorrect == Spec => []JournalInv
<1>1. TypeOK /\ TypeOK' /\ JournalInv /\ [Next]_vars => JournalInv'
  BY JournalNext
<1>. QED BY TypeCorrect, JournalInit, <1>1, PTL DEF Spec

(* A request that can still change the store is covered, in memory and in  *)
(* the AOF, by a dispatched intent that nobody may recover before the last *)
(* instant at which the request can land: "a recovery clock that is        *)
(* strictly longer than that capability can remain valid".                 *)
THEOREM RequestsJournaled == Spec => []EveryRequestIsJournaled
<1>1. JournalInv => EveryRequestIsJournaled
  BY DEF JournalInv
<1>. QED BY JournalCorrect, <1>1, PTL

(* Lost locks, dead actors and Redis restarts never make two intents       *)
(* pending at once.                                                        *)
THEOREM IntentsAreSerial == Spec => []SingleIntent
<1>1. JournalInv => SingleIntent
  BY DEF JournalInv
<1>. QED BY JournalCorrect, <1>1, PTL

(* At most one write or delete can change the store at any instant, even   *)
(* when a lease has lapsed, the fence is lost and Redis has restarted: it   *)
(* is the journal that keeps the requests apart, not the locks.             *)
THEOREM RequestsAreSerial == Spec => [](\A r, q \in wire : r = q)
<1>1. JournalInv => \A r, q \in wire : r = q
  <2>. SUFFICES ASSUME JournalInv, NEW r \in wire, NEW q \in wire PROVE r = q
    OBVIOUS
  <2>1. PICK i \in db.intents : i.mid = r.mid
    BY DEF JournalInv, EveryRequestIsJournaled, Covers
  <2>2. PICK j \in db.intents : j.mid = q.mid
    BY DEF JournalInv, EveryRequestIsJournaled, Covers
  <2>3. i = j
    BY DEF JournalInv, SingleIntent
  <2>. QED BY <2>1, <2>2, <2>3 DEF JournalInv, IdsAreUnique
<1>. QED BY <1>1, JournalCorrect, PTL

----------------------------------------------------------------------------
(* The store.  LandingInv says what the sizes, the requests and the        *)
(* listings have to do with each other while an intent is pending; the     *)
(* total does not come into it, so it holds whatever becomes of the total. *)

(* What the scripts make of the journal. *)
LEMMA RetireFields ==
    ASSUME NEW d \in Journal, NEW m, NEW n
    PROVE  /\ \A r \in {Retire(d, m), Committed(d, m, n), Resolved(d, m, n)} :
                /\ r.intents = {i \in d.intents : i.mid # m} /\ r.epoch = d.epoch + 1
                /\ r.dirty = IF r.intents = {} THEN 0 ELSE d.dirty
           /\ Retire(d, m).usage = d.usage
           /\ Committed(d, m, n).usage = d.usage + n
           /\ Resolved(d, m, n).usage = n
<1>. DEFINE r == Retire(d, m)
            rest == {i \in d.intents : i.mid # m}
<1>1. r \in Journal /\ r.usage = d.usage
  BY RetireType
<1>2. /\ r.intents = rest /\ r.epoch = d.epoch + 1
      /\ r.dirty = IF rest = {} THEN 0 ELSE d.dirty
  <2>. HIDE DEF rest
  <2>1. r = [d EXCEPT !.intents = rest, !.epoch = @ + 1, !.dirty = IF rest = {} THEN 0 ELSE @]
    BY Zenon DEF Retire, rest
  <2>. QED BY <2>1 DEF Journal
<1>3. Committed(d, m, n) = [r EXCEPT !.usage = @ + n, !.gen = @ + 1]
      /\ Resolved(d, m, n) = [r EXCEPT !.usage = n, !.gen = @ + 1]
  BY Zenon DEF Committed, Resolved
<1>. HIDE DEF r, rest
<1>4. ASSUME NEW c \in {Committed(d, m, n), Resolved(d, m, n)}
      PROVE  c.intents = r.intents /\ c.epoch = r.epoch /\ c.dirty = r.dirty
  BY <1>1, <1>3 DEF Journal
<1>5. Committed(d, m, n).usage = r.usage + n /\ Resolved(d, m, n).usage = n
  BY <1>1, <1>3 DEF Journal
<1>6. ASSUME NEW c \in {r, Committed(d, m, n), Resolved(d, m, n)}
      PROVE  /\ c.intents = rest /\ c.epoch = d.epoch + 1
             /\ c.dirty = IF c.intents = {} THEN 0 ELSE d.dirty
  BY <1>2, <1>4
<1>. QED BY <1>1, <1>5, <1>6 DEF r, rest

LEMMA BeginFields ==
    ASSUME NEW d \in Journal, NEW m
    PROVE  /\ Begun(d, m).usage = d.usage /\ Begun(d, m).epoch = d.epoch + 1
           /\ Begun(d, m).dirty = 1
           /\ Begun(d, m).intents = d.intents \cup {[mid |-> m, epoch |-> d.epoch + 1,
                                        phase |-> "preflight", recoverAfter |-> 0]}
BY DEF Begun, Journal

LEMMA DispatchFields ==
    ASSUME NEW d \in Journal, NEW m, NEW t
    PROVE  LET e == Dispatched(d, m, t) IN
           /\ e.usage = d.usage /\ e.epoch = d.epoch /\ e.dirty = d.dirty
           /\ e.intents # {} <=> d.intents # {}
           /\ \A i \in e.intents : \E j \in d.intents :
                i.mid = j.mid /\ i.epoch = j.epoch /\ (i.mid # m => i = j)
<1>. DEFINE e == Dispatched(d, m, t)
            new(i) == IF i.mid = m THEN [i EXCEPT !.phase = "dispatched", !.recoverAfter = t]
                                   ELSE i
            all == {new(i) : i \in d.intents}
<1>1. e = [d EXCEPT !.intents = all]
  BY DEF Dispatched
<1>2. \A j \in d.intents : new(j).mid = j.mid /\ new(j).epoch = j.epoch /\ (j.mid # m => new(j) = j)
  BY DEF Journal, Intent
<1>. HIDE DEF new
<1>3. \A i \in all : \E j \in d.intents : i.mid = j.mid /\ i.epoch = j.epoch /\ (i.mid # m => i = j)
  BY <1>2
<1>4. all # {} <=> d.intents # {}
  OBVIOUS
<1>. HIDE DEF all, e
<1>5. e.usage = d.usage /\ e.epoch = d.epoch /\ e.dirty = d.dirty /\ e.intents = all
  BY <1>1 DEF Journal
<1>. QED BY <1>3, <1>4, <1>5 DEF e

LEMMA TotalFields ==
    ASSUME NEW d \in Journal, NEW n
    PROVE  /\ Reconciled(d, n).usage = n /\ Reconciled(d, n).epoch = d.epoch
           /\ Reconciled(d, n).intents = d.intents /\ Reconciled(d, n).dirty = 0
           /\ [d EXCEPT !.usage = None].usage = None
           /\ [d EXCEPT !.usage = None].epoch = d.epoch
           /\ [d EXCEPT !.usage = None].intents = d.intents
           /\ [d EXCEPT !.usage = None].dirty = d.dirty
BY DEF Reconciled, Journal

\* Retiring an intent that is there leaves none.
LEMMA RetireEmpties ==
    ASSUME JournalInv, NEW m, NEW e, NEW ph, Holds(db, m, e, ph)
    PROVE  {i \in db.intents : i.mid # m} = {} /\ \A i \in db.intents : i.mid = m /\ i.phase = ph
BY DEF Holds, JournalInv, SingleIntent

----------------------------------------------------------------------------
(* A step of others.  No intent of mutation m is new, and none of them was *)
(* dispatched by the step.                                                 *)
OlderFor(m) == /\ IsPending(m)' => IsPending(m)
               /\ IsDispatched(m)' => IsDispatched(m)

LEMMA Bystander ==
    ASSUME NEW b \in Actors, ActorInv(b), UNCHANGED <<size, physical, pc[b], loc[b]>>,
           pc[b] \in Owning \cup Recovering => OlderFor(loc[b].mid),
           \A r \in wire' \ wire : pc[b] = "await" => r.mid # loc[b].mid
    PROVE  ActorInv(b)'
<1>1. SizeIsKnown(b)'
  BY DEF ActorInv, SizeIsKnown, Owning, BeforeDispatch, Unlanded, Growth, OlderFor
<1>2. RequestIsAsked(b)'
  BY DEF ActorInv, RequestIsAsked
<1>3. ListingIsExact(b)'
  BY DEF ActorInv, ListingIsExact, Owning, OlderFor
<1>. QED BY <1>1, <1>2, <1>3 DEF ActorInv

\* A journal without intents, or with the intents it had, in memory or on disk.
NothingNew ==
    \A d \in {db', aof'} :
        d.intents = {} \/ \E c \in Journals : /\ d.intents = c.intents
                                              /\ d.epoch = c.epoch /\ d.dirty = c.dirty

LEMMA NothingNewIsOlder == ASSUME NothingNew, NEW m PROVE OlderFor(m)
BY DEF NothingNew, OlderFor, IsPending, IsDispatched, Journals

LEMMA MarksStay == ASSUME NothingNew, LandingInv PROVE IntentsAreMarked'
BY DEF NothingNew, LandingInv, IntentsAreMarked, Journals

\* A step of one actor that leaves the store alone.
LEMMA OwnStep ==
    ASSUME TypeOK, LandingInv, NEW a \in Actors, NEW p \in Places, NEW l, MoveWith(a, p, l),
           UNCHANGED <<size, physical, wire>>, NothingNew, ActorInv(a)'
    PROVE  LandingInv'
<1>1. \A b \in Actors \ {a} : ActorInv(b)'
  <2>. SUFFICES ASSUME NEW b \in Actors \ {a} PROVE ActorInv(b)'
    OBVIOUS
  <2>1. UNCHANGED <<pc[b], loc[b]>>
    BY MoveEffect
  <2>2. OlderFor(loc[b].mid)
    BY NothingNewIsOlder
  <2>. QED BY <2>1, <2>2, Bystander DEF LandingInv
<1>. QED BY <1>1, MarksStay DEF LandingInv

\* Places at which ActorInv asks nothing of an actor, and those at which it
\* only asks that nothing has landed yet.
RestingPlaces == {"idle", "fenced", "inspect", "expire", "recheck", "cached", "snapshot",
                  "scan", "begin", "beginSync", "undoBegin", "measure", "head", "commit",
                  "leave"}

ListingPlaces == {"probe", "rescan", "repair"}

LEMMA Rests ==
    ASSUME TypeOK, LandingInv, NEW a \in Actors, NEW p \in RestingPlaces, NEW l,
           MoveWith(a, p, l), UNCHANGED <<size, physical, wire>>, NothingNew
    PROVE  LandingInv'
<1>1. p \in Places /\ pc'[a] = p
  BY MoveEffect DEF RestingPlaces, Places
<1>2. ActorInv(a)'
  BY <1>1 DEF RestingPlaces, ActorInv, SizeIsKnown, RequestIsAsked, ListingIsExact, Unlanded,
              Recovering
<1>. QED BY <1>1, <1>2, OwnStep

LEMMA Quits ==
    ASSUME TypeOK, LandingInv, NEW a \in Actors, Quit(a),
           UNCHANGED <<size, physical, wire>>, NothingNew
    PROVE  LandingInv'
BY Rests DEF Quit, RestingPlaces

LEMMA Resumes ==
    ASSUME TypeOK, LandingInv, NEW a \in Actors, NEW p \in RestingPlaces, Resume(a, p),
           UNCHANGED <<size, physical, wire>>, NothingNew
    PROVE  LandingInv'
BY Rests DEF Resume

LEMMA Lists ==
    ASSUME TypeOK, LandingInv, NEW a \in Actors, NEW p \in ListingPlaces, NEW l, l.fresh,
           MoveWith(a, p, l), UNCHANGED <<size, physical, wire>>, NothingNew
    PROVE  LandingInv'
<1>1. p \in Places /\ pc'[a] = p /\ loc'[a] = l
  BY MoveEffect DEF ListingPlaces, Places
<1>2. ActorInv(a)'
  BY <1>1 DEF ListingPlaces, ActorInv, SizeIsKnown, RequestIsAsked, ListingIsExact, Unlanded
<1>. QED BY <1>1, <1>2, OwnStep

\* A listing goes on for the same mutation.
LEMMA ListsOn ==
    ASSUME TypeOK, LandingInv, NEW a \in Actors, NEW p \in {"confirm", "publish", "settle"},
           pc[a] \in {"probe", "rescan", "repair"},
           NEW l, l.mid = loc[a].mid, l.fresh = loc[a].fresh,
           p # "confirm" /\ l.fresh => l.total = physical,
           MoveWith(a, p, l), UNCHANGED <<size, physical, wire>>, NothingNew
    PROVE  LandingInv'
<1>1. p \in Places /\ pc'[a] = p /\ loc'[a] = l
  BY MoveEffect DEF Places
<1>2. ListingIsExact(a)'
  BY <1>1, NothingNewIsOlder DEF LandingInv, ActorInv, ListingIsExact, Recovering, OlderFor
<1>3. ActorInv(a)'
  BY <1>1, <1>2 DEF ActorInv, SizeIsKnown, RequestIsAsked, Unlanded
<1>. QED BY <1>1, <1>3, OwnStep

LEMMA Stays ==
    ASSUME NEW a \in Actors, NEW p, TypeOK, Move(a, p), UNCHANGED loc
    PROVE  MoveWith(a, p, loc[a])
BY DEF MoveWith, TypeOK

LEMMA EntryLanding ==
    ASSUME TypeOK, LandingInv, NEW a \in Actors,
           TakeLease(a) \/ Leave(a) \/ \E job \in Jobs : TakeFence(a, job)
    PROVE  LandingInv'
<1>1. NothingNew /\ UNCHANGED <<size, physical, wire>>
  BY DEF TakeLease, Leave, TakeFence, store, redis, NothingNew, Journals
<1>2. \E p \in RestingPlaces : \E l : MoveWith(a, p, l)
  BY Stays DEF TakeLease, Leave, TakeFence, RestingPlaces
<1>. QED BY <1>1, <1>2, Rests

LEMMA ClassifyLanding ==
    ASSUME TypeOK, LandingInv, NEW a \in Actors, NEW i, Classify(a, i),
           UNCHANGED <<size, physical, wire>>, NothingNew
    PROVE  LandingInv'
<1>. DEFINE l == [loc[a] EXCEPT !.mid = i.mid, !.epoch = i.epoch,
                                !.deadline = i.recoverAfter, !.fresh = TRUE]
<1>1. l.fresh
  BY DEF TypeOK, Locals
<1>2. PICK p \in {"expire", "recheck", "probe"} : MoveWith(a, p, l)
  BY DEF Classify
<1>. HIDE DEF l
<1>. QED BY <1>1, <1>2, Rests, Lists DEF RestingPlaces, ListingPlaces

LEMMA RecoveryLanding ==
    ASSUME TypeOK, JournalInv, LandingInv, NEW a \in Actors, Recovery(a)
    PROVE  LandingInv'
<1>. USE DEF store, redis, locks
<1>0. /\ UNCHANGED <<size, physical, wire>> /\ db \in Journal /\ loc[a] \in Locals
      /\ loc[a].after \in RestingPlaces /\ "recheck" \in RestingPlaces
  BY DEF Recovery, Inspect, Expire, Probe, Confirm, Rescan, Publish, Recheck, TypeOK, Locals,
         RestingPlaces
<1>1. NothingNew
  <2>1. db' = db \/ db'.intents = {}
    <3>1. \/ db' = db
          \/ /\ db' = Retire(db, loc[a].mid)
             /\ Holds(db, loc[a].mid, loc[a].epoch, "preflight")
          \/ /\ db' = Resolved(db, loc[a].mid, loc[a].total)
             /\ Holds(db, loc[a].mid, loc[a].epoch, "dispatched")
      BY DEF Recovery, Inspect, Expire, Probe, Confirm, Rescan, Publish, Recheck
    <3>. QED BY <1>0, <3>1, RetireFields, RetireEmpties
  <2>2. aof' = aof
    BY DEF Recovery, Inspect, Expire, Probe, Confirm, Rescan, Publish, Recheck
  <2>. QED BY <2>1, <2>2 DEF NothingNew, Journals
<1>2. ASSUME Inspect(a) PROVE LandingInv'
  BY <1>0, <1>1, <1>2, Resumes, ClassifyLanding DEF Inspect
<1>3. ASSUME Expire(a) PROVE LandingInv'
  <2>1. MoveWith(a, "recheck", loc[a]) \/ Quit(a) \/ \E i \in db.intents : Classify(a, i)
    BY <1>3, Stays DEF Expire
  <2>. QED BY <1>0, <1>1, <2>1, Rests, Quits, ClassifyLanding
<1>4. ASSUME Probe(a) PROVE LandingInv'
  <2>1. PICK t : MoveWith(a, "confirm", [loc[a] EXCEPT !.total = t]) /\ pc[a] = "probe"
    BY <1>4 DEF Probe
  <2>2. /\ [loc[a] EXCEPT !.total = t].mid = loc[a].mid
        /\ [loc[a] EXCEPT !.total = t].fresh = loc[a].fresh
    BY <1>0 DEF Locals
  <2>. QED BY <1>0, <1>1, <2>1, <2>2, ListsOn
<1>5. ASSUME Confirm(a) PROVE LandingInv'
  <2>1. \/ MoveWith(a, "recheck", loc[a])
        \/ MoveWith(a, "rescan", [loc[a] EXCEPT !.fresh = TRUE])
        \/ Quit(a)
    BY <1>5, Stays DEF Confirm
  <2>2. [loc[a] EXCEPT !.fresh = TRUE].fresh /\ "rescan" \in ListingPlaces
    BY <1>0 DEF Locals, ListingPlaces
  <2>. QED BY <1>0, <1>1, <2>1, <2>2, Rests, Lists, Quits
<1>6. ASSUME Rescan(a) PROVE LandingInv'
  <2>1. \/ /\ MoveWith(a, "publish", loc[a]) /\ pc[a] = "rescan"
           /\ loc[a].fresh => loc[a].total = physical
        \/ Quit(a)
    BY <1>6, Stays DEF Rescan, Listed
  <2>. QED BY <1>0, <1>1, <2>1, ListsOn, Quits
<1>7. ASSUME Publish(a) PROVE LandingInv'
  <2>1. MoveWith(a, "recheck", loc[a]) \/ Quit(a)
    BY <1>7, Stays DEF Publish
  <2>. QED BY <1>0, <1>1, <2>1, Rests, Quits
<1>8. ASSUME Recheck(a) PROVE LandingInv'
  BY <1>0, <1>1, <1>8, Resumes, Quits DEF Recheck
<1>. QED BY <1>2, <1>3, <1>4, <1>5, <1>6, <1>7, <1>8 DEF Recovery

LEMMA AccountingLanding ==
    ASSUME TypeOK, LandingInv, NEW a \in Actors, Accounting(a)
    PROVE  LandingInv'
<1>. USE DEF store, redis, locks
<1>0. /\ UNCHANGED <<size, physical, wire>> /\ db \in Journal /\ loc[a] \in Locals
      /\ {"begin", "inspect", "scan", "snapshot"} \subseteq RestingPlaces
  BY DEF Accounting, Cached, Snapshot, Scan, Install, TypeOK, RestingPlaces
<1>1. NothingNew
  <2>1. db' = db \/ (db.intents = {} /\ db' = Reconciled(db, loc[a].total))
    BY DEF Accounting, Cached, Snapshot, Scan, Install
  <2>2. aof' = aof /\ (db' = db \/ db'.intents = {})
    BY <1>0, <2>1, TotalFields DEF Accounting, Cached, Snapshot, Scan, Install
  <2>. QED BY <2>2 DEF NothingNew, Journals
<1>2. ASSUME Proceed(a) PROVE LandingInv'
  BY <1>0, <1>1, <1>2, Resumes, Quits DEF Proceed
<1>3. ASSUME Cached(a) PROVE LandingInv'
  BY <1>0, <1>1, <1>2, <1>3, Rests DEF Cached
<1>4. ASSUME Snapshot(a) PROVE LandingInv'
  BY <1>0, <1>1, <1>4, Rests DEF Snapshot
<1>5. ASSUME Scan(a) PROVE LandingInv'
  <2>1. PICK t : Listed(a, t) /\ MoveWith(a, "install", [loc[a] EXCEPT !.total = t])
    BY <1>5 DEF Scan
  <2>2. pc'[a] = "install" /\ loc'[a].fresh = loc[a].fresh /\ loc'[a].total = t
    <3>1. /\ [loc[a] EXCEPT !.total = t].fresh = loc[a].fresh
          /\ [loc[a] EXCEPT !.total = t].total = t
      BY <1>0 DEF Locals
    <3>. QED BY <2>1, <3>1, MoveEffect DEF Places
  <2>3. ActorInv(a)'
    BY <1>0, <2>1, <2>2 DEF Listed, ActorInv, SizeIsKnown, RequestIsAsked, ListingIsExact,
                           Unlanded, Recovering
  <2>. QED BY <1>0, <1>1, <2>1, <2>3, OwnStep DEF Places
<1>6. ASSUME Install(a) PROVE LandingInv'
  BY <1>0, <1>1, <1>2, <1>6, Resumes, Quits DEF Install
<1>. QED BY <1>3, <1>4, <1>5, <1>6 DEF Accounting

\* Steps of a mutation that leave the store alone and begin or dispatch nothing.
LEMMA MutationLanding ==
    ASSUME TypeOK, JournalInv, LandingInv, NEW a \in Actors,
           \/ BeginSync(a) \/ UndoBegin(a) \/ Measure(a) \/ DispatchSync(a) \/ UndoDispatch(a)
           \/ Reply(a) \/ GiveUp(a) \/ Head(a) \/ Commit(a) \/ Repair(a) \/ SettleByScan(a)
    PROVE  LandingInv'
<1>. USE DEF store, redis, locks
<1>0. /\ UNCHANGED <<size, physical, wire>> /\ db \in Journal /\ loc[a] \in Locals
      /\ {"measure", "head", "commit"} \subseteq RestingPlaces /\ "repair" \in ListingPlaces
  BY DEF BeginSync, UndoBegin, Measure, DispatchSync, UndoDispatch, Reply, GiveUp, Head, Commit,
         Repair, SettleByScan, Undo, WaitAof, TypeOK, RestingPlaces, ListingPlaces
<1>1. NothingNew
  <2>1. db' = db \/ db'.intents = {}
    <3>1. \/ db' = db
          \/ /\ db' \in {Retire(db, loc[a].mid), Committed(db, loc[a].mid, loc[a].delta),
                         Resolved(db, loc[a].mid, loc[a].total)}
             /\ \E ph : Holds(db, loc[a].mid, loc[a].epoch, ph)
      BY DEF BeginSync, UndoBegin, Measure, DispatchSync, UndoDispatch, Reply, GiveUp, Head,
             Commit, Repair, SettleByScan, Undo, WaitAof
    <3>2. CASE db' = db
      BY <3>2
    <3>3. CASE db' # db
      <4>1. PICK ph : Holds(db, loc[a].mid, loc[a].epoch, ph)
        BY <3>1, <3>3
      <4>2. {i \in db.intents : i.mid # loc[a].mid} = {}
        BY <4>1, RetireEmpties
      <4>3. db'.intents = {i \in db.intents : i.mid # loc[a].mid}
        BY <1>0, <3>1, <3>3, RetireFields
      <4>. QED BY <4>2, <4>3
    <3>. QED BY <3>2, <3>3
  <2>2. aof' = aof \/ (aof' = db /\ db' = db)
    BY DEF BeginSync, UndoBegin, Measure, DispatchSync, UndoDispatch, Reply, GiveUp, Head,
             Commit, Repair, SettleByScan, Undo, WaitAof, Fsync
  <2>. QED BY <2>1, <2>2 DEF NothingNew, Journals
<1>2. ASSUME BeginSync(a) PROVE LandingInv'
  BY <1>0, <1>1, <1>2, Stays, Rests DEF BeginSync, WaitAof
<1>3. ASSUME UndoBegin(a) \/ UndoDispatch(a) \/ GiveUp(a) \/ SettleByScan(a) PROVE LandingInv'
  BY <1>0, <1>1, <1>3, Quits DEF UndoBegin, UndoDispatch, GiveUp, SettleByScan, Undo
<1>4. ASSUME Measure(a) PROVE LandingInv'
  <2>1. PICK u, w : MoveWith(a, "dispatch", [loc[a] EXCEPT !.old = size[loc[a].key],
                                                 !.until = u, !.window = w])
    BY <1>4 DEF Measure
  <2>2. pc'[a] = "dispatch" /\ loc'[a].key = loc[a].key /\ loc'[a].old = size[loc[a].key]
    <3>. DEFINE l == [loc[a] EXCEPT !.old = size[loc[a].key], !.until = u, !.window = w]
    <3>1. l.key = loc[a].key /\ l.old = size[loc[a].key]
      BY <1>0 DEF Locals
    <3>2. MoveWith(a, "dispatch", l)
      BY <2>1
    <3>. HIDE DEF l
    <3>. QED BY <3>1, <3>2, MoveEffect DEF Places
  <2>3. Growth(a)' = 0
    BY <1>0, <2>2 DEF Growth, TypeOK, Locals
  <2>4. ActorInv(a)'
    BY <2>2, <2>3 DEF ActorInv, SizeIsKnown, RequestIsAsked, ListingIsExact, Unlanded, Recovering
  <2>. QED BY <1>0, <1>1, <2>1, <2>4, OwnStep DEF Places
<1>5. ASSUME DispatchSync(a) PROVE LandingInv'
  <2>1. MoveWith(a, "send", loc[a]) /\ pc[a] = "dispatchSync"
    BY <1>5, Stays DEF DispatchSync, WaitAof
  <2>2. pc'[a] = "send" /\ loc'[a] = loc[a]
    BY <2>1, MoveEffect DEF Places
  <2>3. ActorInv(a)'
    BY <1>0, <1>1, <2>1, <2>2, NothingNewIsOlder
       DEF LandingInv, ActorInv, SizeIsKnown, RequestIsAsked, ListingIsExact, Unlanded, Recovering,
           Growth, OlderFor
  <2>. QED BY <1>0, <1>1, <2>1, <2>3, OwnStep DEF Places
<1>6. ASSUME Reply(a) PROVE LandingInv'
  BY <1>0, <1>1, <1>6, Stays, Rests DEF Reply
<1>7. ASSUME Head(a) PROVE LandingInv'
  BY <1>0, <1>1, <1>7, Rests, Quits DEF Head
<1>8. ASSUME Commit(a) PROVE LandingInv'
  <2>1. Quit(a) \/ MoveWith(a, "repair", [loc[a] EXCEPT !.fresh = TRUE])
    BY <1>8 DEF Commit
  <2>2. [loc[a] EXCEPT !.fresh = TRUE].fresh
    BY <1>0 DEF Locals
  <2>. QED BY <1>0, <1>1, <2>1, <2>2, Lists, Quits
<1>9. ASSUME Repair(a) PROVE LandingInv'
  <2>1. PICK t : /\ MoveWith(a, "settle", [loc[a] EXCEPT !.total = t]) /\ pc[a] = "repair"
                 /\ Listed(a, t)
    BY <1>9 DEF Repair
  <2>2. /\ [loc[a] EXCEPT !.total = t].mid = loc[a].mid
        /\ [loc[a] EXCEPT !.total = t].total = t
        /\ [loc[a] EXCEPT !.total = t].fresh = loc[a].fresh
    BY <1>0 DEF Locals
  <2>. QED BY <1>0, <1>1, <2>1, <2>2, ListsOn DEF Listed
<1>. QED BY <1>2, <1>3, <1>4, <1>5, <1>6, <1>7, <1>8, <1>9

\* An actor's mutation is its own: nobody else is at work on it before it is dispatched.
LEMMA BeginLanding ==
    ASSUME TypeOK, JournalInv, LandingInv, NEW a \in Actors, Begin(a)
    PROVE  LandingInv'
<1>. USE DEF store, redis, locks
<1>1. CASE UNCHANGED <<db, uuid>> /\ Quit(a)
  <2>1. NothingNew /\ UNCHANGED <<size, physical, wire>>
    BY <1>1 DEF Begin, NothingNew, Journals
  <2>. QED BY <1>1, <2>1, Quits
<1>2. CASE MayBegin(db) /\ uuid < MaxMutations
  <2>0. /\ db' = Begun(db, uuid + 1) /\ db.intents = {} /\ aof' = aof /\ db \in Journal
        /\ UNCHANGED <<size, physical, wire>>
    BY <1>2 DEF Begin, MayBegin, TypeOK
  <2>1. PICK l : MoveWith(a, "beginSync", l)
    BY <1>2 DEF Begin
  <2>2. /\ pc'[a] = "beginSync" /\ \A b \in Actors \ {a} : UNCHANGED <<pc[b], loc[b]>>
    BY <2>1, MoveEffect DEF Places
  <2>3. /\ db'.intents = {[mid |-> uuid + 1, epoch |-> db.epoch + 1,
                           phase |-> "preflight", recoverAfter |-> 0]}
        /\ db'.epoch = db.epoch + 1 /\ db'.dirty = 1
    BY <2>0, BeginFields
  <2>4. IntentsAreMarked'
    BY <2>0, <2>3 DEF LandingInv, IntentsAreMarked, Journals
  <2>5. \A m : m # uuid + 1 => OlderFor(m)
    BY <2>0, <2>3 DEF OlderFor, IsPending, IsDispatched, Journals
  <2>6. ActorInv(a)'
    BY <2>2 DEF ActorInv, SizeIsKnown, RequestIsAsked, ListingIsExact, Unlanded, Recovering
  <2>7. ASSUME NEW b \in Actors \ {a} PROVE ActorInv(b)'
    <3>1. pc[b] \in Owning \cup Recovering => loc[b].mid # uuid + 1
      BY DEF JournalInv, IdsAreUnique, TypeOK, Locals
    <3>. QED BY <2>0, <2>2, <2>5, <3>1, Bystander DEF LandingInv
  <2>. QED BY <2>4, <2>6, <2>7 DEF LandingInv
<1>. QED BY <1>1, <1>2 DEF Begin

LEMMA DispatchLanding ==
    ASSUME TypeOK, JournalInv, LandingInv, NEW a \in Actors, Dispatch(a)
    PROVE  LandingInv'
<1>. USE DEF store, redis, locks
<1>. DEFINE m == loc[a].mid
<1>0. db \in Journal /\ UNCHANGED <<size, physical, wire, aof>> /\ pc[a] = "dispatch"
  BY DEF Dispatch, TypeOK
<1>1. CASE ~Holds(db, m, loc[a].epoch, "preflight")
  <2>1. NothingNew /\ Quit(a)
    BY <1>0, <1>1 DEF Dispatch, NothingNew, Journals
  <2>. QED BY <1>0, <2>1, Quits
<1>2. CASE Holds(db, m, loc[a].epoch, "preflight")
  <2>. DEFINE t == now + RecoveryDelay(loc[a].window)
  <2>0. db' = Dispatched(db, m, t)
    BY <1>2 DEF Dispatch
  <2>1. MoveWith(a, "dispatchSync", [loc[a] EXCEPT !.window = 0])
    BY <1>2 DEF Dispatch
  <2>2. /\ pc'[a] = "dispatchSync" /\ loc'[a].mid = m /\ Growth(a)' = Growth(a)
        /\ \A b \in Actors \ {a} : UNCHANGED <<pc[b], loc[b]>>
    <3>1. /\ [loc[a] EXCEPT !.window = 0].mid = m
          /\ [loc[a] EXCEPT !.window = 0].key = loc[a].key
          /\ [loc[a] EXCEPT !.window = 0].old = loc[a].old
      BY DEF TypeOK, Locals
    <3>2. /\ pc'[a] = "dispatchSync" /\ loc'[a] = [loc[a] EXCEPT !.window = 0]
          /\ \A b \in Actors \ {a} : UNCHANGED <<pc[b], loc[b]>>
      BY <2>1, MoveEffect DEF Places
    <3>. QED BY <1>0, <3>1, <3>2 DEF Growth
  <2>. HIDE DEF t
  <2>3. db'.epoch = db.epoch /\ db'.dirty = db.dirty
    BY <1>0, <2>0, DispatchFields
  <2>4. /\ \A i \in db'.intents : \E j \in db.intents :
             i.mid = j.mid /\ i.epoch = j.epoch /\ (i.mid # m => i = j)
        /\ db'.intents # {} => db.intents # {}
    BY <1>0, <2>0, DispatchFields
  <2>5. IntentsAreMarked'
    BY <1>0, <2>3, <2>4 DEF LandingInv, IntentsAreMarked, Journals
  <2>6. \A n : n # m => OlderFor(n)
    BY <1>0, <2>4 DEF OlderFor, IsPending, IsDispatched, Journals
  <2>7. ActorInv(a)'
    <3>1. IsPending(m)
      BY <1>2 DEF IsPending, Holds, Journals
    <3>2. Growth(a)' = 0
      BY <1>0, <2>2, <3>1 DEF LandingInv, ActorInv, SizeIsKnown
    <3>. QED BY <2>2, <3>2 DEF ActorInv, SizeIsKnown, RequestIsAsked, ListingIsExact, Recovering
  <2>8. ASSUME NEW b \in Actors \ {a} PROVE ActorInv(b)'
    <3>1. pc[b] \in Owning \cup Recovering => loc[b].mid # m
      BY <1>0 DEF JournalInv, IdsAreUnique, DispatchedOnce, Owning, BeforeDispatch
    <3>. QED BY <1>0, <2>2, <2>6, <3>1, Bystander DEF LandingInv
  <2>. QED BY <2>5, <2>7, <2>8 DEF LandingInv
<1>. QED BY <1>1, <1>2

LEMMA SendLanding ==
    ASSUME TypeOK, JournalInv, LandingInv, NEW a \in Actors, Send(a)
    PROVE  LandingInv'
<1>. USE DEF store, redis, locks
<1>0. pc[a] = "send" /\ UNCHANGED <<size, physical, db, aof>>
  BY DEF Send
<1>a. NothingNew
  BY <1>0 DEF NothingNew, Journals
<1>1. CASE ~(loc[a].until >= now)
  BY <1>0, <1>a, <1>1, Quits DEF Send
<1>2. CASE loc[a].until >= now
  <2>. DEFINE q == [mid |-> loc[a].mid, key |-> loc[a].key, to |-> loc[a].to,
                    admitted |-> FALSE, until |-> loc[a].until]
              l == [loc[a] EXCEPT !.until = 0]
  <2>1. wire' = wire \cup {q} /\ MoveWith(a, "await", l)
    BY <1>2 DEF Send
  <2>2. l.mid = loc[a].mid /\ l.key = loc[a].key /\ l.old = loc[a].old /\ l.ok = loc[a].ok
    BY DEF TypeOK, Locals
  <2>3. q.mid = loc[a].mid /\ q.key = loc[a].key
    OBVIOUS
  <2>. HIDE DEF l, q
  <2>4. /\ pc'[a] = "await" /\ loc'[a] = l
        /\ \A b \in Actors \ {a} : UNCHANGED <<pc[b], loc[b]>>
    BY <2>1, MoveEffect DEF Places
  <2>5. ActorInv(a)'
    <3>1. SizeIsKnown(a)'
      BY <1>0, <1>a, <2>2, <2>4, NothingNewIsOlder
         DEF LandingInv, ActorInv, SizeIsKnown, Unlanded, Growth, OlderFor
    <3>2. \A r \in wire : r.mid # loc[a].mid
      BY <1>0 DEF JournalInv, RequestsAreAwaited, Owning
    <3>. QED BY <2>1, <2>2, <2>3, <2>4, <3>1, <3>2
             DEF ActorInv, RequestIsAsked, ListingIsExact, Recovering
  <2>6. ASSUME NEW b \in Actors \ {a} PROVE ActorInv(b)'
    <3>1. pc[b] = "await" => q.mid # loc[b].mid
      BY <1>0, <2>3 DEF JournalInv, IdsAreUnique, Owning
    <3>2. OlderFor(loc[b].mid)
      BY <1>a, NothingNewIsOlder
    <3>. QED BY <1>0, <2>1, <2>4, <3>1, <3>2, Bystander DEF LandingInv
  <2>. QED BY <1>a, <2>5, <2>6, MarksStay DEF LandingInv
<1>. QED BY <1>1, <1>2

\* Whatever leaves the store, the actors and their intents alone.
LEMMA Aside ==
    ASSUME LandingInv, NothingNew, UNCHANGED <<size, physical, pc, loc>>,
           \A r \in wire' : \E q \in wire : r.mid = q.mid /\ r.key = q.key
    PROVE  LandingInv'
<1>1. ASSUME NEW b \in Actors PROVE ActorInv(b)'
  <2>1. ActorInv(b) /\ OlderFor(loc[b].mid)
    BY NothingNewIsOlder DEF LandingInv
  <2>2. SizeIsKnown(b)' /\ RequestIsAsked(b)' /\ ListingIsExact(b)'
    BY <2>1 DEF ActorInv, SizeIsKnown, RequestIsAsked, ListingIsExact, OlderFor, Unlanded, Growth
  <2>. QED BY <2>2 DEF ActorInv
<1>. QED BY <1>1, MarksStay DEF LandingInv

LEMMA AdmitLanding ==
    ASSUME TypeOK, LandingInv, NEW r \in wire, Admit(r)
    PROVE  LandingInv'
<1>1. /\ wire' = (wire \ {r}) \cup {[r EXCEPT !.admitted = TRUE, !.until = now + Settle]}
      /\ UNCHANGED <<size, physical, db, aof, pc, loc>>
  BY DEF Admit, redis
<1>2. LET q == [r EXCEPT !.admitted = TRUE, !.until = now + Settle] IN
      q.mid = r.mid /\ q.key = r.key
  BY DEF TypeOK, Request
<1>. QED BY <1>1, <1>2, Aside DEF NothingNew, Journals

LEMMA TickLanding == ASSUME LandingInv, Tick PROVE LandingInv'
BY Aside DEF Tick, NothingNew, Journals

\* The one dispatched intent, in memory and in the AOF, is that of the request
\* that lands.
LEMMA LandsAlone ==
    ASSUME TypeOK, JournalInv, NEW r \in wire, NEW d \in Journals
    PROVE  /\ InDoubt(d, r.mid)
           /\ \A i \in d.intents : i.mid = r.mid /\ i.phase = "dispatched" /\ LastLanding(r) < i.recoverAfter
BY DEF JournalInv, EveryRequestIsJournaled, SingleIntent, Covers, InDoubt, Journals

\* Nobody is settling or recovering the mutation whose request lands.
LEMMA LandsUnwatched ==
    ASSUME TypeOK, JournalInv, NEW r \in wire, NEW a \in Actors, loc[a].mid = r.mid
    PROVE  /\ pc[a] \notin Recovering
           /\ pc[a] \in Owning => pc[a] = "await" /\ ~loc[a].ok
<1>1. pc[a] \notin Recovering
  <2>. SUFFICES ASSUME pc[a] \in Recovering PROVE FALSE
    OBVIOUS
  <2>1. PICK i \in db.intents : /\ i.mid = r.mid /\ i.phase = "dispatched"
                                /\ LastLanding(r) < i.recoverAfter
    BY LandsAlone DEF InDoubt, Journals
  <2>2. i.recoverAfter <= now /\ r.until >= now
    BY <2>1 DEF JournalInv, RecoveryWaits, RequestsAreLive
  <2>3. r.until <= LastLanding(r) /\ LastLanding(r) \in Int /\ r.until \in Int
    BY TimeAssumption DEF LastLanding, TypeOK, Request
  <2>. QED BY <2>1, <2>2, <2>3 DEF TypeOK, Journal, Intent
<1>2. pc[a] \in Owning => pc[a] = "await" /\ ~loc[a].ok
  BY DEF JournalInv, RequestsAreAwaited
<1>. QED BY <1>1, <1>2

LEMMA LandFields ==
    ASSUME TypeOK, NEW r \in wire, Land(r), NEW a \in Actors
    PROVE  /\ pc'[a] = pc[a] /\ loc'[a].mid = loc[a].mid /\ loc'[a].key = loc[a].key
           /\ loc'[a].old = loc[a].old /\ loc'[a].delta = loc[a].delta
           /\ loc'[a].epoch = loc[a].epoch /\ loc'[a].fresh = FALSE
           /\ loc'[a].ok = IF pc[a] = "await" /\ loc[a].mid = r.mid THEN TRUE ELSE loc[a].ok
BY DEF Land, TypeOK, Locals

LEMMA LandLanding ==
    ASSUME TypeOK, JournalInv, LandingInv, NEW r \in wire, Land(r)
    PROVE  LandingInv'
<1>0. wire' = wire \ {r} /\ UNCHANGED <<db, aof>>
  BY DEF Land, redis
<1>1. IntentsAreMarked'
  BY <1>0, MarksStay DEF NothingNew, Journals
<1>2. ASSUME NEW a \in Actors PROVE ActorInv(a)'
  <2>1. ActorInv(a)
    BY DEF LandingInv
  <2>2. ASSUME IsPending(loc[a].mid) \/ IsDispatched(loc[a].mid) PROVE loc[a].mid = r.mid
    BY <2>2, LandsAlone DEF IsPending, IsDispatched, Journals
  <2>3. IsDispatched(r.mid)
    BY LandsAlone DEF IsDispatched, InDoubt, Journals
  <2>4. pc[a] = "dispatch" => loc[a].mid # r.mid
    BY <2>3 DEF JournalInv, DispatchedOnce, BeforeDispatch
  <2>a. /\ pc'[a] = pc[a] /\ loc'[a].mid = loc[a].mid /\ loc'[a].key = loc[a].key
        /\ loc'[a].fresh = FALSE
        /\ loc'[a].ok = IF pc[a] = "await" /\ loc[a].mid = r.mid THEN TRUE ELSE loc[a].ok
    BY LandFields
  <2>b. ASSUME loc[a].mid = r.mid
        PROVE  pc[a] \notin Recovering /\ (pc[a] \in Owning => pc[a] = "await" /\ ~loc[a].ok)
    BY <2>b, LandsUnwatched
  <2>c. (IsPending(loc[a].mid) <=> IsPending(loc[a].mid)') /\ (IsDispatched(loc[a].mid) <=> IsDispatched(loc[a].mid)')
    BY <1>0, <2>a DEF IsPending, IsDispatched, Journals
  <2>5. SizeIsKnown(a)'
    <3>1. ~(pc'[a] = "dispatch" /\ IsPending(loc[a].mid)')
      BY <2>2, <2>4, <2>a, <2>c
    <3>2. ~(Unlanded(a)' /\ IsDispatched(loc[a].mid)')
      BY <2>2, <2>a, <2>b, <2>c DEF Unlanded, Owning
    <3>. QED BY <3>1, <3>2 DEF SizeIsKnown
  <2>6. RequestIsAsked(a)'
    BY <1>0, <2>1, <2>a DEF ActorInv, RequestIsAsked
  <2>7. ListingIsExact(a)'
    BY <2>2, <2>a, <2>b, <2>c DEF ListingIsExact, Owning
  <2>. QED BY <2>5, <2>6, <2>7 DEF ActorInv
<1>. QED BY <1>1, <1>2 DEF LandingInv

LEMMA RaiseLanding ==
    ASSUME TypeOK, LandingInv, NEW a \in Actors, Raise(a)
    PROVE  LandingInv'
<1>0. NothingNew /\ UNCHANGED <<size, physical, wire, db, aof>>
  BY DEF Raise, store, redis, NothingNew, Journals
<1>. DEFINE l == [loc[a] EXCEPT !.fresh = TRUE]
<1>1. l.fresh /\ l.mid = loc[a].mid /\ l.key = loc[a].key /\ l.old = loc[a].old
  BY DEF TypeOK, Locals
<1>2. \/ Quit(a) \/ MoveWith(a, "undoBegin", l) \/ MoveWith(a, "repair", l)
      \/ MoveWith(a, "undoDispatch", l) /\ pc[a] = "dispatchSync"
  BY DEF Raise, Handler
<1>. HIDE DEF l
<1>3. ASSUME MoveWith(a, "undoDispatch", l), pc[a] = "dispatchSync" PROVE LandingInv'
  <2>1. pc'[a] = "undoDispatch" /\ loc'[a] = l
    BY <1>3, MoveEffect DEF Places
  <2>2. ActorInv(a)'
    BY <1>0, <1>1, <1>3, <2>1, NothingNewIsOlder
       DEF LandingInv, ActorInv, SizeIsKnown, RequestIsAsked, ListingIsExact, Recovering, Unlanded,
           Growth, OlderFor
  <2>. QED BY <1>0, <1>3, <2>2, OwnStep DEF Places
<1>. QED BY <1>0, <1>1, <1>2, <1>3, Quits, Rests, Lists DEF RestingPlaces, ListingPlaces

LEMMA CrashLanding ==
    ASSUME TypeOK, LandingInv, CrashRedis
    PROVE  LandingInv'
<1>0. db' = aof /\ UNCHANGED <<size, physical, wire, aof, loc>>
  BY DEF CrashRedis, store
<1>1. NothingNew
  BY <1>0 DEF NothingNew, Journals
<1>2. ASSUME NEW b \in Actors PROVE ActorInv(b)'
  <2>1. pc'[b] = pc[b] \/ (pc[b] = "dispatchSync" /\ pc'[b] = "undoDispatch") \/ pc'[b] = "undoBegin"
    BY DEF CrashRedis, Handler
  <2>2. ActorInv(b) /\ OlderFor(loc[b].mid)
    BY <1>1, NothingNewIsOlder DEF LandingInv
  <2>3. CASE pc'[b] = pc[b]
    BY <1>0, <2>2, <2>3, Bystander
  <2>4. CASE pc[b] = "dispatchSync" /\ pc'[b] = "undoDispatch"
    BY <1>0, <2>2, <2>4 DEF ActorInv, SizeIsKnown, RequestIsAsked, ListingIsExact, Recovering,
                            Unlanded, Growth, OlderFor
  <2>5. CASE pc'[b] = "undoBegin"
    BY <2>5 DEF ActorInv, SizeIsKnown, RequestIsAsked, ListingIsExact, Recovering, Unlanded
  <2>. QED BY <2>1, <2>3, <2>4, <2>5
<1>. QED BY <1>1, <1>2, MarksStay DEF LandingInv

LEMMA FailureLanding ==
    ASSUME TypeOK, LandingInv, Failure
    PROVE  LandingInv'
<1>. USE DEF store, redis, locks
<1>1. ASSUME NEW a \in Actors, Raise(a) PROVE LandingInv'
  BY <1>1, RaiseLanding
<1>2. ASSUME NEW a \in Actors, Die(a) PROVE LandingInv'
  BY <1>2, Rests DEF Die, RestingPlaces, NothingNew, Journals
<1>3. CASE LoseFence \/ LoseLease
  BY <1>3, Aside DEF LoseFence, LoseLease, NothingNew, Journals
<1>4. CASE CrashRedis
  BY <1>4, CrashLanding
<1>5. CASE ForgetUsage
  <2>1. NothingNew
    BY <1>5, TotalFields DEF ForgetUsage, NothingNew, Journals, TypeOK
  <2>. QED BY <1>5, <2>1, Aside DEF ForgetUsage
<1>. QED BY <1>1, <1>2, <1>3, <1>4, <1>5 DEF Failure

LEMMA LandingInit == Init => LandingInv
<1>. SUFFICES ASSUME Init PROVE LandingInv
  OBVIOUS
<1>1. IntentsAreMarked
  BY DEF Init, IntentsAreMarked, Journals
<1>2. \A a \in Actors : pc[a] = "idle"
  BY DEF Init
<1>3. \A a \in Actors : ActorInv(a)
  BY <1>2 DEF ActorInv, SizeIsKnown, RequestIsAsked, ListingIsExact, Recovering, Unlanded
<1>. QED BY <1>1, <1>3 DEF LandingInv

LEMMA LandingNext == TypeOK /\ JournalInv /\ LandingInv /\ [Next]_vars => LandingInv'
<1>. SUFFICES ASSUME TypeOK, JournalInv, LandingInv, [Next]_vars PROVE LandingInv'
  OBVIOUS
<1>1. ASSUME NEW a \in Actors, Step(a) \/ \E job \in Jobs : TakeFence(a, job)
      PROVE  LandingInv'
  BY <1>1, EntryLanding, RecoveryLanding, AccountingLanding, BeginLanding, DispatchLanding,
     SendLanding, MutationLanding DEF Step, Mutation
<1>2. CASE Store
  BY <1>2, AdmitLanding, LandLanding DEF Store
<1>3. CASE Tick
  BY <1>3, TickLanding
<1>4. CASE ExpireOrphan \/ BackgroundFsync \/ UNCHANGED vars
  BY <1>4, Aside DEF ExpireOrphan, BackgroundFsync, Fsync, vars, NothingNew, Journals, store,
                     redis, locks
<1>5. CASE Failure
  BY <1>5, FailureLanding
<1>. QED BY <1>1, <1>2, <1>3, <1>4, <1>5 DEF Next

LEMMA LandingCorrect == Spec => []LandingInv
<1>1. TypeOK /\ JournalInv /\ LandingInv /\ [Next]_vars => LandingInv'
  BY LandingNext
<1>. QED BY TypeCorrect, JournalCorrect, LandingInit, <1>1, PTL DEF Spec

(* What a recovering actor publishes for an intent that is still pending   *)
(* is the content of the store, whatever failed before and however long    *)
(* its two listings took: nothing can land while that intent is pending.   *)
THEOREM RecoveriesAreExact == Spec => []RecoveryIsExact
<1>1. LandingInv => RecoveryIsExact
  BY DEF LandingInv, ActorInv, ListingIsExact, RecoveryIsExact, Recovering, IsDispatched, Holds
<1>. QED BY LandingCorrect, <1>1, PTL

----------------------------------------------------------------------------
(* The total.  TotalInv is inductive under RestartsKeepScans only.         *)

\* A journal as it was, but perhaps without the total; or one that leaves
\* nothing in doubt.
Sound(d) ==
    \/ \E c \in Journals : /\ d.intents = c.intents /\ d.epoch = c.epoch
                           /\ d.usage \in {c.usage, None}
    \/ /\ \A i \in d.intents : i.phase = "preflight"
       /\ OffBy(d, 0)
       /\ d.epoch > db.epoch \/ (d.epoch = db.epoch /\ db.intents = {})

BothSound == UNCHANGED <<size, physical>> /\ Sound(db') /\ Sound(aof')

Onward(b) == pc[b] \in {"scan", "install"} => db'.epoch >= loc[b].epoch

LEMMA SoundTotals == ASSUME TotalInv, BothSound PROVE TotalsAreKnown'
<1>1. ASSUME NEW d \in {db', aof'}, \A i \in d.intents : i.phase = "preflight"
      PROVE  d.usage # None => d.usage + 0 = physical
  BY <1>1 DEF TotalInv, BothSound, TotalsAreKnown, Sound, Journals, OffBy
<1>. QED BY <1>1 DEF TotalsAreKnown, Journals, OffBy, BothSound

LEMMA SoundDoubts ==
    ASSUME BothSound, NEW m, NEW d \in {db', aof'}, InDoubt(d, m)
    PROVE  \E c \in Journals : InDoubt(c, m) /\ d.usage \in {c.usage, None}
BY DEF BothSound, Sound, InDoubt

LEMMA SoundScans ==
    ASSUME TypeOK, TypeOK', BothSound, NEW e \in Nat, db.epoch >= e,
           \A c \in Journals : c.epoch > e \/ (c.epoch = e /\ c.intents # {}),
           NEW d \in {db', aof'}
    PROVE  d.epoch > e \/ (d.epoch = e /\ d.intents # {})
<1>1. db.epoch \in Nat
  BY DEF TypeOK, Journal
<1>2. CASE \E c \in Journals : d.intents = c.intents /\ d.epoch = c.epoch
  BY <1>2
<1>3. CASE d.epoch > db.epoch \/ (d.epoch = db.epoch /\ db.intents = {})
  <2>1. d.epoch \in Int
    BY DEF TypeOK, Journal
  <2>2. db.epoch > e \/ (db.epoch = e /\ db.intents # {})
    BY DEF Journals
  <2>. QED BY <1>1, <1>3, <2>1, <2>2
<1>. QED BY <1>2, <1>3 DEF BothSound, Sound

\* What the step of another does to the bargain of b.
LEMMA TotalBystander ==
    ASSUME TypeOK, TypeOK', TotalInv, BothSound, NEW b \in Actors, Onward(b),
           UNCHANGED <<pc[b], loc[b]>>
    PROVE  LackIsKnown(b)' /\ ScanIsFenced(b)'
<1>1. LackIsKnown(b) /\ ScanIsFenced(b)
  BY DEF TotalInv
<1>2. LackIsKnown(b)'
  <2>. SUFFICES ASSUME NEW d \in {db', aof'}, InDoubt(d, loc[b].mid)
                PROVE  /\ Unlanded(b) \/ pc[b] \in {"await", "head"}
                             => (d.usage # None => d.usage + Growth(b) = physical)
                       /\ pc[b] = "commit" => (d.usage # None => d.usage + loc[b].delta = physical)
    BY DEF LackIsKnown, Journals, OffBy, Unlanded, Growth, BothSound, InDoubt
  <2>. QED BY <1>1, SoundDoubts DEF LackIsKnown, OffBy
<1>3. ScanIsFenced(b)'
  <2>. SUFFICES ASSUME pc[b] \in {"scan", "install"}
                PROVE  /\ db'.epoch >= loc[b].epoch
                       /\ ~loc[b].fresh => \A d \in {db', aof'} :
                            d.epoch > loc[b].epoch \/ (d.epoch = loc[b].epoch /\ d.intents # {})
    BY DEF ScanIsFenced, Journals
  <2>1. loc[b].epoch \in Nat
    BY DEF TypeOK, Locals
  <2>. QED BY <1>1, <2>1, SoundScans DEF ScanIsFenced, Onward
<1>. QED BY <1>2, <1>3

\* A step of one actor, and of none.
LEMMA TotalStep ==
    ASSUME TypeOK, TypeOK', TotalInv, BothSound, db'.epoch >= db.epoch,
           NEW a \in Actors, \A b \in Actors \ {a} : UNCHANGED <<pc[b], loc[b]>>,
           LackIsKnown(a)', ScanIsFenced(a)'
    PROVE  TotalInv'
<1>1. ASSUME NEW b \in Actors \ {a} PROVE LackIsKnown(b)' /\ ScanIsFenced(b)'
  <2>1. Onward(b)
    BY DEF Onward, TotalInv, ScanIsFenced, TypeOK, Journal, Locals
  <2>. QED BY <2>1, TotalBystander
<1>. QED BY <1>1, SoundTotals DEF TotalInv

LEMMA TotalAside ==
    ASSUME TypeOK, TypeOK', TotalInv, BothSound, db'.epoch >= db.epoch, UNCHANGED <<pc, loc>>
    PROVE  TotalInv'
<1>1. ASSUME NEW b \in Actors PROVE LackIsKnown(b)' /\ ScanIsFenced(b)'
  <2>1. Onward(b)
    BY DEF Onward, TotalInv, ScanIsFenced, TypeOK, Journal, Locals
  <2>. QED BY <2>1, TotalBystander
<1>. QED BY <1>1, SoundTotals DEF TotalInv

\* Places at which TotalInv asks nothing of an actor.
CalmPlaces == Places \ {"dispatchSync", "undoDispatch", "send", "await", "head", "commit", "scan",
                        "install"}

LEMMA Calms ==
    ASSUME TypeOK, TypeOK', TotalInv, BothSound, db'.epoch >= db.epoch, NEW a \in Actors,
           \E p \in CalmPlaces : \E l : MoveWith(a, p, l)
    PROVE  TotalInv'
<1>1. PICK p \in CalmPlaces : \E l : MoveWith(a, p, l)
  OBVIOUS
<1>2. pc'[a] = p /\ \A b \in Actors \ {a} : UNCHANGED <<pc[b], loc[b]>>
  BY <1>1, MoveEffect DEF CalmPlaces
<1>3. LackIsKnown(a)' /\ ScanIsFenced(a)'
  BY <1>2 DEF LackIsKnown, ScanIsFenced, Unlanded, CalmPlaces
<1>. QED BY <1>2, <1>3, TotalStep

LEMMA SoundSame ==
    ASSUME UNCHANGED <<size, physical, db>>, aof' \in {aof, db}, TypeOK
    PROVE  BothSound /\ db'.epoch >= db.epoch
BY DEF BothSound, Sound, Journals, TypeOK, Journal

\* Retiring an intent when the total that is left is right.
LEMMA SoundRetire ==
    ASSUME TypeOK, JournalInv, UNCHANGED <<size, physical, aof>>, NEW m, NEW e, NEW ph, NEW n,
           Holds(db, m, e, ph),
           db' \in {Retire(db, m), Committed(db, m, n), Resolved(db, m, n)},
           db'.usage # None => db'.usage + 0 = physical
    PROVE  BothSound /\ db'.epoch >= db.epoch
<1>1. db \in Journal /\ db.epoch \in Nat
  BY DEF TypeOK, Journal
<1>2. db'.intents = {} /\ db'.epoch = db.epoch + 1
  BY <1>1, RetireFields, RetireEmpties
<1>3. Sound(aof')
  BY DEF Sound, Journals
<1>4. Sound(db')
  BY <1>1, <1>2 DEF Sound, OffBy
<1>. QED BY <1>1, <1>2, <1>3, <1>4 DEF BothSound

LEMMA CalmNames ==
    {"idle", "fenced", "inspect", "expire", "probe", "confirm", "rescan", "publish", "recheck",
     "cached", "snapshot", "begin", "beginSync", "undoBegin", "measure", "dispatch", "repair",
     "settle", "leave"} \subseteq CalmPlaces
BY DEF CalmPlaces, Places

LEMMA CalmWays ==
    ASSUME TypeOK, NEW a \in Actors
    PROVE  /\ Quit(a) => \E p \in CalmPlaces : \E l : MoveWith(a, p, l)
           /\ \A p \in CalmPlaces : Resume(a, p) => \E l : MoveWith(a, p, l)
           /\ Proceed(a) => \E p \in CalmPlaces : \E l : MoveWith(a, p, l)
           /\ \A i : Classify(a, i) => \E p \in CalmPlaces : \E l : MoveWith(a, p, l)
           /\ \A p \in CalmPlaces : Move(a, p) /\ UNCHANGED loc => \E l : MoveWith(a, p, l)
<1>1. \A p : Resume(a, p) => \E l : MoveWith(a, p, l)
  BY DEF Resume
<1>2. \A i : Classify(a, i) => \E p \in CalmPlaces : \E l : MoveWith(a, p, l)
  <2>. SUFFICES ASSUME NEW i, Classify(a, i)
                PROVE  \E p \in CalmPlaces : \E l : MoveWith(a, p, l)
    OBVIOUS
  <2>. DEFINE new == [loc[a] EXCEPT !.mid = i.mid, !.epoch = i.epoch,
                                    !.deadline = i.recoverAfter, !.fresh = TRUE]
  <2>1. \E p \in {"expire", "recheck", "probe"} : MoveWith(a, p, new)
    BY DEF Classify
  <2>. HIDE DEF new
  <2>. QED BY <2>1, CalmNames
<1>3. Quit(a) => \E p \in CalmPlaces : \E l : MoveWith(a, p, l)
  BY CalmNames DEF Quit
<1>4. Proceed(a) => \E p \in CalmPlaces : \E l : MoveWith(a, p, l)
  BY <1>1, <1>3, CalmNames DEF Proceed
<1>. QED BY <1>1, <1>2, <1>3, <1>4, Stays

LEMMA EntryTotal ==
    ASSUME TypeOK, TypeOK', TotalInv, NEW a \in Actors,
           TakeLease(a) \/ Leave(a) \/ \E job \in Jobs : TakeFence(a, job)
    PROVE  TotalInv'
<1>1. BothSound /\ db'.epoch >= db.epoch
  BY SoundSame DEF TakeLease, Leave, TakeFence, store, redis
<1>2. \E p \in CalmPlaces : \E l : MoveWith(a, p, l)
  BY CalmWays, CalmNames DEF TakeLease, Leave, TakeFence
<1>. QED BY <1>1, <1>2, Calms

\* What is in the total while an intent was not dispatched, or not sent.
LEMMA PreflightTotal ==
    ASSUME JournalInv, TotalInv, NEW m, NEW e, Holds(db, m, e, "preflight")
    PROVE  OffBy(db, 0)
BY RetireEmpties DEF TotalInv, TotalsAreKnown, Journals

LEMMA RecoveryTotal ==
    ASSUME TypeOK, TypeOK', JournalInv, LandingInv, TotalInv, NEW a \in Actors, Recovery(a)
    PROVE  TotalInv'
<1>. USE DEF store, redis, locks
<1>0. /\ UNCHANGED <<size, physical, aof>> /\ db \in Journal /\ loc[a] \in Locals
      /\ loc[a].after \in CalmPlaces
  BY CalmNames DEF Recovery, Inspect, Expire, Probe, Confirm, Rescan, Publish, Recheck, TypeOK, Locals
<1>1. BothSound /\ db'.epoch >= db.epoch
  <2>1. CASE db' = db
    BY <1>0, <2>1, SoundSame
  <2>2. CASE /\ db' = Retire(db, loc[a].mid)
             /\ Holds(db, loc[a].mid, loc[a].epoch, "preflight")
    <3>1. db'.usage = db.usage
      BY <1>0, <2>2, RetireFields
    <3>2. OffBy(db, 0)
      BY <2>2, PreflightTotal
    <3>3. db'.usage # None => db'.usage + 0 = physical
      BY <3>1, <3>2 DEF OffBy
    <3>. QED BY <1>0, <2>2, <3>3, SoundRetire
  <2>3. CASE /\ db' = Resolved(db, loc[a].mid, loc[a].total) /\ pc[a] = "publish"
             /\ Holds(db, loc[a].mid, loc[a].epoch, "dispatched")
    <3>1. db'.usage = loc[a].total /\ loc[a].total \in Int
      BY <1>0, <2>3, RetireFields DEF Locals
    <3>2. loc[a].total = physical
      BY <2>3 DEF LandingInv, ActorInv, ListingIsExact, Recovering, IsDispatched, Holds
    <3>3. db'.usage # None => db'.usage + 0 = physical
      BY <3>1, <3>2
    <3>. QED BY <1>0, <2>3, <3>3, SoundRetire
  <2>4. \/ db' = db
        \/ /\ db' = Retire(db, loc[a].mid)
           /\ Holds(db, loc[a].mid, loc[a].epoch, "preflight")
        \/ /\ db' = Resolved(db, loc[a].mid, loc[a].total) /\ pc[a] = "publish"
           /\ Holds(db, loc[a].mid, loc[a].epoch, "dispatched")
    BY DEF Recovery, Inspect, Expire, Probe, Confirm, Rescan, Publish, Recheck
  <2>. QED BY <2>1, <2>2, <2>3, <2>4
<1>2. \E p \in CalmPlaces : \E l : MoveWith(a, p, l)
  <2>1. CASE Inspect(a) \/ Expire(a) \/ Recheck(a)
    BY <1>0, <2>1, CalmWays, CalmNames DEF Inspect, Expire, Recheck
  <2>2. CASE Probe(a) \/ Confirm(a) \/ Rescan(a) \/ Publish(a)
    BY <2>2, CalmWays, CalmNames DEF Probe, Confirm, Rescan, Publish
  <2>. QED BY <2>1, <2>2 DEF Recovery
<1>. QED BY <1>1, <1>2, Calms

LEMMA AccountingTotal ==
    ASSUME TypeOK, TypeOK', LandingInv, TotalInv, NEW a \in Actors, Accounting(a)
    PROVE  TotalInv'
<1>. USE DEF store, redis, locks
<1>0. UNCHANGED <<size, physical, aof>> /\ db \in Journal /\ loc[a] \in Locals /\ db.epoch \in Nat
  BY DEF Accounting, Cached, Snapshot, Scan, Install, TypeOK, Journal
<1>1. ASSUME Cached(a) PROVE TotalInv'
  <2>1. BothSound /\ db'.epoch >= db.epoch
    BY <1>0, <1>1, SoundSame DEF Cached
  <2>2. \E p \in CalmPlaces : \E l : MoveWith(a, p, l)
    BY <1>1, CalmWays, CalmNames DEF Cached
  <2>. QED BY <2>1, <2>2, Calms
<1>2. ASSUME Snapshot(a) PROVE TotalInv'
  <2>. DEFINE l == [loc[a] EXCEPT !.gen = db.gen, !.epoch = db.epoch, !.fresh = TRUE]
  <2>1. l.epoch = db.epoch /\ l.fresh
    BY <1>0 DEF Locals
  <2>2. MoveWith(a, "scan", l)
    BY <1>2 DEF Snapshot
  <2>. HIDE DEF l
  <2>3. /\ pc'[a] = "scan" /\ loc'[a] = l /\ \A b \in Actors \ {a} : UNCHANGED <<pc[b], loc[b]>>
    BY <2>2, MoveEffect DEF Places
  <2>4. BothSound /\ db' = db
    BY <1>0, <1>2, SoundSame DEF Snapshot
  <2>5. LackIsKnown(a)' /\ ScanIsFenced(a)'
    BY <1>0, <2>1, <2>3, <2>4 DEF LackIsKnown, ScanIsFenced, Unlanded
  <2>. QED BY <1>0, <2>3, <2>4, <2>5, TotalStep
<1>3. ASSUME Scan(a) PROVE TotalInv'
  <2>1. PICK t : MoveWith(a, "install", [loc[a] EXCEPT !.total = t]) /\ pc[a] = "scan"
    BY <1>3 DEF Scan
  <2>2. /\ [loc[a] EXCEPT !.total = t].epoch = loc[a].epoch
        /\ [loc[a] EXCEPT !.total = t].fresh = loc[a].fresh
    BY <1>0 DEF Locals
  <2>3. /\ pc'[a] = "install" /\ loc'[a].epoch = loc[a].epoch /\ loc'[a].fresh = loc[a].fresh
        /\ \A b \in Actors \ {a} : UNCHANGED <<pc[b], loc[b]>>
    BY <2>1, <2>2, MoveEffect, ZenonT(30) DEF Places
  <2>4. BothSound /\ db' = db /\ aof' = aof
    BY <1>0, <1>3, SoundSame DEF Scan
  <2>5. ScanIsFenced(a)
    BY DEF TotalInv
  <2>6. LackIsKnown(a)' /\ ScanIsFenced(a)'
    BY <2>1, <2>3, <2>4, <2>5 DEF LackIsKnown, ScanIsFenced, Unlanded, Journals
  <2>. QED BY <1>0, <2>3, <2>4, <2>6, TotalStep
<1>4. ASSUME Install(a) PROVE TotalInv'
  <2>1. CASE db' = db
    <3>1. BothSound /\ db'.epoch >= db.epoch
      BY <1>0, <2>1, SoundSame
    <3>2. \E p \in CalmPlaces : \E l : MoveWith(a, p, l)
      BY <1>4, CalmWays, CalmNames DEF Install
    <3>. QED BY <3>1, <3>2, Calms
  <2>2. CASE db' # db
    <3>1. /\ pc[a] = "install" /\ db.intents = {} /\ db.epoch = loc[a].epoch
          /\ db' = Reconciled(db, loc[a].total) /\ Proceed(a)
      BY <1>4, <2>2 DEF Install, MayReconcile
    <3>2. loc[a].fresh
      BY <1>0, <3>1 DEF TotalInv, ScanIsFenced, Journals
    <3>3. loc[a].total = physical /\ physical + 0 = physical
      BY <3>1, <3>2 DEF LandingInv, ActorInv, ListingIsExact, TypeOK
    <3>4. db'.usage = physical /\ db'.epoch = db.epoch /\ db'.intents = {}
      BY <1>0, <3>1, <3>3, TotalFields
    <3>5. BothSound /\ db'.epoch >= db.epoch
      <4>1. Sound(db')
        BY <3>1, <3>3, <3>4 DEF Sound, OffBy
      <4>2. Sound(aof')
        BY <1>0 DEF Sound, Journals
      <4>. QED BY <1>0, <3>4, <4>1, <4>2 DEF BothSound
    <3>. QED BY <3>1, <3>5, Calms, CalmWays
  <2>. QED BY <2>1, <2>2
<1>. QED BY <1>1, <1>2, <1>3, <1>4 DEF Accounting

\* The bargain of an actor whose place in its mutation changes and nothing else.
LEMMA GoesOn ==
    ASSUME TypeOK, TypeOK', LandingInv, TotalInv, NEW a \in Actors, NEW p \in Places, NEW l,
           MoveWith(a, p, l), UNCHANGED <<size, physical, db>>, aof' \in {aof, db},
           l.mid = loc[a].mid, l.key = loc[a].key, l.old = loc[a].old,
           \/ pc[a] \in {"dispatchSync", "send"} /\ p \in {"undoDispatch", "send", "await"}
           \/ pc[a] = "await" /\ p = "head"
    PROVE  TotalInv'
<1>1. /\ pc'[a] = p /\ loc'[a] = l /\ \A b \in Actors \ {a} : UNCHANGED <<pc[b], loc[b]>>
  BY MoveEffect
<1>2. BothSound /\ db'.epoch >= db.epoch
  BY SoundSame
<1>3. LackIsKnown(a)
  BY DEF TotalInv
<1>4. LackIsKnown(a)'
  <2>. SUFFICES ASSUME NEW d \in {db', aof'}, InDoubt(d, loc[a].mid)
                PROVE  d.usage # None => d.usage + Growth(a) = physical
    BY <1>1 DEF LackIsKnown, Journals, OffBy, Unlanded, Growth, InDoubt
  <2>1. d \in Journals
    BY DEF Journals
  <2>. QED BY <1>3, <2>1 DEF LackIsKnown, OffBy, Unlanded
<1>5. ScanIsFenced(a)'
  BY <1>1 DEF ScanIsFenced
<1>. QED BY <1>1, <1>2, <1>4, <1>5, TotalStep

LEMMA MutationTotal ==
    ASSUME TypeOK, TypeOK', JournalInv, LandingInv, TotalInv, NEW a \in Actors,
           \/ BeginSync(a) \/ UndoBegin(a) \/ Measure(a) \/ DispatchSync(a) \/ UndoDispatch(a)
           \/ Reply(a) \/ GiveUp(a) \/ Head(a) \/ Commit(a) \/ Repair(a) \/ SettleByScan(a)
    PROVE  TotalInv'
<1>. USE DEF store, redis, locks
<1>. DEFINE m == loc[a].mid
            e == loc[a].epoch
<1>0. UNCHANGED <<size, physical>> /\ db \in Journal /\ loc[a] \in Locals
  BY DEF BeginSync, UndoBegin, Measure, DispatchSync, UndoDispatch, Reply, GiveUp, Head, Commit,
         Repair, SettleByScan, Undo, WaitAof, TypeOK
<1>1. ASSUME BeginSync(a) \/ Measure(a) \/ GiveUp(a) \/ Repair(a) PROVE TotalInv'
  <2>1. BothSound /\ db'.epoch >= db.epoch
    BY <1>1, SoundSame DEF BeginSync, WaitAof, Fsync, Measure, GiveUp, Repair
  <2>2. \E p \in CalmPlaces : \E l : MoveWith(a, p, l)
    BY <1>1, CalmWays, CalmNames DEF BeginSync, WaitAof, Measure, GiveUp, Repair
  <2>. QED BY <2>1, <2>2, Calms
<1>2. ASSUME DispatchSync(a) \/ Reply(a) PROVE TotalInv'
  <2>1. \/ MoveWith(a, "send", loc[a]) /\ pc[a] = "dispatchSync"
        \/ MoveWith(a, "head", loc[a]) /\ pc[a] = "await"
    BY <1>2, Stays DEF DispatchSync, WaitAof, Reply
  <2>2. UNCHANGED <<size, physical, db>> /\ aof' \in {aof, db}
    BY <1>2 DEF DispatchSync, WaitAof, Fsync, Reply
  <2>. QED BY <2>1, <2>2, GoesOn DEF Places
<1>3. ASSUME UndoBegin(a) \/ UndoDispatch(a) \/ SettleByScan(a) PROVE TotalInv'
  <2>1. aof' = aof /\ Quit(a)
    BY <1>3 DEF UndoBegin, UndoDispatch, Undo, SettleByScan
  <2>2. CASE db' = db
    <3>1. BothSound /\ db'.epoch >= db.epoch
      BY <1>0, <2>1, <2>2, SoundSame
    <3>. QED BY <2>1, <3>1, Calms, CalmWays
  <2>3. CASE db' # db
    <3>1. \/ db' = Retire(db, m) /\ Holds(db, m, e, "preflight")
          \/ db' = Retire(db, m) /\ Holds(db, m, e, "dispatched") /\ pc[a] = "undoDispatch"
          \/ db' = Resolved(db, m, loc[a].total) /\ Holds(db, m, e, "dispatched") /\ pc[a] = "settle"
      BY <1>3, <2>3 DEF UndoBegin, UndoDispatch, Undo, SettleByScan
    <3>2. db'.usage # None => db'.usage + 0 = physical
      <4>1. CASE db' = Retire(db, m) /\ Holds(db, m, e, "preflight")
        <5>. HIDE DEF m, e
        <5>1. OffBy(db, 0)
          BY <4>1, PreflightTotal
        <5>2. db'.usage = db.usage
          BY <1>0, <4>1, RetireFields
        <5>. QED BY <1>0, <5>1, <5>2 DEF OffBy
      <4>2. CASE db' = Retire(db, m) /\ Holds(db, m, e, "dispatched") /\ pc[a] = "undoDispatch"
        <5>1. InDoubt(db, m) /\ IsDispatched(m)
          BY <4>2 DEF Holds, InDoubt, IsDispatched
        <5>2. Growth(a) = 0
          BY <4>2, <5>1 DEF LandingInv, ActorInv, SizeIsKnown, Unlanded
        <5>3. OffBy(db, Growth(a))
          BY <4>2, <5>1 DEF TotalInv, LackIsKnown, Journals, Unlanded
        <5>4. db'.usage = db.usage
          BY <1>0, <4>2, RetireFields
        <5>. QED BY <5>2, <5>3, <5>4 DEF OffBy
      <4>3. CASE db' = Resolved(db, m, loc[a].total) /\ Holds(db, m, e, "dispatched") /\ pc[a] = "settle"
        <5>1. loc[a].total = physical
          BY <4>3 DEF LandingInv, ActorInv, ListingIsExact, IsDispatched, Holds
        <5>2. db'.usage = loc[a].total /\ loc[a].total \in Int
          BY <1>0, <4>3, RetireFields DEF Locals
        <5>. QED BY <5>1, <5>2
      <4>. QED BY <3>1, <4>1, <4>2, <4>3
    <3>3. BothSound /\ db'.epoch >= db.epoch
      BY <1>0, <2>1, <3>1, <3>2, SoundRetire
    <3>. QED BY <2>1, <3>3, Calms, CalmWays
  <2>. QED BY <2>2, <2>3
<1>4. ASSUME Head(a) PROVE TotalInv'
  <2>0. BothSound /\ db'.epoch >= db.epoch /\ db' = db /\ aof' = aof /\ pc[a] = "head"
    BY <1>4, SoundSame DEF Head
  <2>1. CASE Quit(a)
    BY <2>0, <2>1, Calms, CalmWays
  <2>2. CASE ~Quit(a)
    <3>. DEFINE l == [Blank EXCEPT !.mid = m, !.epoch = e, !.delta = size[loc[a].key] - loc[a].old]
    <3>1. MoveWith(a, "commit", l)
      BY <1>4, <2>2 DEF Head
    <3>2. l.mid = m /\ l.delta = Growth(a)
      BY BlankType DEF Locals, Growth
    <3>. HIDE DEF l
    <3>3. /\ pc'[a] = "commit" /\ loc'[a] = l /\ \A b \in Actors \ {a} : UNCHANGED <<pc[b], loc[b]>>
      BY <3>1, MoveEffect DEF Places
    <3>4. LackIsKnown(a)
      BY DEF TotalInv
    <3>5. LackIsKnown(a)'
      <4>1. \A d \in Journals : InDoubt(d, m) => (d.usage # None => d.usage + Growth(a) = physical)
        BY <2>0, <3>4 DEF LackIsKnown, OffBy
      <4>. QED BY <1>0, <2>0, <3>2, <3>3, <4>1 DEF LackIsKnown, OffBy, Journals, InDoubt, Unlanded
    <3>6. ScanIsFenced(a)'
      BY <3>3 DEF ScanIsFenced
    <3>. QED BY <2>0, <3>3, <3>5, <3>6, TotalStep
  <2>. QED BY <2>1, <2>2
<1>5. ASSUME Commit(a) PROVE TotalInv'
  <2>1. aof' = aof /\ \E p \in CalmPlaces : \E l : MoveWith(a, p, l)
    BY <1>5, CalmWays, CalmNames DEF Commit
  <2>2. CASE db' = db
    <3>1. BothSound /\ db'.epoch >= db.epoch
      BY <1>0, <2>1, <2>2, SoundSame
    <3>. QED BY <2>1, <3>1, Calms
  <2>3. CASE db' # db
    <3>1. /\ db' = Committed(db, m, loc[a].delta) /\ Holds(db, m, e, "dispatched")
          /\ pc[a] = "commit" /\ db.usage # None
      BY <1>5, <2>3 DEF Commit, MayAdd
    <3>2. db.usage + loc[a].delta = physical
      BY <3>1 DEF TotalInv, LackIsKnown, Journals, InDoubt, Holds, OffBy
    <3>3. db'.usage = db.usage + loc[a].delta
      BY <1>0, <3>1, RetireFields
    <3>4. physical + 0 = physical
      BY DEF TypeOK
    <3>5. BothSound /\ db'.epoch >= db.epoch
      BY <1>0, <2>1, <3>1, <3>2, <3>3, <3>4, SoundRetire
    <3>. QED BY <2>1, <3>5, Calms
  <2>. QED BY <2>2, <2>3
<1>. QED BY <1>1, <1>2, <1>3, <1>4, <1>5

LEMMA BeginTotal ==
    ASSUME TypeOK, TypeOK', JournalInv, TotalInv, NEW a \in Actors, Begin(a)
    PROVE  TotalInv'
<1>. USE DEF store, redis, locks
<1>0. UNCHANGED <<size, physical, aof>> /\ db \in Journal /\ db.epoch \in Nat
  BY DEF Begin, TypeOK, Journal
<1>1. CASE db' = db /\ Quit(a)
  BY <1>0, <1>1, SoundSame, Calms, CalmWays
<1>2. CASE db' = Begun(db, uuid + 1) /\ db.intents = {} /\ \E l : MoveWith(a, "beginSync", l)
  <2>1. /\ db'.usage = db.usage /\ db'.epoch = db.epoch + 1
        /\ \A i \in db'.intents : i.phase = "preflight"
    BY <1>0, <1>2, BeginFields
  <2>2. OffBy(db, 0)
    BY <1>2 DEF TotalInv, TotalsAreKnown, Journals
  <2>3. BothSound /\ db'.epoch >= db.epoch
    BY <1>0, <2>1, <2>2 DEF BothSound, Sound, OffBy, Journals
  <2>. QED BY <1>2, <2>3, Calms, CalmNames
<1>. QED BY <1>1, <1>2 DEF Begin, MayBegin

LEMMA DispatchTotal ==
    ASSUME TypeOK, TypeOK', JournalInv, LandingInv, TotalInv, NEW a \in Actors, Dispatch(a)
    PROVE  TotalInv'
<1>. USE DEF store, redis, locks
<1>. DEFINE m == loc[a].mid
<1>0. /\ UNCHANGED <<size, physical, aof>> /\ db \in Journal /\ db.epoch \in Nat
      /\ pc[a] = "dispatch"
  BY DEF Dispatch, TypeOK, Journal
<1>1. CASE ~Holds(db, m, loc[a].epoch, "preflight")
  <2>1. db' = db /\ Quit(a)
    BY <1>1 DEF Dispatch
  <2>. QED BY <1>0, <2>1, SoundSame, Calms, CalmWays
<1>2. CASE Holds(db, m, loc[a].epoch, "preflight")
  <2>1. /\ \E t : db' = Dispatched(db, m, t)
        /\ MoveWith(a, "dispatchSync", [loc[a] EXCEPT !.window = 0])
    BY <1>2 DEF Dispatch
  <2>2. /\ [loc[a] EXCEPT !.window = 0].mid = m
        /\ [loc[a] EXCEPT !.window = 0].key = loc[a].key
        /\ [loc[a] EXCEPT !.window = 0].old = loc[a].old
    BY DEF TypeOK, Locals
  <2>3. /\ pc'[a] = "dispatchSync" /\ loc'[a].mid = m /\ Growth(a)' = Growth(a)
        /\ \A b \in Actors \ {a} : UNCHANGED <<pc[b], loc[b]>>
    <3>1. /\ pc'[a] = "dispatchSync" /\ loc'[a] = [loc[a] EXCEPT !.window = 0]
          /\ \A b \in Actors \ {a} : UNCHANGED <<pc[b], loc[b]>>
      BY <2>1, MoveEffect DEF Places
    <3>. QED BY <1>0, <2>2, <3>1 DEF Growth
  <2>4. /\ db'.usage = db.usage /\ db'.epoch = db.epoch /\ (db'.intents # {} <=> db.intents # {})
        /\ \A i \in db'.intents : i.mid = m
    <3>1. \A i \in db.intents : i.mid = m
      BY <1>2, RetireEmpties
    <3>. QED BY <1>0, <2>1, <3>1, DispatchFields
  <2>5. OffBy(db, 0)
    BY <1>2, PreflightTotal
  <2>6. db'.usage # None => db'.usage + 0 = physical
    BY <2>4, <2>5 DEF OffBy
  <2>7. TotalsAreKnown'
    BY <1>0, <2>6 DEF TotalInv, TotalsAreKnown, Journals, OffBy
  <2>8. LackIsKnown(a)' /\ ScanIsFenced(a)'
    <3>1. IsPending(m)
      BY <1>2 DEF IsPending, Holds, Journals
    <3>2. Growth(a) = 0
      BY <1>0, <3>1 DEF LandingInv, ActorInv, SizeIsKnown
    <3>3. ~InDoubt(aof, m)
      BY <1>0 DEF JournalInv, DispatchedOnce, BeforeDispatch, IsDispatched, InDoubt
    <3>4. LackIsKnown(a)'
      BY <1>0, <2>3, <2>6, <3>2, <3>3 DEF LackIsKnown, Journals, OffBy, InDoubt
    <3>5. ScanIsFenced(a)'
      BY <2>3 DEF ScanIsFenced
    <3>. QED BY <3>4, <3>5
  <2>9. ASSUME NEW b \in Actors \ {a} PROVE LackIsKnown(b)' /\ ScanIsFenced(b)'
    <3>0. LackIsKnown(b) /\ ScanIsFenced(b) /\ UNCHANGED <<pc[b], loc[b], Growth(b)>>
      BY <1>0, <2>3 DEF TotalInv, Growth
    <3>1. pc[b] \in Owning => loc[b].mid # m
      BY <1>0 DEF JournalInv, IdsAreUnique, Owning, BeforeDispatch
    <3>2. pc[b] \in Owning => ~InDoubt(db', loc[b].mid)
      BY <2>4, <3>1 DEF InDoubt
    <3>3. LackIsKnown(b)'
      <4>. SUFFICES ASSUME NEW d \in {db', aof'}, InDoubt(d, loc[b].mid), pc[b] \in Owning
                    PROVE  /\ Unlanded(b) \/ pc[b] \in {"await", "head"}
                                 => (d.usage # None => d.usage + Growth(b) = physical)
                           /\ pc[b] = "commit" => (d.usage # None => d.usage + loc[b].delta = physical)
        BY <1>0, <3>0 DEF LackIsKnown, Journals, OffBy, Unlanded, InDoubt, Owning
      <4>1. d = aof
        BY <1>0, <3>2
      <4>. QED BY <3>0, <4>1 DEF LackIsKnown, OffBy, Journals
    <3>4. ScanIsFenced(b)'
      BY <1>0, <2>4, <3>0 DEF ScanIsFenced, Journals
    <3>. QED BY <3>3, <3>4
  <2>. QED BY <2>7, <2>8, <2>9 DEF TotalInv
<1>. QED BY <1>1, <1>2

LEMMA SendTotal ==
    ASSUME TypeOK, TypeOK', LandingInv, TotalInv, NEW a \in Actors, Send(a)
    PROVE  TotalInv'
<1>1. UNCHANGED <<size, physical, db, aof>> /\ pc[a] = "send"
  BY DEF Send, redis
<1>. DEFINE l == [loc[a] EXCEPT !.until = 0]
<1>2. l.mid = loc[a].mid /\ l.key = loc[a].key /\ l.old = loc[a].old
  BY DEF TypeOK, Locals
<1>3. Quit(a) \/ MoveWith(a, "await", l)
  BY DEF Send
<1>. HIDE DEF l
<1>. QED BY <1>1, <1>2, <1>3, SoundSame, Calms, CalmWays, GoesOn DEF Places

LEMMA LandTotal ==
    ASSUME TypeOK, JournalInv, LandingInv, TotalInv, NEW r \in wire, Land(r)
    PROVE  TotalInv'
<1>0. /\ UNCHANGED <<db, aof>> /\ size' = [size EXCEPT ![r.key] = r.to]
      /\ physical' = physical - size[r.key] + r.to /\ r.key \in Keys /\ r.to \in Nat
  BY DEF Land, redis, TypeOK, Request
<1>1. ASSUME NEW d \in Journals
      PROVE  /\ InDoubt(d, r.mid) /\ d.intents # {}
             /\ \A i \in d.intents : i.mid = r.mid /\ i.phase = "dispatched"
  BY LandsAlone DEF InDoubt
<1>2. TotalsAreKnown'
  BY <1>0, <1>1 DEF TotalsAreKnown, Journals, InDoubt
<1>3. db.epoch = aof.epoch
  <2>1. PICK i \in db.intents, j \in aof.intents : /\ i.mid = r.mid /\ i.phase = "dispatched"
                                                   /\ j.mid = r.mid /\ j.phase = "dispatched"
    BY <1>1 DEF Journals, InDoubt
  <2>2. i = j
    BY <2>1 DEF JournalInv, DispatchedOnce
  <2>. QED BY <2>2 DEF LandingInv, IntentsAreMarked, Journals
<1>4. ASSUME NEW a \in Actors PROVE LackIsKnown(a)' /\ ScanIsFenced(a)'
  <2>a. /\ pc'[a] = pc[a] /\ loc'[a].mid = loc[a].mid /\ loc'[a].key = loc[a].key
        /\ loc'[a].old = loc[a].old /\ loc'[a].epoch = loc[a].epoch /\ loc'[a].fresh = FALSE
        /\ loc'[a].ok = IF pc[a] = "await" /\ loc[a].mid = r.mid THEN TRUE ELSE loc[a].ok
    BY LandFields
  <2>1. LackIsKnown(a)'
    <3>. SUFFICES ASSUME NEW d \in Journals, InDoubt(d, loc[a].mid), pc[a] \in Owning
                  PROVE  /\ Unlanded(a)' \/ pc[a] \in {"await", "head"} => OffBy(d, Growth(a))'
                         /\ pc[a] # "commit"
      BY <1>0, <2>a DEF LackIsKnown, Journals, Unlanded, InDoubt, Owning
    <3>1. loc[a].mid = r.mid
      BY <1>1 DEF InDoubt
    <3>2. pc[a] = "await" /\ ~loc[a].ok
      BY <3>1, LandsUnwatched
    <3>3. r.key = loc[a].key
      BY <3>1, <3>2 DEF LandingInv, ActorInv, RequestIsAsked
    <3>4. OffBy(d, Growth(a)) /\ Growth(a) = 0
      <4>1. IsDispatched(loc[a].mid)
        BY DEF InDoubt, IsDispatched, Journals
      <4>. QED BY <3>2, <4>1 DEF TotalInv, LackIsKnown, LandingInv, ActorInv, SizeIsKnown, Unlanded
    <3>5. /\ Growth(a)' = r.to - loc[a].old /\ Growth(a) = size[r.key] - loc[a].old
          /\ loc[a].old \in Nat /\ size[r.key] \in Nat /\ physical \in Int
      BY <1>0, <2>a, <3>3 DEF Growth, TypeOK, Locals
    <3>6. d.usage # None => d.usage \in Int
      BY DEF TypeOK, Journal, Journals
    <3>7. d.usage # None => d.usage + (r.to - loc[a].old) = physical - size[r.key] + r.to
      BY <1>0, <3>4, <3>5, <3>6 DEF OffBy
    <3>8. OffBy(d, Growth(a))'
      BY <1>0, <3>5, <3>7 DEF OffBy, Journals
    <3>. QED BY <3>2, <3>8
  <2>2. ScanIsFenced(a)'
    <3>1. ScanIsFenced(a) /\ db.epoch \in Nat /\ loc[a].epoch \in Nat
      BY DEF TotalInv, TypeOK, Journal, Locals
    <3>. QED BY <1>0, <1>1, <1>3, <2>a, <3>1 DEF ScanIsFenced, Journals
  <2>. QED BY <2>1, <2>2
<1>. QED BY <1>2, <1>4 DEF TotalInv

LEMMA CrashTotal ==
    ASSUME TypeOK, TypeOK', LandingInv, TotalInv, CrashRedis, RestartKeepsScans
    PROVE  TotalInv'
<1>0. db' = aof /\ UNCHANGED <<size, physical, aof, loc>>
  BY DEF CrashRedis, store
<1>1. BothSound
  BY <1>0 DEF BothSound, Sound, Journals
<1>2. ASSUME NEW b \in Actors PROVE LackIsKnown(b)' /\ ScanIsFenced(b)'
  <2>1. pc'[b] = pc[b] \/ (pc[b] = "dispatchSync" /\ pc'[b] = "undoDispatch") \/ pc'[b] = "undoBegin"
    BY DEF CrashRedis, Handler
  <2>2. LackIsKnown(b)
    BY DEF TotalInv
  <2>3. CASE pc'[b] = pc[b]
    <3>1. Onward(b)
      BY <1>0 DEF Onward, RestartKeepsScans
    <3>. QED BY <1>0, <1>1, <2>3, <3>1, TotalBystander
  <2>4. CASE pc[b] = "dispatchSync" /\ pc'[b] = "undoDispatch"
    BY <1>0, <2>2, <2>4 DEF LackIsKnown, ScanIsFenced, OffBy, Growth, InDoubt, Unlanded, Journals
  <2>5. CASE pc'[b] = "undoBegin"
    BY <2>5 DEF LackIsKnown, ScanIsFenced, Unlanded
  <2>. QED BY <2>1, <2>3, <2>4, <2>5
<1>. QED BY <1>1, <1>2, SoundTotals DEF TotalInv

LEMMA FailureTotal ==
    ASSUME TypeOK, TypeOK', LandingInv, TotalInv, Failure, RestartKeepsScans
    PROVE  TotalInv'
<1>. USE DEF store, redis, locks
<1>1. ASSUME NEW a \in Actors, Raise(a) PROVE TotalInv'
  <2>. DEFINE l == [loc[a] EXCEPT !.fresh = TRUE]
  <2>1. l.mid = loc[a].mid /\ l.key = loc[a].key /\ l.old = loc[a].old
    BY DEF TypeOK, Locals
  <2>2. \/ Quit(a) \/ MoveWith(a, "undoBegin", l) \/ MoveWith(a, "repair", l)
        \/ MoveWith(a, "undoDispatch", l) /\ pc[a] = "dispatchSync"
    BY <1>1 DEF Raise, Handler
  <2>3. UNCHANGED <<size, physical, db, aof>>
    BY <1>1 DEF Raise
  <2>. HIDE DEF l
  <2>. QED BY <2>1, <2>2, <2>3, SoundSame, Calms, CalmWays, CalmNames, GoesOn DEF Places
<1>2. ASSUME NEW a \in Actors, Die(a) PROVE TotalInv'
  BY <1>2, SoundSame, Calms, CalmNames DEF Die
<1>3. CASE LoseFence \/ LoseLease
  BY <1>3, SoundSame, TotalAside DEF LoseFence, LoseLease
<1>4. CASE CrashRedis
  BY <1>4, CrashTotal
<1>5. CASE ForgetUsage
  <2>1. /\ db'.intents = db.intents /\ db'.epoch = db.epoch /\ db'.usage = None
        /\ UNCHANGED <<size, physical, aof, pc, loc>> /\ db.epoch \in Nat
    BY <1>5, TotalFields DEF ForgetUsage, TypeOK, Journal
  <2>2. BothSound /\ db'.epoch >= db.epoch
    BY <2>1 DEF BothSound, Sound, Journals
  <2>. QED BY <2>1, <2>2, TotalAside
<1>. QED BY <1>1, <1>2, <1>3, <1>4, <1>5 DEF Failure

LEMMA TotalInit == Init => TotalInv
<1>. SUFFICES ASSUME Init PROVE TotalInv
  OBVIOUS
<1>1. TotalsAreKnown
  BY DEF Init, TotalsAreKnown, Journals, OffBy
<1>2. \A a \in Actors : pc[a] = "idle"
  BY DEF Init
<1>3. \A a \in Actors : LackIsKnown(a) /\ ScanIsFenced(a)
  BY <1>2 DEF LackIsKnown, ScanIsFenced, Unlanded
<1>. QED BY <1>1, <1>3 DEF TotalInv

LEMMA TotalNext ==
    /\ TypeOK /\ TypeOK' /\ JournalInv /\ LandingInv /\ TotalInv
    /\ [Next]_vars /\ [RestartKeepsScans]_vars
    => TotalInv'
<1>. SUFFICES ASSUME TypeOK, TypeOK', JournalInv, LandingInv, TotalInv, [Next]_vars,
                     [RestartKeepsScans]_vars
              PROVE  TotalInv'
  OBVIOUS
<1>1. ASSUME NEW a \in Actors, Step(a) \/ \E job \in Jobs : TakeFence(a, job)
      PROVE  TotalInv'
  BY <1>1, EntryTotal, RecoveryTotal, AccountingTotal, BeginTotal, DispatchTotal,
     SendTotal, MutationTotal DEF Step, Mutation
<1>2. CASE Store
  <2>1. ASSUME NEW r \in wire, Admit(r) PROVE TotalInv'
    BY <2>1, SoundSame, TotalAside DEF Admit, redis
  <2>. QED BY <1>2, <2>1, LandTotal DEF Store
<1>3. CASE Tick \/ ExpireOrphan \/ UNCHANGED vars
  BY <1>3, SoundSame, TotalAside DEF Tick, ExpireOrphan, vars, store, redis
<1>4. CASE BackgroundFsync
  BY <1>4, SoundSame, TotalAside DEF BackgroundFsync, Fsync, store
<1>5. CASE Failure
  <2>1. RestartKeepsScans
    <3>1. vars' = vars => ~CrashRedis
      BY DEF vars, CrashRedis, Fault, TypeOK
    <3>. QED BY <3>1 DEF RestartKeepsScans
  <2>. QED BY <1>5, <2>1, FailureTotal
<1>. QED BY <1>1, <1>2, <1>3, <1>4, <1>5 DEF Next

LEMMA TotalCorrect == Spec /\ RestartsKeepScans => []TotalInv
<1>1. /\ TypeOK /\ TypeOK' /\ JournalInv /\ LandingInv /\ TotalInv
      /\ [Next]_vars /\ [RestartKeepsScans]_vars
      => TotalInv'
  BY TotalNext
<1>. QED BY TypeCorrect, JournalCorrect, LandingCorrect, TotalInit, <1>1, PTL
         DEF Spec, RestartsKeepScans

(* A total that the capacity check may use is the number of bytes in the   *)
(* store, as long as no restart of Redis forgets the epoch a scan in       *)
(* progress has read.  Without that hypothesis an epoch can come again:    *)
(* taking an intent back raises the epoch only, so the same generation and *)
(* epoch may stand for a different content of the store, and a scan that   *)
(* was torn by the change in between is installed.                         *)
THEOREM CleanTotalsAreExact == Spec /\ RestartsKeepScans => []CleanMeansExact
<1>1. TypeOK /\ LandingInv /\ TotalInv => CleanMeansExact
  <2>. SUFFICES ASSUME TypeOK, LandingInv, TotalInv, Clean(db) PROVE db.usage = physical
    BY DEF CleanMeansExact
  <2>1. db.intents = {}
    BY DEF Clean, LandingInv, IntentsAreMarked, Journals
  <2>2. db.usage \in Int /\ db.usage + 0 = physical
    BY <2>1 DEF Clean, TotalInv, TotalsAreKnown, Journals, OffBy, TypeOK, Journal
  <2>. QED BY <2>2
<1>. QED BY TypeCorrect, LandingCorrect, TotalCorrect, <1>1, PTL

----------------------------------------------------------------------------
(* What the totals are.  That none is negative needs no more of a step than  *)
(* where its total comes from: a listing, a locals record, the journal, or a *)
(* commit whose script has compared the sum with 0.                          *)

\* A total of a journal, or nothing.
Counted(d) == d.usage # None => d.usage >= 0

AllCounted == Counted(db) /\ Counted(aof)

\* The totals actors hold.
HeldCounted == \A a \in Actors : loc[a].total >= 0

\* What a step that leaves the store alone has to show.
StaysCounted == AllCounted' /\ HeldCounted'

LEMMA SumKept ==
    ASSUME TotalsAddUp, TypeOK', UNCHANGED <<size, physical>>, StaysCounted
    PROVE  TotalsAddUp'
BY DEF TotalsAddUp, StaysCounted, AllCounted, HeldCounted, Counted

\* An actor's step that writes a record with a total that counts.
LEMMA HoldsCounted ==
    ASSUME TotalsAddUp, NEW a \in Actors, NEW place, NEW l, l.total >= 0,
           MoveWith(a, place, l)
    PROVE  HeldCounted'
BY DEF MoveWith, HeldCounted, TotalsAddUp, TypeOK

\* The records an actor writes without a new total.
LEMMA RecordsCount ==
    ASSUME TotalsAddUp, NEW a \in Actors
    PROVE  /\ Blank.total >= 0 /\ loc[a].total >= 0
           /\ \A j : [Blank EXCEPT !.job = j].total >= 0
           /\ [loc[a] EXCEPT !.fresh = TRUE].total >= 0
           /\ [loc[a] EXCEPT !.window = 0].total >= 0
           /\ [loc[a] EXCEPT !.until = 0].total >= 0
           /\ [loc[a] EXCEPT !.after = "snapshot"].total >= 0
           /\ \A m, e, t : [loc[a] EXCEPT !.mid = m, !.epoch = e, !.deadline = t,
                                          !.fresh = TRUE].total >= 0
           /\ \A g, e : [loc[a] EXCEPT !.gen = g, !.epoch = e, !.fresh = TRUE].total >= 0
           /\ \A o, u, w : [loc[a] EXCEPT !.old = o, !.until = u, !.window = w].total >= 0
           /\ \A j, f : [Blank EXCEPT !.job = j, !.after = f].total >= 0
           /\ \A k, t, m, e : [Blank EXCEPT !.job = "mutate", !.key = k, !.to = t,
                                            !.mid = m, !.epoch = e].total >= 0
           /\ \A m, e, n : [Blank EXCEPT !.mid = m, !.epoch = e, !.delta = n].total >= 0
<1>1. loc[a] \in Locals /\ loc[a].total >= 0
  BY DEF TotalsAddUp, TypeOK
<1>2. Blank.total = 0 /\ Blank \in Locals
  BY BlankType DEF Blank
<1>. QED BY <1>1, <1>2 DEF Locals

LEMMA WaysCount ==
    ASSUME TotalsAddUp, NEW a \in Actors,
           \/ Quit(a) \/ Proceed(a) \/ (\E place : Resume(a, place))
           \/ (\E i : Classify(a, i)) \/ (\E place : Move(a, place) /\ UNCHANGED loc)
    PROVE  HeldCounted'
<1>1. ASSUME Quit(a) PROVE HeldCounted'
  BY <1>1, HoldsCounted, RecordsCount DEF Quit
<1>2. ASSUME NEW place, Resume(a, place) PROVE HeldCounted'
  BY <1>2, HoldsCounted, RecordsCount DEF Resume
<1>3. ASSUME NEW i, Classify(a, i) PROVE HeldCounted'
  BY <1>3, HoldsCounted, RecordsCount DEF Classify
<1>4. ASSUME UNCHANGED loc PROVE HeldCounted'
  BY <1>4 DEF HeldCounted, TotalsAddUp
<1>. QED BY <1>1, <1>2, <1>3, <1>4 DEF Proceed

\* What a listing adds up to is a natural number.
LEMMA ListingsCount ==
    ASSUME TotalsAddUp, NEW a \in Actors, NEW total \in Totals \cup {physical}
    PROVE  total >= 0 /\ [loc[a] EXCEPT !.total = total].total >= 0
<1>1. physical \in Nat
  <2>1. SumFunctionOnSet(size, Keys) \in Nat
    BY DataAssumption, SumType DEF TotalsAddUp, TypeOK
  <2>. QED BY <2>1 DEF TotalsAddUp
<1>2. total \in Nat
  BY <1>1, DataAssumption
<1>3. loc[a] \in Locals
  BY DEF TotalsAddUp, TypeOK
<1>. QED BY <1>2, <1>3 DEF Locals

\* The scripts keep the total of the journal a count.
LEMMA ScriptsCount ==
    ASSUME TotalsAddUp, NEW m, NEW n
    PROVE  /\ Counted(db) /\ Counted(aof) /\ Counted(Retire(db, m)) /\ Counted(Begun(db, m))
           /\ \A t : Counted(Dispatched(db, m, t))
           /\ MayAdd(db, n) => Counted(Committed(db, m, n))
           /\ n >= 0 => Counted(Resolved(db, m, n)) /\ Counted(Reconciled(db, n))
           /\ Counted([db EXCEPT !.usage = None])
<1>1. db \in Journal /\ Counted(db) /\ Counted(aof)
  BY DEF TotalsAddUp, TypeOK, Counted
<1>. QED
  BY <1>1, RetireFields, BeginFields, DispatchFields, TotalFields DEF Counted, MayAdd

LEMMA RecoveryCounts ==
    ASSUME TotalsAddUp, NEW a \in Actors, Recovery(a)
    PROVE  StaysCounted
<1>1. AllCounted' /\ UNCHANGED aof
  BY ScriptsCount, RecordsCount DEF Recovery, Inspect, Expire, Probe, Confirm, Rescan, Publish,
     Recheck, redis, AllCounted
<1>2. ASSUME Probe(a) PROVE HeldCounted'
  BY <1>2, ListingsCount, HoldsCounted DEF Probe
<1>3. ASSUME Confirm(a) PROVE HeldCounted'
  BY <1>3, WaysCount, RecordsCount, HoldsCounted DEF Confirm
<1>4. ASSUME Inspect(a) \/ Expire(a) \/ Rescan(a) \/ Publish(a) \/ Recheck(a)
      PROVE  HeldCounted'
  BY <1>4, WaysCount DEF Inspect, Expire, Rescan, Publish, Recheck
<1>. QED BY <1>1, <1>2, <1>3, <1>4 DEF Recovery, StaysCounted

LEMMA AccountingCounts ==
    ASSUME TotalsAddUp, NEW a \in Actors, Accounting(a)
    PROVE  StaysCounted
<1>1. AllCounted'
  BY ScriptsCount, RecordsCount DEF Accounting, Cached, Snapshot, Scan, Install, redis, AllCounted
<1>2. ASSUME Scan(a) PROVE HeldCounted'
  BY <1>2, ListingsCount, HoldsCounted DEF Scan
<1>3. ASSUME Cached(a) \/ Snapshot(a) \/ Install(a) PROVE HeldCounted'
  BY <1>3, WaysCount, RecordsCount, HoldsCounted DEF Cached, Snapshot, Install
<1>. QED BY <1>1, <1>2, <1>3 DEF Accounting, StaysCounted

LEMMA MutationCounts ==
    ASSUME TotalsAddUp, NEW a \in Actors, Mutation(a)
    PROVE  StaysCounted
<1>1. AllCounted'
  <2>. USE ScriptsCount DEF AllCounted
  <2>1. CASE Begin(a) \/ UndoBegin(a) \/ UndoDispatch(a)
    BY <2>1 DEF Begin, UndoBegin, UndoDispatch, Undo
  <2>2. CASE Dispatch(a)
    BY <2>2 DEF Dispatch
  <2>3. CASE Commit(a) \/ SettleByScan(a)
    BY <2>3, RecordsCount DEF Commit, SettleByScan
  <2>4. CASE UNCHANGED db /\ aof' \in {db, aof}
    BY <2>4 DEF Counted
  <2>. QED BY <2>1, <2>2, <2>3, <2>4 DEF Mutation, BeginSync, Measure, DispatchSync, Send, Reply,
     GiveUp, Head, Repair, WaitAof, Fsync, redis
<1>2. ASSUME Repair(a) PROVE HeldCounted'
  BY <1>2, ListingsCount, HoldsCounted DEF Repair
<1>3. ASSUME Begin(a) \/ Measure(a) \/ Dispatch(a) \/ Send(a) \/ Head(a) \/ Commit(a)
      PROVE  HeldCounted'
  BY <1>3, WaysCount, RecordsCount, HoldsCounted DEF Begin, Measure, Dispatch, Send, Head, Commit
<1>4. ASSUME \/ BeginSync(a) \/ UndoBegin(a) \/ DispatchSync(a) \/ UndoDispatch(a)
             \/ Reply(a) \/ GiveUp(a) \/ SettleByScan(a)
      PROVE  HeldCounted'
  BY <1>4, WaysCount DEF BeginSync, UndoBegin, DispatchSync, UndoDispatch, Reply, GiveUp,
     SettleByScan, WaitAof, Undo
<1>. QED BY <1>1, <1>2, <1>3, <1>4 DEF Mutation, StaysCounted

\* Entering and leaving, failures and time make no total up.
LEMMA OthersCount ==
    ASSUME TotalsAddUp,
           \/ \E a \in Actors : TakeLease(a) \/ Leave(a) \/ \E job \in Jobs : TakeFence(a, job)
           \/ Tick \/ ExpireOrphan \/ BackgroundFsync \/ Failure \/ UNCHANGED vars
    PROVE  StaysCounted
<1>1. AllCounted'
  <2>1. db' \in {db, aof, [db EXCEPT !.usage = None]} /\ aof' \in {db, aof}
    BY DEF TakeLease, Leave, TakeFence, Tick, ExpireOrphan, BackgroundFsync, Fsync,
       Failure, Raise, Die, LoseFence, LoseLease, CrashRedis, ForgetUsage, vars, redis
  <2>. QED BY <2>1, ScriptsCount DEF AllCounted, Counted
<1>2. ASSUME NEW a \in Actors, (\E job \in Jobs : TakeFence(a, job)) \/ Raise(a) \/ Die(a)
      PROVE  HeldCounted'
  BY <1>2, WaysCount, RecordsCount, HoldsCounted DEF TakeFence, Raise, Die
<1>3. ASSUME UNCHANGED loc PROVE HeldCounted'
  BY <1>3 DEF HeldCounted, TotalsAddUp
<1>. QED
  BY <1>1, <1>2, <1>3 DEF TakeLease, Leave, Tick, ExpireOrphan, BackgroundFsync, Failure,
     LoseFence, LoseLease, CrashRedis, ForgetUsage, vars, StaysCounted

LEMMA KeysFinite == IsFiniteSet(Keys)
BY DataAssumption

\* A request that lands changes one object and the listing by as much.
LEMMA LandAddsUp ==
    ASSUME TotalsAddUp, TypeOK', NEW r \in wire, Land(r)
    PROVE  TotalsAddUp'
<1>1. r.key \in Keys /\ r.to \in Nat /\ size \in [Keys -> Nat] /\ size' \in [Keys -> Nat]
  BY DEF TotalsAddUp, TypeOK, Request
<1>2. size' = [size EXCEPT ![r.key] = r.to] /\ physical' = physical - size[r.key] + r.to
  BY DEF Land
<1>3. SumFunctionOnSet(size', Keys) = SumFunctionOnSet(size, Keys) - size[r.key] + size'[r.key]
  <2>1. \A k \in Keys : size[k] \in Nat /\ size'[k] \in Nat
    BY <1>1
  <2>2. \A k \in Keys \ {r.key} : size[k] = size'[k]
    BY <1>1, <1>2
  <2>. QED BY <1>1, <2>1, <2>2, KeysFinite, SumChange
<1>4. physical' = SumFunctionOnSet(size', Keys)
  BY <1>1, <1>2, <1>3 DEF TotalsAddUp
<1>5. ASSUME NEW a \in Actors PROVE loc'[a].total >= 0
  <2>1. loc[a] \in Locals /\ loc[a].total >= 0
    BY DEF TotalsAddUp, TypeOK
  <2>. QED BY <2>1 DEF Land, Locals
<1>6. UNCHANGED <<db, aof>>
  BY DEF Land, redis
<1>. QED BY <1>4, <1>5, <1>6 DEF TotalsAddUp

LEMMA TotalsNext == TotalsAddUp /\ [Next]_vars => TotalsAddUp'
<1>. SUFFICES ASSUME TotalsAddUp, [Next]_vars PROVE TotalsAddUp'
  OBVIOUS
<1>1. TypeOK'
  BY TypeNext DEF TotalsAddUp
<1>2. ASSUME NEW r \in wire, Land(r) PROVE TotalsAddUp'
  BY <1>1, <1>2, LandAddsUp
<1>3. ASSUME NEW r \in wire, Admit(r) PROVE TotalsAddUp'
  BY <1>1, <1>3, SumKept, ScriptsCount
     DEF Admit, redis, StaysCounted, AllCounted, HeldCounted, TotalsAddUp
<1>4. ASSUME NEW a \in Actors, Recovery(a) \/ Accounting(a) \/ Mutation(a) PROVE TotalsAddUp'
  <2>1. StaysCounted
    BY <1>4, RecoveryCounts, AccountingCounts, MutationCounts
  <2>2. UNCHANGED <<size, physical>>
    BY <1>4 DEF Recovery, Inspect, Expire, Probe, Confirm, Rescan, Publish, Recheck, Accounting,
       Cached, Snapshot, Scan, Install, Mutation, Begin, BeginSync, UndoBegin, Measure, Dispatch,
       DispatchSync, UndoDispatch, Send, Reply, GiveUp, Head, Commit, Repair, SettleByScan,
       WaitAof, Undo, store
  <2>. QED BY <1>1, <2>1, <2>2, SumKept
<1>5. ASSUME \/ \E a \in Actors : TakeLease(a) \/ Leave(a) \/ \E job \in Jobs : TakeFence(a, job)
             \/ Tick \/ ExpireOrphan \/ BackgroundFsync \/ Failure \/ UNCHANGED vars
      PROVE  TotalsAddUp'
  <2>1. StaysCounted
    BY <1>5, OthersCount
  <2>2. UNCHANGED <<size, physical>>
    BY <1>5 DEF TakeLease, Leave, TakeFence, Tick, ExpireOrphan, BackgroundFsync, Failure, Raise,
       Die, LoseFence, LoseLease, CrashRedis, ForgetUsage, vars, store
  <2>. QED BY <1>1, <2>1, <2>2, SumKept
<1>. QED BY <1>2, <1>3, <1>4, <1>5 DEF Next, Store, Step

(* However many objects there are, a complete listing is their sum, and no  *)
(* total that Redis, its AOF or an actor holds is ever negative: the floor  *)
(* the commit script tests for is the only place where one could become so. *)
THEOREM TotalsAlwaysAddUp == Spec => []TotalsAddUp
<1>1. Init => TotalsAddUp
  <2>. SUFFICES ASSUME Init PROVE TotalsAddUp
    OBVIOUS
  <2>2. SumFunctionOnSet(size, Keys) = 0
    <3>1. \A k \in Keys : size[k] = 0
      BY DEF Init
    <3>. QED BY <3>1, KeysFinite, SumOfZeros
  <2>3. \A a \in Actors : loc[a].total = 0
    BY DEF Init, Blank
  <2>4. db.usage = None /\ aof.usage = None /\ physical = 0
    BY DEF Init
  <2>. QED BY <2>2, <2>3, <2>4, TypeInit DEF TotalsAddUp
<1>. QED BY <1>1, TotalsNext, PTL DEF Spec
=============================================================================
