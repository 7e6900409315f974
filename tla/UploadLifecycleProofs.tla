----------------------- MODULE UploadLifecycleProofs -----------------------
(***************************************************************************)
(* Proofs about UploadLifecycle, for any uploads, any number of runs and   *)
(* any number of exceptions: types, what cancellations promise, that the   *)
(* counts implement the abstract specification References, that jobs which *)
(* are not run again never take away the reference of somebody else, and   *)
(* that without exceptions nothing leaks.                                  *)
(***************************************************************************)
EXTENDS UploadLifecycle, FiniteSetTheorems, TLAPS

----------------------------------------------------------------------------
(* Type correctness.  A worker past the scan has bytes in its hands.       *)

Loaded == {"scanned", "bazaar", "final", "guard", "write", "count", "account", "publish",
           "compensate"}

BytesInHand == \A u \in Uploads : pc[u] \in Loaded => loc[u].bytes \in Contents

TypeInv == TypeOK /\ BytesInHand

LEMMA OverwrittenType ==
    ASSUME TypeOK, NEW u \in Uploads, NEW fields \in Row
    PROVE  Overwritten(u, fields) \in [Uploads -> Row]
BY DEF TypeOK, Overwritten

LEMMA RowFields ==
    ASSUME NEW r \in Row,
           NEW s \in {"pending", "processing", "clean", "failed", "cancelled"},
           NEW p \in {"none", "pending", "running", "complete", "degraded"},
           NEW n \in {0, 2, 5}, NEW b \in BOOLEAN, NEW c \in Contents \cup {None}
    PROVE  /\ [r EXCEPT !.status = s] \in Row
           /\ [r EXCEPT !.processing = p] \in Row
           /\ [r EXCEPT !.stage = n] \in Row
           /\ [r EXCEPT !.owns = b] \in Row
           /\ [r EXCEPT !.status = s, !.owns = b, !.content = c, !.processing = p] \in Row
<1>1. [r EXCEPT !.status = s] \in Row
  BY DEF Row
<1>2. [r EXCEPT !.processing = p] \in Row
  BY DEF Row
<1>3. [r EXCEPT !.stage = n] \in Row
  BY DEF Row
<1>4. [r EXCEPT !.owns = b] \in Row
  BY DEF Row
<1>5. [r EXCEPT !.status = s, !.owns = b, !.content = c, !.processing = p] \in Row
  BY DEF Row
<1>. QED BY <1>1, <1>2, <1>3, <1>4, <1>5

LEMMA WithType ==
    ASSUME TypeOK, NEW u \in Uploads,
           NEW s \in {"pending", "processing", "clean", "failed", "cancelled"},
           NEW p \in {"none", "pending", "running", "complete", "degraded"}
    PROVE  /\ WithStatus(u, s) \in [Uploads -> Row]
           /\ WithProcessing(u, p) \in [Uploads -> Row]
<1>1. row[u] \in Row
  BY DEF TypeOK
<1>2. [row[u] EXCEPT !.status = s] \in Row
  BY <1>1, RowFields
<1>3. [row[u] EXCEPT !.processing = p] \in Row
  BY <1>1, RowFields
<1>. QED BY <1>2, <1>3, OverwrittenType DEF WithStatus, WithProcessing

LEMMA CheckpointType ==
    ASSUME TypeOK, NEW u \in Uploads, NEW n \in {0, 2, 5}, Checkpoint(u, n)
    PROVE  row' \in [Uploads -> Row] /\ faults' \in Nat
<1>1. CASE row' = [row EXCEPT ![u].stage = n] /\ UNCHANGED faults
  <2>1. [row[u] EXCEPT !.stage = n] \in Row
    <3>1. row[u] \in Row
      BY DEF TypeOK
    <3>. QED BY <3>1, RowFields
  <2>. QED BY <1>1, <2>1 DEF TypeOK
<1>2. CASE UNCHANGED row /\ Fault
  BY <1>2 DEF TypeOK, Fault
<1>. QED BY <1>1, <1>2 DEF Checkpoint

LEMMA LockType ==
    ASSUME TypeOK, NEW u \in Uploads, NEW who
    PROVE  Unlocked(u, who) \in [Uploads -> {None, "worker", "canceller", "post"}]
BY DEF TypeOK, Unlocked

LEMMA BytesType ==
    ASSUME TypeOK, NEW u \in Uploads, NEW c \in Contents
    PROVE  LET new == [loc EXCEPT ![u].bytes = c] IN
           /\ new \in [Uploads -> [stage : {0, 2, 5}, bytes : Contents \cup {None}]]
           /\ new[u].bytes = c
<1>1. loc \in [Uploads -> [stage : {0, 2, 5}, bytes : Contents \cup {None}]]
  BY DEF TypeOK
<1>2. [loc[u] EXCEPT !.bytes = c] \in [stage : {0, 2, 5}, bytes : Contents \cup {None}]
  BY <1>1
<1>. QED BY <1>1, <1>2

LEMMA GuardType ==
    ASSUME TypeOK, NEW u \in Uploads
    PROVE  Unguarded(u) \in [Contents -> Uploads \cup {None}]
BY DEF TypeOK, Unguarded

LEMMA CountedType ==
    ASSUME TypeOK, NEW u \in Uploads, NEW c \in Contents, Counted(u, c)
    PROVE  refs' \in [Contents -> Nat] /\ marks' \subseteq Marks
<1>1. <<"finalize", u>> \in Marks
  BY DEF Marks
<1>2. refs \in [Contents -> Nat] /\ marks \subseteq Marks
  BY DEF TypeOK
<1>3. refs[c] + 1 \in Nat
  BY <1>2
<1>4. /\ refs' = refs \/ refs' = [refs EXCEPT ![c] = refs[c] + 1]
      /\ marks' = marks \/ marks' = marks \cup {<<"finalize", u>>}
  BY DEF Counted, counts
<1>. QED BY <1>1, <1>2, <1>3, <1>4

LEMMA GivenBackType ==
    ASSUME TypeOK, NEW u \in Uploads, NEW op \in Releases, NEW c, GivenBack(op, u, c)
    PROVE  refs' \in [Contents -> Nat] /\ marks' \subseteq Marks
<1>1. <<op, u>> \in Marks
  BY DEF Marks
<1>2. refs \in [Contents -> Nat] /\ marks \subseteq Marks
  BY DEF TypeOK
<1>3. CASE refs' = refs /\ marks' = marks
  BY <1>2, <1>3
<1>4. CASE /\ refs[c] # 0
           /\ refs' = [refs EXCEPT ![c] = refs[c] - 1]
           /\ marks' = marks \cup {<<op, u>>}
  <2>1. c \in Contents => refs[c] - 1 \in Nat
    BY <1>2, <1>4
  <2>. QED BY <1>1, <1>2, <1>4, <2>1
<1>. QED BY <1>3, <1>4 DEF GivenBack, counts

LEMMA PlaceNames ==
    {"start", "scanned", "final", "published", "emitted", "queued", "claim", "announce",
     "download", "sanitize", "bazaar", "guard", "write", "count", "account", "publish",
     "compensate", "lock", "emit", "dispatch", "finish", "abandon", "fail", "ending", "done",
     "lost"} \subseteq Places
BY DEF Places, Checks

(* A worker that goes on keeps the types if it carries what its new place  *)
(* asks for.                                                               *)
LEMMA GoType ==
    ASSUME TypeInv, NEW u \in Uploads, NEW place \in Places, Go(u, place),
           \A v \in Uploads \ {u} : loc'[v] = loc[v],
           place \in Loaded => loc'[u].bytes \in Contents
    PROVE  pc' \in [Uploads -> Places] /\ BytesInHand'
BY DEF TypeInv, TypeOK, BytesInHand, Go

LEMMA WorkerStarts ==
    ASSUME TypeInv, NEW u \in Uploads,
           Start(u) \/ Check(u) \/ Abandon(u) \/ Claim(u) \/ AnnounceStart(u) \/ Download(u)
    PROVE  TypeInv'
<1>. USE PlaceNames DEF database, store, counts, budget, status, locks, worker
<1>1. CASE Start(u)
  <2>1. loc' \in [Uploads -> [stage : {0, 2, 5}, bytes : Contents \cup {None}]]
    BY <1>1 DEF TypeInv, TypeOK, Start, Row
  <2>2. pc' \in [Uploads -> Places] /\ BytesInHand'
    BY <1>1, GoType DEF Start, TypeInv, TypeOK, Loaded
  <2>. QED BY <1>1, <2>1, <2>2 DEF TypeInv, TypeOK, Start
<1>2. CASE Check(u)
  <2>. DEFINE place == IF Cancelled(u) THEN "abandon"
                       ELSE IF pc[u] = "scanned" /\ loc[u].stage = 5 THEN "ending"
                       ELSE Checks[pc[u]]
  <2>1. place \in Places /\ (place \in Loaded => pc[u] \in Loaded)
    BY <1>2 DEF Check, Checks, Loaded
  <2>2. pc' \in [Uploads -> Places] /\ BytesInHand'
    BY <1>2, <2>1, GoType DEF Check, TypeInv, BytesInHand
  <2>. QED BY <1>2, <2>2 DEF TypeInv, TypeOK, Check
<1>3. CASE Abandon(u)
  <2>1. pc' \in [Uploads -> Places] /\ BytesInHand'
    BY <1>3, GoType DEF Abandon, Loaded
  <2>2. row' \in [Uploads -> Row] /\ lock' \in [Uploads -> {None, "worker", "canceller", "post"}]
    BY <1>3, WithType, LockType DEF Abandon, TypeInv
  <2>. QED BY <1>3, <2>1, <2>2 DEF TypeInv, TypeOK, Abandon, Announce
<1>4. CASE Claim(u)
  <2>1. pc' \in [Uploads -> Places] /\ BytesInHand'
    BY <1>4, GoType DEF Claim, Loaded
  <2>2. row' \in [Uploads -> Row]
    BY <1>4, WithType DEF Claim, TypeInv
  <2>. QED BY <1>4, <2>1, <2>2 DEF TypeInv, TypeOK, Claim
<1>5. CASE AnnounceStart(u)
  <2>1. pc' \in [Uploads -> Places] /\ BytesInHand'
    BY <1>5, GoType DEF AnnounceStart, Loaded
  <2>. QED BY <1>5, <2>1 DEF TypeInv, TypeOK, AnnounceStart, Announce
<1>6. CASE Download(u)
  <2>1. CASE u \in quarantine
    <3>1. /\ loc' = [loc EXCEPT ![u].bytes = Original]
          /\ row' = WithStatus(u, "processing")
          /\ Go(u, IF loc[u].stage < 2 THEN "sanitize" ELSE "scanned")
      BY <1>6, <2>1 DEF Download
    <3>2. /\ loc' \in [Uploads -> [stage : {0, 2, 5}, bytes : Contents \cup {None}]]
          /\ loc'[u].bytes \in Contents
      <4>1. Original \in Contents
        BY UploadsAssumption DEF Contents
      <4>. QED BY <3>1, <4>1, BytesType DEF TypeInv
    <3>3. pc' \in [Uploads -> Places] /\ BytesInHand'
      BY <3>1, <3>2, GoType DEF TypeInv, TypeOK
    <3>4. row' \in [Uploads -> Row]
      BY <3>1, WithType DEF TypeInv
    <3>. QED BY <1>6, <3>2, <3>3, <3>4 DEF TypeInv, TypeOK, Download
  <2>2. CASE u \notin quarantine
    <3>1. pc' \in [Uploads -> Places] /\ BytesInHand'
      BY <1>6, <2>2, GoType DEF Download, Loaded
    <3>. QED BY <1>6, <2>2, <3>1 DEF TypeInv, TypeOK, Download
  <2>. QED BY <2>1, <2>2
<1>. QED BY <1>1, <1>2, <1>3, <1>4, <1>5, <1>6

LEMMA WorkerSanitizes ==
    ASSUME TypeInv, NEW u \in Uploads, Sanitize(u) \/ Bazaar(u)
    PROVE  TypeInv'
<1>. USE PlaceNames DEF database, store, counts, budget, status, locks, worker
<1>1. CASE Sanitize(u)
  <2>1. CASE /\ loc' = [loc EXCEPT ![u].bytes = "sanitized"]
             /\ Checkpoint(u, 2)
             /\ Go(u, "scanned")
    <3>1. /\ loc' \in [Uploads -> [stage : {0, 2, 5}, bytes : Contents \cup {None}]]
          /\ loc'[u].bytes \in Contents
      <4>1. "sanitized" \in Contents
        BY DEF Contents
      <4>. QED BY <2>1, <4>1, BytesType DEF TypeInv
    <3>2. pc' \in [Uploads -> Places] /\ BytesInHand'
      BY <2>1, <3>1, GoType DEF TypeInv, TypeOK
    <3>3. row' \in [Uploads -> Row] /\ faults' \in Nat
      BY <2>1, CheckpointType DEF TypeInv
    <3>. QED BY <1>1, <3>1, <3>2, <3>3 DEF TypeInv, TypeOK, Sanitize, Announce
  <2>2. CASE Go(u, "fail") /\ UNCHANGED <<row, loc, faults>>
    <3>1. pc' \in [Uploads -> Places] /\ BytesInHand'
      BY <2>2, GoType DEF Loaded
    <3>. QED BY <1>1, <2>2, <3>1 DEF TypeInv, TypeOK, Sanitize, Announce
  <2>. QED BY <1>1, <2>1, <2>2 DEF Sanitize
<1>2. CASE Bazaar(u)
  <2>1. pc' \in [Uploads -> Places] /\ BytesInHand'
    BY <1>2, GoType DEF Bazaar, Loaded, TypeInv, BytesInHand
  <2>. QED BY <1>2, <2>1 DEF TypeInv, TypeOK, Bazaar, Announce
<1>. QED BY <1>1, <1>2

LEMMA WorkerFinalizes ==
    ASSUME TypeInv, NEW u \in Uploads,
           TakeGuard(u) \/ Write(u) \/ Count(u) \/ Account(u) \/ Publish(u) \/ Compensate(u)
    PROVE  TypeInv'
<1>. USE PlaceNames DEF database, store, counts, budget, status, locks, worker
<1>1. loc[u].bytes \in Contents
  BY DEF TakeGuard, Write, Count, Account, Publish, Compensate, TypeInv, BytesInHand, Loaded
<1>2. CASE TakeGuard(u)
  <2>1. pc' \in [Uploads -> Places] /\ BytesInHand'
    BY <1>1, <1>2, GoType DEF TakeGuard
  <2>. QED BY <1>2, <2>1 DEF TypeInv, TypeOK, TakeGuard
<1>3. CASE Write(u)
  <2>1. pc' \in [Uploads -> Places] /\ BytesInHand'
    BY <1>1, <1>3, GoType DEF Write
  <2>. QED BY <1>1, <1>3, <2>1 DEF TypeInv, TypeOK, Write
<1>4. CASE Count(u)
  <2>1. pc' \in [Uploads -> Places] /\ BytesInHand'
    BY <1>1, <1>4, GoType DEF Count, Loaded
  <2>2. guard' \in [Contents -> Uploads \cup {None}]
    BY <1>4, GuardType DEF Count, TypeInv, TypeOK
  <2>3. refs' \in [Contents -> Nat] /\ marks' \subseteq Marks
    BY <1>1, <1>4, CountedType DEF Count, TypeInv, TypeOK
  <2>. QED BY <1>4, <2>1, <2>2, <2>3 DEF TypeInv, TypeOK, Count
<1>5. CASE Account(u)
  <2>1. pc' \in [Uploads -> Places] /\ BytesInHand'
    BY <1>1, <1>5, GoType DEF Account
  <2>. QED BY <1>5, <2>1 DEF TypeInv, TypeOK, Account
<1>6. CASE Publish(u)
  <2>. DEFINE fields == [row[u] EXCEPT !.status = "clean", !.owns = TRUE,
                                       !.content = loc[u].bytes, !.processing = "pending"]
  <2>1. fields \in Row
    <3>1. row[u] \in Row
      BY DEF TypeInv, TypeOK
    <3>. QED BY <1>1, <3>1, RowFields
  <2>2. row' = Overwritten(u, fields)
    BY <1>6 DEF Publish
  <2>. HIDE DEF fields
  <2>3. row' \in [Uploads -> Row]
    BY <2>1, <2>2, OverwrittenType DEF TypeInv
  <2>4. pc' \in [Uploads -> Places] /\ BytesInHand'
    BY <1>1, <1>6, GoType DEF Publish
  <2>5. guard' \in [Contents -> Uploads \cup {None}]
    <3>1. guard' = guard \/ guard' = Unguarded(u)
      BY <1>6 DEF Publish
    <3>. QED BY <3>1, GuardType DEF TypeInv, TypeOK
  <2>6. outbox' \in [Uploads -> {"none", "pending", "delivered"}]
    <3>. DEFINE intent == IF outbox[u] = "none" THEN "pending" ELSE outbox[u]
    <3>1. UNCHANGED outbox \/ outbox' = [outbox EXCEPT ![u] = intent]
      BY <1>6, Zenon DEF Publish
    <3>2. intent \in {"none", "pending", "delivered"}
      BY DEF TypeInv, TypeOK
    <3>. HIDE DEF intent
    <3>. QED BY <3>1, <3>2 DEF TypeInv, TypeOK
  <2>7. UNCHANGED <<releases, quarantine, objects, refs, marks, reserved, quota, marker,
                    cache, lock, loc, tries, cpc, post, faults>>
    BY <1>6 DEF Publish
  <2>. QED BY <2>3, <2>4, <2>5, <2>6, <2>7 DEF TypeInv, TypeOK
<1>7. CASE Compensate(u)
  <2>1. pc' \in [Uploads -> Places] /\ BytesInHand'
    BY <1>7, GoType DEF Compensate, Loaded
  <2>2. guard' \in [Contents -> Uploads \cup {None}]
    BY <1>7, GuardType DEF Compensate, TypeInv
  <2>3. refs' \in [Contents -> Nat] /\ marks' \subseteq Marks
    BY <1>7, GivenBackType DEF Compensate, TypeInv, Releases
  <2>. QED BY <1>7, <2>1, <2>2, <2>3 DEF TypeInv, TypeOK, Compensate
<1>. QED BY <1>2, <1>3, <1>4, <1>5, <1>6, <1>7

LEMMA DeliveredType ==
    ASSUME TypeInv, NEW u \in Uploads, Delivered(u)
    PROVE  /\ outbox' \in [Uploads -> {"none", "pending", "delivered"}]
           /\ post' \in [Uploads -> Posting \cup {"none", "done", "failed"}]
BY DEF TypeInv, TypeOK, Delivered, Posting

LEMMA WorkerEnds ==
    ASSUME TypeInv, NEW u \in Uploads,
           Lock(u) \/ Emit(u) \/ Dispatch(u) \/ Finish(u) \/ Fail(u) \/ End(u)
    PROVE  TypeInv'
<1>. USE PlaceNames DEF database, store, counts, budget, status, locks, worker
<1>1. pc' \in [Uploads -> Places] /\ BytesInHand'
  BY GoType DEF Lock, Emit, Dispatch, Finish, Fail, End, Loaded
<1>2. CASE Lock(u)
  BY <1>1, <1>2 DEF TypeInv, TypeOK, Lock
<1>3. CASE Emit(u)
  BY <1>1, <1>3 DEF TypeInv, TypeOK, Emit, Announce
<1>4. CASE Dispatch(u)
  <2>1. lock' \in [Uploads -> {None, "worker", "canceller", "post"}]
    BY <1>4, LockType DEF Dispatch, TypeInv
  <2>2. /\ outbox' \in [Uploads -> {"none", "pending", "delivered"}]
        /\ post' \in [Uploads -> Posting \cup {"none", "done", "failed"}]
    BY <1>4, DeliveredType DEF Dispatch, TypeInv, TypeOK
  <2>. QED BY <1>1, <1>4, <2>1, <2>2 DEF TypeInv, TypeOK, Dispatch
<1>5. CASE Finish(u)
  <2>1. row' \in [Uploads -> Row] /\ faults' \in Nat
    BY <1>5, CheckpointType DEF Finish, TypeInv
  <2>. QED BY <1>1, <1>5, <2>1 DEF TypeInv, TypeOK, Finish
<1>6. CASE Fail(u)
  <2>1. row' \in [Uploads -> Row]
    BY <1>6, WithType DEF Fail, TypeInv
  <2>2. quarantine' \subseteq Uploads
    BY <1>6 DEF Fail, TypeInv, TypeOK
  <2>. QED BY <1>1, <1>6, <2>1, <2>2 DEF TypeInv, TypeOK, Fail, Announce
<1>7. CASE End(u)
  BY <1>1, <1>7 DEF TypeInv, TypeOK, End
<1>. QED BY <1>2, <1>3, <1>4, <1>5, <1>6, <1>7

LEMMA CancellerTypes ==
    ASSUME TypeInv, NEW u \in Uploads, CancelBegin(u) \/ Canceller(u)
    PROVE  TypeInv'
<1>. USE DEF database, store, counts, budget, status, locks, worker
<1>1. BytesInHand'
  BY DEF CancelBegin, Canceller, CancelCommit, CancelMark, CancelRelease, CancelForget,
         CancelCleanup, CancelQuota, TypeInv, BytesInHand
<1>2. cpc' \in [Uploads -> Cancelling \cup {"idle", "done"}]
  BY DEF CancelBegin, Canceller, CancelCommit, CancelMark, CancelRelease, CancelForget,
         CancelCleanup, CancelQuota, Proceed, TypeInv, TypeOK, Cancelling
<1>3. CASE CancelBegin(u)
  BY <1>1, <1>2, <1>3 DEF TypeInv, TypeOK, CancelBegin
<1>4. row[u] \in Row
  BY DEF TypeInv, TypeOK
<1>5. CASE CancelCommit(u)
  <2>1. [row[u] EXCEPT !.status = "cancelled"] \in Row
    BY <1>4, RowFields
  <2>2. row' \in [Uploads -> Row]
    BY <1>5, <2>1 DEF TypeInv, TypeOK, CancelCommit
  <2>. QED BY <1>1, <1>2, <1>5, <2>2 DEF TypeInv, TypeOK, CancelCommit
<1>6. CASE CancelMark(u)
  BY <1>1, <1>2, <1>6 DEF TypeInv, TypeOK, CancelMark, Announce
<1>7. CASE CancelRelease(u)
  <2>1. refs' \in [Contents -> Nat] /\ marks' \subseteq Marks
    BY <1>7, GivenBackType DEF CancelRelease, TypeInv, Releases
  <2>. QED BY <1>1, <1>2, <1>7, <2>1 DEF TypeInv, TypeOK, CancelRelease
<1>8. CASE CancelForget(u)
  <2>1. [row[u] EXCEPT !.owns = FALSE] \in Row
    BY <1>4, RowFields
  <2>2. row' \in [Uploads -> Row]
    BY <1>8, <2>1 DEF TypeInv, TypeOK, CancelForget
  <2>. QED BY <1>1, <1>2, <1>8, <2>2 DEF TypeInv, TypeOK, CancelForget
<1>9. CASE CancelCleanup(u)
  BY <1>1, <1>2, <1>9 DEF TypeInv, TypeOK, CancelCleanup
<1>10. CASE CancelQuota(u)
  <2>1. lock' \in [Uploads -> {None, "worker", "canceller", "post"}]
    BY <1>10, LockType DEF CancelQuota, TypeInv
  <2>. QED BY <1>1, <1>2, <1>10, <2>1 DEF TypeInv, TypeOK, CancelQuota
<1>. QED BY <1>3, <1>5, <1>6, <1>7, <1>8, <1>9, <1>10 DEF Canceller

LEMMA PostScanTypes ==
    ASSUME TypeInv, NEW u \in Uploads, PostScan(u)
    PROVE  TypeInv'
<1>. USE DEF database, store, counts, budget, status, locks, worker
<1>1. BytesInHand'
  BY DEF PostScan, Deliver, PostStart, PostDownload, PostLock, PostComplete, PostEmit, PostSweep,
         PostSettle, TypeInv, BytesInHand
<1>2. post' \in [Uploads -> Posting \cup {"none", "done", "failed"}]
  <2>1. CASE Deliver(u)
    BY <2>1, DeliveredType DEF Deliver
  <2>2. CASE PostComplete(u)
    BY <2>2 DEF PostComplete, Follow, TypeInv, TypeOK, Posting
  <2>3. CASE PostLock(u, "lock", "complete") \/ PostLock(u, "degrade", "settle")
    BY <2>3 DEF PostLock, Follow, TypeInv, TypeOK, Posting
  <2>4. CASE PostStart(u) \/ PostDownload(u)
    BY <2>4 DEF PostStart, PostDownload, Follow, TypeInv, TypeOK, Posting
  <2>5. CASE PostEmit(u) \/ PostSweep(u) \/ PostSettle(u)
    BY <2>5 DEF PostEmit, PostSweep, PostSettle, Follow, TypeInv, TypeOK, Posting
  <2>. QED BY <2>1, <2>2, <2>3, <2>4, <2>5 DEF PostScan
<1>3. row' \in [Uploads -> Row]
  <2>1. CASE PostStart(u) \/ PostSettle(u)
    BY <2>1, WithType DEF PostStart, PostSettle, TypeInv
  <2>2. CASE PostComplete(u)
    <3>1. row[u] \in Row
      BY DEF TypeInv, TypeOK
    <3>2. [row[u] EXCEPT !.processing = "complete"] \in Row
      BY <3>1, RowFields
    <3>. QED BY <2>2, <3>2 DEF PostComplete, TypeInv, TypeOK
  <2>. QED BY <2>1, <2>2 DEF PostScan, Deliver, PostDownload, PostLock, PostEmit, PostSweep,
                             TypeInv, TypeOK
<1>4. lock' \in [Uploads -> {None, "worker", "canceller", "post"}]
  <2>1. lock' = lock \/ lock' = [lock EXCEPT ![u] = "post"] \/ lock' = Unlocked(u, "post")
    BY DEF PostScan, Deliver, PostStart, PostDownload, PostLock, PostComplete, PostEmit,
           PostSweep, PostSettle
  <2>. QED BY <2>1, LockType DEF TypeInv, TypeOK
<1>5. CASE Deliver(u)
  <2>1. outbox' \in [Uploads -> {"none", "pending", "delivered"}]
    BY <1>5, DeliveredType DEF Deliver
  <2>. QED BY <1>1, <1>2, <1>5, <2>1 DEF Deliver, TypeInv, TypeOK
<1>6. CASE PostStart(u) \/ PostDownload(u) \/ PostComplete(u) \/ PostSettle(u)
  BY <1>1, <1>2, <1>3, <1>4, <1>6
  DEF PostStart, PostDownload, PostComplete, PostSettle, TypeInv, TypeOK
<1>7. CASE PostLock(u, "lock", "complete") \/ PostLock(u, "degrade", "settle")
  BY <1>1, <1>2, <1>4, <1>7 DEF PostLock, TypeInv, TypeOK
<1>8. CASE PostEmit(u) \/ PostSweep(u)
  BY <1>1, <1>2, <1>4, <1>8 DEF PostEmit, PostSweep, Announce, TypeInv, TypeOK
<1>. QED BY <1>5, <1>6, <1>7, <1>8 DEF PostScan

LEMMA ReapTypes ==
    ASSUME TypeInv, NEW u \in Uploads, Reap(u) \/ ReapRelease(u)
    PROVE  TypeInv'
<1>. USE DEF database, store, counts, budget, status, locks, worker
<1>1. BytesInHand'
  BY DEF Reap, ReapRelease, TypeInv, BytesInHand
<1>2. CASE Reap(u)
  <2>1. [row[u] EXCEPT !.owns = FALSE] \in Row
    <3>1. row[u] \in Row
      BY DEF TypeInv, TypeOK
    <3>. QED BY <3>1, RowFields
  <2>2. row' \in [Uploads -> Row]
    BY <1>2, <2>1 DEF Reap, Reaped, TypeInv, TypeOK
  <2>. QED BY <1>1, <1>2, <2>2 DEF Reap, TypeInv, TypeOK
<1>3. CASE ReapRelease(u)
  <2>1. refs' \in [Contents -> Nat] /\ marks' \subseteq Marks
    BY <1>3, GivenBackType DEF ReapRelease, TypeInv, Releases
  <2>. QED BY <1>1, <1>3, <2>1 DEF ReapRelease, TypeInv, TypeOK
<1>. QED BY <1>2, <1>3

LEMMA FailureTypes ==
    ASSUME TypeInv, NEW u \in Uploads, Failure(u)
    PROVE  TypeInv'
<1>. USE PlaceNames DEF database, store, counts, budget, status, locks, worker
<1>1. lock' \in [Uploads -> {None, "worker", "canceller", "post"}]
  BY LockType DEF Failure, Raise, CancelRaise, PostRaise, Interrupt, TypeInv
<1>2. CASE Raise(u)
  <2>1. pc' \in [Uploads -> Places] /\ BytesInHand'
    BY <1>2, GoType DEF Raise, Loaded
  <2>. QED BY <1>1, <1>2, <2>1, GuardType DEF Raise, Fault, TypeInv, TypeOK
<1>3. CASE CancelRaise(u)
  <2>1. BytesInHand'
    BY <1>3 DEF CancelRaise, TypeInv, BytesInHand
  <2>2. cpc' \in [Uploads -> Cancelling \cup {"idle", "done"}] /\ faults' \in Nat
    BY <1>3 DEF CancelRaise, Proceed, Fault, TypeInv, TypeOK
  <2>. QED BY <1>1, <1>3, <2>1, <2>2 DEF CancelRaise, TypeInv, TypeOK
<1>4. CASE PostRaise(u)
  <2>1. BytesInHand'
    BY <1>4 DEF PostRaise, TypeInv, BytesInHand
  <2>2. row' \in [Uploads -> Row]
    BY <1>4, WithType DEF PostRaise, TypeInv
  <2>3. post' \in [Uploads -> Posting \cup {"none", "done", "failed"}] /\ faults' \in Nat
    BY <1>4 DEF PostRaise, Follow, Fault, TypeInv, TypeOK
  <2>. QED BY <1>1, <1>4, <2>1, <2>2, <2>3 DEF PostRaise, TypeInv, TypeOK
<1>5. CASE Interrupt(u)
  <2>1. pc' \in [Uploads -> Places] /\ BytesInHand'
    BY <1>5, GoType DEF Interrupt, Loaded
  <2>2. guard' \in [Contents -> Uploads \cup {None}] /\ tries' \in [Uploads -> Nat]
    <3>1. tries[u] + 1 \in Nat
      BY DEF TypeInv, TypeOK
    <3>. QED BY <1>5, <3>1, GuardType DEF Interrupt, TypeInv, TypeOK
  <2>. QED BY <1>1, <1>5, <2>1, <2>2 DEF Interrupt, TypeInv, TypeOK
<1>. QED BY <1>2, <1>3, <1>4, <1>5 DEF Failure

LEMMA TypeInit == Init => TypeInv
<1>. SUFFICES ASSUME Init PROVE TypeInv
  OBVIOUS
<1>1. row \in [Uploads -> Row]
  <2>1. /\ [status |-> "clean", stage |-> 5, owns |-> TRUE, content |-> "sanitized",
            processing |-> "complete"] \in Row
        /\ [status |-> "pending", stage |-> 0, owns |-> FALSE, content |-> None,
            processing |-> "none"] \in Row
    BY DEF Row, Contents
  <2>. QED BY <2>1 DEF Init
<1>2. refs \in [Contents -> Nat] /\ marks \subseteq Marks
  <2>1. Cardinality(Earlier) \in Nat
    BY UploadsAssumption, FS_Subset, FS_CardinalityType
  <2>2. {"finalize"} \X Earlier \subseteq Marks
    BY UploadsAssumption DEF Marks
  <2>. QED BY <2>1, <2>2 DEF Init
<1>3. /\ outbox \in [Uploads -> {"none", "pending", "delivered"}]
      /\ quarantine \subseteq Uploads /\ objects \subseteq Contents
      /\ releases \subseteq Uploads /\ reserved \subseteq Uploads /\ quota \subseteq Uploads
      /\ marker \subseteq Uploads
      /\ cache \in [Uploads -> {None, "processing", "clean", "failed"}]
  BY UploadsAssumption DEF Init, Contents
<1>4. /\ lock \in [Uploads -> {None, "worker", "canceller", "post"}]
      /\ guard \in [Contents -> Uploads \cup {None}]
      /\ tries \in [Uploads -> Nat] /\ faults \in Nat
      /\ cpc \in [Uploads -> Cancelling \cup {"idle", "done"}]
      /\ post \in [Uploads -> Posting \cup {"none", "done", "failed"}]
      /\ loc \in [Uploads -> [stage : {0, 2, 5}, bytes : Contents \cup {None}]]
  BY DEF Init
<1>5. pc \in [Uploads -> Places] /\ BytesInHand
  BY PlaceNames DEF Init, BytesInHand, Loaded
<1>. QED BY <1>1, <1>2, <1>3, <1>4, <1>5 DEF TypeInv, TypeOK

LEMMA TypeNext == TypeInv /\ [Next]_vars => TypeInv'
<1>. SUFFICES ASSUME TypeInv, [Next]_vars PROVE TypeInv'
  OBVIOUS
<1>1. ASSUME NEW u \in Uploads, Worker(u) PROVE TypeInv'
  BY <1>1, WorkerStarts, WorkerSanitizes, WorkerFinalizes, WorkerEnds DEF Worker
<1>2. ASSUME NEW u \in Uploads, CancelBegin(u) \/ Canceller(u) PROVE TypeInv'
  BY <1>2, CancellerTypes
<1>3. ASSUME NEW u \in Uploads, PostScan(u) PROVE TypeInv'
  BY <1>3, PostScanTypes
<1>4. ASSUME NEW u \in Uploads, Reap(u) \/ ReapRelease(u) PROVE TypeInv'
  BY <1>4, ReapTypes
<1>5. ASSUME NEW u \in Uploads, Failure(u) PROVE TypeInv'
  BY <1>5, FailureTypes
<1>6. CASE UNCHANGED vars
  BY <1>6 DEF vars, database, store, counts, budget, status, locks, worker, TypeInv, TypeOK,
              BytesInHand
<1>. QED BY <1>1, <1>2, <1>3, <1>4, <1>5, <1>6 DEF Next

LEMMA TypesHold == Spec => []TypeInv
BY TypeInit, TypeNext, PTL DEF Spec

(* Every variable always has its type, however often jobs are interrupted: *)
(* reference counts never become negative, and no worker stores bytes it   *)
(* does not have.                                                          *)
THEOREM TypeCorrect == Spec => []TypeOK
BY TypesHold, PTL DEF TypeInv

----------------------------------------------------------------------------
\* What happens to one upload; no step happens to two.
Step(u) ==
    \/ Worker(u) \/ CancelBegin(u) \/ Canceller(u) \/ PostScan(u)
    \/ Reap(u) \/ ReapRelease(u) \/ Failure(u)

----------------------------------------------------------------------------
(* Rows: a step changes the row of its own upload only, and a cancelled    *)
(* row neither changes its status nor gains a reference.                   *)

RowKept(u) ==
    /\ \A v \in Uploads \ {u} : row'[v] = row[v]
    /\ row[u].status = "cancelled" => row'[u].status = "cancelled"
    /\ row[u].status = "cancelled" /\ ~row[u].owns => ~row'[u].owns

LEMMA OverwritingKeeps ==
    ASSUME TypeOK, NEW u \in Uploads, NEW fields, row' = Overwritten(u, fields)
    PROVE  RowKept(u)
BY DEF TypeOK, RowKept, Overwritten

LEMMA UpdatingKeeps ==
    ASSUME TypeOK, NEW u \in Uploads, NEW n,
           \/ row' = row
           \/ row' = [row EXCEPT ![u].stage = n]
           \/ row' = [row EXCEPT ![u].processing = n]
           \/ row' = [row EXCEPT ![u].status = "cancelled"]
           \/ row' = [row EXCEPT ![u].owns = FALSE]
    PROVE  RowKept(u)
<1>1. row \in [Uploads -> Row]
  BY DEF TypeOK
<1>. QED BY <1>1 DEF RowKept, Row

LEMMA RowSteps ==
    ASSUME TypeOK, NEW u \in Uploads, Step(u)
    PROVE  RowKept(u)
<1>. USE DEF database
<1>1. ASSUME Worker(u) PROVE RowKept(u)
  <2>1. CASE Abandon(u) \/ Claim(u) \/ Fail(u)
    BY <2>1, OverwritingKeeps DEF Abandon, Claim, Fail, WithStatus
  <2>2. CASE Publish(u)
    BY <2>2, OverwritingKeeps DEF Publish
  <2>3. CASE Download(u)
    BY <2>3, OverwritingKeeps, UpdatingKeeps DEF Download, WithStatus
  <2>4. CASE Sanitize(u) \/ Finish(u)
    BY <2>4, UpdatingKeeps DEF Sanitize, Finish, Checkpoint
  <2>5. CASE row' = row
    BY <2>5, UpdatingKeeps
  <2>. QED BY <1>1, <2>1, <2>2, <2>3, <2>4, <2>5
       DEF Worker, Start, Check, AnnounceStart, Bazaar, TakeGuard, Write, Count, Account,
           Compensate, Lock, Emit, Dispatch, End
<1>2. ASSUME CancelBegin(u) \/ Canceller(u) PROVE RowKept(u)
  BY <1>2, UpdatingKeeps
  DEF CancelBegin, Canceller, CancelCommit, CancelMark, CancelRelease, CancelForget,
      CancelCleanup, CancelQuota
<1>3. ASSUME PostScan(u) PROVE RowKept(u)
  <2>1. CASE PostStart(u) \/ PostSettle(u)
    BY <2>1, OverwritingKeeps DEF PostStart, PostSettle, WithProcessing
  <2>2. CASE ~(PostStart(u) \/ PostSettle(u))
    BY <1>3, <2>2, UpdatingKeeps
    DEF PostScan, Deliver, PostDownload, PostLock, PostComplete, PostEmit, PostSweep
  <2>. QED BY <2>1, <2>2
<1>4. ASSUME Reap(u) \/ ReapRelease(u) PROVE RowKept(u)
  BY <1>4, UpdatingKeeps DEF Reap, ReapRelease, Reaped
<1>5. ASSUME Failure(u) PROVE RowKept(u)
  BY <1>5, UpdatingKeeps, OverwritingKeeps
  DEF Failure, Raise, CancelRaise, PostRaise, Interrupt, WithProcessing
<1>. QED BY <1>1, <1>2, <1>3, <1>4, <1>5 DEF Step

LEMMA CancelledStays ==
    TypeInv /\ [Next]_vars =>
        [\A u \in Uploads : row[u].status = "cancelled" => row'[u].status = "cancelled"]_vars
<1>. SUFFICES ASSUME TypeInv, Next, NEW u \in Uploads, row[u].status = "cancelled"
              PROVE  row'[u].status = "cancelled"
  OBVIOUS
<1>1. PICK v \in Uploads : Step(v)
  BY DEF Next, Step
<1>2. RowKept(v)
  BY <1>1, RowSteps DEF TypeInv
<1>. QED BY <1>2 DEF RowKept

(* A cancelled upload stays cancelled, whatever the worker, the post-scan  *)
(* job and the reaper still do, and however often the job is run again:    *)
(* every one of their updates of the row names the status in its WHERE     *)
(* clause or leaves it alone.                                              *)
THEOREM CancellationHolds == Spec => CancellationIsFinal
BY TypesHold, CancelledStays, PTL DEF Spec, CancellationIsFinal

----------------------------------------------------------------------------
(* A cancellation that has ended.  Worker, canceller and post-scan job     *)
(* exclude one another by the lifecycle lock while they announce; once the *)
(* marker is set, nobody who takes the lock announces "clean".             *)

LockIsHeld(u) ==
    /\ pc[u] \in {"published", "emit", "emitted", "dispatch"} => lock[u] = "worker"
    /\ post[u] \in {"complete", "emit", "settle"} => lock[u] = "post"
    /\ cpc[u] \in Cancelling => lock[u] = "canceller"

MarkedIsSilent(u) == u \in marker => cache[u] # "clean" /\ pc[u] # "emit" /\ post[u] # "emit"

Marking == {"release", "forget", "cleanup", "quota", "done"}

CancellerHasDone(u) ==
    /\ cpc[u] \in {"mark"} \cup Marking => row[u].status = "cancelled"
    /\ cpc[u] \in Marking => u \in marker
    /\ cpc[u] \in {"cleanup", "quota", "done"} => ~row[u].owns

CancelInv == \A u \in Uploads : LockIsHeld(u) /\ MarkedIsSilent(u) /\ CancellerHasDone(u)

LEMMA OthersUntouched ==
    ASSUME TypeInv, NEW u \in Uploads, Step(u), NEW v \in Uploads \ {u}
    PROVE  /\ row'[v] = row[v] /\ lock'[v] = lock[v] /\ cache'[v] = cache[v]
           /\ pc'[v] = pc[v] /\ cpc'[v] = cpc[v] /\ post'[v] = post[v]
           /\ (v \in marker') = (v \in marker)
<1>. USE DEF database, store, counts, budget, status, locks, worker
<1>1. row'[v] = row[v]
  BY RowSteps DEF TypeInv, RowKept
<1>2. CASE Worker(u)
  <2>1. /\ pc'[v] = pc[v] /\ cache'[v] = cache[v] /\ lock'[v] = lock[v] /\ post'[v] = post[v]
    BY <1>2 DEF TypeInv, TypeOK, Worker, Go, Announce, Unlocked, Delivered, Start, Check, Abandon,
                Claim, AnnounceStart, Download, Sanitize, Bazaar, TakeGuard, Write, Count, Account,
                Publish, Compensate, Lock, Emit, Dispatch, Finish, Fail, End
  <2>2. UNCHANGED <<cpc, marker>>
    BY <1>2 DEF Worker, Start, Check, Abandon, Claim, AnnounceStart, Download, Sanitize, Bazaar,
                TakeGuard, Write, Count, Account, Publish, Compensate, Lock, Emit, Dispatch,
                Finish, Fail, End
  <2>. QED BY <1>1, <2>1, <2>2
<1>3. CASE CancelBegin(u) \/ Canceller(u)
  BY <1>1, <1>3
  DEF TypeInv, TypeOK, CancelBegin, Canceller, CancelCommit, CancelMark, CancelRelease,
      CancelForget, CancelCleanup, CancelQuota, Proceed, Announce, Unlocked
<1>4. CASE PostScan(u)
  BY <1>1, <1>4
  DEF TypeInv, TypeOK, PostScan, Deliver, Delivered, PostStart, PostDownload, PostLock,
      PostComplete, PostEmit, PostSweep, PostSettle, Follow, Announce, Unlocked
<1>5. CASE Reap(u) \/ ReapRelease(u)
  BY <1>1, <1>5 DEF Reap, ReapRelease
<1>6. CASE Failure(u)
  BY <1>1, <1>6
  DEF TypeInv, TypeOK, Failure, Raise, CancelRaise, PostRaise, Interrupt, Go, Proceed, Follow,
      Unlocked
<1>. QED BY <1>2, <1>3, <1>4, <1>5, <1>6 DEF Step

(* What a step of the worker, and of nobody else, does to its upload.      *)
LEMMA WorkerSteps ==
    ASSUME TypeInv, NEW u \in Uploads, Worker(u), LockIsHeld(u), MarkedIsSilent(u)
    PROVE  LockIsHeld(u)' /\ MarkedIsSilent(u)' /\ UNCHANGED <<cpc, marker>>
<1>. USE DEF database, store, counts, budget, status, locks, worker
<1>1. UNCHANGED <<cpc, marker>>
  BY DEF Worker, Start, Check, Abandon, Claim, AnnounceStart, Download, Sanitize, Bazaar,
         TakeGuard, Write, Count, Account, Publish, Compensate, Lock, Emit, Dispatch, Finish, Fail,
         End
<1>2. CASE Check(u)
  BY <1>1, <1>2
  DEF TypeInv, TypeOK, Check, Checks, Cancelled, Go, LockIsHeld, MarkedIsSilent
<1>3. CASE Lock(u)
  BY <1>1, <1>3, NoneAssumption
  DEF TypeInv, TypeOK, Lock, Free, Go, LockIsHeld, MarkedIsSilent, Cancelling
<1>4. CASE Emit(u)
  BY <1>1, <1>4
  DEF TypeInv, TypeOK, Emit, Announce, Go, LockIsHeld, MarkedIsSilent
<1>5. CASE Dispatch(u)
  BY <1>1, <1>5
  DEF TypeInv, TypeOK, Dispatch, Delivered, Unlocked, Go, LockIsHeld, MarkedIsSilent
<1>6. CASE Abandon(u)
  BY <1>1, <1>6
  DEF TypeInv, TypeOK, Abandon, Announce, Unlocked, Go, LockIsHeld, MarkedIsSilent
<1>7. CASE ~(Check(u) \/ Lock(u) \/ Emit(u) \/ Dispatch(u) \/ Abandon(u))
  <2>1. UNCHANGED <<lock, post>>
    BY <1>7 DEF Worker, Start, Claim, AnnounceStart, Download, Sanitize, Bazaar, TakeGuard, Write,
                Count, Account, Publish, Compensate, Finish, Fail, End
  <2>2. pc'[u] \notin {"published", "emit", "emitted", "dispatch"}
    BY <1>7 DEF Worker, Go, TypeInv, TypeOK, Start, Claim, AnnounceStart, Download, Sanitize,
                Bazaar, TakeGuard, Write, Count, Account, Publish, Compensate, Finish, Fail, End
  <2>3. cache'[u] = cache[u] \/ cache'[u] # "clean"
    BY <1>7 DEF Worker, Announce, TypeInv, TypeOK, Start, Claim, AnnounceStart, Download, Sanitize,
                Bazaar, TakeGuard, Write, Count, Account, Publish, Compensate, Finish, Fail, End
  <2>. QED BY <1>1, <2>1, <2>2, <2>3 DEF LockIsHeld, MarkedIsSilent
<1>. QED BY <1>1, <1>2, <1>3, <1>4, <1>5, <1>6, <1>7

LEMMA CancellerSteps ==
    ASSUME TypeInv, NEW u \in Uploads, CancelBegin(u) \/ Canceller(u), LockIsHeld(u),
           MarkedIsSilent(u), CancellerHasDone(u)
    PROVE  LockIsHeld(u)' /\ MarkedIsSilent(u)' /\ CancellerHasDone(u)'
<1>. USE DEF database, store, counts, budget, status, locks, worker, Proceed, TypeInv, TypeOK,
             Cancelling
<1>1. CASE CancelBegin(u)
  BY <1>1, NoneAssumption
  DEF CancelBegin, Free, LockIsHeld, MarkedIsSilent, CancellerHasDone, Marking
<1>2. row[u] \in Row
  OBVIOUS
<1>3. CASE CancelCommit(u)
  BY <1>2, <1>3
  DEF CancelCommit, LockIsHeld, MarkedIsSilent, CancellerHasDone, Marking, Row
<1>4. CASE CancelMark(u)
  BY <1>4, NoneAssumption
  DEF CancelMark, Announce, LockIsHeld, MarkedIsSilent, CancellerHasDone, Marking
<1>5. CASE CancelRelease(u)
  BY <1>5 DEF CancelRelease, LockIsHeld, MarkedIsSilent, CancellerHasDone, Marking
<1>6. CASE CancelForget(u)
  BY <1>2, <1>6
  DEF CancelForget, LockIsHeld, MarkedIsSilent, CancellerHasDone, Marking, Row
<1>7. CASE CancelCleanup(u)
  BY <1>7 DEF CancelCleanup, LockIsHeld, MarkedIsSilent, CancellerHasDone, Marking
<1>8. CASE CancelQuota(u)
  BY <1>8 DEF CancelQuota, Unlocked, LockIsHeld, MarkedIsSilent, CancellerHasDone, Marking
<1>. QED BY <1>1, <1>3, <1>4, <1>5, <1>6, <1>7, <1>8 DEF Canceller

LEMMA PostScanSteps ==
    ASSUME TypeInv, NEW u \in Uploads, PostScan(u), LockIsHeld(u), MarkedIsSilent(u)
    PROVE  LockIsHeld(u)' /\ MarkedIsSilent(u)' /\ UNCHANGED <<cpc, marker>>
<1>. USE DEF database, store, counts, budget, status, locks, worker, Follow, TypeInv, TypeOK
<1>1. UNCHANGED <<pc, cpc, marker>>
  BY DEF PostScan, Deliver, PostStart, PostDownload, PostLock, PostComplete, PostEmit, PostSweep,
         PostSettle
<1>2. CASE Deliver(u) \/ PostStart(u) \/ PostDownload(u) \/ PostSweep(u)
  BY <1>1, <1>2
  DEF Deliver, Delivered, PostStart, PostDownload, PostSweep, LockIsHeld, MarkedIsSilent
<1>3. CASE PostLock(u, "lock", "complete") \/ PostLock(u, "degrade", "settle")
  BY <1>1, <1>3, NoneAssumption DEF PostLock, Free, LockIsHeld, MarkedIsSilent
<1>4. CASE PostComplete(u)
  BY <1>1, <1>4 DEF PostComplete, MayComplete, Unlocked, LockIsHeld, MarkedIsSilent
<1>5. CASE PostEmit(u) \/ PostSettle(u)
  BY <1>1, <1>5 DEF PostEmit, PostSettle, Announce, Unlocked, LockIsHeld, MarkedIsSilent
<1>. QED BY <1>1, <1>2, <1>3, <1>4, <1>5 DEF PostScan

LEMMA FailureSteps ==
    ASSUME TypeInv, NEW u \in Uploads, Failure(u), LockIsHeld(u), MarkedIsSilent(u)
    PROVE  LockIsHeld(u)' /\ MarkedIsSilent(u)' /\ marker' = marker
           /\ cpc'[u] \in {cpc[u], "idle"}
<1>. USE DEF database, store, counts, budget, status, locks, worker, TypeInv, TypeOK
<1>1. CASE Raise(u) \/ Interrupt(u)
  BY <1>1 DEF Raise, Interrupt, Go, Unlocked, LockIsHeld, MarkedIsSilent
<1>2. CASE CancelRaise(u)
  BY <1>2 DEF CancelRaise, Proceed, Unlocked, LockIsHeld, MarkedIsSilent, Cancelling
<1>3. CASE PostRaise(u)
  BY <1>3 DEF PostRaise, Follow, Unlocked, LockIsHeld, MarkedIsSilent
<1>. QED BY <1>1, <1>2, <1>3 DEF Failure

(* A canceller that has not moved keeps what it has done.                  *)
LEMMA DoneIsKept ==
    ASSUME NEW u \in Uploads, RowKept(u), CancellerHasDone(u), marker' = marker,
           cpc'[u] \in {cpc[u], "idle"}
    PROVE  CancellerHasDone(u)'
BY DEF RowKept, CancellerHasDone, Marking

LEMMA CancelInit == Init => CancelInv
BY DEF Init, CancelInv, LockIsHeld, MarkedIsSilent, CancellerHasDone, Cancelling, Marking

LEMMA CancelNext == TypeInv /\ CancelInv /\ [Next]_vars => CancelInv'
<1>. SUFFICES ASSUME TypeInv, CancelInv, [Next]_vars PROVE CancelInv'
  OBVIOUS
<1>1. CASE UNCHANGED vars
  BY <1>1 DEF vars, database, status, locks, worker, CancelInv, LockIsHeld, MarkedIsSilent,
              CancellerHasDone
<1>2. ASSUME NEW u \in Uploads, Step(u) PROVE CancelInv'
  <2>. SUFFICES ASSUME NEW v \in Uploads
                PROVE  LockIsHeld(v)' /\ MarkedIsSilent(v)' /\ CancellerHasDone(v)'
    BY DEF CancelInv
  <2>1. LockIsHeld(v) /\ MarkedIsSilent(v) /\ CancellerHasDone(v)
    BY DEF CancelInv
  <2>2. CASE v # u
    BY <1>2, <2>1, <2>2, OthersUntouched DEF LockIsHeld, MarkedIsSilent, CancellerHasDone
  <2>3. RowKept(u)
    BY <1>2, RowSteps DEF TypeInv
  <2>4. CASE v = u /\ (Worker(u) \/ PostScan(u) \/ Failure(u))
    <3>1. LockIsHeld(u)' /\ MarkedIsSilent(u)' /\ marker' = marker /\ cpc'[u] \in {cpc[u], "idle"}
      BY <2>1, <2>4, WorkerSteps, PostScanSteps, FailureSteps
    <3>. QED BY <2>1, <2>3, <2>4, <3>1, DoneIsKept
  <2>5. CASE v = u /\ (CancelBegin(u) \/ Canceller(u))
    BY <2>1, <2>5, CancellerSteps
  <2>6. CASE v = u /\ (Reap(u) \/ ReapRelease(u))
    <3>1. UNCHANGED <<marker, cache, lock, pc, cpc, post>>
      BY <2>6 DEF Reap, ReapRelease, status, locks, worker
    <3>. QED BY <2>1, <2>3, <2>6, <3>1, DoneIsKept DEF LockIsHeld, MarkedIsSilent
  <2>. QED BY <1>2, <2>2, <2>4, <2>5, <2>6 DEF Step
<1>. QED BY <1>1, <1>2 DEF Next, Step

(* After a cancellation has ended, the browser is never told that the      *)
(* upload is clean and the row records no reference, for any interleaving  *)
(* with the worker's and the post-scan job's last steps, any exceptions in *)
(* them and any later run of the job.                                      *)
THEOREM CancellationSilences == Spec => []NothingCleanAfterCancellation
<1>1. CancelInv => NothingCleanAfterCancellation
  BY DEF CancelInv, MarkedIsSilent, CancellerHasDone, Marking, NothingCleanAfterCancellation
<1>. QED BY <1>1, TypesHold, CancelInit, CancelNext, PTL DEF Spec

----------------------------------------------------------------------------
(* Reference counts: a step leaves them alone, counts its upload, or gives *)
(* a reference back.                                                       *)

LEMMA CountSteps ==
    ASSUME TypeInv, NEW u \in Uploads, Step(u)
    PROVE  \/ UNCHANGED counts
           \/ \E c \in Contents : Counted(u, c)
           \/ \E op \in Releases, c \in {loc[u].bytes, row[u].content} : GivenBack(op, u, c)
<1>1. CASE Worker(u)
  <2>1. CASE Count(u)
    <3>1. loc[u].bytes \in Contents
      BY <2>1 DEF Count, TypeInv, BytesInHand, Loaded
    <3>. QED BY <2>1, <3>1 DEF Count
  <2>2. CASE Compensate(u)
    BY <2>2 DEF Compensate, Releases
  <2>3. CASE ~(Count(u) \/ Compensate(u))
    BY <1>1, <2>3 DEF Worker, Start, Check, Abandon, Claim, AnnounceStart, Download, Sanitize,
                      Bazaar, TakeGuard, Write, Account, Publish, Lock, Emit, Dispatch, Finish,
                      Fail, End
  <2>. QED BY <2>1, <2>2, <2>3
<1>2. CASE CancelBegin(u) \/ Canceller(u)
  BY <1>2 DEF CancelBegin, Canceller, CancelCommit, CancelMark, CancelRelease, CancelForget,
              CancelCleanup, CancelQuota, Releases
<1>3. CASE PostScan(u)
  BY <1>3 DEF PostScan, Deliver, PostStart, PostDownload, PostLock, PostComplete, PostEmit,
              PostSweep, PostSettle
<1>4. CASE Reap(u) \/ ReapRelease(u)
  BY <1>4 DEF Reap, ReapRelease, Releases
<1>5. CASE Failure(u)
  BY <1>5 DEF Failure, Raise, CancelRaise, PostRaise, Interrupt
<1>. QED BY <1>1, <1>2, <1>3, <1>4, <1>5 DEF Step

LEMMA CountingCounts ==
    ASSUME TypeOK, CountedOnce, NEW u \in Uploads, NEW c \in Contents, Counted(u, c)
    PROVE  CountedOnce'
<1>1. refs \in [Contents -> Nat] /\ marks \subseteq Marks
  BY DEF TypeOK
<1>2. IsFiniteSet(CountedUploads)
  BY UploadsAssumption, FS_Subset DEF CountedUploads
<1>3. CASE u \in CountedUploads
  <2>1. UNCHANGED counts
    BY <1>3 DEF CountedUploads, Counted
  <2>. QED BY <2>1 DEF counts, CountedOnce, CountedUploads
<1>4. CASE u \notin CountedUploads
  <2>1. refs' = [refs EXCEPT ![c] = @ + 1] /\ marks' = marks \cup {<<"finalize", u>>}
    BY <1>4 DEF CountedUploads, Counted
  <2>2. CountedUploads' = CountedUploads \cup {u}
    BY <2>1 DEF CountedUploads
  <2>3. Cardinality(CountedUploads') = Cardinality(CountedUploads) + 1
    BY <1>2, <1>4, <2>2, FS_AddElement
  <2>4. Cardinality(CountedUploads) \in Nat
    BY <1>2, FS_CardinalityType
  <2>5. refs'["sanitized"] + refs'["raw"] = refs["sanitized"] + refs["raw"] + 1
    BY <1>1, <2>1 DEF Contents
  <2>6. refs["sanitized"] \in Nat /\ refs["raw"] \in Nat
    BY <1>1 DEF Contents
  <2>. QED BY <2>3, <2>4, <2>5, <2>6 DEF CountedOnce
<1>. QED BY <1>3, <1>4

LEMMA GivingBackCounts ==
    ASSUME TypeOK, CountedOnce, NEW u \in Uploads, NEW op \in Releases, NEW c,
           GivenBack(op, u, c)
    PROVE  CountedOnce'
<1>1. refs \in [Contents -> Nat]
  BY DEF TypeOK
<1>2. CASE UNCHANGED counts
  BY <1>2 DEF counts, CountedOnce, CountedUploads
<1>3. CASE /\ refs' = [refs EXCEPT ![c] = @ - 1]
           /\ marks' = marks \cup {<<op, u>>}
  <2>1. CountedUploads' = CountedUploads
    BY <1>3 DEF CountedUploads, Releases
  <2>2. Cardinality(CountedUploads) \in Nat
    BY UploadsAssumption, FS_Subset, FS_CardinalityType DEF CountedUploads
  <2>5. refs["sanitized"] \in Nat /\ refs["raw"] \in Nat
    BY <1>1 DEF Contents
  <2>3. /\ refs'["sanitized"] \in {refs["sanitized"], refs["sanitized"] - 1}
        /\ refs'["raw"] \in {refs["raw"], refs["raw"] - 1}
    BY <1>1, <1>3 DEF Contents
  <2>4. /\ refs'["sanitized"] \in Int /\ refs'["raw"] \in Int
        /\ refs'["sanitized"] + refs'["raw"] <= refs["sanitized"] + refs["raw"]
    BY <2>3, <2>5
  <2>. QED BY <2>1, <2>2, <2>3, <2>4, <2>5 DEF CountedOnce
<1>. QED BY <1>2, <1>3 DEF GivenBack

LEMMA CountInit == Init => CountedOnce
<1>. SUFFICES ASSUME Init PROVE CountedOnce
  OBVIOUS
<1>1. CountedUploads = Earlier
  <2>1. marks = {"finalize"} \X Earlier
    BY DEF Init
  <2>. QED BY <2>1, UploadsAssumption DEF CountedUploads
<1>2. refs["sanitized"] = Cardinality(Earlier) /\ refs["raw"] = 0
  BY DEF Init, Contents
<1>3. Cardinality(Earlier) \in Nat
  BY UploadsAssumption, FS_Subset, FS_CardinalityType
<1>. QED BY <1>1, <1>2, <1>3 DEF CountedOnce

LEMMA CountNext == TypeInv /\ CountedOnce /\ [Next]_vars => CountedOnce'
<1>. SUFFICES ASSUME TypeInv, CountedOnce, [Next]_vars PROVE CountedOnce'
  OBVIOUS
<1>1. CASE UNCHANGED counts
  BY <1>1 DEF counts, CountedOnce, CountedUploads
<1>2. ASSUME NEW u \in Uploads, Step(u) PROVE CountedOnce'
  BY <1>1, <1>2, CountSteps, CountingCounts, GivingBackCounts DEF TypeInv
<1>. QED BY <1>1, <1>2 DEF Next, Step, vars

(* No upload is counted twice, whatever is interrupted and run again: the  *)
(* references that exist never outnumber the uploads whose "finalize"      *)
(* marker has been set.                                                    *)
THEOREM CountsAreOnce == Spec => []CountedOnce
BY TypesHold, CountInit, CountNext, PTL DEF Spec

----------------------------------------------------------------------------
(* Whoever gives a reference back knows of which content: a row that       *)
(* records a reference, or did when the release was decided, names it.     *)

Recorded(u) == row[u].owns \/ u \in releases \/ cpc[u] = "release"

ContentIsRecorded == \A u \in Uploads : Recorded(u) => row[u].content \in Contents

ContentKept(u) ==
    \/ row'[u].content \in Contents
    \/ row'[u].content = row[u].content /\ (row'[u].owns => row[u].owns)

RecordedKept(u) ==
    /\ u \in releases' => u \in releases \/ row[u].owns
    /\ cpc'[u] = "release" => cpc[u] = "release" \/ row[u].owns
    /\ \A v \in Uploads \ {u} : (v \in releases' <=> v \in releases) /\ cpc'[v] = cpc[v]

LEMMA UpdatesKeepContent ==
    ASSUME TypeOK, NEW u \in Uploads, NEW s, NEW n,
           \/ row' = row
           \/ row' = WithStatus(u, s) \/ row' = WithProcessing(u, n)
           \/ row' = Overwritten(u, [row[u] EXCEPT !.status = s, !.stage = n])
           \/ row' = [row EXCEPT ![u].stage = n]
           \/ row' = [row EXCEPT ![u].processing = n]
           \/ row' = [row EXCEPT ![u].status = s]
           \/ row' = [row EXCEPT ![u].owns = FALSE]
    PROVE  ContentKept(u)
<1>1. row \in [Uploads -> Row]
  BY DEF TypeOK
<1>2. ASSUME NEW r, r.content = row[u].content, r.owns = row[u].owns \/ r.owns = FALSE,
             row' = row \/ row' = [row EXCEPT ![u] = r]
      PROVE  ContentKept(u)
  BY <1>1, <1>2 DEF ContentKept
<1>3. row[u] \in Row
  BY <1>1
<1>. DEFINE a == [row[u] EXCEPT !.status = s]
             b == [row[u] EXCEPT !.processing = n]
             c == [row[u] EXCEPT !.status = s, !.stage = n]
             d == [row[u] EXCEPT !.stage = n]
             f == [row[u] EXCEPT !.owns = FALSE]
<1>4. \A r \in {a, b, c, d, f} :
          r.content = row[u].content /\ (r.owns = row[u].owns \/ r.owns = FALSE)
  BY <1>3 DEF Row
<1>5. \/ row' = row
      \/ \E r \in {a, b, c, d, f} : row' = [row EXCEPT ![u] = r]
  BY DEF WithStatus, WithProcessing, Overwritten
<1>. HIDE DEF a, b, c, d, f
<1>6. CASE row' = row
  BY <1>6 DEF ContentKept
<1>. QED BY <1>2, <1>4, <1>5, <1>6

LEMMA ContentSteps ==
    ASSUME TypeInv, NEW u \in Uploads, Step(u)
    PROVE  ContentKept(u)
<1>. USE DEF database
<1>1. CASE Worker(u)
  <2>1. CASE Abandon(u) \/ Claim(u) \/ Fail(u)
    BY <2>1, UpdatesKeepContent DEF TypeInv, Abandon, Claim, Fail
  <2>2. CASE Publish(u)
    <3>1. loc[u].bytes \in Contents /\ row \in [Uploads -> Row]
      BY <2>2 DEF Publish, TypeInv, TypeOK, BytesInHand, Loaded
    <3>. QED BY <2>2, <3>1 DEF Publish, Overwritten, ContentKept, Row
  <2>3. CASE Download(u)
    BY <2>3, UpdatesKeepContent DEF TypeInv, Download
  <2>4. CASE Sanitize(u) \/ Finish(u)
    BY <2>4, UpdatesKeepContent DEF TypeInv, Sanitize, Finish, Checkpoint
  <2>5. CASE row' = row
    BY <2>5, UpdatesKeepContent DEF TypeInv
  <2>. QED BY <1>1, <2>1, <2>2, <2>3, <2>4, <2>5
       DEF Worker, Start, Check, AnnounceStart, Bazaar, TakeGuard, Write, Count, Account,
           Compensate, Lock, Emit, Dispatch, End
<1>2. CASE CancelBegin(u) \/ Canceller(u)
  BY <1>2, UpdatesKeepContent
  DEF TypeInv, CancelBegin, Canceller, CancelCommit, CancelMark, CancelRelease, CancelForget,
      CancelCleanup, CancelQuota
<1>3. CASE PostScan(u)
  <2>1. CASE PostStart(u) \/ PostSettle(u)
    BY <2>1, UpdatesKeepContent DEF TypeInv, PostStart, PostSettle
  <2>2. CASE ~(PostStart(u) \/ PostSettle(u))
    BY <1>3, <2>2, UpdatesKeepContent
    DEF TypeInv, PostScan, Deliver, PostDownload, PostLock, PostComplete, PostEmit, PostSweep
  <2>. QED BY <2>1, <2>2
<1>4. CASE Reap(u) \/ ReapRelease(u)
  BY <1>4, UpdatesKeepContent DEF TypeInv, Reap, ReapRelease, Reaped
<1>5. CASE Failure(u)
  BY <1>5, UpdatesKeepContent DEF TypeInv, Failure, Raise, CancelRaise, PostRaise, Interrupt
<1>. QED BY <1>1, <1>2, <1>3, <1>4, <1>5 DEF Step

LEMMA RecordedSteps ==
    ASSUME TypeInv, NEW u \in Uploads, Step(u)
    PROVE  RecordedKept(u)
<1>. USE DEF database
<1>1. CASE Worker(u) \/ PostScan(u)
  <2>1. UNCHANGED <<releases, cpc>>
    BY <1>1 DEF Worker, Start, Check, Abandon, Claim, AnnounceStart, Download, Sanitize, Bazaar,
                TakeGuard, Write, Count, Account, Publish, Compensate, Lock, Emit, Dispatch,
                Finish, Fail, End, PostScan, Deliver, PostStart, PostDownload, PostLock,
                PostComplete, PostEmit, PostSweep, PostSettle
  <2>. QED BY <2>1 DEF RecordedKept
<1>2. CASE CancelBegin(u) \/ Canceller(u) \/ Failure(u)
  <2>1. UNCHANGED releases
    BY <1>2 DEF CancelBegin, Canceller, CancelCommit, CancelMark, CancelRelease, CancelForget,
                CancelCleanup, CancelQuota, Failure, Raise, CancelRaise, PostRaise, Interrupt
  <2>2. \/ UNCHANGED cpc
        \/ \E place : Proceed(u, place) /\ (place = "release" => row[u].owns)
    BY <1>2 DEF CancelBegin, Canceller, CancelCommit, CancelMark, CancelRelease, CancelForget,
                CancelCleanup, CancelQuota, Failure, Raise, CancelRaise, PostRaise, Interrupt
  <2>. QED BY <2>1, <2>2 DEF RecordedKept, Proceed, TypeInv, TypeOK
<1>3. CASE Reap(u) \/ ReapRelease(u)
  BY <1>3 DEF RecordedKept, Reap, ReapRelease
<1>. QED BY <1>1, <1>2, <1>3 DEF Step

LEMMA RecordedInit == Init => ContentIsRecorded
BY DEF Init, ContentIsRecorded, Recorded, Contents

LEMMA RecordedNext == TypeInv /\ ContentIsRecorded /\ [Next]_vars => ContentIsRecorded'
<1>. SUFFICES ASSUME TypeInv, ContentIsRecorded, [Next]_vars PROVE ContentIsRecorded'
  OBVIOUS
<1>1. CASE UNCHANGED vars
  BY <1>1 DEF vars, database, ContentIsRecorded, Recorded
<1>2. ASSUME NEW u \in Uploads, Step(u) PROVE ContentIsRecorded'
  <2>1. ContentKept(u) /\ RecordedKept(u) /\ RowKept(u)
    BY <1>2, ContentSteps, RecordedSteps, RowSteps DEF TypeInv
  <2>2. ASSUME NEW v \in Uploads \ {u}, Recorded(v)' PROVE row'[v].content \in Contents
    BY <2>1, <2>2 DEF RowKept, RecordedKept, ContentIsRecorded, Recorded
  <2>3. ASSUME Recorded(u)' PROVE row'[u].content \in Contents
    BY <2>1, <2>3 DEF ContentKept, RecordedKept, ContentIsRecorded, Recorded
  <2>. QED BY <2>2, <2>3 DEF ContentIsRecorded
<1>. QED BY <1>1, <1>2 DEF Next, Step

----------------------------------------------------------------------------
(* Counting and giving back are the steps of References.                   *)

ReturnedMarks == marks \ ({"finalize"} \X Uploads)

LEMMA SharesInit == Init => Shares!Init
<1>. SUFFICES ASSUME Init PROVE Shares!Init
  OBVIOUS
<1>1. marks = {"finalize"} \X Earlier /\ Earlier \subseteq Uploads
  BY UploadsAssumption DEF Init
<1>2. CountedUploads = Earlier /\ marks \ ({"finalize"} \X Uploads) = {}
  BY <1>1 DEF CountedUploads
<1>3. refs = [d \in Contents |-> IF d = "sanitized" THEN Cardinality(CountedUploads) ELSE 0]
  BY <1>2 DEF Init
<1>4. "sanitized" \in Contents
  BY DEF Contents
<1>5. Shares!Cardinality(CountedUploads) = Cardinality(CountedUploads)
  BY DEF Shares!Cardinality, Cardinality
<1>. QED BY <1>1, <1>2, <1>3, <1>4, <1>5 DEF Shares!Init

LEMMA CountingTakes ==
    ASSUME TypeOK, NEW u \in Uploads, NEW c \in Contents, Counted(u, c)
    PROVE  UNCHANGED counts \/ Shares!Take(u, c)
<1>. SUFFICES ASSUME <<"finalize", u>> \notin marks,
                     refs' = [refs EXCEPT ![c] = @ + 1],
                     marks' = marks \cup {<<"finalize", u>>}
              PROVE  Shares!Take(u, c)
  BY DEF Counted
<1>1. u \notin CountedUploads /\ CountedUploads' = CountedUploads \cup {u}
  BY DEF CountedUploads
<1>2. ReturnedMarks' = ReturnedMarks
  BY DEF ReturnedMarks
<1>. QED BY <1>1, <1>2 DEF Shares!Take, ReturnedMarks

LEMMA GivingBackReturns ==
    ASSUME TypeOK, NEW u \in Uploads, NEW op \in Releases, NEW c \in Contents,
           GivenBack(op, u, c)
    PROVE  UNCHANGED counts \/ Shares!Return(op, u, c)
<1>. SUFFICES ASSUME <<op, u>> \notin marks, refs[c] # 0,
                     refs' = [refs EXCEPT ![c] = @ - 1], marks' = marks \cup {<<op, u>>}
              PROVE  Shares!Return(op, u, c)
  BY DEF GivenBack
<1>1. op # "finalize"
  BY DEF Releases
<1>2. CountedUploads' = CountedUploads
  BY <1>1 DEF CountedUploads
<1>3. /\ <<op, u>> \notin ReturnedMarks
      /\ ReturnedMarks' = ReturnedMarks \cup {<<op, u>>}
  BY <1>1 DEF ReturnedMarks
<1>4. refs[c] > 0
  BY DEF TypeOK
<1>. QED BY <1>2, <1>3, <1>4 DEF Shares!Return, ReturnedMarks

LEMMA ReturnersKnow ==
    ASSUME TypeInv, ContentIsRecorded, NEW u \in Uploads, Step(u)
    PROVE  \/ UNCHANGED counts
           \/ \E c \in Contents : Counted(u, c)
           \/ \E op \in Releases, c \in Contents : GivenBack(op, u, c)
<1>1. CASE Compensate(u)
  <2>1. loc[u].bytes \in Contents
    BY <1>1 DEF Compensate, TypeInv, BytesInHand, Loaded
  <2>. QED BY <1>1, <2>1 DEF Compensate, Releases
<1>2. CASE CancelRelease(u)
  <2>1. row[u].content \in Contents
    BY <1>2 DEF CancelRelease, ContentIsRecorded, Recorded
  <2>. QED BY <1>2, <2>1 DEF CancelRelease, Releases
<1>3. CASE ReapRelease(u)
  <2>1. row[u].content \in Contents
    BY <1>3 DEF ReapRelease, ContentIsRecorded, Recorded
  <2>. QED BY <1>3, <2>1 DEF ReapRelease, Releases
<1>4. CASE Count(u)
  <2>1. loc[u].bytes \in Contents
    BY <1>4 DEF Count, TypeInv, BytesInHand, Loaded
  <2>. QED BY <1>4, <2>1 DEF Count
<1>5. CASE ~(Compensate(u) \/ CancelRelease(u) \/ ReapRelease(u) \/ Count(u))
  BY <1>5 DEF Step, Worker, Start, Check, Abandon, Claim, AnnounceStart, Download, Sanitize,
              Bazaar, TakeGuard, Write, Account, Publish, Lock, Emit, Dispatch, Finish, Fail, End,
              CancelBegin, Canceller, CancelCommit, CancelMark, CancelForget, CancelCleanup,
              CancelQuota, PostScan, Deliver, PostStart, PostDownload, PostLock, PostComplete,
              PostEmit, PostSweep, PostSettle, Reap, Failure, Raise, CancelRaise, PostRaise,
              Interrupt
<1>. QED BY <1>1, <1>2, <1>3, <1>4, <1>5

LEMMA SharesNext ==
    TypeInv /\ ContentIsRecorded /\ [Next]_vars => [Shares!Next]_(Shares!referenceVars)
<1>. SUFFICES ASSUME TypeInv, ContentIsRecorded, [Next]_vars
              PROVE  Shares!Next \/ UNCHANGED Shares!referenceVars
  OBVIOUS
<1>1. CASE UNCHANGED counts
  BY <1>1 DEF counts, CountedUploads, Shares!referenceVars
<1>2. ASSUME NEW u \in Uploads, NEW c \in Contents, Counted(u, c)
      PROVE  Shares!Next \/ UNCHANGED counts
  BY <1>2, CountingTakes DEF TypeInv, Shares!Next
<1>3. ASSUME NEW u \in Uploads, NEW op \in Releases, NEW c \in Contents, GivenBack(op, u, c)
      PROVE  Shares!Next \/ UNCHANGED counts
  BY <1>3, GivingBackReturns DEF TypeInv, Shares!Next
<1>4. CASE UNCHANGED vars
  BY <1>1, <1>4 DEF vars
<1>5. ASSUME NEW u \in Uploads, Step(u) PROVE Shares!Next \/ UNCHANGED counts
  BY <1>2, <1>3, <1>5, ReturnersKnow
<1>. QED BY <1>1, <1>4, <1>5 DEF Next, Step

(* The reference counts are kept as References promises: each upload takes *)
(* at most one reference, each release is applied at most once and to a    *)
(* content that is counted, whatever jobs are interrupted and run again,   *)
(* whatever cancellations are retried and releases delivered.              *)
THEOREM CountsImplementReferences == Spec => CountsAreReferences
<1>. QED BY TypesHold, RecordedInit, RecordedNext, SharesInit, SharesNext, PTL
         DEF Spec, CountsAreReferences, Shares!Spec

----------------------------------------------------------------------------
(* Leaks.  A job that is not run again meets its upload as it left it: it  *)
(* counts the sanitized bytes once, and whoever gives the reference back   *)
(* excludes the others.                                                    *)

\* Before an upload is counted, and between its count and its publication.
Early == {"queued", "start", "claim", "announce", "download", "sanitize", "scanned", "bazaar",
          "final", "guard", "write", "count"}

Counting == {"account", "publish", "compensate"}

Taken(u) == <<"finalize", u>> \in marks

Returned(u) == \E op \in Releases : <<op, u>> \in marks

\* The uploads whose reference exists.
Held == {u \in Uploads : Taken(u) /\ ~Returned(u)}

CountsAreHeld == refs["raw"] = 0 /\ refs["sanitized"] = Cardinality(Held)

\* The worker has not resumed, and has what it will count.
FirstJob(u) ==
    /\ loc[u].stage = 0 /\ (pc[u] = "queued" => row[u].stage = 0)
    /\ pc[u] \in Loaded => loc[u].bytes = "sanitized"
    /\ pc[u] \in Early => ~Taken(u) /\ ~row[u].owns
    /\ pc[u] \in Counting => Taken(u) /\ ~Returned(u) /\ ~row[u].owns

\* Who is entitled to give the reference back.
FirstReturn(u) ==
    /\ Returned(u) => Taken(u)
    /\ row[u].owns =>
         /\ Taken(u) /\ row[u].content = "sanitized"
         /\ Returned(u) => <<"release", u>> \in marks /\ row[u].status = "cancelled"
    /\ u \in releases =>
         /\ Taken(u) /\ ~Returned(u) /\ ~row[u].owns /\ row[u].content = "sanitized"
         /\ pc[u] \in {"done", "lost"}
    /\ cpc[u] \in {"release", "forget"} => row[u].owns
    /\ cpc[u] = "forget" => <<"release", u>> \in marks

\* What a step leaves of the row, but for the three that change the ownership.
FieldsKept(u) ==
    /\ row'[u].owns = row[u].owns /\ row'[u].content = row[u].content
    /\ row'[u].stage = row[u].stage \/ pc'[u] \in {"scanned", "ending"}

LEMMA UpdatesKeepFields ==
    ASSUME TypeOK, NEW u \in Uploads, NEW s, NEW n,
           \/ row' = row
           \/ row' = WithStatus(u, s) \/ row' = WithProcessing(u, n)
           \/ row' = [row EXCEPT ![u].stage = n] /\ pc'[u] \in {"scanned", "ending"}
           \/ row' = [row EXCEPT ![u].processing = n]
           \/ row' = [row EXCEPT ![u].status = s]
    PROVE  FieldsKept(u)
<1>1. row \in [Uploads -> Row]
  BY DEF TypeOK
<1>2. row[u] \in Row
  BY <1>1
<1>3. ASSUME NEW r, r.owns = row[u].owns, r.content = row[u].content,
             r.stage = row[u].stage \/ pc'[u] \in {"scanned", "ending"},
             row' = [row EXCEPT ![u] = r]
      PROVE  FieldsKept(u)
  BY <1>1, <1>3 DEF FieldsKept
<1>. DEFINE a == [row[u] EXCEPT !.status = s]
             b == [row[u] EXCEPT !.processing = n]
             d == [row[u] EXCEPT !.stage = n]
<1>4. \A r \in {a, b, d} : r.owns = row[u].owns /\ r.content = row[u].content
  BY <1>2 DEF Row
<1>5. \A r \in {a, b} : r.stage = row[u].stage
  BY <1>2 DEF Row
<1>6. \/ row' = row \/ row' = [row EXCEPT ![u] = a] \/ row' = [row EXCEPT ![u] = b]
      \/ row' = [row EXCEPT ![u] = d] /\ pc'[u] \in {"scanned", "ending"}
  BY DEF WithStatus, WithProcessing, Overwritten
<1>. HIDE DEF a, b, d
<1>7. CASE row' = row
  BY <1>7 DEF FieldsKept
<1>8. CASE row' = [row EXCEPT ![u] = a]
  BY <1>3, <1>4, <1>5, <1>8
<1>9. CASE row' = [row EXCEPT ![u] = b]
  BY <1>3, <1>4, <1>5, <1>9
<1>10. CASE row' = [row EXCEPT ![u] = d] /\ pc'[u] \in {"scanned", "ending"}
  BY <1>3, <1>4, <1>10
<1>. QED BY <1>6, <1>7, <1>8, <1>9, <1>10

LEMMA CheckpointsKeepFields ==
    ASSUME TypeInv, NEW u \in Uploads, Sanitize(u) \/ Finish(u)
    PROVE  FieldsKept(u)
<1>1. pc \in [Uploads -> Places]
  BY DEF TypeInv, TypeOK
<1>2. \/ row' = row
      \/ row' = [row EXCEPT ![u].stage = 2] /\ pc'[u] = "scanned"
      \/ row' = [row EXCEPT ![u].stage = 5] /\ pc'[u] = "ending"
  BY <1>1 DEF Sanitize, Finish, Checkpoint, Go, database
<1>. QED BY <1>2, UpdatesKeepFields DEF TypeInv

LEMMA FieldSteps ==
    ASSUME TypeInv, NEW u \in Uploads, Step(u), ~(Publish(u) \/ CancelForget(u) \/ Reap(u))
    PROVE  FieldsKept(u)
<1>. USE DEF database
<1>1. CASE Worker(u)
  <2>1. CASE Abandon(u) \/ Claim(u) \/ Fail(u)
    BY <2>1, UpdatesKeepFields DEF TypeInv, Abandon, Claim, Fail
  <2>2. CASE Download(u)
    BY <2>2, UpdatesKeepFields DEF TypeInv, Download
  <2>3. CASE Sanitize(u) \/ Finish(u)
    BY <2>3, CheckpointsKeepFields
  <2>4. CASE row' = row
    BY <2>4, UpdatesKeepFields DEF TypeInv
  <2>. QED BY <1>1, <2>1, <2>2, <2>3, <2>4
       DEF Worker, Start, Check, AnnounceStart, Bazaar, TakeGuard, Write, Count, Account,
           Compensate, Lock, Emit, Dispatch, End
<1>2. CASE CancelBegin(u) \/ Canceller(u)
  BY <1>2, UpdatesKeepFields
  DEF TypeInv, CancelBegin, Canceller, CancelCommit, CancelMark, CancelRelease,
      CancelCleanup, CancelQuota
<1>3. CASE PostScan(u)
  <2>1. CASE PostStart(u) \/ PostSettle(u)
    BY <2>1, UpdatesKeepFields DEF TypeInv, PostStart, PostSettle
  <2>2. CASE ~(PostStart(u) \/ PostSettle(u))
    BY <1>3, <2>2, UpdatesKeepFields
    DEF TypeInv, PostScan, Deliver, PostDownload, PostLock, PostComplete, PostEmit, PostSweep
  <2>. QED BY <2>1, <2>2
<1>4. CASE ReapRelease(u)
  BY <1>4, UpdatesKeepFields DEF TypeInv, ReapRelease
<1>5. CASE Failure(u)
  BY <1>5, UpdatesKeepFields DEF TypeInv, Failure, Raise, CancelRaise, PostRaise, Interrupt
<1>. QED BY <1>1, <1>2, <1>3, <1>4, <1>5 DEF Step

\* A run that is not the last adds to the tries, which begin with one.
TriesArePositive == \A u \in Uploads : tries[u] >= 1

LEMMA TriesSteps ==
    ASSUME TypeInv, NEW u \in Uploads, Step(u)
    PROVE  tries' = tries \/ (Interrupt(u) /\ tries' = [tries EXCEPT ![u] = @ + 1])
<1>. USE DEF worker
<1>1. CASE Worker(u)
  BY <1>1 DEF Worker, Start, Check, Abandon, Claim, AnnounceStart, Download, Sanitize, Bazaar,
              TakeGuard, Write, Count, Account, Publish, Compensate, Lock, Emit, Dispatch, Finish,
              Fail, End
<1>2. CASE CancelBegin(u) \/ Canceller(u)
  BY <1>2 DEF CancelBegin, Canceller, CancelCommit, CancelMark, CancelRelease, CancelForget,
              CancelCleanup, CancelQuota
<1>3. CASE PostScan(u)
  BY <1>3 DEF PostScan, Deliver, PostStart, PostDownload, PostLock, PostComplete, PostEmit,
              PostSweep, PostSettle
<1>4. CASE Reap(u) \/ ReapRelease(u) \/ Failure(u)
  BY <1>4 DEF Reap, ReapRelease, Failure, Raise, CancelRaise, PostRaise, Interrupt
<1>. QED BY <1>1, <1>2, <1>3, <1>4 DEF Step

LEMMA TriesNext == 
    ASSUME TypeInv, TriesArePositive, NEW u \in Uploads, Step(u)
    PROVE  TriesArePositive' /\ (RanOnce' => RanOnce /\ tries' = tries /\ ~Interrupt(u))
<1>1. tries \in [Uploads -> Nat]
  BY DEF TypeInv, TypeOK
<1>2. CASE Interrupt(u)
  <2>1. tries' = [tries EXCEPT ![u] = @ + 1]
    BY <1>2 DEF Interrupt
  <2>. QED BY <1>1, <2>1 DEF TriesArePositive, RanOnce
<1>3. CASE tries' = tries /\ ~Interrupt(u)
  BY <1>3 DEF TriesArePositive, RanOnce
<1>. QED BY <1>2, <1>3, TriesSteps

(* Nobody but the upload of a step is counted, given back, or moved.       *)
LEMMA OthersKeepTheirs ==
    ASSUME TypeInv, NEW u \in Uploads, Step(u), NEW v \in Uploads \ {u}
    PROVE  /\ loc'[v] = loc[v]
           /\ v \in releases' <=> v \in releases
           /\ v \in quarantine' <=> v \in quarantine
           /\ v \in reserved' <=> v \in reserved
           /\ v \in quota' <=> v \in quota
           /\ \A op \in {"finalize"} \cup Releases : <<op, v>> \in marks' <=> <<op, v>> \in marks
<1>. USE DEF database, store, counts, budget, worker
<1>1. \A op \in {"finalize"} \cup Releases : <<op, v>> \in marks' <=> <<op, v>> \in marks
  <2>1. marks' = marks \/ \E op \in {"finalize"} \cup Releases : marks' = marks \cup {<<op, u>>}
    BY CountSteps DEF Counted, GivenBack
  <2>. QED BY <2>1
<1>2. CASE Worker(u)
  BY <1>1, <1>2
  DEF TypeInv, TypeOK, Worker, Start, Check, Abandon, Claim, AnnounceStart, Download, Sanitize,
      Bazaar, TakeGuard, Write, Count, Account, Publish, Compensate, Lock, Emit, Dispatch, Finish,
      Fail, End
<1>3. CASE CancelBegin(u) \/ Canceller(u)
  BY <1>1, <1>3 DEF CancelBegin, Canceller, CancelCommit, CancelMark, CancelRelease, CancelForget,
              CancelCleanup, CancelQuota
<1>4. CASE PostScan(u)
  BY <1>1, <1>4 DEF PostScan, Deliver, PostStart, PostDownload, PostLock, PostComplete, PostEmit,
              PostSweep, PostSettle
<1>5. CASE Reap(u) \/ ReapRelease(u) \/ Failure(u)
  BY <1>1, <1>5 DEF Reap, ReapRelease, Failure, Raise, CancelRaise, PostRaise, Interrupt
<1>. QED BY <1>2, <1>3, <1>4, <1>5 DEF Step

----------------------------------------------------------------------------
(* The counts of first runs.                                               *)

LEMMA HeldIsFinite == IsFiniteSet(Held) /\ Cardinality(Held) \in Nat
BY UploadsAssumption, FS_Subset, FS_CardinalityType DEF Held

LEMMA HolderIsCounted ==
    ASSUME TypeOK, CountsAreHeld, NEW u \in Held
    PROVE  refs["sanitized"] # 0
<1>1. Cardinality(Held) # 0
  BY HeldIsFinite, FS_EmptySet
<1>. QED BY <1>1 DEF CountsAreHeld

\* What a step of a first run does to the counts.
Takes(u) ==
    /\ pc[u] = "count" /\ ~Taken(u)
    /\ refs' = [refs EXCEPT !["sanitized"] = @ + 1] /\ marks' = marks \cup {<<"finalize", u>>}

Returns(op, u) ==
    /\ u \in Held
    /\ refs' = [refs EXCEPT !["sanitized"] = @ - 1] /\ marks' = marks \cup {<<op, u>>}

LEMMA FirstCounts ==
    ASSUME TypeInv, CountsAreHeld, NEW u \in Uploads, FirstJob(u), FirstReturn(u), Step(u)
    PROVE  /\ Count(u) => Takes(u)
           /\ Compensate(u) => Returns("compensate", u)
           /\ CancelRelease(u) =>
                  Returns("release", u) \/ (UNCHANGED counts /\ <<"release", u>> \in marks)
           /\ ReapRelease(u) => Returns("reap", u)
           /\ Count(u) \/ Compensate(u) \/ CancelRelease(u) \/ ReapRelease(u) \/ UNCHANGED counts
<1>1. ASSUME Count(u) PROVE Takes(u)
  <2>1. ~Taken(u) /\ loc[u].bytes = "sanitized"
    BY <1>1 DEF Count, FirstJob, Early, Loaded
  <2>. QED BY <1>1, <2>1 DEF Count, CountIsLost, Counted, Taken, Takes
<1>2. ASSUME Compensate(u) PROVE Returns("compensate", u)
  <2>1. u \in Held /\ loc[u].bytes = "sanitized"
    BY <1>2 DEF Compensate, FirstJob, Counting, Loaded, Held
  <2>2. refs["sanitized"] # 0
    BY <2>1, HolderIsCounted DEF TypeInv
  <2>. QED BY <1>2, <2>1, <2>2 DEF Compensate, GivenBack, Returns, Held, Returned, Releases
<1>3. ASSUME CancelRelease(u)
      PROVE  Returns("release", u) \/ (UNCHANGED counts /\ <<"release", u>> \in marks)
  <2>1. Taken(u) /\ row[u].content = "sanitized"
    BY <1>3 DEF CancelRelease, FirstReturn
  <2>2. CASE Returned(u)
    BY <1>3, <2>2 DEF CancelRelease, GivenBack, FirstReturn
  <2>3. CASE ~Returned(u)
    <3>1. u \in Held /\ refs["sanitized"] # 0
      BY <2>1, <2>3, HolderIsCounted DEF TypeInv, Held
    <3>. QED BY <1>3, <2>1, <2>3, <3>1
         DEF CancelRelease, GivenBack, Returns, Held, Returned, Releases
  <2>. QED BY <2>2, <2>3
<1>4. ASSUME ReapRelease(u) PROVE Returns("reap", u)
  <2>1. u \in Held /\ row[u].content = "sanitized"
    BY <1>4 DEF ReapRelease, FirstReturn, Held
  <2>2. refs["sanitized"] # 0
    BY <2>1, HolderIsCounted DEF TypeInv
  <2>. QED BY <1>4, <2>1, <2>2 DEF ReapRelease, GivenBack, Returns, Held, Returned, Releases
<1>5. Count(u) \/ Compensate(u) \/ CancelRelease(u) \/ ReapRelease(u) \/ UNCHANGED counts
  BY DEF Step, Worker, Start, Check, Abandon, Claim, AnnounceStart, Download, Sanitize,
              Bazaar, TakeGuard, Write, Account, Publish, Lock, Emit, Dispatch, Finish, Fail, End,
              CancelBegin, Canceller, CancelCommit, CancelMark, CancelForget, CancelCleanup,
              CancelQuota, PostScan, Deliver, PostStart, PostDownload, PostLock, PostComplete,
              PostEmit, PostSweep, PostSettle, Reap, Failure, Raise, CancelRaise, PostRaise,
              Interrupt
<1>. QED BY <1>1, <1>2, <1>3, <1>4, <1>5

LEMMA HeldSteps ==
    ASSUME TypeInv, CountsAreHeld, NEW u \in Uploads, FirstJob(u), FirstReturn(u), Step(u)
    PROVE  CountsAreHeld'
<1>. refs \in [Contents -> Nat]
  BY DEF TypeInv, TypeOK
<1>1. CASE UNCHANGED counts
  BY <1>1 DEF counts, CountsAreHeld, Held, Taken, Returned
<1>2. CASE Takes(u)
  <2>1. ~Returned(u)
    BY <1>2 DEF FirstReturn, Takes
  <2>2. Held' = Held \cup {u} /\ u \notin Held
    BY <1>2, <2>1 DEF Takes, Held, Taken, Returned, Releases
  <2>3. Cardinality(Held') = Cardinality(Held) + 1
    BY <2>2, HeldIsFinite, FS_AddElement
  <2>. QED BY <1>2, <2>3 DEF Takes, CountsAreHeld, Contents
<1>3. ASSUME NEW op \in Releases, Returns(op, u) PROVE CountsAreHeld'
  <2>1. Held' = Held \ {u} /\ u \in Held
    BY <1>3 DEF Returns, Held, Taken, Returned, Releases
  <2>2. Cardinality(Held') = Cardinality(Held) - 1
    BY <2>1, HeldIsFinite, FS_RemoveElement
  <2>. QED BY <1>3, <2>2, HeldIsFinite DEF Returns, CountsAreHeld, Contents
<1>. QED BY <1>1, <1>2, <1>3, FirstCounts DEF Releases

\* How a step of a first run moves the job.
Advance(u) ==
    /\ UNCHANGED <<counts, loc>> /\ FieldsKept(u)
    /\ \/ pc'[u] = pc[u]
       \/ /\ pc[u] \in Early /\ pc'[u] \in Early \ {"queued"}
          /\ pc'[u] \in Loaded => pc[u] \in Loaded
       \/ pc[u] \in Counting /\ pc'[u] \in Counting

Leave(u) == UNCHANGED loc /\ pc'[u] \notin Early \cup Counting

LEMMA AdvanceKeeps ==
    ASSUME NEW u \in Uploads, FirstJob(u), Advance(u)
    PROVE  FirstJob(u)'
BY DEF Advance, FirstJob, FieldsKept, counts, Taken, Returned, Early, Counting, Loaded

LEMMA LeaveKeeps ==
    ASSUME NEW u \in Uploads, FirstJob(u), Leave(u)
    PROVE  FirstJob(u)'
BY DEF Leave, FirstJob, Early, Counting, Loaded

LEMMA WorkerMoves ==
    ASSUME TypeInv, NEW u \in Uploads, FirstJob(u), Worker(u)
    PROVE  \/ Advance(u) \/ Leave(u)
           \/ Start(u) \/ Download(u) \/ Sanitize(u) \/ Count(u)
<1>1. pc \in [Uploads -> Places]
  BY DEF TypeInv, TypeOK
<1>. USE DEF database, store, counts, budget, status, locks, worker, Go
<1>2. CASE Check(u)
  <2>1. FieldsKept(u) /\ UNCHANGED <<counts, loc>>
    BY <1>2, UpdatesKeepFields DEF Check, TypeInv
  <2>2. loc[u].stage # 5
    BY DEF FirstJob
  <2>3. pc'[u] \in {"abandon", Checks[pc[u]]} /\ pc[u] \in DOMAIN Checks
    BY <1>1, <1>2, <2>2 DEF Check
  <2>. QED BY <2>1, <2>3 DEF Checks, Advance, Leave, Early, Counting, Loaded
<1>3. CASE Claim(u) \/ AnnounceStart(u) \/ Bazaar(u) \/ TakeGuard(u) \/ Write(u) \/ Account(u)
  <2>1. FieldsKept(u) /\ UNCHANGED <<counts, loc>>
    BY <1>3, UpdatesKeepFields
    DEF Claim, AnnounceStart, Bazaar, TakeGuard, Write, Account, TypeInv
  <2>. QED BY <1>1, <1>3, <2>1
       DEF Claim, AnnounceStart, Bazaar, TakeGuard, Write, Account, Advance, Leave, Early,
           Counting, Loaded
<1>4. CASE Publish(u)
  <2>1. CASE row[u].status = "cancelled"
    <3>1. FieldsKept(u) /\ UNCHANGED <<counts, loc>>
      BY <1>4, <2>1, UpdatesKeepFields DEF Publish, Overwritten, TypeInv
    <3>. QED BY <1>1, <1>4, <2>1, <3>1 DEF Publish, Advance, Counting
  <2>2. CASE row[u].status # "cancelled"
    BY <1>1, <1>4, <2>2 DEF Publish, Leave, Early, Counting
  <2>. QED BY <2>1, <2>2
<1>5. CASE Abandon(u) \/ Compensate(u) \/ Lock(u) \/ Emit(u) \/ Dispatch(u) \/ Finish(u) \/ Fail(u)
           \/ End(u)
  BY <1>1, <1>5 DEF Abandon, Compensate, Lock, Emit, Dispatch, Finish, Fail, End, Leave, Early,
                    Counting
<1>. QED BY <1>2, <1>3, <1>4, <1>5 DEF Worker

LEMMA OtherMoves ==
    ASSUME TypeInv, NEW u \in Uploads, FirstJob(u), FirstReturn(u), Step(u),
           ~Worker(u), ~Interrupt(u)
    PROVE  Advance(u) \/ Leave(u)
<1>1. pc \in [Uploads -> Places]
  BY DEF TypeInv, TypeOK
<1>. USE DEF database, store, counts, budget, status, locks, worker
<1>2. CASE CancelRelease(u) \/ CancelForget(u) \/ Reap(u) \/ ReapRelease(u)
  <2>1. UNCHANGED <<pc, loc>>
    BY <1>2 DEF CancelRelease, CancelForget, Reap, ReapRelease
  <2>2. row[u].owns \/ u \in releases
    BY <1>2 DEF CancelRelease, CancelForget, Reap, ReapRelease, FirstReturn
  <2>3. pc[u] \notin Early \cup Counting
    BY <2>2 DEF FirstJob, FirstReturn, Early, Counting
  <2>. QED BY <2>1, <2>3 DEF Leave
<1>3. CASE Raise(u)
  BY <1>1, <1>3 DEF Raise, Go, Leave, Early, Counting
<1>4. CASE ~(CancelRelease(u) \/ CancelForget(u) \/ Reap(u) \/ ReapRelease(u) \/ Raise(u))
  <2>1. ~(Publish(u) \/ CancelForget(u) \/ Reap(u))
    BY <1>4 DEF Worker
  <2>2. UNCHANGED <<pc, loc, counts>>
    BY <1>4 DEF Step, CancelBegin, Canceller, CancelCommit, CancelMark, CancelCleanup,
                CancelQuota, PostScan, Deliver, PostStart, PostDownload, PostLock, PostComplete,
                PostEmit, PostSweep, PostSettle, Failure, CancelRaise, PostRaise
  <2>. QED BY <2>1, <2>2, FieldSteps DEF Advance
<1>. QED BY <1>2, <1>3, <1>4

LEMMA JobSteps ==
    ASSUME TypeInv, NEW u \in Uploads, FirstJob(u), FirstReturn(u), Step(u), ~Interrupt(u)
    PROVE  FirstJob(u)'
<1>1. /\ pc \in [Uploads -> Places] /\ row \in [Uploads -> Row]
      /\ loc \in [Uploads -> [stage : {0, 2, 5}, bytes : Contents \cup {None}]]
  BY DEF TypeInv, TypeOK
<1>. USE DEF database, store, counts, budget, status, locks, worker, Go
<1>2. CASE Start(u)
  <2>1. /\ loc'[u] = [stage |-> row[u].stage, bytes |-> None] /\ pc'[u] = "start"
        /\ UNCHANGED <<row, counts>> /\ pc[u] = "queued"
    BY <1>1, <1>2 DEF Start
  <2>. QED BY <2>1 DEF FirstJob, Taken, Returned, Early, Counting, Loaded
<1>3. CASE Download(u)
  <2>1. FieldsKept(u)
    BY <1>3, UpdatesKeepFields DEF Download, TypeInv
  <2>2. /\ pc[u] = "download" /\ pc'[u] \in {"sanitize", "fail"} /\ loc'[u].stage = 0
        /\ UNCHANGED counts
    BY <1>1, <1>3 DEF Download, FirstJob
  <2>. QED BY <2>1, <2>2 DEF FirstJob, FieldsKept, Taken, Returned, Early, Counting, Loaded
<1>4. CASE Sanitize(u)
  <2>1. FieldsKept(u)
    BY <1>4, CheckpointsKeepFields
  <2>2. /\ pc[u] = "sanitize" /\ loc'[u].stage = 0 /\ UNCHANGED counts
        /\ pc'[u] = "fail" \/ (pc'[u] = "scanned" /\ loc'[u].bytes = "sanitized")
    BY <1>1, <1>4 DEF Sanitize, FirstJob
  <2>. QED BY <2>1, <2>2 DEF FirstJob, FieldsKept, Taken, Returned, Early, Counting, Loaded
<1>5. CASE Count(u)
  <2>1. ~Taken(u) /\ ~Returned(u) /\ ~row[u].owns /\ loc[u].bytes = "sanitized"
    BY <1>5 DEF Count, FirstJob, FirstReturn, Early, Loaded
  <2>2. /\ marks' = marks \cup {<<"finalize", u>>} /\ UNCHANGED <<row, loc>>
        /\ pc[u] = "count" /\ pc'[u] = "account"
    BY <1>1, <1>5, <2>1 DEF Count, CountIsLost, Counted, Taken
  <2>3. Taken(u)' /\ ~Returned(u)'
    BY <2>1, <2>2 DEF Taken, Returned, Releases
  <2>. QED BY <2>1, <2>2, <2>3 DEF FirstJob, Early, Counting, Loaded
<1>. QED BY <1>2, <1>3, <1>4, <1>5, WorkerMoves, OtherMoves, AdvanceKeeps, LeaveKeeps

\* What a step does to who may give the reference back.
LEMMA CountKeepsReturn ==
    ASSUME TypeInv, CountsAreHeld, NEW u \in Uploads, FirstJob(u), FirstReturn(u), Count(u)
    PROVE  FirstReturn(u)'
<1>1. ~Taken(u) /\ ~row[u].owns
  BY DEF Count, FirstJob, Early
<1>2. ~Returned(u) /\ u \notin releases
  BY <1>1 DEF FirstReturn
<1>3. UNCHANGED <<row, releases, cpc>> /\ Takes(u)
  BY FirstCounts DEF Step, Worker, Count, database
<1>4. Taken(u)' /\ ~Returned(u)'
  BY <1>2, <1>3 DEF Takes, Taken, Returned, Releases
<1>. QED BY <1>1, <1>2, <1>3, <1>4 DEF FirstReturn

LEMMA CompensateKeepsReturn ==
    ASSUME NEW u \in Uploads, FirstJob(u), FirstReturn(u), Compensate(u)
    PROVE  FirstReturn(u)'
<1>1. ~row[u].owns /\ u \notin releases /\ Taken(u)
  BY DEF Compensate, FirstJob, FirstReturn, Counting
<1>2. UNCHANGED <<row, releases, cpc>> /\ marks \subseteq marks'
  BY DEF Compensate, GivenBack, database, counts
<1>. QED BY <1>1, <1>2 DEF FirstReturn, Taken

LEMMA CancelReleaseKeepsReturn ==
    ASSUME TypeInv, CancelInv, CountsAreHeld, NEW u \in Uploads, FirstJob(u), FirstReturn(u),
           CancelRelease(u)
    PROVE  FirstReturn(u)'
<1>1. row[u].owns /\ u \notin releases /\ Taken(u) /\ row[u].status = "cancelled"
  BY DEF CancelRelease, FirstReturn, CancelInv, CancellerHasDone, Marking
<1>2. UNCHANGED <<row, releases>> /\ cpc'[u] = "forget"
  BY DEF CancelRelease, Proceed, database, TypeInv, TypeOK
<1>3. marks \subseteq marks' /\ <<"release", u>> \in marks'
  BY FirstCounts DEF Step, Canceller, Returns, counts
<1>. QED BY <1>1, <1>2, <1>3 DEF FirstReturn, Taken

LEMMA ReapReleaseKeepsReturn ==
    ASSUME TypeInv, CancelInv, CountsAreHeld, NEW u \in Uploads, FirstJob(u), FirstReturn(u),
           ReapRelease(u)
    PROVE  FirstReturn(u)'
<1>1. ~row[u].owns /\ Taken(u) /\ UNCHANGED <<row, cpc>> /\ u \notin releases'
  BY DEF ReapRelease, FirstReturn
<1>2. marks \subseteq marks'
  BY DEF ReapRelease, GivenBack, counts
<1>. QED BY <1>1, <1>2 DEF FirstReturn, Taken

LEMMA OwningKeepsReturn ==
    ASSUME TypeInv, CancelInv, NEW u \in Uploads, FirstJob(u), FirstReturn(u),
           Publish(u) \/ CancelForget(u) \/ Reap(u)
    PROVE  FirstReturn(u)'
<1>1. /\ pc \in [Uploads -> Places] /\ row \in [Uploads -> Row] /\ row[u] \in Row
      /\ cpc \in [Uploads -> Cancelling \cup {"idle", "done"}]
  BY DEF TypeInv, TypeOK
<1>. USE DEF database, store, counts, worker
<1>2. CASE Publish(u)
  <2>1. Taken(u) /\ ~Returned(u) /\ loc[u].bytes = "sanitized" /\ u \notin releases
    BY <1>2 DEF Publish, FirstJob, FirstReturn, Counting, Loaded
  <2>2. UNCHANGED <<marks, releases, cpc>>
    BY <1>2 DEF Publish
  <2>3. row'[u] = row[u] \/ (row'[u].owns /\ row'[u].content = "sanitized")
    BY <1>1, <1>2, <2>1 DEF Publish, Overwritten, Row
  <2>. QED BY <2>1, <2>2, <2>3 DEF FirstReturn, Taken, Returned
<1>3. CASE CancelForget(u)
  <2>1. row[u].owns /\ u \notin releases /\ Taken(u)
    BY <1>3 DEF CancelForget, FirstReturn
  <2>2. UNCHANGED <<marks, releases>> /\ cpc'[u] = "cleanup" /\ ~row'[u].owns
    BY <1>1, <1>3 DEF CancelForget, Proceed, Row
  <2>. QED BY <2>1, <2>2 DEF FirstReturn, Taken, Returned
<1>4. CASE Reap(u)
  <2>1. Taken(u) /\ ~Returned(u) /\ row[u].content = "sanitized"
    BY <1>4 DEF Reap, FirstReturn
  <2>2. /\ UNCHANGED <<marks, cpc, pc>> /\ cpc[u] \notin Cancelling /\ pc[u] \in {"done", "lost"}
        /\ ~row'[u].owns /\ row'[u].content = row[u].content
    BY <1>1, <1>4 DEF Reap, AtRest, Reaped, Row
  <2>. QED BY <2>1, <2>2 DEF FirstReturn, Taken, Returned, Cancelling
<1>. QED BY <1>2, <1>3, <1>4

\* A step that neither counts nor changes an ownership.
LEMMA StillKeepsReturn ==
    ASSUME TypeInv, NEW u \in Uploads, FirstJob(u), FirstReturn(u),
           FieldsKept(u), RowKept(u), UNCHANGED <<counts, releases>>,
           pc'[u] = pc[u] \/ pc[u] \notin {"done", "lost"},
           cpc'[u] = "release" => cpc[u] = "release" \/ row[u].owns, 
           cpc'[u] = "forget" => cpc[u] = "forget"
    PROVE  FirstReturn(u)'
BY DEF FieldsKept, RowKept, counts, FirstReturn, Taken, Returned

LEMMA ReturnSteps ==
    ASSUME TypeInv, CancelInv, CountsAreHeld, NEW u \in Uploads, FirstJob(u), FirstReturn(u),
           Step(u)
    PROVE  FirstReturn(u)'
<1>1. /\ pc \in [Uploads -> Places]
      /\ cpc \in [Uploads -> Cancelling \cup {"idle", "done"}]
  BY DEF TypeInv, TypeOK
<1>. USE DEF database, store, counts, worker
<1>2. CASE ~(\/ Count(u) \/ Compensate(u) \/ CancelRelease(u) \/ ReapRelease(u)
             \/ Publish(u) \/ CancelForget(u) \/ Reap(u))
  <2>1. UNCHANGED counts /\ FieldsKept(u) /\ RowKept(u)
    BY <1>2, FirstCounts, FieldSteps, RowSteps DEF TypeInv
  <2>2. UNCHANGED releases /\ (pc'[u] = pc[u] \/ pc[u] \notin {"done", "lost"})
    BY <1>1, <1>2
    DEF Step, Worker, Start, Check, Checks, Abandon, Claim, AnnounceStart, Download, Sanitize,
        Bazaar, TakeGuard, Write, Account, Lock, Emit, Dispatch, Finish, Fail, End, CancelBegin,
        Canceller, CancelCommit, CancelMark, CancelCleanup, CancelQuota, PostScan, Deliver,
        PostStart, PostDownload, PostLock, PostComplete, PostEmit, PostSweep, PostSettle,
        Failure, Raise, CancelRaise, PostRaise, Interrupt, Running
  <2>3. /\ cpc'[u] = "release" => cpc[u] = "release" \/ row[u].owns
        /\ cpc'[u] = "forget" => cpc[u] = "forget"
    BY <1>1, <1>2
    DEF Step, Worker, Start, Check, Abandon, Claim, AnnounceStart, Download, Sanitize, Bazaar,
        TakeGuard, Write, Account, Lock, Emit, Dispatch, Finish, Fail, End, CancelBegin,
        Canceller, CancelCommit, CancelMark, CancelCleanup, CancelQuota, PostScan, Deliver,
        PostStart, PostDownload, PostLock, PostComplete, PostEmit, PostSweep, PostSettle,
        Failure, Raise, CancelRaise, PostRaise, Interrupt, Proceed
  <2>. QED BY <2>1, <2>2, <2>3, StillKeepsReturn
<1>. QED BY <1>2, CountKeepsReturn, CompensateKeepsReturn, CancelReleaseKeepsReturn,
            ReapReleaseKeepsReturn, OwningKeepsReturn

FirstInv ==
    RanOnce => CountsAreHeld /\ \A u \in Uploads : FirstJob(u) /\ FirstReturn(u)

FirstRunInv == TriesArePositive /\ FirstInv

LEMMA FirstInit == Init => FirstRunInv
<1>. SUFFICES ASSUME Init PROVE FirstRunInv
  OBVIOUS
<1>1. marks = {"finalize"} \X Earlier /\ Earlier \subseteq Uploads
  BY UploadsAssumption DEF Init
<1>2. Held = Earlier
  BY <1>1 DEF Held, Taken, Returned, Releases
<1>3. CountsAreHeld
  BY <1>2 DEF Init, CountsAreHeld, Contents
<1>4. ASSUME NEW u \in Uploads PROVE FirstJob(u) /\ FirstReturn(u)
  <2>1. (Taken(u) <=> u \in Earlier) /\ ~Returned(u)
    BY <1>1 DEF Taken, Returned, Releases
  <2>. QED BY <2>1 DEF Init, FirstJob, FirstReturn, Loaded, Early, Counting
<1>5. TriesArePositive
  BY DEF Init, TriesArePositive
<1>. QED BY <1>3, <1>4, <1>5 DEF FirstRunInv, FirstInv

LEMMA FirstNext == TypeInv /\ CancelInv /\ FirstRunInv /\ [Next]_vars => FirstRunInv'
<1>. SUFFICES ASSUME TypeInv, CancelInv, FirstRunInv, [Next]_vars PROVE FirstRunInv'
  OBVIOUS
<1>1. CASE UNCHANGED vars
  BY <1>1 DEF vars, database, counts, worker, FirstRunInv, FirstInv, TriesArePositive, RanOnce,
              CountsAreHeld, Held, FirstJob, FirstReturn, Taken, Returned
<1>2. ASSUME NEW u \in Uploads, Step(u) PROVE FirstRunInv'
  <2>1. TriesArePositive' /\ (RanOnce' => RanOnce /\ ~Interrupt(u))
    BY <1>2, TriesNext DEF FirstRunInv
  <2>. SUFFICES ASSUME RanOnce, ~Interrupt(u)
                PROVE  CountsAreHeld' /\ \A v \in Uploads : FirstJob(v)' /\ FirstReturn(v)'
    BY <2>1 DEF FirstRunInv, FirstInv
  <2>2. CountsAreHeld /\ \A v \in Uploads : FirstJob(v) /\ FirstReturn(v)
    BY DEF FirstRunInv, FirstInv
  <2>3. CountsAreHeld'
    BY <1>2, <2>2, HeldSteps
  <2>4. FirstJob(u)' /\ FirstReturn(u)'
    BY <1>2, <2>2, JobSteps, ReturnSteps
  <2>5. ASSUME NEW v \in Uploads \ {u} PROVE FirstJob(v)' /\ FirstReturn(v)'
    <3>1. /\ row'[v] = row[v] /\ pc'[v] = pc[v] /\ cpc'[v] = cpc[v] /\ loc'[v] = loc[v]
          /\ v \in releases' <=> v \in releases
      BY <1>2, OthersUntouched, OthersKeepTheirs
    <3>2. /\ Taken(v)' = Taken(v) /\ Returned(v)' = Returned(v)
          /\ <<"release", v>> \in marks' <=> <<"release", v>> \in marks
      BY <1>2, OthersKeepTheirs DEF Taken, Returned, Releases
    <3>. QED BY <2>2, <3>1, <3>2 DEF FirstJob, FirstReturn
  <2>. QED BY <2>3, <2>4, <2>5
<1>. QED BY <1>1, <1>2 DEF Next, Step

LEMMA HeldOwners ==
    ASSUME TypeInv, FirstRunInv, RanOnce
    PROVE  Owners("sanitized") \subseteq Held /\ Owners("raw") = {}
<1>1. ASSUME NEW u \in Uploads PROVE FirstReturn(u)
  BY DEF FirstRunInv, FirstInv
<1>. QED BY <1>1 DEF Owners, Held, FirstReturn

(* As long as no job has been run a second time, no release takes away the *)
(* reference of somebody else's clean upload: whatever the cancellations,  *)
(* the exceptions and the reaper's releases, the object of a clean upload  *)
(* is counted for every upload that refers to it.                          *)
THEOREM FirstRunsCountOwners == Spec => []OwnersAreCountedOnFirstRun
<1>1. TypeInv /\ FirstRunInv => OwnersAreCountedOnFirstRun
  <2>. SUFFICES ASSUME TypeInv, FirstRunInv, RanOnce
                PROVE  \A c \in Contents : refs[c] >= Cardinality(Owners(c))
    BY DEF OwnersAreCountedOnFirstRun, OwnersAreCounted
  <2>1. CountsAreHeld
    BY DEF FirstRunInv, FirstInv
  <2>2. Cardinality(Owners("raw")) = 0
    BY HeldOwners, FS_EmptySet
  <2>3. Cardinality(Owners("sanitized")) <= Cardinality(Held)
    BY HeldOwners, HeldIsFinite, FS_Subset
  <2>4. Cardinality(Owners("sanitized")) \in Nat
    BY HeldOwners, HeldIsFinite, FS_Subset, FS_CardinalityType
  <2>. QED BY <2>1, <2>2, <2>3, <2>4, HeldIsFinite DEF CountsAreHeld, Contents
<1>. QED BY <1>1, TypesHold, CancelInit, CancelNext, FirstInit, FirstNext, PTL DEF Spec

----------------------------------------------------------------------------
(* Without exceptions either, every reference that exists has somebody who *)
(* owns it or will give it back.                                           *)

Undisturbed(u) ==
    /\ pc[u] # "lost" /\ (pc[u] = "fail" => ~row[u].owns)
    /\ pc[u] = "abandon" => row[u].status = "cancelled"
    /\ u \in Held => pc[u] \in Counting \/ row[u].owns \/ u \in releases
    /\ row[u].owns => row[u].status \in {"clean", "cancelled"}
    /\ row[u].status = "cancelled" => cpc[u] \in {"mark"} \cup Marking
    /\ u \in marker => row[u].status = "cancelled"

\* The places of the worker from where it will give the reservation back.
Awaiting == Early \cup {"account", "abandon", "fail"}

Budgeted(u) ==
    /\ u \in reserved => pc[u] \in Awaiting \/ row[u].status = "cancelled"
    /\ cpc[u] \in {"quota", "done"} => u \notin quarantine
    /\ cpc[u] = "done" => u \notin reserved /\ (u \in quota => pc[u] \in {"publish", "compensate"})

SmoothInv == RanOnce /\ faults = 0 => \A u \in Uploads : Undisturbed(u) /\ Budgeted(u)

LEMMA CalmSteps ==
    ASSUME TypeInv, NEW u \in Uploads, Step(u), faults' = 0
    PROVE  faults = 0 /\ ~Raise(u) /\ ~CancelRaise(u) /\ ~PostRaise(u)
<1>1. faults \in Nat
  BY DEF TypeInv, TypeOK
<1>2. ~Fault
  BY <1>1 DEF Fault
<1>3. faults' = faults
  BY <1>2 DEF Step, Worker, Start, Check, Abandon, Claim, AnnounceStart, Download, Sanitize,
              Checkpoint, Bazaar, TakeGuard, Write, Count, Account, Publish, Compensate, Lock,
              Emit, Dispatch, Finish, Fail, End, CancelBegin, Canceller, CancelCommit, CancelMark,
              CancelRelease, CancelForget, CancelCleanup, CancelQuota, PostScan, Deliver,
              PostStart, PostDownload, PostLock, PostComplete, PostEmit, PostSweep, PostSettle,
              Reap, ReapRelease, Failure, Raise, CancelRaise, PostRaise, Interrupt
<1>. QED BY <1>2, <1>3 DEF Raise, CancelRaise, PostRaise

\* A step that may move the job and set a status, and leaves the rest alone.
Quiet(u) ==
    /\ UNCHANGED <<counts, releases, cpc, marker>> /\ FieldsKept(u)
    /\ \/ row'[u].status = row[u].status
       \/ row[u].status # "cancelled" /\ row'[u].status # "cancelled" /\ ~row[u].owns
    /\ pc'[u] = "abandon" => pc[u] = "abandon" \/ row[u].status = "cancelled"
    /\ pc'[u] # "lost" /\ (pc'[u] = "fail" => pc[u] = "fail" \/ ~row[u].owns)
    /\ pc[u] \in Counting => pc'[u] \in Counting

LEMMA QuietKeeps ==
    ASSUME NEW u \in Uploads, Undisturbed(u), Quiet(u)
    PROVE  Undisturbed(u)'
BY DEF Undisturbed, Quiet, FieldsKept, counts, Held, Taken, Returned

LEMMA StatusKept ==
    ASSUME TypeOK, NEW u \in Uploads, NEW n,
           \/ row' = row
           \/ row' = [row EXCEPT ![u].stage = n]
           \/ row' = [row EXCEPT ![u].processing = n]
           \/ row' = WithProcessing(u, n)
    PROVE  row'[u].status = row[u].status
<1>1. row \in [Uploads -> Row]
  BY DEF TypeOK
<1>2. row[u] \in Row
  BY <1>1
<1>. DEFINE b == [row[u] EXCEPT !.processing = n]
             d == [row[u] EXCEPT !.stage = n]
<1>3. b.status = row[u].status /\ d.status = row[u].status
  BY <1>2 DEF Row
<1>4. row' = row \/ row' = [row EXCEPT ![u] = b] \/ row' = [row EXCEPT ![u] = d]
  BY DEF WithProcessing, Overwritten
<1>. HIDE DEF b, d
<1>. QED BY <1>1, <1>3, <1>4

LEMMA StatusSet ==
    ASSUME TypeOK, NEW u \in Uploads, NEW s, row' = WithStatus(u, s)
    PROVE  \/ row' = row
           \/ row[u].status # "cancelled" /\ row'[u].status = s
<1>1. row \in [Uploads -> Row]
  BY DEF TypeOK
<1>2. row[u] \in Row
  BY <1>1
<1>. DEFINE a == [row[u] EXCEPT !.status = s]
<1>3. a.status = s
  BY <1>2 DEF Row
<1>4. row' = row \/ (row' = [row EXCEPT ![u] = a] /\ row[u].status # "cancelled")
  BY DEF WithStatus, Overwritten
<1>. HIDE DEF a
<1>. QED BY <1>1, <1>3, <1>4

LEMMA QuietWork ==
    ASSUME TypeInv, NEW u \in Uploads, FirstJob(u), Undisturbed(u), Worker(u),
           ~(Count(u) \/ Publish(u) \/ Compensate(u))
    PROVE  Quiet(u)
<1>1. pc \in [Uploads -> Places]
  BY DEF TypeInv, TypeOK
<1>. USE DEF database, store, counts, budget, status, locks, worker
<1>2. UNCHANGED <<counts, releases, cpc, marker>>
  BY DEF Worker, Start, Check, Abandon, Claim, AnnounceStart, Download, Sanitize, Bazaar,
         TakeGuard, Write, Account, Lock, Emit, Dispatch, Finish, Fail, End
<1>3. FieldsKept(u)
  <2>1. CASE Sanitize(u) \/ Finish(u)
    BY <2>1, CheckpointsKeepFields
  <2>2. CASE ~(Sanitize(u) \/ Finish(u))
    BY <2>2, UpdatesKeepFields
    DEF TypeInv, Worker, Start, Check, Abandon, Claim, AnnounceStart, Download, Bazaar,
        TakeGuard, Write, Account, Lock, Emit, Dispatch, Fail, End
  <2>. QED BY <2>1, <2>2
<1>4. \/ row'[u].status = row[u].status
      \/ row[u].status # "cancelled" /\ row'[u].status # "cancelled" /\ ~row[u].owns
  <2>1. CASE Abandon(u) \/ Claim(u) \/ Download(u) \/ Fail(u)
    <3>1. row[u].status = "cancelled" \/ ~row[u].owns
      BY <2>1 DEF Abandon, Claim, Download, Fail, Undisturbed, FirstJob, Early
    <3>2. \/ row' = row \/ row' = WithStatus(u, "failed") \/ row' = WithStatus(u, "processing")
      BY <2>1 DEF Abandon, Claim, Download, Fail
    <3>3. row' = row \/ (row[u].status # "cancelled" /\ row'[u].status \in {"failed", "processing"})
      BY <3>2, StatusSet DEF TypeInv
    <3>. QED BY <3>1, <3>3
  <2>2. CASE Sanitize(u) \/ Finish(u)
    BY <2>2, StatusKept DEF TypeInv, Sanitize, Finish, Checkpoint
  <2>3. CASE row' = row
    BY <2>3
  <2>. QED BY <2>1, <2>2, <2>3
       DEF Worker, Start, Check, AnnounceStart, Bazaar, TakeGuard, Write, Account, Lock, Emit,
           Dispatch, End
<1>5. pc'[u] = "abandon" => pc[u] = "abandon" \/ row[u].status = "cancelled"
  BY <1>1 DEF Worker, Go, Start, Check, Cancelled, Checks, Undisturbed, Abandon, Claim,
              AnnounceStart, Download, Sanitize, Bazaar, TakeGuard, Write, Account, Lock, Emit,
              Dispatch, Finish, Fail, End
<1>6. pc'[u] # "lost" /\ (pc'[u] = "fail" => pc[u] = "fail" \/ ~row[u].owns)
  BY <1>1 DEF Worker, Go, Start, Check, Checks, Abandon, Claim, AnnounceStart, Download, Sanitize,
              Bazaar, TakeGuard, Write, Account, Lock, Emit, Dispatch, Finish, Fail, End, FirstJob,
              Early
<1>7. pc[u] \in Counting => pc'[u] \in Counting
  BY <1>1 DEF Worker, Go, Start, Check, Checks, Abandon, Claim, AnnounceStart, Download, Sanitize,
              Bazaar, TakeGuard, Write, Account, Lock, Emit, Dispatch, Finish, Fail, End, Counting
<1>. QED BY <1>2, <1>3, <1>4, <1>5, <1>6, <1>7 DEF Quiet

LEMMA WorkUndisturbed ==
    ASSUME TypeInv, CountsAreHeld, NEW u \in Uploads, FirstJob(u), FirstReturn(u),
           Undisturbed(u), Worker(u)
    PROVE  Undisturbed(u)'
<1>1. pc \in [Uploads -> Places] /\ row \in [Uploads -> Row] /\ row[u] \in Row
  BY DEF TypeInv, TypeOK
<1>. USE DEF database, store, counts, budget, status, locks, worker, Go
<1>2. CASE Count(u)
  <2>1. ~row[u].owns /\ Takes(u)
    BY <1>2, FirstCounts DEF Step, Count, FirstJob, Early
  <2>2. UNCHANGED <<row, releases, cpc, marker>>
    BY <1>2 DEF Count
  <2>3. pc'[u] = "account"
    BY <1>1, <1>2, <2>1 DEF Count, CountIsLost, Takes, Taken
  <2>. QED BY <2>1, <2>2, <2>3 DEF Undisturbed, Counting
<1>3. CASE Publish(u)
  <2>1. CASE row[u].status = "cancelled"
    <3>1. FieldsKept(u) /\ row' = row
      BY <1>3, <2>1, UpdatesKeepFields DEF Publish, Overwritten, TypeInv
    <3>2. UNCHANGED <<counts, releases, cpc, marker>> /\ pc'[u] = "compensate"
      BY <1>1, <1>3, <2>1 DEF Publish
    <3>. QED BY <3>1, <3>2, QuietKeeps DEF Quiet, Counting
  <2>2. CASE row[u].status # "cancelled"
    <3>1. UNCHANGED <<counts, releases, cpc, marker>> /\ pc'[u] = "lock"
      BY <1>1, <1>3, <2>2 DEF Publish
    <3>2. row'[u].owns /\ row'[u].status = "clean"
      BY <1>1, <1>3, <2>2 DEF Publish, Overwritten, Row
    <3>. QED BY <2>2, <3>1, <3>2 DEF Undisturbed
  <2>. QED BY <2>1, <2>2
<1>4. CASE Compensate(u)
  <2>1. ~row[u].owns /\ Returns("compensate", u)
    BY <1>4, FirstCounts DEF Step, Compensate, FirstJob, Counting
  <2>2. UNCHANGED <<row, releases, cpc, marker>> /\ pc'[u] = "ending"
    BY <1>1, <1>4 DEF Compensate
  <2>3. u \notin Held'
    BY <2>1 DEF Returns, Held, Returned, Releases
  <2>. QED BY <2>1, <2>2, <2>3 DEF Undisturbed
<1>. QED BY <1>2, <1>3, <1>4, QuietWork, QuietKeeps

LEMMA CancelUndisturbed ==
    ASSUME TypeInv, CancelInv, CountsAreHeld, NEW u \in Uploads, FirstJob(u), FirstReturn(u),
           Undisturbed(u), CancelBegin(u) \/ Canceller(u)
    PROVE  Undisturbed(u)'
<1>1. /\ cpc \in [Uploads -> Cancelling \cup {"idle", "done"}]
      /\ row \in [Uploads -> Row] /\ row[u] \in Row
  BY DEF TypeInv, TypeOK
<1>2. CancellerHasDone(u)
  BY DEF CancelInv
<1>. USE DEF database, store, counts, budget, status, locks, worker, Proceed, Cancelling, Marking
<1>3. CASE CancelBegin(u)
  <2>1. UNCHANGED <<row, pc, counts, releases, marker>> /\ cpc[u] = "idle"
    BY <1>3 DEF CancelBegin
  <2>. QED BY <2>1 DEF Undisturbed, Held, Taken, Returned
<1>4. CASE CancelCommit(u)
  <2>1. UNCHANGED <<pc, counts, releases, marker>> /\ cpc'[u] = "mark"
    BY <1>1, <1>4 DEF CancelCommit
  <2>2. row'[u].owns = row[u].owns /\ row'[u].status = "cancelled"
    BY <1>1, <1>4 DEF CancelCommit, Row
  <2>. QED BY <2>1, <2>2 DEF Undisturbed, Held, Taken, Returned
<1>5. CASE CancelMark(u)
  <2>1. UNCHANGED <<row, pc, counts, releases>> /\ row[u].status = "cancelled"
    BY <1>2, <1>5 DEF CancelMark, CancellerHasDone
  <2>2. cpc'[u] \in {"release", "cleanup"}
    BY <1>1, <1>5 DEF CancelMark
  <2>. QED BY <2>1, <2>2 DEF Undisturbed, Held, Taken, Returned
<1>6. CASE CancelRelease(u)
  <2>1. UNCHANGED <<row, pc, releases, marker>> /\ cpc'[u] = "forget" /\ row[u].owns
    BY <1>1, <1>6 DEF CancelRelease, FirstReturn
  <2>. QED BY <2>1 DEF Undisturbed
<1>7. CASE CancelForget(u)
  <2>1. /\ UNCHANGED <<pc, counts, releases, marker>> /\ cpc'[u] = "cleanup"
        /\ <<"release", u>> \in marks
    BY <1>1, <1>7 DEF CancelForget, FirstReturn
  <2>2. ~row'[u].owns /\ row'[u].status = row[u].status
    BY <1>1, <1>7 DEF CancelForget, Row
  <2>3. u \notin Held'
    BY <2>1 DEF Held, Returned, Releases
  <2>. QED BY <2>1, <2>2, <2>3 DEF Undisturbed
<1>8. CASE CancelCleanup(u) \/ CancelQuota(u)
  <2>1. UNCHANGED <<row, pc, counts, releases, marker>> /\ cpc'[u] \in {"quota", "done"}
    BY <1>1, <1>8 DEF CancelCleanup, CancelQuota
  <2>. QED BY <2>1 DEF Undisturbed, Held, Taken, Returned
<1>. QED BY <1>3, <1>4, <1>5, <1>6, <1>7, <1>8 DEF Canceller

LEMMA PostUndisturbed ==
    ASSUME TypeInv, NEW u \in Uploads, Undisturbed(u), PostScan(u)
    PROVE  Undisturbed(u)'
<1>. USE DEF database, store, counts, budget, status, locks, worker
<1>1. UNCHANGED <<counts, releases, cpc, marker, pc>>
  BY DEF PostScan, Deliver, PostStart, PostDownload, PostLock, PostComplete, PostEmit, PostSweep,
         PostSettle
<1>2. \/ row' = row \/ row' = [row EXCEPT ![u].processing = "complete"]
      \/ row' = WithProcessing(u, "running") \/ row' = WithProcessing(u, "degraded")
  BY DEF PostScan, Deliver, PostStart, PostDownload, PostLock, PostComplete, PostEmit, PostSweep,
         PostSettle
<1>3. FieldsKept(u)
  BY <1>2, UpdatesKeepFields DEF TypeInv
<1>4. row'[u].status = row[u].status
  BY <1>2, StatusKept DEF TypeInv
<1>. QED BY <1>1, <1>3, <1>4, QuietKeeps DEF Quiet, Undisturbed

LEMMA ReapUndisturbed ==
    ASSUME TypeInv, CountsAreHeld, NEW u \in Uploads, FirstJob(u), FirstReturn(u), Undisturbed(u),
           Reap(u) \/ ReapRelease(u)
    PROVE  Undisturbed(u)'
<1>1. row \in [Uploads -> Row] /\ row[u] \in Row
  BY DEF TypeInv, TypeOK
<1>2. CASE Reap(u)
  <2>1. UNCHANGED <<pc, cpc, marker, counts>> /\ u \in releases'
    BY <1>2 DEF Reap, status, worker
  <2>2. ~row'[u].owns /\ row'[u].status = row[u].status
    BY <1>1, <1>2 DEF Reap, Reaped, Row
  <2>. QED BY <2>1, <2>2 DEF Undisturbed
<1>3. CASE ReapRelease(u)
  <2>1. UNCHANGED <<row, pc, cpc, marker>>
    BY <1>3 DEF ReapRelease, status, worker
  <2>2. Returns("reap", u)
    BY <1>3, FirstCounts DEF Step
  <2>3. u \notin Held'
    BY <2>2 DEF Returns, Held, Returned, Releases
  <2>. QED BY <2>1, <2>3 DEF Undisturbed
<1>. QED BY <1>2, <1>3

\* Reservation, quota and bytes.
LEMMA BudgetWork ==
    ASSUME TypeInv, CancelInv, NEW u \in Uploads, FirstJob(u), Budgeted(u), Worker(u)
    PROVE  Budgeted(u)'
<1>1. pc \in [Uploads -> Places]
  BY DEF TypeInv, TypeOK
<1>. USE DEF database, store, counts, budget, status, locks, worker, Go
<1>2. UNCHANGED cpc /\ (u \in quarantine' => u \in quarantine)
  BY DEF Worker, Start, Check, Abandon, Claim, AnnounceStart, Download, Sanitize, Bazaar,
         TakeGuard, Write, Count, Account, Publish, Compensate, Lock, Emit, Dispatch, Finish, Fail,
         End
<1>3. u \in reserved' => u \in reserved
  BY DEF Worker, Start, Check, Abandon, Claim, AnnounceStart, Download, Sanitize, Bazaar,
         TakeGuard, Write, Count, Account, Publish, Compensate, Lock, Emit, Dispatch, Finish, Fail,
         End
<1>4. row[u].status = "cancelled" => row'[u].status = "cancelled"
  BY RowSteps DEF Step, TypeInv, RowKept
<1>5. CASE Account(u)
  <2>1. pc'[u] = "publish" /\ u \notin reserved'
    BY <1>1, <1>5 DEF Account
  <2>. QED BY <1>2, <1>3, <2>1 DEF Budgeted
<1>6. CASE Publish(u)
  <2>1. /\ pc[u] = "publish" /\ UNCHANGED <<quota, reserved>>
        /\ row[u].status = "cancelled" => pc'[u] = "compensate"
    BY <1>1, <1>6 DEF Publish
  <2>2. cpc[u] = "done" => row[u].status = "cancelled"
    BY DEF CancelInv, CancellerHasDone, Marking
  <2>. QED BY <1>2, <1>3, <1>4, <2>1, <2>2 DEF Budgeted, Awaiting, Early
<1>7. CASE Compensate(u)
  <2>1. pc[u] = "compensate" /\ u \notin quota'
    BY <1>7 DEF Compensate
  <2>. QED BY <1>2, <1>3, <1>4, <2>1 DEF Budgeted, Awaiting, Early
<1>8. CASE ~(Account(u) \/ Publish(u) \/ Compensate(u))
  <2>1. UNCHANGED quota /\ pc[u] \notin {"publish", "compensate"}
    BY <1>8 DEF Worker, Start, Check, Checks, Abandon, Claim, AnnounceStart, Download,
                Sanitize, Bazaar, TakeGuard, Write, Count, Lock, Emit, Dispatch, Finish, Fail, End
  <2>2. u \in reserved' /\ row[u].status # "cancelled" => pc'[u] \in Awaiting
    <3>. SUFFICES ASSUME u \in reserved', row[u].status # "cancelled" PROVE pc'[u] \in Awaiting
      OBVIOUS
    <3>1. pc[u] \in Awaiting
      BY <1>3 DEF Budgeted
    <3>2. CASE Abandon(u) \/ Fail(u)
      BY <3>2 DEF Abandon, Fail
    <3>3. CASE Check(u)
      BY <1>1, <3>1, <3>3 DEF Check, Checks, FirstJob, Awaiting, Early
    <3>4. CASE ~(Abandon(u) \/ Fail(u) \/ Check(u))
      BY <1>1, <1>8, <3>1, <3>4
      DEF Worker, Start, Claim, AnnounceStart, Download, Sanitize, Bazaar, TakeGuard, Write,
          Count, Lock, Emit, Dispatch, Finish, End, Awaiting, Early
    <3>. QED BY <3>2, <3>3, <3>4
  <2>. QED BY <1>2, <1>3, <1>4, <2>1, <2>2 DEF Budgeted
<1>. QED BY <1>5, <1>6, <1>7, <1>8

LEMMA BudgetSteps ==
    ASSUME TypeInv, CancelInv, NEW u \in Uploads, FirstReturn(u), Undisturbed(u), Budgeted(u),
           Step(u), ~Worker(u), ~Failure(u)
    PROVE  Budgeted(u)'
<1>1. cpc \in [Uploads -> Cancelling \cup {"idle", "done"}]
  BY DEF TypeInv, TypeOK
<1>. USE DEF database, store, counts, budget, status, locks, worker
<1>2. row[u].status = "cancelled" => row'[u].status = "cancelled"
  BY RowSteps DEF TypeInv, RowKept
<1>3. UNCHANGED pc
  BY DEF Step, CancelBegin, Canceller, CancelCommit, CancelMark, CancelRelease, CancelForget,
         CancelCleanup, CancelQuota, PostScan, Deliver, PostStart, PostDownload, PostLock,
         PostComplete, PostEmit, PostSweep, PostSettle, Reap, ReapRelease
<1>4. CASE CancelBegin(u) \/ Canceller(u)
  BY <1>1, <1>2, <1>3, <1>4
  DEF CancelBegin, Canceller, CancelCommit, CancelMark, CancelRelease, CancelForget,
      CancelCleanup, CancelQuota, Proceed, Budgeted
<1>5. CASE PostScan(u)
  BY <1>2, <1>3, <1>5
  DEF PostScan, Deliver, PostStart, PostDownload, PostLock, PostComplete, PostEmit, PostSweep,
      PostSettle, Budgeted
<1>6. CASE Reap(u) \/ ReapRelease(u)
  BY <1>2, <1>3, <1>6 DEF Reap, ReapRelease, Budgeted
<1>. QED BY <1>4, <1>5, <1>6 DEF Step

LEMMA SmoothInit == Init => SmoothInv
<1>. SUFFICES ASSUME Init, NEW u \in Uploads PROVE Undisturbed(u) /\ Budgeted(u)
  BY DEF SmoothInv
<1>1. u \in Held => u \in Earlier
  BY DEF Init, Held, Taken
<1>. QED BY <1>1 DEF Init, Undisturbed, Budgeted, Awaiting, Early

LEMMA SmoothNext ==
    TypeInv /\ CancelInv /\ FirstRunInv /\ SmoothInv /\ [Next]_vars => SmoothInv'
<1>. SUFFICES ASSUME TypeInv, CancelInv, FirstRunInv, SmoothInv, [Next]_vars PROVE SmoothInv'
  OBVIOUS
<1>1. CASE UNCHANGED vars
  BY <1>1 DEF vars, database, store, counts, budget, status, worker, SmoothInv, RanOnce,
              Undisturbed, Budgeted, Held, Taken, Returned
<1>2. ASSUME NEW u \in Uploads, Step(u) PROVE SmoothInv'
  <2>. SUFFICES ASSUME RanOnce', faults' = 0, NEW v \in Uploads
                PROVE  Undisturbed(v)' /\ Budgeted(v)'
    BY DEF SmoothInv
  <2>1. RanOnce /\ faults = 0 /\ ~Failure(u)
    BY <1>2, TriesNext, CalmSteps DEF FirstRunInv, Failure
  <2>2. CountsAreHeld /\ FirstJob(u) /\ FirstReturn(u)
    BY <2>1 DEF FirstRunInv, FirstInv
  <2>3. \A w \in Uploads : Undisturbed(w) /\ Budgeted(w)
    BY <2>1 DEF SmoothInv
  <2>4. CASE v = u
    <3>1. Undisturbed(u)'
      BY <1>2, <2>1, <2>2, <2>3, WorkUndisturbed, CancelUndisturbed, PostUndisturbed,
         ReapUndisturbed DEF Step
    <3>2. Budgeted(u)'
      BY <1>2, <2>1, <2>2, <2>3, BudgetWork, BudgetSteps
    <3>. QED BY <2>4, <3>1, <3>2
  <2>5. CASE v # u
    <3>1. /\ row'[v] = row[v] /\ pc'[v] = pc[v] /\ cpc'[v] = cpc[v]
          /\ (v \in marker') = (v \in marker)
      BY <1>2, <2>5, OthersUntouched
    <3>2. /\ v \in releases' <=> v \in releases
          /\ v \in quarantine' <=> v \in quarantine
          /\ v \in reserved' <=> v \in reserved
          /\ v \in quota' <=> v \in quota
      BY <1>2, <2>5, OthersKeepTheirs
    <3>3. v \in Held' <=> v \in Held
      BY <1>2, <2>5, OthersKeepTheirs DEF Held, Taken, Returned
    <3>. QED BY <2>3, <3>1, <3>2, <3>3 DEF Undisturbed, Budgeted
  <2>. QED BY <2>4, <2>5
<1>. QED BY <1>1, <1>2 DEF Next, Step

LEMMA RestingLeaksNothing ==
    TypeInv /\ CancelInv /\ FirstRunInv /\ SmoothInv => NothingLeaks
<1>. SUFFICES ASSUME TypeInv, CancelInv, FirstRunInv, SmoothInv, RanOnce, faults = 0,
                     \A u \in Uploads : AtRest(u)
              PROVE  /\ refs["sanitized"] = Cardinality(Owners("sanitized")) + Cardinality(releases)
                     /\ reserved = {}
                     /\ \A u \in Uploads :
                            row[u].status = "cancelled" => u \notin quota /\ u \notin quarantine
  BY DEF NothingLeaks
<1>1. CountsAreHeld /\ \A u \in Uploads : FirstJob(u) /\ FirstReturn(u)
  BY DEF FirstRunInv, FirstInv
<1>2. \A u \in Uploads : Undisturbed(u) /\ Budgeted(u) /\ CancellerHasDone(u)
  BY DEF SmoothInv, CancelInv
<1>3. ASSUME NEW u \in Uploads
      PROVE  /\ pc[u] = "done"
             /\ row[u].status = "cancelled" => cpc[u] = "done" /\ ~row[u].owns
  BY <1>2 DEF AtRest, Undisturbed, CancellerHasDone, Marking, Cancelling
<1>4. Owners("sanitized") \cap releases = {}
  BY <1>1 DEF Owners, FirstReturn
<1>5. Held = Owners("sanitized") \cup releases
  <2>1. ASSUME NEW u \in Held PROVE u \in Owners("sanitized") \cup releases
    BY <1>1, <1>2, <1>3 DEF Held, Undisturbed, Counting, FirstReturn, Owners
  <2>2. Owners("sanitized") \subseteq Held
    BY HeldOwners
  <2>3. ASSUME NEW u \in releases PROVE u \in Held
    BY <1>1 DEF TypeInv, TypeOK, FirstReturn, Held
  <2>. QED BY <2>1, <2>2, <2>3
<1>6. /\ IsFiniteSet(Owners("sanitized")) /\ IsFiniteSet(releases)
  BY <1>5, HeldIsFinite, FS_Subset
<1>7. /\ Cardinality(Owners("sanitized")) \in Nat /\ Cardinality(releases) \in Nat
  BY <1>6, FS_CardinalityType
<1>8. Cardinality(Held) = Cardinality(Owners("sanitized")) + Cardinality(releases)
  BY <1>4, <1>5, <1>6, <1>7, FS_Union, FS_EmptySet
<1>9. reserved = {}
  <2>1. ASSUME NEW u \in reserved PROVE FALSE
    BY <1>2, <1>3 DEF TypeInv, TypeOK, Budgeted, Awaiting, Early
  <2>. QED BY <2>1
<1>10. ASSUME NEW u \in Uploads, row[u].status = "cancelled"
       PROVE  u \notin quota /\ u \notin quarantine
  BY <1>2, <1>3, <1>10 DEF Budgeted
<1>. QED BY <1>1, <1>8, <1>9, <1>10 DEF CountsAreHeld

(* Once everything has ended without an exception or a second run, exactly *)
(* the references of rows and of queued releases are left, and a cancelled *)
(* upload keeps neither its reservation, its quota nor its bytes, wherever *)
(* the cancellation met the worker.                                        *)
THEOREM SmoothRunsLeakNothing == Spec => []NothingLeaks
<1>. QED BY TypesHold, CancelInit, CancelNext, FirstInit, FirstNext, SmoothInit, SmoothNext,
            RestingLeaksNothing, PTL DEF Spec
=============================================================================
