-------------------------- MODULE UploadLifecycle --------------------------
(***************************************************************************)
(* One upload from quarantine to the content-addressed store.              *)
(*                                                                         *)
(* A worker scans and strips the file, stores the sanitized bytes under a  *)
(* key derived from them, counts a reference and publishes the upload as   *)
(* clean.  The user may cancel at any moment, the job may be interrupted   *)
(* and run again, and a follow-up job is delivered through an outbox.      *)
(* Worker, canceller and reaper share an upload row in PostgreSQL and, in  *)
(* Redis, the reference counts, the markers of the operations that changed *)
(* them, and the status the browser polls.                                 *)
(*                                                                         *)
(* Every upload here carries the same file, the case in which uploads      *)
(* share one object: its two contents are the sanitized and the raw bytes. *)
(* "malicious" is not told apart from "failed".                            *)
(*                                                                         *)
(* Sources: api/app/workers/upload/{pipeline,repository}.py, its stages,   *)
(* api/app/workers/{process_upload_post_scan,cleanup_uploads}.py,          *)
(* api/app/routers/upload/cancellation.py, api/app/core/security/lua.      *)
(***************************************************************************)
EXTENDS Integers, FiniteSets

CONSTANTS
    Uploads,          \* the uploads, all of the same file
    Earlier,          \* those that have been published already
    Cancellable,      \* those whose user may cancel them
    Original,         \* content of the quarantined bytes: "sanitized" if nothing is stripped
    None,             \* no lock owner, no content, no cached status
    MaxTries,         \* bound: runs of one job
    MaxFaults         \* bound: exceptions

ASSUME UploadsAssumption ==
    /\ IsFiniteSet(Uploads)
    /\ Earlier \subseteq Uploads /\ Cancellable \subseteq Uploads
    /\ Original \in {"sanitized", "raw"}

ASSUME NoneAssumption ==
    None \notin Uploads \cup {"worker", "canceller", "post", "clean", "sanitized", "raw"}

ASSUME BoundAssumption == MaxTries \in Nat \ {0} /\ MaxFaults \in Nat

VARIABLES
    row,          \* PostgreSQL: the upload rows
    outbox,       \* PostgreSQL: the post-scan intent of each upload
    releases,     \* PostgreSQL: references the reaper has queued for release
    quarantine,   \* the store: uploads whose quarantined object exists
    objects,      \* the store: contents that exist under cas/
    refs,         \* Redis: reference count of each content, 0 when the record is absent
    marks,        \* Redis: operations on reference counts that have been applied
    reserved,     \* Redis: uploads with a capacity reservation
    quota,        \* Redis: uploads whose staging entry counts against the quota
    marker,       \* Redis: uploads with a cancellation marker
    cache,        \* Redis: the status last announced for each upload
    lock,         \* Redis: owner of each upload's lifecycle lock
    guard,        \* PostgreSQL: owner of each content's storage lifecycle lock
    pc,           \* where the worker of each upload is
    loc,          \* the worker's stage and the bytes it has in its hands
    tries,        \* how often the job has been started
    cpc,          \* where the canceller of each upload is
    post,         \* where the post-scan job of each upload is
    faults        \* exceptions so far

database == <<row, outbox, releases>>
store == <<quarantine, objects>>
counts == <<refs, marks>>
budget == <<reserved, quota>>
status == <<marker, cache>>
locks == <<lock, guard>>
worker == <<pc, loc, tries>>
vars == <<database, store, counts, budget, status, locks, worker, cpc, post, faults>>

----------------------------------------------------------------------------
(* Types *)

Contents == {"sanitized", "raw"}

Row == [status : {"pending", "processing", "clean", "failed", "cancelled"},
        stage : {0, 2, 5},                      \* pipeline_stage
        owns : BOOLEAN,                         \* cas_ref_count > 0
        content : Contents \cup {None},         \* content_sha256, final_key
        processing : {"none", "pending", "running", "complete", "degraded"}]

Releases == {"compensate", "release", "reap"}   \* operations that give a reference back
Marks == ({"finalize"} \cup Releases) \X Uploads

\* What a cancellation check at a place leads to when there is no cancellation.
Checks == [start |-> "claim", scanned |-> "bazaar", final |-> "guard",
           published |-> "emit", emitted |-> "dispatch"]

Places == DOMAIN Checks \cup
          {"queued", "claim", "announce", "download", "sanitize", "bazaar", "guard", "write",
           "count", "account", "publish", "compensate", "lock", "emit", "dispatch", "finish",
           "abandon", "fail", "ending", "done", "lost"}

Running == Places \ {"queued", "done", "lost"}

Cancelling == {"commit", "mark", "release", "forget", "cleanup", "quota"}

Posting == {"queued", "download", "lock", "complete", "emit", "sweep", "degrade", "settle"}

TypeOK ==
    /\ row \in [Uploads -> Row]
    /\ outbox \in [Uploads -> {"none", "pending", "delivered"}]
    /\ quarantine \subseteq Uploads /\ objects \subseteq Contents
    /\ refs \in [Contents -> Nat] /\ marks \subseteq Marks
    /\ releases \subseteq Uploads /\ reserved \subseteq Uploads /\ quota \subseteq Uploads
    /\ marker \subseteq Uploads
    /\ cache \in [Uploads -> {None, "processing", "clean", "failed"}]
    /\ lock \in [Uploads -> {None, "worker", "canceller", "post"}]
    /\ guard \in [Contents -> Uploads \cup {None}]
    /\ pc \in [Uploads -> Places]
    /\ loc \in [Uploads -> [stage : {0, 2, 5}, bytes : Contents \cup {None}]]
    /\ tries \in [Uploads -> Nat] /\ faults \in Nat
    /\ cpc \in [Uploads -> Cancelling \cup {"idle", "done"}]
    /\ post \in [Uploads -> Posting \cup {"none", "done", "failed"}]

----------------------------------------------------------------------------
(* Reference counting.  Each script is atomic and applies an operation once. *)

\* An increment whose marker exists changes nothing.
Counted(u, c) ==
    IF <<"finalize", u>> \in marks THEN UNCHANGED counts
    ELSE refs' = [refs EXCEPT ![c] = @ + 1] /\ marks' = marks \cup {<<"finalize", u>>}

\* A marker without its record cannot be taken for a duplicate.
CountIsLost(u, c) == <<"finalize", u>> \in marks /\ refs[c] = 0

\* Mutant: a missing record is taken for a count.
GivenBackAlways(op, u, c) ==
    IF <<op, u>> \in marks THEN UNCHANGED counts
    ELSE refs' = [refs EXCEPT ![c] = @ - 1] /\ marks' = marks \cup {<<op, u>>}

\* Mutant: the marker of a decrement is not looked at.
GivenBackAgain(op, u, c) ==
    IF refs[c] = 0 THEN UNCHANGED counts
    ELSE refs' = [refs EXCEPT ![c] = @ - 1] /\ marks' = marks \cup {<<op, u>>}

\* A decrement whose marker exists, or without a record, changes nothing.
GivenBack(op, u, c) ==
    IF <<op, u>> \in marks \/ refs[c] = 0 THEN UNCHANGED counts
    ELSE refs' = [refs EXCEPT ![c] = @ - 1] /\ marks' = marks \cup {<<op, u>>}

----------------------------------------------------------------------------
(* Row updates never overwrite a cancellation. *)

\* Mutant: the WHERE clause does not mention the status.
OverwrittenAlways(u, fields) == [row EXCEPT ![u] = fields]

\* UPDATE uploads SET fields WHERE upload_id = u AND status != 'cancelled'
Overwritten(u, fields) == IF row[u].status = "cancelled" THEN row ELSE [row EXCEPT ![u] = fields]

WithStatus(u, s) == Overwritten(u, [row[u] EXCEPT !.status = s])

WithProcessing(u, p) == Overwritten(u, [row[u] EXCEPT !.processing = p])

\* The job looks at the Redis marker and at the authoritative row.
Cancelled(u) == u \in marker \/ row[u].status = "cancelled"

Announce(u, s) == cache' = [cache EXCEPT ![u] = s]

Go(u, place) == pc' = [pc EXCEPT ![u] = place]

Unlocked(u, who) == IF lock[u] = who THEN [lock EXCEPT ![u] = None] ELSE lock

\* Mutant: the storage lifecycle lock is kept.
UnguardedNever(u) == guard

Unguarded(u) == [c \in Contents |-> IF guard[c] = u THEN None ELSE guard[c]]

----------------------------------------------------------------------------
(* The worker, process_upload. *)

\* A stage that cannot be read is taken for 0.
Start(u) ==
    /\ pc[u] = "queued"
    /\ loc' = [loc EXCEPT ![u] = [stage |-> row[u].stage, bytes |-> None]]
    /\ Go(u, "start")
    /\ UNCHANGED <<database, store, counts, budget, status, locks, tries, cpc, post, faults>>

\* After the scan a job that had published already has nothing left to do.
Check(u) ==
    /\ pc[u] \in DOMAIN Checks
    /\ Go(u, IF Cancelled(u) THEN "abandon"
             ELSE IF pc[u] = "scanned" /\ loc[u].stage = 5 THEN "ending" ELSE Checks[pc[u]])
    /\ UNCHANGED <<database, store, counts, budget, status, locks, loc, tries, cpc, post, faults>>

\* _cancel_current_upload; the context managers release the lifecycle lock.
Abandon(u) ==
    /\ pc[u] = "abandon"
    /\ Announce(u, "failed")
    /\ row' = WithStatus(u, "failed")
    /\ reserved' = reserved \ {u}
    /\ quarantine' = quarantine \ {u}
    /\ lock' = Unlocked(u, "worker")
    /\ Go(u, "ending")
    /\ UNCHANGED <<outbox, releases, objects, counts, quota, marker, guard, loc, tries, cpc,
                   post, faults>>

Claim(u) ==
    /\ pc[u] = "claim"
    /\ row' = WithStatus(u, "processing")
    /\ Go(u, IF row[u].status = "cancelled" THEN "ending" ELSE "announce")
    /\ UNCHANGED <<outbox, releases, store, counts, budget, status, locks, loc, tries, cpc,
                   post, faults>>

AnnounceStart(u) ==
    /\ pc[u] = "announce"
    /\ Announce(u, "processing")
    /\ Go(u, "download")
    /\ UNCHANGED <<database, store, counts, budget, marker, locks, loc, tries, cpc, post, faults>>

\* A job that resumes after the first checkpoint skips scanning and stripping.
Download(u) ==
    /\ pc[u] = "download"
    /\ IF u \in quarantine
       THEN /\ loc' = [loc EXCEPT ![u].bytes = Original]
            /\ row' = WithStatus(u, "processing")
            /\ Go(u, IF loc[u].stage < 2 THEN "sanitize" ELSE "scanned")
       ELSE Go(u, "fail") /\ UNCHANGED <<row, loc>>
    /\ UNCHANGED <<outbox, releases, store, counts, budget, status, locks, tries, cpc, post,
                   faults>>

Fault == faults < MaxFaults /\ faults' = faults + 1

\* checkpoint_pipeline_stage: a failure to record the stage is suppressed.
Checkpoint(u, stage) ==
    \/ row' = [row EXCEPT ![u].stage = stage] /\ UNCHANGED faults
    \/ UNCHANGED row /\ Fault

\* Scan, strip and checkpoint 2; or the file is rejected.
Sanitize(u) ==
    /\ pc[u] = "sanitize"
    /\ Announce(u, "processing")
    /\ \/ /\ loc' = [loc EXCEPT ![u].bytes = "sanitized"]
          /\ Checkpoint(u, 2)
          /\ Go(u, "scanned")
       \/ Go(u, "fail") /\ UNCHANGED <<row, loc, faults>>
    /\ UNCHANGED <<outbox, releases, store, counts, budget, marker, locks, tries, cpc, post>>

\* The hash of the original file is looked up before the final steps.
Bazaar(u) ==
    /\ pc[u] = "bazaar"
    /\ \/ Announce(u, "processing") /\ Go(u, "final")
       \/ UNCHANGED cache /\ Go(u, "fail")
    /\ UNCHANGED <<database, store, counts, budget, marker, locks, loc, tries, cpc, post, faults>>

TakeGuard(u) ==
    /\ pc[u] = "guard" /\ guard[loc[u].bytes] = None
    /\ guard' = [guard EXCEPT ![loc[u].bytes] = u]
    /\ Go(u, "write")
    /\ UNCHANGED <<database, store, counts, budget, status, lock, loc, tries, cpc, post, faults>>

Write(u) ==
    /\ pc[u] = "write"
    /\ objects' = objects \cup {loc[u].bytes}
    /\ Go(u, "count")
    /\ UNCHANGED <<database, quarantine, counts, budget, status, locks, loc, tries, cpc, post,
                   faults>>

Count(u) ==
    /\ pc[u] = "count"
    /\ IF CountIsLost(u, loc[u].bytes)
       THEN Go(u, "fail") /\ UNCHANGED counts /\ guard' = Unguarded(u)
       ELSE Go(u, "account") /\ Counted(u, loc[u].bytes) /\ UNCHANGED guard
    /\ UNCHANGED <<database, store, budget, status, lock, loc, tries, cpc, post, faults>>

Account(u) ==
    /\ pc[u] = "account"
    /\ reserved' = reserved \ {u}
    /\ quota' = quota \cup {u}
    /\ Go(u, "publish")
    /\ UNCHANGED <<database, store, counts, status, locks, loc, tries, cpc, post, faults>>

\* The row becomes clean together with the intent to run the post-scan job,
\* which is recorded once.
Publish(u) ==
    /\ pc[u] = "publish"
    /\ row' = Overwritten(u, [row[u] EXCEPT !.status = "clean", !.owns = TRUE,
                                            !.content = loc[u].bytes, !.processing = "pending"])
    /\ IF row[u].status = "cancelled"
       THEN Go(u, "compensate") /\ UNCHANGED <<outbox, guard>>
       ELSE /\ Go(u, "lock") /\ guard' = Unguarded(u)
            /\ outbox' = [outbox EXCEPT ![u] = IF @ = "none" THEN "pending" ELSE @]
    /\ UNCHANGED <<releases, store, counts, budget, status, lock, loc, tries, cpc, post, faults>>

\* Mutant: a publication that lost the race keeps its reference.
CompensateNothing(u) ==
    /\ pc[u] = "compensate"
    /\ quota' = quota \ {u} /\ guard' = Unguarded(u)
    /\ Go(u, "ending")
    /\ UNCHANGED <<database, store, counts, reserved, status, lock, loc, tries, cpc, post, faults>>

\* The cancellation won: give the reference back.
Compensate(u) ==
    /\ pc[u] = "compensate"
    /\ GivenBack("compensate", u, loc[u].bytes)
    /\ quota' = quota \ {u} /\ guard' = Unguarded(u)
    /\ Go(u, "ending")
    /\ UNCHANGED <<database, store, reserved, status, lock, loc, tries, cpc, post, faults>>

\* Mutant: the lifecycle lock is not waited for.
FreeAlways(u) == TRUE

Free(u) == lock[u] = None

Lock(u) ==
    /\ pc[u] = "lock" /\ Free(u)
    /\ lock' = [lock EXCEPT ![u] = "worker"]
    /\ Go(u, "published")
    /\ UNCHANGED <<database, store, counts, budget, status, guard, loc, tries, cpc, post, faults>>

Emit(u) ==
    /\ pc[u] = "emit"
    /\ Announce(u, "clean")
    /\ Go(u, "emitted")
    /\ UNCHANGED <<database, store, counts, budget, marker, locks, loc, tries, cpc, post, faults>>

Delivered(u) ==
    IF outbox[u] = "pending"
    THEN outbox' = [outbox EXCEPT ![u] = "delivered"] /\ post' = [post EXCEPT ![u] = "queued"]
    ELSE UNCHANGED <<outbox, post>>

\* Immediate delivery; its failure is ignored, the dispatcher tries again.
Dispatch(u) ==
    /\ pc[u] = "dispatch"
    /\ Delivered(u) \/ UNCHANGED <<outbox, post>>
    /\ lock' = Unlocked(u, "worker")
    /\ Go(u, "finish")
    /\ UNCHANGED <<row, releases, store, counts, budget, status, guard, loc, tries, cpc, faults>>

Finish(u) ==
    /\ pc[u] = "finish"
    /\ Checkpoint(u, 5)
    /\ Go(u, "ending")
    /\ UNCHANGED <<outbox, releases, store, counts, budget, status, locks, loc, tries, cpc, post>>

\* _fail_upload.  The quarantined object goes with the last permitted run.
Fail(u) ==
    /\ pc[u] = "fail"
    /\ Announce(u, "failed")
    /\ row' = WithStatus(u, "failed")
    /\ reserved' = reserved \ {u}
    /\ quarantine' \in IF tries[u] >= MaxTries THEN {quarantine, quarantine \ {u}} ELSE {quarantine}
    /\ Go(u, "ending")
    /\ UNCHANGED <<outbox, releases, objects, counts, quota, marker, locks, loc, tries, cpc, post,
                   faults>>

\* The job returns, cleans up after itself and is acknowledged to the queue.
End(u) ==
    /\ pc[u] = "ending"
    /\ Go(u, "done")
    /\ UNCHANGED <<database, store, counts, budget, status, locks, loc, tries, cpc, post, faults>>

Worker(u) ==
    \/ Start(u) \/ Check(u) \/ Abandon(u) \/ Claim(u) \/ AnnounceStart(u) \/ Download(u)
    \/ Sanitize(u) \/ Bazaar(u) \/ TakeGuard(u) \/ Write(u) \/ Count(u) \/ Account(u)
    \/ Publish(u) \/ Compensate(u) \/ Lock(u) \/ Emit(u) \/ Dispatch(u) \/ Finish(u) \/ Fail(u)
    \/ End(u)

----------------------------------------------------------------------------
(* The canceller, cancel_upload_lifecycle, under the lifecycle lock. *)

Proceed(u, place) == cpc' = [cpc EXCEPT ![u] = place]

CancelBegin(u) ==
    /\ u \in Cancellable /\ cpc[u] = "idle" /\ Free(u)
    /\ lock' = [lock EXCEPT ![u] = "canceller"]
    /\ Proceed(u, "commit")
    /\ UNCHANGED <<database, store, counts, budget, status, guard, worker, post, faults>>

CancelCommit(u) ==
    /\ cpc[u] = "commit"
    /\ row' = [row EXCEPT ![u].status = "cancelled"]
    /\ Proceed(u, "mark")
    /\ UNCHANGED <<outbox, releases, store, counts, budget, status, locks, worker, post, faults>>

\* The row is frozen now but for this canceller, so that what it recorded when
\* it was locked is what it still records.
CancelMark(u) ==
    /\ cpc[u] = "mark"
    /\ marker' = marker \cup {u}
    /\ Announce(u, None)
    /\ Proceed(u, IF row[u].owns THEN "release" ELSE "cleanup")
    /\ UNCHANGED <<database, store, counts, budget, locks, worker, post, faults>>

CancelRelease(u) ==
    /\ cpc[u] = "release"
    /\ GivenBack("release", u, row[u].content)
    /\ Proceed(u, "forget")
    /\ UNCHANGED <<database, store, budget, status, locks, worker, post, faults>>

CancelForget(u) ==
    /\ cpc[u] = "forget"
    /\ row' = [row EXCEPT ![u].owns = FALSE]
    /\ Proceed(u, "cleanup")
    /\ UNCHANGED <<outbox, releases, store, counts, budget, status, locks, worker, post, faults>>

CancelCleanup(u) ==
    /\ cpc[u] = "cleanup"
    /\ quarantine' = quarantine \ {u}
    /\ Proceed(u, "quota")
    /\ UNCHANGED <<database, objects, counts, budget, status, locks, worker, post, faults>>

CancelQuota(u) ==
    /\ cpc[u] = "quota"
    /\ quota' = quota \ {u} /\ reserved' = reserved \ {u}
    /\ lock' = Unlocked(u, "canceller")
    /\ Proceed(u, "done")
    /\ UNCHANGED <<database, store, counts, status, guard, worker, post, faults>>

Canceller(u) ==
    \/ CancelCommit(u) \/ CancelMark(u) \/ CancelRelease(u) \/ CancelForget(u)
    \/ CancelCleanup(u) \/ CancelQuota(u)

----------------------------------------------------------------------------
(* The follow-up job, process_upload_post_scan. *)

Follow(u, place) == post' = [post EXCEPT ![u] = place]

\* The outbox dispatcher.
Deliver(u) ==
    /\ outbox[u] = "pending"
    /\ Delivered(u)
    /\ UNCHANGED <<row, releases, store, counts, budget, status, locks, worker, cpc, faults>>

PostStart(u) ==
    /\ post[u] = "queued"
    /\ row' = WithProcessing(u, "running")
    /\ Follow(u, IF row[u].status = "cancelled" THEN "done" ELSE "download")
    /\ UNCHANGED <<outbox, releases, store, counts, budget, status, locks, worker, cpc, faults>>

\* A failed download or strip degrades the upload, a failed thumbnail does not.
PostDownload(u) ==
    /\ post[u] = "download"
    /\ Follow(u, "degrade") \/ (u \in quarantine /\ Follow(u, "lock"))
    /\ UNCHANGED <<database, store, counts, budget, status, locks, worker, cpc, faults>>

PostLock(u, from, to) ==
    /\ post[u] = from /\ Free(u)
    /\ lock' = [lock EXCEPT ![u] = "post"]
    /\ Follow(u, to)
    /\ UNCHANGED <<database, store, counts, budget, status, guard, worker, cpc, faults>>

MayComplete(u) == row[u].status = "clean" /\ row[u].owns /\ u \notin marker

PostComplete(u) ==
    /\ post[u] = "complete"
    /\ IF MayComplete(u)
       THEN /\ row' = [row EXCEPT ![u].processing = "complete"]
            /\ Follow(u, IF cache[u] = "clean" THEN "emit" ELSE "sweep")
            /\ lock' = IF cache[u] = "clean" THEN lock ELSE Unlocked(u, "post")
       ELSE Follow(u, "done") /\ UNCHANGED row /\ lock' = Unlocked(u, "post")
    /\ UNCHANGED <<outbox, releases, store, counts, budget, status, guard, worker, cpc, faults>>

PostEmit(u) ==
    /\ post[u] = "emit"
    /\ Announce(u, "clean")
    /\ lock' = Unlocked(u, "post")
    /\ Follow(u, "sweep")
    /\ UNCHANGED <<database, store, counts, budget, marker, guard, worker, cpc, faults>>

PostSweep(u) ==
    /\ post[u] = "sweep"
    /\ quarantine' = quarantine \ {u}
    /\ Follow(u, "done")
    /\ UNCHANGED <<database, objects, counts, budget, status, locks, worker, cpc, faults>>

PostSettle(u) ==
    /\ post[u] = "settle"
    /\ row' = WithProcessing(u, "degraded")
    /\ lock' = Unlocked(u, "post")
    /\ Follow(u, "done")
    /\ UNCHANGED <<outbox, releases, store, counts, budget, status, guard, worker, cpc, faults>>

PostScan(u) ==
    \/ Deliver(u) \/ PostStart(u) \/ PostDownload(u)
    \/ PostLock(u, "lock", "complete") \/ PostLock(u, "degrade", "settle")
    \/ PostComplete(u) \/ PostEmit(u) \/ PostSweep(u) \/ PostSettle(u)

----------------------------------------------------------------------------
(* The daily cleanup takes the reference of an upload nobody used for two  *)
(* days, and releases it through the outbox.                               *)

AtRest(u) ==
    /\ pc[u] \in {"done", "lost"} /\ cpc[u] \notin Cancelling
    /\ post[u] \notin Posting /\ outbox[u] # "pending"

\* Mutant: cas_ref_count is not reset.
ReapedRow(u) == row

Reaped(u) == [row EXCEPT ![u].owns = FALSE]

Reap(u) ==
    /\ AtRest(u) /\ row[u].status \in {"clean", "failed"} /\ row[u].owns
    /\ row' = Reaped(u)
    /\ releases' = releases \cup {u}
    /\ quota' = quota \ {u}
    /\ UNCHANGED <<outbox, store, counts, reserved, status, locks, worker, cpc, post, faults>>

ReapRelease(u) ==
    /\ u \in releases
    /\ GivenBack("reap", u, row[u].content)
    /\ releases' = releases \ {u}
    /\ UNCHANGED <<row, outbox, store, budget, status, locks, worker, cpc, post, faults>>

----------------------------------------------------------------------------
(* Failures *)

\* Before the try block of run() and inside _fail_upload nobody records an
\* exception.  "abandon" is reached from both sides of that block.
Unrecorded == {"start", "claim", "announce", "fail", "abandon"}

\* An await of the worker raises.  The queue does not repeat a job that ended
\* with an ordinary exception.
Raise(u) ==
    /\ pc[u] \in Running \ {"finish", "ending"} /\ Fault
    /\ \/ pc[u] \in Unrecorded /\ Go(u, "lost")
       \/ pc[u] \notin Unrecorded \ {"abandon"} /\ Go(u, "fail")
    /\ lock' = Unlocked(u, "worker") /\ guard' = Unguarded(u)
    /\ UNCHANGED <<database, store, counts, budget, status, loc, tries, cpc, post>>

\* The user is told to retry.
CancelRaise(u) ==
    /\ cpc[u] \in Cancelling /\ Fault
    /\ Proceed(u, "idle")
    /\ lock' = Unlocked(u, "canceller")
    /\ UNCHANGED <<database, store, counts, budget, status, guard, worker, post>>

PostRaise(u) ==
    /\ post[u] \in Posting \ {"queued"} /\ Fault
    /\ row' = WithProcessing(u, "pending")
    /\ Follow(u, "failed")
    /\ lock' = Unlocked(u, "post")
    /\ UNCHANGED <<outbox, releases, store, counts, budget, status, guard, worker, cpc>>

\* The worker process is shut down or killed and the queue runs the job again.
\* Its locks lapse; that this takes time shows in nobody being obliged to hurry.
Interrupt(u) ==
    /\ pc[u] \in Running /\ tries[u] < MaxTries
    /\ tries' = [tries EXCEPT ![u] = @ + 1]
    /\ Go(u, "queued")
    /\ lock' = Unlocked(u, "worker") /\ guard' = Unguarded(u)
    /\ UNCHANGED <<database, store, counts, budget, status, loc, cpc, post, faults>>

Failure(u) == Raise(u) \/ CancelRaise(u) \/ PostRaise(u) \/ Interrupt(u)

----------------------------------------------------------------------------
Next ==
    \E u \in Uploads :
        \/ Worker(u) \/ CancelBegin(u) \/ Canceller(u) \/ PostScan(u)
        \/ Reap(u) \/ ReapRelease(u) \/ Failure(u)

\* An upload that was published earlier has gone through all of this.
Init ==
    /\ row = [u \in Uploads |->
                 IF u \in Earlier
                 THEN [status |-> "clean", stage |-> 5, owns |-> TRUE,
                       content |-> "sanitized", processing |-> "complete"]
                 ELSE [status |-> "pending", stage |-> 0, owns |-> FALSE,
                       content |-> None, processing |-> "none"]]
    /\ outbox = [u \in Uploads |-> IF u \in Earlier THEN "delivered" ELSE "none"]
    /\ releases = {}
    /\ quarantine = Uploads \ Earlier
    /\ objects = IF Earlier = {} THEN {} ELSE {"sanitized"}
    /\ refs = [c \in Contents |-> IF c = "sanitized" THEN Cardinality(Earlier) ELSE 0]
    /\ marks = {"finalize"} \X Earlier
    /\ reserved = Uploads \ Earlier /\ quota = Earlier
    /\ marker = {} /\ cache = [u \in Uploads |-> IF u \in Earlier THEN "clean" ELSE None]
    /\ lock = [u \in Uploads |-> None] /\ guard = [c \in Contents |-> None]
    /\ pc = [u \in Uploads |-> IF u \in Earlier THEN "done" ELSE "queued"]
    /\ loc = [u \in Uploads |-> [stage |-> 0, bytes |-> None]]
    /\ tries = [u \in Uploads |-> 1]
    /\ cpc = [u \in Uploads |-> "idle"]
    /\ post = [u \in Uploads |-> IF u \in Earlier THEN "done" ELSE "none"]
    /\ faults = 0

Spec == Init /\ [][Next]_vars

\* Jobs that were accepted run, the dispatcher keeps delivering, and a
\* cancellation that has begun ends.
Fairness ==
    \A u \in Uploads : WF_vars(Worker(u)) /\ WF_vars(Canceller(u)) /\ WF_vars(PostScan(u))

FairSpec == Spec /\ Fairness

----------------------------------------------------------------------------
(* Properties *)

(* A cancellation is final: no late step of the worker, of the post-scan   *)
(* job or of the reaper ever revives a cancelled upload.                   *)
CancellationIsFinal ==
    [][\A u \in Uploads : row[u].status = "cancelled" => row'[u].status = "cancelled"]_vars

(* When a cancellation has ended, the browser is never told again that the *)
(* upload is clean, and its row records no reference.                      *)
NothingCleanAfterCancellation ==
    \A u \in Uploads : cpc[u] = "done" => cache[u] # "clean" /\ ~row[u].owns

Owners(c) == {u \in Uploads : row[u].status = "clean" /\ row[u].owns /\ row[u].content = c}

(* A content is counted at least once for every clean upload that records  *)
(* a reference to it: no release took away somebody else's.                *)
OwnersAreCounted == \A c \in Contents : refs[c] >= Cardinality(Owners(c))

RanOnce == \A u \in Uploads : tries[u] = 1

(* OwnersAreCounted holds as long as no job has been run a second time,    *)
(* whatever the cancellations and exceptions.                              *)
OwnersAreCountedOnFirstRun == RanOnce => OwnersAreCounted

CountedUploads == {u \in Uploads : <<"finalize", u>> \in marks}

(* The references never outnumber the uploads that took one.               *)
CountedOnce == refs["sanitized"] + refs["raw"] <= Cardinality(CountedUploads)

Shares == INSTANCE References WITH Holders <- Uploads, count <- refs, taken <- CountedUploads,
                                   returned <- marks \ ({"finalize"} \X Uploads)

(* Whatever the worker, its later runs, the cancellers and the reaper do,  *)
(* and wherever they are interrupted, the counts behave as References      *)
(* promises: the markers in Redis make every operation happen once.        *)
CountsAreReferences == Shares!Spec

(* When everything has ended without an exception or a second run, exactly *)
(* the references that rows or queued releases own are left, and no        *)
(* cancelled upload keeps its reservation, its quota or its bytes.         *)
NothingLeaks ==
    (RanOnce /\ faults = 0 /\ \A u \in Uploads : AtRest(u)) =>
        /\ refs["sanitized"] = Cardinality(Owners("sanitized")) + Cardinality(releases)
        /\ reserved = {}
        /\ \A u \in Uploads : row[u].status = "cancelled" => u \notin quota /\ u \notin quarantine

(* What is published is what was sanitized.                                *)
PublishedBytesAreSanitized ==
    \A u \in Uploads : row[u].status = "clean" => row[u].content = "sanitized"

(* A job that ended normally leaves its upload in a final state.           *)
FinishedJobsSettleUploads ==
    \A u \in Uploads : pc[u] = "done" => row[u].status \in {"clean", "failed", "cancelled"}

(* Every upload settles, unless its job was lost or interrupted: neither   *)
(* the locks nor a cancellation in progress can hold it for ever.          *)
UploadSettles ==
    \A u \in Uploads :
        row[u].status \in {"pending", "processing"} ~>
            (row[u].status \in {"clean", "failed", "cancelled"} \/ pc[u] = "lost" \/ tries[u] > 1)
=============================================================================
