--------------------------- MODULE UploadTransfer ---------------------------
(***************************************************************************)
(* One call of uploadFile: hash, choose a path, transfer with retries, and *)
(* wait for the pipeline's verdict over a stream that may break.  A direct *)
(* or presigned upload is one request or two; a multipart upload sends its *)
(* parts a few at a time and completes the manifest; tus sends chunks and  *)
(* may be paused.  An answer may be lost after the server acted on it.     *)
(***************************************************************************)
EXTENDS Naturals, FiniteSets

CONSTANTS Parts,        \* parts of a multipart upload
          Concurrency,  \* parts sent at once
          MaxRetries,   \* attempts of a part and of the completion
          MaxBreaks     \* bound: attempts of the verdict stream

VARIABLES size,         \* "small", "large" or "huge"
          step,         \* where the call stands
          parts,        \* the state of each part's PUT
          tries,        \* failed attempts: of a part, or of the whole ("all")
          unsure,       \* the last attempt to complete has no answer
          committed,    \* the server holds the whole object
          withdrawn,    \* the client sent DELETE for the multipart upload
          cancelled,    \* the AbortSignal fired
          job,          \* the pipeline's status
          outcome       \* what uploadFile returned or threw

transferVars == <<size, step, parts, tries, unsure, committed, withdrawn, cancelled, job, outcome>>

Sizes == {"small", "large", "huge"}
Steps == {"prepare", "direct", "multipart", "completing", "presigned", "tus", "paused", "waiting", "over"}
PartStates == {"unsent", "sending", "backoff", "sent", "failed"}
Jobs == {"none", "running", "clean", "malicious", "failed"}
Outcomes == {"none", "done", "virus", "error", "cancelled"}

TypeOK ==
    /\ size \in Sizes /\ step \in Steps /\ parts \in [Parts -> PartStates]
    /\ tries \in [Parts \cup {"all"} -> 0..MaxRetries + MaxBreaks]
    /\ unsure \in BOOLEAN /\ committed \in BOOLEAN /\ withdrawn \in BOOLEAN /\ cancelled \in BOOLEAN
    /\ job \in Jobs /\ outcome \in Outcomes

Init ==
    /\ size \in Sizes /\ step = "prepare" /\ parts = [p \in Parts |-> "unsent"]
    /\ tries = [p \in Parts \cup {"all"} |-> 0]
    /\ unsure = FALSE /\ committed = FALSE /\ withdrawn = FALSE /\ cancelled = FALSE
    /\ job = "none" /\ outcome = "none"

-----------------------------------------------------------------------------
Throw(o) == step' = "over" /\ outcome' = o

\* The server takes the object in and hands it to the pipeline; a completion
\* repeated with the same manifest changes nothing.
Commit == committed' = TRUE /\ job' = IF job = "none" THEN "running" ELSE job

\* Hashing and compression are over: pick a path.  Without a configuration,
\* or with direct uploads off, small files take the presigned path.
Prepared ==
    /\ step = "prepare" /\ ~cancelled
    /\ step' \in CASE size = "small" -> {"direct", "presigned"}
                   [] size = "large" -> {"direct", "tus"}
                   [] OTHER -> {"multipart"}
    /\ UNCHANGED <<size, parts, tries, unsure, committed, withdrawn, cancelled, job, outcome>>

PrepareFails ==
    /\ step = "prepare" /\ Throw("error")
    /\ UNCHANGED <<size, parts, tries, unsure, committed, withdrawn, cancelled, job>>

\* One POST with the file in it.
DirectSends ==
    /\ step = "direct" /\ ~cancelled
    /\ \/ Commit /\ step' = "waiting" /\ UNCHANGED outcome
       \/ Commit /\ Throw("error")
       \/ Throw("error") /\ UNCHANGED <<committed, job>>
    /\ UNCHANGED <<size, parts, tries, unsure, withdrawn, cancelled>>

\* /upload/init and the PUT, tried again on 429, 5xx and network errors, and
\* then /upload/complete, tried once.
PresignedPutFails ==
    /\ step = "presigned" /\ ~cancelled
    /\ tries' = [tries EXCEPT !["all"] = @ + 1]
    /\ IF tries'["all"] >= MaxRetries THEN Throw("error") ELSE UNCHANGED <<step, outcome>>
    /\ UNCHANGED <<size, parts, unsure, committed, withdrawn, cancelled, job>>

PresignedSends ==
    /\ step = "presigned" /\ ~cancelled
    /\ \/ Commit /\ step' = "waiting" /\ UNCHANGED outcome
       \/ Commit /\ Throw("error")
       \/ Throw("error") /\ UNCHANGED <<committed, job>>
    /\ tries' = [tries EXCEPT !["all"] = 0]
    /\ UNCHANGED <<size, parts, unsure, withdrawn, cancelled>>

-----------------------------------------------------------------------------
(* Multipart.                                                              *)

Sending == {p \in Parts : parts[p] \in {"sending", "backoff"}}

\* A 501 of the init sends the file over tus instead.
MultipartRefused ==
    /\ step = "multipart" /\ Sending = {} /\ \A p \in Parts : parts[p] = "unsent"
    /\ \/ step' = "tus" /\ UNCHANGED outcome
       \/ Throw("error")
    /\ UNCHANGED <<size, parts, tries, unsure, committed, withdrawn, cancelled, job>>

SendPart(p) ==
    /\ step = "multipart" /\ ~cancelled
    /\ \/ parts[p] = "unsent" /\ Cardinality(Sending) < Concurrency
       \/ parts[p] = "backoff"
    /\ \A q \in Parts : parts[q] # "failed"
    /\ parts' = [parts EXCEPT ![p] = "sending"]
    /\ UNCHANGED <<size, step, tries, unsure, committed, withdrawn, cancelled, job, outcome>>

\* A part's PUT goes on after the call has thrown for another part.
PartSent(p) ==
    /\ parts[p] = "sending"
    /\ parts' = [parts EXCEPT ![p] = "sent"]
    /\ UNCHANGED <<size, step, tries, unsure, committed, withdrawn, cancelled, job, outcome>>

PartFails(p) ==
    /\ parts[p] = "sending" /\ ~cancelled
    /\ \/ /\ tries[p] + 1 < MaxRetries
          /\ tries' = [tries EXCEPT ![p] = @ + 1] /\ parts' = [parts EXCEPT ![p] = "backoff"]
       \/ UNCHANGED tries /\ parts' = [parts EXCEPT ![p] = "failed"]
    /\ UNCHANGED <<size, step, unsure, committed, withdrawn, cancelled, job, outcome>>

\* The first failed part ends the call; the others' PUTs are not aborted.
GiveUpParts ==
    /\ step = "multipart" /\ \E p \in Parts : parts[p] = "failed"
    /\ withdrawn' \in {TRUE, withdrawn} /\ Throw("error")
    /\ UNCHANGED <<size, parts, tries, unsure, committed, cancelled, job>>

AllPartsSent ==
    /\ step = "multipart" /\ \A p \in Parts : parts[p] = "sent"
    /\ step' = "completing"
    /\ UNCHANGED <<size, parts, tries, unsure, committed, withdrawn, cancelled, job, outcome>>

CompletionAnswered ==
    /\ step = "completing" /\ ~cancelled
    /\ Commit /\ step' = "waiting" /\ tries' = [tries EXCEPT !["all"] = 0]
    /\ unsure' = FALSE
    /\ UNCHANGED <<size, parts, withdrawn, cancelled, outcome>>

\* Refused for good: nothing was committed, the upload is withdrawn.
CompletionRefused ==
    /\ step = "completing" /\ ~committed /\ ~cancelled
    /\ withdrawn' \in {TRUE, withdrawn} /\ Throw("error") /\ unsure' = FALSE
    /\ UNCHANGED <<size, parts, tries, committed, cancelled, job>>

\* mutant: an unanswered completion is cleaned up like any other failure
CompletionLostAndCleaned ==
    /\ step = "completing" /\ ~cancelled
    /\ \/ Commit
       \/ UNCHANGED <<committed, job>>
    /\ unsure' = TRUE
    /\ tries' = [tries EXCEPT !["all"] = @ + 1]
    /\ IF tries'["all"] >= MaxRetries
       THEN Throw("error") /\ withdrawn' = TRUE
       ELSE UNCHANGED <<step, outcome, withdrawn>>
    /\ UNCHANGED <<size, parts, cancelled>>

\* A timeout or 5xx leaves open whether S3 committed.  The same manifest is
\* sent again, and the upload is kept when the attempts run out.
CompletionLost ==
    /\ step = "completing" /\ ~cancelled
    /\ \/ Commit
       \/ UNCHANGED <<committed, job>>
    /\ unsure' = TRUE
    /\ tries' = [tries EXCEPT !["all"] = @ + 1]
    /\ IF tries'["all"] >= MaxRetries THEN Throw("error") ELSE UNCHANGED <<step, outcome>>
    /\ UNCHANGED <<size, parts, withdrawn, cancelled>>

-----------------------------------------------------------------------------
(* Tus, and the user's pause, resume and cancel.                           *)

TusSends ==
    /\ step = "tus" /\ ~cancelled
    /\ \/ Commit /\ step' = "waiting" /\ UNCHANGED outcome
       \/ Throw("error") /\ UNCHANGED <<committed, job>>
    /\ UNCHANGED <<size, parts, tries, unsure, withdrawn, cancelled>>

Pause  == step = "tus" /\ step' = "paused" /\ UNCHANGED <<size, parts, tries, unsure, committed, withdrawn, cancelled, job, outcome>>
Resume == step = "paused" /\ ~cancelled /\ step' = "tus" /\ UNCHANGED <<size, parts, tries, unsure, committed, withdrawn, cancelled, job, outcome>>

Cancel ==
    /\ step # "over" /\ ~cancelled /\ cancelled' = TRUE
    /\ UNCHANGED <<size, step, parts, tries, unsure, committed, withdrawn, job, outcome>>

\* The rejected request unwinds the call; a multipart upload is withdrawn.
Unwind ==
    /\ cancelled /\ step # "over" /\ Throw("cancelled")
    /\ withdrawn' \in IF step \in {"multipart", "completing"} THEN {TRUE, withdrawn} ELSE {withdrawn}
    /\ UNCHANGED <<size, parts, tries, unsure, committed, cancelled, job>>

-----------------------------------------------------------------------------
(* The pipeline's verdict.                                                 *)

JobEnds ==
    /\ job = "running" /\ job' \in {"clean", "malicious", "failed"}
    /\ UNCHANGED <<size, step, parts, tries, unsure, committed, withdrawn, cancelled, outcome>>

\* Any bytes, a ping among them, reset the attempts.
StreamReads ==
    /\ step = "waiting" /\ job = "running"
    /\ tries' = [tries EXCEPT !["all"] = 0]
    /\ UNCHANGED <<size, step, parts, unsure, committed, withdrawn, cancelled, job, outcome>>

StreamBreaks ==
    /\ step = "waiting" /\ ~cancelled
    /\ tries' = [tries EXCEPT !["all"] = @ + 1]
    /\ IF tries'["all"] >= MaxBreaks THEN Throw("error") ELSE UNCHANGED <<step, outcome>>
    /\ UNCHANGED <<size, parts, unsure, committed, withdrawn, cancelled, job>>

Verdict ==
    /\ step = "waiting" /\ ~cancelled /\ job \in {"clean", "malicious", "failed"}
    /\ Throw(CASE job = "clean" -> "done" [] job = "malicious" -> "virus" [] OTHER -> "error")
    /\ UNCHANGED <<size, parts, tries, unsure, committed, withdrawn, cancelled, job>>

\* Fifteen minutes are up: one look at the status decides.
Deadline ==
    /\ step = "waiting" /\ ~cancelled
    /\ Throw(IF job = "clean" THEN "done" ELSE "error")
    /\ UNCHANGED <<size, parts, tries, unsure, committed, withdrawn, cancelled, job>>

Next == \/ Prepared \/ PrepareFails \/ DirectSends \/ PresignedPutFails \/ PresignedSends
        \/ MultipartRefused \/ GiveUpParts \/ AllPartsSent
        \/ \E p \in Parts : SendPart(p) \/ PartSent(p) \/ PartFails(p)
        \/ CompletionAnswered \/ CompletionRefused \/ CompletionLost
        \/ TusSends \/ Pause \/ Resume \/ Cancel \/ Unwind
        \/ JobEnds \/ StreamReads \/ StreamBreaks \/ Verdict \/ Deadline

Spec == Init /\ [][Next]_transferVars

-----------------------------------------------------------------------------
(* A multipart upload the server may have committed is not deleted unless  *)
(* the user cancelled it: an unanswered completion keeps the intent for a  *)
(* retry, and a withdrawn upload was never committed.                      *)
CommittedIsKept == withdrawn /\ ~cancelled => ~committed /\ ~unsure

-----------------------------------------------------------------------------
(* What keeps it: nothing is committed before a completion is sent, and a  *)
(* withdrawal ends the call, after which only stray answers of parts come. *)

\* Steps from which no completion has been sent yet.
Unsent == {"prepare", "direct", "presigned", "multipart", "tus", "paused"}

NothingSentEarly == step \in Unsent => ~committed /\ ~unsure

\* A withdrawal that nobody asked for is the last thing the call does.
WithdrawalEndsCall == withdrawn /\ ~cancelled => step = "over" /\ ~committed /\ ~unsure

Flags == committed \in BOOLEAN /\ unsure \in BOOLEAN /\ withdrawn \in BOOLEAN /\ cancelled \in BOOLEAN

TransferInv == Flags /\ step \in Steps /\ NothingSentEarly /\ WithdrawalEndsCall

\* Steps that send no completion and withdraw nothing: they leave the flags
\* alone, and move the call on to where they hold as well.
Harmless ==
    /\ UNCHANGED <<unsure, committed, withdrawn>>
    /\ cancelled' = cancelled \/ cancelled' = TRUE
    /\ \/ step' = step
       \/ step # "over" /\ step' = "over"
       \/ step \in Unsent /\ step' \in Unsent
       \/ step = "multipart" /\ step' = "completing"

-----------------------------------------------------------------------------
\* Inductive strengthening of TypeOK: what is tried again has attempts left.
AttemptsFit ==
    step # "over" => tries["all"] < CASE step \in {"presigned", "completing"} -> MaxRetries
                                      [] step = "waiting" -> MaxBreaks
                                      [] OTHER -> 1
=============================================================================
