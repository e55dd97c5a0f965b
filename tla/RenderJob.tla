----------------------------- MODULE RenderJob -----------------------------
(***************************************************************************)
(* The life of one durable render job of the platform: its row, its quota  *)
(* reservation, its Compute run, the asset made from the result, and the   *)
(* outbox events that drive them (platform-backend/app/studio              *)
(* render_worker.py, render_job_repository.py, render_job_service.py,      *)
(* quota_expiry_scheduler.py, app/assets/service.py).                      *)
(*                                                                         *)
(* The outbox is module Outbox with its handlers filled in.  A handler is  *)
(* one action per transaction and per call to Compute or to the object     *)
(* store; loc[w] is where worker w stands in its handler, the only thing a *)
(* handler remembers between two transactions.                             *)
(***************************************************************************)
EXTENDS Outbox

CONSTANTS
    MaxFaults     \* bound: transactions of handlers that fail

\* render.created.v1, render.poll.v1, render.cancel_requested.v1 and
\* render.quota_expired.v1 of the one job.
RenderEvents == {"created", "poll", "cancel", "expire"}

ASSUME RenderAssumption ==
    /\ Events = RenderEvents
    /\ MaxFaults \in Nat

VARIABLES
    job,     \* [status, runId]: render_jobs row; runId: compute_run_id is set
    res,     \* quota_reservations.status, "none" before the row exists
    resDue,  \* quota_reservations.expires_at <= now()
    run,     \* the Gateway's run for this job's idempotency key
    asset,   \* assets.status, "none" before the row exists
    objects, \* the master and provenance objects of the ingestion
    loc,     \* [Workers -> step of the running handler]
    faults   \* faults so far

jobVars == <<job, res, resDue, run, asset, objects>>
renderVars == <<ev, wk, crashes, job, res, resDue, run, asset, objects, loc, faults>>

TERMINAL_STATUSES == {"completed", "failed", "cancelled"}
JobStatuses == {"none", "queued", "submitting", "running", "cancel_requested",
                "compute_succeeded", "ingesting"} \cup TERMINAL_STATUSES
RunStates == {"none", "active", "cancelling", "completed", "failed", "cancelled"}
Steps == {"start", "post", "save", "fail", "status", "manifest", "success",
          "forward", "cancel", "ingest", "transfer", "finalize", "reject",
          "undo", "end"}

RenderTypeOK ==
    /\ OutboxTypeOK
    /\ job \in [status: JobStatuses, runId: BOOLEAN]
    /\ res \in {"none", "reserved", "released", "expired"}
    /\ resDue \in BOOLEAN
    /\ run \in RunStates
    /\ asset \in {"none", "processing", "ready", "failed"}
    /\ objects \in {"none", "stored", "referenced", "queued"}
    /\ loc \in [Workers -> Steps]
    /\ faults \in 0..MaxFaults

RenderInit ==
    /\ OutboxInit
    /\ job = [status |-> "none", runId |-> FALSE]
    /\ res = "none" /\ resDue = FALSE
    /\ run = "none" /\ asset = "none" /\ objects = "none"
    /\ loc = [w \in Workers |-> "start"]
    /\ faults = 0

-----------------------------------------------------------------------------
(* The repository's guarded updates. *)

\* release_reservation
Released == IF res = "reserved" THEN "released" ELSE res

\* The same without the release.
EndJobKeepingQuota(expected, next) ==
    IF job.status \in expected
    THEN job' = [job EXCEPT !.status = next] /\ UNCHANGED res
    ELSE UNCHANGED <<job, res>>

\* set_status with its expected set, then release_reservation if it applied.
EndJob(expected, next) ==
    IF job.status \in expected
    THEN job' = [job EXCEPT !.status = next] /\ res' = Released
    ELSE UNCHANGED <<job, res>>

CancelAndRelease ==
    EndJob({"queued", "submitting", "running", "cancel_requested"}, "cancelled")

\* A failure that overtakes a cancellation.
FailAndReleaseAnyway ==
    EndJob({"queued", "submitting", "running", "compute_succeeded", "ingesting",
            "cancel_requested"}, "failed")

\* A user cancellation wins over a failure observed concurrently.
FailAndRelease ==
    IF job.status = "cancel_requested"
    THEN CancelAndRelease
    ELSE EndJob({"queued", "submitting", "running", "compute_succeeded", "ingesting"},
                "failed")

-----------------------------------------------------------------------------
(* The API. *)

\* render_job_service.create: one transaction.  Its admission check and its
\* quota rules decide whether it commits.
CreateJob ==
    /\ job.status = "none"
    /\ job' = [job EXCEPT !.status = "queued"]
    /\ res' = "reserved"
    /\ ev' = Appended(ev, "created", TRUE)
    /\ UNCHANGED <<wk, crashes, resDue, run, asset, objects, loc, faults>>

\* render_job_service.request_cancel; every other status answers 409.
RequestCancel ==
    /\ job.status \in {"queued", "submitting", "running"}
    /\ job' = [job EXCEPT !.status = "cancel_requested"]
    /\ ev' = Appended(ev, "cancel", TRUE)
    /\ UNCHANGED <<wk, crashes, res, resDue, run, asset, objects, loc, faults>>

\* The scheduler without the unique idempotency key.
ScheduleExpiryAgain ==
    /\ res = "reserved" /\ resDue
    /\ ev' = AppendedUpsert(ev, "expire", TRUE)
    /\ UNCHANGED <<wk, crashes, job, res, resDue, run, asset, objects, loc, faults>>

\* RenderQuotaExpiryScheduler, in the scheduling pass of any worker.
ScheduleExpiry ==
    /\ res = "reserved" /\ resDue
    /\ ev' = Appended(ev, "expire", TRUE)
    /\ UNCHANGED <<wk, crashes, job, res, resDue, run, asset, objects, loc, faults>>

ReservationExpires ==
    /\ res = "reserved" /\ ~resDue
    /\ resDue' = TRUE
    /\ UNCHANGED <<ev, wk, crashes, job, res, run, asset, objects, loc, faults>>

\* The Compute run ends by itself; after a cancellation request it may also
\* complete or fail first.
RunEnds ==
    /\ \/ run = "active" /\ run' \in {"completed", "failed"}
       \/ run = "cancelling" /\ run' \in {"completed", "failed", "cancelled"}
    /\ UNCHANGED <<ev, wk, crashes, job, res, resDue, asset, objects, loc, faults>>

-----------------------------------------------------------------------------
(* Handlers: common steps. *)

At(w, e, s) == wk[w].pc = "running" /\ wk[w].cur = e /\ loc[w] = s

Goto(w, s) ==
    /\ loc' = [loc EXCEPT ![w] = s]
    /\ UNCHANGED <<ev, wk, crashes, faults>>

\* The handler returns (ok), raises RescheduleOutboxEvent (defer) or any
\* other exception (error).
Return(w, o) ==
    /\ Returns(w, o)
    /\ loc' = [loc EXCEPT ![w] = "start"]
    /\ UNCHANGED faults

\* RenderWorker._fail
FailJob(w) ==
    /\ wk[w].pc = "running" /\ loc[w] = "fail"
    /\ FailAndRelease
    /\ Return(w, "ok")
    /\ UNCHANGED <<resDue, run, asset, objects>>

\* The cancel_and_release transaction of poll_run_status and
\* forward_cancellation.
CancelJob(w) ==
    /\ wk[w].pc = "running" /\ loc[w] = "cancel"
    /\ CancelAndRelease
    /\ Return(w, "ok")
    /\ UNCHANGED <<resDue, run, asset, objects>>

End(w) ==
    /\ wk[w].pc = "running" /\ loc[w] = "end"
    /\ Return(w, "ok")
    /\ UNCHANGED jobVars

\* A transaction of a handler fails and the handler raises.  Inside
\* create_from_completed_render the exception passes through
\* _mark_failure_and_queue_cleanup, which may fail as well.
TransactionFails(w) ==
    /\ faults < MaxFaults
    /\ wk[w].pc = "running"
    /\ faults' = faults + 1
    /\ UNCHANGED jobVars
    /\ \/ /\ loc[w] \notin {"post", "status", "manifest", "forward", "transfer",
                            "ingest", "finalize", "end"}
          /\ Returns(w, "error")
          /\ loc' = [loc EXCEPT ![w] = "start"]
       \/ /\ loc[w] \in {"ingest", "finalize"}
          /\ loc' = [loc EXCEPT ![w] = IF loc[w] = "ingest" THEN "reject" ELSE "undo"]
          /\ UNCHANGED <<ev, wk, crashes>>

-----------------------------------------------------------------------------
(* submit_image_video_or_mesh_run *)

SubmitClaim(w) ==
    /\ At(w, "created", "start")
    /\ UNCHANGED <<resDue, run, asset, objects>>
    /\ \/ /\ job.status \in {"queued", "submitting"}
          /\ job' = [job EXCEPT !.status = "submitting"]
          /\ UNCHANGED res
          /\ Goto(w, "post")
       \/ /\ job.status = "cancel_requested"
          /\ CancelAndRelease
          /\ Return(w, "ok")
       \/ /\ job.status \notin {"queued", "submitting", "cancel_requested"}
          /\ UNCHANGED <<job, res>>
          /\ Return(w, "ok")

\* create_durable_run.  The idempotency key makes a repeated call return the
\* run that exists; a call that times out, or whose answer is refused, may
\* still have created it.
SubmitPost(w) ==
    /\ At(w, "created", "post")
    /\ UNCHANGED <<job, res, resDue, asset, objects>>
    /\ LET started == IF run = "none" THEN "active" ELSE run IN
       \/ run' = started /\ Goto(w, "save")
       \/ run' \in {run, started} /\ Return(w, "error")
       \/ run' \in {run, started} /\ Goto(w, "fail")

\* Saving the run without looking at the locked status.
SavedRunBlind == [status |-> "running", runId |-> TRUE]

\* save_submission or save_run_id_if_cancelling, whichever applies.
SavedRun ==
    CASE job.status = "submitting" -> [status |-> "running", runId |-> TRUE]
      [] job.status = "cancel_requested" -> [job EXCEPT !.runId = TRUE]
      [] OTHER -> job

SubmitSave(w) ==
    /\ At(w, "created", "save")
    /\ job' = SavedRun
    /\ ev' = IF job.status = "submitting" THEN Appended(ev, "poll", TRUE) ELSE ev
    /\ loc' = [loc EXCEPT ![w] = "end"]
    /\ UNCHANGED <<wk, crashes, res, resDue, run, asset, objects, faults>>

-----------------------------------------------------------------------------
(* poll_run_status *)

\* read_snapshot takes no lock.
PollRead(w) ==
    /\ At(w, "poll", "start")
    /\ UNCHANGED jobVars
    /\ CASE job.status \in TERMINAL_STATUSES -> Return(w, "ok")
         [] job.status = "compute_succeeded" -> Goto(w, "ingest")
         [] job.status = "cancel_requested" -> Return(w, "defer")
         [] job.status = "running" -> Goto(w, "status")
         [] OTHER -> Return(w, "error")

PollStatus(w) ==
    /\ At(w, "poll", "status")
    /\ UNCHANGED jobVars
    /\ \/ Return(w, "error")
       \/ run \in {"active", "cancelling"} /\ Return(w, "defer")
       \/ run = "cancelled" /\ Goto(w, "cancel")
       \/ run = "failed" /\ Goto(w, "fail")
       \/ run = "completed" /\ Goto(w, "manifest")

\* The manifest is read, or cannot be, or names no acceptable master.
PollManifest(w) ==
    /\ At(w, "poll", "manifest")
    /\ UNCHANGED jobVars
    /\ Return(w, "error") \/ Goto(w, "fail") \/ Goto(w, "success")

SaveComputeSuccess(w) ==
    /\ At(w, "poll", "success")
    /\ UNCHANGED <<res, resDue, run, asset, objects>>
    /\ IF job.status = "running"
       THEN job' = [job EXCEPT !.status = "compute_succeeded"] /\ Goto(w, "ingest")
       ELSE UNCHANGED job /\ Return(w, "ok")

-----------------------------------------------------------------------------
(* AssetIngestionService.create_from_completed_render *)

\* Taking up the ingestion another worker is in the middle of.
IngestResume(w) ==
    /\ At(w, "poll", "ingest")
    /\ UNCHANGED <<res, resDue, run, objects>>
    /\ IF job.status \in {"compute_succeeded", "ingesting"}
       THEN /\ job' = [job EXCEPT !.status = "ingesting"]
            /\ asset' = IF asset = "none" THEN "processing" ELSE asset
            /\ Goto(w, "transfer")
       ELSE UNCHANGED <<job, asset>> /\ Return(w, "ok")

\* The first transaction.  "reject" is the exception path with asset_id None
\* or rolled back, "undo" the one that owns the asset row.  An asset that is
\* ready already completes the job.
IngestClaim(w) ==
    /\ At(w, "poll", "ingest")
    /\ UNCHANGED <<resDue, run, objects>>
    /\ \/ /\ job.status = "completed"
          /\ UNCHANGED <<job, res, asset>>
          /\ Return(w, "ok")
       \/ /\ job.status # "completed"
          /\ UNCHANGED <<job, res, asset>>
          /\ Goto(w, "reject")
       \/ /\ job.status = "compute_succeeded"
          /\ IF asset = "ready"
             THEN /\ EndJob({"ingesting", "compute_succeeded"}, "completed")
                  /\ UNCHANGED asset
                  /\ Return(w, "ok")
             ELSE /\ job' = [job EXCEPT !.status = "ingesting"]
                  /\ asset' = IF asset = "none" THEN "processing" ELSE asset
                  /\ UNCHANGED res
                  /\ Goto(w, "transfer")

\* Download, checksum and both uploads, without a lock.
Transfer(w) ==
    /\ At(w, "poll", "transfer")
    /\ UNCHANGED <<job, res, resDue, run, asset>>
    /\ \/ objects' = "stored" /\ Goto(w, "finalize")
       \/ objects' \in {objects, "stored"} /\ Goto(w, "undo")

\* Finalizing without looking at the status again.
FinalizeBlind(w) ==
    /\ At(w, "poll", "finalize")
    /\ UNCHANGED <<resDue, run>>
    /\ asset' = IF asset = "processing" THEN "ready" ELSE asset
    /\ objects' = "referenced"
    /\ EndJob({"ingesting", "compute_succeeded"}, "completed")
    /\ Return(w, "ok")

\* The second transaction, after looking at the status again.
Finalize(w) ==
    /\ At(w, "poll", "finalize")
    /\ UNCHANGED <<resDue, run>>
    /\ \/ /\ job.status \in {"ingesting", "compute_succeeded"}
          /\ asset' = IF asset = "processing" THEN "ready" ELSE asset
          /\ objects' = "referenced"
          /\ EndJob({"ingesting", "compute_succeeded"}, "completed")
          /\ Return(w, "ok")
       \/ /\ job.status \notin {"ingesting", "compute_succeeded"}
          /\ UNCHANGED <<job, res, asset, objects>>
          /\ Goto(w, "undo")

\* _mark_failure_and_queue_cleanup, then the exception goes on.
MarkFailure(w) ==
    /\ wk[w].pc = "running" /\ loc[w] \in {"reject", "undo"}
    /\ FailAndRelease
    /\ IF loc[w] = "undo"
       THEN /\ asset' = IF asset = "processing" THEN "failed" ELSE asset
            /\ objects' = IF objects = "stored" THEN "queued" ELSE objects
       ELSE UNCHANGED <<asset, objects>>
    /\ Return(w, "error")
    /\ UNCHANGED <<resDue, run>>

-----------------------------------------------------------------------------
(* forward_cancellation, expire_quota and the dead-letter handler *)

CancelRead(w) ==
    /\ At(w, "cancel", "start")
    /\ UNCHANGED jobVars
    /\ CASE job.status # "cancel_requested" -> Return(w, "ok")
         [] job.status = "cancel_requested" /\ ~job.runId -> Goto(w, "cancel")
         [] OTHER -> Goto(w, "forward")

\* POST cancel: a run that is over stays as it is; a lost answer may follow a
\* request that arrived.
CancelForward(w) ==
    /\ At(w, "cancel", "forward")
    /\ UNCHANGED <<job, res, resDue, asset, objects>>
    /\ LET told == IF run = "active" THEN "cancelling" ELSE run IN
       \/ run' = told /\ Goto(w, "cancel")
       \/ run' \in {run, told} /\ Return(w, "error")

\* Expiring only jobs that Compute has not accepted yet.
ExpireQuotaQueuedOnly(w) ==
    /\ At(w, "expire", "start")
    /\ UNCHANGED <<resDue, run, asset, objects>>
    /\ Return(w, "ok")
    /\ IF res = "reserved" /\ job.status \in {"queued", "submitting"}
       THEN res' = "expired" /\ job' = [job EXCEPT !.status = "failed"]
       ELSE UNCHANGED <<job, res>>

\* expire_reservation_and_terminalize.  The scheduler compared expires_at
\* with the database's clock, this handler compares it with its own: the
\* clocks are taken to agree.
ExpireQuota(w) ==
    /\ At(w, "expire", "start")
    /\ UNCHANGED <<resDue, run, asset, objects>>
    /\ Return(w, "ok")
    /\ IF res = "reserved"
       THEN IF job.status \in TERMINAL_STATUSES
            THEN res' = Released /\ UNCHANGED job
            ELSE /\ res' = "expired"
                 /\ job' = [job EXCEPT !.status =
                              IF @ = "cancel_requested" THEN "cancelled" ELSE "failed"]
       ELSE UNCHANGED <<job, res>>

\* fail_dead_letter; render.quota_expired.v1 has no dead-letter handler.  A
\* failing handler is logged and forgotten.
FailDeadLetter(w) ==
    /\ HandleDeadLetter(w)
    /\ \/ /\ wk[w].cur # "expire"
          /\ FailAndRelease
          /\ UNCHANGED faults
       \/ /\ wk[w].cur = "expire"
          /\ UNCHANGED <<job, res, faults>>
       \/ /\ faults < MaxFaults
          /\ faults' = faults + 1
          /\ UNCHANGED <<job, res>>
    /\ UNCHANGED <<resDue, run, asset, objects, loc>>

-----------------------------------------------------------------------------

HandlerStep(w) ==
    \/ SubmitClaim(w) \/ SubmitPost(w) \/ SubmitSave(w)
    \/ PollRead(w) \/ PollStatus(w) \/ PollManifest(w) \/ SaveComputeSuccess(w)
    \/ IngestClaim(w) \/ Transfer(w) \/ Finalize(w) \/ MarkFailure(w)
    \/ CancelRead(w) \/ CancelForward(w) \/ ExpireQuota(w)
    \/ FailJob(w) \/ CancelJob(w) \/ End(w)

\* The steps of the outbox that are no handler's; a crash forgets loc.
OutboxStep ==
    /\ \/ \E e \in Events : BecomesDue(e) \/ LeaseExpires(e)
       \/ \E w \in Workers :
             \/ \E S \in SUBSET Events : ClaimBatch(w, S)
             \/ \E e \in Events : Dispatch(w, e)
             \/ Heartbeat(w)
             \/ Settle(w)
    /\ UNCHANGED <<job, res, resDue, run, asset, objects, loc, faults>>

WorkerDies(w) ==
    /\ Crash(w)
    /\ loc' = [loc EXCEPT ![w] = "start"]
    /\ UNCHANGED <<job, res, resDue, run, asset, objects, faults>>

RenderNext ==
    \/ CreateJob \/ RequestCancel \/ ScheduleExpiry \/ ReservationExpires \/ RunEnds
    \/ OutboxStep
    \/ \E w \in Workers :
          HandlerStep(w) \/ FailDeadLetter(w) \/ TransactionFails(w) \/ WorkerDies(w)

RenderSpec == RenderInit /\ [][RenderNext]_renderVars

\* As in Outbox; handlers go on step by step, the scheduling pass runs
\* periodically, and the 24 hours of a reservation pass.
RenderFairness ==
    /\ \A e \in Events : WF_renderVars(BecomesDue(e) /\ OutboxStep)
    /\ \A e \in Events : WF_renderVars(LeaseExpires(e) /\ OutboxStep)
    /\ \A e \in Events : SF_renderVars(ClaimOf(e) /\ OutboxStep)
    /\ \A w \in Workers :
          /\ WF_renderVars((\E e \in Events : Dispatch(w, e)) /\ OutboxStep)
          /\ WF_renderVars(HandlerStep(w))
          /\ WF_renderVars(Settle(w) /\ OutboxStep)
          /\ WF_renderVars(FailDeadLetter(w))
    /\ WF_renderVars(ReservationExpires)
    /\ WF_renderVars(ScheduleExpiry)

FairRenderSpec == RenderSpec /\ RenderFairness

-----------------------------------------------------------------------------
(* Properties. *)

(* A job holds its quota reservation exactly as long as it is not          *)
(* terminal: no path out of a job, cancelled, failed, dead-lettered,       *)
(* expired or completed, keeps or frees the reservation alone.             *)
ReservationMatchesJob ==
    /\ job.status \in TERMINAL_STATUSES <=> res \in {"released", "expired"}
    /\ job.status = "none" <=> res = "none"

(* There is a ready asset, with its objects recorded and none of them      *)
(* queued for deletion, exactly when the job is completed.                 *)
AssetMatchesJob ==
    /\ job.status = "completed" <=> asset = "ready"
    /\ asset = "ready" <=> objects = "referenced"

(* Only one worker ingests the result, however often the poll event is     *)
(* delivered ("Exactly one ingestion path").                               *)
OneIngestion ==
    \A v, w \in Workers :
        /\ loc[v] \in {"transfer", "finalize", "undo"}
        /\ loc[w] \in {"transfer", "finalize", "undo"}
        => v = w

(* A terminal job never changes again: a submit, poll or ingestion that    *)
(* was in flight when the job was cancelled, failed or expired does not    *)
(* revive it (the expected sets of set_status, save_submission and         *)
(* save_compute_success).                                                  *)
JobOutcomeIsFinal ==
    [][job.status \in TERMINAL_STATUSES => job' = job]_renderVars

(* An accepted cancellation ends in "cancelled", whatever fails            *)
(* concurrently (fail_and_release).                                        *)
CancelWins ==
    [][job.status = "cancel_requested"
          => job'.status \in {"cancel_requested", "cancelled"}]_renderVars

(* Every job ends, even if workers die at any point, events are            *)
(* dead-lettered or the Compute run hangs: the expiry of its reservation   *)
(* is the last resort.                                                     *)
EveryJobEnds == job.status # "none" ~> job.status \in TERMINAL_STATUSES

(* A job that is being ingested is not failed by another delivery of the   *)
(* same poll event.                                                        *)
DuplicateDeliveryIsHarmless ==
    [][\A v, w \in Workers :
          /\ v # w
          /\ loc[v] \in {"transfer", "finalize"} /\ loc'[v] = loc[v]
          /\ wk[w].cur = "poll" /\ loc'[w] # loc[w]
          => ~(job.status = "ingesting" /\ job'.status = "failed")]_renderVars
=============================================================================
