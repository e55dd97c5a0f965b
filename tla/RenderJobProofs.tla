-------------------------- MODULE RenderJobProofs --------------------------
(***************************************************************************)
(* Proofs about RenderJob, for any number of workers, any batch size and   *)
(* retry budget, and any number of crashes and failing transactions.       *)
(***************************************************************************)
EXTENDS RenderJob, OutboxProofs

JobRow == [status: JobStatuses, runId: BOOLEAN]
ReservationStates == {"none", "reserved", "released", "expired"}

\* The type invariant without the part that is the outbox's.
JobTypeOK ==
    /\ job \in JobRow
    /\ res \in ReservationStates
    /\ resDue \in BOOLEAN
    /\ run \in RunStates
    /\ asset \in {"none", "processing", "ready", "failed"}
    /\ objects \in {"none", "stored", "referenced", "queued"}
    /\ loc \in [Workers -> Steps]
    /\ faults \in 0..MaxFaults

\* The steps between the two transactions of an ingestion, and the statuses
\* from the first of them on.
IngestSteps == {"transfer", "finalize", "undo"}
Late == {"ingesting", "completed", "failed"}

\* What an ingestion has done so far is known from the job's status alone.
IngestInv ==
    /\ job.status \notin Late => asset = "none" /\ objects = "none"
    /\ job.status \notin {"ingesting", "failed"} => \A w \in Workers : loc[w] \notin IngestSteps
    /\ job.status = "ingesting" => asset = "processing" /\ objects \in {"none", "stored"}
    /\ job.status = "completed" => asset = "ready" /\ objects = "referenced"
    /\ job.status = "failed" => asset # "ready" /\ objects # "referenced"
    /\ OneIngestion

RenderInv == JobTypeOK /\ ReservationMatchesJob /\ IngestInv

-----------------------------------------------------------------------------
(* What a step may do to the job and its reservation. *)

Live == {"queued", "submitting", "running", "cancel_requested", "compute_succeeded", "ingesting"}

Kept == job' = job /\ res' = res
Created == job.status = "none" /\ job'.status = "queued" /\ res' = "reserved"
Progress ==
    /\ job.status \in Live /\ job'.status \in Live /\ res' = res
    /\ job.status = "cancel_requested" => job'.status = "cancel_requested"
Ends ==
    /\ job.status \in Live /\ job'.status \in TERMINAL_STATUSES
    /\ res' \in {"released", "expired"}
    /\ job.status = "cancel_requested" => job'.status = "cancelled"
JobMove == Kept \/ Created \/ Progress \/ Ends

\* Moves that do not concern the ingestion.
CalmMove ==
    \/ job'.status = job.status
    \/ job.status # "completed" /\ job'.status = "failed"
    \/ job.status \notin Late /\ job'.status \notin Late
Calm ==
    /\ UNCHANGED <<asset, objects>>
    /\ \A w \in Workers : loc'[w] \in IngestSteps => loc'[w] = loc[w]
    /\ CalmMove

JobPart == job' \in JobRow /\ res' \in ReservationStates /\ JobMove /\ CalmMove

(* A transaction that leaves the job alone.                                *)
LEMMA KeptPart ==
    ASSUME JobTypeOK, job' = job, res' = res PROVE JobPart
  BY DEF JobTypeOK, JobPart, JobMove, Kept, CalmMove

(* set_status with release_reservation, for a job that may not be          *)
(* completed.                                                              *)
LEMMA EndPart ==
    ASSUME JobTypeOK, ReservationMatchesJob,
           NEW X \in SUBSET Live, NEW t \in {"failed", "cancelled"}, EndJob(X, t),
           t = "failed" => "cancel_requested" \notin X,
           t = "cancelled" => X \cap Late = {}
    PROVE  JobPart
<1>1. CASE job.status \notin X
  <2>1. job' = job /\ res' = res
    BY <1>1 DEF EndJob
  <2> QED
    BY <2>1, KeptPart
<1>2. CASE job.status \in X
  <2>1. job' = [job EXCEPT !.status = t] /\ res' = Released
    BY <1>2 DEF EndJob
  <2>2. job.status \in Live
    BY <1>2
  <2>3. res = "reserved"
    BY <2>2 DEF JobTypeOK, ReservationMatchesJob, TERMINAL_STATUSES, Live, ReservationStates
  <2>4. job'.status = t /\ job' \in JobRow /\ res' = "released"
    BY <2>1, <2>3 DEF JobTypeOK, JobRow, JobStatuses, TERMINAL_STATUSES, Released
  <2>5. Ends
    BY <2>2, <2>4, <1>2 DEF Ends, TERMINAL_STATUSES
  <2>6. CalmMove
    BY <2>2, <2>4, <1>2 DEF CalmMove, Late, Live
  <2> QED
    BY <2>4, <2>5, <2>6 DEF JobPart, JobMove, ReservationStates
<1> QED
  BY <1>1, <1>2

(* cancel_and_release.                                                     *)
LEMMA CancelPart ==
    ASSUME JobTypeOK, ReservationMatchesJob, CancelAndRelease PROVE JobPart
<1>1. EndJob({"queued", "submitting", "running", "cancel_requested"}, "cancelled")
  BY DEF CancelAndRelease
<1>2. PICK X : X = {"queued", "submitting", "running", "cancel_requested"}
  OBVIOUS
<1>3. X \in SUBSET Live /\ X \cap Late = {}
  BY <1>2 DEF Live, Late
<1> QED
  BY <1>1, <1>2, <1>3, EndPart

(* fail_and_release.                                                       *)
LEMMA FailPart ==
    ASSUME JobTypeOK, ReservationMatchesJob, FailAndRelease PROVE JobPart
<1>1. CASE job.status = "cancel_requested"
  BY <1>1, CancelPart DEF FailAndRelease
<1>2. CASE job.status # "cancel_requested"
  <2>1. EndJob({"queued", "submitting", "running", "compute_succeeded", "ingesting"}, "failed")
    BY <1>2 DEF FailAndRelease
  <2>2. PICK X : X = {"queued", "submitting", "running", "compute_succeeded", "ingesting"}
    OBVIOUS
  <2>3. X \in SUBSET Live /\ "cancel_requested" \notin X
    BY <2>2 DEF Live
  <2> QED
    BY <2>1, <2>2, <2>3, EndPart
<1> QED
  BY <1>1, <1>2

(* expire_reservation_and_terminalize.                                     *)
LEMMA ExpirePart ==
    ASSUME JobTypeOK, ReservationMatchesJob, res = "reserved", res' = "expired",
           job' = [job EXCEPT !.status =
                     IF @ = "cancel_requested" THEN "cancelled" ELSE "failed"]
    PROVE  JobPart
<1>1. job.status \in Live
  BY DEF JobTypeOK, JobRow, JobStatuses, ReservationMatchesJob, TERMINAL_STATUSES, Live
<1>2. /\ job' \in JobRow
      /\ job'.status = IF job.status = "cancel_requested" THEN "cancelled" ELSE "failed"
  BY DEF JobTypeOK, JobRow, JobStatuses, TERMINAL_STATUSES
<1>3. Ends
  BY <1>1, <1>2 DEF Ends, TERMINAL_STATUSES
<1>4. CalmMove
  BY <1>1, <1>2 DEF CalmMove, Late, Live
<1> QED
  BY <1>2, <1>3, <1>4 DEF JobPart, JobMove, ReservationStates

(* A change between two statuses before the ingestion.                     *)
LEMMA ProgressPart ==
    ASSUME JobTypeOK, job.status \in Live \ Late, NEW t \in Live \ Late, NEW b \in BOOLEAN,
           job' = [status |-> t, runId |-> b], res' = res,
           job.status = "cancel_requested" => t = "cancel_requested"
    PROVE  JobPart
  BY DEF JobTypeOK, JobPart, JobRow, JobMove, Progress, CalmMove, Live, Late, JobStatuses

-----------------------------------------------------------------------------
(* The steps. *)

\* What the invariants need to know of a step: how it moves the job, that it
\* keeps the types, and that it is calm or one of the steps of an ingestion.
IngestMove ==
    \E w \in Workers :
        \/ IngestClaim(w) /\ job.status = "compute_succeeded" /\ job'.status # job.status
        \/ Transfer(w)
        \/ Finalize(w)
        \/ MarkFailure(w) /\ loc[w] = "undo"
        \/ TransactionFails(w) /\ loc[w] = "finalize"
StepFacts == JobTypeOK' /\ JobMove /\ (Calm \/ IngestMove)

(* A calm step that moves one worker, or none.                             *)
LEMMA CalmStep ==
    ASSUME JobTypeOK, JobPart, UNCHANGED <<asset, objects>>,
           resDue' \in BOOLEAN, run' \in RunStates, faults' \in 0..MaxFaults,
           \/ loc' = loc
           \/ \E w \in Workers, s \in Steps \ IngestSteps : loc' = [loc EXCEPT ![w] = s]
    PROVE  StepFacts
<1>1. /\ loc' \in [Workers -> Steps]
      /\ \A w \in Workers : loc'[w] \in IngestSteps => loc'[w] = loc[w]
  BY DEF JobTypeOK
<1>2. Calm
  BY <1>1 DEF Calm, JobPart
<1>3. JobTypeOK'
  BY <1>1 DEF JobTypeOK, JobPart
<1> QED
  BY <1>2, <1>3 DEF StepFacts, JobPart

(* Every handler step.                                                     *)
LEMMA HandlerFacts ==
    ASSUME JobTypeOK, ReservationMatchesJob, NEW w \in Workers, HandlerStep(w)
    PROVE  StepFacts
<1>t. /\ job \in JobRow /\ res \in ReservationStates /\ resDue \in BOOLEAN
      /\ run \in RunStates /\ loc \in [Workers -> Steps] /\ faults \in 0..MaxFaults
  BY DEF JobTypeOK
<1>g. ASSUME NEW s \in Steps \ IngestSteps, Goto(w, s)
      PROVE  faults' \in 0..MaxFaults /\ loc' = [loc EXCEPT ![w] = s]
  BY <1>g, <1>t DEF Goto
<1>r. ASSUME NEW o, Return(w, o)
      PROVE  /\ faults' \in 0..MaxFaults
             /\ \E s \in Steps \ IngestSteps : loc' = [loc EXCEPT ![w] = s]
  BY <1>r, <1>t DEF Return, Steps, IngestSteps
<1>k. ASSUME UNCHANGED jobVars,
             \/ \E o : Return(w, o)
             \/ \E s \in Steps \ IngestSteps : Goto(w, s)
      PROVE  StepFacts
  <2>1. /\ job' = job /\ res' = res /\ UNCHANGED <<asset, objects>>
        /\ resDue' \in BOOLEAN /\ run' \in RunStates
    BY <1>k, <1>t DEF jobVars
  <2>2. JobPart
    BY <2>1, KeptPart
  <2> QED
    BY <2>1, <2>2, <1>k, <1>g, <1>r, CalmStep
<1>1. CASE SubmitClaim(w)
  <2>0. UNCHANGED <<resDue, run, asset, objects>>
    BY <1>1 DEF SubmitClaim
  <2>1. CASE /\ job.status \in {"queued", "submitting"}
             /\ job' = [job EXCEPT !.status = "submitting"] /\ UNCHANGED res /\ Goto(w, "post")
    <3>1. PICK b \in BOOLEAN : job' = [status |-> "submitting", runId |-> b]
      BY <2>1, <1>t DEF JobRow
    <3>2. JobPart
      BY <2>1, <3>1, ProgressPart DEF Live, Late
    <3>3. "post" \in Steps \ IngestSteps
      BY DEF Steps, IngestSteps
    <3> QED
      BY <2>0, <2>1, <3>2, <3>3, <1>g, <1>t, CalmStep
  <2>2. CASE CancelAndRelease /\ Return(w, "ok")
    BY <2>0, <2>2, <1>r, <1>t, CancelPart, CalmStep
  <2>3. CASE UNCHANGED <<job, res>> /\ Return(w, "ok")
    BY <2>0, <2>3, <1>r, <1>t, KeptPart, CalmStep
  <2> QED
    BY <1>1, <2>1, <2>2, <2>3 DEF SubmitClaim
<1>2. CASE SubmitPost(w)
  <2>1. UNCHANGED <<job, res, resDue, asset, objects>> /\ run' \in RunStates
    BY <1>2, <1>t DEF SubmitPost, RunStates
  <2>2. \/ \E o : Return(w, o)
        \/ \E s \in Steps \ IngestSteps : Goto(w, s)
    BY <1>2 DEF SubmitPost, Steps, IngestSteps
  <2> QED
    BY <2>1, <2>2, <1>g, <1>r, <1>t, KeptPart, CalmStep
<1>3. CASE SubmitSave(w)
  <2>1. /\ UNCHANGED <<res, resDue, run, asset, objects, faults>> /\ job' = SavedRun
        /\ loc' = [loc EXCEPT ![w] = "end"]
    BY <1>3 DEF SubmitSave
  <2>2. JobPart
    <3>1. CASE job.status = "submitting"
      <4>1. job' = [status |-> "running", runId |-> TRUE]
        BY <3>1, <2>1 DEF SavedRun
      <4> QED
        BY <4>1, <3>1, <2>1, ProgressPart DEF Live, Late
    <3>2. CASE job.status = "cancel_requested"
      <4>1. job' = [status |-> "cancel_requested", runId |-> TRUE]
        BY <3>2, <2>1, <1>t DEF SavedRun, JobRow
      <4> QED
        BY <4>1, <3>2, <2>1, ProgressPart DEF Live, Late
    <3>3. CASE job.status \notin {"submitting", "cancel_requested"}
      BY <3>3, <2>1, KeptPart DEF SavedRun
    <3> QED
      BY <3>1, <3>2, <3>3
  <2>3. "end" \in Steps \ IngestSteps
    BY DEF Steps, IngestSteps
  <2> QED
    BY <2>1, <2>2, <2>3, <1>t, CalmStep
<1>4. CASE PollRead(w)
  <2>1. UNCHANGED jobVars /\ (Return(w, "ok") \/ Goto(w, "ingest") \/ Return(w, "defer")
                               \/ Goto(w, "status") \/ Return(w, "error"))
    BY <1>4 DEF PollRead
  <2> QED
    BY <2>1, <1>k DEF Steps, IngestSteps
<1>5. CASE PollStatus(w)
  BY <1>5, <1>k DEF PollStatus, Steps, IngestSteps
<1>6. CASE PollManifest(w)
  BY <1>6, <1>k DEF PollManifest, Steps, IngestSteps
<1>7. CASE SaveComputeSuccess(w)
  <2>0. UNCHANGED <<res, resDue, run, asset, objects>>
    BY <1>7 DEF SaveComputeSuccess
  <2>1. CASE job.status = "running"
    <3>1. job' = [job EXCEPT !.status = "compute_succeeded"] /\ Goto(w, "ingest")
      BY <2>1, <1>7 DEF SaveComputeSuccess
    <3>2. PICK b \in BOOLEAN : job' = [status |-> "compute_succeeded", runId |-> b]
      BY <3>1, <1>t DEF JobRow
    <3>3. JobPart
      BY <2>0, <2>1, <3>2, ProgressPart DEF Live, Late
    <3>4. "ingest" \in Steps \ IngestSteps
      BY DEF Steps, IngestSteps
    <3> QED
      BY <2>0, <3>1, <3>3, <3>4, <1>g, <1>t, CalmStep
  <2>2. CASE job.status # "running"
    <3>1. job' = job /\ Return(w, "ok")
      BY <2>2, <1>7 DEF SaveComputeSuccess
    <3> QED
      BY <2>0, <3>1, <1>r, <1>t, KeptPart, CalmStep
  <2> QED
    BY <2>1, <2>2
<1>8. CASE IngestClaim(w)
  <2>1. CASE UNCHANGED <<job, res, asset>> /\ (Return(w, "ok") \/ Goto(w, "reject"))
    <3>1. UNCHANGED jobVars
      BY <2>1, <1>8 DEF IngestClaim, jobVars
    <3> QED
      BY <2>1, <3>1, <1>k DEF Steps, IngestSteps
  <2>2. CASE /\ job.status = "compute_succeeded"
             /\ job' = [job EXCEPT !.status = "ingesting"]
             /\ asset' = IF asset = "none" THEN "processing" ELSE asset
             /\ UNCHANGED res
             /\ Goto(w, "transfer")
    <3>0. UNCHANGED <<res, resDue, run, objects>>
      BY <1>8, <2>2 DEF IngestClaim
    <3>1. job' \in JobRow /\ job'.status = "ingesting"
      BY <2>2, <1>t DEF JobRow, JobStatuses
    <3>2. JobMove
      BY <3>0, <3>1, <2>2 DEF JobMove, Progress, Live
    <3>3. IngestMove
      BY <3>1, <2>2, <1>8 DEF IngestMove
    <3>4. loc' \in [Workers -> Steps] /\ faults' = faults
      BY <2>2, <1>t DEF Goto, Steps
    <3>5. JobTypeOK'
      BY <3>0, <3>1, <3>4, <2>2, <1>t DEF JobTypeOK
    <3> QED
      BY <3>2, <3>3, <3>5 DEF StepFacts
  <2>3. CASE /\ job.status = "compute_succeeded"
             /\ EndJob({"ingesting", "compute_succeeded"}, "completed")
             /\ UNCHANGED asset
             /\ Return(w, "ok")
    <3>0. UNCHANGED <<resDue, run, asset, objects>>
      BY <1>8, <2>3 DEF IngestClaim
    <3>1. job' = [job EXCEPT !.status = "completed"] /\ res' = Released
      BY <2>3 DEF EndJob
    <3>2. res = "reserved"
      BY <2>3, <1>t DEF ReservationMatchesJob, TERMINAL_STATUSES, ReservationStates
    <3>3. job' \in JobRow /\ job'.status = "completed" /\ res' = "released"
      BY <3>1, <3>2, <1>t DEF JobRow, JobStatuses, TERMINAL_STATUSES, Released
    <3>4. JobMove
      BY <3>3, <2>3 DEF JobMove, Ends, Live, TERMINAL_STATUSES
    <3>5. loc' \in [Workers -> Steps] /\ faults' = faults
      BY <2>3, <1>t DEF Return, Steps
    <3>6. JobTypeOK'
      BY <3>0, <3>3, <3>5, <1>t DEF JobTypeOK, ReservationStates
    <3>7. IngestMove
      BY <1>8, <2>3, <3>3 DEF IngestMove
    <3> QED
      BY <3>4, <3>6, <3>7 DEF StepFacts
  <2> QED
    BY <1>8, <2>1, <2>2, <2>3 DEF IngestClaim
<1>9. CASE Transfer(w)
  <2>1. UNCHANGED <<job, res, resDue, run, asset>> /\ objects' \in {objects, "stored"}
    BY <1>9 DEF Transfer
  <2>2. loc' \in [Workers -> Steps] /\ faults' = faults
    BY <1>9, <1>t DEF Transfer, Goto, Steps
  <2>3. JobTypeOK'
    BY <2>1, <2>2, <1>t DEF JobTypeOK
  <2> QED
    BY <2>1, <2>3, <1>9 DEF StepFacts, JobMove, Kept, IngestMove
<1>10. CASE Finalize(w)
  <2>0. IngestMove /\ UNCHANGED <<resDue, run>>
    BY <1>10 DEF IngestMove, Finalize
  <2>1. CASE /\ job.status \in {"ingesting", "compute_succeeded"}
             /\ asset' = IF asset = "processing" THEN "ready" ELSE asset
             /\ objects' = "referenced"
             /\ EndJob({"ingesting", "compute_succeeded"}, "completed")
             /\ Return(w, "ok")
    <3>1. job' = [job EXCEPT !.status = "completed"] /\ res' = Released
      BY <2>1 DEF EndJob
    <3>2. res = "reserved"
      BY <2>1, <1>t DEF ReservationMatchesJob, TERMINAL_STATUSES, ReservationStates
    <3>3. job' \in JobRow /\ job'.status = "completed" /\ res' = "released"
      BY <3>1, <3>2, <1>t DEF JobRow, JobStatuses, TERMINAL_STATUSES, Released
    <3>4. JobMove
      BY <3>3, <2>1 DEF JobMove, Ends, Live, TERMINAL_STATUSES
    <3>5. loc' \in [Workers -> Steps] /\ faults' = faults
      BY <2>1, <1>t DEF Return, Steps
    <3>6. JobTypeOK'
      BY <3>3, <3>5, <2>0, <2>1, <1>t DEF JobTypeOK, ReservationStates
    <3> QED
      BY <3>4, <3>6, <2>0 DEF StepFacts
  <2>2. CASE UNCHANGED <<job, res, asset, objects>> /\ Goto(w, "undo")
    <3>1. loc' \in [Workers -> Steps] /\ faults' = faults
      BY <2>2, <1>t DEF Goto, Steps
    <3>2. JobTypeOK'
      BY <3>1, <2>0, <2>2, <1>t DEF JobTypeOK
    <3> QED
      BY <3>2, <2>0, <2>2 DEF StepFacts, JobMove, Kept
  <2> QED
    BY <1>10, <2>1, <2>2 DEF Finalize
<1>11. CASE MarkFailure(w)
  <2>0. FailAndRelease /\ UNCHANGED <<resDue, run>> /\ Return(w, "error")
        /\ loc[w] \in {"reject", "undo"}
    BY <1>11 DEF MarkFailure
  <2>1. JobPart
    BY <2>0, FailPart
  <2>2. CASE loc[w] = "reject"
    <3>1. UNCHANGED <<asset, objects>>
      BY <2>2, <1>11 DEF MarkFailure
    <3> QED
      BY <2>0, <2>1, <3>1, <1>r, <1>t, CalmStep
  <2>3. CASE loc[w] = "undo"
    <3>1. /\ asset' = IF asset = "processing" THEN "failed" ELSE asset
          /\ objects' = IF objects = "stored" THEN "queued" ELSE objects
      BY <2>3, <1>11 DEF MarkFailure
    <3>2. loc' \in [Workers -> Steps] /\ faults' = faults
      BY <2>0, <1>t DEF Return, Steps
    <3>3. JobTypeOK'
      BY <2>0, <2>1, <3>1, <3>2, <1>t DEF JobTypeOK, JobPart
    <3> QED
      BY <2>1, <2>3, <3>3, <1>11 DEF StepFacts, JobPart, IngestMove
  <2> QED
    BY <2>0, <2>2, <2>3
<1>12. CASE CancelRead(w)
  <2>1. UNCHANGED jobVars /\ (Return(w, "ok") \/ Goto(w, "cancel") \/ Goto(w, "forward"))
    BY <1>12 DEF CancelRead
  <2> QED
    BY <2>1, <1>k DEF Steps, IngestSteps
<1>13. CASE CancelForward(w)
  <2>1. UNCHANGED <<job, res, resDue, asset, objects>> /\ run' \in RunStates
    BY <1>13, <1>t DEF CancelForward, RunStates
  <2>2. \/ \E o : Return(w, o)
        \/ \E s \in Steps \ IngestSteps : Goto(w, s)
    BY <1>13 DEF CancelForward, Steps, IngestSteps
  <2> QED
    BY <2>1, <2>2, <1>g, <1>r, <1>t, KeptPart, CalmStep
<1>14. CASE ExpireQuota(w)
  <2>0. UNCHANGED <<resDue, run, asset, objects>> /\ Return(w, "ok")
    BY <1>14 DEF ExpireQuota
  <2>1. ~(res = "reserved" /\ job.status \in TERMINAL_STATUSES)
    BY DEF ReservationMatchesJob
  <2>2. JobPart
    BY <1>14, <2>1, ExpirePart, KeptPart DEF ExpireQuota
  <2> QED
    BY <2>0, <2>2, <1>r, <1>t, CalmStep
<1>15. CASE FailJob(w)
  <2>0. FailAndRelease /\ UNCHANGED <<resDue, run, asset, objects>> /\ Return(w, "ok")
    BY <1>15 DEF FailJob
  <2> QED
    BY <2>0, <1>r, <1>t, FailPart, CalmStep
<1>16. CASE CancelJob(w)
  <2>0. CancelAndRelease /\ UNCHANGED <<resDue, run, asset, objects>> /\ Return(w, "ok")
    BY <1>16 DEF CancelJob
  <2> QED
    BY <2>0, <1>r, <1>t, CancelPart, CalmStep
<1>17. CASE End(w)
  BY <1>17, <1>k DEF End
<1> QED
  BY <1>1, <1>2, <1>3, <1>4, <1>5, <1>6, <1>7, <1>8, <1>9, <1>10, <1>11, <1>12, <1>13,
     <1>14, <1>15, <1>16, <1>17 DEF HandlerStep

(* Every step of the system.                                               *)
LEMMA RenderFacts ==
    ASSUME JobTypeOK, ReservationMatchesJob, RenderNext
    PROVE  StepFacts
<1>t. /\ job \in JobRow /\ res \in ReservationStates /\ resDue \in BOOLEAN
      /\ run \in RunStates /\ loc \in [Workers -> Steps] /\ faults \in 0..MaxFaults
  BY DEF JobTypeOK
<1>1. CASE CreateJob
  <2>1. /\ job.status = "none" /\ job' = [job EXCEPT !.status = "queued"] /\ res' = "reserved"
        /\ UNCHANGED <<resDue, run, asset, objects, loc, faults>>
    BY <1>1 DEF CreateJob
  <2>2. job' \in JobRow /\ job'.status = "queued"
    BY <2>1, <1>t DEF JobRow, JobStatuses
  <2>3. JobPart
    BY <2>1, <2>2 DEF JobPart, JobMove, Created, CalmMove, Late, ReservationStates
  <2> QED
    BY <2>1, <2>3, <1>t, CalmStep
<1>2. CASE RequestCancel
  <2>1. /\ job.status \in {"queued", "submitting", "running"} /\ UNCHANGED res
        /\ job' = [job EXCEPT !.status = "cancel_requested"]
        /\ UNCHANGED <<resDue, run, asset, objects, loc, faults>>
    BY <1>2 DEF RequestCancel
  <2>2. PICK b \in BOOLEAN : job' = [status |-> "cancel_requested", runId |-> b]
    BY <2>1, <1>t DEF JobRow
  <2>3. JobPart
    BY <2>1, <2>2, ProgressPart DEF Live, Late
  <2> QED
    BY <2>1, <2>3, <1>t, CalmStep
<1>3. ASSUME UNCHANGED <<job, res, asset, objects, loc, faults>>,
             resDue' \in BOOLEAN, run' \in RunStates
      PROVE  StepFacts
  BY <1>3, <1>t, KeptPart, CalmStep
<1>4. CASE ScheduleExpiry \/ ReservationExpires \/ RunEnds \/ OutboxStep
  BY <1>3, <1>4, <1>t DEF ScheduleExpiry, ReservationExpires, RunEnds, OutboxStep, RunStates
<1>5. ASSUME NEW w \in Workers, FailDeadLetter(w) PROVE StepFacts
  <2>1. UNCHANGED <<resDue, run, asset, objects, loc>> /\ (FailAndRelease \/ UNCHANGED <<job, res>>)
    BY <1>5 DEF FailDeadLetter
  <2>2. JobPart
    BY <2>1, FailPart, KeptPart
  <2>3. faults' \in 0..MaxFaults
    BY <1>5, <1>t, RenderAssumption DEF FailDeadLetter
  <2> QED
    BY <2>1, <2>2, <2>3, <1>t, CalmStep
<1>6. ASSUME NEW w \in Workers, TransactionFails(w) PROVE StepFacts
  <2>1. /\ job' = job /\ res' = res /\ UNCHANGED <<resDue, run, asset, objects>>
        /\ faults' \in 0..MaxFaults
    BY <1>6, <1>t, RenderAssumption DEF TransactionFails, jobVars
  <2>2. CASE loc[w] = "finalize"
    <3>1. loc' = [loc EXCEPT ![w] = "undo"]
      BY <2>2, <1>6 DEF TransactionFails
    <3>2. loc' \in [Workers -> Steps]
      BY <3>1, <1>t DEF Steps
    <3>3. JobTypeOK'
      BY <2>1, <3>2, <1>t DEF JobTypeOK
    <3> QED
      BY <3>3, <2>1, <2>2, <1>6 DEF StepFacts, JobMove, Kept, IngestMove
  <2>3. CASE loc[w] # "finalize"
    <3>1. \E s \in Steps \ IngestSteps : loc' = [loc EXCEPT ![w] = s]
      BY <2>3, <1>6 DEF TransactionFails, Steps, IngestSteps
    <3> QED
      BY <3>1, <2>1, <1>t, KeptPart, CalmStep
  <2> QED
    BY <2>2, <2>3
<1>7. ASSUME NEW w \in Workers, WorkerDies(w) PROVE StepFacts
  <2>1. /\ loc' = [loc EXCEPT ![w] = "start"]
        /\ UNCHANGED <<job, res, resDue, run, asset, objects, faults>>
    BY <1>7 DEF WorkerDies
  <2>2. "start" \in Steps \ IngestSteps
    BY DEF Steps, IngestSteps
  <2> QED
    BY <2>1, <2>2, <1>t, KeptPart, CalmStep
<1> QED
  BY <1>1, <1>2, <1>4, <1>5, <1>6, <1>7, HandlerFacts DEF RenderNext

-----------------------------------------------------------------------------
(* The inductive invariant. *)

(* The moves of a job keep the reservation with it.                        *)
LEMMA ReservationStep ==
    ASSUME JobTypeOK, JobTypeOK', ReservationMatchesJob, JobMove
    PROVE  ReservationMatchesJob'
<1>1. CASE Kept
  BY <1>1 DEF Kept, ReservationMatchesJob
<1>2. CASE Created
  BY <1>2 DEF Created, ReservationMatchesJob, TERMINAL_STATUSES
<1>3. CASE Progress
  BY <1>3 DEF Progress, ReservationMatchesJob, TERMINAL_STATUSES, Live
<1>4. CASE Ends
  BY <1>4 DEF Ends, ReservationMatchesJob, TERMINAL_STATUSES
<1> QED
  BY <1>1, <1>2, <1>3, <1>4 DEF JobMove

(* Calm steps and the steps of an ingestion keep track of it.              *)
LEMMA IngestStep ==
    ASSUME JobTypeOK, IngestInv, JobMove, Calm \/ IngestMove
    PROVE  IngestInv'
<1>t. loc \in [Workers -> Steps] /\ job \in JobRow
  BY DEF JobTypeOK
<1>1. CASE Calm
  <2>1. OneIngestion'
    BY <1>1 DEF Calm, IngestInv, OneIngestion, IngestSteps
  <2>2. CASE job'.status = job.status
    BY <2>1, <2>2, <1>1 DEF Calm, IngestInv
  <2>3. CASE job.status # "completed" /\ job'.status = "failed"
    BY <2>1, <2>3, <1>1 DEF Calm, IngestInv, Late
  <2>4. CASE job.status \notin Late /\ job'.status \notin Late
    BY <2>1, <2>4, <1>1 DEF Calm, IngestInv, Late
  <2> QED
    BY <1>1, <2>2, <2>3, <2>4 DEF Calm, CalmMove
<1>o. ASSUME NEW w \in Workers, loc[w] \in IngestSteps
      PROVE  /\ job.status \in {"ingesting", "failed"}
             /\ \A v \in Workers : v # w => loc[v] \notin IngestSteps
  BY <1>o DEF IngestInv, OneIngestion, IngestSteps
<1>l. ASSUME NEW w \in Workers, \A v \in Workers : v # w => loc[v] \notin IngestSteps,
             NEW s, loc' = [loc EXCEPT ![w] = s]
      PROVE  /\ OneIngestion'
             /\ s \notin IngestSteps => \A v \in Workers : loc'[v] \notin IngestSteps
  BY <1>l, <1>t DEF OneIngestion, IngestSteps
<1>2. ASSUME NEW w \in Workers,
             IngestClaim(w), job.status = "compute_succeeded", job'.status # job.status
      PROVE  IngestInv'
  <2>1. /\ asset = "none" /\ objects = "none"
        /\ \A v \in Workers : loc[v] \notin IngestSteps
    BY <1>2 DEF IngestInv, Late
  <2>2. /\ asset' = "processing" /\ objects' = "none" /\ loc' = [loc EXCEPT ![w] = "transfer"]
        /\ job' = [job EXCEPT !.status = "ingesting"]
    BY <2>1, <1>2 DEF IngestClaim, Goto
  <2>3. OneIngestion'
    BY <2>1, <2>2, <1>l
  <2> QED
    BY <2>2, <2>3, <1>2 DEF IngestInv, Late
<1>3. ASSUME NEW w \in Workers, Transfer(w) PROVE IngestInv'
  <2>1. loc[w] \in IngestSteps
    BY <1>3 DEF Transfer, At, IngestSteps
  <2>2. \E s : loc' = [loc EXCEPT ![w] = s]
    BY <1>3 DEF Transfer, Goto
  <2>3. OneIngestion'
    BY <2>1, <2>2, <1>o, <1>l
  <2>4. UNCHANGED <<job, asset>> /\ objects' \in {objects, "stored"}
    BY <1>3 DEF Transfer
  <2> QED
    BY <2>1, <2>3, <2>4, <1>o DEF IngestInv, Late
<1>4. ASSUME NEW w \in Workers, Finalize(w) PROVE IngestInv'
  <2>1. loc[w] \in IngestSteps
    BY <1>4 DEF Finalize, At, IngestSteps
  <2>2. CASE job.status \in {"ingesting", "compute_succeeded"}
    <3>1. /\ asset' = IF asset = "processing" THEN "ready" ELSE asset
          /\ objects' = "referenced" /\ job' = [job EXCEPT !.status = "completed"]
          /\ loc' = [loc EXCEPT ![w] = "start"]
      BY <2>2, <1>4 DEF Finalize, EndJob, Return
    <3>2. asset' = "ready"
      BY <3>1, <2>1, <2>2, <1>o DEF IngestInv
    <3>3. job'.status = "completed"
      BY <3>1, <1>t DEF JobRow
    <3>4. OneIngestion' /\ \A v \in Workers : loc'[v] \notin IngestSteps
      <4>1. "start" \notin IngestSteps
        BY DEF IngestSteps
      <4> QED
        BY <3>1, <2>1, <4>1, <1>o, <1>l
    <3> QED
      BY <3>1, <3>2, <3>3, <3>4 DEF IngestInv, Late
  <2>3. CASE job.status \notin {"ingesting", "compute_succeeded"}
    <3>1. UNCHANGED <<job, asset, objects>> /\ loc' = [loc EXCEPT ![w] = "undo"]
      BY <2>3, <1>4 DEF Finalize, Goto
    <3>2. OneIngestion'
      BY <3>1, <2>1, <1>o, <1>l
    <3> QED
      BY <3>1, <3>2, <2>1, <1>o DEF IngestInv, Late
  <2> QED
    BY <2>2, <2>3
<1>5. ASSUME NEW w \in Workers, MarkFailure(w), loc[w] = "undo" PROVE IngestInv'
  <2>1. loc[w] \in IngestSteps
    BY <1>5 DEF IngestSteps
  <2>2. /\ asset' = IF asset = "processing" THEN "failed" ELSE asset
        /\ objects' = IF objects = "stored" THEN "queued" ELSE objects
        /\ loc' = [loc EXCEPT ![w] = "start"] /\ FailAndRelease
    BY <1>5 DEF MarkFailure, Return
  <2>3. job'.status = "failed"
    <3>1. CASE job.status = "failed"
      BY <3>1, <2>2 DEF FailAndRelease, EndJob
    <3>2. CASE job.status = "ingesting"
      <4>1. job' = [job EXCEPT !.status = "failed"]
        BY <3>2, <2>2 DEF FailAndRelease, EndJob
      <4> QED
        BY <4>1, <1>t DEF JobRow
    <3> QED
      BY <3>1, <3>2, <2>1, <1>o
  <2>4. asset # "ready" /\ objects # "referenced"
    BY <2>1, <1>o DEF IngestInv
  <2>5. OneIngestion'
    BY <2>1, <2>2, <1>o, <1>l
  <2> QED
    BY <2>2, <2>3, <2>4, <2>5 DEF IngestInv, Late
<1>6. ASSUME NEW w \in Workers, TransactionFails(w), loc[w] = "finalize" PROVE IngestInv'
  <2>1. loc[w] \in IngestSteps
    BY <1>6 DEF IngestSteps
  <2>2. UNCHANGED <<job, asset, objects>> /\ loc' = [loc EXCEPT ![w] = "undo"]
    BY <1>6 DEF TransactionFails, jobVars
  <2>3. OneIngestion'
    BY <2>1, <2>2, <1>o, <1>l
  <2> QED
    BY <2>1, <2>2, <2>3, <1>o DEF IngestInv, Late
<1> QED
  BY <1>1, <1>2, <1>3, <1>4, <1>5, <1>6 DEF IngestMove

(* The initial state satisfies the invariant.                              *)
LEMMA RenderInvInit == RenderInit => RenderInv
<1> SUFFICES ASSUME RenderInit PROVE RenderInv
  OBVIOUS
<1>0. /\ job = [status |-> "none", runId |-> FALSE] /\ res = "none" /\ resDue = FALSE
      /\ run = "none" /\ asset = "none" /\ objects = "none" /\ faults = 0
      /\ loc = [w \in Workers |-> "start"]
  BY DEF RenderInit
<1>1. loc \in [Workers -> Steps] /\ \A w \in Workers : loc[w] \notin IngestSteps
  BY <1>0 DEF Steps, IngestSteps
<1>2. job \in JobRow /\ job.status = "none"
  BY <1>0 DEF JobRow, JobStatuses
<1>3. JobTypeOK
  <2>1. faults \in 0..MaxFaults
    BY <1>0, RenderAssumption
  <2>2. resDue \in BOOLEAN
    BY <1>0, Zenon
  <2>3. /\ res \in ReservationStates /\ run \in RunStates
        /\ asset \in {"none", "processing", "ready", "failed"}
        /\ objects \in {"none", "stored", "referenced", "queued"}
    BY <1>0 DEF RunStates, ReservationStates
  <2> QED
    BY <1>1, <1>2, <2>1, <2>2, <2>3 DEF JobTypeOK
<1>4. ReservationMatchesJob
  BY <1>0, <1>2 DEF ReservationMatchesJob, TERMINAL_STATUSES
<1>5. IngestInv
  BY <1>0, <1>1, <1>2 DEF IngestInv, IngestSteps, Late, OneIngestion
<1> QED
  BY <1>3, <1>4, <1>5 DEF RenderInv

(* Every step keeps the invariant and moves the job as it may.             *)
LEMMA RenderInvStep ==
    RenderInv /\ [RenderNext]_renderVars => RenderInv' /\ [JobMove]_renderVars
<1>1. CASE UNCHANGED renderVars
  BY <1>1 DEF renderVars, RenderInv, JobTypeOK, ReservationMatchesJob, IngestInv, OneIngestion
<1>2. ASSUME RenderInv, RenderNext PROVE RenderInv' /\ JobMove
  <2>1. StepFacts
    BY <1>2, RenderFacts DEF RenderInv
  <2>2. ReservationMatchesJob'
    BY <1>2, <2>1, ReservationStep DEF RenderInv, StepFacts
  <2>3. IngestInv'
    BY <1>2, <2>1, IngestStep DEF RenderInv, StepFacts
  <2> QED
    BY <2>1, <2>2, <2>3 DEF RenderInv, StepFacts
<1> QED
  BY <1>1, <1>2

(* The inductive invariant holds in every reachable state.                 *)
THEOREM RenderInvariance == RenderSpec => []RenderInv
  BY RenderInvInit, RenderInvStep, PTL DEF RenderSpec

-----------------------------------------------------------------------------
(* The theorems. *)

(* The render system runs the outbox protocol: its handlers only append    *)
(* events and return, so everything proved of the outbox holds here.       *)
THEOREM RenderRunsTheOutbox == RenderSpec => OutboxSpec
<1>1. RenderInit => OutboxInit
  BY DEF RenderInit
<1>2. ASSUME RenderNext PROVE OutboxNext \/ UNCHANGED outboxVars
  <2>e. /\ "created" \in Events /\ "cancel" \in Events
        /\ "poll" \in Events /\ "expire" \in Events
    BY RenderAssumption DEF RenderEvents
  <2>a. ASSUME NEW e \in Events, ev' = Appended(ev, e, TRUE), UNCHANGED <<wk, crashes>>
        PROVE  OutboxNext
    <3>1. Append(e)
      BY <2>a DEF Append
    <3> QED
      BY <3>1 DEF OutboxNext
  <2>1. CASE CreateJob
    BY <2>1, <2>a, <2>e DEF CreateJob
  <2>2. CASE RequestCancel
    BY <2>2, <2>a, <2>e DEF RequestCancel
  <2>3. CASE ScheduleExpiry
    BY <2>3, <2>a, <2>e DEF ScheduleExpiry
  <2>4. CASE ReservationExpires \/ RunEnds
    BY <2>4 DEF ReservationExpires, RunEnds, outboxVars
  <2>5. CASE OutboxStep
    BY <2>5 DEF OutboxStep, OutboxNext, Settle
  <2>r. ASSUME NEW w \in Workers, NEW o \in Outcomes, wk[w].pc = "running", Returns(w, o)
        PROVE  OutboxNext
    <3>1. HandlerReturns(w, o)
      BY <2>r DEF HandlerReturns
    <3> QED
      BY <3>1 DEF OutboxNext
  <2>6. ASSUME NEW w \in Workers, HandlerStep(w) PROVE OutboxNext \/ UNCHANGED outboxVars
    <3>0. ASSUME NEW o \in Outcomes, wk[w].pc = "running", Return(w, o) PROVE OutboxNext
      BY <3>0, <2>r DEF Return
    <3>g. ASSUME NEW s, Goto(w, s) PROVE UNCHANGED outboxVars
      BY <3>g DEF Goto, outboxVars
    <3>o. "ok" \in Outcomes /\ "defer" \in Outcomes /\ "error" \in Outcomes
      BY DEF Outcomes
    <3>1. CASE SubmitClaim(w)
      BY <3>1, <3>0, <3>g, <3>o DEF SubmitClaim, At
    <3>2. CASE SubmitPost(w)
      BY <3>2, <3>0, <3>g, <3>o DEF SubmitPost, At
    <3>3. CASE SubmitSave(w)
      <4>1. UNCHANGED <<wk, crashes>> /\ (ev' = Appended(ev, "poll", TRUE) \/ ev' = ev)
        BY <3>3 DEF SubmitSave
      <4> QED
        BY <4>1, <2>a, <2>e DEF outboxVars
    <3>4. CASE PollRead(w)
      <4>1. /\ wk[w].pc = "running"
            /\ \/ Return(w, "ok") \/ Return(w, "defer") \/ Return(w, "error")
               \/ Goto(w, "ingest") \/ Goto(w, "status")
        BY <3>4 DEF PollRead, At
      <4> QED
        BY <4>1, <3>0, <3>g, <3>o
    <3>5. CASE PollStatus(w) \/ PollManifest(w)
      BY <3>5, <3>0, <3>g, <3>o DEF PollStatus, PollManifest, At
    <3>6. CASE SaveComputeSuccess(w) \/ IngestClaim(w)
      BY <3>6, <3>0, <3>g, <3>o DEF SaveComputeSuccess, IngestClaim, At
    <3>7. CASE Transfer(w) \/ Finalize(w) \/ MarkFailure(w)
      BY <3>7, <3>0, <3>g, <3>o DEF Transfer, Finalize, MarkFailure, At
    <3>8. CASE CancelRead(w)
      <4>1. /\ wk[w].pc = "running"
            /\ Return(w, "ok") \/ Goto(w, "cancel") \/ Goto(w, "forward")
        BY <3>8 DEF CancelRead, At
      <4> QED
        BY <4>1, <3>0, <3>g, <3>o
    <3>9. CASE CancelForward(w) \/ ExpireQuota(w)
      BY <3>9, <3>0, <3>g, <3>o DEF CancelForward, ExpireQuota, At
    <3>10. CASE FailJob(w) \/ CancelJob(w) \/ End(w)
      BY <3>10, <3>0, <3>g, <3>o DEF FailJob, CancelJob, End
    <3> QED
      BY <2>6, <3>1, <3>2, <3>3, <3>4, <3>5, <3>6, <3>7, <3>8, <3>9, <3>10 DEF HandlerStep
  <2>7. ASSUME NEW w \in Workers, FailDeadLetter(w) PROVE OutboxNext
    BY <2>7 DEF FailDeadLetter, OutboxNext
  <2>8. ASSUME NEW w \in Workers, TransactionFails(w) PROVE OutboxNext \/ UNCHANGED outboxVars
    <3>1. "error" \in Outcomes
      BY DEF Outcomes
    <3> QED
      BY <3>1, <2>8, <2>r DEF TransactionFails, outboxVars
  <2>9. ASSUME NEW w \in Workers, WorkerDies(w) PROVE OutboxNext
    BY <2>9 DEF WorkerDies, OutboxNext
  <2> QED
    BY <1>2, <2>1, <2>2, <2>3, <2>4, <2>5, <2>6, <2>7, <2>8, <2>9 DEF RenderNext
<1>3. UNCHANGED renderVars => UNCHANGED outboxVars
  BY DEF renderVars, outboxVars
<1> QED
  BY <1>1, <1>2, <1>3, PTL DEF RenderSpec, OutboxSpec

(* The type invariant of the render system.                                *)
THEOREM RenderTypeCorrect == RenderSpec => []RenderTypeOK
<1>1. RenderInv /\ OutboxTypeOK => RenderTypeOK
  BY DEF RenderInv, JobTypeOK, JobRow, ReservationStates, RenderTypeOK
<1> QED
  BY <1>1, RenderInvariance, RenderRunsTheOutbox, OutboxTypeCorrect, PTL

(* A job holds its quota exactly while it is not terminal, on every path   *)
(* out of it.                                                              *)
THEOREM QuotaFollowsTheJob == RenderSpec => []ReservationMatchesJob
<1>1. RenderInv => ReservationMatchesJob
  BY DEF RenderInv
<1> QED
  BY <1>1, RenderInvariance, PTL

(* There is a ready asset with recorded objects exactly for a completed    *)
(* job, although the objects are moved outside both transactions.          *)
THEOREM AssetFollowsTheJob == RenderSpec => []AssetMatchesJob
<1>1. RenderInv => AssetMatchesJob
  BY DEF RenderInv, IngestInv, AssetMatchesJob, Late
<1> QED
  BY <1>1, RenderInvariance, PTL

(* No two workers are ever inside an ingestion.                            *)
THEOREM IngestionIsExclusive == RenderSpec => []OneIngestion
<1>1. RenderInv => OneIngestion
  BY DEF RenderInv, IngestInv
<1> QED
  BY <1>1, RenderInvariance, PTL

(* Nothing in flight revives a terminal job.                               *)
THEOREM OutcomesAreFinal == RenderSpec => JobOutcomeIsFinal
<1>1. [JobMove]_renderVars => [job.status \in TERMINAL_STATUSES => job' = job]_renderVars
  BY DEF JobMove, Kept, Created, Progress, Ends, Live, TERMINAL_STATUSES
<1> QED
  BY <1>1, RenderInvStep, RenderInvariance, PTL DEF RenderSpec, JobOutcomeIsFinal

(* A cancellation that was accepted is never overtaken by a failure.       *)
THEOREM CancellationWins == RenderSpec => CancelWins
<1>1. [JobMove]_renderVars
      => [job.status = "cancel_requested"
             => job'.status \in {"cancel_requested", "cancelled"}]_renderVars
  BY DEF JobMove, Kept, Created, Progress, Ends
<1> QED
  BY <1>1, RenderInvStep, RenderInvariance, PTL DEF RenderSpec, CancelWins
=============================================================================
