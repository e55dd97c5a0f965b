---------------------------- MODULE ComputeNode ----------------------------
(***************************************************************************)
(* The run lifecycle of a Compute node (backend/src).  Several processes,  *)
(* an HTTP server and command-line exports, share one runtime directory    *)
(* and one SQLite file.  Each process keeps its runs (JobRunner) and its   *)
(* resource locks (ResourceManager) in memory and writes every status      *)
(* through to the table runs; an flock on the runtime directory tells      *)
(* whether another process is alive.                                       *)
(*                                                                         *)
(* A route that produces a run is described by the sequence of the calls   *)
(* it makes to JobRunner and ResourceManager; each call is one critical    *)
(* section and one step.  What happens between the calls (parsing, the     *)
(* kernels, files, progress) is visible only through its outcome.          *)
(***************************************************************************)
EXTENDS Naturals, Sequences, FiniteSets

CONSTANTS
  Procs,        \* processes that share the runtime directory
  Server,       \* the process that serves HTTP; the others are CLI exports
  Runs,         \* run ids, never used twice
  Keys,         \* idempotency keys of POST /compute/v1/runs
  Routes,       \* the routes requests are made for
  NoRun,        \* no run
  MaxFaults     \* bound: processes that die, SQLite writes and thread starts that fail

ASSUME NodeAssumption ==
  /\ Server \in Procs
  /\ NoRun \notin Runs
  /\ MaxFaults \in Nat

VARIABLES
  proc,      \* how far each process is with JobRunner's constructor
  run,       \* JobRunner's maps and the worker of each run
  row,       \* table runs: the status of each run
  artifacts, \* table artifacts: the runs with artifacts
  res,       \* ResourceManager::resources_ of each process
  saved,     \* table compute_requests: the run answered for each key
  pend,      \* the run that the request holding a key's mutex has created
  answered,  \* the runs each key has been answered with
  faults     \* what has gone wrong so far

vars == <<proc, run, row, artifacts, res, saved, pend, answered, faults>>
------------------------------------------------------------------------------
(* Routes. *)

lnMapRender       == <<"cancelable", "launch", "running", "kernel", "artifact", "seal", "completed">>
hsMesh            == lnMapRender
hsField           == lnMapRender
transitionMesh    == <<"lease", "cancelable", "launch", "running", "kernel", "check", "artifact", "seal", "completed">>
transitionVoxels  == transitionMesh
benchmark         == <<"lease", "cancelable", "launch", "running", "kernel", "artifact", "seal", "completed">>
zoomVideo         == <<"lease", "cancelable", "launch", "running", "kernel", "check", "artifact", "completed">>
videoExport       == zoomVideo
transitionVideo   == zoomVideo
\* Mutant: the status is reported before the artifact is recorded.
mapRenderHasty    == <<"cancelable", "leave", "lease", "launch", "running", "kernel", "check", "seal", "completed", "artifact">>

mapRender         == <<"cancelable", "leave", "lease", "launch", "running", "kernel", "check", "seal", "artifact", "completed">>
specialEnumerate  == <<"cancelable", "lease", "launch", "running", "kernel", "leave", "artifact", "seal", "completed">>
specialSearch     == <<"cancelable", "register", "launch", "wait", "leave", "running", "kernel", "leave", "artifact", "seal", "completed">>

\* runPayload: the route of each persistent kind.
Calls == [ln_map |-> lnMapRender, hs_mesh |-> hsMesh, hs_field |-> hsField,
          transition_mesh |-> transitionMesh, transition_voxels |-> transitionVoxels,
          benchmark |-> benchmark, legacy_zoom_video |-> zoomVideo, zoom_video |-> videoExport,
          transition_video |-> transitionVideo, map_image |-> mapRender,
          special_points_enumerate |-> specialEnumerate, special_points_search |-> specialSearch]

\* Every request is for one of them.
ASSUME RoutesAssumption == Routes \subseteq DOMAIN Calls

\* The locks a route asks tryAcquire for.
LocksOf(k) ==
  CASE k \in {"transition_mesh", "transition_voxels"} -> {"transition_volume", "cuda_heavy", "cpu_heavy"}
    [] k = "benchmark"                                -> {"benchmark", "cuda_heavy", "cpu_heavy"}
    [] k \in {"legacy_zoom_video", "zoom_video", "transition_video"} -> {"video_export", "cuda_heavy", "cpu_heavy"}
    [] k = "map_image"                                -> {"cuda_heavy", "cpu_heavy"}
    [] k \in {"special_points_enumerate", "special_points_search"} -> {"special_points", "cpu_heavy"}
    [] OTHER                                          -> {}

Locks == UNION {LocksOf(k) : k \in DOMAIN Calls}

\* Routes whose handler calls a run cancelled because its token is set, not
\* because of the exception it caught.
BlamesToken == {"benchmark", "legacy_zoom_video", "zoom_video", "transition_video",
                "special_points_enumerate", "special_points_search"}

\* Routes whose whole thread is inside the try block.
TriesAll == {"special_points_search"}

\* Routes with a RunLaunchGuard in the request and one in the thread.
Guarded == {"special_points_enumerate", "special_points_search"}

\* The routes a command-line export can take.
CliRoutes == {"map_image", "zoom_video"}
------------------------------------------------------------------------------
Active   == {"queued", "running"}
Terminal == {"completed", "failed", "cancelled"}
Statuses == {"none"} \cup Active \cup Terminal

\* "route": in the request thread; "thread": in the worker; "catch": in the
\* exception handler; "guard": in a RunLaunchGuard's destructor; "end": only the
\* lease is left to release; "gone": finished; "lost": its process is no more.
Phases == {"none", "route", "thread", "catch", "guard", "end", "gone", "lost"}

Unborn == [owner |-> Server, kind |-> "none", at |-> 0, phase |-> "none", mem |-> "none",
           cancelable |-> FALSE, token |-> FALSE, preempt |-> FALSE, lease |-> FALSE,
           exc |-> "none", hit |-> FALSE]

Free == [active |-> 0, activeRunId |-> NoRun]

Init ==
  /\ proc = [p \in Procs |-> "down"]
  /\ run = [r \in Runs |-> Unborn]
  /\ row = [r \in Runs |-> "none"]
  /\ artifacts = {}
  /\ res = [p \in Procs |-> [l \in Locks |-> Free]]
  /\ saved = [k \in Keys |-> [run |-> NoRun, kind |-> "none"]]
  /\ pend = [k \in Keys |-> NoRun]
  /\ answered = [k \in Keys |-> {}]
  /\ faults = 0

Step(r)  == Calls[run[r].kind][run[r].at]
Here(r)  == run[r].phase \in {"route", "thread"}
At(r, s) == Here(r) /\ Step(r) = s

\* shouldCancel of a search; the token alone for every other route.
ShouldCancel(r) == run[r].token \/ run[r].preempt

\* The next call; past the last one the worker only releases what it holds.
Advance(rec) ==
  IF rec.at = Len(Calls[rec.kind]) THEN [rec EXCEPT !.phase = "end"]
                                   ELSE [rec EXCEPT !.at = @ + 1]

Launched(rec) == \E i \in 1..(rec.at - 1) : Calls[rec.kind][i] = "launch"
Running(rec)  == \E i \in 1..(rec.at - 1) : Calls[rec.kind][i] = "running"

\* Mutant: the worker has no exception handler.
RaiseUncaught(rec, e) == [rec EXCEPT !.phase = "end"]

\* An exception: to the handler if the call is inside the try block, else past it.
Raise(rec, e) ==
  IF Launched(rec) /\ (rec.kind \in TriesAll \/ Running(rec))
  THEN [rec EXCEPT !.phase = "catch", !.exc = e]
  ELSE [rec EXCEPT !.phase = IF rec.kind \in Guarded THEN "guard" ELSE "end"]

\* A SQLite write succeeds, or throws while the budget of faults lasts.
Outcomes == IF faults < MaxFaults THEN BOOLEAN ELSE {TRUE}
Spend(ok) == faults' = IF ok THEN faults ELSE faults + 1

\* JobRunner::setStatus: memory first, then the row.
SetStatus(r, status, ok) ==
  /\ row' = IF ok THEN [row EXCEPT ![r] = status] ELSE row
  /\ Spend(ok)

\* Whether a run is cancelable is not looked at once its status in memory is final.
Told(rec, status, ok) == [rec EXCEPT !.mem = status, !.hit = @ \/ ~ok]

\* The request that created r ends with an error: no response is saved.
Reject(r) == pend' = [k \in Keys |-> IF pend[k] = r THEN NoRun ELSE pend[k]]
------------------------------------------------------------------------------
(* Processes: JobRunner's constructor and destructor. *)

\* Mutant: the lock is given back at the end of the constructor.
HoldsAtStart(p) == proc[p] = "exclusive"

Holds(p) == proc[p] \in {"exclusive", "up"}

\* open and flock(LOCK_EX | LOCK_NB).
TryExclusive(p) ==
  /\ proc[p] = "down"
  /\ proc' = [proc EXCEPT ![p] = IF \E q \in Procs : Holds(q) THEN "joining" ELSE "exclusive"]
  /\ UNCHANGED <<run, row, artifacts, res, saved, pend, answered, faults>>

\* Mutant: UPDATE runs without its WHERE clause.
CancelAllRuns(p) ==
  /\ proc[p] = "exclusive"
  /\ row' = [r \in Runs |-> IF row[r] = "none" THEN "none" ELSE "cancelled"]
  /\ proc' = [proc EXCEPT ![p] = "joining"]
  /\ UNCHANGED <<run, artifacts, res, saved, pend, answered, faults>>

\* Mutant: the runs that had not started to render are left for their worker.
CancelRunningRuns(p) ==
  /\ proc[p] = "exclusive"
  /\ row' = [r \in Runs |-> IF row[r] = "running" THEN "cancelled" ELSE row[r]]
  /\ proc' = [proc EXCEPT ![p] = "joining"]
  /\ UNCHANGED <<run, artifacts, res, saved, pend, answered, faults>>

\* cancelInterruptedRuns, then the conversion of the lock, which lets go of the
\* exclusive lock before it takes the shared one.
CancelInterruptedRuns(p) ==
  /\ proc[p] = "exclusive"
  /\ \E ok \in Outcomes :
       /\ row' = IF ok THEN [r \in Runs |-> IF row[r] \in Active THEN "cancelled" ELSE row[r]] ELSE row
       /\ proc' = [proc EXCEPT ![p] = IF ok THEN "joining" ELSE "down"]
       /\ Spend(ok)
  /\ UNCHANGED <<run, artifacts, res, saved, pend, answered>>

\* flock(LOCK_SH) returns.
JoinShared(p) ==
  /\ proc[p] = "joining"
  /\ \A q \in Procs : proc[q] # "exclusive"
  /\ proc' = [proc EXCEPT ![p] = "up"]
  /\ UNCHANGED <<run, row, artifacts, res, saved, pend, answered, faults>>

\* Everything in p's memory is gone, and so is its lock.
Vanish(p) ==
  /\ proc' = [proc EXCEPT ![p] = "down"]
  /\ run' = [r \in Runs |-> IF run[r].owner = p /\ run[r].phase # "none"
                            THEN [Unborn EXCEPT !.owner = p, !.kind = run[r].kind, !.at = 1, !.phase = "lost"]
                            ELSE run[r]]
  /\ res' = [res EXCEPT ![p] = [l \in Locks |-> Free]]
  /\ pend' = IF p = Server THEN [k \in Keys |-> NoRun] ELSE pend

\* The process dies.
Crash(p) ==
  /\ proc[p] # "down"
  /\ faults < MaxFaults
  /\ faults' = faults + 1
  /\ Vanish(p)
  /\ UNCHANGED <<row, artifacts, saved, answered>>

\* A command-line export returns; ~JobRunner waits for the background tasks.  A
\* video export first polls its run until memory says that it has ended.
CliExit(p) ==
  /\ p # Server /\ proc[p] = "up"
  /\ \E r \in Runs : run[r].owner = p /\ run[r].phase = "gone"
  /\ \A r \in Runs : run[r].owner = p =>
       /\ run[r].phase \in {"none", "gone", "lost"}
       /\ ~(run[r].kind = "zoom_video" /\ run[r].mem = "running")
  /\ Vanish(p)
  /\ UNCHANGED <<row, artifacts, saved, answered, faults>>
------------------------------------------------------------------------------
(* Requests. *)

NewRun == CHOOSE r \in Runs : run[r].phase = "none"

\* JobRunner::createRun.  If the row cannot be written nothing remains.
CreateRun(p, kind) ==
  /\ \E r \in Runs : run[r].phase = "none"
  /\ run' = [run EXCEPT ![NewRun] = [Unborn EXCEPT !.owner = p, !.kind = kind, !.at = 1,
                                                   !.phase = "route", !.mem = "queued"]]
  /\ row' = [row EXCEPT ![NewRun] = "queued"]

\* A run without a key: a legacy route of the server, or a command-line export,
\* which makes one run.
CreateDirect(p, kind) ==
  /\ proc[p] = "up"
  /\ p # Server => /\ kind \in CliRoutes
                   /\ \A r \in Runs : run[r].phase # "none" /\ run[r].owner = p => run[r].phase = "lost"
  /\ CreateRun(p, kind)
  /\ UNCHANGED <<proc, artifacts, res, saved, pend, answered, faults>>

\* computeV1CreateRunRoute under the key's mutex, up to createRun.
CreateKeyed(k, kind) ==
  /\ proc[Server] = "up"
  /\ pend[k] = NoRun /\ saved[k].run = NoRun
  /\ CreateRun(Server, kind)
  /\ pend' = [pend EXCEPT ![k] = NewRun]
  /\ UNCHANGED <<proc, artifacts, res, saved, answered, faults>>

\* The key is known: the saved response for the same request, 409 for another.
ReplayResponse(k, kind) ==
  /\ proc[Server] = "up"
  /\ pend[k] = NoRun /\ saved[k].run # NoRun
  /\ saved[k].kind = kind
  /\ answered' = [answered EXCEPT ![k] = @ \cup {saved[k].run}]
  /\ UNCHANGED <<proc, run, row, artifacts, res, saved, pend, faults>>

\* Mutant: the answer does not wait for the response to be saved.
AnswerAnyway(k) ==
  LET r == pend[k] IN
  /\ r # NoRun
  /\ run[r].phase # "route"
  /\ \E ok \in Outcomes :
       /\ saved' = IF ok THEN [saved EXCEPT ![k] = [run |-> r, kind |-> run[r].kind]] ELSE saved
       /\ Spend(ok)
  /\ answered' = [answered EXCEPT ![k] = @ \cup {r}]
  /\ pend' = [pend EXCEPT ![k] = NoRun]
  /\ UNCHANGED <<proc, run, row, artifacts, res>>

\* The route has returned: upsertComputeRequestResponse, then the answer.
SaveResponse(k) ==
  LET r == pend[k] IN
  /\ r # NoRun
  /\ run[r].phase # "route"
  /\ \E ok \in Outcomes :
       /\ saved' = IF ok THEN [saved EXCEPT ![k] = [run |-> r, kind |-> run[r].kind]] ELSE saved
       /\ answered' = IF ok THEN [answered EXCEPT ![k] = @ \cup {r}] ELSE answered
       /\ Spend(ok)
  /\ pend' = [pend EXCEPT ![k] = NoRun]
  /\ UNCHANGED <<proc, run, row, artifacts, res>>

\* JobRunner::requestCancel.
RequestCancel(r) ==
  /\ run[r].owner = Server /\ run[r].mem \in Active /\ run[r].cancelable
  /\ ~run[r].token
  /\ run' = [run EXCEPT ![r].token = TRUE]
  /\ UNCHANGED <<proc, row, artifacts, res, saved, pend, answered, faults>>
------------------------------------------------------------------------------
(* The calls of a route. *)

\* setCancelable.
SetCancelable(r) ==
  /\ At(r, "cancelable") \/ At(r, "seal")
  /\ run' = [run EXCEPT ![r] = [Advance(@) EXCEPT !.cancelable = At(r, "cancelable")]]
  /\ UNCHANGED <<proc, row, artifacts, res, saved, pend, answered, faults>>

CanAcquire(p, locks) == \A l \in locks : res[p][l].active < 1

\* Mutant: the locks are taken one by one and kept on a conflict.
TryAcquireEach(p, r, locks) ==
  res' = [res EXCEPT ![p] = [l \in Locks |->
            IF l \in locks /\ res[p][l].active < 1
            THEN [active |-> res[p][l].active + 1, activeRunId |-> r] ELSE res[p][l]]]

\* ResourceManager::tryAcquire, all locks or none.
TryAcquire(p, r, locks) ==
  res' = IF CanAcquire(p, locks)
         THEN [res EXCEPT ![p] = [l \in Locks |->
                 IF l \in locks THEN [active |-> res[p][l].active + 1, activeRunId |-> r] ELSE res[p][l]]]
         ELSE res

\* The request takes its lease, or fails the run and answers 409.
Lease(r) ==
  LET p == run[r].owner  locks == LocksOf(run[r].kind) IN
  /\ At(r, "lease")
  /\ TryAcquire(p, r, locks)
  /\ \/ /\ CanAcquire(p, locks)
        /\ run' = [run EXCEPT ![r] = [Advance(@) EXCEPT !.lease = TRUE]]
        /\ UNCHANGED <<row, pend, faults>>
     \/ /\ ~CanAcquire(p, locks)
        /\ \E ok \in Outcomes :
             /\ run' = [run EXCEPT ![r] = Raise(Told(@, "failed", ok), "error")]
             /\ SetStatus(r, "failed", ok)
        /\ Reject(r)
  /\ UNCHANGED <<proc, artifacts, saved, answered>>

\* A search whose preemption flag is still referenced.
Registered(q) ==
  /\ run[q].kind = "special_points_search" /\ run[q].phase \notin {"none", "gone", "lost"}
  /\ \E i \in 1..(run[q].at - 1) : Calls[run[q].kind][i] = "register"

\* registerSpecialPointSearch: an up-to-date request supersedes every search
\* accepted before it; a stale one is superseded from the start.
Register(r) ==
  /\ At(r, "register")
  /\ \E stale \in BOOLEAN :
       run' = [q \in Runs |->
                 IF q = r THEN [Advance(run[r]) EXCEPT !.preempt = stale]
                 ELSE IF ~stale /\ Registered(q) /\ run[q].owner = run[r].owner
                      THEN [run[q] EXCEPT !.preempt = TRUE]
                 ELSE run[q]]
  /\ UNCHANGED <<proc, row, artifacts, res, saved, pend, answered, faults>>

\* The thread starts (or, for a command-line map export, execute is called).
Launch(r) ==
  /\ At(r, "launch")
  /\ run' = [run EXCEPT ![r] = [Advance(@) EXCEPT !.phase = "thread"]]
  /\ UNCHANGED <<proc, row, artifacts, res, saved, pend, answered, faults>>

\* std::thread throws.  Only the search still has its guard armed.
LaunchFails(r) ==
  /\ At(r, "launch")
  /\ faults < MaxFaults
  /\ run[r].owner = Server \/ run[r].kind # "map_image"
  /\ run' = [run EXCEPT ![r] = [@ EXCEPT !.phase = IF run[r].kind \in TriesAll THEN "guard" ELSE "end",
                                         !.hit = TRUE]]
  /\ faults' = faults + 1
  /\ Reject(r)
  /\ UNCHANGED <<proc, row, artifacts, res, saved, answered>>

\* The loop of the search thread: leave when cancelled, go on with the lease.
Wait(r) ==
  LET p == run[r].owner  locks == LocksOf(run[r].kind) IN
  /\ At(r, "wait")
  /\ \/ /\ ShouldCancel(r)
        /\ \E ok \in Outcomes :
             /\ run' = [run EXCEPT ![r] = IF ok THEN [Told(@, "cancelled", ok) EXCEPT !.phase = "end"]
                                                ELSE Raise(Told(@, "cancelled", ok), "error")]
             /\ SetStatus(r, "cancelled", ok)
        /\ UNCHANGED res
     \/ /\ ~ShouldCancel(r)
        /\ CanAcquire(p, locks)
        /\ TryAcquire(p, r, locks)
        /\ run' = [run EXCEPT ![r] = [Advance(@) EXCEPT !.lease = TRUE]]
        /\ UNCHANGED <<row, faults>>
  /\ UNCHANGED <<proc, artifacts, saved, pend, answered>>

\* if (shouldCancel()) { setStatus("cancelled"); return; }
Leave(r) ==
  /\ At(r, "leave")
  /\ \/ /\ ShouldCancel(r)
        /\ \E ok \in Outcomes :
             /\ run' = [run EXCEPT ![r] = IF ok THEN [Told(@, "cancelled", ok) EXCEPT !.phase = "end"]
                                                ELSE Raise(Told(@, "cancelled", ok), "error")]
             /\ SetStatus(r, "cancelled", ok)
             /\ IF ok \/ run[r].phase = "thread" THEN UNCHANGED pend ELSE Reject(r)
     \/ /\ ~ShouldCancel(r)
        /\ run' = [run EXCEPT ![r] = Advance(@)]
        /\ UNCHANGED <<row, pend, faults>>
  /\ UNCHANGED <<proc, artifacts, res, saved, answered>>

\* setStatus("running") and setStatus("completed").
ReportStatus(r, status) ==
  /\ At(r, status)
  /\ \E ok \in Outcomes :
       /\ run' = [run EXCEPT ![r] = IF ok THEN Advance(Told(@, status, ok))
                                          ELSE Raise(Told(@, status, ok), "error")]
       /\ SetStatus(r, status, ok)
  /\ UNCHANGED <<proc, artifacts, res, saved, pend, answered>>

\* The kernel, and the files it writes: it finishes, or throws "cancelled"
\* because it saw the token, or throws anything else.
Kernel(r) ==
  /\ At(r, "kernel")
  /\ \/ run' = [run EXCEPT ![r] = Advance(@)]
     \/ run' = [run EXCEPT ![r] = Raise(@, "error")]
     \/ ShouldCancel(r) /\ run' = [run EXCEPT ![r] = Raise(@, "cancelled")]
  /\ UNCHANGED <<proc, row, artifacts, res, saved, pend, answered, faults>>

\* if (cancelled) throw std::runtime_error("cancelled").
Check(r) ==
  /\ At(r, "check")
  /\ run' = [run EXCEPT ![r] = IF ShouldCancel(r) THEN Raise(@, "cancelled") ELSE Advance(@)]
  /\ UNCHANGED <<proc, row, artifacts, res, saved, pend, answered, faults>>

\* JobRunner::addArtifact.
AddArtifact(r) ==
  /\ At(r, "artifact")
  /\ \E ok \in Outcomes :
       /\ run' = [run EXCEPT ![r] = IF ok THEN Advance(@) ELSE Raise(@, "error")]
       /\ artifacts' = IF ok THEN artifacts \cup {r} ELSE artifacts
       /\ Spend(ok)
  /\ UNCHANGED <<proc, row, res, saved, pend, answered>>

\* Mutant: every exception counts as a cancellation.
CatchAsCancelled(r) ==
  /\ run[r].phase = "catch"
  /\ run' = [run EXCEPT ![r] = [@ EXCEPT !.mem = "cancelled", !.cancelable = FALSE, !.phase = "end"]]
  /\ row' = [row EXCEPT ![r] = "cancelled"]
  /\ UNCHANGED <<proc, artifacts, res, saved, pend, answered, faults>>

\* The exception handler.
Catch(r) ==
  LET status == IF \/ run[r].exc = "cancelled"
                   \/ run[r].kind \in BlamesToken /\ ShouldCancel(r)
                THEN "cancelled" ELSE "failed" IN
  /\ run[r].phase = "catch"
  /\ \E ok \in Outcomes :
       /\ run' = [run EXCEPT ![r] = [Told(@, status, ok) EXCEPT
                    !.cancelable = FALSE,
                    !.phase = IF ~ok /\ run[r].kind \in Guarded THEN "guard" ELSE "end"]]
       /\ SetStatus(r, status, ok)
  /\ UNCHANGED <<proc, artifacts, res, saved, pend, answered>>

\* ~RunLaunchGuard: setStatus("failed"), whatever happens.
Guard(r) ==
  /\ run[r].phase = "guard"
  /\ \E ok \in Outcomes :
       /\ run' = [run EXCEPT ![r] = [Told(@, "failed", ok) EXCEPT !.phase = "end"]]
       /\ SetStatus(r, "failed", ok)
  /\ UNCHANGED <<proc, artifacts, res, saved, pend, answered>>

\* ResourceManager::release.
Release(p, r, locks) ==
  res' = [res EXCEPT ![p] = [l \in Locks |->
            IF l \notin locks THEN res[p][l]
            ELSE LET n == IF res[p][l].active > 0 THEN res[p][l].active - 1 ELSE 0 IN
                 [active |-> n,
                  activeRunId |-> IF n = 0 \/ res[p][l].activeRunId = r THEN NoRun
                                                                        ELSE res[p][l].activeRunId]]]

\* The last reference to the lease goes.
End(r) ==
  /\ run[r].phase = "end"
  /\ IF run[r].lease THEN Release(run[r].owner, r, LocksOf(run[r].kind)) ELSE UNCHANGED res
  /\ run' = [run EXCEPT ![r] = [@ EXCEPT !.phase = "gone", !.lease = FALSE]]
  /\ UNCHANGED <<proc, row, artifacts, saved, pend, answered, faults>>

RunStep(r) ==
  \/ SetCancelable(r) \/ Lease(r) \/ Register(r) \/ Launch(r) \/ LaunchFails(r) \/ Wait(r) \/ Leave(r)
  \/ ReportStatus(r, "running") \/ Kernel(r) \/ Check(r) \/ AddArtifact(r)
  \/ ReportStatus(r, "completed") \/ Catch(r) \/ Guard(r) \/ End(r)

Next ==
  \/ \E p \in Procs : TryExclusive(p) \/ CancelInterruptedRuns(p) \/ JoinShared(p) \/ Crash(p) \/ CliExit(p)
  \/ \E p \in Procs, kind \in Routes : CreateDirect(p, kind)
  \/ \E k \in Keys, kind \in Routes : CreateKeyed(k, kind) \/ ReplayResponse(k, kind)
  \/ \E k \in Keys : SaveResponse(k)
  \/ \E r \in Runs : RequestCancel(r) \/ RunStep(r)

Spec == Init /\ [][Next]_vars

ProcStep(p) ==
  (p = Server /\ TryExclusive(p)) \/ CancelInterruptedRuns(p) \/ JoinShared(p) \/ CliExit(p)

\* Workers run, a constructor that can go on does, a finished export returns, a
\* route's response is saved, and the server is started again; nobody has to
\* cancel, crash or run an export.
Fairness ==
  /\ \A r \in Runs : WF_vars(RunStep(r))
  /\ \A p \in Procs : WF_vars(ProcStep(p))
  /\ \A k \in Keys : WF_vars(SaveResponse(k))

FairSpec == Spec /\ Fairness
------------------------------------------------------------------------------
(* Properties. *)

Record ==
  [owner : Procs, kind : DOMAIN Calls \cup {"none"}, at : Nat, phase : Phases, mem : Statuses,
   cancelable : BOOLEAN, token : BOOLEAN, preempt : BOOLEAN, lease : BOOLEAN,
   exc : {"none", "cancelled", "error"}, hit : BOOLEAN]

\* Every variable has its type; a run in progress is at one of its route's calls;
\* a process that is not up has no run and no lock; rows exist for created runs.
NodeTypeOK ==
  /\ proc \in [Procs -> {"down", "exclusive", "joining", "up"}]
  /\ run \in [Runs -> Record]
  /\ row \in [Runs -> Statuses]
  /\ artifacts \subseteq Runs
  /\ res \in [Procs -> [Locks -> [active : Nat, activeRunId : Runs \cup {NoRun}]]]
  /\ saved \in [Keys -> [run : Runs \cup {NoRun}, kind : DOMAIN Calls \cup {"none"}]]
  /\ pend \in [Keys -> Runs \cup {NoRun}]
  /\ answered \in [Keys -> SUBSET Runs]
  /\ \A r \in Runs : run[r].phase # "none" =>
       /\ run[r].kind \in Routes /\ run[r].at \in 1..Len(Calls[run[r].kind])
       /\ row[r] # "none"
       /\ run[r].phase # "lost" => proc[run[r].owner] = "up"

\* Nobody but its own process changes the row of a run that is in a live process's
\* memory: the flock keeps a starting process from cancelling it.
LiveRowsAreOwn ==
  [][\A r \in Runs : run[r].mem # "none" /\ run'[r].mem = run[r].mem => row'[r] = row[r] \/ run[r].hit]_vars

\* A lock's counter and name agree with the leases that exist, and no two runs
\* of a process hold one lock.
LocksMatchHolders ==
  \A p \in Procs, l \in Locks :
    LET holders == {r \in Runs : run[r].owner = p /\ run[r].lease /\ l \in LocksOf(run[r].kind)} IN
    /\ res[p][l].active = Cardinality(holders)
    /\ Cardinality(holders) <= 1
    /\ \A r \in holders : res[p][l].activeRunId = r

\* A run is recorded as cancelled only if somebody cancelled or superseded it, or
\* if its process is no more.
CancelledForAReason ==
  [][\A r \in Runs : row[r] # "cancelled" /\ row'[r] = "cancelled" =>
       ShouldCancel(r) \/ run[r].phase = "lost"]_vars

\* A reader that sees "completed" finds the artifacts.
CompletedHasArtifacts == \A r \in Runs : row[r] = "completed" => r \in artifacts

\* The recorded outcome of a run never changes.
OutcomeIsFinal == [][\A r \in Runs : row[r] \in Terminal => row'[r] = row[r]]_vars

\* A key is never answered with two runs.
AnswersAreStable == \A k \in Keys : Cardinality(answered[k]) <= 1

\* A worker ends, and the row says how, unless the run's own writes failed or its
\* process died.
WorkersEnd ==
  \A r \in Runs : (run[r].phase # "none") ~>
    \/ run[r].phase = "gone" /\ (row[r] \in Terminal \/ run[r].hit)
    \/ run[r].phase = "lost"

LostRuns == {r \in Runs : run[r].phase = "lost"}
Settled == \A r \in LostRuns : row[r] \in Terminal

\* A process is starting that was refused the exclusive lock; it settles no rows.
StartRefused == \E p, q \in Procs : p # q /\ proc[p] = "joining" /\ Holds(q)

\* Once nobody is left, the next start ends the rows of every interrupted run; only
\* a start that another one kept from the lock excuses it.
InterruptedRunsAreSettled ==
  (~Settled /\ \A p \in Procs : proc[p] = "down") ~> Settled \/ StartRefused

\* The worker of every run ends and gives its locks back, and what processes left
\* that died is settled by JobRunner's constructor in the next that starts alone.
EveryRunEnds == WorkersEnd /\ InterruptedRunsAreSettled
=============================================================================
