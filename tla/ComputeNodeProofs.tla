-------------------------- MODULE ComputeNodeProofs --------------------------
(* Proofs about ComputeNode for any number of processes, runs, keys, routes   *)
(* and faults.                                                                *)
EXTENDS ComputeNode, FiniteSetTheorems, TLAPS

----------------------------------------------------------------------------
(* The routes *)

\* What every route has in common: its last call, and no other, reports
\* "completed", and the artifacts are recorded before; a lease whose
\* conflict is answered is asked for before the thread starts.
WellFormed(c) ==
    /\ Len(c) \in Nat \ {0}
    /\ c[Len(c)] = "completed"
    /\ \A i \in 1..Len(c) : c[i] = "completed" =>
          i = Len(c) /\ \E j \in 1..(i - 1) : c[j] = "artifact"
    /\ \A i, j \in 1..Len(c) : c[i] = "launch" /\ c[j] = "lease" => j < i

\* Where the calls that matter are is enough.
Positions(c, n, s, a) ==
    /\ n \in Nat \ {0} /\ s \in Nat /\ a \in 1..(n - 1)
    /\ c[a] = "artifact" /\ c[n] = "completed"
    /\ \A i \in 1..n : c[i] = "completed" => i = n
    /\ \A i \in 1..n : c[i] = "launch" => i = s
    /\ \A i \in 1..n : c[i] = "lease" => i < s

LEMMA PositionsSuffice ==
  ASSUME NEW c, NEW n, NEW s, NEW a, Positions(c, n, s, a), Len(c) = n
  PROVE  WellFormed(c)
<1>0. n \in Nat \ {0} /\ s \in Nat /\ a \in 1..(n - 1) /\ c[a] = "artifact" /\ c[n] = "completed"
  BY DEF Positions
<1>1. ASSUME NEW i \in 1..n
      PROVE  /\ c[i] = "completed" => i = n
             /\ c[i] = "launch" => i = s
             /\ c[i] = "lease" => i < s
  BY DEF Positions
<1>2. ASSUME NEW i \in 1..n, c[i] = "completed"
      PROVE  i = n /\ \E j \in 1..(i - 1) : c[j] = "artifact"
  <2>1. i = n
    BY <1>1, <1>2
  <2> QED BY <1>0, <2>1
<1>3. ASSUME NEW i \in 1..n, NEW j \in 1..n, c[i] = "launch", c[j] = "lease"
      PROVE  j < i
  <2>1. i = s /\ j < s
    BY <1>1, <1>3
  <2> QED BY <2>1
<1> QED BY <1>0, <1>2, <1>3 DEF WellFormed

LEMMA RoutesWellFormed == \A k \in DOMAIN Calls : WellFormed(Calls[k])
<1>1. WellFormed(lnMapRender)
  <2>1. Len(lnMapRender) = 7
    BY DEF lnMapRender
  <2>2. Positions(lnMapRender, 7, 2, 5)
    BY DEF lnMapRender, Positions
  <2> QED BY <2>1, <2>2, PositionsSuffice
<1>2. WellFormed(transitionMesh)
  <2>1. Len(transitionMesh) = 9
    BY DEF transitionMesh
  <2>2. Positions(transitionMesh, 9, 3, 7)
    BY DEF transitionMesh, Positions
  <2> QED BY <2>1, <2>2, PositionsSuffice
<1>3. WellFormed(benchmark)
  <2>1. Len(benchmark) = 8
    BY DEF benchmark
  <2>2. Positions(benchmark, 8, 3, 6)
    BY DEF benchmark, Positions
  <2> QED BY <2>1, <2>2, PositionsSuffice
<1>4. WellFormed(zoomVideo)
  <2>1. Len(zoomVideo) = 8
    BY DEF zoomVideo
  <2>2. Positions(zoomVideo, 8, 3, 7)
    BY DEF zoomVideo, Positions
  <2> QED BY <2>1, <2>2, PositionsSuffice
<1>5. WellFormed(mapRender)
  <2>1. Len(mapRender) = 10
    BY DEF mapRender
  <2>2. Positions(mapRender, 10, 4, 9)
    BY DEF mapRender, Positions
  <2> QED BY <2>1, <2>2, PositionsSuffice
<1>6. WellFormed(specialEnumerate)
  <2>1. Len(specialEnumerate) = 9
    BY DEF specialEnumerate
  <2>2. Positions(specialEnumerate, 9, 3, 7)
    BY DEF specialEnumerate, Positions
  <2> QED BY <2>1, <2>2, PositionsSuffice
<1>7. WellFormed(specialSearch)
  <2>1. Len(specialSearch) = 11
    BY DEF specialSearch
  <2>2. Positions(specialSearch, 11, 3, 9)
    BY DEF specialSearch, Positions
  <2> QED BY <2>1, <2>2, PositionsSuffice
<1> HIDE DEF WellFormed
<1> QED
  BY <1>1, <1>2, <1>3, <1>4, <1>5, <1>6, <1>7
  DEF Calls, hsMesh, hsField, transitionVoxels, videoExport, transitionVideo

----------------------------------------------------------------------------
(* What the helpers do to the record of a run *)

\* The run is at one of its route's calls.
Placed(rec) ==
    /\ rec \in Record /\ rec.kind \in Routes
    /\ rec.at \in 1..Len(Calls[rec.kind])

\* The route has made one of these calls.
Passed(rec, calls) == \E i \in 1..(rec.at - 1) : Calls[rec.kind][i] \in calls

CallOf(rec) == Calls[rec.kind][rec.at]

\* Everything but the place, the phase and the exception.
SameRun(a, b) ==
    /\ b.owner = a.owner /\ b.kind = a.kind /\ b.mem = a.mem
    /\ b.cancelable = a.cancelable /\ b.token = a.token /\ b.preempt = a.preempt
    /\ b.lease = a.lease /\ b.hit = a.hit

LEMMA ToldKeeps ==
  ASSUME NEW rec, Placed(rec), NEW status \in Statuses, NEW ok \in BOOLEAN
  PROVE  LET b == Told(rec, status, ok) IN
         /\ Placed(b)
         /\ b.owner = rec.owner /\ b.kind = rec.kind /\ b.at = rec.at /\ b.phase = rec.phase
         /\ b.cancelable = rec.cancelable /\ b.token = rec.token /\ b.preempt = rec.preempt
         /\ b.lease = rec.lease /\ b.exc = rec.exc
         /\ b.mem = status /\ (b.hit <=> rec.hit \/ ~ok)
  BY DEF Placed, Record, Told

LEMMA AdvanceKeeps ==
  ASSUME NEW rec, Placed(rec)
  PROVE  LET b == Advance(rec) IN
         /\ Placed(b) /\ SameRun(rec, b) /\ b.exc = rec.exc
         /\ \/ b.phase = "end" /\ b.at = rec.at /\ rec.at = Len(Calls[rec.kind])
            \/ b.phase = rec.phase /\ b.at = rec.at + 1 /\ rec.at # Len(Calls[rec.kind])
<1>1. Len(Calls[rec.kind]) \in Nat \ {0}
  BY RoutesWellFormed, RoutesAssumption DEF WellFormed, Placed
<1>2. CASE rec.at = Len(Calls[rec.kind])
  BY <1>1, <1>2 DEF Placed, Record, Advance, SameRun, Phases
<1>3. CASE rec.at # Len(Calls[rec.kind])
  BY <1>1, <1>3 DEF Placed, Record, Advance, SameRun
<1> QED BY <1>2, <1>3

LEMMA RaiseKeeps ==
  ASSUME NEW rec, Placed(rec), NEW e \in {"cancelled", "error"}
  PROVE  LET b == Raise(rec, e) IN
         /\ Placed(b) /\ SameRun(rec, b) /\ b.at = rec.at
         /\ \/ b.phase = "catch" /\ b.exc = e /\ Launched(rec)
            \/ b.phase \in {"guard", "end"} /\ b.exc = rec.exc
<1>1. \/ Raise(rec, e) = [rec EXCEPT !.phase = "catch", !.exc = e] /\ Launched(rec)
      \/ Raise(rec, e) = [rec EXCEPT !.phase = "guard"]
      \/ Raise(rec, e) = [rec EXCEPT !.phase = "end"]
  BY DEF Raise
<1>2. CASE Raise(rec, e) = [rec EXCEPT !.phase = "catch", !.exc = e] /\ Launched(rec)
  BY <1>2 DEF Placed, Record, SameRun, Phases
<1>3. CASE Raise(rec, e) = [rec EXCEPT !.phase = "guard"]
  BY <1>3 DEF Placed, Record, SameRun, Phases
<1>4. CASE Raise(rec, e) = [rec EXCEPT !.phase = "end"]
  BY <1>4 DEF Placed, Record, SameRun, Phases
<1> QED BY <1>1, <1>2, <1>3, <1>4

\* No call of a route lies between the place it leaves and the one it reaches.
LEMMA AdvancePasses ==
  ASSUME NEW rec, Placed(rec), NEW b, Placed(b), b.kind = rec.kind, b.at = rec.at + 1, NEW calls
  PROVE  Passed(b, calls) <=> Passed(rec, calls) \/ CallOf(rec) \in calls
<1>1. rec.at \in Nat \ {0}
  BY DEF Placed, Record
<1> QED BY <1>1 DEF Passed, CallOf

----------------------------------------------------------------------------
(* The inductive invariant *)

\* Process and runs: the flock admits one exclusive holder, and no other then.
ExclusiveInv == \A p, q \in Procs : proc[p] = "exclusive" /\ Holds(q) => p = q

\* The record of a run, its status in table runs, and whether it has artifacts.
Good(r, rec, status, arts) ==
    /\ rec.phase = "none" => rec = Unborn /\ status = "none"
    /\ rec.phase = "lost" => rec.mem = "none" /\ ~rec.lease
    /\ rec.phase \notin {"none", "lost"} => rec.mem # "none" /\ (rec.hit \/ rec.mem = status)
    /\ rec.exc = "cancelled" => rec.token \/ rec.preempt
    /\ rec.phase \in {"route", "thread"} =>
         /\ rec.exc = "none"
         /\ Passed(rec, {"artifact"}) => r \in arts
    /\ status \in Terminal => \/ rec.phase \in {"end", "gone", "lost"}
                              \/ rec.phase = "guard" /\ status = "failed"
    /\ status = "completed" => r \in arts

GoodRuns == \A r \in Runs : Good(r, run[r], row[r], artifacts)

\* Runs whose lease holds lock l of process p.
Holders(p, l) == {r \in Runs : run[r].owner = p /\ run[r].lease /\ l \in LocksOf(run[r].kind)}

LocksInv ==
    \A p \in Procs, l \in Locks :
        \/ Holders(p, l) = {} /\ res[p][l].active = 0
        \/ \E r \in Runs : Holders(p, l) = {r} /\ res[p][l] = [active |-> 1, activeRunId |-> r]

\* A key is answered with the run saved for it, and with none before.
AnswersInv ==
    \A k \in Keys :
        /\ pend[k] # NoRun => saved[k].run = NoRun
        /\ saved[k].run = NoRun => answered[k] = {}
        /\ saved[k].run # NoRun => answered[k] \subseteq {saved[k].run}

NodeInv == NodeTypeOK /\ ExclusiveInv /\ GoodRuns /\ LocksInv /\ AnswersInv

----------------------------------------------------------------------------
(* The steps of one run *)

Calling == {"route", "thread"}

\* A call that succeeds: on to the next one.
Succeeds(r, rec, s, old, b, t, arts) ==
    /\ Placed(rec) /\ Placed(b) /\ b.kind = rec.kind /\ b.exc = rec.exc
    /\ rec.phase \in Calling /\ Good(r, rec, s, old) /\ old \subseteq arts
    /\ \/ b.phase = "end" /\ b.at = rec.at /\ rec.at = Len(Calls[rec.kind])
       \/ b.phase \in Calling /\ b.at = rec.at + 1 /\ rec.at # Len(Calls[rec.kind])
    /\ b.mem # "none" /\ (b.hit \/ b.mem = t)
    /\ CallOf(rec) = "artifact" => r \in arts
    /\ t \notin Terminal \/ (t = "completed" /\ CallOf(rec) = "completed")

LEMMA SucceedsGood ==
  ASSUME NEW r, NEW rec, NEW s, NEW old, NEW b, NEW t, NEW arts,
         Succeeds(r, rec, s, old, b, t, arts)
  PROVE  Good(r, b, t, arts)
<1> USE DEF Succeeds
<1>1. rec.exc = "none" /\ (Passed(rec, {"artifact"}) => r \in arts)
  BY DEF Good, Calling
<1>2. CASE b.phase = "end" /\ b.at = rec.at
  <2>1. CallOf(rec) = "completed" => r \in arts
    <3> SUFFICES ASSUME CallOf(rec) = "completed" PROVE r \in arts
      OBVIOUS
    <3>1. \E j \in 1..(rec.at - 1) : Calls[rec.kind][j] = "artifact"
      BY RoutesWellFormed, RoutesAssumption DEF WellFormed, CallOf, Placed
    <3> QED BY <1>1, <3>1 DEF Passed
  <2> QED BY <1>1, <1>2, <2>1 DEF Good, Terminal
<1>3. CASE b.phase \in Calling /\ b.at = rec.at + 1 /\ rec.at # Len(Calls[rec.kind])
  <2>1. CallOf(rec) # "completed"
    BY <1>3, RoutesWellFormed, RoutesAssumption DEF WellFormed, CallOf, Placed
  <2>2. Passed(b, {"artifact"}) => r \in arts
    BY <1>1, <1>3, AdvancePasses
  <2>4. b.exc = "none" /\ t \notin Terminal
    BY <1>1, <2>1
  <2> QED BY <1>3, <2>2, <2>4 DEF Good, Calling, Terminal
<1> QED BY <1>2, <1>3

\* What a step of run r may do.
RunMove(r) ==
    /\ run' \in [Runs -> Record] /\ row' \in [Runs -> Statuses] /\ artifacts' \subseteq Runs
    /\ \A q \in Runs \ {r} : /\ \/ run'[q] = run[q]
                                \/ /\ run'[q] = [run[q] EXCEPT !.preempt = TRUE]
                                   /\ run[q].phase \notin {"none", "lost"}
                             /\ row'[q] = row[q] /\ (q \in artifacts' <=> q \in artifacts)
    /\ run[r].phase \notin {"none", "lost"} /\ run'[r].phase \notin {"none", "lost"}
    /\ Placed(run'[r]) /\ run'[r].owner = run[r].owner /\ run'[r].kind = run[r].kind
    /\ Good(r, run'[r], row'[r], artifacts')
    /\ row'[r] # "none"
    /\ row'[r] # row[r] => row[r] \notin Terminal
    /\ row'[r] # row[r] /\ run'[r].mem = run[r].mem => run[r].hit
    /\ row'[r] # row[r] /\ row'[r] = "cancelled" => ShouldCancel(r)

\* The record of r becomes b and its row t.
Becomes(r, b, t) ==
    /\ run' = [run EXCEPT ![r] = b] /\ row' = [row EXCEPT ![r] = t]
    /\ artifacts' \in {artifacts, artifacts \cup {r}}
    /\ Placed(b) /\ b.owner = run[r].owner /\ b.kind = run[r].kind
    /\ b.phase \notin {"none", "lost"} /\ t \in Statuses \ {"none"}
    /\ t # row[r] => /\ row[r] \notin Terminal
                     /\ b.mem = t
                     /\ t = "cancelled" => ShouldCancel(r)

LEMMA BecomesMoves ==
  ASSUME NodeTypeOK, GoodRuns, NEW r \in Runs, run[r].phase \notin {"none", "lost"},
         NEW b, NEW t, Becomes(r, b, t), Good(r, b, t, artifacts')
  PROVE  RunMove(r)
<1> USE DEF Becomes
<1>1. run'[r] = b /\ row'[r] = t
  BY DEF NodeTypeOK
<1>2. \A q \in Runs \ {r} : run'[q] = run[q] /\ row'[q] = row[q]
  BY DEF NodeTypeOK
<1>3. run' \in [Runs -> Record] /\ row' \in [Runs -> Statuses] /\ artifacts' \subseteq Runs
  BY DEF NodeTypeOK, Placed
<1>4. row'[r] # row[r] /\ run'[r].mem = run[r].mem => run[r].hit
  BY <1>1 DEF GoodRuns, Good
<1> QED BY <1>1, <1>2, <1>3, <1>4 DEF RunMove

LEMMA SuccessMoves ==
  ASSUME NodeTypeOK, GoodRuns, NEW r \in Runs, NEW b, NEW t, Becomes(r, b, t),
         Succeeds(r, run[r], row[r], artifacts, b, t, artifacts')
  PROVE  RunMove(r)
<1>1. Good(r, b, t, artifacts') /\ run[r].phase \notin {"none", "lost"}
  BY SucceedsGood DEF Succeeds, Calling
<1> QED BY <1>1, BecomesMoves

\* Whatever leaves the route: for the handler, the guard or the end.
Stops(r, b, t) ==
    /\ b.phase \in {"catch", "guard", "end", "gone"} /\ b.mem # "none" /\ (b.hit \/ b.mem = t)
    /\ b.exc = "cancelled" => b.token \/ b.preempt
    /\ t \in Terminal => b.phase \in {"end", "gone"} \/ (b.phase = "guard" /\ t = "failed")
    /\ t = "completed" => row[r] = "completed"

LEMMA StopMoves ==
  ASSUME NodeTypeOK, GoodRuns, NEW r \in Runs, run[r].phase \notin {"none", "lost"},
         NEW b, NEW t, Becomes(r, b, t), Stops(r, b, t)
  PROVE  RunMove(r)
<1>1. t = "completed" => r \in artifacts'
  BY DEF Stops, GoodRuns, Good, Becomes
<1>2. Good(r, b, t, artifacts')
  BY <1>1 DEF Stops, Good
<1> QED BY <1>2, BecomesMoves

\* What is known of a run that is not over.
LEMMA InProgress ==
  ASSUME NodeTypeOK, GoodRuns, NEW r \in Runs, run[r].phase \notin {"none", "lost"}
  PROVE  /\ Placed(run[r]) /\ row[r] \in Statuses \ {"none"} /\ row = [row EXCEPT ![r] = row[r]]
         /\ run[r].mem # "none" /\ (run[r].hit \/ run[r].mem = row[r])
         /\ run[r].exc = "cancelled" => ShouldCancel(r)
         /\ run[r].phase \in Calling => run[r].exc = "none" /\ row[r] \notin Terminal
         /\ Good(r, run[r], row[r], artifacts)
<1>1. Placed(run[r]) /\ row[r] \in Statuses \ {"none"} /\ row = [row EXCEPT ![r] = row[r]]
  BY DEF NodeTypeOK, Placed
<1> QED BY <1>1 DEF GoodRuns, Good, Calling, ShouldCancel

\* A call that succeeds and leaves the row alone.
LEMMA QuietSuccess ==
  ASSUME NodeTypeOK, GoodRuns, NEW r \in Runs, run[r].phase \in Calling,
         NEW adv, adv = Advance(run[r]), NEW b, Placed(b),
         b.owner = adv.owner, b.kind = adv.kind, b.mem = adv.mem, b.hit = adv.hit, b.exc = adv.exc,
         b.at = adv.at, b.phase = adv.phase \/ (b.phase \in Calling /\ CallOf(run[r]) # "completed"),
         run' = [run EXCEPT ![r] = b], row' = row, artifacts' \in {artifacts, artifacts \cup {r}},
         CallOf(run[r]) = "artifact" => r \in artifacts'
  PROVE  RunMove(r)
<1>1. /\ Placed(run[r]) /\ row[r] \in Statuses \ {"none"} /\ row = [row EXCEPT ![r] = row[r]]
      /\ run[r].mem # "none" /\ (run[r].hit \/ run[r].mem = row[r])
      /\ row[r] \notin Terminal /\ Good(r, run[r], row[r], artifacts)
  BY InProgress DEF Calling
<1>2. /\ Placed(adv) /\ SameRun(run[r], adv) /\ adv.exc = run[r].exc
      /\ \/ adv.phase = "end" /\ adv.at = run[r].at /\ run[r].at = Len(Calls[run[r].kind])
         \/ adv.phase = run[r].phase /\ adv.at = run[r].at + 1 /\ run[r].at # Len(Calls[run[r].kind])
  BY <1>1, AdvanceKeeps
<1>3. run[r].at = Len(Calls[run[r].kind]) => CallOf(run[r]) = "completed"
  BY <1>1, RoutesWellFormed, RoutesAssumption DEF Placed, WellFormed, CallOf
<1>4. Succeeds(r, run[r], row[r], artifacts, b, row[r], artifacts')
  BY <1>1, <1>2, <1>3 DEF SameRun, Calling, Succeeds
<1>5. Becomes(r, b, row[r])
  BY <1>1, <1>2, <1>4 DEF Becomes, SameRun, Succeeds, Calling
<1> QED BY <1>4, <1>5, SuccessMoves

LEMMA AtCalls ==
  ASSUME NEW r, NEW s, At(r, s)
  PROVE  run[r].phase \in Calling /\ CallOf(run[r]) = s /\ run[r].phase \notin {"none", "lost"}
  BY DEF At, Here, Step, CallOf, Calling

LEMMA SetCancelableMoves ==
  ASSUME NodeTypeOK, GoodRuns, NEW r \in Runs, SetCancelable(r)
  PROVE  RunMove(r)
<1>1. run[r].phase \in Calling /\ CallOf(run[r]) \in {"cancelable", "seal"} /\ Placed(run[r])
  BY AtCalls, InProgress DEF SetCancelable
<1>2. PICK adv : adv = Advance(run[r])
  OBVIOUS
<1>3. PICK c : c \in BOOLEAN /\ run' = [run EXCEPT ![r] = [adv EXCEPT !.cancelable = c]]
  <2>1. run' = [run EXCEPT ![r] = [adv EXCEPT !.cancelable = At(r, "cancelable")]]
    BY <1>2 DEF SetCancelable
  <2>2. At(r, "cancelable") \in BOOLEAN
    BY DEF At, Here
  <2> QED BY <2>1, <2>2
<1>4. PICK b : b = [adv EXCEPT !.cancelable = c]
  OBVIOUS
<1>5. Placed(adv)
  BY <1>1, <1>2, AdvanceKeeps
<1>6. /\ Placed(b) /\ b.owner = adv.owner /\ b.kind = adv.kind /\ b.mem = adv.mem
      /\ b.lease = adv.lease /\ b.hit = adv.hit /\ b.exc = adv.exc
      /\ b.phase = adv.phase /\ b.at = adv.at
  BY <1>3, <1>4, <1>5 DEF Placed, Record
<1>7. artifacts' = artifacts /\ row' = row /\ run' = [run EXCEPT ![r] = b]
  BY <1>3, <1>4 DEF SetCancelable
<1> QED BY <1>1, <1>2, <1>6, <1>7, QuietSuccess

LEMMA LaunchMoves ==
  ASSUME NodeTypeOK, GoodRuns, NEW r \in Runs, Launch(r)
  PROVE  RunMove(r)
<1>1. run[r].phase \in Calling /\ CallOf(run[r]) = "launch" /\ Placed(run[r])
  BY AtCalls, InProgress DEF Launch
<1>2. PICK adv : adv = Advance(run[r])
  OBVIOUS
<1>3. PICK b : b = [adv EXCEPT !.phase = "thread"]
  OBVIOUS
<1>4. Placed(adv)
  BY <1>1, <1>2, AdvanceKeeps
<1>5. /\ Placed(b) /\ b.owner = adv.owner /\ b.kind = adv.kind /\ b.mem = adv.mem
      /\ b.lease = adv.lease /\ b.hit = adv.hit /\ b.exc = adv.exc
      /\ b.phase \in Calling /\ b.at = adv.at
  BY <1>3, <1>4 DEF Placed, Record, Calling, Phases
<1>6. artifacts' = artifacts /\ row' = row /\ run' = [run EXCEPT ![r] = b]
  BY <1>2, <1>3 DEF Launch
<1> QED BY <1>1, <1>2, <1>5, <1>6, QuietSuccess

\* The lease: tryAcquire succeeds.
LEMMA AcquireMoves ==
  ASSUME NodeTypeOK, GoodRuns, NEW r \in Runs, At(r, "lease") \/ At(r, "wait"),
         run' = [run EXCEPT ![r] = [Advance(run[r]) EXCEPT !.lease = TRUE]], row' = row, artifacts' = artifacts
  PROVE  RunMove(r)
<1>1. run[r].phase \in Calling /\ CallOf(run[r]) \in {"lease", "wait"} /\ Placed(run[r])
  BY AtCalls, InProgress
<1>2. PICK adv : adv = Advance(run[r])
  OBVIOUS
<1>3. PICK b : b = [adv EXCEPT !.lease = TRUE]
  OBVIOUS
<1>4. Placed(adv)
  BY <1>1, <1>2, AdvanceKeeps
<1>5. /\ Placed(b) /\ b.owner = adv.owner /\ b.kind = adv.kind /\ b.mem = adv.mem
      /\ b.hit = adv.hit /\ b.exc = adv.exc /\ b.phase = adv.phase /\ b.at = adv.at
  BY <1>3, <1>4 DEF Placed, Record
<1>6. run' = [run EXCEPT ![r] = b]
  BY <1>2, <1>3
<1> QED BY <1>1, <1>2, <1>5, <1>6, QuietSuccess

\* The calls that only go on: no flag, no call of JobRunner that writes.
LEMMA PlainSuccess ==
  ASSUME NodeTypeOK, GoodRuns, NEW r \in Runs, run[r].phase \in Calling,
         run' = [run EXCEPT ![r] = Advance(run[r])], row' = row,
         artifacts' \in {artifacts, artifacts \cup {r}},
         CallOf(run[r]) = "artifact" => r \in artifacts'
  PROVE  RunMove(r)
<1>1. PICK adv : adv = Advance(run[r])
  OBVIOUS
<1>2. Placed(adv)
  BY <1>1, InProgress, AdvanceKeeps DEF Calling
<1>3. PICK b : b = adv
  OBVIOUS
<1>4. /\ Placed(b) /\ b.owner = adv.owner /\ b.kind = adv.kind /\ b.mem = adv.mem
      /\ b.lease = adv.lease /\ b.hit = adv.hit /\ b.exc = adv.exc
      /\ b.phase = adv.phase /\ b.at = adv.at
  BY <1>2, <1>3
<1>5. run' = [run EXCEPT ![r] = b]
  BY <1>1, <1>3
<1>6. run[r].phase \in Calling /\ (CallOf(run[r]) = "artifact" => r \in artifacts')
  OBVIOUS
<1>8. b.phase = adv.phase \/ (b.phase \in Calling /\ CallOf(run[r]) # "completed")
  BY <1>4
<1> QED BY <1>1, <1>4, <1>5, <1>6, <1>8, QuietSuccess, Zenon

\* An exception with the row left alone.
LEMMA RaiseMoves ==
  ASSUME NodeTypeOK, GoodRuns, NEW r \in Runs, run[r].phase \in Calling,
         NEW rec, Placed(rec), rec.owner = run[r].owner, rec.kind = run[r].kind,
         rec.mem # "none", rec.hit \/ rec.mem = row[r], rec.exc = "none",
         rec.token = run[r].token, rec.preempt = run[r].preempt,
         NEW e \in {"cancelled", "error"}, e = "cancelled" => ShouldCancel(r),
         run' = [run EXCEPT ![r] = Raise(rec, e)], row' = row, artifacts' = artifacts
  PROVE  RunMove(r)
<1>1. PICK b : b = Raise(rec, e)
  OBVIOUS
<1>2. /\ Placed(b) /\ SameRun(rec, b)
      /\ \/ b.phase = "catch" /\ b.exc = e
         \/ b.phase \in {"guard", "end"} /\ b.exc = rec.exc
  BY <1>1, RaiseKeeps
<1>3. row[r] \in Statuses \ {"none"} /\ row = [row EXCEPT ![r] = row[r]] /\ row[r] \notin Terminal
  BY InProgress DEF Calling
<1>4. Stops(r, b, row[r])
  BY <1>2, <1>3 DEF Stops, SameRun, ShouldCancel
<1>5. Becomes(r, b, row[r])
  BY <1>1, <1>2, <1>3 DEF Becomes, SameRun
<1> QED BY <1>4, <1>5, StopMoves DEF Calling

LEMMA KernelMoves ==
  ASSUME NodeTypeOK, GoodRuns, NEW r \in Runs, Kernel(r) \/ Check(r)
  PROVE  RunMove(r)
<1>1. /\ run[r].phase \in Calling /\ CallOf(run[r]) \in {"kernel", "check"} /\ Placed(run[r])
      /\ run[r].mem # "none" /\ (run[r].hit \/ run[r].mem = row[r]) /\ run[r].exc = "none"
  BY AtCalls, InProgress DEF Kernel, Check
<1>2. row' = row /\ artifacts' = artifacts
  BY DEF Kernel, Check
<1>3. CASE run' = [run EXCEPT ![r] = Advance(run[r])]
  BY <1>1, <1>2, <1>3, PlainSuccess
<1>4. CASE run' = [run EXCEPT ![r] = Raise(run[r], "error")]
  BY <1>1, <1>2, <1>4, RaiseMoves
<1>5. CASE ShouldCancel(r) /\ run' = [run EXCEPT ![r] = Raise(run[r], "cancelled")]
  BY <1>1, <1>2, <1>5, RaiseMoves
<1> QED BY <1>3, <1>4, <1>5 DEF Kernel, Check

LEMMA AddArtifactMoves ==
  ASSUME NodeTypeOK, GoodRuns, NEW r \in Runs, AddArtifact(r)
  PROVE  RunMove(r)
<1>1. /\ run[r].phase \in Calling /\ CallOf(run[r]) = "artifact" /\ Placed(run[r])
      /\ run[r].mem # "none" /\ (run[r].hit \/ run[r].mem = row[r]) /\ run[r].exc = "none"
  BY AtCalls, InProgress DEF AddArtifact
<1>2. row' = row
  BY DEF AddArtifact
<1>3. CASE run' = [run EXCEPT ![r] = Advance(run[r])] /\ artifacts' = artifacts \cup {r}
  BY <1>1, <1>2, <1>3, PlainSuccess
<1>4. CASE run' = [run EXCEPT ![r] = Raise(run[r], "error")] /\ artifacts' = artifacts
  BY <1>1, <1>2, <1>4, RaiseMoves
<1> QED BY <1>3, <1>4 DEF AddArtifact

\* A status that cannot be written raises in the route.
LEMMA UnwrittenMoves ==
  ASSUME NodeTypeOK, GoodRuns, NEW r \in Runs, run[r].phase \in Calling, NEW status \in Statuses \ {"none"},
         run' = [run EXCEPT ![r] = Raise(Told(run[r], status, FALSE), "error")],
         row' = row, artifacts' = artifacts
  PROVE  RunMove(r)
<1>1. Placed(run[r]) /\ run[r].exc = "none"
  BY InProgress DEF Calling
<1>2. PICK rec : rec = Told(run[r], status, FALSE)
  OBVIOUS
<1>3. /\ Placed(rec) /\ rec.owner = run[r].owner /\ rec.kind = run[r].kind
      /\ rec.exc = run[r].exc /\ rec.token = run[r].token /\ rec.preempt = run[r].preempt
      /\ rec.mem = status /\ rec.hit
  BY <1>1, <1>2, ToldKeeps
<1>4. run' = [run EXCEPT ![r] = Raise(rec, "error")]
  BY <1>2
<1> QED BY <1>1, <1>3, <1>4, RaiseMoves

\* The run has seen that it is cancelled, and says so.
LEMMA CancelledMoves ==
  ASSUME NodeTypeOK, GoodRuns, NEW r \in Runs, run[r].phase \in Calling, ShouldCancel(r),
         run' = [run EXCEPT ![r] = [Told(run[r], "cancelled", TRUE) EXCEPT !.phase = "end"]],
         row' = [row EXCEPT ![r] = "cancelled"], artifacts' = artifacts
  PROVE  RunMove(r)
<1>1. Placed(run[r]) /\ run[r].exc = "none" /\ row[r] \notin Terminal /\ run[r].phase \notin {"none", "lost"}
  BY InProgress DEF Calling
<1>2. PICK rec : rec = Told(run[r], "cancelled", TRUE)
  OBVIOUS
<1>3. PICK b : b = [rec EXCEPT !.phase = "end"]
  OBVIOUS
<1>4. /\ Placed(rec) /\ rec.owner = run[r].owner /\ rec.kind = run[r].kind
      /\ rec.exc = run[r].exc /\ rec.mem = "cancelled"
  <2>1. "cancelled" \in Statuses
    BY DEF Statuses, Terminal
  <2> QED BY <1>1, <1>2, <2>1, ToldKeeps
<1>5. /\ Placed(b) /\ b.owner = run[r].owner /\ b.kind = run[r].kind
      /\ b.exc = "none" /\ b.mem = "cancelled" /\ b.phase = "end"
  BY <1>1, <1>3, <1>4 DEF Placed, Record, Phases
<1>6. Becomes(r, b, "cancelled")
  BY <1>1, <1>2, <1>3, <1>5 DEF Becomes, Statuses, Terminal
<1>7. Stops(r, b, "cancelled")
  BY <1>5 DEF Stops
<1> QED BY <1>1, <1>6, <1>7, StopMoves

LEMMA LeaveMoves ==
  ASSUME NodeTypeOK, GoodRuns, NEW r \in Runs, Leave(r)
  PROVE  RunMove(r)
<1>1. run[r].phase \in Calling /\ CallOf(run[r]) = "leave"
  BY AtCalls DEF Leave
<1>2. artifacts' = artifacts
  BY DEF Leave
<1>3. CASE ~ShouldCancel(r)
  BY <1>1, <1>2, <1>3, PlainSuccess DEF Leave
<1>4. CASE ShouldCancel(r)
  <2>1. PICK ok : /\ ok \in Outcomes
                  /\ run' = [run EXCEPT ![r] =
                       IF ok THEN [Told(run[r], "cancelled", ok) EXCEPT !.phase = "end"]
                       ELSE Raise(Told(run[r], "cancelled", ok), "error")]
                  /\ row' = IF ok THEN [row EXCEPT ![r] = "cancelled"] ELSE row
    BY <1>4 DEF Leave, SetStatus
  <2>2. CASE ok = TRUE
    <3>1. /\ run' = [run EXCEPT ![r] = [Told(run[r], "cancelled", TRUE) EXCEPT !.phase = "end"]]
          /\ row' = [row EXCEPT ![r] = "cancelled"]
      BY <2>1, <2>2
    <3> QED BY <1>1, <1>2, <1>4, <3>1, CancelledMoves
  <2>3. CASE ok = FALSE
    <3>1. run' = [run EXCEPT ![r] = Raise(Told(run[r], "cancelled", FALSE), "error")] /\ row' = row
      BY <2>1, <2>3
    <3>2. "cancelled" \in Statuses \ {"none"}
      BY DEF Statuses, Terminal
    <3> QED BY <1>1, <1>2, <3>1, <3>2, UnwrittenMoves
  <2> QED BY <2>1, <2>2, <2>3 DEF Outcomes
<1> QED BY <1>3, <1>4

LEMMA WaitMoves ==
  ASSUME NodeTypeOK, GoodRuns, NEW r \in Runs, Wait(r)
  PROVE  RunMove(r)
<1>1. run[r].phase \in Calling
  BY AtCalls DEF Wait
<1>2. artifacts' = artifacts
  BY DEF Wait
<1>3. CASE ~ShouldCancel(r)
  <2>1. At(r, "wait") /\ run' = [run EXCEPT ![r] = [Advance(run[r]) EXCEPT !.lease = TRUE]] /\ row' = row
    BY <1>3 DEF Wait
  <2> QED BY <1>2, <2>1, AcquireMoves
<1>4. CASE ShouldCancel(r)
  <2>1. PICK ok : /\ ok \in Outcomes
                  /\ run' = [run EXCEPT ![r] =
                       IF ok THEN [Told(run[r], "cancelled", ok) EXCEPT !.phase = "end"]
                       ELSE Raise(Told(run[r], "cancelled", ok), "error")]
                  /\ row' = IF ok THEN [row EXCEPT ![r] = "cancelled"] ELSE row
    BY <1>4 DEF Wait, SetStatus
  <2>2. CASE ok = TRUE
    <3>1. /\ run' = [run EXCEPT ![r] = [Told(run[r], "cancelled", TRUE) EXCEPT !.phase = "end"]]
          /\ row' = [row EXCEPT ![r] = "cancelled"]
      BY <2>1, <2>2
    <3> QED BY <1>1, <1>2, <1>4, <3>1, CancelledMoves
  <2>3. CASE ok = FALSE
    <3>1. run' = [run EXCEPT ![r] = Raise(Told(run[r], "cancelled", FALSE), "error")] /\ row' = row
      BY <2>1, <2>3
    <3>2. "cancelled" \in Statuses \ {"none"}
      BY DEF Statuses, Terminal
    <3> QED BY <1>1, <1>2, <3>1, <3>2, UnwrittenMoves
  <2> QED BY <2>1, <2>2, <2>3 DEF Outcomes
<1> QED BY <1>3, <1>4

LEMMA LaunchFailsMoves ==
  ASSUME NodeTypeOK, GoodRuns, NEW r \in Runs, LaunchFails(r)
  PROVE  RunMove(r)
<1>1. /\ run[r].phase \in Calling /\ run[r].phase \notin {"none", "lost"}
      /\ Placed(run[r]) /\ run[r].mem # "none" /\ run[r].exc = "none"
      /\ row[r] \in Statuses \ {"none"} /\ row[r] \notin Terminal /\ row = [row EXCEPT ![r] = row[r]]
  BY AtCalls, InProgress DEF LaunchFails
<1>2. PICK ph : ph \in {"guard", "end"} /\ run' = [run EXCEPT ![r] = [run[r] EXCEPT !.phase = ph, !.hit = TRUE]]
  <2>1. run' = [run EXCEPT ![r] = [run[r] EXCEPT !.phase = IF run[r].kind \in TriesAll THEN "guard" ELSE "end",
                                                 !.hit = TRUE]]
    BY DEF LaunchFails
  <2> QED BY <2>1
<1>3. PICK b : b = [run[r] EXCEPT !.phase = ph, !.hit = TRUE]
  OBVIOUS
<1>4. /\ Placed(b) /\ b.owner = run[r].owner /\ b.kind = run[r].kind /\ b.mem = run[r].mem
      /\ b.exc = run[r].exc /\ b.phase = ph /\ b.hit
  BY <1>1, <1>2, <1>3 DEF Placed, Record, Phases
<1>5. run' = [run EXCEPT ![r] = b] /\ row' = row /\ artifacts' = artifacts
  BY <1>2, <1>3 DEF LaunchFails
<1>6. Becomes(r, b, row[r])
  BY <1>1, <1>2, <1>4, <1>5 DEF Becomes
<1>7. Stops(r, b, row[r])
  BY <1>1, <1>2, <1>4 DEF Stops
<1> QED BY <1>1, <1>6, <1>7, StopMoves

LEMMA EndMoves ==
  ASSUME NodeTypeOK, GoodRuns, NEW r \in Runs, End(r)
  PROVE  RunMove(r)
<1>1. /\ run[r].phase = "end" /\ run[r].phase \notin {"none", "lost"}
      /\ Placed(run[r]) /\ run[r].mem # "none" /\ (run[r].hit \/ run[r].mem = row[r])
      /\ run[r].exc = "cancelled" => run[r].token \/ run[r].preempt
      /\ row[r] \in Statuses \ {"none"} /\ row = [row EXCEPT ![r] = row[r]]
  BY InProgress DEF End, ShouldCancel
<1>2. PICK b : b = [run[r] EXCEPT !.phase = "gone", !.lease = FALSE]
  OBVIOUS
<1>3. /\ Placed(b) /\ b.owner = run[r].owner /\ b.kind = run[r].kind /\ b.mem = run[r].mem
      /\ b.hit = run[r].hit /\ b.token = run[r].token /\ b.preempt = run[r].preempt
      /\ b.exc = run[r].exc /\ b.phase = "gone"
  BY <1>1, <1>2 DEF Placed, Record, Phases
<1>4. run' = [run EXCEPT ![r] = b] /\ row' = row /\ artifacts' = artifacts
  BY <1>2 DEF End
<1>5. Becomes(r, b, row[r])
  BY <1>1, <1>3, <1>4 DEF Becomes
<1>6. Stops(r, b, row[r])
  BY <1>1, <1>3 DEF Stops
<1> QED BY <1>1, <1>5, <1>6, StopMoves

\* What stops with a status of its own: the row takes it, or the write failed.
LEMMA VerdictMoves ==
  ASSUME NodeTypeOK, GoodRuns, NEW r \in Runs, run[r].phase \notin {"none", "lost"},
         NEW status \in {"failed", "cancelled"}, NEW ok \in BOOLEAN,
         row[r] \notin Terminal \/ row[r] = status,
         status = "cancelled" => ShouldCancel(r),
         NEW b, Placed(b), b.owner = run[r].owner, b.kind = run[r].kind,
         b.token = run[r].token, b.preempt = run[r].preempt, b.exc = run[r].exc,
         b.mem = status, b.hit <=> run[r].hit \/ ~ok,
         b.phase = "end" \/ (b.phase = "guard" /\ (status = "failed" \/ (~ok /\ row[r] \notin Terminal))),
         run' = [run EXCEPT ![r] = b],
         row' = IF ok THEN [row EXCEPT ![r] = status] ELSE row, artifacts' = artifacts
  PROVE  RunMove(r)
<1>1. /\ row[r] \in Statuses \ {"none"} /\ row = [row EXCEPT ![r] = row[r]]
      /\ run[r].exc = "cancelled" => run[r].token \/ run[r].preempt
  BY InProgress DEF ShouldCancel
<1>2. status \in Statuses \ {"none"} /\ status \in Terminal /\ status # "none"
  BY DEF Statuses, Terminal
<1>3. PICK t : t = IF ok THEN status ELSE row[r]
  OBVIOUS
<1>4. row' = [row EXCEPT ![r] = t]
  BY <1>1, <1>3
<1>5. Becomes(r, b, t)
  BY <1>1, <1>2, <1>3, <1>4 DEF Becomes
<1>6. Stops(r, b, t)
  BY <1>1, <1>2, <1>3 DEF Stops, Terminal
<1> QED BY <1>5, <1>6, StopMoves

LEMMA LeaseMoves ==
  ASSUME NodeTypeOK, GoodRuns, NEW r \in Runs, Lease(r)
  PROVE  RunMove(r)
<1>1. /\ run[r].phase \in Calling /\ run[r].phase \notin {"none", "lost"} /\ CallOf(run[r]) = "lease"
      /\ Placed(run[r]) /\ run[r].exc = "none" /\ row[r] \notin Terminal
  BY AtCalls, InProgress DEF Lease
<1>2. At(r, "lease") /\ artifacts' = artifacts
  BY DEF Lease
<1>3. CASE CanAcquire(run[r].owner, LocksOf(run[r].kind))
  <2>1. run' = [run EXCEPT ![r] = [Advance(run[r]) EXCEPT !.lease = TRUE]] /\ row' = row
    BY <1>3 DEF Lease
  <2> QED BY <1>2, <2>1, AcquireMoves
<1>4. CASE ~CanAcquire(run[r].owner, LocksOf(run[r].kind))
  <2>1. PICK ok \in Outcomes : /\ run' = [run EXCEPT ![r] = Raise(Told(run[r], "failed", ok), "error")]
                               /\ row' = IF ok THEN [row EXCEPT ![r] = "failed"] ELSE row
    BY <1>4 DEF Lease, SetStatus
  <2>2. PICK rec : rec = Told(run[r], "failed", ok)
    OBVIOUS
  <2>3. PICK b : b = Raise(rec, "error")
    OBVIOUS
  <2>4. ok \in BOOLEAN /\ "failed" \in Statuses
    BY DEF Outcomes, Statuses, Terminal
  <2>5. /\ Placed(rec) /\ rec.owner = run[r].owner /\ rec.kind = run[r].kind /\ rec.at = run[r].at
        /\ rec.exc = "none" /\ rec.token = run[r].token /\ rec.preempt = run[r].preempt
        /\ rec.mem = "failed" /\ (rec.hit <=> run[r].hit \/ ~ok)
    BY <1>1, <2>2, <2>4, ToldKeeps
  <2>6. ~Launched(rec)
    <3>1. rec.at \in 1..Len(Calls[rec.kind]) /\ Calls[rec.kind][rec.at] = "lease" /\ WellFormed(Calls[rec.kind])
      BY <1>1, <2>5, RoutesWellFormed, RoutesAssumption DEF Placed, CallOf
    <3>2. \A i \in 1..(rec.at - 1) : i \in 1..Len(Calls[rec.kind]) /\ ~(rec.at < i)
      BY <3>1 DEF WellFormed
    <3> QED BY <3>1, <3>2 DEF Launched, WellFormed
  <2>7. Placed(b) /\ SameRun(rec, b) /\ b.phase \in {"guard", "end"} /\ b.exc = rec.exc
    BY <2>3, <2>5, <2>6, RaiseKeeps
  <2>8. /\ b.owner = run[r].owner /\ b.kind = run[r].kind /\ b.token = run[r].token
        /\ b.preempt = run[r].preempt /\ b.exc = run[r].exc /\ b.mem = "failed"
        /\ b.hit <=> run[r].hit \/ ~ok
    BY <1>1, <2>5, <2>7 DEF SameRun
  <2>9. run' = [run EXCEPT ![r] = b]
    BY <2>1, <2>2, <2>3
  <2>10. b.phase = "end" \/ (b.phase = "guard" /\ ("failed" = "failed" \/ (~ok /\ row[r] \notin Terminal)))
    BY <2>7
  <2> QED BY <1>1, <1>2, <2>1, <2>4, <2>7, <2>8, <2>9, <2>10, VerdictMoves
<1> QED BY <1>3, <1>4

LEMMA CatchMoves ==
  ASSUME NodeTypeOK, GoodRuns, NEW r \in Runs, Catch(r)
  PROVE  RunMove(r)
<1>1. /\ run[r].phase = "catch" /\ run[r].phase \notin {"none", "lost"} /\ Placed(run[r])
      /\ run[r].exc = "cancelled" => ShouldCancel(r)
  BY InProgress DEF Catch
<1>2. row[r] \notin Terminal
  BY <1>1 DEF GoodRuns, Good
<1> DEFINE status == IF \/ run[r].exc = "cancelled"
                        \/ run[r].kind \in BlamesToken /\ ShouldCancel(r)
                     THEN "cancelled" ELSE "failed"
<1>4. status \in {"failed", "cancelled"} /\ (status = "cancelled" => ShouldCancel(r)) /\ status \in Statuses
  BY <1>1 DEF Statuses, Terminal
<1>5. PICK ok \in Outcomes :
        /\ run' = [run EXCEPT ![r] = [Told(run[r], status, ok) EXCEPT
                     !.cancelable = FALSE,
                     !.phase = IF ~ok /\ run[r].kind \in Guarded THEN "guard" ELSE "end"]]
        /\ row' = IF ok THEN [row EXCEPT ![r] = status] ELSE row
  BY DEF Catch, SetStatus
<1> HIDE DEF status
<1>6. ok \in BOOLEAN /\ artifacts' = artifacts
  BY DEF Outcomes, Catch
<1>7. PICK rec : rec = Told(run[r], status, ok)
  OBVIOUS
<1>8. PICK ph : ph = IF ~ok /\ run[r].kind \in Guarded THEN "guard" ELSE "end"
  OBVIOUS
<1>9. PICK b : b = [rec EXCEPT !.cancelable = FALSE, !.phase = ph]
  OBVIOUS
<1>10. /\ Placed(rec) /\ rec.owner = run[r].owner /\ rec.kind = run[r].kind
       /\ rec.exc = run[r].exc /\ rec.token = run[r].token /\ rec.preempt = run[r].preempt
       /\ rec.mem = status /\ (rec.hit <=> run[r].hit \/ ~ok)
  BY <1>1, <1>4, <1>6, <1>7, ToldKeeps
<1>11. ph = "end" \/ (ph = "guard" /\ ~ok)
  BY <1>8
<1>12. /\ Placed(b) /\ b.owner = rec.owner /\ b.kind = rec.kind
       /\ b.exc = rec.exc /\ b.token = rec.token /\ b.preempt = rec.preempt
       /\ b.mem = rec.mem /\ b.hit = rec.hit /\ b.phase = ph
  BY <1>9, <1>10, <1>11 DEF Placed, Record, Phases
<1>13. /\ b.owner = run[r].owner /\ b.kind = run[r].kind /\ b.token = run[r].token
       /\ b.preempt = run[r].preempt /\ b.exc = run[r].exc /\ b.mem = status
       /\ b.hit <=> run[r].hit \/ ~ok
  BY <1>10, <1>12
<1>14. b.phase = "end" \/ (b.phase = "guard" /\ (status = "failed" \/ (~ok /\ row[r] \notin Terminal)))
  BY <1>2, <1>11, <1>12
<1>15. run' = [run EXCEPT ![r] = b]
  BY <1>5, <1>7, <1>8, <1>9
<1> QED BY <1>1, <1>2, <1>4, <1>5, <1>6, <1>12, <1>13, <1>14, <1>15, VerdictMoves

LEMMA GuardMoves ==
  ASSUME NodeTypeOK, GoodRuns, NEW r \in Runs, Guard(r)
  PROVE  RunMove(r)
<1>1. run[r].phase = "guard" /\ run[r].phase \notin {"none", "lost"} /\ Placed(run[r])
  BY InProgress DEF Guard
<1>2. row[r] \notin Terminal \/ row[r] = "failed"
  BY <1>1 DEF GoodRuns, Good
<1>3. PICK ok \in Outcomes :
        /\ run' = [run EXCEPT ![r] = [Told(run[r], "failed", ok) EXCEPT !.phase = "end"]]
        /\ row' = IF ok THEN [row EXCEPT ![r] = "failed"] ELSE row
  BY DEF Guard, SetStatus
<1>4. ok \in BOOLEAN /\ artifacts' = artifacts /\ "failed" \in Statuses
  BY DEF Outcomes, Guard, Statuses, Terminal
<1>5. PICK rec : rec = Told(run[r], "failed", ok)
  OBVIOUS
<1>6. PICK b : b = [rec EXCEPT !.phase = "end"]
  OBVIOUS
<1>7. /\ Placed(rec) /\ rec.owner = run[r].owner /\ rec.kind = run[r].kind
      /\ rec.exc = run[r].exc /\ rec.token = run[r].token /\ rec.preempt = run[r].preempt
      /\ rec.mem = "failed" /\ (rec.hit <=> run[r].hit \/ ~ok)
  BY <1>1, <1>4, <1>5, ToldKeeps
<1>8. /\ Placed(b) /\ b.owner = rec.owner /\ b.kind = rec.kind
      /\ b.exc = rec.exc /\ b.token = rec.token /\ b.preempt = rec.preempt
      /\ b.mem = rec.mem /\ b.hit = rec.hit /\ b.phase = "end"
  BY <1>6, <1>7 DEF Placed, Record, Phases
<1>9. /\ b.owner = run[r].owner /\ b.kind = run[r].kind /\ b.token = run[r].token
      /\ b.preempt = run[r].preempt /\ b.exc = run[r].exc /\ b.mem = "failed"
      /\ b.hit <=> run[r].hit \/ ~ok
  BY <1>7, <1>8
<1>10. run' = [run EXCEPT ![r] = b]
  BY <1>3, <1>5, <1>6
<1> QED BY <1>1, <1>2, <1>3, <1>4, <1>8, <1>9, <1>10, VerdictMoves

LEMMA ReportStatusMoves ==
  ASSUME NodeTypeOK, GoodRuns, NEW r \in Runs, NEW status \in {"running", "completed"},
         ReportStatus(r, status)
  PROVE  RunMove(r)
<1>1. /\ run[r].phase \in Calling /\ run[r].phase \notin {"none", "lost"} /\ CallOf(run[r]) = status
      /\ Placed(run[r]) /\ run[r].exc = "none" /\ row[r] \notin Terminal
      /\ Good(r, run[r], row[r], artifacts)
  BY AtCalls, InProgress DEF ReportStatus
<1>2. PICK ok \in Outcomes : /\ run' = [run EXCEPT ![r] = IF ok THEN Advance(Told(run[r], status, ok))
                                                         ELSE Raise(Told(run[r], status, ok), "error")]
                             /\ row' = IF ok THEN [row EXCEPT ![r] = status] ELSE row
  BY DEF ReportStatus, SetStatus
<1>3. artifacts' = artifacts /\ status \in Statuses \ {"none"}
  BY DEF ReportStatus, Statuses, Active, Terminal
<1>4. CASE ok = FALSE
  <2>1. run' = [run EXCEPT ![r] = Raise(Told(run[r], status, FALSE), "error")] /\ row' = row
    BY <1>2, <1>4
  <2> QED BY <1>1, <1>3, <2>1, UnwrittenMoves
<1>5. CASE ok = TRUE
  <2>1. PICK rec : rec = Told(run[r], status, TRUE)
    OBVIOUS
  <2>2. PICK b : b = Advance(rec)
    OBVIOUS
  <2>3. /\ Placed(rec) /\ rec.owner = run[r].owner /\ rec.kind = run[r].kind /\ rec.at = run[r].at
        /\ rec.phase = run[r].phase /\ rec.lease = run[r].lease /\ rec.exc = run[r].exc /\ rec.mem = status
    BY <1>1, <1>3, <2>1, ToldKeeps
  <2>4. /\ Placed(b) /\ SameRun(rec, b) /\ b.exc = rec.exc
        /\ \/ b.phase = "end" /\ b.at = rec.at /\ rec.at = Len(Calls[rec.kind])
           \/ b.phase = rec.phase /\ b.at = rec.at + 1 /\ rec.at # Len(Calls[rec.kind])
    BY <2>2, <2>3, AdvanceKeeps
  <2>5. run' = [run EXCEPT ![r] = b] /\ row' = [row EXCEPT ![r] = status]
    BY <1>2, <1>5, <2>1, <2>2
  <2>6. Succeeds(r, run[r], row[r], artifacts, b, status, artifacts')
    BY <1>1, <1>3, <2>3, <2>4 DEF Succeeds, SameRun, Terminal
  <2>7. b.phase \notin {"none", "lost"} /\ b.owner = run[r].owner /\ b.kind = run[r].kind /\ b.mem = status
    BY <1>1, <2>3, <2>4 DEF SameRun
  <2>8. Becomes(r, b, status)
    BY <1>1, <1>3, <2>4, <2>5, <2>7 DEF Becomes
  <2> QED BY <2>6, <2>8, SuccessMoves
<1> QED BY <1>4, <1>5 DEF Outcomes

\* A flag that only ever goes up leaves the rest of a record true.
LEMMA FlagGood ==
  ASSUME NEW r, NEW rec, NEW s, NEW arts, NEW b, rec \in Record, Good(r, rec, s, arts),
         rec.phase \notin {"none", "lost"},
         b = [rec EXCEPT !.token = TRUE] \/ b = [rec EXCEPT !.preempt = TRUE]
  PROVE  /\ b \in Record /\ Good(r, b, s, arts) /\ b.phase = rec.phase /\ b.mem = rec.mem
         /\ b.owner = rec.owner /\ b.kind = rec.kind /\ b.lease = rec.lease /\ b.at = rec.at
<1>1. /\ b \in Record /\ b.phase = rec.phase /\ b.mem = rec.mem /\ b.hit = rec.hit /\ b.exc = rec.exc
      /\ b.owner = rec.owner /\ b.kind = rec.kind /\ b.lease = rec.lease /\ b.at = rec.at
      /\ b.token \/ b.preempt
  BY DEF Record
<1>2. \A calls : Passed(rec, calls) <=> Passed(b, calls)
  BY <1>1 DEF Passed
<1> QED BY <1>1, <1>2 DEF Good

LEMMA RequestCancelMoves ==
  ASSUME NodeTypeOK, GoodRuns, NEW r \in Runs, RequestCancel(r)
  PROVE  RunMove(r)
<1>1. run[r].phase \notin {"none", "lost"}
  BY DEF RequestCancel, GoodRuns, Good, Unborn, Active
<1>2. /\ Placed(run[r]) /\ row[r] \in Statuses \ {"none"} /\ row = [row EXCEPT ![r] = row[r]]
      /\ Good(r, run[r], row[r], artifacts)
  BY <1>1, InProgress
<1>3. PICK b : b = [run[r] EXCEPT !.token = TRUE]
  OBVIOUS
<1>4. /\ b \in Record /\ Good(r, b, row[r], artifacts) /\ b.phase = run[r].phase
      /\ b.owner = run[r].owner /\ b.kind = run[r].kind /\ b.at = run[r].at
  BY <1>1, <1>2, <1>3, FlagGood DEF Placed
<1>5. run' = [run EXCEPT ![r] = b] /\ row' = row /\ artifacts' = artifacts
  BY <1>3 DEF RequestCancel
<1>6. Becomes(r, b, row[r])
  BY <1>1, <1>2, <1>4, <1>5 DEF Becomes, Placed
<1> QED BY <1>1, <1>4, <1>5, <1>6, BecomesMoves

LEMMA RegisterMoves ==
  ASSUME NodeTypeOK, GoodRuns, NEW r \in Runs, Register(r)
  PROVE  RunMove(r)
<1>1. /\ run[r].phase \in Calling /\ run[r].phase \notin {"none", "lost"} /\ CallOf(run[r]) = "register"
      /\ Placed(run[r]) /\ run[r].exc = "none" /\ row[r] \notin Terminal /\ row[r] \in Statuses \ {"none"}
      /\ run[r].mem # "none" /\ (run[r].hit \/ run[r].mem = row[r])
      /\ Good(r, run[r], row[r], artifacts)
  BY AtCalls, InProgress DEF Register
<1>2. PICK stale \in BOOLEAN :
        run' = [q \in Runs |->
                 IF q = r THEN [Advance(run[r]) EXCEPT !.preempt = stale]
                 ELSE IF ~stale /\ Registered(q) /\ run[q].owner = run[r].owner
                      THEN [run[q] EXCEPT !.preempt = TRUE]
                 ELSE run[q]]
  BY DEF Register
<1>3. PICK adv : adv = Advance(run[r])
  OBVIOUS
<1>4. PICK b : b = [adv EXCEPT !.preempt = stale]
  OBVIOUS
<1>5. /\ Placed(adv) /\ SameRun(run[r], adv) /\ adv.exc = run[r].exc
      /\ \/ adv.phase = "end" /\ adv.at = run[r].at /\ run[r].at = Len(Calls[run[r].kind])
         \/ adv.phase = run[r].phase /\ adv.at = run[r].at + 1 /\ run[r].at # Len(Calls[run[r].kind])
  BY <1>1, <1>3, AdvanceKeeps
<1>6. /\ Placed(b) /\ b.owner = adv.owner /\ b.kind = adv.kind /\ b.mem = adv.mem
      /\ b.lease = adv.lease /\ b.hit = adv.hit /\ b.exc = adv.exc
      /\ b.phase = adv.phase /\ b.at = adv.at
  BY <1>4, <1>5 DEF Placed, Record
<1>7. Succeeds(r, run[r], row[r], artifacts, b, row[r], artifacts)
  BY <1>1, <1>5, <1>6 DEF Succeeds, SameRun
<1>8. Good(r, b, row[r], artifacts)
  BY <1>7, SucceedsGood
<1>9. run'[r] = b /\ row' = row /\ artifacts' = artifacts
  BY <1>2, <1>3, <1>4 DEF Register
<1>10. \A q \in Runs \ {r} : \/ run'[q] = run[q]
                             \/ run'[q] = [run[q] EXCEPT !.preempt = TRUE] /\ run[q].phase \notin {"none", "lost"}
  BY <1>2 DEF Registered
<1>11. \A q \in Runs : run'[q] \in Record
  <2>1. ASSUME NEW q \in Runs PROVE [run[q] EXCEPT !.preempt = TRUE] \in Record
    <3>1. run[q] \in Record
      BY DEF NodeTypeOK
    <3> QED BY <3>1 DEF Record
  <2> QED BY <1>6, <1>9, <1>10, <2>1 DEF NodeTypeOK, Placed
<1>12. run' \in [Runs -> Record] /\ row' \in [Runs -> Statuses] /\ artifacts' \subseteq Runs
  BY <1>2, <1>9, <1>11 DEF NodeTypeOK
<1>13. b.owner = run[r].owner /\ b.kind = run[r].kind /\ b.phase \notin {"none", "lost"}
  BY <1>1, <1>5, <1>6 DEF SameRun
<1> QED BY <1>1, <1>6, <1>8, <1>9, <1>10, <1>12, <1>13 DEF RunMove

LEMMA RunStepMoves ==
  ASSUME NodeTypeOK, GoodRuns, NEW r \in Runs, RequestCancel(r) \/ RunStep(r)
  PROVE  RunMove(r)
  BY SetCancelableMoves, LeaseMoves, RegisterMoves, LaunchMoves, LaunchFailsMoves, WaitMoves, LeaveMoves,
     ReportStatusMoves, KernelMoves, AddArtifactMoves, CatchMoves, GuardMoves, EndMoves, RequestCancelMoves
  DEF RunStep

\* What a move keeps of the other runs.
LEMMA OthersKept ==
  ASSUME NodeTypeOK, GoodRuns, NEW r \in Runs, RunMove(r), NEW q \in Runs \ {r}
  PROVE  /\ Good(q, run'[q], row'[q], artifacts')
         /\ run'[q].phase = run[q].phase /\ run'[q].mem = run[q].mem /\ run'[q].owner = run[q].owner
         /\ run'[q].kind = run[q].kind /\ run'[q].lease = run[q].lease /\ run'[q].at = run[q].at
<1>1. run[q] \in Record /\ Good(q, run[q], row[q], artifacts)
  BY DEF NodeTypeOK, GoodRuns
<1>2. row'[q] = row[q] /\ (q \in artifacts' <=> q \in artifacts)
  BY DEF RunMove
<1>3. Good(q, run[q], row[q], artifacts')
  BY <1>1, <1>2 DEF Good
<1>4. CASE run'[q] = run[q]
  BY <1>2, <1>3, <1>4
<1>5. CASE run'[q] = [run[q] EXCEPT !.preempt = TRUE] /\ run[q].phase \notin {"none", "lost"}
  BY <1>1, <1>2, <1>3, <1>5, FlagGood
<1> QED BY <1>4, <1>5 DEF RunMove

----------------------------------------------------------------------------
(* The steps of a process *)

\* The runs of p are lost.
LEMMA VanishGood ==
  ASSUME NodeTypeOK, GoodRuns, NEW p \in Procs, Vanish(p), row' = row, artifacts' = artifacts
  PROVE  /\ run' \in [Runs -> Record]
         /\ \A r \in Runs : /\ Good(r, run'[r], row'[r], artifacts')
                            /\ run'[r] = run[r] \/ (run[r].phase # "none" /\ run[r].owner = p /\ Placed(run'[r])
                                                    /\ run'[r].phase = "lost" /\ run'[r].owner = p
                                                    /\ run'[r].mem = "none" /\ ~run'[r].lease)
                            /\ run'[r].phase \notin {"none", "lost"} => run[r].owner # p
<1> SUFFICES ASSUME NEW r \in Runs
             PROVE  /\ run'[r] \in Record /\ Good(r, run'[r], row'[r], artifacts')
                    /\ run'[r] = run[r] \/ (run[r].phase # "none" /\ run[r].owner = p /\ Placed(run'[r])
                                            /\ run'[r].phase = "lost" /\ run'[r].owner = p
                                            /\ run'[r].mem = "none" /\ ~run'[r].lease)
                    /\ run'[r].phase \notin {"none", "lost"} => run[r].owner # p
  BY DEF Vanish
<1>1. run[r] \in Record /\ Good(r, run[r], row[r], artifacts)
  BY DEF NodeTypeOK, GoodRuns
<1>2. CASE run[r].owner = p /\ run[r].phase # "none"
  <2>1. run'[r] = [Unborn EXCEPT !.owner = p, !.kind = run[r].kind, !.at = 1, !.phase = "lost"]
    BY <1>2 DEF Vanish
  <2>2. run[r].kind \in Routes /\ Len(Calls[run[r].kind]) \in Nat \ {0}
    BY <1>2, RoutesWellFormed, RoutesAssumption DEF NodeTypeOK, WellFormed
  <2>3. PICK kd : kd = run[r].kind
    OBVIOUS
  <2>4. run'[r] = [Unborn EXCEPT !.owner = p, !.kind = kd, !.at = 1, !.phase = "lost"]
    BY <2>1, <2>3
  <2>5. /\ run'[r].owner = p /\ run'[r].kind = kd /\ run'[r].at = 1 /\ run'[r].phase = "lost"
        /\ run'[r].mem = "none" /\ ~run'[r].lease /\ run'[r].exc = "none"
    BY <2>4 DEF Unborn
  <2>6. run'[r] \in Record
    <3>1. run'[r] = [owner |-> p, kind |-> kd, at |-> 1, phase |-> "lost", mem |-> "none",
                     cancelable |-> FALSE, token |-> FALSE, preempt |-> FALSE, lease |-> FALSE,
                     exc |-> "none", hit |-> FALSE]
      BY <2>4 DEF Unborn
    <3>2. kd \in DOMAIN Calls \cup {"none"} /\ "lost" \in Phases /\ "none" \in Statuses
      BY <2>2, <2>3, RoutesAssumption DEF Phases, Statuses
    <3> QED BY <3>1, <3>2 DEF Record
  <2>7. Placed(run'[r])
    BY <2>2, <2>3, <2>5, <2>6 DEF Placed
  <2>8. Good(r, run'[r], row'[r], artifacts')
    BY <1>1, <2>5 DEF Good
  <2> QED BY <1>2, <2>5, <2>6, <2>7, <2>8
<1>3. CASE ~(run[r].owner = p /\ run[r].phase # "none")
  <2>1. run'[r] = run[r]
    BY <1>3 DEF Vanish
  <2> QED BY <1>1, <1>3, <2>1
<1> QED BY <1>2, <1>3

\* createRun: a run nobody had, queued, at the first call of its route.
LEMMA CreateGood ==
  ASSUME NodeTypeOK, GoodRuns, NEW p \in Procs, NEW kind \in Routes, CreateRun(p, kind), artifacts' = artifacts
  PROVE  /\ run' \in [Runs -> Record] /\ row' \in [Runs -> Statuses]
         /\ NewRun \in Runs /\ run[NewRun].phase = "none" /\ row[NewRun] = "none"
         /\ run[NewRun].mem = "none" /\ ~run[NewRun].lease
         /\ Placed(run'[NewRun]) /\ run'[NewRun].owner = p /\ run'[NewRun].phase = "route"
         /\ row'[NewRun] = "queued" /\ ~run'[NewRun].lease
         /\ Good(NewRun, run'[NewRun], "queued", artifacts')
         /\ \A q \in Runs \ {NewRun} : run'[q] = run[q] /\ row'[q] = row[q]
<1>1. PICK n : n = NewRun
  OBVIOUS
<1>2. n \in Runs /\ run[n].phase = "none"
  BY <1>1 DEF CreateRun, NewRun
<1>3. run[n] = Unborn /\ row[n] = "none"
  BY <1>2 DEF GoodRuns, Good
<1>4. PICK b : b = [Unborn EXCEPT !.owner = p, !.kind = kind, !.at = 1, !.phase = "route", !.mem = "queued"]
  OBVIOUS
<1>5. run' = [run EXCEPT ![n] = b] /\ row' = [row EXCEPT ![n] = "queued"]
  BY <1>1, <1>4 DEF CreateRun
<1>b. b = [owner |-> p, kind |-> kind, at |-> 1, phase |-> "route", mem |-> "queued",
            cancelable |-> FALSE, token |-> FALSE, preempt |-> FALSE, lease |-> FALSE,
            exc |-> "none", hit |-> FALSE]
  BY <1>4 DEF Unborn
<1>6. Placed(b)
  <2>1. Len(Calls[kind]) \in Nat \ {0} /\ kind \in DOMAIN Calls
    BY RoutesWellFormed, RoutesAssumption DEF WellFormed
  <2>2. "route" \in Phases /\ "queued" \in Statuses
    BY DEF Phases, Statuses, Active
  <2> QED BY <1>b, <2>1, <2>2 DEF Placed, Record
<1>7. Good(n, b, "queued", artifacts')
  <2>1. \A calls : ~Passed(b, calls)
    BY <1>b DEF Passed
  <2> QED BY <1>b, <2>1 DEF Good, Terminal
<1>8. run'[n] = b /\ row'[n] = "queued" /\ \A q \in Runs \ {n} : run'[q] = run[q] /\ row'[q] = row[q]
  BY <1>2, <1>5 DEF NodeTypeOK
<1>9. run' \in [Runs -> Record] /\ row' \in [Runs -> Statuses]
  BY <1>5, <1>6 DEF NodeTypeOK, Placed, Statuses, Active
<1> QED BY <1>1, <1>2, <1>3, <1>b, <1>6, <1>7, <1>8, <1>9 DEF Unborn

\* What NodeTypeOK says of runs and rows.
RunsTyped ==
    /\ run \in [Runs -> Record] /\ row \in [Runs -> Statuses] /\ artifacts \subseteq Runs
    /\ \A r \in Runs : run[r].phase # "none" =>
         /\ run[r].kind \in Routes /\ run[r].at \in 1..Len(Calls[run[r].kind])
         /\ row[r] # "none"
         /\ run[r].phase # "lost" => proc[run[r].owner] = "up"

\* A process that starts alone settles the rows of the dead.
LEMMA CancelInterruptedGood ==
  ASSUME NodeTypeOK, GoodRuns, ExclusiveInv, NEW p \in Procs, CancelInterruptedRuns(p)
  PROVE  RunsTyped' /\ GoodRuns' /\ \A r \in Runs : row'[r] # row[r] =>
            row[r] \in Active /\ run[r].phase = "lost" /\ run[r].mem = "none"
<1>1. run' = run /\ artifacts' = artifacts
  BY DEF CancelInterruptedRuns
<1>2. \A r \in Runs : run[r].phase \notin {"none", "lost"} => proc[run[r].owner] = "up" /\ run[r].owner \in Procs
  BY DEF NodeTypeOK, Record
<1>3. \A r \in Runs : run[r].phase \in {"none", "lost"}
  BY <1>2 DEF ExclusiveInv, CancelInterruptedRuns, Holds
<1>4. ASSUME NEW r \in Runs
      PROVE  row'[r] = row[r] \/ (row[r] \in Active /\ row'[r] = "cancelled" /\ run[r].phase = "lost")
  <2>1. row[r] \in Active => run[r].phase = "lost"
    BY <1>3 DEF GoodRuns, Good, Active
  <2> QED BY <2>1 DEF CancelInterruptedRuns, Outcomes
<1>5. row' \in [Runs -> Statuses]
  BY DEF CancelInterruptedRuns, NodeTypeOK, Statuses, Terminal
<1>6. GoodRuns'
  <2> SUFFICES ASSUME NEW r \in Runs PROVE Good(r, run'[r], row'[r], artifacts')
    BY DEF GoodRuns
  <2>1. Good(r, run[r], row[r], artifacts)
    BY DEF GoodRuns
  <2> QED BY <1>1, <1>4, <2>1 DEF Good
<1>7. RunsTyped'
  BY <1>1, <1>3, <1>4, <1>5 DEF RunsTyped, NodeTypeOK
<1>8. \A r \in Runs : run[r].phase = "lost" => run[r].mem = "none"
  BY DEF GoodRuns, Good
<1> QED BY <1>4, <1>6, <1>7, <1>8

LEMMA NextRuns ==
  ASSUME NodeTypeOK, ExclusiveInv, GoodRuns, [Next]_vars
  PROVE  RunsTyped' /\ GoodRuns'
<1>0. RunsTyped
  BY DEF NodeTypeOK, RunsTyped
<1>1. ASSUME run' = run, row' = row, artifacts' = artifacts,
             \A p \in Procs : proc[p] = "up" => proc'[p] = "up"
      PROVE  RunsTyped' /\ GoodRuns'
  <2>1. GoodRuns'
    BY <1>1 DEF GoodRuns
  <2>2. \A r \in Runs : run[r].owner \in Procs
    BY DEF NodeTypeOK, Record
  <2> QED BY <1>0, <1>1, <2>1, <2>2 DEF RunsTyped
<1>2. CASE UNCHANGED vars
  BY <1>1, <1>2 DEF vars
<1>3. ASSUME NEW p \in Procs, TryExclusive(p) PROVE RunsTyped' /\ GoodRuns'
  BY <1>1, <1>3 DEF TryExclusive, NodeTypeOK
<1>4. ASSUME NEW p \in Procs, JoinShared(p) PROVE RunsTyped' /\ GoodRuns'
  BY <1>1, <1>4 DEF JoinShared, NodeTypeOK
<1>5. ASSUME NEW p \in Procs, CancelInterruptedRuns(p) PROVE RunsTyped' /\ GoodRuns'
  BY <1>5, CancelInterruptedGood
<1>6. ASSUME NEW p \in Procs, Crash(p) \/ CliExit(p) PROVE RunsTyped' /\ GoodRuns'
  <2>1. Vanish(p) /\ row' = row /\ artifacts' = artifacts
    BY <1>6 DEF Crash, CliExit
  <2>2. /\ run' \in [Runs -> Record] /\ \A r \in Runs : Good(r, run'[r], row'[r], artifacts')
    BY <2>1, VanishGood
  <2>3. \A q \in Procs : q # p => proc'[q] = proc[q]
    BY <2>1 DEF Vanish, NodeTypeOK
  <2>4. ASSUME NEW r \in Runs, run'[r].phase # "none"
        PROVE  /\ run'[r].kind \in Routes /\ run'[r].at \in 1..Len(Calls[run'[r].kind])
               /\ row'[r] # "none"
               /\ run'[r].phase # "lost" => proc'[run'[r].owner] = "up"
    <3>1. CASE run'[r] = run[r]
      <4>1. run'[r].phase # "lost" => run[r].owner # p
        BY <2>1, <2>4, VanishGood
      <4>2. run[r].owner \in Procs
        BY DEF NodeTypeOK, Record
      <4> QED BY <1>0, <2>1, <2>3, <2>4, <3>1, <4>1, <4>2 DEF RunsTyped
    <3>2. CASE run[r].phase # "none" /\ Placed(run'[r]) /\ run'[r].phase = "lost"
      BY <1>0, <2>1, <3>2 DEF RunsTyped, Placed
    <3> QED BY <2>1, <3>1, <3>2, VanishGood
  <2> QED BY <1>0, <2>1, <2>2, <2>4 DEF RunsTyped, GoodRuns
<1>7. ASSUME NEW p \in Procs, NEW kind \in Routes, CreateRun(p, kind), artifacts' = artifacts,
             proc' = proc, proc[p] = "up"
      PROVE  RunsTyped' /\ GoodRuns'
  <2>1. PICK n : n = NewRun
    OBVIOUS
  <2>2. /\ run' \in [Runs -> Record] /\ row' \in [Runs -> Statuses] /\ n \in Runs
        /\ Placed(run'[n]) /\ run'[n].owner = p /\ row'[n] = "queued"
        /\ Good(n, run'[n], "queued", artifacts')
        /\ \A q \in Runs \ {n} : run'[q] = run[q] /\ row'[q] = row[q]
    BY <1>7, <2>1, CreateGood
  <2>3. GoodRuns'
    BY <1>7, <2>2 DEF GoodRuns
  <2>4. ASSUME NEW r \in Runs, run'[r].phase # "none"
        PROVE  /\ run'[r].kind \in Routes /\ run'[r].at \in 1..Len(Calls[run'[r].kind])
               /\ row'[r] # "none"
               /\ run'[r].phase # "lost" => proc'[run'[r].owner] = "up"
    <3>1. CASE r = n
      BY <1>7, <2>2, <3>1 DEF Placed
    <3>2. CASE r # n
      BY <1>0, <1>7, <2>2, <2>4, <3>2 DEF RunsTyped
    <3> QED BY <3>1, <3>2
  <2> QED BY <1>0, <1>7, <2>2, <2>3, <2>4 DEF RunsTyped
<1>8. ASSUME NEW p \in Procs, NEW kind \in Routes, CreateDirect(p, kind) PROVE RunsTyped' /\ GoodRuns'
  BY <1>7, <1>8 DEF CreateDirect
<1>9. ASSUME NEW k \in Keys, NEW kind \in Routes, CreateKeyed(k, kind) PROVE RunsTyped' /\ GoodRuns'
  BY <1>7, <1>9, NodeAssumption DEF CreateKeyed
<1>10. ASSUME NEW k \in Keys, NEW kind \in Routes, ReplayResponse(k, kind) \/ SaveResponse(k)
       PROVE  RunsTyped' /\ GoodRuns'
  BY <1>1, <1>10 DEF ReplayResponse, SaveResponse
<1>11. ASSUME NEW k \in Keys, SaveResponse(k) PROVE RunsTyped' /\ GoodRuns'
  BY <1>1, <1>11 DEF SaveResponse
<1>12. ASSUME NEW r \in Runs, RequestCancel(r) \/ RunStep(r) PROVE RunsTyped' /\ GoodRuns'
  <2>1. RunMove(r)
    BY <1>12, RunStepMoves
  <2>2. proc' = proc
    BY <1>12 DEF RequestCancel, RunStep, SetCancelable, Lease, Register, Launch, LaunchFails, Wait, Leave,
                 ReportStatus, Kernel, Check, AddArtifact, Catch, Guard, End
  <2>3. ASSUME NEW q \in Runs
        PROVE  /\ Good(q, run'[q], row'[q], artifacts')
               /\ run'[q].phase # "none" =>
                    /\ run'[q].kind \in Routes /\ run'[q].at \in 1..Len(Calls[run'[q].kind])
                    /\ row'[q] # "none"
                    /\ run'[q].phase # "lost" => proc'[run'[q].owner] = "up"
    <3>1. CASE q = r
      BY <1>0, <2>1, <2>2, <3>1 DEF RunMove, RunsTyped, Placed
    <3>2. CASE q # r
      <4>1. /\ Good(q, run'[q], row'[q], artifacts') /\ row'[q] = row[q]
            /\ run'[q].phase = run[q].phase /\ run'[q].owner = run[q].owner
            /\ run'[q].kind = run[q].kind /\ run'[q].at = run[q].at
        BY <2>1, <3>2, OthersKept DEF RunMove
      <4> QED BY <1>0, <2>2, <4>1 DEF RunsTyped
    <3> QED BY <3>1, <3>2
  <2> QED BY <2>1, <2>3 DEF RunMove, RunsTyped, GoodRuns
<1> QED BY <1>2, <1>3, <1>4, <1>5, <1>6, <1>8, <1>9, <1>10, <1>11, <1>12 DEF Next

----------------------------------------------------------------------------
(* Locks *)

LEMMA HelpersKeepLease ==
  ASSUME NEW rec, Placed(rec)
  PROVE  /\ Placed(Advance(rec)) /\ Advance(rec).lease = rec.lease
         /\ \A e \in {"cancelled", "error"} : Placed(Raise(rec, e)) /\ Raise(rec, e).lease = rec.lease
         /\ \A status \in Statuses, ok \in BOOLEAN :
              Placed(Told(rec, status, ok)) /\ Told(rec, status, ok).lease = rec.lease
  BY AdvanceKeeps, RaiseKeeps, ToldKeeps DEF SameRun

\* The calls that take no lock and release none.
LEMMA LeaseKept ==
  ASSUME NodeTypeOK, GoodRuns, NEW r \in Runs,
         \/ SetCancelable(r) \/ Register(r) \/ Launch(r) \/ LaunchFails(r) \/ Leave(r)
         \/ ReportStatus(r, "running") \/ Kernel(r) \/ Check(r) \/ AddArtifact(r)
         \/ ReportStatus(r, "completed") \/ Catch(r) \/ Guard(r) \/ RequestCancel(r)
  PROVE  run'[r].lease = run[r].lease /\ res' = res
<1>1. run[r].phase \notin {"none", "lost"}
  BY RunStepMoves DEF RunStep, RunMove
<1>2. Placed(run[r]) /\ run[r] \in Record
  BY <1>1, InProgress DEF Placed
<1>3. /\ Placed(Advance(run[r])) /\ Advance(run[r]).lease = run[r].lease
      /\ \A e \in {"cancelled", "error"} : Raise(run[r], e).lease = run[r].lease
  BY <1>2, HelpersKeepLease
<1>4. ASSUME NEW status \in Statuses, NEW ok \in BOOLEAN
      PROVE  /\ Placed(Told(run[r], status, ok)) /\ Told(run[r], status, ok).lease = run[r].lease
             /\ Advance(Told(run[r], status, ok)).lease = run[r].lease
             /\ Raise(Told(run[r], status, ok), "error").lease = run[r].lease
  BY <1>2, HelpersKeepLease
<1>5. \A rec : Placed(rec) => /\ \A ph : [rec EXCEPT !.phase = ph].lease = rec.lease
                              /\ \A ph : [rec EXCEPT !.phase = ph, !.hit = TRUE].lease = rec.lease
                              /\ \A ph : [rec EXCEPT !.cancelable = FALSE, !.phase = ph].lease = rec.lease
                              /\ \A c : [rec EXCEPT !.cancelable = c].lease = rec.lease
                              /\ \A c : [rec EXCEPT !.preempt = c].lease = rec.lease
                              /\ [rec EXCEPT !.token = TRUE].lease = rec.lease
  BY DEF Placed, Record
<1>6. {"running", "completed", "cancelled", "failed"} \subseteq Statuses /\ Outcomes \subseteq BOOLEAN
  BY DEF Statuses, Active, Terminal, Outcomes
<1>7. \A b : run' = [run EXCEPT ![r] = b] => run'[r] = b
  BY DEF NodeTypeOK
<1>8. CASE SetCancelable(r)
  BY <1>3, <1>5, <1>7, <1>8 DEF SetCancelable
<1>9. CASE Register(r)
  <2>1. PICK stale : run'[r] = [Advance(run[r]) EXCEPT !.preempt = stale]
    BY <1>9 DEF Register
  <2>2. PICK adv : adv = Advance(run[r])
    OBVIOUS
  <2>3. PICK b : b = [adv EXCEPT !.preempt = stale]
    OBVIOUS
  <2>4. b.lease = run[r].lease
    BY <1>3, <2>2, <2>3 DEF Placed, Record
  <2>5. run'[r] = b /\ res' = res
    BY <1>9, <2>1, <2>2, <2>3 DEF Register
  <2> QED BY <2>4, <2>5
<1>10. CASE Launch(r)
  BY <1>3, <1>5, <1>7, <1>10 DEF Launch
<1>11. CASE LaunchFails(r)
  BY <1>2, <1>5, <1>7, <1>11 DEF LaunchFails
<1>12. CASE Leave(r)
  <2>1. CASE ShouldCancel(r)
    <3>1. PICK ok \in Outcomes :
            run' = [run EXCEPT ![r] = IF ok THEN [Told(run[r], "cancelled", ok) EXCEPT !.phase = "end"]
                                      ELSE Raise(Told(run[r], "cancelled", ok), "error")]
      BY <1>12, <2>1 DEF Leave
    <3>2. run'[r] = IF ok THEN [Told(run[r], "cancelled", ok) EXCEPT !.phase = "end"]
                    ELSE Raise(Told(run[r], "cancelled", ok), "error")
      BY <1>7, <3>1
    <3>3. PICK rec : rec = Told(run[r], "cancelled", ok)
      OBVIOUS
    <3>4. Placed(rec) /\ rec.lease = run[r].lease /\ Raise(rec, "error").lease = run[r].lease
      BY <1>4, <1>6, <3>3
    <3>5. PICK b : b = [rec EXCEPT !.phase = "end"]
      OBVIOUS
    <3>b. b.lease = run[r].lease
      BY <3>4, <3>5 DEF Placed, Record
    <3>6. run'[r] = b \/ run'[r] = Raise(rec, "error")
      BY <3>2, <3>3, <3>5
    <3>7. res' = res
      BY <1>12 DEF Leave
    <3> QED BY <3>4, <3>b, <3>6, <3>7
  <2>2. CASE ~ShouldCancel(r)
    BY <1>3, <1>7, <1>12, <2>2 DEF Leave
  <2> QED BY <2>1, <2>2
<1>13. ASSUME NEW status \in {"running", "completed"}, ReportStatus(r, status)
       PROVE  run'[r].lease = run[r].lease /\ res' = res
  <2>1. PICK ok \in Outcomes : run' = [run EXCEPT ![r] = IF ok THEN Advance(Told(run[r], status, ok))
                                                         ELSE Raise(Told(run[r], status, ok), "error")]
    BY <1>13 DEF ReportStatus
  <2>2. run'[r] = IF ok THEN Advance(Told(run[r], status, ok)) ELSE Raise(Told(run[r], status, ok), "error")
    BY <1>7, <2>1
  <2> QED BY <1>4, <1>6, <1>13, <2>2 DEF ReportStatus
<1>14. CASE Kernel(r) \/ Check(r) \/ AddArtifact(r)
  BY <1>3, <1>7, <1>14 DEF Kernel, Check, AddArtifact
<1>15. CASE Catch(r)
  <2>1. PICK status \in {"cancelled", "failed"}, ok \in Outcomes, ph \in {"guard", "end"} :
          run' = [run EXCEPT ![r] = [Told(run[r], status, ok) EXCEPT !.cancelable = FALSE, !.phase = ph]]
    BY <1>15 DEF Catch
  <2>2. run'[r] = [Told(run[r], status, ok) EXCEPT !.cancelable = FALSE, !.phase = ph]
    BY <1>7, <2>1
  <2>3. PICK rec : rec = Told(run[r], status, ok)
    OBVIOUS
  <2>4. Placed(rec) /\ rec.lease = run[r].lease
    BY <1>4, <1>6, <2>3
  <2>5. PICK b : b = [rec EXCEPT !.cancelable = FALSE, !.phase = ph]
    OBVIOUS
  <2>6. b.lease = run[r].lease
    BY <2>4, <2>5 DEF Placed, Record
  <2>7. run'[r] = b
    BY <2>2, <2>3, <2>5
  <2>8. res' = res
    BY <1>15 DEF Catch
  <2> QED BY <2>6, <2>7, <2>8
<1>16. CASE Guard(r)
  <2>1. PICK ok \in Outcomes : run' = [run EXCEPT ![r] = [Told(run[r], "failed", ok) EXCEPT !.phase = "end"]]
    BY <1>16 DEF Guard
  <2>2. run'[r] = [Told(run[r], "failed", ok) EXCEPT !.phase = "end"]
    BY <1>7, <2>1
  <2>3. PICK rec : rec = Told(run[r], "failed", ok)
    OBVIOUS
  <2>4. Placed(rec) /\ rec.lease = run[r].lease
    BY <1>4, <1>6, <2>3
  <2>5. PICK b : b = [rec EXCEPT !.phase = "end"]
    OBVIOUS
  <2>b. b.lease = run[r].lease
    BY <2>4, <2>5 DEF Placed, Record
  <2>6. run'[r] = b
    BY <2>2, <2>3, <2>5
  <2>7. res' = res
    BY <1>16 DEF Guard
  <2> QED BY <2>b, <2>6, <2>7
<1>17. CASE RequestCancel(r)
  <2>1. run' = [run EXCEPT ![r] = [run[r] EXCEPT !.token = TRUE]]
    BY <1>17 DEF RequestCancel
  <2> QED BY <1>2, <1>5, <1>7, <1>17, <2>1 DEF RequestCancel
<1> QED BY <1>8, <1>9, <1>10, <1>11, <1>12, <1>13, <1>14, <1>15, <1>16, <1>17

ResTyped == res \in [Procs -> [Locks -> [active : Nat, activeRunId : Runs \cup {NoRun}]]]

\* The holders after the step.
NewHolders(p, l) == {r \in Runs : run'[r].owner = p /\ run'[r].lease /\ l \in LocksOf(run'[r].kind)}

\* One lock of one process is free, or one run holds it.
OneHolder(p, l) ==
    \/ NewHolders(p, l) = {} /\ res'[p][l].active = 0
    \/ \E r \in Runs : NewHolders(p, l) = {r} /\ res'[p][l] = [active |-> 1, activeRunId |-> r]

LEMMA AcquireLocks ==
  ASSUME NodeTypeOK, GoodRuns, LocksInv, NEW r \in Runs, run[r].kind \in DOMAIN Calls,
         CanAcquire(run[r].owner, LocksOf(run[r].kind)),
         TryAcquire(run[r].owner, r, LocksOf(run[r].kind)),
         run' = [run EXCEPT ![r] = [Advance(run[r]) EXCEPT !.lease = TRUE]],
         Placed(run[r]), NEW p \in Procs, NEW l \in Locks
  PROVE  ResTyped' /\ OneHolder(p, l)
<1>1. PICK o : o = run[r].owner
  OBVIOUS
<1>2. PICK ls : ls = LocksOf(run[r].kind)
  OBVIOUS
<1>3. /\ run[r].owner \in Procs /\ o \in Procs
      /\ run'[r].owner = o /\ run'[r].kind = run[r].kind /\ run'[r].lease
  <2>1. PICK adv : adv = Advance(run[r])
    OBVIOUS
  <2>2. Placed(adv) /\ SameRun(run[r], adv)
    BY <2>1, AdvanceKeeps
  <2>3. run'[r] = [adv EXCEPT !.lease = TRUE]
    BY <2>1 DEF NodeTypeOK
  <2> QED BY <1>1, <2>2, <2>3 DEF Placed, Record, SameRun
<1>4. \A q \in Runs \ {r} : run'[q] = run[q]
  BY DEF NodeTypeOK
<1>5. res' = [res EXCEPT ![o] = [m \in Locks |->
                IF m \in ls THEN [active |-> res[o][m].active + 1, activeRunId |-> r] ELSE res[o][m]]]
  BY <1>1, <1>2 DEF TryAcquire
<1>6. \A m \in Locks : res'[o][m] = IF m \in ls THEN [active |-> res[o][m].active + 1, activeRunId |-> r]
                                   ELSE res[o][m]
  BY <1>3, <1>5 DEF NodeTypeOK
<1>7. \A q \in Procs \ {o} : res'[q] = res[q]
  BY <1>3, <1>5 DEF NodeTypeOK
<1>8. ResTyped'
  <2>1. \A m \in Locks : res[o][m] \in [active : Nat, activeRunId : Runs \cup {NoRun}]
    BY <1>3 DEF NodeTypeOK
  <2>2. \A m \in Locks : [active |-> res[o][m].active + 1, activeRunId |-> r]
                           \in [active : Nat, activeRunId : Runs \cup {NoRun}]
    BY <2>1
  <2>3. PICK f : f = [m \in Locks |->
                IF m \in ls THEN [active |-> res[o][m].active + 1, activeRunId |-> r] ELSE res[o][m]]
    OBVIOUS
  <2>4. f \in [Locks -> [active : Nat, activeRunId : Runs \cup {NoRun}]]
    BY <2>1, <2>2, <2>3
  <2>5. res' = [res EXCEPT ![o] = f]
    BY <1>5, <2>3
  <2> QED BY <2>4, <2>5 DEF ResTyped, NodeTypeOK
<1>9. CASE p = o /\ l \in ls
  <2>1. res[o][l].active < 1
    BY <1>1, <1>2, <1>9 DEF CanAcquire
  <2>2. Holders(o, l) = {} /\ res[o][l].active = 0
    <3>1. ASSUME NEW q \in Runs, res[o][l] = [active |-> 1, activeRunId |-> q] PROVE FALSE
      <4>1. res[o][l].active = 1
        BY <3>1
      <4> QED BY <2>1, <4>1
    <3>2. \/ Holders(o, l) = {} /\ res[o][l].active = 0
          \/ \E q \in Runs : res[o][l] = [active |-> 1, activeRunId |-> q]
      BY <1>3 DEF LocksInv
    <3> QED BY <3>1, <3>2
  <2>3. res'[o][l] = [active |-> 1, activeRunId |-> r]
    BY <1>6, <1>9, <2>2
  <2>4. NewHolders(o, l) = {r}
    BY <1>1, <1>2, <1>3, <1>4, <1>9, <2>2 DEF NewHolders, Holders
  <2> QED BY <1>8, <1>9, <2>3, <2>4 DEF OneHolder
<1>10. CASE p = o /\ l \notin ls
  <2>1. res'[p][l] = res[p][l]
    BY <1>6, <1>10
  <2>2. NewHolders(p, l) = Holders(p, l)
    BY <1>2, <1>3, <1>4, <1>10 DEF NewHolders, Holders
  <2> QED BY <1>8, <2>1, <2>2 DEF LocksInv, OneHolder
<1>11. CASE p # o
  <2>1. res'[p][l] = res[p][l]
    BY <1>7, <1>11
  <2>2. NewHolders(p, l) = Holders(p, l)
    BY <1>1, <1>3, <1>4, <1>11 DEF NewHolders, Holders
  <2> QED BY <1>8, <2>1, <2>2 DEF LocksInv, OneHolder
<1> QED BY <1>8, <1>9, <1>10, <1>11

LEMMA ReleaseLocks ==
  ASSUME NodeTypeOK, GoodRuns, LocksInv, NEW r \in Runs, End(r), NEW p \in Procs, NEW l \in Locks
  PROVE  ResTyped' /\ OneHolder(p, l)
<1>1. PICK o : o = run[r].owner
  OBVIOUS
<1>2. PICK ls : ls = LocksOf(run[r].kind)
  OBVIOUS
<1>3. /\ o \in Procs /\ run'[r].owner = o /\ run'[r].kind = run[r].kind /\ run'[r].lease = FALSE
  <2>1. PICK b : b = [run[r] EXCEPT !.phase = "gone", !.lease = FALSE]
    OBVIOUS
  <2>2. run[r] \in Record
    BY DEF NodeTypeOK
  <2>3. b.owner = run[r].owner /\ b.kind = run[r].kind /\ b.lease = FALSE /\ run[r].owner \in Procs
    BY <2>1, <2>2 DEF Record
  <2>4. run'[r] = b
    BY <2>1 DEF End, NodeTypeOK
  <2> QED BY <1>1, <2>3, <2>4
<1>4. \A q \in Runs \ {r} : run'[q] = run[q]
  BY DEF End, NodeTypeOK
<1>5. CASE ~run[r].lease
  <2>1. res' = res
    BY <1>5 DEF End
  <2>2. NewHolders(p, l) = Holders(p, l)
    BY <1>3, <1>4, <1>5 DEF NewHolders, Holders
  <2>3. ResTyped'
    BY <2>1 DEF ResTyped, NodeTypeOK
  <2> QED BY <2>1, <2>2, <2>3 DEF LocksInv, OneHolder
<1>6. CASE run[r].lease
  <2> DEFINE left(m) == IF res[o][m].active > 0 THEN res[o][m].active - 1 ELSE 0
             free(m) == [active |-> left(m),
                         activeRunId |-> IF left(m) = 0 \/ res[o][m].activeRunId = r THEN NoRun
                                                                                     ELSE res[o][m].activeRunId]
  <2>1. res' = [res EXCEPT ![o] = [m \in Locks |-> IF m \notin ls THEN res[o][m] ELSE free(m)]]
    BY <1>1, <1>2, <1>6 DEF End, Release
  <2>2. \A m \in Locks : res[o][m] \in [active : Nat, activeRunId : Runs \cup {NoRun}]
    BY <1>3 DEF NodeTypeOK
  <2>3. \A m \in Locks : free(m) \in [active : Nat, activeRunId : Runs \cup {NoRun}]
    BY <2>2
  <2>4. ASSUME res[o][l] = [active |-> 1, activeRunId |-> r] PROVE free(l).active = 0
    <3>1. res[o][l].active = 1
      BY <2>4
    <3> QED BY <3>1
  <2> HIDE DEF free, left
  <2>5. PICK f : f = [m \in Locks |-> IF m \notin ls THEN res[o][m] ELSE free(m)]
    OBVIOUS
  <2>6. f \in [Locks -> [active : Nat, activeRunId : Runs \cup {NoRun}]]
    BY <2>2, <2>3, <2>5
  <2>7. res' = [res EXCEPT ![o] = f]
    BY <2>1, <2>5
  <2>8. ResTyped'
    BY <2>6, <2>7 DEF ResTyped, NodeTypeOK
  <2>9. res'[o] = f /\ \A q \in Procs \ {o} : res'[q] = res[q]
    BY <1>3, <2>7 DEF NodeTypeOK
  <2>10. CASE p = o /\ l \in ls
    <3>1. r \in Holders(o, l)
      BY <1>1, <1>2, <1>6, <2>10 DEF Holders
    <3>2. Holders(o, l) = {r} /\ res[o][l] = [active |-> 1, activeRunId |-> r]
      <4>1. PICK q \in Runs : Holders(o, l) = {q} /\ res[o][l] = [active |-> 1, activeRunId |-> q]
        BY <1>3, <3>1 DEF LocksInv
      <4>2. q = r
        BY <3>1, <4>1
      <4> QED BY <4>1, <4>2
    <3>3. res'[o][l].active = 0
      BY <2>4, <2>5, <2>9, <2>10, <3>2
    <3>4. NewHolders(o, l) = {}
      BY <1>3, <1>4, <3>2 DEF NewHolders, Holders
    <3> QED BY <2>8, <2>10, <3>3, <3>4 DEF OneHolder
  <2>11. CASE p = o /\ l \notin ls
    <3>1. res'[p][l] = res[p][l]
      BY <2>5, <2>9, <2>11
    <3>2. NewHolders(p, l) = Holders(p, l)
      BY <1>2, <1>3, <1>4, <2>11 DEF NewHolders, Holders
    <3> QED BY <2>8, <3>1, <3>2 DEF LocksInv, OneHolder
  <2>12. CASE p # o
    <3>1. res'[p][l] = res[p][l]
      BY <2>9, <2>12
    <3>2. NewHolders(p, l) = Holders(p, l)
      BY <1>1, <1>3, <1>4, <2>12 DEF NewHolders, Holders
    <3> QED BY <2>8, <3>1, <3>2 DEF LocksInv, OneHolder
  <2> QED BY <2>10, <2>11, <2>12
<1> QED BY <1>5, <1>6

LEMMA NextLocks ==
  ASSUME NodeTypeOK, GoodRuns, LocksInv, [Next]_vars, NEW p \in Procs, NEW l \in Locks
  PROVE  ResTyped' /\ OneHolder(p, l)
<1>0. ResTyped
  BY DEF NodeTypeOK, ResTyped
<1>1. ASSUME res' = res,
             \A r \in Runs : \/ /\ run'[r].owner = run[r].owner /\ run'[r].lease = run[r].lease
                                /\ run'[r].kind = run[r].kind
                             \/ ~run'[r].lease /\ ~run[r].lease
      PROVE  ResTyped' /\ OneHolder(p, l)
  <2>1. NewHolders(p, l) = Holders(p, l)
    BY <1>1 DEF NewHolders, Holders
  <2>2. OneHolder(p, l)
    BY <1>1, <2>1 DEF LocksInv, OneHolder
  <2>3. ResTyped'
    BY <1>0, <1>1 DEF ResTyped
  <2> QED BY <2>2, <2>3
<1>2. CASE res' = res /\ run' = run
  BY <1>1, <1>2
<1>3. ASSUME NEW o \in Procs, Vanish(o), row' = row, artifacts' = artifacts PROVE ResTyped' /\ OneHolder(p, l)
  <2>1. res' = [res EXCEPT ![o] = [m \in Locks |-> Free]]
    BY <1>3 DEF Vanish
  <2>2. ResTyped'
    <3>1. [m \in Locks |-> Free] \in [Locks -> [active : Nat, activeRunId : Runs \cup {NoRun}]]
      BY DEF Free
    <3> QED BY <1>0, <2>1, <3>1 DEF ResTyped
  <2>3. CASE p = o
    <3>1. res'[p][l].active = 0
      BY <1>0, <2>1, <2>3 DEF ResTyped, Free
    <3>2. NewHolders(p, l) = {}
      <4> SUFFICES ASSUME NEW r \in Runs, run'[r].owner = p PROVE ~run'[r].lease
        BY DEF NewHolders
      <4>1. CASE run'[r].phase \notin {"none", "lost"}
        <5>1. run[r].owner # o
          BY <1>3, <4>1, VanishGood
        <5> QED BY <1>3, <2>3, <5>1, VanishGood
      <4>2. CASE run'[r].phase \in {"none", "lost"}
        BY <1>3, <4>2, VanishGood DEF Good, Unborn
      <4> QED BY <4>1, <4>2
    <3> QED BY <2>2, <3>1, <3>2 DEF OneHolder
  <2>4. CASE p # o
    <3>1. res'[p][l] = res[p][l]
      BY <1>0, <2>1, <2>4 DEF ResTyped
    <3>2. NewHolders(p, l) = Holders(p, l)
      <4>1. \A r \in Runs : run'[r] = run[r] \/ (run[r].owner = o /\ run'[r].owner = o)
        BY <1>3, VanishGood
      <4> QED BY <2>4, <4>1 DEF NewHolders, Holders
    <3> QED BY <2>2, <3>1, <3>2 DEF LocksInv, OneHolder
  <2> QED BY <2>3, <2>4
<1>4. ASSUME NEW o \in Procs, NEW kind \in Routes, CreateRun(o, kind), artifacts' = artifacts, res' = res
      PROVE  ResTyped' /\ OneHolder(p, l)
  <2>1. PICK n : n = NewRun
    OBVIOUS
  <2>2. /\ n \in Runs /\ ~run[n].lease /\ ~run'[n].lease
        /\ \A q \in Runs \ {n} : run'[q] = run[q]
    BY <1>4, <2>1, CreateGood
  <2> QED BY <1>1, <1>4, <2>2
<1>5. ASSUME NEW r \in Runs, RequestCancel(r) \/ RunStep(r) PROVE ResTyped' /\ OneHolder(p, l)
  <2>1. RunMove(r)
    BY <1>5, RunStepMoves
  <2>2. \A q \in Runs \ {r} : /\ run'[q].owner = run[q].owner /\ run'[q].lease = run[q].lease
                              /\ run'[q].kind = run[q].kind
    BY <2>1, OthersKept
  <2>3. run'[r].owner = run[r].owner /\ run'[r].kind = run[r].kind /\ run[r].phase \notin {"none", "lost"}
    BY <2>1 DEF RunMove
  <2>4. Placed(run[r]) /\ run[r].kind \in DOMAIN Calls
    BY <2>3, InProgress, RoutesAssumption DEF Placed
  <2>5. CASE run'[r].lease = run[r].lease /\ res' = res
    BY <1>1, <2>2, <2>3, <2>5
  <2>6. CASE Lease(r)
    <3>1. CASE CanAcquire(run[r].owner, LocksOf(run[r].kind))
      <4>1. /\ run' = [run EXCEPT ![r] = [Advance(run[r]) EXCEPT !.lease = TRUE]]
            /\ TryAcquire(run[r].owner, r, LocksOf(run[r].kind))
        BY <2>6, <3>1 DEF Lease
      <4> QED BY <2>4, <3>1, <4>1, AcquireLocks
    <3>2. CASE ~CanAcquire(run[r].owner, LocksOf(run[r].kind))
      <4>1. PICK ok \in Outcomes : run' = [run EXCEPT ![r] = Raise(Told(run[r], "failed", ok), "error")]
        BY <2>6, <3>2 DEF Lease
      <4>2. res' = res
        BY <2>6, <3>2 DEF Lease, TryAcquire
      <4>3. "failed" \in Statuses /\ ok \in BOOLEAN
        BY DEF Statuses, Terminal, Outcomes
      <4>4. Raise(Told(run[r], "failed", ok), "error").lease = run[r].lease
        BY <2>4, <4>3, HelpersKeepLease
      <4>5. run'[r].lease = run[r].lease
        BY <4>1, <4>4 DEF NodeTypeOK
      <4> QED BY <2>5, <4>2, <4>5
    <3> QED BY <3>1, <3>2
  <2>7. CASE Wait(r)
    <3>1. CASE ~ShouldCancel(r)
      <4>1. /\ run' = [run EXCEPT ![r] = [Advance(run[r]) EXCEPT !.lease = TRUE]]
            /\ TryAcquire(run[r].owner, r, LocksOf(run[r].kind))
            /\ CanAcquire(run[r].owner, LocksOf(run[r].kind))
        BY <2>7, <3>1 DEF Wait
      <4> QED BY <2>4, <4>1, AcquireLocks
    <3>2. CASE ShouldCancel(r)
      <4>1. PICK ok \in Outcomes :
              run' = [run EXCEPT ![r] = IF ok THEN [Told(run[r], "cancelled", ok) EXCEPT !.phase = "end"]
                                        ELSE Raise(Told(run[r], "cancelled", ok), "error")]
        BY <2>7, <3>2 DEF Wait
      <4>2. res' = res
        BY <2>7, <3>2 DEF Wait
      <4>3. "cancelled" \in Statuses /\ ok \in BOOLEAN
        BY DEF Statuses, Terminal, Outcomes
      <4>4. PICK rec : rec = Told(run[r], "cancelled", ok)
        OBVIOUS
      <4>5. PICK b : b = [rec EXCEPT !.phase = "end"]
        OBVIOUS
      <4>6. Placed(rec) /\ rec.lease = run[r].lease /\ Raise(rec, "error").lease = run[r].lease
        BY <2>4, <4>3, <4>4, HelpersKeepLease
      <4>7. b.lease = run[r].lease
        BY <4>5, <4>6 DEF Placed, Record
      <4>8. run'[r] = b \/ run'[r] = Raise(rec, "error")
        BY <4>1, <4>4, <4>5 DEF NodeTypeOK
      <4> QED BY <2>5, <4>2, <4>6, <4>7, <4>8
    <3> QED BY <3>1, <3>2
  <2>8. CASE End(r)
    BY <2>8, ReleaseLocks
  <2>9. CASE ~(Lease(r) \/ Wait(r) \/ End(r))
    BY <1>5, <2>5, <2>9, LeaseKept DEF RunStep
  <2> QED BY <2>6, <2>7, <2>8, <2>9
<1>6. CASE UNCHANGED vars
  BY <1>2, <1>6 DEF vars
<1>7. ASSUME NEW o \in Procs, TryExclusive(o) \/ CancelInterruptedRuns(o) \/ JoinShared(o)
      PROVE  ResTyped' /\ OneHolder(p, l)
  BY <1>2, <1>7 DEF TryExclusive, CancelInterruptedRuns, JoinShared
<1>8. ASSUME NEW o \in Procs, Crash(o) \/ CliExit(o) PROVE ResTyped' /\ OneHolder(p, l)
  BY <1>3, <1>8 DEF Crash, CliExit
<1>9. ASSUME NEW o \in Procs, NEW kind \in Routes, CreateDirect(o, kind) PROVE ResTyped' /\ OneHolder(p, l)
  BY <1>4, <1>9 DEF CreateDirect
<1>10. ASSUME NEW k \in Keys, NEW kind \in Routes, CreateKeyed(k, kind) PROVE ResTyped' /\ OneHolder(p, l)
  BY <1>4, <1>10, NodeAssumption DEF CreateKeyed
<1>11. ASSUME NEW k \in Keys, NEW kind \in Routes, ReplayResponse(k, kind) PROVE ResTyped' /\ OneHolder(p, l)
  BY <1>2, <1>11 DEF ReplayResponse
<1>12. ASSUME NEW k \in Keys, SaveResponse(k) PROVE ResTyped' /\ OneHolder(p, l)
  BY <1>2, <1>12 DEF SaveResponse
<1> QED BY <1>5, <1>6, <1>7, <1>8, <1>9, <1>10, <1>11, <1>12 DEF Next

----------------------------------------------------------------------------
(* Answers and processes *)

KeysTyped ==
    /\ saved \in [Keys -> [run : Runs \cup {NoRun}, kind : DOMAIN Calls \cup {"none"}]]
    /\ pend \in [Keys -> Runs \cup {NoRun}]
    /\ answered \in [Keys -> SUBSET Runs]

LEMMA NextAnswers ==
  ASSUME NodeTypeOK, GoodRuns, AnswersInv, [Next]_vars
  PROVE  KeysTyped' /\ AnswersInv'
<1>0. KeysTyped
  BY DEF NodeTypeOK, KeysTyped
<1>1. ASSUME saved' = saved, answered' = answered, pend' \in [Keys -> Runs \cup {NoRun}],
             \A k \in Keys : pend'[k] # NoRun => pend[k] # NoRun \/ saved[k].run = NoRun
      PROVE  KeysTyped' /\ AnswersInv'
  BY <1>0, <1>1 DEF KeysTyped, AnswersInv
<1>2. ASSUME saved' = saved, answered' = answered, pend' = pend PROVE KeysTyped' /\ AnswersInv'
  BY <1>0, <1>1, <1>2 DEF KeysTyped
<1>3. ASSUME NEW p \in Procs, Vanish(p), saved' = saved, answered' = answered PROVE KeysTyped' /\ AnswersInv'
  BY <1>0, <1>1, <1>3 DEF KeysTyped, Vanish
<1>4. ASSUME NEW k \in Keys, NEW kind \in Routes, CreateKeyed(k, kind) PROVE KeysTyped' /\ AnswersInv'
  <2>1. NewRun \in Runs
    BY <1>4, NodeAssumption, CreateGood DEF CreateKeyed
  <2>2. pend' = [pend EXCEPT ![k] = NewRun] /\ saved[k].run = NoRun /\ saved' = saved /\ answered' = answered
    BY <1>4 DEF CreateKeyed
  <2> QED BY <1>0, <1>1, <2>1, <2>2 DEF KeysTyped
<1>5. ASSUME NEW k \in Keys, NEW kind \in Routes, ReplayResponse(k, kind) PROVE KeysTyped' /\ AnswersInv'
  BY <1>0, <1>5 DEF ReplayResponse, KeysTyped, AnswersInv
<1>6. ASSUME NEW k \in Keys, SaveResponse(k) PROVE KeysTyped' /\ AnswersInv'
  <2>1. PICK r : r = pend[k]
    OBVIOUS
  <2>2. PICK ok \in Outcomes :
          /\ saved' = IF ok THEN [saved EXCEPT ![k] = [run |-> r, kind |-> run[r].kind]] ELSE saved
          /\ answered' = IF ok THEN [answered EXCEPT ![k] = @ \cup {r}] ELSE answered
    BY <1>6, <2>1 DEF SaveResponse
  <2>3. r \in Runs /\ r # NoRun /\ pend' = [pend EXCEPT ![k] = NoRun]
    BY <1>0, <1>6, <2>1 DEF SaveResponse, KeysTyped
  <2>4. PICK kd : kd = run[r].kind /\ kd \in DOMAIN Calls \cup {"none"}
    BY <2>3 DEF NodeTypeOK, Record
  <2>5. saved[k].run = NoRun /\ answered[k] = {}
    BY <1>6, <2>1, <2>3 DEF AnswersInv
  <2>6. CASE ok = TRUE
    <3>1. saved' = [saved EXCEPT ![k] = [run |-> r, kind |-> kd]] /\ answered' = [answered EXCEPT ![k] = {r}]
      BY <2>2, <2>4, <2>5, <2>6
    <3>2. KeysTyped'
      BY <1>0, <2>3, <2>4, <3>1 DEF KeysTyped
    <3>3. saved'[k].run = r /\ answered'[k] = {r} /\ pend'[k] = NoRun
      BY <1>0, <2>3, <3>1 DEF KeysTyped
    <3>4. \A j \in Keys \ {k} : saved'[j] = saved[j] /\ answered'[j] = answered[j] /\ pend'[j] = pend[j]
      BY <1>0, <2>3, <3>1 DEF KeysTyped
    <3>5. AnswersInv'
      BY <2>3, <3>3, <3>4 DEF AnswersInv
    <3> QED BY <3>2, <3>5
  <2>7. CASE ok = FALSE
    BY <1>0, <1>1, <2>2, <2>3, <2>7 DEF KeysTyped
  <2> QED BY <2>6, <2>7 DEF Outcomes
<1>7. ASSUME NEW r \in Runs, Reject(r), saved' = saved, answered' = answered PROVE KeysTyped' /\ AnswersInv'
  BY <1>0, <1>1, <1>7 DEF KeysTyped, Reject
<1>8. CASE UNCHANGED vars
  BY <1>2, <1>8 DEF vars
<1>9. ASSUME NEW p \in Procs, TryExclusive(p) \/ CancelInterruptedRuns(p) \/ JoinShared(p)
      PROVE  KeysTyped' /\ AnswersInv'
  BY <1>2, <1>9 DEF TryExclusive, CancelInterruptedRuns, JoinShared
<1>10. ASSUME NEW p \in Procs, Crash(p) \/ CliExit(p) PROVE KeysTyped' /\ AnswersInv'
  BY <1>3, <1>10 DEF Crash, CliExit
<1>11. ASSUME NEW p \in Procs, NEW kind \in Routes, CreateDirect(p, kind) PROVE KeysTyped' /\ AnswersInv'
  BY <1>2, <1>11 DEF CreateDirect
<1>12. ASSUME NEW r \in Runs, RequestCancel(r) \/ RunStep(r) PROVE KeysTyped' /\ AnswersInv'
  <2>1. saved' = saved /\ answered' = answered /\ (pend' = pend \/ Reject(r))
    BY <1>12 DEF RequestCancel, RunStep, SetCancelable, Lease, Register, Launch, LaunchFails, Wait, Leave,
                 ReportStatus, Kernel, Check, AddArtifact, Catch, Guard, End
  <2> QED BY <1>2, <1>7, <2>1
<1> QED BY <1>4, <1>5, <1>6, <1>8, <1>9, <1>10, <1>11, <1>12 DEF Next

ProcTyped == proc \in [Procs -> {"down", "exclusive", "joining", "up"}]

LEMMA NextProcs ==
  ASSUME NodeTypeOK, ExclusiveInv, [Next]_vars
  PROVE  ProcTyped' /\ ExclusiveInv'
<1>0. ProcTyped
  BY DEF NodeTypeOK, ProcTyped
<1> DEFINE Cautious(p, x) ==
      /\ proc' = [proc EXCEPT ![p] = x] /\ x \in {"down", "exclusive", "joining", "up"}
      /\ x = "exclusive" => \A q \in Procs : ~Holds(q)
      /\ x = "up" => \A q \in Procs : proc[q] # "exclusive"
<1>1. ASSUME NEW p \in Procs, NEW x, Cautious(p, x) PROVE ProcTyped' /\ ExclusiveInv'
  <2>1. ProcTyped' /\ proc'[p] = x /\ \A q \in Procs \ {p} : proc'[q] = proc[q]
    BY <1>0, <1>1 DEF ProcTyped
  <2>2. ASSUME NEW a \in Procs, NEW b \in Procs, proc'[a] = "exclusive", proc'[b] \in {"exclusive", "up"}
        PROVE  a = b
    BY <1>1, <2>1, <2>2 DEF ExclusiveInv, Holds
  <2> QED BY <2>1, <2>2 DEF ExclusiveInv, Holds
<1>2. ASSUME proc' = proc PROVE ProcTyped' /\ ExclusiveInv'
  BY <1>0, <1>2 DEF ProcTyped, ExclusiveInv, Holds
<1>3. CASE UNCHANGED vars
  BY <1>2, <1>3 DEF vars
<1>4. ASSUME NEW p \in Procs, TryExclusive(p) PROVE ProcTyped' /\ ExclusiveInv'
  <2>1. \E x : Cautious(p, x)
    BY <1>4 DEF TryExclusive
  <2> QED BY <1>1, <2>1
<1>5. ASSUME NEW p \in Procs, JoinShared(p) PROVE ProcTyped' /\ ExclusiveInv'
  <2>1. Cautious(p, "up")
    BY <1>5 DEF JoinShared
  <2> QED BY <1>1, <2>1
<1>6. ASSUME NEW p \in Procs, CancelInterruptedRuns(p) PROVE ProcTyped' /\ ExclusiveInv'
  <2>1. Cautious(p, "joining") \/ Cautious(p, "down")
    BY <1>6 DEF CancelInterruptedRuns
  <2> QED BY <1>1, <2>1
<1>7. ASSUME NEW p \in Procs, Crash(p) \/ CliExit(p) PROVE ProcTyped' /\ ExclusiveInv'
  <2>1. Cautious(p, "down")
    BY <1>7 DEF Crash, CliExit, Vanish
  <2> QED BY <1>1, <2>1
<1>8. ASSUME NEW p \in Procs, NEW kind \in Routes, CreateDirect(p, kind) PROVE proc' = proc
  BY <1>8 DEF CreateDirect
<1>9. ASSUME NEW k \in Keys, NEW kind \in Routes, CreateKeyed(k, kind) \/ ReplayResponse(k, kind)
      PROVE  proc' = proc
  BY <1>9 DEF CreateKeyed, ReplayResponse
<1>10. ASSUME NEW k \in Keys, SaveResponse(k) PROVE proc' = proc
  BY <1>10 DEF SaveResponse
<1>11. ASSUME NEW r \in Runs, RequestCancel(r) \/ RunStep(r) PROVE proc' = proc
  BY <1>11 DEF RequestCancel, RunStep, SetCancelable, Lease, Register, Launch, LaunchFails, Wait, Leave,
               ReportStatus, Kernel, Check, AddArtifact, Catch, Guard, End
<1> QED BY <1>2, <1>3, <1>4, <1>5, <1>6, <1>7, <1>8, <1>9, <1>10, <1>11 DEF Next

----------------------------------------------------------------------------
(* Theorems *)

LEMMA InitNodeInv == Init => NodeInv
<1> SUFFICES ASSUME Init PROVE NodeInv
  OBVIOUS
<1>1. Unborn \in Record
  BY NodeAssumption DEF Record, Unborn, Phases, Statuses
<1>2. \A r \in Runs : run[r] = Unborn /\ row[r] = "none"
  BY DEF Init
<1>3. NodeTypeOK
  <2>1. Free \in [active : Nat, activeRunId : Runs \cup {NoRun}]
    BY DEF Free
  <2>2. \A r \in Runs : run[r].phase = "none"
    BY <1>2 DEF Unborn
  <2> QED BY <1>1, <2>1, <2>2 DEF Init, NodeTypeOK, Statuses
<1>4. ExclusiveInv
  BY DEF Init, ExclusiveInv, Holds
<1>5. GoodRuns
  <2> SUFFICES ASSUME NEW r \in Runs PROVE Good(r, run[r], row[r], artifacts)
    BY DEF GoodRuns
  <2>1. Unborn.phase = "none" /\ Unborn.exc = "none"
    BY DEF Unborn
  <2> QED BY <1>2, <2>1 DEF Good, Terminal
<1>6. LocksInv
  <2> SUFFICES ASSUME NEW p \in Procs, NEW l \in Locks PROVE Holders(p, l) = {} /\ res[p][l].active = 0
    BY DEF LocksInv
  <2>1. Holders(p, l) = {}
    BY <1>2 DEF Holders, Unborn
  <2> QED BY <2>1 DEF Init, Free
<1>7. AnswersInv
  BY DEF Init, AnswersInv
<1> QED BY <1>3, <1>4, <1>5, <1>6, <1>7 DEF NodeInv

LEMMA NextNodeInv == NodeInv /\ [Next]_vars => NodeInv'
<1> SUFFICES ASSUME NodeInv, [Next]_vars PROVE NodeInv'
  OBVIOUS
<1> USE DEF NodeInv
<1>1. RunsTyped' /\ GoodRuns'
  BY NextRuns
<1>2. ProcTyped' /\ ExclusiveInv'
  BY NextProcs
<1>3. KeysTyped' /\ AnswersInv'
  BY NextAnswers
<1>4. ASSUME NEW p \in Procs, NEW l \in Locks PROVE ResTyped' /\ OneHolder(p, l)
  BY <1>4, NextLocks
<1>5. ResTyped'
  <2>1. CASE \E p \in Procs, l \in Locks : TRUE
    BY <1>4, <2>1
  <2>2. Server \in Procs /\ "cpu_heavy" \in Locks
    <3>1. "benchmark" \in DOMAIN Calls
      BY DEF Calls
    <3>2. "cpu_heavy" \in LocksOf("benchmark")
      BY DEF LocksOf
    <3> QED BY <3>1, <3>2, NodeAssumption DEF Locks
  <2> QED BY <2>1, <2>2
<1>6. LocksInv'
  BY <1>4 DEF OneHolder, NewHolders, LocksInv, Holders
<1>7. NodeTypeOK'
  BY <1>1, <1>2, <1>3, <1>5 DEF RunsTyped, ProcTyped, KeysTyped, ResTyped, NodeTypeOK
<1> QED BY <1>1, <1>2, <1>3, <1>6, <1>7

LEMMA NodeInvHolds == Spec => []NodeInv
  BY InitNodeInv, NextNodeInv, PTL DEF Spec

\* Every variable keeps its type; a run in progress is at a call of its route, in
\* a process that is up, and has a row.
THEOREM NodeTypeCorrect == Spec => []NodeTypeOK
<1>1. NodeInv => NodeTypeOK
  BY DEF NodeInv
<1> QED BY <1>1, NodeInvHolds, PTL

\* A lock's counter and name agree with the one lease that holds it, whichever
\* way the run of the lease ended: ResourceManager never leaks or lends a lock.
THEOREM LocksAlwaysMatch == Spec => []LocksMatchHolders
<1>1. NodeInv => LocksMatchHolders
  <2> SUFFICES ASSUME NodeInv, NEW p \in Procs, NEW l \in Locks
               PROVE  /\ res[p][l].active = Cardinality(Holders(p, l))
                      /\ Cardinality(Holders(p, l)) <= 1
                      /\ \A r \in Holders(p, l) : res[p][l].activeRunId = r
    BY DEF LocksMatchHolders, Holders
  <2>1. CASE Holders(p, l) = {} /\ res[p][l].active = 0
    <3>1. Cardinality(Holders(p, l)) = 0
      BY <2>1, FS_EmptySet
    <3> QED BY <2>1, <3>1
  <2>2. CASE \E r \in Runs : Holders(p, l) = {r} /\ res[p][l] = [active |-> 1, activeRunId |-> r]
    <3>1. PICK r \in Runs : Holders(p, l) = {r} /\ res[p][l] = [active |-> 1, activeRunId |-> r]
      BY <2>2
    <3>2. Cardinality(Holders(p, l)) = 1
      BY <3>1, FS_Singleton
    <3>3. res[p][l].active = 1 /\ res[p][l].activeRunId = r
      BY <3>1
    <3> QED BY <3>1, <3>2, <3>3
  <2> QED BY <2>1, <2>2 DEF NodeInv, LocksInv
<1> QED BY <1>1, NodeInvHolds, PTL

\* Whoever reads "completed" in table runs finds the artifacts recorded: no route
\* reports before it records, and a report that fails leaves the row alone.
THEOREM CompletedAlwaysHasArtifacts == Spec => []CompletedHasArtifacts
<1>1. NodeInv => CompletedHasArtifacts
  BY DEF NodeInv, GoodRuns, Good, CompletedHasArtifacts
<1> QED BY <1>1, NodeInvHolds, PTL

\* An idempotency key is answered with one run, through crashes and responses
\* that could not be saved.
THEOREM AnswersAlwaysStable == Spec => []AnswersAreStable
<1>1. NodeInv => AnswersAreStable
  <2> SUFFICES ASSUME NodeInv, NEW k \in Keys PROVE Cardinality(answered[k]) <= 1
    BY DEF AnswersAreStable
  <2>1. answered[k] = {} \/ answered[k] = {saved[k].run}
    BY DEF NodeInv, AnswersInv
  <2>2. CASE answered[k] = {}
    <3>1. Cardinality(answered[k]) = 0
      BY <2>2, FS_EmptySet
    <3> QED BY <3>1
  <2>3. CASE answered[k] = {saved[k].run}
    <3>1. Cardinality(answered[k]) = 1
      BY <2>3, FS_Singleton
    <3> QED BY <3>1
  <2> QED BY <2>1, <2>2, <2>3
<1> QED BY <1>1, NodeInvHolds, PTL

\* Who may change a row: a starting process, for a run whose process is gone; the
\* request that creates the run; and the run's own process.
LEMMA RowChanges ==
  ASSUME NodeInv, [Next]_vars, NEW r \in Runs, row'[r] # row[r]
  PROVE  \/ row[r] \in Active /\ run[r].phase = "lost" /\ run[r].mem = "none"
         \/ row[r] = "none" /\ row'[r] = "queued" /\ run[r].mem = "none"
         \/ RunMove(r)
<1> USE DEF NodeInv
<1>1. CASE row' = row
  BY <1>1
<1>2. ASSUME NEW p \in Procs, CancelInterruptedRuns(p)
      PROVE  row[r] \in Active /\ run[r].phase = "lost" /\ run[r].mem = "none"
  BY <1>2, CancelInterruptedGood
<1>3. ASSUME NEW p \in Procs, NEW kind \in Routes, CreateRun(p, kind), artifacts' = artifacts
      PROVE  row[r] = "none" /\ row'[r] = "queued" /\ run[r].mem = "none"
  <2>1. PICK n : n = NewRun
    OBVIOUS
  <2>2. /\ row[n] = "none" /\ row'[n] = "queued" /\ run[n].mem = "none"
        /\ \A q \in Runs \ {n} : row'[q] = row[q]
    BY <1>3, <2>1, CreateGood
  <2> QED BY <2>2
<1>4. ASSUME NEW q \in Runs, RequestCancel(q) \/ RunStep(q) PROVE RunMove(r)
  <2>1. RunMove(q)
    BY <1>4, RunStepMoves
  <2>2. q = r
    BY <2>1 DEF RunMove
  <2> QED BY <2>1, <2>2
<1>5. CASE UNCHANGED vars
  BY <1>1, <1>5 DEF vars
<1>6. ASSUME NEW p \in Procs, TryExclusive(p) \/ JoinShared(p) \/ Crash(p) \/ CliExit(p) PROVE row' = row
  BY <1>6 DEF TryExclusive, JoinShared, Crash, CliExit
<1>7. ASSUME NEW p \in Procs, NEW kind \in Routes, CreateDirect(p, kind)
      PROVE  row[r] = "none" /\ row'[r] = "queued" /\ run[r].mem = "none"
  BY <1>3, <1>7 DEF CreateDirect
<1>8. ASSUME NEW k \in Keys, NEW kind \in Routes, CreateKeyed(k, kind)
      PROVE  row[r] = "none" /\ row'[r] = "queued" /\ run[r].mem = "none"
  BY <1>3, <1>8, NodeAssumption DEF CreateKeyed
<1>9. ASSUME NEW k \in Keys, NEW kind \in Routes, ReplayResponse(k, kind) PROVE row' = row
  BY <1>9 DEF ReplayResponse
<1>10. ASSUME NEW k \in Keys, SaveResponse(k) PROVE row' = row
  BY <1>10 DEF SaveResponse
<1> QED BY <1>1, <1>2, <1>4, <1>5, <1>6, <1>7, <1>8, <1>9, <1>10 DEF Next

\* Nobody but its own process changes the row of a run in a live memory.
THEOREM RowsAreTheirOwners == Spec => LiveRowsAreOwn
<1>1. ASSUME NodeInv, [Next]_vars
      PROVE  \A r \in Runs : run[r].mem # "none" /\ run'[r].mem = run[r].mem => row'[r] = row[r] \/ run[r].hit
  BY <1>1, RowChanges DEF RunMove
<1> QED BY <1>1, NodeInvHolds, PTL DEF Spec, LiveRowsAreOwn

\* The recorded outcome of a run never changes, whoever writes after it: a guard
\* that fires late, a starting process, the handler of a late exception.
THEOREM OutcomesNeverChange == Spec => OutcomeIsFinal
<1>1. ASSUME NodeInv, [Next]_vars
      PROVE  \A r \in Runs : row[r] \in Terminal => row'[r] = row[r]
  BY <1>1, RowChanges DEF RunMove, Active, Terminal
<1> QED BY <1>1, NodeInvHolds, PTL DEF Spec, OutcomeIsFinal

\* A run is recorded as cancelled only when it was cancelled or superseded, or
\* when its process is gone.
THEOREM CancellationsHaveAReason == Spec => CancelledForAReason
<1>1. ASSUME NodeInv, [Next]_vars
      PROVE  \A r \in Runs : row[r] # "cancelled" /\ row'[r] = "cancelled" => ShouldCancel(r) \/ run[r].phase = "lost"
  BY <1>1, RowChanges DEF RunMove
<1> QED BY <1>1, NodeInvHolds, PTL DEF Spec, CancelledForAReason

=============================================================================
