# Fractal Studio: a TLA+ verification project

Fractal Studio renders fractals for a web studio and a marketplace. This project
models the parts whose correctness depends on the order in which things happen, and
the pixel algorithms that exist in several hand-written copies; it checks them
with TLC on small instances, and proves the main results with TLAPS for every instance.

    tlc -workers 2 -config MCGateway_routing.cfg MCGateway     one run
    tlapm GatewayProofs.tla                                    the proofs of a module

`PROJECT.json` lists the runs, the mutant each property is tested against, the source
lines behind every definition, the findings, the hazards and the theorems.

## 1. Inventory

    browser -> Caddy -> Platform (FastAPI) -> Compute Gateway -> 0..N Compute nodes (C++)
                        PostgreSQL, Redis,     PostgreSQL          SQLite, files
                        MinIO, outbox workers

| Component | State | Operations | Hard because | Correct if |
|---|---|---|---|---|
| Gateway: durable routing (`compute-gateway/app/services.py`, `main.py`) | tables compute_nodes, compute_runs, run_artifacts | create, submit, poll, cancel, manifest, probe loop, bootstrap, operator requests | every `await` is an interleaving point; calls to nodes are lost or answered late; node and gateway restart | one key, one node, one body; no request takes a slot beyond the limits it read; what is stored about a run is true; capacity comes back |
| Gateway: previews (`services.py`) | in-flight counters, a condition variable | admit, wait, run, leave | a wake-up can go to the wrong waiter; the list of nodes is read before the wait | in-flight within slots, nobody waits beside a free slot |
| Platform: outbox (`app/outbox`) | table outbox_events, the batch of each worker | append, claim, dispatch, heartbeat, settle, dead letter | leases run out under live workers, workers die, delivery is at least once | late workers change nothing, budget spent by failures only, every event served |
| Platform: render jobs (`app/studio/render_*.py`, quota files) | render_jobs, quota_reservations, the run at Compute | create, cancel, submit, poll, expire, dead letters | four events and several workers act on one job; handlers leave the lock to call Compute | job, quota and asset agree; outcomes final; cancellation wins; every job ends |
| Platform: assets (`app/assets`) | assets, stored objects, deletion queue | ingest, derive, delete | objects outlive the transactions that know them | ready asset iff completed job, one ingestion |
| Platform: preview queue (`app/studio/preview_*.py`) | Redis lists and hashes | enqueue, claim, publish, cancel | several commands per operation, no transaction | latest request wins, no lost client |
| Platform: idempotency (`app/core/idempotency_*.py`) | claims with an expiry | claim, complete, clean up | a crash between claim and completion, expiry under a running request | one effect per key |
| Platform: commerce, membership, finance (`app/commerce`, `app/membership`, `app/finance`) | orders, payment attempts, entitlements, reversals, ledger, balance, payouts | checkout, webhook, reconcile, expire, reverse, request, release and pay a payout | notifications are late, repeated, out of order or lost and race with reconciliation, refunds race payouts | balance equals the sales, access follows the payment, every order is decided |
| Platform: marketplace, auth, AI, administration | single rows | queries and single-row updates | little | not modelled |
| Node: job runner, resources, v1 API (`backend/src/core`, `api/routes_compute_v1.cpp`) | runs in memory and in SQLite, locks, saved responses, an flock | create, cancel, report status, record artifacts, reconcile at start | several processes share one directory; memory and SQLite are written one after the other | rows belong to the living owner, locks match leases, answers stable, every run ends |
| Node: routes (`api/routes_*.cpp`) | a thread per run | twelve routes produce runs | exceptions, cancellations and supersession at any call | completed means artifacts exist |
| Node: field sessions (`api/routes_map.cpp`) | registry of sessions with buffers | start, poll, result, acknowledge, reap | readers, workers and the reaper share buffers under a byte budget | readers keep their buffer, budget holds, latest wins |
| Node: kernels (`backend/src/compute`) | pixels | iterate, colour; scalar, AVX2, AVX-512, CUDA, fixed point | a dozen hand-written copies of one loop; vectors with a partial tail; overflow at the escape radius; cancellation inside an orbit | every copy computes the reference, a cancelled row hands out no half pixel |
| Node: rendering loops (`compute/tile_scheduler.cpp`, `map_kernel.cpp`, `ln_map.cpp`, ...) | a claim counter, a cancel flag, the frame | claim, draw, fall back from the GPU, publish, join | threads and a GPU thread claim from one counter; one of them fails, throws or is cancelled | every part drawn once, the answer is honest |
| Node: HTTP server, path guard | sockets, files | | | not modelled |
| Frontend, operations scripts | | | | not modelled |

How they interact. The platform appends an outbox event in the transaction that
creates or cancels a job. A worker claims it and runs a handler, which calls the
gateway with the job's key. The gateway commits a route, submits the request to the
node under the same key, and polls. The node runs a thread per run, writes its status
through to SQLite and answers polls. The completed run is read back by the poll
handler and ingested into object storage. A reservation that expires ends a job
whatever happened below.

## 2. Plan

Built in this order, most important first:

1. `Gateway`: durable routing. Proofs of type and routing.
2. `Outbox`, `OutboxHistory`: the delivery protocol. It is also the abstract
   specification that `RenderJob` implements.
3. `RenderJob`: the handlers of one job over the outbox (composition), shown to
   implement `Outbox` (`OutboxSpec` is a property of its run and a theorem).
4. `ComputeNode`: the run lifecycle in the processes of a node.
5. `FieldSessions`: the interactive sessions of `routes_map.cpp`.
6. `EscapeTime`, `PixelKernels`, `Transition`, `FixedPoint`, `Colormap`: the pixel
   algorithms and their copies, against reference definitions.
7. `Frame` and `RenderLoops`: what a rendering loop promises, and the eight loops
   shown to implement it.
8. `Payments`: orders, provider results, refunds and payouts.

9. Proofs, a module per component: type correctness and every safety and action
   property that the runs of `Gateway`, `Outbox`, `RenderJob`, `ComputeNode`,
   `FieldSessions`, `RenderLoops` and `Payments` check, and the refinements of
   `Outbox` and `Frame`.

Next, in this order:

10. `PreviewQueue` and `GatewayPreview`: latest-wins over several Redis commands; the
    gateway's preview condition variable.
11. `Idempotency` and job admission: the claim protocol of
    `core/idempotency_service.py` and the quota rules over several jobs.
12. Asset cleanup and the media worker.

## 3. Modules

### Gateway

A key stands for its run (the unique constraint on `compute_runs.idempotency_key`).
A handler is cut into one action per transaction or upstream call; `proc[p]` holds
what a coroutine remembers across awaits: route order read without locks, the node it
has locked, the answer it is about to save. `ReserveRead`, `ReserveLock`,
`ReserveSkip`, `ReserveExhausted` and `ReserveInsert` are `_reserve_or_replay`;
`Submit*` and `Save*` are `_submit_allocating` and `_handle_route_error`;
`ProbeStart`, `ProbeNode`, `MarkOffline`, `Reconcile` and `ReconcileEnd` are one round
of the probe loop. A node is what it has accepted per key (`nodeRun`); it can crash,
come back without its runs, and still answer known keys. Bodies are told apart by
their hash; what a body needs, which nodes support or reject it and which kinds a
node runs before it answers are constants. `slots` are the limits of a node, which an
operator and the bootstrap rewrite (`UpsertNode`, `BootstrapNode`); `limitsRead` is what
the session of a request keeps of them, because the locked read of `_reserve_or_replay`
returns the objects of the unlocked one. Both writers set `base_url` too: a node is
taken to be the same process wherever its address points, and slots of previews, which
are not modelled, are not counted.

### Outbox and OutboxHistory

A row has a status, an owner, a retry count and two facts about time: due and
expired. A worker has a batch, a current event and how its handler returned. Claims
take due pending rows and leased rows whose lease ran out; only the event being
handled has a heartbeat. `OutboxHistory` adds what handlers did, which no row records.
`release_expired_leases` has no caller and is left out.

### RenderJob

Extends `Outbox`. `HandlerStep(w)` replaces "the handler returns" by the code of the
four handlers; `loc[w]` is the step a handler is at. Each transaction is an action
with its guarded update (`EndJob`, `SavedRun`, `FailAndRelease`, `CancelAndRelease`),
each call to Compute or the object store another one, with every outcome the client
distinguishes. Only one job is modelled: jobs share nothing but the quota admission
rule of `create`. Progress, messages and manifests are abstracted to whether they are
acceptable.

### ComputeNode

A route is the sequence of its calls to `JobRunner` and `ResourceManager`, for
instance `mapRender == <<"cancelable", "leave", "lease", "launch", "running",
"kernel", "check", "seal", "artifact", "completed">>`. Each call is one critical
section of the code and one action: `SetCancelable` ("cancelable", and "seal" for the
call that ends cancelability), `Lease`, `Launch`, `ReportStatus`, `Kernel`, `Check`,
`Leave`, `AddArtifact`, `Register` and `Wait`. `Raise` says where an exception at a
call goes: to the route's handler (`Catch`), to a `RunLaunchGuard` (`Guard`), or past
both, since most routes report "running" before their try block. `SetStatus` writes
memory first and the row second; the row's write may fail. A process goes through
`TryExclusive`, `CancelInterruptedRuns` and `JoinShared`, the flock protocol of
`JobRunner`'s constructor; `CliExit` is a command-line export that returns. A run whose
process died is `lost`; its row is settled by the next start that gets the lock.
`CreateKeyed`, `ReplayResponse` and `SaveResponse` are `computeV1CreateRunRoute`
under the key's mutex.

Run ids are fresh by construction: the check for an id used by another process and
the creation of its directory are not one step in the code, and a collision of two
random ids in the same moment is not modelled.

### FieldSessions

A request is numbered; `s[i]` is its session, from the registry entry to the worker
thread and its buffers. `StartNew` is the whole of `mapFieldSessionStartRoute` after parsing:
preemption, pruning, trimming, one eviction, admission and the reservation of bytes.
`StartWorker` or `StartUndone` follow, then `PublishRect`, `RenderReturns`,
`RenderDone` or `RenderThrows`, and `FinalPrune` at the end of the worker. A result is
read by `Pin`, `EnterGate`, `Encoded` and `LeaveGate`; `Acknowledge`, `ReapSessions`
and `ReapEntries` give memory back. `Inline` is a render without a session, which owns
a preemption entry all the same. Time is the order of sessions by last access and by
finish, and the fact that the oldest is past its limit (`Age`).

### EscapeTime, PixelKernels, Transition, FixedPoint, Colormap

Pure algorithms, each copy an operator of its own. `EscapeTime` has the scalar loop
over integers with an infinity and a NaN that behave as IEEE 754 says; rounding is left
out, since within the range of the instances every format is exact. `PixelKernels` has
the pixel grids and the AVX2, AVX-512 and CUDA loops for maps and log-polar maps: full
vectors, tails, blended lanes, lanes that have escaped, and rows that are cancelled
after some of their groups (`RowEnds`: a group writes its pixels when its loop has ended,
so the probe inside that loop leaves nothing of it). `Transition` adds slices at an
angle, right angles that become plain maps, multi-leg slices and volumes; its `SliceSpec` adds
the slice actions to those of `PixelKernels`. `FixedPoint`
computes in words of `Bits` bits with 3, 4 or 6 of them before the point and wraps as
the code does; its reference is exact arithmetic. `Colormap` keeps cosines symbolic, so
two copies agree only if they ask for the same cosine of the same argument.
`MCAlgorithms` is the composition: a behaviour is one computation.

### Frame and RenderLoops

`Frame` is the abstract promise: a part is drawn at most once and shown only when
drawn, an incomplete frame goes only to a caller who gave it up, a failure is never
hidden. `RenderLoops` has the loops of the code: `Check`, `Claim`, `Enter`, `DrawWhole`
or `DrawStopped`, `GpuFails` with the fall-back of its thread, `After` (publication)
and `Join` with the loop's verdict (`Verdict`). What differs between the eight loops
(OpenMP or threads, a flag or not, who draws in batches, what an exception does) is a
set of loop names. `ImplementsFrame` is the refinement.

### Payments

One buyer, one listing, one creator; orders are used in the order of their checkouts.
A transaction locks attempt and order, so it is one action. A checkout is three steps
(`StartCheckout` or `StartMembership`, the two updates `CloseAttempts` and
`CloseOrders`, and `CreateOrder`), because under READ COMMITTED two checkouts need not
see each other; who needs a row between the two updates waits for its lock
(`HalfClosed`). A checkout that rolls back is one that never started. A webhook transaction is
`NotifyPaid` or `NotifyClosed`; a refused one continues in a handler (`NotifyRefused`,
`FileReview`). `StartReconcile` to `CloseExpired` are `reconcile_event` with its calls
to the provider between transactions, `DeadLetter` what remains when it keeps failing;
`RequestPayout`, `ReleasePayout` and `MarkPaid` are the finance service. The provider
(`OpenForm`, `ProviderMoves`) is external: a trade waits, is paid, closed or refunded in
part or in full, and what it was can be notified any number of times (`seen` is the
table of fingerprints). TRADE_FINISHED counts as TRADE_SUCCESS, as in the code; an order
becomes overdue only while its trade waits. Idempotency keys, QR files and audit rows
are left out.

## 4. Runs

| Run | Instance | Shows |
|---|---|---|
| `gateway_routing` | 2 nodes, 1 key, 2 bodies (one rejected), 2 requests, 1 fault, 1 operator request that may set the limits of a node to one or two | `SingleExecution`, `CallerSubmitsItsBody` |
| `gateway_operations` | 1 node with one slot per pool, 2 keys, 2 bodies (one synchronous), 2 requests, 1 fault, fair | `ReservationsFitSlots`, `RecordedRunIsReal`, `FinalStateIsTrue`, `CapacityIsReleased` |
| `gateway_terminal` | 1 node, 1 key, 1 fault | violation of `TerminalIsFinal`, see findings |
| `outbox_events` | 2 events, 2 workers, batches of 2, 1 attempt, leases that expire at any time, 1 crash, fair | `SettledForAReason`, `LeaseRespected`, `SettledIsFinal`, `EveryEventIsServed` |
| `render_safety` | 2 workers, leases that expire at any time, 1 failing transaction | `ReservationMatchesJob`, `AssetMatchesJob`, `OneIngestion`, `JobOutcomeIsFinal`, `CancelWins`, and `OutboxSpec`: the handlers implement the outbox |
| `render_liveness` | 1 worker that may die once with a batch of 2, 2 attempts, runs that hang, dead letters, fair | `EveryJobEnds` |
| `render_duplicate` | 2 workers, leases that expire | violation of `DuplicateDeliveryIsHarmless` |
| `node` | server and export, 2 runs, 2 kinds of route (one refused, one waiting for its locks), 1 key, 1 fault, fair | `LocksMatchHolders`, `CompletedHasArtifacts`, `AnswersAreStable`, `LiveRowsAreOwn`, `CancelledForAReason`, `OutcomeIsFinal`, `EveryRunEnds` |
| `field_sessions` | 2 explorers, 2 requests, 1 reader, a budget of 2 fields, 1 retained result, 1 failure, fair | `ReadersKeepField`, `WithinLimits`, `NewestOwnsKey`, `EvictsOnce`, `AbandonedSessionsLeave` |
| `algorithms` | rows of 5 pixels, every variant, plane and backend; 8-bit words in three formats; every iteration count up to 1800 for colours | `KernelsAgree`, `CancelIsClean`, `SlicesAgree`, `FixedPointIsExact`, `PalettesAgree` |
| `render_loops` | 8 loops, 6 parts, 2 CPU threads and a GPU thread, batches of 4, fair | `ImplementsFrame`, `ReportsWhoDrew`, `EveryFrameEnds` |
| `payments` | 2 orders, 1 handler beside the webhook transactions, 1 payout, 1 failure, fair | `BalanceMatchesSales`, `AccessFollowsPayment`, `EveryOrderIsDecided` |

Every property of a passing run is violated by at least one mutant of the code: an
operator that stands beside the one it mutates (a dropped guard, a missing recount, a
lock given back early). The type invariants `TypeOK`, `OutboxTypeOK`, `RenderTypeOK`,
`NodeTypeOK` and `PaymentsTypeOK`, and `StickyRoute`, are theorems (section 5) and
take up no run; those of `FieldSessions` and `RenderLoops` stand beside their proofs.

### Bounds

- Gateway: two nodes are needed to race one key to two places, two keys and one slot
  to oversell it, two requests for either. One fault is a lost call before or after
  the node accepted it, a missed probe, a crash of the node or of the gateway. A
  bootstrap template that disables a node is covered by the proofs alone.
  Limits change in `gateway_routing`, which has one key. `ReservationsFitSlots` is checked
  with limits that stay; that a limit changes between the unlocked and the locked read of
  a request, where it needs a third worker as the operator, is in the proof
  (`SlotsAreNeverOversold`), which holds for any number of changes.
- Outbox: two workers and two events in a batch of two are the smallest instance where
  an event waits behind another one and is claimed by the other worker, or is left
  behind by a crash. One attempt makes the first failure the last; `render_liveness`
  has two and so takes the retry path, and the safety theorems hold for every budget
  and any number of crashes. `Timely = FALSE` lets a lease run out at any moment, which
  covers every setting of lease, poll and handler time; `Timely = TRUE` means that
  every heartbeat lands in time and a free worker dispatches at once.
- RenderJob: the events of one job are four. Batches of one in the safety runs: with
  `Timely = FALSE` two workers can hold the same event in any case.
- ComputeNode: two runs are needed to conflict on a lock or to supersede a search. The
  two routes of the run are one that is refused when its locks are taken and one that
  waits for them in its thread; the module has all twelve, which are the same calls in
  other orders with other locks. One fault is a process that dies, a SQLite write that
  times out (2 s) or a thread that cannot be started. So the start after a crash does not
  itself die or fail its UPDATE in this run, as it may in the module. The set of run ids
  is finite, so the system stops when they are used up and deadlock is not checked.
  Neither is it in the render, field, loop, algorithm and payment runs: a finished job,
  frame, computation or order has no next step.
- FieldSessions: two requests are enough to preempt, to fill the registry, and to make
  the second wait for bytes the first retains; a session with one rectangle can be
  read before, while and after it is drawn.
- Algorithms: a register has one lane unit in the instance, four in the hardware. Five
  pixels give the vectors of two and of four lanes full and partial groups; AVX2 in double
  precision runs a single lane, as do its log-polar rows, and their full and partial
  groups are covered by `KernelsKeepAgreeing`, which holds for every width. Four iterations
  reach orbits that escape at once, late and never, and a centre far out reaches
  infinity and NaN. Eight-bit words reach every overflow the gates of the fixed loops
  are there for. Bailouts of 1, 2 and 4 try the right angles at, below and beyond the
  radius of 2.
- RenderLoops: six parts and batches of four leave a GPU batch that is cut at the end
  and one that is not; two CPU threads race each other and the GPU thread.
- Payments: two orders meet at a checkout, in the entitlement and in the balance; one
  payout can hold the share that a refund needs. With a price of 3 and a fee of one
  half the rounding of the fee is visible.

Symmetry is used for requests, nodes and workers, which no definition of the instance
tells apart, and in no run that checks a liveness property.

### Fairness

- Gateway: coroutines of one asyncio loop run when they can; the probe loop is a task
  that never ends; a node is restarted by its supervisor and finishes its work.
  Requests, operators and faults are never obliged to happen.
- Outbox: time passes (due, expired), a worker loop goes on. Claiming is strongly fair:
  `claim_due_batch` orders by `available_at`, so an event that is claimable again and
  again is not passed over for ever by newer ones.
- RenderJob: as the outbox; reservations expire and the scheduling pass of the worker
  loop runs. A Compute run need not end.
- ComputeNode: threads run; a process that is starting goes on; the server is started
  again; the response of a finished route is saved. Nobody has to cancel, crash or
  export. The first half of `EveryRunEnds`, `WorkersEnd`, exempts the status of a
  run whose own writes failed (`hit`) and runs whose process died. Those are the subject of
  the second half, `InterruptedRunsAreSettled`: once no process shares the directory, the
  next start ends their rows, and only a start that another one kept from the lock is
  excused. While another process is up the code does not settle the rows of a dead one.
- FieldSessions: worker threads end (a render looks at its cancel flag), the reaper
  thread wakes up, time passes. Browsers are never obliged to come back.
- RenderLoops: some thread that can go on does (`WF` of `Progress` as a whole);
  nothing obliges the caller to cancel or the GPU to work.
- Payments: a started checkout and a started handler go on, orders become overdue, and
  the sweep of unpaid orders is strongly fair: `list_pending_attempt_ids` appends an
  event for each of them on every pass and the outbox serves it. Nothing obliges the
  buyer, the provider or a notification. A failing provider call is bounded by
  `MaxFails`, after which the dead-letter handler decides.

## 5. Proofs

All theorems hold for every value of the constants that satisfies the named
assumptions of the modules: any finite number of nodes, keys, workers, threads,
sessions and orders, any budget and limit, any number of faults. Every safety property and action
property of a passing run is a theorem. Each proof has
one lemma per action, or per group of actions that do the same to the state, and a
relation that says what a step may do (`RowMove`, `RowStep`, `JobMove`, `RunMove`,
`Tidied`, `RowsStep`), from which the invariants and the action properties follow.

- `GatewayProofs`. `TypeInv` strengthens the type by what suspended coroutines
  remember: a key they hold exists, a node they locked is locked by them, an answer
  they will save is a status. `RouteInv` adds that an answer about to be saved came
  from the node of the route (`AnswerInv`); without it the saved `node_run_id` could
  come from anywhere. From these: `TypeCorrect`, `RouteIsSticky`, `KeyRunsOnOneNode`,
  `RecordedRunsExist`, `CallersAreServedTheirBody`. `TruthInv` says that what a node
  executes it accepted (`ExecutionInv`), that the answer a coroutine carries across an
  await is still true of the node, unless it forgot the run (`HeldInv`), and the same
  of what is stored (`ResultInv`): `FinalStatesAreTrue`. `CapacityInv`, stated in
  `Gateway`, says that only a run that ended before it was answered is final without
  `terminal_at` (`SyncInv`), so that no step but the insert takes a slot, and that a
  coroutine that has the row lock and found room within the limits it read still has it
  (`RoomInv`): `SlotsAreNeverOversold`.
- `OutboxProofs`. `OutboxInv` is the type, `CurInv` (a busy worker has a current
  event), `OwnerInv` (a leased row has an owner) and `BudgetInv` (`retry_count` is
  below the budget until the event is dead). The lemma `RowStep` lists what a step can
  do to one row; the theorems `LeaseIsRespected` and `SettledStaysSettled` follow from it.
  `HistInv` carries the reason of a settlement from the handler's return to the
  transaction that records it, across steps of others; `EventsSettleForAReason`.
- `RenderJobProofs`. `RenderInv` is the type, `ReservationMatchesJob` and `IngestInv`:
  at most one worker is between the two ingestion transactions, only while the job is
  "ingesting" or has failed, and asset and objects follow the status. Every step is a `JobMove` (the job is
  kept, created, advanced or ended with its reservation) and either leaves the
  ingestion alone or is an `IngestMove`. From these the six theorems on quota, asset,
  ingestion, outcomes, cancellation and types, and `RenderRunsTheOutbox`: the detailed
  specification implements the abstract one.

- `ComputeNodeProofs`. `NodeInv` is the type, `ExclusiveInv` (a process alone with the
  flock is the only one), `GoodRuns` (what goes together in a run's record, its row and
  its artifacts), `LocksInv` and `AnswersInv` (an answered key has a saved run, and only
  that was answered). A run that is past the "artifact" call of its route has artifacts,
  which is what makes `CompletedHasArtifacts` inductive. Seven theorems, for any
  set of the twelve routes (`RoutesAssumption`).
- `FieldSessionsProofs`. `FieldInv` is the type, `Sound` of every session (which thread,
  registry entry, bytes and readers go together), `ReadersInv` (readers are pins plus
  the one at the gate), `ServedInv`, `NewestOwnsKey` and `LimitsInv`. Housekeeping only
  tidies: it tells a session to stop, or removes one nobody computes or reads; a request
  arrives where there is room. Five theorems. Two results met on the way: the trimming of
  delivered fields (`trimDeliveredInteractiveFieldsForBudgetLocked`) never finds one that
  still holds bytes, because acknowledging an unread field frees it (`TrimTidies`); and
  one start tells at most one busy worker of another key to stop even if the registry is
  full at every retry, so `EvictsOnce` needs no exception for that case.
- `LoopProofs`. `LoopsInv` is the type, `ClaimsInv` (what workers hold is below
  the counter, disjoint and undrawn), `CounterInv` (a position below the counter is drawn,
  held or excused by a cancellation), `StopsInv` (who may stop early, and why),
  `TalliesInv` and `ReportsWhoDrew`. It gives `ReportsAreTrue` and, step by step, the
  refinement `LoopsImplementFrame`. `ThreadsAssumption` is
  `default_render_threads` (`compute/parallel.hpp`), which is at least one;
  `OrderAssumption` is that `std::sort` permutes.
  The fixed-point loops are in the same module. The run checks words of eight bits; `FixedPointStaysExact` is for
  every width from eight on (`BitsAssumption`), so for the 64 bits of the code. What is
  needed of powers of two is `PowersAssumption`; of what a caller asks,
  `InputsAssumption`; and of the constant `two_sqrt2_floor_raw`, `GateAssumption`: the
  number after the rounded 2 sqrt 2 exceeds it by enough, squared, to pay for the two
  units that rounding the squares loses. The constant of q3.60, 0x2D413CCCFE779921, has
  that property. The proof needs it: with 11 bits after the point, say, the gate would
  call a point escaped that the squares keep. The argument: a point that has not escaped
  has components of at most 2 (`NearPoints`), so no square saturates and no fold overflows
  (`SquaresOfNearPoint`, `NearFolds`); only the addition of c can wrap, and a wrapped
  component is beyond the radius just as the true one is (`WrappingDecides`); the gates
  decide as the squares do (`GateDecides`, `SumsDecide`). `StepIsExact` is one step. For
  the loops, `Recursion` builds the recursive functions of the model (from `WFMin` of the
  library, applied to a set of numbers), `FxMoves` says what one iteration does, `LoopsCount`
  is the induction, and `CpuGateLoop`, `CpuSquaresLoop`, `CudaGateLoop`,
  `CudaSquaresLoop`, `LnLoop` and `LnCudaLoop` apply it to each loop.
  `PixelIsNear` and `OffsetsInOrder` are the grid.
- `PaymentsProofs`. Type, `RowsInv` (an order is in one of seven shapes, and a settled one
  agrees with the provider's trade), `JobsInv` (what a handler learnt before it let go of the
  lock is still so) and `BalanceMatchesSales`, by cardinality of the sold and reversed
  orders: `PaymentsTypeCorrect`, `BalanceAlwaysMatches`, `AccessAlwaysFollows`.

- `AlgorithmProofs`. `PalettesKeepAgreeing` is for every iteration count and value (`ColoursAssumption`: counts
  are not negative). `SegmentIsHit` shows that the chain of tests on the GPU finds the
  segment whose end is the stop that the loop on the CPU finds, whatever the palette, and
  `GradientsAgree` that both mix alike there and at the ends; `SectorsJoin`, `BandsJoin`,
  `HuesJoin`, `SpectralJoins` and `RainbowJoins` follow a count around each wheel, where
  it passes from one segment to the next and where the wheel closes.
  `KernelsKeepAgreeing` is for every request (`JobsAssumption`: `IsRequest` says that
  the pixel centres, the Julia parameter and the square of the bailout are finite
  numbers, that a row's range lies in the row, and that an ln map has at most the four
  columns whose angles the model has), every register width, every bound of
  the numbers and any complex functions. Four steps: the step tables of the copies give the same next
  point, the single-precision and packed ones included (`TablesAgree`), though a lane
  looks only at the norm and the scalar loop at the components too (`NormOfLane`); the
  pixel grids give the same centre (`MapGridsAgree`, `LnGridsAgree`); every loop is a
  recursion, which `Unrolls` turns into a sequence of `Turn`s; and each state of a loop
  `Tracks` the orbit: as long as no point escaped, it has seen the norms up to there, and
  afterwards it keeps what it saw at the escape. `Tracking` is the induction step, once
  for all loops; `ScalarTurn`, `ThreadTurn` and `LaneTurn` show that an iteration
  `Follows`, the last for a lane that others may outlive; `TrackedAnswer` reads the
  reference off the last state, and `GroupMatches` with `LaneOfColumn` takes that to every column of
  a row, in a full group or in the masked last one.
  `CancelStaysClean` adds the probe, asked every `CancelStride` iterations
  (`AskedInTime`), and the pairwise search, whose scratch holds the orbit up to the cap
  (`Searching`, `SearchTurn`) and whose least distance grows by one row of pairs at a time
  (`ClosestGrows`). Its hypothesis, `CxAnswersNumbers`, is that a complex function of
  numbers has numbers for components, as `std::complex<double>` has; the stand-ins of
  the run satisfy it. Without it a distance would not be comparable.
  `SlicesKeepAgreeing` is for every slice and volume (`SlicesAssumption`: `IsSlice` says
  that there are one to four legs of quadratic variants that share the weight, and that a
  volume is no Julia set), in any tiling and any width of the lanes. The folds of the eight copies are
  one function of the leg (`RealCopies`, `ImagCopies`), so `StepsOfSlice` gives one step
  and `SliceOrbitRuns` one orbit; a loop `SliceTracks` it (`TracksStay`, `SliceLoopTurn`),
  a lane too until it escapes (`SliceLaneTurn`), after which a norm it repeats changes
  neither extreme; `ExtraIs` reads the least distance off the stored orbit, `TileIs` puts
  a tile's point back where it is in the frame, and `VoxelLane` does the same for a slab.
  The plain map in place of a slice at a right angle is the harder half, since its step is another
  formula and its orbit has two numbers, not three. The idle axis stays at 0
  (`RightAngleStep`), but its leg adds x squared to the sum, which is taken away
  afterwards; in between the sum may overflow where the map does not. `OverflowEscapes`
  and `StepHasParts` show that the point is then beyond the bailout in both, for numbers
  that reach twelve times as far as the bailout (`IsRightAngle`); so the two stay
  `Together` up to the step at which both leave (`StepTogether`, `OrbitsTogether`), and
  `DirectPixel` gives the mirrored rows of a turned view the same centre. A Mandelbrot
  map starts at 0, one step behind the slice: `CountsMeet` with the shift of one, and
  `FarStart` for a first point that is already beyond the bailout, from which no step
  leads back when the bailout is at least 2. Below 2 the property says nothing of that case.

Only model-checked: the liveness properties `CapacityIsReleased`, `EveryEventIsServed`,
`EveryJobEnds`, `EveryRunEnds`, `AbandonedSessionsLeave`, `EveryFrameEnds` and
`EveryOrderIsDecided`, which need fairness and `ENABLED`.

## 6. Findings

With a run that shows them:

- `gateway_terminal`: an answer in flight while the probe loop marks a run
  `node_lost` makes the run active again.
- `render_duplicate`: a second delivery of the poll event fails a job another worker
  is ingesting.

### Divergences

Met while modelling, and described here without a run of their own.

Gateway:

- A node drained between the unlocked read and the row lock still receives the run,
  since the locked object is the one already in the session (`services.py:506`;
  `docs/compute-gateway-mvp/README.md:82`). A node re-registered while it is down is
  not swept, and keeps its runs. A waiting preview keeps the list of nodes it read
  before it waited (`services.py:351`).

Outbox and render jobs:

- Events waiting in a batch have no heartbeat, so their leases run out and two
  handlers run at once although all is on time (`worker.py:102`), while
  `renew_lease` means to "keep an active handler exclusively owned"
  (`outbox/repository.py:139`).
- The dead-letter handler runs after the commit that makes the event dead and is lost
  if the process dies in between (`worker.py:177`).
- A cancellation handled while the submission is in flight leaves a Compute run nobody
  cancels or polls (`render_worker.py:170`;
  `docs/platform_compute_integration.md:149-150`).
- Objects uploaded before a crash in "ingesting" are known to nobody.
- Two clocks decide about expiry: the database's when the event is scheduled, the
  worker's when it is handled; if the worker's is behind, the only expiry event is used
  up without effect (`render_job_repository.py:387`). The models take them to agree.
- `compute_capacity_exhausted`, which the gateway reports as retryable, is not retried
  (`render_worker.py:67`), and `render.quota_expired.v1` has no dead-letter handler
  (`render_worker.py:254`).

Payments:

- A TRADE_CLOSED that tells of a partial refund before the payment was settled closes
  the pending order as unpaid (`commerce/service.py:323`), while
  `docs/tasks/12-alipay-webhook-reconciliation-reversals.md:25` says a partial refund
  "is manual_review; it is never silently closed".
- A second checkout closes the pending order locally and not at the provider, and two
  checkouts at once do not see each other (`commerce/repository.py:194`): both forms
  can be paid. `platform-backend-spec.md:1168-1169` wants to avoid "two paid attempts
  competing for one entitlement". `AccessFollowsPayment` is what still holds: a payment
  of a closed order gives neither sale nor access.
- A partial refund learnt from the webhook keeps the entitlement, the same refund
  learnt from reconciliation revokes it; the comment at `commerce/repository.py:408`
  says "customer access must stop".
- A membership stays active after a full refund. The check for a pending membership
  order joins `order_items`, which such an order does not have, so it finds none
  (`membership/router.py:79-89`).
- An order whose form was never opened has no trade at the provider, every query of it
  fails, and it ends as a payment exception and not as closed.
- Only unpaid orders are swept: the refund of a fulfilled order whose notification is
  lost is never seen. A dead-lettered order ignores a later TRADE_SUCCESS.

Node:

- The answer of a key is stored after its run was started; a crash or a failed write
  in between lets a retry start a second run (`routes_compute_v1.cpp:719`), while
  `docs/platform_compute_integration.md:153-155` says that idempotency "ensures retries
  do not duplicate runs". `AnswersAreStable` is what still holds: no caller is told of
  two. A failed write of "running" leaves the run active for good, and a command-line
  video export then polls for ever. `transition_voxels` builds its response inside the
  try block after "completed", so an allocation failure there rewrites the outcome;
  allocation failures are not modelled.

Kernels and loops:

- A hybrid volume without AVX2 or FMA falls back to the pair formula although legs of a
  multi transition are given (`transition_volume.cpp:342`; the comment at
  `transition_kernel.hpp:49` says they replace the pair).
- The AVX2 slice throws "transition rendering cancelled", which
  `is_cancelled_exception` (`tile_scheduler.cpp:89`) does not recognise; the CUDA branch
  of `buildTransitionVolume` catches a cancellation like any failure.
- After a failed `cudaMalloc`, `DevBuf` keeps the old size beside a null pointer
  (`cuda/map_kernel.cu:1009`).
- A NaN norm replaces both extremes in the AVX2 slice; in the scalar code it is
  infinite. `SlicesAgree` compares lanes up to the point where they escape.
- The gates of the fixed loops are exact for a bailout of 2 only. Fixed Julia loops
  test the first point, the floating and ln loops do not. A slice at a right angle may
  count one iteration more than the slice beside it.
- `explore` and `ln` frames return normally when they are cancelled, with what was
  drawn ("partial" in `Frame`).

## 7. Not modelled

Of the node: perturbation, special points, orbit programs, the choice of an engine,
marching cubes, the planning of log-polar maps and rounding (floating point that TLC
cannot compute), image and video encoding, HTTP and socket handling, JSON parsing. Of
the platform: authentication, the marketplace's listings, AI assistance,
administration, deployment scripts and the frontend: pure I/O or single-row updates.
Preview queue, gateway previews, idempotency claims and asset cleanup are next in the
plan. Of the modelled components: progress reports and messages, capability documents,
the reading of runs and artifacts, and what section 3 names.
