------------------------------ MODULE Gateway ------------------------------
(***************************************************************************)
(* Durable routing of the Compute Gateway                                  *)
(* (compute-gateway/app/services.py, main.py).                             *)
(*                                                                         *)
(* A durable render request, named by its idempotency key, is assigned to  *)
(* one Compute node, submitted to it, polled, cancelled and reconciled.    *)
(* Every `await` of a handler is a point where other coroutines run, so a  *)
(* handler is cut into one action per database transaction or upstream     *)
(* call; what it remembers across an await is in proc.                     *)
(*                                                                         *)
(* The primary key of a gateway run is represented by its idempotency key: *)
(* the unique constraint on compute_runs.idempotency_key makes them        *)
(* interchangeable.  The database runs at READ COMMITTED (no isolation     *)
(* level is configured).                                                   *)
(***************************************************************************)
EXTENDS Naturals, FiniteSets, Sequences

CONSTANTS
    Nodes,       \* compute_nodes rows
    Keys,        \* idempotency keys
    Bodies,      \* request bodies {kind, payload}, told apart by their SHA-256
    Workers,     \* HTTP requests, each served by a coroutine of its own
    Prober,      \* the probe loop's coroutine (main.py)
    None,        \* SQL NULL / Python None
    Slots,       \* [Nodes -> [{"cpu","gpu"} -> Nat]]: the limits of the bootstrap template
    SlotChoices, \* the [{"cpu","gpu"} -> Nat] an operator may give a node
    Needs,       \* [Bodies -> SUBSET {"cpu","gpu"}]: _requested_resources
    Supports,    \* [Nodes -> SUBSET Bodies]: _node_supports on the node's capabilities
    Rejects,     \* [Nodes -> SUBSET Bodies]: bodies the node answers 400/422 to
    SyncBodies,  \* bodies whose kind the node runs before it answers
    BootEnabled, \* [Nodes -> BOOLEAN]: `enabled` in the bootstrap template
    MaxFaults,   \* bound: lost calls, missed probes, node and gateway crashes
    MaxAdmin     \* bound: operator requests

Resources == {"cpu", "gpu"}
Limits == [Resources -> Nat \ {0}]
ACTIVE_RUN_STATES == {"allocating", "queued", "running"}
TERMINAL_RUN_STATES == {"completed", "failed", "cancelled", "node_lost"}
NodeStates == {"active", "draining", "offline", "disabled"}
Procs == Workers \cup {Prober}

ASSUME ConstantsAssumption ==
    /\ IsFiniteSet(Nodes) /\ IsFiniteSet(Keys)
    /\ Prober \notin Workers
    /\ None \notin Nodes \cup Keys \cup Bodies \cup Procs
    /\ Slots \in [Nodes -> Limits] /\ SlotChoices \subseteq Limits
    /\ Needs \in [Bodies -> (SUBSET Resources) \ {{}}]
    /\ Supports \in [Nodes -> SUBSET Bodies]
    /\ Rejects \in [Nodes -> SUBSET Bodies]
    /\ SyncBodies \subseteq Bodies
    /\ BootEnabled \in [Nodes -> BOOLEAN]
    /\ MaxFaults \in Nat /\ MaxAdmin \in Nat

VARIABLES
    nodeState,  \* [Nodes -> NodeStates]: compute_nodes.state
    fresh,      \* [Nodes -> BOOLEAN]: _healthy, last_healthy_at is in the window
    nodeLock,   \* [Nodes -> Procs \cup {None}]: row lock of an open reservation
    run,        \* [Keys -> row of compute_runs]
    artifacts,  \* keys whose run_artifacts rows exist
    proc,       \* [Procs -> what the coroutine is doing]
    probe,      \* the probe loop: phase and the work left in this round
    boot,       \* nodes _bootstrap_nodes has still to apply
    slots,      \* [Nodes -> Limits]: max_cpu_slots, max_gpu_slots
    limitsRead, \* [Workers -> [Nodes -> Limits]]: slots as the request read them
    nodeUp,     \* [Nodes -> BOOLEAN]: the node process answers
    nodeRun,    \* [Nodes -> [Keys -> the node's run for that key]]
    faults, admin  \* what is spent of MaxFaults and MaxAdmin

dbVars    == <<nodeState, fresh, nodeLock, run, artifacts>>
nodeVars  == <<nodeUp, nodeRun>>
limitVars == <<slots, limitsRead>>
boundVars == <<faults, admin>>
vars == <<dbVars, proc, probe, boot, limitVars, nodeVars, boundVars>>

----------------------------------------------------------------------------
(* State *)

\* The columns of compute_runs the code decides on: the state, the route, the
\* request, and whether node_run_id and terminal_at are set.
Row(state, node, body, id, terminal) ==
    [state |-> state, node |-> node, body |-> body, nodeRunId |-> id, terminalAt |-> terminal]
NoRow == Row("absent", None, None, FALSE, FALSE)

\* The node's own record: "none" before the key is accepted, "gone" when the
\* node restarted after accepting it (its idempotency row survives in SQLite,
\* its run is no longer in memory and is answered 404).
NodeRec(status, body, cancel) == [status |-> status, body |-> body, cancel |-> cancel]
NoNodeRun == NodeRec("none", None, FALSE)
NodeStatuses == {"none", "queued", "running", "completed", "failed", "cancelled", "gone"}
ReplyStatuses == NodeStatuses \ {"none", "gone"}

\* A coroutine at an await: where it goes on, the key, body and node it works
\* for, the candidates left, and the status it was answered.
Task(pc, k, b, n, order, reply) ==
    [pc |-> pc, key |-> k, body |-> b, node |-> n, order |-> order, reply |-> reply]
Idle == Task("idle", None, None, None, <<>>, "none")
Done == Task("done", None, None, None, <<>>, "none")
PCs == {"idle", "done", "lock", "insert", "submit", "saveCreate", "saveReject",
        "saveLost", "saveStatus", "persist", "activate"}

Round(phase, nodes, runs) == [phase |-> phase, nodes |-> nodes, runs |-> runs]
IdleProbe == Round("idle", {}, {})

Rows == [state : {"absent"} \cup ACTIVE_RUN_STATES \cup TERMINAL_RUN_STATES,
         node : Nodes \cup {None}, body : Bodies \cup {None},
         nodeRunId : BOOLEAN, terminalAt : BOOLEAN]
NodeRecs == [status : NodeStatuses, body : Bodies \cup {None}, cancel : BOOLEAN]
Tasks == [pc : PCs, key : Keys \cup {None}, body : Bodies \cup {None},
          node : Nodes \cup {None}, order : Seq(Nodes), reply : ReplyStatuses \cup {"none"}]
Rounds == [phase : {"idle", "probe", "reconcile"}, nodes : SUBSET Nodes,
           runs : SUBSET (Keys \X BOOLEAN)]

\* Every variable has its type.
TypeOK ==
    /\ nodeState \in [Nodes -> NodeStates]
    /\ fresh \in [Nodes -> BOOLEAN]
    /\ nodeLock \in [Nodes -> Procs \cup {None}]
    /\ run \in [Keys -> Rows]
    /\ artifacts \subseteq Keys
    /\ proc \in [Procs -> Tasks]
    /\ probe \in Rounds
    /\ boot \subseteq Nodes
    /\ slots \in [Nodes -> Limits]
    /\ limitsRead \in [Workers -> [Nodes -> Limits]]
    /\ nodeUp \in [Nodes -> BOOLEAN]
    /\ nodeRun \in [Nodes -> [Keys -> NodeRecs]]
    /\ faults \in 0 .. MaxFaults
    /\ admin \in 0 .. MaxAdmin

\* The nodes have been registered (created "offline"); bootstrap will probe them.
Init ==
    /\ nodeState = [n \in Nodes |-> "offline"]
    /\ fresh = [n \in Nodes |-> FALSE]
    /\ nodeLock = [n \in Nodes |-> None]
    /\ run = [k \in Keys |-> NoRow]
    /\ artifacts = {}
    /\ proc = [p \in Procs |-> Idle]
    /\ probe = IdleProbe
    /\ boot = Nodes
    /\ slots = Slots
    /\ limitsRead = [w \in Workers |-> Slots]
    /\ nodeUp = [n \in Nodes |-> TRUE]
    /\ nodeRun = [n \in Nodes |-> [k \in Keys |-> NoNodeRun]]
    /\ faults = 0
    /\ admin = 0

----------------------------------------------------------------------------
(* Helpers *)

Exists(k) == run[k].state # "absent"
IsActive(k) == run[k].state \in ACTIVE_RUN_STATES

Goto(p, r) == proc' = [proc EXCEPT ![p] = r]
\* A request is answered once; the probe loop goes on with its next run.
Finish(p) == Goto(p, IF p = Prober THEN Idle ELSE Done)
Fault == faults < MaxFaults /\ faults' = faults + 1
Admin == admin < MaxAdmin /\ admin' = admin + 1

\* The row locks of a transaction are released at its commit or rollback.
Unlock(p) == nodeLock' = [n \in Nodes |-> IF nodeLock[n] = p THEN None ELSE nodeLock[n]]

SetRun(k, row) == run' = [run EXCEPT ![k] = row]

\* Row k with another state; terminal_at is written when stamp is TRUE.
WithState(k, s, id, stamp) ==
    Row(s, run[k].node, run[k].body, id, run[k].terminalAt \/ stamp)

SetNodeRun(n, k, rec) == nodeRun' = [nodeRun EXCEPT ![n] = [@ EXCEPT ![k] = rec]]

\* _active_resource_counts: active runs on n whose request uses pool r.
Used(n, r) ==
    Cardinality({k \in Keys : /\ IsActive(k)
                              /\ run[k].node = n
                              /\ r \in Needs[run[k].body]})

HasRoom(n, b, limits) == \A r \in Needs[b] : Used(n, r) < limits[n][r]

\* max(used[r] / limit[r]) of n is at most that of m (compared without division).
ScoreAtMost(n, m, b) ==
    \A r \in Needs[b] : \E q \in Needs[b] :
        Used(n, r) * slots[m][q] <= Used(m, q) * slots[n][r]

Candidates(b) == {n \in Nodes : /\ nodeState[n] = "active"
                                /\ fresh[n]
                                /\ b \in Supports[n]
                                /\ HasRoom(n, b, slots)}

\* The candidates, best score first; last_assigned_at and node_key break ties.
Orders(b) ==
    LET S == Candidates(b) IN
    {s \in [1 .. Cardinality(S) -> S] :
        \A i, j \in 1 .. Cardinality(S) :
            i < j => s[i] # s[j] /\ ScoreAtMost(s[i], s[j], b)}

----------------------------------------------------------------------------
(* create_run: _reserve_or_replay in one transaction, then _submit_allocating *)

\* Mutant: the stored request hash is not compared.
ReplayAnyBody(w, k, b) ==
    /\ proc[w].pc = "idle"
    /\ Exists(k)
    /\ ~run[k].nodeRunId
    /\ Goto(w, Task("submit", k, b, None, <<>>, "none"))
    /\ UNCHANGED <<dbVars, probe, boot, limitVars, nodeVars, boundVars>>

\* An existing key with the same request hash is replayed; with another hash
\* the call is answered 409 and changes nothing.
Replay(w, k, b) ==
    /\ proc[w].pc = "idle"
    /\ Exists(k)
    /\ run[k].body = b
    /\ ~run[k].nodeRunId
    /\ Goto(w, Task("submit", k, b, None, <<>>, "none"))
    /\ UNCHANGED <<dbVars, probe, boot, limitVars, nodeVars, boundVars>>

\* The candidates are read without locks, and the session keeps the limits of
\* this read.  No candidate: 503, nothing changes.
ReserveRead(w, k, b) ==
    /\ proc[w].pc = "idle"
    /\ ~Exists(k)
    /\ Candidates(b) # {}
    /\ \E s \in Orders(b) :
         Goto(w, Task("lock", k, b, None, s, "none"))
    /\ limitsRead' = [limitsRead EXCEPT ![w] = slots]
    /\ UNCHANGED <<dbVars, probe, boot, slots, nodeVars, boundVars>>

\* Mutant: the counts of the unlocked read are trusted.
ReserveLockNoRecount(w) ==
    /\ proc[w].pc = "lock"
    /\ proc[w].order # <<>>
    /\ LET n == Head(proc[w].order)
       IN /\ nodeLock[n] \in {None, w}
          /\ fresh[n]
          /\ nodeLock' = [nodeLock EXCEPT ![n] = w]
          /\ Goto(w, Task("insert", proc[w].key, proc[w].body, n, <<>>, "none"))
    /\ UNCHANGED <<nodeState, fresh, run, artifacts, probe, boot, limitVars, nodeVars, boundVars>>

\* SELECT ... FOR UPDATE SKIP LOCKED on the next candidate succeeds.  The row
\* is already in the session's identity map, so node.state and the limits keep
\* the values of the unlocked read: only the health of that old row and the
\* freshly counted runs are tested.  A full node stays locked until the end of
\* the transaction.
ReserveLock(w) ==
    /\ proc[w].pc = "lock"
    /\ proc[w].order # <<>>
    /\ LET n == Head(proc[w].order)
       IN /\ nodeLock[n] \in {None, w}
          /\ fresh[n]
          /\ nodeLock' = [nodeLock EXCEPT ![n] = w]
          /\ IF HasRoom(n, proc[w].body, limitsRead[w])
             THEN Goto(w, Task("insert", proc[w].key, proc[w].body, n, <<>>, "none"))
             ELSE Goto(w, Task("lock", proc[w].key, proc[w].body, None, Tail(proc[w].order), "none"))
    /\ UNCHANGED <<nodeState, fresh, run, artifacts, probe, boot, limitVars, nodeVars, boundVars>>

\* The candidate is skipped: its row is locked by another transaction, or the
\* last_healthy_at read before has aged out of the window.
ReserveSkip(w) ==
    /\ proc[w].pc = "lock"
    /\ proc[w].order # <<>>
    /\ Goto(w, Task("lock", proc[w].key, proc[w].body, None, Tail(proc[w].order), "none"))
    /\ UNCHANGED <<dbVars, probe, boot, limitVars, nodeVars, boundVars>>

\* Every candidate was skipped: 503, the transaction rolls back.
ReserveExhausted(w) ==
    /\ proc[w].pc = "lock"
    /\ proc[w].order = <<>>
    /\ Unlock(w)
    /\ Finish(w)
    /\ UNCHANGED <<nodeState, fresh, run, artifacts, probe, boot, limitVars, nodeVars, boundVars>>

\* Mutant: ON CONFLICT DO UPDATE instead of the unique constraint's error.
ReserveUpsert(w) ==
    /\ proc[w].pc = "insert"
    /\ SetRun(proc[w].key, Row("allocating", proc[w].node, proc[w].body, FALSE, FALSE))
    /\ Goto(w, Task("submit", proc[w].key, proc[w].body, None, <<>>, "none"))
    /\ Unlock(w)
    /\ UNCHANGED <<nodeState, fresh, artifacts, probe, boot, limitVars, nodeVars, boundVars>>

\* INSERT and COMMIT.  When the key was inserted meanwhile the unique
\* constraint fails the statement and the transaction rolls back.
ReserveInsert(w) ==
    /\ proc[w].pc = "insert"
    /\ LET k == proc[w].key
       IN IF Exists(k)
          THEN Finish(w) /\ UNCHANGED run
          ELSE /\ SetRun(k, Row("allocating", proc[w].node, proc[w].body, FALSE, FALSE))
               /\ Goto(w, Task("submit", proc[w].key, proc[w].body, None, <<>>, "none"))
    /\ Unlock(w)
    /\ UNCHANGED <<nodeState, fresh, artifacts, probe, boot, limitVars, nodeVars, boundVars>>

----------------------------------------------------------------------------
(* _submit_allocating: load the route, POST it to its node, save the answer *)

\* The node answers a key it knows from its idempotency table.
CreateReply(b) == IF b \in SyncBodies THEN "completed" ELSE "queued"

NodeAccept(n, k, b) ==
    IF nodeRun[n][k].status = "none"
    THEN SetNodeRun(n, k, NodeRec(CreateReply(b), b, FALSE))
    ELSE UNCHANGED nodeRun

\* The route has a node run already: nothing is sent.
SubmitKnown(p) ==
    /\ proc[p].pc = "submit"
    /\ run[proc[p].key].nodeRunId
    /\ Finish(p)
    /\ UNCHANGED <<dbVars, probe, boot, limitVars, nodeVars, boundVars>>

SubmitAccepted(p) ==
    /\ proc[p].pc = "submit"
    /\ LET k == proc[p].key
           n == run[k].node
           b == run[k].body
       IN /\ ~run[k].nodeRunId
          /\ nodeUp[n]
          /\ b \notin Rejects[n]
          /\ NodeAccept(n, k, b)
          /\ Goto(p, Task("saveCreate", k, proc[p].body, None, <<>>, CreateReply(b)))
    /\ UNCHANGED <<dbVars, probe, boot, limitVars, nodeUp, boundVars>>

SubmitRejected(p) ==
    /\ proc[p].pc = "submit"
    /\ LET k == proc[p].key
       IN /\ ~run[k].nodeRunId
          /\ nodeUp[run[k].node]
          /\ run[k].body \in Rejects[run[k].node]
          /\ Goto(p, Task("saveReject", k, None, None, <<>>, "none"))
    /\ UNCHANGED <<dbVars, probe, boot, limitVars, nodeVars, boundVars>>

\* Mutant: a timeout is taken for an accepted request.
SubmitAssumed(p) ==
    /\ proc[p].pc = "submit"
    /\ LET k == proc[p].key
       IN /\ ~run[k].nodeRunId
          /\ \/ ~nodeUp[run[k].node] /\ UNCHANGED faults
             \/ Fault
          /\ Goto(p, Task("saveCreate", k, proc[p].body, None, <<>>, CreateReply(run[k].body)))
    /\ UNCHANGED <<dbVars, probe, boot, limitVars, nodeVars, admin>>

\* Refused connection, or a timeout before or after the node took the request:
\* the reservation stays "allocating" for the next retry.
SubmitUnavailable(p) ==
    /\ proc[p].pc = "submit"
    /\ LET k == proc[p].key
           n == run[k].node
           b == run[k].body
       IN /\ ~run[k].nodeRunId
          /\ \/ ~nodeUp[n] /\ UNCHANGED <<nodeRun, faults>>
             \/ Fault /\ UNCHANGED nodeRun
             \/ Fault /\ nodeUp[n] /\ b \notin Rejects[n] /\ NodeAccept(n, k, b)
    /\ Finish(p)
    /\ UNCHANGED <<dbVars, probe, boot, limitVars, nodeUp, admin>>

\* The row is locked; the first answer to be saved wins.  terminal_at is not
\* written here.
SaveCreate(p) ==
    /\ proc[p].pc = "saveCreate"
    /\ LET k == proc[p].key
       IN IF run[k].nodeRunId
          THEN UNCHANGED run
          ELSE SetRun(k, WithState(k, proc[p].reply, TRUE, FALSE))
    /\ Finish(p)
    /\ UNCHANGED <<nodeState, fresh, nodeLock, artifacts, probe, boot, limitVars, nodeVars, boundVars>>

SaveReject(p) ==
    /\ proc[p].pc = "saveReject"
    /\ LET k == proc[p].key IN SetRun(k, WithState(k, "failed", run[k].nodeRunId, TRUE))
    /\ Finish(p)
    /\ UNCHANGED <<nodeState, fresh, nodeLock, artifacts, probe, boot, limitVars, nodeVars, boundVars>>

\* _handle_route_error on COMPUTE_RUN_NOT_FOUND.
SaveLost(p) ==
    /\ proc[p].pc = "saveLost"
    /\ LET k == proc[p].key IN SetRun(k, WithState(k, "node_lost", run[k].nodeRunId, TRUE))
    /\ Finish(p)
    /\ UNCHANGED <<nodeState, fresh, nodeLock, artifacts, probe, boot, limitVars, nodeVars, boundVars>>

----------------------------------------------------------------------------
(* get_run, cancel_run, manifest *)

\* What GET /runs/{nodeRunId} makes the caller do next.  No answer (node down,
\* timeout) ends the request with 503.
StatusCall(p, k) ==
    LET n == run[k].node
        s == nodeRun[n][k].status
    IN \/ /\ nodeUp[n] /\ s \in ReplyStatuses
          /\ Goto(p, Task("saveStatus", k, None, None, <<>>, s))
       \/ /\ nodeUp[n] /\ s = "gone"
          /\ Goto(p, Task("saveLost", k, None, None, <<>>, "none"))

GetRun(w, k) ==
    /\ proc[w].pc = "idle"
    /\ Exists(k)
    /\ run[k].state # "node_lost"
    /\ IF run[k].nodeRunId
       THEN StatusCall(w, k)
       ELSE Goto(w, Task("submit", k, None, None, <<>>, "none"))
    /\ UNCHANGED <<dbVars, probe, boot, limitVars, nodeVars, boundVars>>

\* _save_status overwrites the state whatever it is by now.
SaveStatus(p) ==
    /\ proc[p].pc = "saveStatus"
    /\ LET k == proc[p].key
           s == proc[p].reply
       IN SetRun(k, WithState(k, s, run[k].nodeRunId, s \in TERMINAL_RUN_STATES))
    /\ Finish(p)
    /\ UNCHANGED <<nodeState, fresh, nodeLock, artifacts, probe, boot, limitVars, nodeVars, boundVars>>

\* Mutant: the accepted cancellation is saved as the final state.
CancelRunSaves(w, k) ==
    /\ proc[w].pc = "idle"
    /\ Exists(k)
    /\ run[k].state # "node_lost"
    /\ run[k].nodeRunId
    /\ nodeUp[run[k].node]
    /\ nodeRun[run[k].node][k].status \in {"queued", "running"}
    /\ LET n == run[k].node
       IN SetNodeRun(n, k, NodeRec(nodeRun[n][k].status, nodeRun[n][k].body, TRUE))
    /\ SetRun(k, WithState(k, "cancelled", TRUE, TRUE))
    /\ Finish(w)
    /\ UNCHANGED <<nodeState, fresh, nodeLock, artifacts, probe, boot, limitVars, nodeUp, boundVars>>

\* The answer is returned to the caller and not saved: the reservation is kept
\* until a later status is terminal.
CancelRun(w, k) ==
    /\ proc[w].pc = "idle"
    /\ Exists(k)
    /\ run[k].state # "node_lost"
    /\ run[k].nodeRunId
    /\ LET n == run[k].node
       IN /\ nodeUp[n]
          /\ \/ /\ nodeRun[n][k].status \in {"queued", "running"}
                /\ SetNodeRun(n, k, NodeRec(nodeRun[n][k].status, nodeRun[n][k].body, TRUE))
                /\ Finish(w)
             \/ /\ nodeRun[n][k].status = "gone"
                /\ Goto(w, Task("saveLost", k, None, None, <<>>, "none"))
                /\ UNCHANGED nodeRun
    /\ UNCHANGED <<dbVars, probe, boot, limitVars, nodeUp, boundVars>>

Manifest(w, k) ==
    /\ proc[w].pc = "idle"
    /\ Exists(k)
    /\ run[k].state # "node_lost"
    /\ run[k].nodeRunId
    /\ LET n == run[k].node
       IN /\ nodeUp[n]
          /\ \/ /\ nodeRun[n][k].status = "completed"
                /\ Goto(w, Task("persist", k, None, None, <<>>, "none"))
             \/ /\ nodeRun[n][k].status = "gone"
                /\ Goto(w, Task("saveLost", k, None, None, <<>>, "none"))
    /\ UNCHANGED <<dbVars, probe, boot, limitVars, nodeVars, boundVars>>

\* _persist_manifest: existing rows are kept.
PersistManifest(w) ==
    /\ proc[w].pc = "persist"
    /\ artifacts' = artifacts \cup {proc[w].key}
    /\ Finish(w)
    /\ UNCHANGED <<nodeState, fresh, nodeLock, run, probe, boot, limitVars, nodeVars, boundVars>>

----------------------------------------------------------------------------
(* Nodes: operator requests, bootstrap, the probe loop *)

\* FOR UPDATE on a node row waits for the reservation that locks it.
Lockable(n) == nodeLock[n] = None

\* The transaction that ends a successful probe_node.
ProbeSucceeds(n, activate) ==
    /\ fresh' = [fresh EXCEPT ![n] = TRUE]
    /\ nodeState' = [nodeState EXCEPT ![n] =
            IF (activate \/ @ = "offline") /\ @ # "draining" THEN "active" ELSE @]

SetNodeState(n, s) ==
    /\ Admin
    /\ Lockable(n)
    /\ nodeState' = [nodeState EXCEPT ![n] = s]
    /\ UNCHANGED <<fresh, nodeLock, run, artifacts, proc, probe, boot, limitVars, nodeVars, faults>>

\* set_node_state(n, "active") begins with the probe.
ActivateNode(w, n) ==
    /\ proc[w].pc = "idle"
    /\ Admin
    /\ Goto(w, Task("activate", None, None, n, <<>>, "none"))
    /\ UNCHANGED <<dbVars, probe, boot, limitVars, nodeVars, faults>>

\* upsert_node of a registered node, then probe_node(activate_on_success).
\* The new limits bind the requests that read the node from now on.
UpsertNode(w, n, enabled, limits) ==
    /\ proc[w].pc = "idle"
    /\ Admin
    /\ Lockable(n)
    /\ slots' = [slots EXCEPT ![n] = limits]
    /\ nodeState' = [nodeState EXCEPT ![n] = IF enabled THEN "offline" ELSE "disabled"]
    /\ IF enabled
       THEN Goto(w, Task("activate", None, None, n, <<>>, "none"))
       ELSE Finish(w)
    /\ UNCHANGED <<fresh, nodeLock, run, artifacts, probe, boot, limitsRead, nodeVars, faults>>

Activate(w) ==
    /\ proc[w].pc = "activate"
    /\ LET n == proc[w].node
       IN \/ nodeUp[n] /\ Lockable(n) /\ ProbeSucceeds(n, TRUE)
          \/ ~nodeUp[n] /\ UNCHANGED <<fresh, nodeState>>
    /\ Finish(w)
    /\ UNCHANGED <<nodeLock, run, artifacts, probe, boot, limitVars, nodeVars, boundVars>>

\* bootstrap_node of a registered node: an operator's limits are replaced by
\* the template's, an operator's state is kept unless the template disables the
\* node; an offline node is probed.
BootstrapNode(n) ==
    /\ n \in boot
    /\ Lockable(n)
    /\ boot' = boot \ {n}
    /\ slots' = [slots EXCEPT ![n] = Slots[n]]
    /\ LET kept == IF BootEnabled[n] THEN nodeState[n] ELSE "disabled"
       IN IF kept = "offline" /\ nodeUp[n] THEN ProbeSucceeds(n, FALSE)
          ELSE nodeState' = [nodeState EXCEPT ![n] = kept] /\ UNCHANGED fresh
    /\ UNCHANGED <<nodeLock, run, artifacts, proc, probe, limitsRead, nodeVars, boundVars>>

ProbeStart ==
    /\ probe.phase = "idle"
    /\ probe' = Round("probe", {n \in Nodes : nodeState[n] # "disabled"}, {})
    /\ UNCHANGED <<dbVars, proc, boot, limitVars, nodeVars, boundVars>>

ProbeNode(n) ==
    /\ probe.phase = "probe"
    /\ n \in probe.nodes
    /\ probe' = Round("probe", probe.nodes \ {n}, {})
    /\ \/ nodeUp[n] /\ Lockable(n) /\ ProbeSucceeds(n, FALSE)
       \/ ~nodeUp[n] /\ UNCHANGED <<nodeState, fresh>>
    /\ UNCHANGED <<nodeLock, run, artifacts, proc, boot, limitVars, nodeVars, boundVars>>

\* Mutant: the round ends without reconcile_active_runs.
MarkOfflineOnly ==
    LET dead == {n \in Nodes : nodeState[n] = "active" /\ ~fresh[n]}
    IN /\ probe.phase = "probe"
       /\ probe.nodes = {}
       /\ \A n \in Nodes : nodeState[n] = "active" => Lockable(n)
       /\ nodeState' = [n \in Nodes |-> IF n \in dead THEN "offline" ELSE nodeState[n]]
       /\ run' = [k \in Keys |-> IF IsActive(k) /\ run[k].node \in dead
                                 THEN WithState(k, "node_lost", run[k].nodeRunId, TRUE)
                                 ELSE run[k]]
       /\ probe' = IdleProbe
       /\ UNCHANGED <<fresh, nodeLock, artifacts, proc, boot, limitVars, nodeVars, boundVars>>

\* The transaction of probe_all that follows the probes, and the snapshot that
\* reconcile_active_runs starts from.  Only "active" nodes are looked at.
MarkOffline ==
    LET dead == {n \in Nodes : nodeState[n] = "active" /\ ~fresh[n]}
        lost == {k \in Keys : IsActive(k) /\ run[k].node \in dead}
    IN /\ probe.phase = "probe"
       /\ probe.nodes = {}
       /\ \A n \in Nodes : nodeState[n] = "active" => Lockable(n)
       /\ nodeState' = [n \in Nodes |-> IF n \in dead THEN "offline" ELSE nodeState[n]]
       /\ run' = [k \in Keys |-> IF k \in lost
                                 THEN WithState(k, "node_lost", run[k].nodeRunId, TRUE)
                                 ELSE run[k]]
       /\ probe' = Round("reconcile", {},
                       {<<k, run[k].nodeRunId>> : k \in {j \in Keys : IsActive(j)} \ lost})
       /\ UNCHANGED <<fresh, nodeLock, artifacts, proc, boot, limitVars, nodeVars, boundVars>>

\* One run of the snapshot: submit it if it had no node run, else poll it.
Reconcile(k, known) ==
    /\ probe.phase = "reconcile"
    /\ proc[Prober].pc = "idle"
    /\ <<k, known>> \in probe.runs
    /\ probe' = Round("reconcile", {}, probe.runs \ {<<k, known>>})
    /\ \/ ~known /\ Goto(Prober, Task("submit", k, None, None, <<>>, "none"))
       \/ known /\ StatusCall(Prober, k)
       \/ known /\ ~nodeUp[run[k].node] /\ UNCHANGED proc
    /\ UNCHANGED <<dbVars, boot, limitVars, nodeVars, boundVars>>

ReconcileEnd ==
    /\ probe.phase = "reconcile"
    /\ proc[Prober].pc = "idle"
    /\ probe.runs = {}
    /\ probe' = IdleProbe
    /\ UNCHANGED <<dbVars, proc, boot, limitVars, nodeVars, boundVars>>

----------------------------------------------------------------------------
(* The environment: time, the nodes, the gateway process *)

\* last_healthy_at leaves the window: the node is down, or probes are late.
HealthExpires(n) ==
    /\ fresh[n]
    /\ \/ ~nodeUp[n] /\ UNCHANGED faults
       \/ nodeUp[n] /\ Fault
    /\ fresh' = [fresh EXCEPT ![n] = FALSE]
    /\ UNCHANGED <<nodeState, nodeLock, run, artifacts, proc, probe, boot, limitVars, nodeVars, admin>>

NodeCrash(n) ==
    /\ nodeUp[n]
    /\ Fault
    /\ nodeUp' = [nodeUp EXCEPT ![n] = FALSE]
    /\ nodeRun' = [nodeRun EXCEPT ![n] = [k \in Keys |->
            IF nodeRun[n][k].status = "none"
            THEN nodeRun[n][k]
            ELSE NodeRec("gone", nodeRun[n][k].body, nodeRun[n][k].cancel)]]
    /\ UNCHANGED <<dbVars, proc, probe, boot, limitVars, admin>>

NodeStart(n) ==
    /\ ~nodeUp[n]
    /\ nodeUp' = [nodeUp EXCEPT ![n] = TRUE]
    /\ UNCHANGED <<dbVars, proc, probe, boot, limitVars, nodeRun, boundVars>>

NodeStep(n, k) ==
    /\ nodeUp[n]
    /\ \/ /\ nodeRun[n][k].status = "queued"
          /\ SetNodeRun(n, k, NodeRec("running", nodeRun[n][k].body, nodeRun[n][k].cancel))
       \/ /\ nodeRun[n][k].status = "running"
          /\ \E s \in {"completed", "failed"} \cup
                      (IF nodeRun[n][k].cancel THEN {"cancelled"} ELSE {}) :
                SetNodeRun(n, k, NodeRec(s, nodeRun[n][k].body, nodeRun[n][k].cancel))
    /\ UNCHANGED <<dbVars, proc, probe, boot, limitVars, nodeUp, boundVars>>

\* Coroutines and open transactions are lost, the tables are not.
GatewayRestart ==
    /\ Fault
    /\ proc' = [p \in Procs |-> IF p = Prober \/ proc[p].pc = "idle" THEN Idle ELSE Done]
    /\ probe' = IdleProbe
    /\ nodeLock' = [n \in Nodes |-> None]
    /\ boot' = Nodes
    /\ UNCHANGED <<nodeState, fresh, run, artifacts, limitVars, nodeVars, admin>>

----------------------------------------------------------------------------
ProcStep(p) ==
    \/ SubmitKnown(p) \/ SubmitAccepted(p) \/ SubmitRejected(p) \/ SubmitUnavailable(p)
    \/ SaveCreate(p) \/ SaveReject(p) \/ SaveLost(p) \/ SaveStatus(p)

WorkerStep(w) ==
    \/ ProcStep(w)
    \/ ReserveLock(w) \/ ReserveSkip(w) \/ ReserveExhausted(w) \/ ReserveInsert(w)
    \/ PersistManifest(w) \/ Activate(w)

Request(w) ==
    \/ \E k \in Keys, b \in Bodies : Replay(w, k, b) \/ ReserveRead(w, k, b)
    \/ \E k \in Keys : GetRun(w, k) \/ CancelRun(w, k) \/ Manifest(w, k)
    \/ \E n \in Nodes : ActivateNode(w, n)
    \/ \E n \in Nodes, e \in BOOLEAN, l \in SlotChoices : UpsertNode(w, n, e, l)

ProbeLoop ==
    \/ ProcStep(Prober)
    \/ ProbeStart \/ MarkOffline \/ ReconcileEnd
    \/ \E n \in Nodes : ProbeNode(n)
    \/ \E k \in Keys, known \in BOOLEAN : Reconcile(k, known)

Environment ==
    \/ \E n \in Nodes : \/ HealthExpires(n) \/ NodeCrash(n) \/ NodeStart(n)
                        \/ BootstrapNode(n)
                        \/ \E s \in {"draining", "disabled"} : SetNodeState(n, s)
                        \/ \E k \in Keys : NodeStep(n, k)
    \/ GatewayRestart

Next == (\E w \in Workers : Request(w) \/ WorkerStep(w)) \/ ProbeLoop \/ Environment

Spec == Init /\ [][Next]_vars

\* Every coroutine that can take a step eventually does (one asyncio loop),
\* the node restarts and finishes its work.  Requests, operators and faults
\* are never obliged to happen.
GatewayFairness == /\ \A w \in Workers : WF_vars(WorkerStep(w))
                   /\ WF_vars(ProbeLoop)
NodeFairness == \A n \in Nodes : /\ WF_vars(NodeStart(n))
                                 /\ WF_vars(\E k \in Keys : NodeStep(n, k))

FairSpec == Spec /\ GatewayFairness /\ NodeFairness

----------------------------------------------------------------------------
(* Properties *)

\* Invariants 1 and 3 of the gateway's design: a node executes a key only
\* after the route to it is in the database, no second node ever does, and the
\* body it executes is the one the route was created with.
SingleExecution ==
    \A n \in Nodes, k \in Keys :
        nodeRun[n][k].status # "none" => /\ Exists(k)
                                        /\ run[k].node = n
                                        /\ run[k].body = nodeRun[n][k].body

\* A node_run_id is stored only for a run the route's node really accepted,
\* whichever of several concurrent submissions saved it.
RecordedRunIsReal ==
    \A k \in Keys : run[k].nodeRunId => nodeRun[run[k].node][k].status # "none"

\* Invariant 2: a create request that is past _reserve_or_replay submits the
\* body its caller sent, never another body stored under the same key.
CallerSubmitsItsBody ==
    \A w \in Workers :
        proc[w].pc \in {"submit", "saveCreate"} /\ proc[w].body # None
            => run[proc[w].key].body = proc[w].body

\* Runs that have held their slots ever since they were reserved
\* (terminal_at is never cleared).
Holding(n, r) == {k \in Keys : /\ IsActive(k)
                               /\ ~run[k].terminalAt
                               /\ run[k].node = n
                               /\ r \in Needs[run[k].body]}

\* Concurrent reservations never oversubscribe a pool of a node: a run takes a
\* slot only within the limits its request read, counted among the runs that
\* hold one at that moment.  The recount under the row lock is enough although
\* candidates are read without it; a limit lowered after that read is not seen.
ReservationsFitSlots ==
    [][\A n \in Nodes, r \in Resources :
            \/ Holding(n, r)' \subseteq Holding(n, r)
            \/ \E w \in Workers : /\ proc[w].pc = "insert"
                                  /\ proc[w].node = n
                                  /\ Cardinality(Holding(n, r)') <= limitsRead[w][n][r]]_vars

\* A result the gateway reports as final is what happened on the node: a run
\* it calls completed, failed or cancelled is not executing, and artifacts are
\* published only for a run that completed.
FinalStateIsTrue ==
    \A k \in Keys :
        LET s == nodeRun[run[k].node][k].status IN
        /\ run[k].state \in {"completed", "cancelled"} => s \in {run[k].state, "gone"}
        /\ run[k].state = "failed" => s \in {"failed", "gone", "none"}
        /\ k \in artifacts => s \in {"completed", "gone"}

\* A route never moves: node and request of a run are fixed when it is reserved.
StickyRoute ==
    [][\A k \in Keys : Exists(k) =>
            run'[k].node = run[k].node /\ run'[k].body = run[k].body]_vars

\* "A lost poller cannot leak node capacity": while nodes come back after a
\* crash, the probe loop alone brings every reservation to an end, so that a
\* key is again and again without one.
CapacityIsReleased == \A k \in Keys : []<>~IsActive(k)

\* Design document, invariant 6: "Terminal states ... release capacity exactly
\* once".  _save_status and _submit_allocating write the state of an answer
\* that was in flight over a node_lost set meanwhile by the probe loop, and the
\* run counts against the node again.
TerminalIsFinal ==
    [][\A k \in Keys : run[k].state \in TERMINAL_RUN_STATES
                            => run'[k].state \in TERMINAL_RUN_STATES]_vars

----------------------------------------------------------------------------
(* The inductive strengthening used in GatewayProofs *)

\* What a coroutine remembers across its awaits is still true of the tables.
RowInv ==
    \A k \in Keys : IF Exists(k) THEN run[k].node \in Nodes /\ run[k].body \in Bodies
                                 ELSE run[k] = NoRow

RouteKnown == {"submit", "saveCreate", "saveReject", "saveLost", "saveStatus", "persist"}

TaskOK(p, t) ==
    /\ t.pc \in {"lock", "insert"} => p \in Workers /\ t.key \in Keys /\ t.body \in Bodies
    /\ t.pc = "insert" => t.node \in Nodes /\ nodeLock[t.node] = p
    /\ t.pc \in RouteKnown => t.key \in Keys /\ Exists(t.key)
    /\ t.pc \in {"saveCreate", "saveStatus"} => t.reply \in ReplyStatuses
    /\ t.pc = "activate" => t.node \in Nodes

ProcInv == \A p \in Procs : TaskOK(p, proc[p])

ProbeInv == \A e \in probe.runs : Exists(e[1])

TypeInv == TypeOK /\ RowInv /\ ProcInv /\ ProbeInv

\* An answer about to be saved comes from the node of the route.
AnswerInv ==
    \A p \in Procs : proc[p].pc = "saveCreate" =>
        nodeRun[run[proc[p].key].node][proc[p].key].status # "none"

RouteInv == SingleExecution /\ RecordedRunIsReal /\ AnswerInv /\ CallerSubmitsItsBody

\* A run that is final without terminal_at is one the node ran before it
\* answered the create request; nothing else will ever be reported for it.
SyncInv ==
    /\ \A n \in Nodes, k \in Keys : nodeRun[n][k].body \in SyncBodies =>
            nodeRun[n][k].status \in {"none", "completed", "gone"}
    /\ \A p \in Procs : proc[p].pc \in {"saveCreate", "saveStatus"}
                              /\ run[proc[p].key].body \in SyncBodies
                         => proc[p].reply = "completed"
    /\ \A k \in Keys : run[k].state \in TERMINAL_RUN_STATES /\ ~run[k].terminalAt
                         => run[k].body \in SyncBodies

\* The recount still holds when the locked reservation is inserted.
RoomInv ==
    \A w \in Workers : proc[w].pc = "insert" =>
        \A r \in Needs[proc[w].body] :
            Cardinality(Holding(proc[w].node, r)) < limitsRead[w][proc[w].node][r]

CapacityInv == SyncInv /\ RoomInv

=============================================================================
