--------------------------- MODULE GatewayProofs ---------------------------
(* Proofs about Gateway for all nodes, keys, bodies, requests and bounds. *)
EXTENDS Gateway, FiniteSetTheorems, TLAPS

----------------------------------------------------------------------------
(* Type correctness *)

LEMMA InitTypeInv == Init => TypeInv
<1> SUFFICES ASSUME Init PROVE TypeInv
  OBVIOUS
<1>1. TypeOK
  BY ConstantsAssumption
  DEF Init, TypeOK, Rows, NodeRecs, Tasks, Rounds, NoRow, Row, Idle, Task, IdleProbe, Round,
      NoNodeRun, NodeRec, NodeStatuses, ReplyStatuses, NodeStates, PCs
<1>2. RowInv /\ ProcInv /\ ProbeInv
  BY DEF Init, RowInv, ProcInv, TaskOK, ProbeInv, NoRow, Row, Idle, Task, IdleProbe, Round,
         RouteKnown, Exists
<1> QED BY <1>1, <1>2 DEF TypeInv

\* A step that only moves one coroutine keeps the invariant if the task it
\* moves to is right.
LEMMA MoveTypeInv ==
  ASSUME TypeInv, NEW p \in Procs, NEW t \in Tasks, TaskOK(p, t), Goto(p, t),
         UNCHANGED <<nodeLock, run>>
  PROVE  proc' \in [Procs -> Tasks] /\ RowInv' /\ ProcInv'
  BY DEF TypeInv, TypeOK, RowInv, ProcInv, TaskOK, Goto, Exists

\* Ending a request, or one run of the probe loop's round, moves to a task
\* that remembers nothing.
LEMMA FinishTask ==
  ASSUME NEW p \in Procs, Finish(p)
  PROVE  \E t \in Tasks : /\ Goto(p, t)
                          /\ t.pc \in {"idle", "done"}
                          /\ TaskOK(p, t)
<1> DEFINE t == IF p = Prober THEN Idle ELSE Done
<1>1. t \in Tasks /\ t.pc \in {"idle", "done"}
  BY DEF Idle, Done, Task, Tasks, PCs
<1>2. TaskOK(p, t)
  BY <1>1 DEF TaskOK, RouteKnown
<1> QED BY <1>1, <1>2 DEF Finish

\* A step that rewrites the row of a known run and moves one coroutine.
LEMMA SaveTypeInv ==
  ASSUME TypeInv, NEW p \in Procs, NEW t \in Tasks, TaskOK(p, t), Goto(p, t),
         NEW k \in Keys, NEW row \in Rows, SetRun(k, row),
         row.state # "absent", row.node \in Nodes, row.body \in Bodies,
         \A q \in Procs : q # p /\ proc[q].pc = "insert"
                             => nodeLock'[proc[q].node] = nodeLock[proc[q].node],
         t.pc # "insert", UNCHANGED probe
  PROVE  /\ proc' \in [Procs -> Tasks] /\ run' \in [Keys -> Rows]
         /\ RowInv' /\ ProcInv' /\ ProbeInv'
<1>1. proc' \in [Procs -> Tasks] /\ run' \in [Keys -> Rows]
  BY DEF TypeInv, TypeOK, Goto, SetRun
<1>2. \A j \in Keys : Exists(j) => Exists(j)'
  BY DEF TypeInv, TypeOK, SetRun, Exists
<1>3. RowInv'
  BY DEF TypeInv, TypeOK, RowInv, SetRun, Exists
<1>4. ProcInv'
  BY <1>1, <1>2 DEF TypeInv, TypeOK, ProcInv, TaskOK, Goto
<1>5. ProbeInv'
  BY <1>2 DEF TypeInv, TypeOK, ProbeInv, Rounds
<1> QED BY <1>1, <1>3, <1>4, <1>5

\* WithState keeps the route.
LEMMA WithStateRow ==
  ASSUME TypeInv, NEW k \in Keys, Exists(k),
         NEW st \in ACTIVE_RUN_STATES \cup TERMINAL_RUN_STATES,
         NEW id \in BOOLEAN, NEW stamp \in BOOLEAN
  PROVE  LET row == WithState(k, st, id, stamp)
         IN /\ row \in Rows /\ row.state = st /\ row.state # "absent"
            /\ row.node = run[k].node /\ row.body = run[k].body
            /\ row.node \in Nodes /\ row.body \in Bodies
            /\ row.nodeRunId = id /\ row.terminalAt = (run[k].terminalAt \/ stamp)
  BY DEF WithState, Row, Rows, TypeInv, TypeOK, RowInv, ACTIVE_RUN_STATES, TERMINAL_RUN_STATES

\* The tasks that carry a known key.
LEMMA KeyTasks ==
  ASSUME NEW p \in Procs, NEW k \in Keys, Exists(k),
         NEW pc \in RouteKnown, NEW b \in Bodies \cup {None},
         NEW r \in ReplyStatuses \cup {"none"},
         pc \in {"saveCreate", "saveStatus"} => r # "none"
  PROVE  Task(pc, k, b, None, <<>>, r) \in Tasks /\ TaskOK(p, Task(pc, k, b, None, <<>>, r))
<1> DEFINE t == Task(pc, k, b, None, <<>>, r)
<1>1. pc \in PCs /\ pc \notin {"lock", "insert", "activate"}
  BY DEF RouteKnown, PCs
<1>2. t \in Tasks /\ t.pc = pc /\ t.key = k /\ t.reply = r
  BY <1>1 DEF Task, Tasks
<1>3. pc \in {"saveCreate", "saveStatus"} => r \in ReplyStatuses
  OBVIOUS
<1> HIDE DEF t
<1>4. TaskOK(p, t)
  BY <1>1, <1>2, <1>3 DEF TaskOK, Exists
<1> QED BY <1>2, <1>4 DEF t

\* A poll goes on to save a status or the loss of the run.
LEMMA StatusTask ==
  ASSUME TypeInv, NEW p \in Procs, NEW k \in Keys, Exists(k), StatusCall(p, k)
  PROVE  \E t \in Tasks : TaskOK(p, t) /\ Goto(p, t) /\ t.pc \in {"saveStatus", "saveLost"}
<1> DEFINE s == nodeRun[run[k].node][k].status
           u == Task("saveStatus", k, None, None, <<>>, s)
           v == Task("saveLost", k, None, None, <<>>, "none")
<1>0. "none" \notin ReplyStatuses
  BY DEF ReplyStatuses
<1>1. CASE s \in ReplyStatuses /\ Goto(p, u)
  <2>1. u \in Tasks /\ TaskOK(p, u)
    BY <1>0, <1>1, KeyTasks DEF RouteKnown
  <2> QED BY <2>1, <1>1 DEF Task
<1>2. CASE Goto(p, v)
  <2>1. v \in Tasks /\ TaskOK(p, v)
    BY KeyTasks DEF RouteKnown
  <2> QED BY <2>1, <1>2 DEF Task
<1> QED BY <1>1, <1>2 DEF StatusCall

\* The task of a request that probes a node.
LEMMA NodeTask ==
  ASSUME NEW p \in Procs, NEW n \in Nodes
  PROVE  LET t == Task("activate", None, None, n, <<>>, "none") IN t \in Tasks /\ TaskOK(p, t)
  BY DEF Task, Tasks, TaskOK, RouteKnown, PCs

\* Replacing one run of one node keeps the type of nodeRun.
LEMMA SetNodeRunType ==
  ASSUME TypeInv, NEW n \in Nodes, NEW k \in Keys, NEW rec \in NodeRecs,
         nodeRun' = nodeRun \/ SetNodeRun(n, k, rec)
  PROVE  nodeRun' \in [Nodes -> [Keys -> NodeRecs]]
<1>1. nodeRun \in [Nodes -> [Keys -> NodeRecs]]
  BY DEF TypeInv, TypeOK
<1>2. CASE SetNodeRun(n, k, rec)
  <2> DEFINE f == [nodeRun[n] EXCEPT ![k] = rec]
  <2>1. f \in [Keys -> NodeRecs]
    BY <1>1
  <2> HIDE DEF f
  <2>2. nodeRun' = [nodeRun EXCEPT ![n] = f]
    BY <1>2 DEF SetNodeRun, f
  <2> QED BY <1>1, <2>1, <2>2
<1> QED BY <1>1, <1>2

LEMMA RequestTypeInv ==
  ASSUME TypeInv, NEW w \in Workers, Request(w)
  PROVE  TypeInv'
<1> USE DEF dbVars, limitVars, nodeVars, boundVars
<1>p. w \in Procs
  BY DEF Procs
<1>1. ASSUME NEW k \in Keys, NEW b \in Bodies, Replay(w, k, b) PROVE TypeInv'
  <2> DEFINE t == Task("submit", k, b, None, <<>>, "none")
  <2>1. t \in Tasks /\ TaskOK(w, t)
    BY <1>1 DEF Replay, TaskOK, RouteKnown, PCs, Tasks, Task
  <2> QED BY <1>p, <1>1, <2>1, MoveTypeInv DEF Replay, TypeInv, TypeOK, ProbeInv, Exists
<1>2. ASSUME NEW k \in Keys, NEW b \in Bodies, ReserveRead(w, k, b) PROVE TypeInv'
  <2>1. PICK s \in Orders(b) : Goto(w, Task("lock", k, b, None, s, "none"))
    BY <1>2 DEF ReserveRead
  <2>2. s \in Seq(Nodes)
    <3> DEFINE S == Candidates(b)
    <3>1. S \subseteq Nodes
      BY DEF Candidates
    <3>2. Cardinality(S) \in Nat
      BY <3>1, ConstantsAssumption, FS_CardinalityType, FS_Subset
    <3>3. s \in [1 .. Cardinality(S) -> S]
      BY <2>1 DEF Orders
    <3> QED BY <3>1, <3>2, <3>3 
  <2> DEFINE t == Task("lock", k, b, None, s, "none")
  <2>3. t \in Tasks /\ TaskOK(w, t)
    BY <2>2 DEF TaskOK, RouteKnown, PCs, Tasks, Task
  <2>4. limitsRead' \in [Workers -> [Nodes -> Limits]]
    BY <1>2 DEF ReserveRead, TypeInv, TypeOK
  <2> QED BY <1>p, <1>2, <2>1, <2>3, <2>4, MoveTypeInv DEF ReserveRead, TypeInv, TypeOK, ProbeInv, Exists
<1>3. ASSUME NEW k \in Keys, GetRun(w, k) PROVE TypeInv'
  <2>1. PICK t \in Tasks : TaskOK(w, t) /\ Goto(w, t)
    <3>1. CASE run[k].nodeRunId
      BY <1>p, <1>3, <3>1, StatusTask DEF GetRun
    <3>2. CASE ~run[k].nodeRunId
      <4> DEFINE t == Task("submit", k, None, None, <<>>, "none")
      <4>1. t \in Tasks /\ TaskOK(w, t)
        BY <1>p, <1>3, KeyTasks DEF GetRun, RouteKnown
      <4> QED BY <1>3, <3>2, <4>1 DEF GetRun
    <3> QED BY <3>1, <3>2
  <2> QED BY <1>p, <1>3, <2>1, MoveTypeInv DEF GetRun, TypeInv, TypeOK, ProbeInv, Exists
<1>4. ASSUME NEW k \in Keys, CancelRun(w, k) PROVE TypeInv'
  <2>1. PICK t \in Tasks : TaskOK(w, t) /\ Goto(w, t)
    <3>1. CASE Finish(w)
      BY <1>p, <3>1, FinishTask
    <3>2. CASE Goto(w, Task("saveLost", k, None, None, <<>>, "none"))
      <4> DEFINE t == Task("saveLost", k, None, None, <<>>, "none")
      <4>1. t \in Tasks /\ TaskOK(w, t)
        BY <1>p, <1>4, KeyTasks DEF CancelRun, RouteKnown
      <4> QED BY <3>2, <4>1
    <3> QED BY <1>4, <3>1, <3>2 DEF CancelRun
  <2>2. nodeRun' \in [Nodes -> [Keys -> NodeRecs]]
    <3> DEFINE n == run[k].node
               rec == NodeRec(nodeRun[n][k].status, nodeRun[n][k].body, TRUE)
    <3>1. n \in Nodes
      BY <1>4 DEF CancelRun, TypeInv, RowInv
    <3>2. rec \in NodeRecs
      BY <3>1 DEF NodeRec, NodeRecs, TypeInv, TypeOK
    <3> HIDE DEF rec
    <3>3. nodeRun' = nodeRun \/ SetNodeRun(n, k, rec)
      BY <1>4 DEF CancelRun, rec
    <3> QED BY <3>1, <3>2, <3>3, SetNodeRunType
  <2> QED BY <1>p, <1>4, <2>1, <2>2, MoveTypeInv DEF CancelRun, TypeInv, TypeOK, ProbeInv, Exists
<1>5. ASSUME NEW k \in Keys, Manifest(w, k) PROVE TypeInv'
  <2>1. PICK t \in Tasks : TaskOK(w, t) /\ Goto(w, t)
    <3> DEFINE u == Task("persist", k, None, None, <<>>, "none")
               v == Task("saveLost", k, None, None, <<>>, "none")
    <3>1. u \in Tasks /\ TaskOK(w, u) /\ v \in Tasks /\ TaskOK(w, v)
      BY <1>p, <1>5, KeyTasks DEF Manifest, RouteKnown
    <3> QED BY <1>5, <3>1 DEF Manifest
  <2> QED BY <1>p, <1>5, <2>1, MoveTypeInv DEF Manifest, TypeInv, TypeOK, ProbeInv, Exists
<1>6. ASSUME NEW n \in Nodes, ActivateNode(w, n) PROVE TypeInv'
  <2>1. PICK t \in Tasks : TaskOK(w, t) /\ Goto(w, t)
    BY <1>p, <1>6, NodeTask DEF ActivateNode
  <2> QED BY <1>p, <1>6, <2>1, MoveTypeInv, ConstantsAssumption
          DEF ActivateNode, Admin, TypeInv, TypeOK, ProbeInv, Exists
<1>7. ASSUME NEW n \in Nodes, NEW e \in BOOLEAN, NEW l \in SlotChoices, UpsertNode(w, n, e, l) PROVE TypeInv'
  <2>1. PICK t \in Tasks : TaskOK(w, t) /\ Goto(w, t)
    <3>1. CASE e
      BY <1>p, <1>7, <3>1, NodeTask DEF UpsertNode
    <3>2. CASE ~e
      BY <1>p, <1>7, <3>2, FinishTask DEF UpsertNode
    <3> QED BY <3>1, <3>2
  <2>2. nodeState' \in [Nodes -> NodeStates]
    BY <1>7 DEF UpsertNode, NodeStates, TypeInv, TypeOK
  <2>3. slots' \in [Nodes -> Limits]
    BY <1>7, ConstantsAssumption DEF UpsertNode, TypeInv, TypeOK
  <2> QED BY <1>p, <1>7, <2>1, <2>2, <2>3, MoveTypeInv, ConstantsAssumption
          DEF UpsertNode, Admin, TypeInv, TypeOK, ProbeInv, Exists
<1> QED BY <1>1, <1>2, <1>3, <1>4, <1>5, <1>6, <1>7 DEF Request

\* The node's record of an accepted request is well typed.
LEMMA AcceptType ==
  ASSUME TypeInv, NEW n \in Nodes, NEW k \in Keys, NEW b \in Bodies, NodeAccept(n, k, b)
  PROVE  nodeRun' \in [Nodes -> [Keys -> NodeRecs]]
<1> DEFINE rec == NodeRec(CreateReply(b), b, FALSE)
<1>1. rec \in NodeRecs
  BY DEF NodeRec, NodeRecs, CreateReply, NodeStatuses
<1> HIDE DEF rec
<1>2. nodeRun' = nodeRun \/ SetNodeRun(n, k, rec)
  BY DEF NodeAccept, rec
<1> QED BY <1>1, <1>2, SetNodeRunType

LEMMA ProcStepTypeInv ==
  ASSUME TypeInv, NEW p \in Procs, ProcStep(p)
  PROVE  TypeInv'
<1> USE DEF dbVars, limitVars, nodeVars, boundVars
<1> DEFINE k == proc[p].key
<1>k. proc[p].pc \in RouteKnown =>
        /\ k \in Keys /\ Exists(k) /\ run[k].node \in Nodes /\ run[k].body \in Bodies
  BY DEF TypeInv, ProcInv, TaskOK, RowInv
<1>b. proc[p].body \in Bodies \cup {None}
  BY DEF TypeInv, TypeOK, Tasks
<1>f. ASSUME Finish(p), UNCHANGED <<nodeLock, run, probe, nodeState, fresh, artifacts, boot, limitVars, nodeUp, admin>>,
             faults' \in 0 .. MaxFaults, nodeRun' \in [Nodes -> [Keys -> NodeRecs]]
      PROVE  TypeInv'
  <2>1. PICK t \in Tasks : Goto(p, t) /\ TaskOK(p, t)
    BY <1>f, FinishTask
  <2> QED BY <1>f, <2>1, MoveTypeInv DEF TypeInv, TypeOK, ProbeInv, Exists
<1>s. ASSUME Finish(p), k \in Keys, NEW row \in Rows, SetRun(k, row), row.state # "absent",
             row.node \in Nodes, row.body \in Bodies,
             UNCHANGED <<nodeState, fresh, nodeLock, artifacts, probe, boot, limitVars, nodeVars, boundVars>>
      PROVE  TypeInv'
  <2>1. PICK t \in Tasks : Goto(p, t) /\ TaskOK(p, t) /\ t.pc \in {"idle", "done"}
    BY <1>s, FinishTask
  <2>2. /\ proc' \in [Procs -> Tasks] /\ run' \in [Keys -> Rows]
        /\ RowInv' /\ ProcInv' /\ ProbeInv'
    BY <1>s, <2>1, SaveTypeInv
  <2> QED BY <1>s, <2>2 DEF TypeInv, TypeOK
<1>1. CASE SubmitKnown(p)
  BY <1>1, <1>f DEF SubmitKnown, TypeInv, TypeOK
<1>2. CASE SubmitAccepted(p)
  <2> DEFINE b == run[k].body
             t == Task("saveCreate", k, proc[p].body, None, <<>>, CreateReply(b))
  <2>1. CreateReply(b) \in ReplyStatuses /\ CreateReply(b) # "none"
    BY DEF CreateReply, ReplyStatuses, NodeStatuses
  <2>2. proc[p].pc \in RouteKnown
    BY <1>2 DEF SubmitAccepted, RouteKnown
  <2>3. t \in Tasks /\ TaskOK(p, t)
    BY <1>k, <1>b, <2>1, <2>2, KeyTasks DEF RouteKnown
  <2>4. nodeRun' \in [Nodes -> [Keys -> NodeRecs]]
    BY <1>2, <1>k, <2>2, AcceptType DEF SubmitAccepted
  <2> QED BY <1>2, <2>3, <2>4, MoveTypeInv DEF SubmitAccepted, TypeInv, TypeOK, ProbeInv, Exists
<1>3. CASE SubmitRejected(p)
  <2> DEFINE t == Task("saveReject", k, None, None, <<>>, "none")
  <2>1. proc[p].pc \in RouteKnown
    BY <1>3 DEF SubmitRejected, RouteKnown
  <2>2. t \in Tasks /\ TaskOK(p, t)
    BY <1>k, <2>1, KeyTasks DEF RouteKnown
  <2> QED BY <1>3, <2>2, MoveTypeInv DEF SubmitRejected, TypeInv, TypeOK, ProbeInv, Exists
<1>4. CASE SubmitUnavailable(p)
  <2>1. proc[p].pc \in RouteKnown
    BY <1>4 DEF SubmitUnavailable, RouteKnown
  <2>2. nodeRun' \in [Nodes -> [Keys -> NodeRecs]]
    BY <1>4, <1>k, <2>1, AcceptType DEF SubmitUnavailable, TypeInv, TypeOK
  <2>3. faults' \in 0 .. MaxFaults
    BY <1>4, ConstantsAssumption DEF SubmitUnavailable, Fault, TypeInv, TypeOK
  <2> QED BY <1>4, <1>f, <2>2, <2>3 DEF SubmitUnavailable
<1>5. CASE SaveCreate(p)
  <2>1. proc[p].pc \in RouteKnown
    BY <1>5 DEF SaveCreate, RouteKnown
  <2>2. CASE run[k].nodeRunId
    BY <1>5, <1>f, <2>2 DEF SaveCreate, TypeInv, TypeOK
  <2>3. CASE ~run[k].nodeRunId
    <3>1. proc[p].reply \in ACTIVE_RUN_STATES \cup TERMINAL_RUN_STATES
      BY <1>5 DEF SaveCreate, TypeInv, ProcInv, TaskOK, ReplyStatuses, NodeStatuses,
                  ACTIVE_RUN_STATES, TERMINAL_RUN_STATES
    <3> QED BY <1>5, <1>k, <1>s, <2>1, <2>3, <3>1, WithStateRow DEF SaveCreate
  <2> QED BY <2>2, <2>3
<1>6. CASE SaveReject(p)
  <2>1. proc[p].pc \in RouteKnown /\ "failed" \in ACTIVE_RUN_STATES \cup TERMINAL_RUN_STATES
    BY <1>6 DEF SaveReject, RouteKnown, TERMINAL_RUN_STATES
  <2>2. run[k].nodeRunId \in BOOLEAN
    BY <1>k, <2>1 DEF TypeInv, TypeOK, Rows
  <2> QED BY <1>6, <1>k, <1>s, <2>1, <2>2, WithStateRow DEF SaveReject
<1>7. CASE SaveLost(p)
  <2>1. proc[p].pc \in RouteKnown /\ "node_lost" \in ACTIVE_RUN_STATES \cup TERMINAL_RUN_STATES
    BY <1>7 DEF SaveLost, RouteKnown, TERMINAL_RUN_STATES
  <2>2. run[k].nodeRunId \in BOOLEAN
    BY <1>k, <2>1 DEF TypeInv, TypeOK, Rows
  <2> QED BY <1>7, <1>k, <1>s, <2>1, <2>2, WithStateRow DEF SaveLost
<1>8. CASE SaveStatus(p)
  <2>1. proc[p].pc \in RouteKnown
    BY <1>8 DEF SaveStatus, RouteKnown
  <2>2. run[k].nodeRunId \in BOOLEAN
    BY <1>k, <2>1 DEF TypeInv, TypeOK, Rows
  <2>3. proc[p].reply \in ACTIVE_RUN_STATES \cup TERMINAL_RUN_STATES
    BY <1>8 DEF SaveStatus, TypeInv, ProcInv, TaskOK, ReplyStatuses, NodeStatuses,
                ACTIVE_RUN_STATES, TERMINAL_RUN_STATES
  <2>4. (proc[p].reply \in TERMINAL_RUN_STATES) \in BOOLEAN
    OBVIOUS
  <2> QED BY <1>8, <1>k, <1>s, <2>1, <2>2, <2>3, <2>4, WithStateRow DEF SaveStatus
<1> QED BY <1>1, <1>2, <1>3, <1>4, <1>5, <1>6, <1>7, <1>8 DEF ProcStep

\* Releasing the locks of p leaves the locks of the others.
LEMMA UnlockOthers ==
  ASSUME TypeInv, NEW p \in Procs, Unlock(p)
  PROVE  /\ nodeLock' \in [Nodes -> Procs \cup {None}]
         /\ \A q \in Procs : q # p /\ proc[q].pc = "insert"
                => nodeLock'[proc[q].node] = nodeLock[proc[q].node]
<1>1. nodeLock' \in [Nodes -> Procs \cup {None}]
  BY DEF Unlock, TypeInv, TypeOK
<1>2. \A q \in Procs : proc[q].pc = "insert" =>
        proc[q].node \in Nodes /\ nodeLock[proc[q].node] = q
  BY DEF TypeInv, ProcInv, TaskOK
<1> QED BY <1>1, <1>2 DEF Unlock

LEMMA WorkerStepTypeInv ==
  ASSUME TypeInv, NEW w \in Workers, WorkerStep(w)
  PROVE  TypeInv'
<1> USE DEF dbVars, limitVars, nodeVars, boundVars
<1>p. w \in Procs
  BY DEF Procs
<1>t. proc[w] \in Tasks /\ TaskOK(w, proc[w])
  BY <1>p DEF TypeInv, TypeOK, ProcInv
<1>l. proc[w].pc = "lock" => LET t == Task("lock", proc[w].key, proc[w].body, None, Tail(proc[w].order), "none")
                             IN proc[w].order # <<>> => t \in Tasks /\ TaskOK(w, t)
  BY <1>t DEF Task, Tasks, TaskOK, RouteKnown
<1>1. CASE ProcStep(w)
  BY <1>1, <1>p, ProcStepTypeInv
<1>2. CASE ReserveLock(w)
  <2>n. PICK n : n = Head(proc[w].order)
    OBVIOUS
  <2>t. PICK t : t = Task("insert", proc[w].key, proc[w].body, n, <<>>, "none")
    OBVIOUS
  <2>u. PICK u : u = Task("lock", proc[w].key, proc[w].body, None, Tail(proc[w].order), "none")
    OBVIOUS
  <2>1. n \in Nodes /\ proc[w].key \in Keys /\ proc[w].body \in Bodies
    BY <1>2, <1>t, <2>n DEF ReserveLock, Tasks, TaskOK
  <2>2. nodeLock' = [nodeLock EXCEPT ![n] = w] /\ nodeLock[n] \in {None, w}
    BY <1>2, <2>n DEF ReserveLock
  <2>3. nodeLock' \in [Nodes -> Procs \cup {None}] /\ nodeLock'[n] = w
    BY <1>p, <2>1, <2>2 DEF TypeInv, TypeOK
  <2>4. t \in Tasks /\ TaskOK(w, t)'
    <3>1. t \in Tasks
      BY <2>1, <2>t DEF Task, Tasks, PCs
    <3>2. t.pc = "insert" /\ t.key = proc[w].key /\ t.body = proc[w].body /\ t.node = n
      BY <2>t DEF Task
    <3> QED BY <2>1, <2>3, <3>1, <3>2 DEF TaskOK, RouteKnown
  <2>5. u \in Tasks /\ TaskOK(w, u)'
    <3>1. u \in Tasks
      BY <1>2, <1>l, <2>u DEF ReserveLock
    <3>2. u.pc = "lock" /\ u.key = proc[w].key /\ u.body = proc[w].body
      BY <2>u DEF Task
    <3> QED BY <2>1, <3>1, <3>2 DEF TaskOK, RouteKnown
  <2>6. \A q \in Procs : q # w => TaskOK(q, proc[q])'
    <3>1. \A q \in Procs : q # w => proc'[q] = proc[q] /\ TaskOK(q, proc[q])
      BY <1>2, <1>p DEF ReserveLock, Goto, TypeInv, TypeOK, ProcInv
    <3>2. \A q \in Procs : q # w /\ proc[q].pc = "insert" => nodeLock'[proc[q].node] = q
      BY <2>1, <2>2, <3>1, ConstantsAssumption DEF TaskOK, TypeInv, TypeOK
    <3>3. \A k \in Keys : Exists(k) = Exists(k)'
      BY <1>2 DEF ReserveLock, Exists
    <3> QED BY <3>1, <3>2, <3>3 DEF TaskOK
  <2>7. Goto(w, t) \/ Goto(w, u)
    BY <1>2, <2>n, <2>t, <2>u DEF ReserveLock
  <2>8. proc' \in [Procs -> Tasks] /\ proc'[w] \in {t, u}
    BY <1>p, <2>4, <2>5, <2>7 DEF Goto, TypeInv, TypeOK
  <2>9. ProcInv'
    BY <2>4, <2>5, <2>6, <2>8 DEF ProcInv
  <2> QED BY <1>2, <2>3, <2>8, <2>9 DEF ReserveLock, TypeInv, TypeOK, RowInv, ProbeInv, Exists
<1>3. CASE ReserveSkip(w)
  BY <1>3, <1>p, <1>l, MoveTypeInv DEF ReserveSkip, TypeInv, TypeOK, ProbeInv, Exists
<1>4. CASE ReserveExhausted(w)
  <2>1. PICK t \in Tasks : Goto(w, t) /\ t.pc \in {"idle", "done"}
    BY <1>4, <1>p, FinishTask DEF ReserveExhausted
  <2>2. proc' \in [Procs -> Tasks]
    BY <2>1 DEF Goto, TypeInv, TypeOK
  <2>3. ProcInv'
    BY <1>4, <1>p, <2>1, UnlockOthers
       DEF ReserveExhausted, Goto, TypeInv, TypeOK, ProcInv, TaskOK, RouteKnown, Exists
  <2> QED BY <1>4, <1>p, <2>2, <2>3, UnlockOthers
          DEF ReserveExhausted, TypeInv, TypeOK, RowInv, ProbeInv, Exists
<1>5. CASE ReserveInsert(w)
  <2>k. PICK k : k = proc[w].key
    OBVIOUS
  <2>1. k \in Keys /\ proc[w].body \in Bodies /\ proc[w].node \in Nodes /\ Unlock(w)
    BY <1>5, <1>t, <2>k DEF ReserveInsert, TaskOK
  <2>2. CASE Exists(k)
    <3>1. PICK t \in Tasks : Goto(w, t) /\ t.pc \in {"idle", "done"}
      BY <1>5, <1>p, <2>k, <2>2, FinishTask DEF ReserveInsert
    <3>2. proc' \in [Procs -> Tasks]
      BY <3>1 DEF Goto, TypeInv, TypeOK
    <3>3. run' = run
      BY <1>5, <2>k, <2>2 DEF ReserveInsert
    <3>4. ProcInv'
      BY <1>p, <2>1, <3>1, <3>3, UnlockOthers
         DEF Goto, TypeInv, TypeOK, ProcInv, TaskOK, RouteKnown, Exists
    <3> QED BY <1>5, <1>p, <2>1, <3>2, <3>3, <3>4, UnlockOthers
            DEF ReserveInsert, TypeInv, TypeOK, RowInv, ProbeInv, Exists
  <2>3. CASE ~Exists(k)
    <3>r. PICK row : row = Row("allocating", proc[w].node, proc[w].body, FALSE, FALSE)
      OBVIOUS
    <3>t. PICK t : t = Task("submit", k, proc[w].body, None, <<>>, "none")
      OBVIOUS
    <3>1. /\ row \in Rows /\ row.state # "absent" /\ row.node \in Nodes /\ row.body \in Bodies
      BY <2>1, <3>r DEF Row, Rows, ACTIVE_RUN_STATES
    <3>2. t \in Tasks /\ t.pc = "submit" /\ t.key = k
      BY <2>1, <3>t DEF Task, Tasks, PCs
    <3>3. SetRun(k, row) /\ Goto(w, t)
      BY <1>5, <2>k, <2>3, <3>r, <3>t DEF ReserveInsert
    <3>4. run' \in [Keys -> Rows] /\ proc' \in [Procs -> Tasks] /\ RowInv'
      BY <1>p, <2>1, <3>1, <3>2, <3>3 DEF SetRun, Goto, TypeInv, TypeOK, RowInv, Exists
    <3>5. Exists(k)' /\ \A j \in Keys : Exists(j) => Exists(j)'
      BY <2>1, <3>1, <3>3 DEF SetRun, Exists, TypeInv, TypeOK
    <3>6. ASSUME NEW q \in Procs PROVE TaskOK(q, proc[q])'
      <4>1. CASE q = w
        BY <4>1, <2>1, <3>2, <3>3, <3>5 DEF Goto, TaskOK, RouteKnown, TypeInv, TypeOK
      <4>2. CASE q # w
        <5>1. proc'[q] = proc[q] /\ TaskOK(q, proc[q])
          BY <4>2, <3>3 DEF Goto, TypeInv, TypeOK, ProcInv
        <5>2. proc[q].pc = "insert" => nodeLock'[proc[q].node] = nodeLock[proc[q].node]
          BY <1>p, <2>1, <4>2, UnlockOthers
        <5> QED BY <3>5, <5>1, <5>2 DEF TaskOK
      <4> QED BY <4>1, <4>2
    <3>7. ProbeInv'
      BY <1>5, <3>5 DEF ReserveInsert, ProbeInv, Rounds, TypeInv, TypeOK
    <3> QED BY <1>5, <1>p, <2>1, <3>4, <3>6, <3>7, UnlockOthers
            DEF ReserveInsert, TypeInv, TypeOK, ProcInv
  <2> QED BY <2>2, <2>3
<1>6. CASE PersistManifest(w)
  <2>1. PICK t \in Tasks : Goto(w, t) /\ TaskOK(w, t)
    BY <1>6, <1>p, FinishTask DEF PersistManifest
  <2>2. proc[w].key \in Keys
    BY <1>6, <1>t DEF PersistManifest, TaskOK, RouteKnown
  <2> QED BY <1>6, <1>p, <2>1, <2>2, MoveTypeInv DEF PersistManifest, TypeInv, TypeOK, ProbeInv, Exists
<1>7. CASE Activate(w)
  <2>1. PICK t \in Tasks : Goto(w, t) /\ TaskOK(w, t)
    BY <1>7, <1>p, FinishTask DEF Activate
  <2>2. proc[w].node \in Nodes
    BY <1>7, <1>t DEF Activate, TaskOK
  <2>3. nodeState' \in [Nodes -> NodeStates] /\ fresh' \in [Nodes -> BOOLEAN]
    BY <1>7, <2>2 DEF Activate, ProbeSucceeds, NodeStates, TypeInv, TypeOK
  <2> QED BY <1>7, <1>p, <2>1, <2>3, MoveTypeInv DEF Activate, TypeInv, TypeOK, ProbeInv, Exists
<1> QED BY <1>1, <1>2, <1>3, <1>4, <1>5, <1>6, <1>7 DEF WorkerStep

\* A step that changes nothing a coroutine relies on.
LEMMA StillTypeInv ==
  ASSUME TypeInv, UNCHANGED <<nodeLock, run, proc>>
  PROVE  RowInv' /\ ProcInv'
  BY DEF TypeInv, TypeOK, RowInv, ProcInv, TaskOK, Exists

\* What the sweep of probe_all does to the runs.
LEMMA MarkOfflineRuns ==
  ASSUME TypeInv, MarkOffline
  PROVE  /\ run' \in [Keys -> Rows]
         /\ \A k \in Keys : /\ Exists(k)' = Exists(k)
                            /\ run'[k].node = run[k].node /\ run'[k].body = run[k].body
                            /\ \/ run'[k] = run[k]
                               \/ /\ Exists(k)
                                  /\ run'[k].state = "node_lost" /\ run'[k].terminalAt
                                  /\ run'[k].nodeRunId = run[k].nodeRunId
<1> DEFINE dead == {n \in Nodes : nodeState[n] = "active" /\ ~fresh[n]}
           lost == {k \in Keys : IsActive(k) /\ run[k].node \in dead}
<1>1. \A k \in Keys : IsActive(k) => Exists(k)
  BY DEF IsActive, Exists, ACTIVE_RUN_STATES
<1>2. run' = [k \in Keys |-> IF k \in lost THEN WithState(k, "node_lost", run[k].nodeRunId, TRUE)
                                          ELSE run[k]]
  BY DEF MarkOffline
<1>3. \A k \in lost : LET row == WithState(k, "node_lost", run[k].nodeRunId, TRUE)
                      IN /\ row \in Rows /\ row.state = "node_lost" /\ row.terminalAt
                         /\ row.node = run[k].node /\ row.body = run[k].body
                         /\ row.nodeRunId = run[k].nodeRunId
  BY DEF WithState, Row, Rows, TERMINAL_RUN_STATES, TypeInv, TypeOK
<1>4. ASSUME NEW k \in Keys
      PROVE  /\ run'[k] \in Rows
             /\ Exists(k)' = Exists(k)
             /\ run'[k].node = run[k].node /\ run'[k].body = run[k].body
             /\ \/ run'[k] = run[k]
                \/ /\ Exists(k)
                   /\ run'[k].state = "node_lost" /\ run'[k].terminalAt
                   /\ run'[k].nodeRunId = run[k].nodeRunId
  <2>1. CASE k \in lost
    <3>1. run'[k] = WithState(k, "node_lost", run[k].nodeRunId, TRUE)
      BY <1>2, <2>1
    <3>2. Exists(k)
      BY <1>1, <2>1
    <3>3. run'[k].state = "node_lost"
      BY <1>3, <2>1, <3>1
    <3> QED BY <1>3, <2>1, <3>1, <3>2, <3>3 DEF Exists
  <2>2. CASE k \notin lost
    BY <1>2, <2>2 DEF Exists, TypeInv, TypeOK
  <2> QED BY <2>1, <2>2
<1>5. run' \in [Keys -> Rows]
  BY <1>2, <1>4
<1> QED BY <1>4, <1>5

LEMMA ProbeLoopTypeInv ==
  ASSUME TypeInv, ProbeLoop
  PROVE  TypeInv'
<1> USE DEF dbVars, limitVars, nodeVars, boundVars
<1>p. Prober \in Procs
  BY DEF Procs
<1>1. CASE ProcStep(Prober)
  BY <1>1, <1>p, ProcStepTypeInv
<1>2. CASE ProbeStart
  <2>1. probe' \in Rounds /\ ProbeInv'
    BY <1>2 DEF ProbeStart, Round, Rounds, ProbeInv
  <2> QED BY <1>2, <2>1, StillTypeInv DEF ProbeStart, TypeInv, TypeOK
<1>3. CASE MarkOffline
  <2>1. run' \in [Keys -> Rows] /\ RowInv' /\ \A k \in Keys : Exists(k)' = Exists(k)
    BY <1>3, MarkOfflineRuns DEF TypeInv, TypeOK, RowInv, Exists
  <2>2. ProcInv'
    BY <1>3, <2>1 DEF MarkOffline, TypeInv, TypeOK, ProcInv, TaskOK
  <2>3. PICK S \in SUBSET {j \in Keys : IsActive(j)} :
            probe' = Round("reconcile", {}, {<<k, run[k].nodeRunId>> : k \in S})
    BY <1>3 DEF MarkOffline
  <2>4. \A k \in S : k \in Keys /\ Exists(k) /\ run[k].nodeRunId \in BOOLEAN
    BY DEF IsActive, Exists, ACTIVE_RUN_STATES, TypeInv, TypeOK, Rows
  <2>5. probe' \in Rounds /\ ProbeInv'
    BY <2>1, <2>3, <2>4 DEF Round, Rounds, ProbeInv
  <2>6. nodeState' \in [Nodes -> NodeStates]
    BY <1>3 DEF MarkOffline, NodeStates, TypeInv, TypeOK
  <2> QED BY <1>3, <2>1, <2>2, <2>5, <2>6 DEF MarkOffline, TypeInv, TypeOK
<1>4. CASE ReconcileEnd
  <2>1. probe' \in Rounds /\ ProbeInv'
    BY <1>4 DEF ReconcileEnd, IdleProbe, Round, Rounds, ProbeInv
  <2> QED BY <1>4, <2>1, StillTypeInv DEF ReconcileEnd, TypeInv, TypeOK
<1>5. ASSUME NEW n \in Nodes, ProbeNode(n) PROVE TypeInv'
  <2>1. probe' \in Rounds /\ ProbeInv'
    BY <1>5 DEF ProbeNode, Round, Rounds, ProbeInv, TypeInv, TypeOK
  <2>2. nodeState' \in [Nodes -> NodeStates] /\ fresh' \in [Nodes -> BOOLEAN]
    BY <1>5 DEF ProbeNode, ProbeSucceeds, NodeStates, TypeInv, TypeOK
  <2> QED BY <1>5, <2>1, <2>2, StillTypeInv DEF ProbeNode, TypeInv, TypeOK
<1>6. ASSUME NEW k \in Keys, NEW known \in BOOLEAN, Reconcile(k, known) PROVE TypeInv'
  <2>1. Exists(k)
    BY <1>6 DEF Reconcile, TypeInv, ProbeInv
  <2>2. probe' \in Rounds /\ ProbeInv'
    BY <1>6 DEF Reconcile, Round, Rounds, ProbeInv, TypeInv, TypeOK, Exists
  <2>3. CASE UNCHANGED proc
    BY <1>6, <2>2, <2>3, StillTypeInv DEF Reconcile, TypeInv, TypeOK
  <2>4. CASE StatusCall(Prober, k) \/ Goto(Prober, Task("submit", k, None, None, <<>>, "none"))
    <3>1. PICK t \in Tasks : TaskOK(Prober, t) /\ Goto(Prober, t)
      <4> DEFINE u == Task("submit", k, None, None, <<>>, "none")
      <4>1. u \in Tasks /\ TaskOK(Prober, u)
        BY <1>p, <2>1, KeyTasks DEF RouteKnown
      <4> QED BY <1>p, <2>1, <2>4, <4>1, StatusTask
    <3> QED BY <1>6, <1>p, <2>2, <3>1, MoveTypeInv DEF Reconcile, TypeInv, TypeOK
  <2> QED BY <1>6, <2>3, <2>4 DEF Reconcile
<1> QED BY <1>1, <1>2, <1>3, <1>4, <1>5, <1>6 DEF ProbeLoop

LEMMA EnvironmentTypeInv ==
  ASSUME TypeInv, Environment
  PROVE  TypeInv'
<1> USE DEF dbVars, limitVars, nodeVars, boundVars
<1>p. UNCHANGED <<run, probe>> => ProbeInv'
  BY DEF TypeInv, ProbeInv, Exists
<1>1. ASSUME NEW n \in Nodes, HealthExpires(n) PROVE TypeInv'
  BY <1>1, <1>p, StillTypeInv, ConstantsAssumption DEF HealthExpires, Fault, TypeInv, TypeOK
<1>2. ASSUME NEW n \in Nodes, NodeCrash(n) PROVE TypeInv'
  <2> DEFINE f == [k \in Keys |-> IF nodeRun[n][k].status = "none"
                                  THEN nodeRun[n][k]
                                  ELSE NodeRec("gone", nodeRun[n][k].body, nodeRun[n][k].cancel)]
  <2>1. f \in [Keys -> NodeRecs]
    BY DEF NodeRec, NodeRecs, NodeStatuses, TypeInv, TypeOK
  <2> HIDE DEF f
  <2>2. nodeRun' = [nodeRun EXCEPT ![n] = f]
    BY <1>2 DEF NodeCrash, f
  <2>3. nodeRun' \in [Nodes -> [Keys -> NodeRecs]]
    BY <2>1, <2>2 DEF TypeInv, TypeOK
  <2> QED BY <1>2, <1>p, <2>3, StillTypeInv, ConstantsAssumption DEF NodeCrash, Fault, TypeInv, TypeOK
<1>3. ASSUME NEW n \in Nodes, NodeStart(n) PROVE TypeInv'
  BY <1>3, <1>p, StillTypeInv DEF NodeStart, TypeInv, TypeOK
<1>4. ASSUME NEW n \in Nodes, BootstrapNode(n) PROVE TypeInv'
  <2>1. nodeState' \in [Nodes -> NodeStates] /\ fresh' \in [Nodes -> BOOLEAN]
    BY <1>4 DEF BootstrapNode, ProbeSucceeds, NodeStates, TypeInv, TypeOK
  <2>2. slots' \in [Nodes -> Limits]
    BY <1>4, ConstantsAssumption DEF BootstrapNode, TypeInv, TypeOK
  <2> QED BY <1>4, <1>p, <2>1, <2>2, StillTypeInv DEF BootstrapNode, TypeInv, TypeOK
<1>5. ASSUME NEW n \in Nodes, NEW s \in {"draining", "disabled"}, SetNodeState(n, s) PROVE TypeInv'
  BY <1>5, <1>p, StillTypeInv, ConstantsAssumption DEF SetNodeState, Admin, NodeStates, TypeInv, TypeOK
<1>6. ASSUME NEW n \in Nodes, NEW k \in Keys, NodeStep(n, k) PROVE TypeInv'
  <2>1. PICK s \in {"running", "completed", "failed", "cancelled"} :
            SetNodeRun(n, k, NodeRec(s, nodeRun[n][k].body, nodeRun[n][k].cancel))
    BY <1>6 DEF NodeStep
  <2>2. NodeRec(s, nodeRun[n][k].body, nodeRun[n][k].cancel) \in NodeRecs
    BY DEF NodeRec, NodeRecs, NodeStatuses, TypeInv, TypeOK
  <2>3. nodeRun' \in [Nodes -> [Keys -> NodeRecs]]
    BY <2>1, <2>2, SetNodeRunType
  <2> QED BY <1>6, <1>p, <2>3, StillTypeInv DEF NodeStep, TypeInv, TypeOK
<1>7. CASE GatewayRestart
  <2>1. Idle \in Tasks /\ Idle.pc = "idle" /\ Done \in Tasks /\ Done.pc = "done"
    BY DEF Idle, Done, Task, Tasks, PCs
  <2>2. proc' \in [Procs -> Tasks] /\ \A p \in Procs : proc'[p].pc \in {"idle", "done"}
    BY <1>7, <2>1 DEF GatewayRestart
  <2>3. ProcInv'
    BY <2>2 DEF ProcInv, TaskOK, RouteKnown
  <2>4. probe' \in Rounds /\ ProbeInv'
    BY <1>7 DEF GatewayRestart, IdleProbe, Round, Rounds, ProbeInv
  <2>5. RowInv'
    BY <1>7 DEF GatewayRestart, TypeInv, RowInv, Exists
  <2> QED BY <1>7, <2>2, <2>3, <2>4, <2>5, ConstantsAssumption DEF GatewayRestart, Fault, TypeInv, TypeOK
<1> QED BY <1>1, <1>2, <1>3, <1>4, <1>5, <1>6, <1>7 DEF Environment

LEMMA NextTypeInv == TypeInv /\ [Next]_vars => TypeInv'
<1> SUFFICES ASSUME TypeInv, [Next]_vars PROVE TypeInv'
  OBVIOUS
<1>1. CASE UNCHANGED vars
  BY <1>1 DEF vars, dbVars, limitVars, nodeVars, boundVars, TypeInv, TypeOK, RowInv, ProcInv, TaskOK, ProbeInv, Exists
<1>2. CASE Next
  BY <1>2, RequestTypeInv, WorkerStepTypeInv, ProbeLoopTypeInv, EnvironmentTypeInv DEF Next
<1> QED BY <1>1, <1>2

\* Every variable keeps its type, and what a suspended coroutine remembers
\* (its key, its locked node, the answer it will save) stays meaningful, in
\* every reachable state of the gateway.
THEOREM TypeCorrect == Spec => []TypeOK
<1>1. TypeInv => TypeOK
  BY DEF TypeInv
<1> QED BY InitTypeInv, NextTypeInv, <1>1, PTL DEF Spec

----------------------------------------------------------------------------
(* Routes *)

\* A step keeps the route and request of every existing run.
KeepsRoutes ==
    \A k \in Keys : Exists(k) => /\ Exists(k)'
                                 /\ run'[k].node = run[k].node
                                 /\ run'[k].body = run[k].body

\* A step keeps what a node has accepted; it adds only what a route names.
KeepsNodes ==
    \A n \in Nodes, k \in Keys :
        /\ nodeRun[n][k].status # "none" => /\ nodeRun'[n][k].status # "none"
                                            /\ nodeRun'[n][k].body = nodeRun[n][k].body
        /\ nodeRun[n][k].status = "none" /\ nodeRun'[n][k].status # "none" =>
               Exists(k) /\ run[k].node = n /\ run[k].body = nodeRun'[n][k].body

\* A step sets node_run_id only by saving the answer to a create call.
IdFromAnswer ==
    \A k \in Keys : run'[k].nodeRunId => \/ run[k].nodeRunId
                                         \/ \E p \in Procs : /\ proc[p].pc = "saveCreate"
                                                             /\ proc[p].key = k
                                                             /\ Exists(k)

LEMMA SaveKeepsRoutes ==
  ASSUME TypeInv, NEW p \in Procs, NEW k \in Keys, Exists(k),
         NEW st \in ACTIVE_RUN_STATES \cup TERMINAL_RUN_STATES,
         NEW id \in BOOLEAN, NEW stamp \in BOOLEAN, SetRun(k, WithState(k, st, id, stamp)),
         id => run[k].nodeRunId \/ (proc[p].pc = "saveCreate" /\ proc[p].key = k)
  PROVE  KeepsRoutes /\ IdFromAnswer
<1>1. PICK row : row = WithState(k, st, id, stamp)
  OBVIOUS
<1>2. /\ row.state # "absent" /\ row.node = run[k].node /\ row.body = run[k].body
      /\ row.nodeRunId = id
  BY <1>1, WithStateRow
<1>3. run' = [run EXCEPT ![k] = row]
  BY <1>1 DEF SetRun
<1> QED BY <1>2, <1>3 DEF KeepsRoutes, IdFromAnswer, Exists, TypeInv, TypeOK

LEMMA RouteSteps ==
  ASSUME TypeInv, [Next]_vars
  PROVE  KeepsRoutes /\ IdFromAnswer
<1> USE DEF dbVars, limitVars, nodeVars, boundVars
<1>u. UNCHANGED run => KeepsRoutes /\ IdFromAnswer
  BY DEF KeepsRoutes, IdFromAnswer, Exists
<1>s. \A p \in Procs : proc[p].pc \in RouteKnown => proc[p].key \in Keys /\ Exists(proc[p].key)
  BY DEF TypeInv, ProcInv, TaskOK
<1>r. \A p \in Procs : proc[p].pc \in {"saveCreate", "saveStatus"} =>
        proc[p].reply \in ACTIVE_RUN_STATES \cup TERMINAL_RUN_STATES
  BY DEF TypeInv, ProcInv, TaskOK, ReplyStatuses, NodeStatuses, ACTIVE_RUN_STATES, TERMINAL_RUN_STATES
<1>i. \A k \in Keys : run[k].nodeRunId \in BOOLEAN
  BY DEF TypeInv, TypeOK, Rows
<1>1. ASSUME NEW w \in Workers, Request(w) PROVE KeepsRoutes /\ IdFromAnswer
  BY <1>1, <1>u DEF Request, Replay, ReserveRead, GetRun, CancelRun, Manifest, ActivateNode, UpsertNode
<1>2. ASSUME NEW p \in Procs, ProcStep(p) PROVE KeepsRoutes /\ IdFromAnswer
  <2>1. CASE SubmitKnown(p) \/ SubmitAccepted(p) \/ SubmitRejected(p) \/ SubmitUnavailable(p)
    BY <2>1, <1>u DEF SubmitKnown, SubmitAccepted, SubmitRejected, SubmitUnavailable
  <2>2. CASE SaveCreate(p)
    <3>1. CASE run[proc[p].key].nodeRunId
      BY <1>u, <2>2, <3>1 DEF SaveCreate
    <3>2. CASE ~run[proc[p].key].nodeRunId
      BY <1>s, <1>r, <2>2, <3>2, SaveKeepsRoutes DEF SaveCreate, RouteKnown
    <3> QED BY <3>1, <3>2
  <2>3. CASE SaveReject(p)
    BY <1>s, <1>i, <2>3, SaveKeepsRoutes DEF SaveReject, RouteKnown, TERMINAL_RUN_STATES
  <2>4. CASE SaveLost(p)
    BY <1>s, <1>i, <2>4, SaveKeepsRoutes DEF SaveLost, RouteKnown, TERMINAL_RUN_STATES
  <2>5. CASE SaveStatus(p)
    <3>1. (proc[p].reply \in TERMINAL_RUN_STATES) \in BOOLEAN
      OBVIOUS
    <3> QED BY <1>s, <1>i, <1>r, <2>5, <3>1, SaveKeepsRoutes DEF SaveStatus, RouteKnown
  <2> QED BY <1>2, <2>1, <2>2, <2>3, <2>4, <2>5 DEF ProcStep
<1>3. ASSUME NEW w \in Workers, WorkerStep(w) PROVE KeepsRoutes /\ IdFromAnswer
  <2>1. CASE ProcStep(w)
    BY <1>2, <2>1 DEF Procs
  <2>2. CASE ReserveInsert(w)
    <3>1. CASE Exists(proc[w].key)
      BY <1>u, <2>2, <3>1 DEF ReserveInsert
    <3>2. CASE ~Exists(proc[w].key)
      <4>1. PICK k, row : /\ k = proc[w].key
                          /\ row = Row("allocating", proc[w].node, proc[w].body, FALSE, FALSE)
        OBVIOUS
      <4>2. row.nodeRunId = FALSE
        BY <4>1 DEF Row
      <4>3. run' = [run EXCEPT ![k] = row] /\ ~Exists(k)
        BY <2>2, <3>2, <4>1 DEF ReserveInsert, SetRun
      <4>4. KeepsRoutes
        BY <4>3 DEF KeepsRoutes, Exists, TypeInv, TypeOK
      <4>5. IdFromAnswer
        BY <4>2, <4>3 DEF IdFromAnswer, TypeInv, TypeOK
      <4> QED BY <4>4, <4>5
    <3> QED BY <3>1, <3>2
  <2>3. CASE ReserveLock(w) \/ ReserveSkip(w) \/ ReserveExhausted(w) \/ PersistManifest(w) \/ Activate(w)
    BY <1>u, <2>3 DEF ReserveLock, ReserveSkip, ReserveExhausted, PersistManifest, Activate
  <2> QED BY <1>3, <2>1, <2>2, <2>3 DEF WorkerStep
<1>4. CASE ProbeLoop
  <2>1. CASE MarkOffline
    BY <2>1, MarkOfflineRuns DEF KeepsRoutes, IdFromAnswer
  <2> QED BY <1>2, <1>4, <1>u, <2>1
          DEF ProbeLoop, Procs, ProbeStart, ReconcileEnd, ProbeNode, Reconcile
<1>5. CASE Environment
  BY <1>5, <1>u DEF Environment, HealthExpires, NodeCrash, NodeStart, BootstrapNode,
     SetNodeState, NodeStep, GatewayRestart
<1>6. CASE UNCHANGED vars
  BY <1>6, <1>u DEF vars
<1> QED BY <1>1, <1>3, <1>4, <1>5, <1>6 DEF Next

\* The route of a run never changes: neither its node nor its request, by any
\* handler, retry, probe, operator request or restart.
THEOREM RouteIsSticky == Spec => StickyRoute
<1>1. TypeInv /\ [Next]_vars =>
        [\A k \in Keys : Exists(k) => run'[k].node = run[k].node /\ run'[k].body = run[k].body]_vars
  BY RouteSteps DEF KeepsRoutes
<1> QED BY <1>1, InitTypeInv, NextTypeInv, PTL DEF Spec, StickyRoute

----------------------------------------------------------------------------
(* What nodes execute *)

LEMMA SetNodeRunKeeps ==
  ASSUME TypeInv, NEW n \in Nodes, NEW k \in Keys, NEW rec, SetNodeRun(n, k, rec),
         rec.status # "none",
         \/ nodeRun[n][k].status # "none" /\ rec.body = nodeRun[n][k].body
         \/ nodeRun[n][k].status = "none" /\ Exists(k) /\ run[k].node = n /\ run[k].body = rec.body
  PROVE  KeepsNodes /\ nodeRun'[n][k].status # "none"
<1>1. nodeRun \in [Nodes -> [Keys -> NodeRecs]]
  BY DEF TypeInv, TypeOK
<1>2. PICK f : f = [nodeRun[n] EXCEPT ![k] = rec]
  OBVIOUS
<1>3. nodeRun' = [nodeRun EXCEPT ![n] = f]
  BY <1>2 DEF SetNodeRun
<1>4. f[k] = rec /\ \A j \in Keys \ {k} : f[j] = nodeRun[n][j]
  BY <1>1, <1>2
<1>5. nodeRun'[n] = f /\ \A m \in Nodes \ {n} : nodeRun'[m] = nodeRun[m]
  BY <1>1, <1>3
<1> QED BY <1>4, <1>5 DEF KeepsNodes

LEMMA AcceptKeeps ==
  ASSUME TypeInv, NEW k \in Keys, Exists(k), NodeAccept(run[k].node, k, run[k].body)
  PROVE  KeepsNodes /\ nodeRun'[run[k].node][k].status # "none"
<1>1. PICK n \in Nodes, b \in Bodies : n = run[k].node /\ b = run[k].body
  BY DEF TypeInv, RowInv
<1>2. CASE nodeRun[n][k].status = "none"
  <2>1. PICK rec : rec = NodeRec(CreateReply(b), b, FALSE)
    OBVIOUS
  <2>2. rec.status # "none" /\ rec.body = b
    BY <2>1 DEF NodeRec, CreateReply
  <2>3. SetNodeRun(n, k, rec)
    BY <1>1, <1>2, <2>1 DEF NodeAccept
  <2> QED BY <1>1, <1>2, <2>2, <2>3, SetNodeRunKeeps
<1>3. CASE nodeRun[n][k].status # "none"
  BY <1>1, <1>3 DEF NodeAccept, KeepsNodes
<1> QED BY <1>2, <1>3

LEMMA NodeSteps ==
  ASSUME TypeInv, [Next]_vars
  PROVE  KeepsNodes
<1> USE DEF dbVars, limitVars, nodeVars, boundVars
<1>u. UNCHANGED nodeRun => KeepsNodes
  BY DEF KeepsNodes
<1>1. ASSUME NEW w \in Workers, Request(w) PROVE KeepsNodes
  <2>1. ASSUME NEW k \in Keys, CancelRun(w, k) PROVE KeepsNodes
    <3>1. CASE nodeRun' = nodeRun
      BY <1>u, <3>1
    <3>2. CASE nodeRun' # nodeRun
      <4>1. PICK n \in Nodes : n = run[k].node
        BY <2>1 DEF CancelRun, TypeInv, RowInv
      <4>2. PICK rec : rec = NodeRec(nodeRun[n][k].status, nodeRun[n][k].body, TRUE)
        OBVIOUS
      <4>3. /\ nodeRun[n][k].status # "none"
            /\ SetNodeRun(n, k, rec)
        BY <2>1, <3>2, <4>1, <4>2 DEF CancelRun
      <4>4. rec.status = nodeRun[n][k].status /\ rec.body = nodeRun[n][k].body
        BY <4>2 DEF NodeRec
      <4> QED BY <4>3, <4>4, SetNodeRunKeeps
    <3> QED BY <3>1, <3>2
  <2> QED BY <1>1, <1>u, <2>1
          DEF Request, Replay, ReserveRead, GetRun, Manifest, ActivateNode, UpsertNode
<1>2. ASSUME NEW p \in Procs, ProcStep(p) PROVE KeepsNodes
  <2>1. proc[p].pc = "submit" => proc[p].key \in Keys /\ Exists(proc[p].key)
    BY DEF TypeInv, ProcInv, TaskOK, RouteKnown
  <2>2. CASE SubmitAccepted(p)
    BY <2>1, <2>2, AcceptKeeps DEF SubmitAccepted
  <2>3. CASE SubmitUnavailable(p)
    BY <1>u, <2>1, <2>3, AcceptKeeps DEF SubmitUnavailable
  <2> QED BY <1>2, <1>u, <2>2, <2>3
          DEF ProcStep, SubmitKnown, SubmitRejected, SaveCreate, SaveReject, SaveLost, SaveStatus
<1>3. ASSUME NEW w \in Workers, WorkerStep(w) PROVE KeepsNodes
  BY <1>2, <1>3, <1>u DEF Procs, WorkerStep, ReserveLock, ReserveSkip, ReserveExhausted,
     ReserveInsert, PersistManifest, Activate
<1>4. CASE ProbeLoop
  BY <1>2, <1>4, <1>u DEF ProbeLoop, Procs, ProbeStart, MarkOffline, ReconcileEnd, ProbeNode, Reconcile
<1>5. CASE Environment
  <2>1. ASSUME NEW n \in Nodes, NodeCrash(n) PROVE KeepsNodes
    <3>1. PICK f : f = [k \in Keys |->
                          IF nodeRun[n][k].status = "none"
                          THEN nodeRun[n][k]
                          ELSE NodeRec("gone", nodeRun[n][k].body, nodeRun[n][k].cancel)]
      OBVIOUS
    <3>2. nodeRun' = [nodeRun EXCEPT ![n] = f]
      BY <2>1, <3>1 DEF NodeCrash
    <3>3. \A k \in Keys : \/ nodeRun[n][k].status = "none" /\ f[k] = nodeRun[n][k]
                          \/ /\ nodeRun[n][k].status # "none"
                             /\ f[k].status = "gone" /\ f[k].body = nodeRun[n][k].body
      BY <3>1 DEF NodeRec
    <3>4. nodeRun'[n] = f /\ \A m \in Nodes \ {n} : nodeRun'[m] = nodeRun[m]
      BY <3>2 DEF TypeInv, TypeOK
    <3> QED BY <3>3, <3>4 DEF KeepsNodes
  <2>2. ASSUME NEW n \in Nodes, NEW k \in Keys, NodeStep(n, k) PROVE KeepsNodes
    <3>1. PICK st \in {"running", "completed", "failed", "cancelled"} :
              SetNodeRun(n, k, NodeRec(st, nodeRun[n][k].body, nodeRun[n][k].cancel))
      BY <2>2 DEF NodeStep
    <3>2. PICK rec : rec = NodeRec(st, nodeRun[n][k].body, nodeRun[n][k].cancel)
      OBVIOUS
    <3>3. rec.status # "none" /\ rec.body = nodeRun[n][k].body /\ SetNodeRun(n, k, rec)
      BY <3>1, <3>2 DEF NodeRec
    <3>4. nodeRun[n][k].status # "none"
      BY <2>2 DEF NodeStep
    <3> QED BY <3>3, <3>4, SetNodeRunKeeps
  <2> QED BY <1>5, <1>u, <2>1, <2>2
          DEF Environment, HealthExpires, NodeStart, BootstrapNode, SetNodeState, GatewayRestart
<1>6. CASE UNCHANGED vars
  BY <1>6, <1>u DEF vars
<1> QED BY <1>1, <1>3, <1>4, <1>5, <1>6 DEF Next

----------------------------------------------------------------------------
(* What a coroutine is about to submit or to save *)

\* A coroutine reaches saveCreate from submit, with the node's answer; it
\* reaches submit for the body its caller sent, or for no caller at all.
Moves ==
    \A p \in Procs :
        /\ proc'[p].pc = "saveCreate" =>
              \/ proc'[p] = proc[p]
              \/ /\ proc[p].pc = "submit"
                 /\ proc'[p].key = proc[p].key /\ proc'[p].body = proc[p].body
                 /\ nodeRun'[run[proc[p].key].node][proc[p].key].status # "none"
        /\ proc'[p].pc = "submit" =>
              \/ proc'[p] = proc[p]
              \/ proc'[p].body = None
              \/ run'[proc'[p].key].body = proc'[p].body

LEMMA OneMoves ==
  ASSUME TypeInv, NEW p \in Procs, NEW t, Goto(p, t),
         t.pc = "saveCreate" =>
              /\ proc[p].pc = "submit"
              /\ t.key = proc[p].key /\ t.body = proc[p].body
              /\ nodeRun'[run[proc[p].key].node][proc[p].key].status # "none",
         t.pc = "submit" => t.body = None \/ run'[t.key].body = t.body
  PROVE  Moves
<1>1. proc'[p] = t /\ \A q \in Procs \ {p} : proc'[q] = proc[q]
  BY DEF Goto, TypeInv, TypeOK
<1> QED BY <1>1 DEF Moves

LEMMA FinishMoves ==
  ASSUME TypeInv, NEW p \in Procs, Finish(p)
  PROVE  Moves
<1>1. PICK t \in Tasks : Goto(p, t) /\ t.pc \in {"idle", "done"}
  BY FinishTask
<1> QED BY <1>1, OneMoves

\* A move to a task that neither submits nor saves a create answer.
LEMMA OtherMoves ==
  ASSUME TypeInv, NEW p \in Procs, NEW pc, NEW k, NEW b, NEW n, NEW o, NEW r,
         Goto(p, Task(pc, k, b, n, o, r)),
         pc \notin {"submit", "saveCreate"}
  PROVE  Moves
<1>1. PICK t : t = Task(pc, k, b, n, o, r)
  OBVIOUS
<1>2. t.pc = pc
  BY <1>1 DEF Task
<1> QED BY <1>1, <1>2, OneMoves

LEMMA SubmitMoves ==
  ASSUME TypeInv, NEW p \in Procs, NEW k, NEW b,
         Goto(p, Task("submit", k, b, None, <<>>, "none")),
         b = None \/ run'[k].body = b
  PROVE  Moves
<1>1. PICK t : t = Task("submit", k, b, None, <<>>, "none")
  OBVIOUS
<1>2. t.pc = "submit" /\ t.key = k /\ t.body = b
  BY <1>1 DEF Task
<1> QED BY <1>1, <1>2, OneMoves

LEMMA StatusMoves ==
  ASSUME TypeInv, NEW p \in Procs, NEW k \in Keys, StatusCall(p, k)
  PROVE  Moves
BY OtherMoves DEF StatusCall

LEMMA ProcMoves ==
  ASSUME TypeInv, [Next]_vars
  PROVE  Moves
<1> USE DEF dbVars, limitVars, nodeVars, boundVars
<1>u. UNCHANGED proc => Moves
  BY DEF Moves
<1>1. ASSUME NEW w \in Workers, Request(w) PROVE Moves
  <2>w. w \in Procs
    BY DEF Procs
  <2>1. ASSUME NEW k \in Keys, NEW b \in Bodies, Replay(w, k, b) PROVE Moves
    BY <2>w, <2>1, SubmitMoves DEF Replay
  <2>2. ASSUME NEW k \in Keys, NEW b \in Bodies, ReserveRead(w, k, b) PROVE Moves
    BY <2>w, <2>2, OtherMoves DEF ReserveRead
  <2>3. ASSUME NEW k \in Keys, GetRun(w, k) PROVE Moves
    BY <2>w, <2>3, SubmitMoves, StatusMoves DEF GetRun
  <2>4. ASSUME NEW k \in Keys, CancelRun(w, k) PROVE Moves
    <3>1. CASE Finish(w)
      BY <2>w, <3>1, FinishMoves
    <3>2. CASE Goto(w, Task("saveLost", k, None, None, <<>>, "none"))
      BY <2>w, <3>2, OtherMoves
    <3> QED BY <2>4, <3>1, <3>2 DEF CancelRun
  <2>5. ASSUME NEW k \in Keys, Manifest(w, k) PROVE Moves
    BY <2>w, <2>5, OtherMoves DEF Manifest
  <2>6. ASSUME NEW n \in Nodes, ActivateNode(w, n) PROVE Moves
    BY <2>w, <2>6, OtherMoves DEF ActivateNode
  <2>7. ASSUME NEW n \in Nodes, NEW e \in BOOLEAN, NEW l \in SlotChoices, UpsertNode(w, n, e, l) PROVE Moves
    BY <2>w, <2>7, FinishMoves, OtherMoves DEF UpsertNode
  <2> QED BY <1>1, <2>1, <2>2, <2>3, <2>4, <2>5, <2>6, <2>7 DEF Request
<1>2. ASSUME NEW p \in Procs, ProcStep(p) PROVE Moves
  <2>1. CASE SubmitAccepted(p)
    <3>1. proc[p].pc = "submit" /\ proc[p].key \in Keys /\ Exists(proc[p].key)
      BY <2>1 DEF SubmitAccepted, TypeInv, ProcInv, TaskOK, RouteKnown
    <3>2. nodeRun'[run[proc[p].key].node][proc[p].key].status # "none"
      BY <2>1, <3>1, AcceptKeeps DEF SubmitAccepted
    <3>3. PICK t : t = Task("saveCreate", proc[p].key, proc[p].body, None, <<>>,
                            CreateReply(run[proc[p].key].body))
      OBVIOUS
    <3>4. t.pc = "saveCreate" /\ t.key = proc[p].key /\ t.body = proc[p].body /\ Goto(p, t)
      BY <2>1, <3>3 DEF SubmitAccepted, Task
    <3> QED BY <3>1, <3>2, <3>4, OneMoves
  <2>2. CASE SubmitRejected(p)
    BY <2>2, OtherMoves DEF SubmitRejected
  <2> QED BY <1>2, <2>1, <2>2, FinishMoves
          DEF ProcStep, SubmitKnown, SubmitUnavailable, SaveCreate, SaveReject, SaveLost, SaveStatus
<1>3. ASSUME NEW w \in Workers, WorkerStep(w) PROVE Moves
  <2>w. w \in Procs
    BY DEF Procs
  <2>1. CASE ReserveInsert(w)
    <3>1. CASE Exists(proc[w].key)
      BY <2>w, <2>1, <3>1, FinishMoves DEF ReserveInsert
    <3>2. CASE ~Exists(proc[w].key)
      <4>1. PICK k, b, row : /\ k = proc[w].key /\ b = proc[w].body
                             /\ row = Row("allocating", proc[w].node, b, FALSE, FALSE)
        OBVIOUS
      <4>2. k \in Keys /\ row.body = b
        BY <2>w, <2>1, <4>1 DEF ReserveInsert, TypeInv, ProcInv, TaskOK, Row
      <4>3. run' = [run EXCEPT ![k] = row] /\ Goto(w, Task("submit", k, b, None, <<>>, "none"))
        BY <2>1, <3>2, <4>1 DEF ReserveInsert, SetRun
      <4>4. run'[k].body = b
        BY <4>2, <4>3 DEF TypeInv, TypeOK
      <4> QED BY <2>w, <4>3, <4>4, SubmitMoves
    <3> QED BY <3>1, <3>2
  <2>2. CASE ReserveLock(w)
    BY <2>w, <2>2, OtherMoves DEF ReserveLock
  <2>3. CASE ReserveSkip(w)
    BY <2>w, <2>3, OtherMoves DEF ReserveSkip
  <2>4. CASE ReserveExhausted(w) \/ PersistManifest(w) \/ Activate(w)
    BY <2>w, <2>4, FinishMoves DEF ReserveExhausted, PersistManifest, Activate
  <2> QED BY <1>2, <1>3, <2>w, <2>1, <2>2, <2>3, <2>4 DEF WorkerStep
<1>4. CASE ProbeLoop
  <2>p. Prober \in Procs
    BY DEF Procs
  <2>1. ASSUME NEW k \in Keys, NEW known \in BOOLEAN, Reconcile(k, known) PROVE Moves
    BY <1>u, <2>p, <2>1, SubmitMoves, StatusMoves DEF Reconcile
  <2> QED BY <1>2, <1>4, <1>u, <2>p, <2>1
          DEF ProbeLoop, ProbeStart, MarkOffline, ReconcileEnd, ProbeNode
<1>5. CASE Environment
  <2>1. CASE GatewayRestart
    <3>1. Idle.pc = "idle" /\ Done.pc = "done"
      BY DEF Idle, Done, Task
    <3> QED BY <2>1, <3>1 DEF GatewayRestart, Moves
  <2> QED BY <1>5, <1>u, <2>1
          DEF Environment, HealthExpires, NodeCrash, NodeStart, BootstrapNode, SetNodeState, NodeStep
<1>6. CASE UNCHANGED vars
  BY <1>6, <1>u DEF vars
<1> QED BY <1>1, <1>3, <1>4, <1>5, <1>6 DEF Next

----------------------------------------------------------------------------
(* Single execution *)

LEMMA InitRouteInv == Init => RouteInv
<1> SUFFICES ASSUME Init PROVE RouteInv
  OBVIOUS
<1>1. NoNodeRun.status = "none" /\ NoRow.nodeRunId = FALSE /\ Idle.pc = "idle"
  BY DEF NoNodeRun, NodeRec, NoRow, Row, Idle, Task
<1>2. /\ \A n \in Nodes, k \in Keys : nodeRun[n][k] = NoNodeRun
      /\ \A k \in Keys : run[k] = NoRow
      /\ \A p \in Procs : proc[p] = Idle
  BY DEF Init
<1> QED BY <1>1, <1>2 DEF RouteInv, SingleExecution, RecordedRunIsReal, AnswerInv,
           CallerSubmitsItsBody, Procs

LEMMA NextRouteInv ==
  ASSUME TypeInv, TypeInv', RouteInv, [Next]_vars
  PROVE  RouteInv'
<1>1. KeepsRoutes /\ IdFromAnswer /\ KeepsNodes /\ Moves
  BY RouteSteps, NodeSteps, ProcMoves
<1>2. \A p \in Procs : proc[p].pc \in RouteKnown => proc[p].key \in Keys /\ Exists(proc[p].key)
  BY DEF TypeInv, ProcInv, TaskOK
<1>3. \A k \in Keys : Exists(k) => run[k].node \in Nodes
  BY DEF TypeInv, RowInv
<1>4. SingleExecution'
  BY <1>1 DEF RouteInv, SingleExecution, KeepsRoutes, KeepsNodes
<1>5. \A k \in Keys : run[k].nodeRunId => Exists(k)
  BY DEF TypeInv, RowInv, NoRow, Row
<1>6. RecordedRunIsReal'
  <2> SUFFICES ASSUME NEW k \in Keys, run'[k].nodeRunId
               PROVE  nodeRun'[run'[k].node][k].status # "none"
    BY DEF RecordedRunIsReal
  <2>1. Exists(k) /\ nodeRun[run[k].node][k].status # "none"
    BY <1>1, <1>5 DEF IdFromAnswer, RouteInv, RecordedRunIsReal, AnswerInv
  <2> QED BY <1>1, <1>3, <2>1 DEF KeepsRoutes, KeepsNodes
<1>7. AnswerInv'
  <2> SUFFICES ASSUME NEW p \in Procs, proc'[p].pc = "saveCreate"
               PROVE  nodeRun'[run'[proc'[p].key].node][proc'[p].key].status # "none"
    BY DEF AnswerInv
  <2>1. CASE proc'[p] = proc[p]
    <3>1. proc[p].key \in Keys /\ Exists(proc[p].key)
      BY <1>2, <2>1 DEF RouteKnown
    <3>2. nodeRun[run[proc[p].key].node][proc[p].key].status # "none"
      BY <2>1 DEF RouteInv, AnswerInv
    <3> QED BY <1>1, <1>3, <2>1, <3>1, <3>2 DEF KeepsRoutes, KeepsNodes
  <2>2. CASE proc'[p] # proc[p]
    <3>1. proc[p].key \in Keys /\ Exists(proc[p].key)
      BY <1>1, <1>2, <2>2 DEF RouteKnown, Moves
    <3> QED BY <1>1, <2>2, <3>1 DEF Moves, KeepsRoutes
  <2> QED BY <2>1, <2>2
<1>8. CallerSubmitsItsBody'
  <2> SUFFICES ASSUME NEW w \in Workers, proc'[w].pc \in {"submit", "saveCreate"},
                      proc'[w].body # None
               PROVE  run'[proc'[w].key].body = proc'[w].body
    BY DEF CallerSubmitsItsBody
  <2>w. w \in Procs
    BY DEF Procs
  <2>1. CASE proc'[w] = proc[w]
    <3>1. proc[w].key \in Keys /\ Exists(proc[w].key)
      BY <1>2, <2>w, <2>1 DEF RouteKnown
    <3> QED BY <1>1, <2>1, <3>1 DEF KeepsRoutes, RouteInv, CallerSubmitsItsBody
  <2>2. CASE proc'[w] # proc[w] /\ proc'[w].pc = "submit"
    BY <1>1, <2>w, <2>2 DEF Moves
  <2>3. CASE proc'[w] # proc[w] /\ proc'[w].pc = "saveCreate"
    <3>1. proc[w].pc = "submit" /\ proc'[w].key = proc[w].key /\ proc'[w].body = proc[w].body
      BY <1>1, <2>w, <2>3 DEF Moves
    <3>2. proc[w].key \in Keys /\ Exists(proc[w].key)
      BY <1>2, <2>w, <3>1 DEF RouteKnown
    <3> QED BY <1>1, <3>1, <3>2 DEF KeepsRoutes, RouteInv, CallerSubmitsItsBody
  <2> QED BY <2>1, <2>2, <2>3
<1> QED BY <1>4, <1>6, <1>7, <1>8 DEF RouteInv

LEMMA RouteInvHolds == Spec => [](TypeInv /\ RouteInv)
<1>1. Init => TypeInv /\ RouteInv
  BY InitTypeInv, InitRouteInv
<1>2. TypeInv /\ RouteInv /\ [Next]_vars => (TypeInv /\ RouteInv)'
  BY NextTypeInv, NextRouteInv
<1> QED BY <1>1, <1>2, PTL DEF Spec

\* Whatever is lost, retried, restarted or sent concurrently, a key is
\* executed by no node but the one its committed route names, and with the
\* body stored in that route.
THEOREM KeyRunsOnOneNode == Spec => []SingleExecution
<1>1. TypeInv /\ RouteInv => SingleExecution
  BY DEF RouteInv
<1> QED BY RouteInvHolds, <1>1, PTL

\* The gateway never records a node run that its node did not accept.
THEOREM RecordedRunsExist == Spec => []RecordedRunIsReal
<1>1. TypeInv /\ RouteInv => RecordedRunIsReal
  BY DEF RouteInv
<1> QED BY RouteInvHolds, <1>1, PTL

\* A create request never submits another caller's body under its key.
THEOREM CallersAreServedTheirBody == Spec => []CallerSubmitsItsBody
<1>1. TypeInv /\ RouteInv => CallerSubmitsItsBody
  BY DEF RouteInv
<1> QED BY RouteInvHolds, <1>1, PTL

----------------------------------------------------------------------------
(* What a step does to a row, to a node's run and to a coroutine *)

\* A locked reservation that finds its key free inserts the route.
Inserts ==
    \E w \in Workers :
        /\ proc[w].pc = "insert" /\ proc'[w].pc # "insert" /\ ~Exists(proc[w].key)
        /\ run' = [run EXCEPT ![proc[w].key] =
                      Row("allocating", proc[w].node, proc[w].body, FALSE, FALSE)]

\* Every other write of a row: a loss, or the answer one coroutine saves.
Saves(p, k) ==
    /\ proc[p].key = k
    /\ \/ /\ proc[p].pc = "saveCreate"
          /\ run'[k].state = proc[p].reply /\ run'[k].terminalAt = run[k].terminalAt
       \/ /\ proc[p].pc = "saveReject"
          /\ run'[k].state = "failed" /\ run'[k].terminalAt
       \/ /\ proc[p].pc = "saveStatus"
          /\ run'[k].state = proc[p].reply
          /\ run'[k].terminalAt = (run[k].terminalAt \/ proc[p].reply \in TERMINAL_RUN_STATES)
RowMove(k) ==
    \/ run'[k] = run[k]
    \/ Exists(k) /\ run'[k].state = "node_lost" /\ run'[k].terminalAt
    \/ Exists(k) /\ \E p \in Procs : Saves(p, k)
RunStep == Inserts \/ \A k \in Keys : RowMove(k)

\* A node's run is accepted unless the node rejects its body, goes from queued
\* or running to what the node reports, and is gone after a crash.
NodeMove(n, k) ==
    LET s == nodeRun[n][k].status
        t == nodeRun'[n][k].status IN
    \/ t = s
    \/ s # "none" /\ t = "gone"
    \/ s \in {"queued", "running"} /\ t \in {"running", "completed", "failed", "cancelled"}
    \/ /\ s = "none" /\ t = CreateReply(nodeRun'[n][k].body)
       /\ nodeRun'[n][k].body \notin Rejects[n]
NodeStatusStep == \A n \in Nodes, k \in Keys : NodeMove(n, k)

\* What a coroutine that goes on has learnt.
StatusOf(k) == nodeRun[run[k].node][k].status
NewStatusOf(k) == nodeRun'[run'[k].node][k].status
Learns(p) ==
    LET t == proc'[p] IN
    \/ t = proc[p]
    \/ t.pc \notin {"insert", "saveCreate", "saveReject", "saveStatus", "persist"}
    \/ /\ t.pc = "insert" /\ HasRoom(t.node, t.body, limitsRead[p]) /\ UNCHANGED <<run, limitsRead>>
    \/ /\ t.pc = "saveCreate" /\ t.key \in Keys /\ Exists(t.key)
       /\ t.reply = CreateReply(run[t.key].body)
    \/ /\ t.pc = "saveReject" /\ t.key \in Keys /\ Exists(t.key)
       /\ run[t.key].body \in Rejects[run[t.key].node]
    \/ /\ t.pc = "saveStatus" /\ t.key \in Keys /\ Exists(t.key)
       /\ t.reply = StatusOf(t.key) /\ UNCHANGED nodeRun
    \/ /\ t.pc = "persist" /\ t.key \in Keys /\ Exists(t.key)
       /\ StatusOf(t.key) = "completed" /\ UNCHANGED nodeRun
LearnStep == \A p \in Procs : Learns(p)

ArtifactStep ==
    \A k \in artifacts' : k \in artifacts \/ \E p \in Procs : proc[p].pc = "persist" /\ proc[p].key = k

LEMMA SaveRunStep ==
  ASSUME TypeInv, NEW p \in Procs, proc[p].pc \in RouteKnown, NEW k, k = proc[p].key,
         NEW st \in ACTIVE_RUN_STATES \cup TERMINAL_RUN_STATES,
         NEW id \in BOOLEAN, NEW stamp \in BOOLEAN, SetRun(k, WithState(k, st, id, stamp)),
         \/ proc[p].pc = "saveCreate" /\ st = proc[p].reply /\ stamp = FALSE
         \/ proc[p].pc = "saveReject" /\ st = "failed" /\ stamp = TRUE
         \/ proc[p].pc = "saveStatus" /\ st = proc[p].reply /\ stamp = (st \in TERMINAL_RUN_STATES)
         \/ st = "node_lost" /\ stamp = TRUE
  PROVE  RunStep
<1>1. k \in Keys /\ Exists(k)
  BY DEF TypeInv, ProcInv, TaskOK
<1>2. PICK row : row = WithState(k, st, id, stamp)
  OBVIOUS
<1>3. row.state = st /\ row.terminalAt = (run[k].terminalAt \/ stamp)
  BY <1>1, <1>2, WithStateRow
<1>4. run' = [run EXCEPT ![k] = row]
  BY <1>2 DEF SetRun
<1>5. run'[k] = row /\ \A j \in Keys \ {k} : run'[j] = run[j]
  BY <1>1, <1>4 DEF TypeInv, TypeOK
<1>6. run[k].terminalAt \in BOOLEAN
  BY <1>1 DEF TypeInv, TypeOK, Rows
<1>7. RowMove(k)
  BY <1>1, <1>3, <1>5, <1>6 DEF RowMove, Saves
<1> QED BY <1>5, <1>7 DEF RunStep, RowMove

LEMMA RunSteps ==
  ASSUME TypeInv, [Next]_vars
  PROVE  RunStep
<1> USE DEF dbVars, limitVars, nodeVars, boundVars
<1>u. UNCHANGED run => RunStep
  BY DEF RunStep, RowMove
<1>r. \A p \in Procs : proc[p].pc \in {"saveCreate", "saveStatus"} =>
        proc[p].reply \in ACTIVE_RUN_STATES \cup TERMINAL_RUN_STATES
  BY DEF TypeInv, ProcInv, TaskOK, ReplyStatuses, NodeStatuses, ACTIVE_RUN_STATES, TERMINAL_RUN_STATES
<1>i. \A p \in Procs : proc[p].pc \in RouteKnown => run[proc[p].key].nodeRunId \in BOOLEAN
  BY DEF TypeInv, ProcInv, TaskOK, TypeOK, Rows
<1>1. ASSUME NEW w \in Workers, Request(w) PROVE RunStep
  BY <1>1, <1>u DEF Request, Replay, ReserveRead, GetRun, CancelRun, Manifest, ActivateNode, UpsertNode
<1>2. ASSUME NEW p \in Procs, ProcStep(p) PROVE RunStep
  <2>1. CASE SubmitKnown(p) \/ SubmitAccepted(p) \/ SubmitRejected(p) \/ SubmitUnavailable(p)
    BY <2>1, <1>u DEF SubmitKnown, SubmitAccepted, SubmitRejected, SubmitUnavailable
  <2>2. CASE SaveCreate(p)
    <3>1. CASE run[proc[p].key].nodeRunId
      BY <1>u, <2>2, <3>1 DEF SaveCreate
    <3>2. CASE ~run[proc[p].key].nodeRunId
      BY <1>r, <2>2, <3>2, SaveRunStep DEF SaveCreate, RouteKnown
    <3> QED BY <3>1, <3>2
  <2>3. CASE SaveReject(p)
    BY <1>i, <2>3, SaveRunStep DEF SaveReject, RouteKnown, TERMINAL_RUN_STATES
  <2>4. CASE SaveLost(p)
    BY <1>i, <2>4, SaveRunStep DEF SaveLost, RouteKnown, TERMINAL_RUN_STATES
  <2>5. CASE SaveStatus(p)
    <3>1. (proc[p].reply \in TERMINAL_RUN_STATES) \in BOOLEAN
      OBVIOUS
    <3> QED BY <1>i, <1>r, <2>5, <3>1, SaveRunStep DEF SaveStatus, RouteKnown
  <2> QED BY <1>2, <2>1, <2>2, <2>3, <2>4, <2>5 DEF ProcStep
<1>3. ASSUME NEW w \in Workers, WorkerStep(w) PROVE RunStep
  <2>1. CASE ProcStep(w)
    BY <1>2, <2>1 DEF Procs
  <2>2. CASE ReserveInsert(w)
    <3>1. CASE Exists(proc[w].key)
      BY <1>u, <2>2, <3>1 DEF ReserveInsert
    <3>2. CASE ~Exists(proc[w].key)
      <4>1. PICK t : t = Task("submit", proc[w].key, proc[w].body, None, <<>>, "none")
        OBVIOUS
      <4>2. t.pc = "submit" /\ Goto(w, t)
        BY <2>2, <3>2, <4>1 DEF ReserveInsert, Task
      <4>3. proc'[w].pc # "insert"
        BY <4>2 DEF Goto, TypeInv, TypeOK, Procs
      <4> QED BY <2>2, <3>2, <4>3 DEF ReserveInsert, SetRun, RunStep, Inserts
    <3> QED BY <3>1, <3>2
  <2>3. CASE ReserveLock(w) \/ ReserveSkip(w) \/ ReserveExhausted(w) \/ PersistManifest(w) \/ Activate(w)
    BY <1>u, <2>3 DEF ReserveLock, ReserveSkip, ReserveExhausted, PersistManifest, Activate
  <2> QED BY <1>3, <2>1, <2>2, <2>3 DEF WorkerStep
<1>4. CASE ProbeLoop
  <2>1. CASE MarkOffline
    <3>1. \A k \in Keys : \/ run'[k] = run[k]
                          \/ Exists(k) /\ run'[k].state = "node_lost" /\ run'[k].terminalAt
      BY <2>1, MarkOfflineRuns
    <3> QED BY <3>1 DEF RunStep, RowMove
  <2> QED BY <1>2, <1>4, <1>u, <2>1
          DEF ProbeLoop, Procs, ProbeStart, ReconcileEnd, ProbeNode, Reconcile
<1>5. CASE Environment
  BY <1>5, <1>u DEF Environment, HealthExpires, NodeCrash, NodeStart, BootstrapNode,
     SetNodeState, NodeStep, GatewayRestart
<1>6. CASE UNCHANGED vars
  BY <1>6, <1>u DEF vars
<1> QED BY <1>1, <1>3, <1>4, <1>5, <1>6 DEF Next

----------------------------------------------------------------------------
\* One run of one node is replaced.
LEMMA SetNodeRunMoves ==
  ASSUME TypeInv, NEW n \in Nodes, NEW k \in Keys, NEW st, NEW b, NEW c,
         SetNodeRun(n, k, NodeRec(st, b, c)),
         LET s == nodeRun[n][k].status IN
         \/ st = s
         \/ s # "none" /\ st = "gone"
         \/ s \in {"queued", "running"} /\ st \in {"running", "completed", "failed", "cancelled"}
         \/ s = "none" /\ st = CreateReply(b) /\ b \notin Rejects[n]
  PROVE  NodeStatusStep
<1>1. nodeRun \in [Nodes -> [Keys -> NodeRecs]]
  BY DEF TypeInv, TypeOK
<1>2. PICK rec : rec = NodeRec(st, b, c)
  OBVIOUS
<1>3. rec.status = st /\ rec.body = b
  BY <1>2 DEF NodeRec
<1>4. PICK f : f = [nodeRun[n] EXCEPT ![k] = rec]
  OBVIOUS
<1>5. nodeRun' = [nodeRun EXCEPT ![n] = f]
  BY <1>2, <1>4 DEF SetNodeRun
<1>6. f[k] = rec /\ \A j \in Keys \ {k} : f[j] = nodeRun[n][j]
  BY <1>1, <1>4
<1>7. nodeRun'[n] = f /\ \A m \in Nodes \ {n} : nodeRun'[m] = nodeRun[m]
  BY <1>1, <1>5
<1>8. NodeMove(n, k)
  BY <1>3, <1>6, <1>7 DEF NodeMove
<1>9. ASSUME NEW m \in Nodes, NEW j \in Keys, m # n \/ j # k PROVE NodeMove(m, j)
  BY <1>6, <1>7, <1>9 DEF NodeMove
<1> QED BY <1>8, <1>9 DEF NodeStatusStep

LEMMA AcceptMoves ==
  ASSUME TypeInv, NEW n \in Nodes, NEW k \in Keys, NEW b, b \notin Rejects[n], NodeAccept(n, k, b)
  PROVE  NodeStatusStep
<1>1. CASE nodeRun[n][k].status = "none"
  <2>1. SetNodeRun(n, k, NodeRec(CreateReply(b), b, FALSE))
    BY <1>1 DEF NodeAccept
  <2> QED BY <1>1, <2>1, SetNodeRunMoves
<1>2. CASE nodeRun[n][k].status # "none"
  BY <1>2 DEF NodeAccept, NodeStatusStep, NodeMove
<1> QED BY <1>1, <1>2

LEMMA NodeStatusSteps ==
  ASSUME TypeInv, [Next]_vars
  PROVE  NodeStatusStep
<1> USE DEF dbVars, limitVars, nodeVars, boundVars
<1>u. UNCHANGED nodeRun => NodeStatusStep
  BY DEF NodeStatusStep, NodeMove
<1>1. ASSUME NEW w \in Workers, Request(w) PROVE NodeStatusStep
  <2>1. ASSUME NEW k \in Keys, CancelRun(w, k) PROVE NodeStatusStep
    <3>1. CASE nodeRun' = nodeRun
      BY <1>u, <3>1
    <3>2. CASE nodeRun' # nodeRun
      <4>1. PICK n \in Nodes : n = run[k].node
        BY <2>1 DEF CancelRun, TypeInv, RowInv
      <4>2. SetNodeRun(n, k, NodeRec(nodeRun[n][k].status, nodeRun[n][k].body, TRUE))
        BY <2>1, <3>2, <4>1 DEF CancelRun
      <4> QED BY <4>2, SetNodeRunMoves
    <3> QED BY <3>1, <3>2
  <2> QED BY <1>1, <1>u, <2>1
          DEF Request, Replay, ReserveRead, GetRun, Manifest, ActivateNode, UpsertNode
<1>2. ASSUME NEW p \in Procs, ProcStep(p) PROVE NodeStatusStep
  <2>1. proc[p].pc = "submit" => /\ proc[p].key \in Keys
                                 /\ run[proc[p].key].node \in Nodes
    BY DEF TypeInv, ProcInv, TaskOK, RouteKnown, RowInv
  <2>2. CASE SubmitAccepted(p)
    BY <2>1, <2>2, AcceptMoves DEF SubmitAccepted
  <2>3. CASE SubmitUnavailable(p)
    BY <1>u, <2>1, <2>3, AcceptMoves DEF SubmitUnavailable
  <2> QED BY <1>2, <1>u, <2>2, <2>3
          DEF ProcStep, SubmitKnown, SubmitRejected, SaveCreate, SaveReject, SaveLost, SaveStatus
<1>3. ASSUME NEW w \in Workers, WorkerStep(w) PROVE NodeStatusStep
  BY <1>2, <1>3, <1>u DEF Procs, WorkerStep, ReserveLock, ReserveSkip, ReserveExhausted,
     ReserveInsert, PersistManifest, Activate
<1>4. CASE ProbeLoop
  BY <1>2, <1>4, <1>u DEF ProbeLoop, Procs, ProbeStart, MarkOffline, ReconcileEnd, ProbeNode, Reconcile
<1>5. CASE Environment
  <2>1. ASSUME NEW n \in Nodes, NodeCrash(n) PROVE NodeStatusStep
    <3>1. PICK f : f = [k \in Keys |->
                          IF nodeRun[n][k].status = "none"
                          THEN nodeRun[n][k]
                          ELSE NodeRec("gone", nodeRun[n][k].body, nodeRun[n][k].cancel)]
      OBVIOUS
    <3>2. nodeRun' = [nodeRun EXCEPT ![n] = f]
      BY <2>1, <3>1 DEF NodeCrash
    <3>3. \A k \in Keys : \/ nodeRun[n][k].status = "none" /\ f[k] = nodeRun[n][k]
                          \/ nodeRun[n][k].status # "none" /\ f[k].status = "gone"
      BY <3>1 DEF NodeRec
    <3>4. nodeRun'[n] = f /\ \A m \in Nodes \ {n} : nodeRun'[m] = nodeRun[m]
      BY <3>2 DEF TypeInv, TypeOK
    <3> QED BY <3>3, <3>4 DEF NodeStatusStep, NodeMove
  <2>2. ASSUME NEW n \in Nodes, NEW k \in Keys, NodeStep(n, k) PROVE NodeStatusStep
    <3>1. PICK st \in {"running", "completed", "failed", "cancelled"} :
              SetNodeRun(n, k, NodeRec(st, nodeRun[n][k].body, nodeRun[n][k].cancel))
      BY <2>2 DEF NodeStep
    <3>2. nodeRun[n][k].status \in {"queued", "running"}
      BY <2>2 DEF NodeStep
    <3> QED BY <3>1, <3>2, SetNodeRunMoves
  <2> QED BY <1>5, <1>u, <2>1, <2>2
          DEF Environment, HealthExpires, NodeStart, BootstrapNode, SetNodeState, GatewayRestart
<1>6. CASE UNCHANGED vars
  BY <1>6, <1>u DEF vars
<1> QED BY <1>1, <1>3, <1>4, <1>5, <1>6 DEF Next

----------------------------------------------------------------------------
\* A move to another task; what it learnt is its own obligation.
LEMMA OneLearns ==
  ASSUME TypeInv, NEW p \in Procs, NEW t, Goto(p, t),
         \/ t.pc \notin {"insert", "saveCreate", "saveReject", "saveStatus", "persist"}
         \/ t.pc = "insert" /\ HasRoom(t.node, t.body, limitsRead[p]) /\ UNCHANGED <<run, limitsRead>>
         \/ /\ t.pc = "saveCreate" /\ t.key \in Keys /\ Exists(t.key)
            /\ t.reply = CreateReply(run[t.key].body)
         \/ /\ t.pc = "saveReject" /\ t.key \in Keys /\ Exists(t.key)
            /\ run[t.key].body \in Rejects[run[t.key].node]
         \/ /\ t.pc = "saveStatus" /\ t.key \in Keys /\ Exists(t.key)
            /\ t.reply = StatusOf(t.key) /\ UNCHANGED nodeRun
         \/ /\ t.pc = "persist" /\ t.key \in Keys /\ Exists(t.key)
            /\ StatusOf(t.key) = "completed" /\ UNCHANGED nodeRun
  PROVE  LearnStep
<1>1. proc'[p] = t /\ \A q \in Procs \ {p} : proc'[q] = proc[q]
  BY DEF Goto, TypeInv, TypeOK
<1>2. Learns(p)
  BY <1>1 DEF Learns
<1>3. \A q \in Procs \ {p} : Learns(q)
  BY <1>1 DEF Learns
<1> QED BY <1>2, <1>3 DEF LearnStep

LEMMA FinishLearns ==
  ASSUME TypeInv, NEW p \in Procs, Finish(p)
  PROVE  LearnStep
<1>1. PICK t \in Tasks : Goto(p, t) /\ t.pc \in {"idle", "done"}
  BY FinishTask
<1> QED BY <1>1, OneLearns

LEMMA OtherLearns ==
  ASSUME TypeInv, NEW p \in Procs, NEW pc, NEW k, NEW b, NEW n, NEW o, NEW r,
         Goto(p, Task(pc, k, b, n, o, r)),
         pc \notin {"insert", "saveCreate", "saveReject", "saveStatus", "persist"}
  PROVE  LearnStep
<1>1. PICK t : t = Task(pc, k, b, n, o, r)
  OBVIOUS
<1>2. t.pc = pc
  BY <1>1 DEF Task
<1> QED BY <1>1, <1>2, OneLearns

LEMMA StatusLearns ==
  ASSUME TypeInv, NEW p \in Procs, NEW k \in Keys, Exists(k), StatusCall(p, k), UNCHANGED nodeRun
  PROVE  LearnStep
<1>1. CASE Goto(p, Task("saveLost", k, None, None, <<>>, "none"))
  BY <1>1, OtherLearns
<1>2. CASE Goto(p, Task("saveStatus", k, None, None, <<>>, StatusOf(k)))
  <2>1. PICK t : t = Task("saveStatus", k, None, None, <<>>, StatusOf(k))
    OBVIOUS
  <2>2. t.pc = "saveStatus" /\ t.key = k /\ t.reply = StatusOf(k)
    BY <2>1 DEF Task
  <2> QED BY <1>2, <2>1, <2>2, OneLearns
<1> QED BY <1>1, <1>2 DEF StatusCall, StatusOf

LEMMA LearnSteps ==
  ASSUME TypeInv, [Next]_vars
  PROVE  LearnStep
<1> USE DEF dbVars, limitVars, nodeVars, boundVars
<1>u. UNCHANGED proc => LearnStep
  BY DEF LearnStep, Learns
<1>1. ASSUME NEW w \in Workers, Request(w) PROVE LearnStep
  <2>w. w \in Procs
    BY DEF Procs
  <2>1. ASSUME NEW k \in Keys, NEW b \in Bodies, Replay(w, k, b) \/ ReserveRead(w, k, b) PROVE LearnStep
    BY <2>w, <2>1, OtherLearns DEF Replay, ReserveRead
  <2>3. ASSUME NEW k \in Keys, GetRun(w, k) PROVE LearnStep
    BY <2>w, <2>3, OtherLearns, StatusLearns DEF GetRun
  <2>4. ASSUME NEW k \in Keys, CancelRun(w, k) PROVE LearnStep
    <3>1. CASE Finish(w)
      BY <2>w, <3>1, FinishLearns
    <3>2. CASE Goto(w, Task("saveLost", k, None, None, <<>>, "none"))
      BY <2>w, <3>2, OtherLearns
    <3> QED BY <2>4, <3>1, <3>2 DEF CancelRun
  <2>5. ASSUME NEW k \in Keys, Manifest(w, k) PROVE LearnStep
    <3>1. CASE Goto(w, Task("saveLost", k, None, None, <<>>, "none"))
      BY <2>w, <3>1, OtherLearns
    <3>2. CASE StatusOf(k) = "completed" /\ Goto(w, Task("persist", k, None, None, <<>>, "none"))
      <4>1. PICK t : t = Task("persist", k, None, None, <<>>, "none")
        OBVIOUS
      <4>2. t.pc = "persist" /\ t.key = k
        BY <4>1 DEF Task
      <4>3. Exists(k) /\ UNCHANGED nodeRun
        BY <2>5 DEF Manifest
      <4> QED BY <2>w, <3>2, <4>1, <4>2, <4>3, OneLearns
    <3> QED BY <2>5, <3>1, <3>2 DEF Manifest, StatusOf
  <2>6. ASSUME NEW n \in Nodes, ActivateNode(w, n) PROVE LearnStep
    BY <2>w, <2>6, OtherLearns DEF ActivateNode
  <2>7. ASSUME NEW n \in Nodes, NEW e \in BOOLEAN, NEW l \in SlotChoices, UpsertNode(w, n, e, l) PROVE LearnStep
    BY <2>w, <2>7, FinishLearns, OtherLearns DEF UpsertNode
  <2> QED BY <1>1, <2>1, <2>3, <2>4, <2>5, <2>6, <2>7 DEF Request
<1>2. ASSUME NEW p \in Procs, ProcStep(p) PROVE LearnStep
  <2>k. proc[p].pc = "submit" => proc[p].key \in Keys /\ Exists(proc[p].key)
    BY DEF TypeInv, ProcInv, TaskOK, RouteKnown
  <2>1. CASE SubmitAccepted(p)
    <3>1. PICK t : t = Task("saveCreate", proc[p].key, proc[p].body, None, <<>>,
                            CreateReply(run[proc[p].key].body))
      OBVIOUS
    <3>2. /\ t.pc = "saveCreate" /\ t.key = proc[p].key /\ Goto(p, t)
          /\ t.reply = CreateReply(run[proc[p].key].body)
      BY <2>1, <3>1 DEF SubmitAccepted, Task
    <3>3. proc[p].pc = "submit"
      BY <2>1 DEF SubmitAccepted
    <3> QED BY <2>k, <3>2, <3>3, OneLearns
  <2>2. CASE SubmitRejected(p)
    <3>1. PICK t : t = Task("saveReject", proc[p].key, None, None, <<>>, "none")
      OBVIOUS
    <3>2. t.pc = "saveReject" /\ t.key = proc[p].key /\ Goto(p, t)
      BY <2>2, <3>1 DEF SubmitRejected, Task
    <3>3. proc[p].pc = "submit" /\ run[proc[p].key].body \in Rejects[run[proc[p].key].node]
      BY <2>2 DEF SubmitRejected
    <3> QED BY <2>k, <3>2, <3>3, OneLearns
  <2> QED BY <1>2, <2>1, <2>2, FinishLearns
          DEF ProcStep, SubmitKnown, SubmitUnavailable, SaveCreate, SaveReject, SaveLost, SaveStatus
<1>3. ASSUME NEW w \in Workers, WorkerStep(w) PROVE LearnStep
  <2>w. w \in Procs
    BY DEF Procs
  <2>1. CASE ReserveInsert(w)
    BY <2>w, <2>1, FinishLearns, OtherLearns DEF ReserveInsert
  <2>2. CASE ReserveLock(w)
    <3>1. PICK n, b : n = Head(proc[w].order) /\ b = proc[w].body
      OBVIOUS
    <3>2. CASE HasRoom(n, b, limitsRead[w])
      <4>1. PICK t : t = Task("insert", proc[w].key, b, n, <<>>, "none")
        OBVIOUS
      <4>2. t.pc = "insert" /\ t.node = n /\ t.body = b
        BY <4>1 DEF Task
      <4>3. Goto(w, t) /\ UNCHANGED <<run, limitsRead>>
        BY <2>2, <3>1, <3>2, <4>1 DEF ReserveLock
      <4> QED BY <2>w, <3>2, <4>2, <4>3, OneLearns
    <3>3. CASE ~HasRoom(n, b, limitsRead[w])
      BY <2>w, <2>2, <3>1, <3>3, OtherLearns DEF ReserveLock
    <3> QED BY <3>2, <3>3
  <2>3. CASE ReserveSkip(w)
    BY <2>w, <2>3, OtherLearns DEF ReserveSkip
  <2>4. CASE ReserveExhausted(w) \/ PersistManifest(w) \/ Activate(w)
    BY <2>w, <2>4, FinishLearns DEF ReserveExhausted, PersistManifest, Activate
  <2> QED BY <1>2, <1>3, <2>w, <2>1, <2>2, <2>3, <2>4 DEF WorkerStep
<1>4. CASE ProbeLoop
  <2>p. Prober \in Procs
    BY DEF Procs
  <2>1. ASSUME NEW k \in Keys, NEW known \in BOOLEAN, Reconcile(k, known) PROVE LearnStep
    <3>1. Exists(k) /\ UNCHANGED nodeRun
      BY <2>1 DEF Reconcile, TypeInv, ProbeInv
    <3> QED BY <1>u, <2>p, <2>1, <3>1, OtherLearns, StatusLearns DEF Reconcile
  <2> QED BY <1>2, <1>4, <1>u, <2>p, <2>1
          DEF ProbeLoop, ProbeStart, MarkOffline, ReconcileEnd, ProbeNode
<1>5. CASE Environment
  <2>1. CASE GatewayRestart
    <3>1. Idle.pc = "idle" /\ Done.pc = "done"
      BY DEF Idle, Done, Task
    <3> QED BY <2>1, <3>1 DEF GatewayRestart, LearnStep, Learns
  <2> QED BY <1>5, <1>u, <2>1
          DEF Environment, HealthExpires, NodeCrash, NodeStart, BootstrapNode, SetNodeState, NodeStep
<1>6. CASE UNCHANGED vars
  BY <1>6, <1>u DEF vars
<1> QED BY <1>1, <1>3, <1>4, <1>5, <1>6 DEF Next

LEMMA ArtifactSteps ==
  ASSUME TypeInv, [Next]_vars
  PROVE  ArtifactStep
<1> USE DEF dbVars, limitVars, nodeVars, boundVars
<1>u. UNCHANGED artifacts => ArtifactStep
  BY DEF ArtifactStep
<1>1. ASSUME NEW w \in Workers, Request(w) PROVE UNCHANGED artifacts
  BY <1>1 DEF Request, Replay, ReserveRead, GetRun, CancelRun, Manifest, ActivateNode, UpsertNode
<1>2. ASSUME NEW p \in Procs, ProcStep(p) PROVE UNCHANGED artifacts
  BY <1>2 DEF ProcStep, SubmitKnown, SubmitAccepted, SubmitRejected, SubmitUnavailable,
     SaveCreate, SaveReject, SaveLost, SaveStatus
<1>3. ASSUME NEW w \in Workers, WorkerStep(w) PROVE ArtifactStep
  <2>1. CASE PersistManifest(w)
    BY <2>1 DEF PersistManifest, ArtifactStep, Procs
  <2> QED BY <1>2, <1>3, <1>u, <2>1 DEF WorkerStep, Procs, ReserveLock, ReserveSkip,
     ReserveExhausted, ReserveInsert, Activate
<1>4. CASE ProbeLoop
  BY <1>2, <1>4, <1>u DEF ProbeLoop, Procs, ProbeStart, MarkOffline, ReconcileEnd, ProbeNode, Reconcile
<1>5. CASE Environment
  BY <1>5, <1>u DEF Environment, HealthExpires, NodeCrash, NodeStart, BootstrapNode,
     SetNodeState, NodeStep, GatewayRestart
<1>6. CASE UNCHANGED vars
  BY <1>6, <1>u DEF vars
<1> QED BY <1>u, <1>1, <1>3, <1>4, <1>5, <1>6 DEF Next

----------------------------------------------------------------------------
(* Reported results are true *)

\* A node executes no body it rejects, and runs a synchronous body to its end
\* before it answers.
ExecutionInv ==
    \A n \in Nodes, k \in Keys :
        /\ nodeRun[n][k].status # "none" => nodeRun[n][k].body \notin Rejects[n]
        /\ nodeRun[n][k].body \in SyncBodies => nodeRun[n][k].status \in {"none", "completed", "gone"}

\* What a coroutine is about to write is what the node answered, and final
\* answers stay true until the node forgets the run.
HeldInv ==
    \A p \in Procs :
        LET t == proc[p] IN
        /\ t.pc = "saveCreate" => t.reply = CreateReply(run[t.key].body)
        /\ t.pc = "saveReject" => run[t.key].body \in Rejects[run[t.key].node]
        /\ t.pc = "saveStatus" =>
             /\ t.reply \in TERMINAL_RUN_STATES => StatusOf(t.key) \in {t.reply, "gone"}
             /\ run[t.key].body \in SyncBodies => t.reply = "completed"
        /\ t.pc = "persist" => StatusOf(t.key) \in {"completed", "gone"}

\* A failure that the node did not report is a rejection by the node.
ResultInv ==
    \A k \in Keys :
        /\ Exists(k) =>
             /\ run[k].state \in {"completed", "cancelled"} => StatusOf(k) \in {run[k].state, "gone"}
             /\ run[k].state = "failed" =>
                  \/ StatusOf(k) \in {"failed", "gone"}
                  \/ StatusOf(k) = "none" /\ run[k].body \in Rejects[run[k].node]
        /\ k \in artifacts => Exists(k) /\ StatusOf(k) \in {"completed", "gone"}

TruthInv == ExecutionInv /\ HeldInv /\ ResultInv

LEMMA InitTruthInv == Init => TruthInv
<1> SUFFICES ASSUME Init PROVE TruthInv
  OBVIOUS
<1>1. NoNodeRun.status = "none" /\ NoRow.state = "absent" /\ Idle.pc = "idle" /\ artifacts = {}
  BY DEF NoNodeRun, NodeRec, NoRow, Row, Idle, Task, Init
<1>2. /\ \A n \in Nodes, k \in Keys : nodeRun[n][k] = NoNodeRun
      /\ \A k \in Keys : run[k] = NoRow
      /\ \A p \in Procs : proc[p] = Idle
  BY DEF Init
<1> QED BY <1>1, <1>2 DEF TruthInv, ExecutionInv, HeldInv, ResultInv, Exists

\* A route's node run only moves forward.
LEMMA StatusForward ==
  ASSUME TypeInv, RouteInv, ExecutionInv, KeepsRoutes, KeepsNodes, NodeStatusStep,
         NEW k \in Keys, Exists(k)
  PROVE  /\ \A s \in {"completed", "failed", "cancelled", "gone"} :
               StatusOf(k) \in {s, "gone"} => NewStatusOf(k) \in {s, "gone"}
         /\ StatusOf(k) = "none" /\ run[k].body \in Rejects[run[k].node] => NewStatusOf(k) = "none"
<1>1. run[k].node \in Nodes /\ run'[k].node = run[k].node
  BY DEF TypeInv, RowInv, KeepsRoutes
<1>2. PICK n \in Nodes : n = run[k].node
  BY <1>1
<1>3. NodeMove(n, k)
  BY DEF NodeStatusStep
<1>4. StatusOf(k) = nodeRun[n][k].status /\ NewStatusOf(k) = nodeRun'[n][k].status
  BY <1>1, <1>2 DEF StatusOf, NewStatusOf
<1>5. ASSUME NEW s \in {"completed", "failed", "cancelled", "gone"}, StatusOf(k) \in {s, "gone"}
      PROVE  NewStatusOf(k) \in {s, "gone"}
  BY <1>3, <1>4, <1>5 DEF NodeMove
<1>6. ASSUME StatusOf(k) = "none", run[k].body \in Rejects[n]
      PROVE  NewStatusOf(k) = "none"
  BY <1>2, <1>3, <1>4, <1>6 DEF NodeMove, KeepsNodes
<1> QED BY <1>2, <1>5, <1>6

LEMMA NextExecutionInv ==
  ASSUME ExecutionInv, KeepsNodes, NodeStatusStep
  PROVE  ExecutionInv'
<1> SUFFICES ASSUME NEW n \in Nodes, NEW k \in Keys
             PROVE  /\ nodeRun'[n][k].status # "none" => nodeRun'[n][k].body \notin Rejects[n]
                    /\ nodeRun'[n][k].body \in SyncBodies =>
                         nodeRun'[n][k].status \in {"none", "completed", "gone"}
  BY DEF ExecutionInv
<1>1. NodeMove(n, k)
  BY DEF NodeStatusStep
<1>2. nodeRun[n][k].status # "none" => nodeRun'[n][k].body = nodeRun[n][k].body
  BY DEF KeepsNodes
<1>3. CASE nodeRun[n][k].status # "none"
  BY <1>1, <1>2, <1>3 DEF ExecutionInv, NodeMove
<1>4. CASE nodeRun[n][k].status = "none"
  BY <1>1, <1>4 DEF NodeMove, CreateReply
<1> QED BY <1>3, <1>4

LEMMA NextHeldInv ==
  ASSUME TypeInv, RouteInv, TruthInv, [Next]_vars
  PROVE  HeldInv'
<1>1. KeepsRoutes /\ KeepsNodes /\ NodeStatusStep /\ LearnStep
  BY RouteSteps, NodeSteps, NodeStatusSteps, LearnSteps
<1> SUFFICES ASSUME NEW p \in Procs
             PROVE  LET t == proc'[p] IN
                    /\ t.pc = "saveCreate" => t.reply = CreateReply(run'[t.key].body)
                    /\ t.pc = "saveReject" => run'[t.key].body \in Rejects[run'[t.key].node]
                    /\ t.pc = "saveStatus" =>
                         /\ t.reply \in TERMINAL_RUN_STATES => NewStatusOf(t.key) \in {t.reply, "gone"}
                         /\ run'[t.key].body \in SyncBodies => t.reply = "completed"
                    /\ t.pc = "persist" => NewStatusOf(t.key) \in {"completed", "gone"}
  BY DEF HeldInv, StatusOf, NewStatusOf
<1> DEFINE t == proc'[p]
<1>2. Learns(p)
  BY <1>1 DEF LearnStep
<1>3. t.pc \in {"saveCreate", "saveReject", "saveStatus", "persist"} => t.key \in Keys /\ Exists(t.key)
  BY <1>2 DEF Learns, TypeInv, ProcInv, TaskOK, RouteKnown
<1>4. t.pc \in {"saveCreate", "saveReject", "saveStatus", "persist"} =>
        run'[t.key].body = run[t.key].body /\ run'[t.key].node = run[t.key].node
  BY <1>1, <1>3 DEF KeepsRoutes
<1>5. CASE t.pc = "saveCreate"
  BY <1>2, <1>4, <1>5 DEF Learns, TruthInv, HeldInv
<1>6. CASE t.pc = "saveReject"
  BY <1>2, <1>4, <1>6 DEF Learns, TruthInv, HeldInv
<1>7. CASE t.pc = "saveStatus"
  <2>1. PICK k \in Keys : k = t.key /\ Exists(k) /\ run[k].node \in Nodes
    BY <1>3, <1>7 DEF TypeInv, RowInv
  <2>2. CASE t = proc[p]
    <3>1. /\ t.reply \in TERMINAL_RUN_STATES => StatusOf(k) \in {t.reply, "gone"}
          /\ run[k].body \in SyncBodies => t.reply = "completed"
          /\ t.reply \in ReplyStatuses
      BY <1>7, <2>1, <2>2 DEF TruthInv, HeldInv, TypeInv, ProcInv, TaskOK
    <3>2. t.reply \in TERMINAL_RUN_STATES => t.reply \in {"completed", "failed", "cancelled", "gone"}
      BY <3>1 DEF TERMINAL_RUN_STATES, ReplyStatuses, NodeStatuses
    <3>3. t.reply \in TERMINAL_RUN_STATES => NewStatusOf(k) \in {t.reply, "gone"}
      BY <1>1, <2>1, <3>1, <3>2, StatusForward DEF TruthInv
    <3> QED BY <1>4, <1>7, <2>1, <3>1, <3>3
  <2>3. CASE t # proc[p]
    <3>1. t.reply = StatusOf(k) /\ UNCHANGED nodeRun
      BY <1>2, <1>7, <2>1, <2>3 DEF Learns
    <3>2. NewStatusOf(k) = StatusOf(k)
      BY <1>4, <1>7, <2>1, <3>1 DEF StatusOf, NewStatusOf
    <3>3. t.reply \notin {"none", "gone"}
      <4>1. TypeInv'
        BY NextTypeInv
      <4> QED BY <1>7, <4>1 DEF TypeInv, ProcInv, TaskOK, ReplyStatuses
    <3>4. run[k].body = nodeRun[run[k].node][k].body
      BY <2>1, <3>1, <3>3 DEF RouteInv, SingleExecution, StatusOf
    <3>5. run[k].body \in SyncBodies => t.reply = "completed"
      BY <2>1, <3>1, <3>3, <3>4 DEF TruthInv, ExecutionInv, StatusOf
    <3> QED BY <1>4, <1>7, <2>1, <3>1, <3>2, <3>5
  <2> QED BY <2>2, <2>3
<1>8. CASE t.pc = "persist"
  <2>1. PICK k \in Keys : k = t.key /\ Exists(k)
    BY <1>3, <1>8
  <2>2. StatusOf(k) \in {"completed", "gone"}
    BY <1>2, <1>8, <2>1 DEF Learns, TruthInv, HeldInv
  <2>3. NewStatusOf(k) \in {"completed", "gone"}
    BY <1>1, <2>1, <2>2, StatusForward DEF TruthInv
  <2> QED BY <1>8, <2>1, <2>3
<1> QED BY <1>5, <1>6, <1>7, <1>8

LEMMA NextResultInv ==
  ASSUME TypeInv, RouteInv, TruthInv, [Next]_vars
  PROVE  ResultInv'
<1>1. KeepsRoutes /\ KeepsNodes /\ NodeStatusStep /\ RunStep /\ ArtifactStep
  BY RouteSteps, NodeSteps, NodeStatusSteps, RunSteps, ArtifactSteps
<1>2. ASSUME NEW k \in artifacts'
      PROVE  Exists(k)' /\ NewStatusOf(k) \in {"completed", "gone"}
  <2>1. k \in Keys /\ Exists(k) /\ StatusOf(k) \in {"completed", "gone"}
    <3>1. CASE k \in artifacts
      BY <3>1 DEF TruthInv, ResultInv, TypeInv, TypeOK
    <3>2. CASE k \notin artifacts
      BY <1>1, <1>2, <3>2 DEF ArtifactStep, TruthInv, HeldInv, TypeInv, ProcInv, TaskOK, RouteKnown
    <3> QED BY <3>1, <3>2
  <2> QED BY <1>1, <2>1, StatusForward DEF TruthInv, KeepsRoutes
<1>3. ASSUME NEW k \in Keys, Exists(k)'
      PROVE  /\ run'[k].state \in {"completed", "cancelled"} => NewStatusOf(k) \in {run'[k].state, "gone"}
             /\ run'[k].state = "failed" =>
                  \/ NewStatusOf(k) \in {"failed", "gone"}
                  \/ NewStatusOf(k) = "none" /\ run'[k].body \in Rejects[run'[k].node]
  <2>1. CASE Inserts /\ run'[k] # run[k]
    <3>1. PICK w \in Workers :
               /\ proc[w].pc = "insert"
               /\ run' = [run EXCEPT ![proc[w].key] =
                             Row("allocating", proc[w].node, proc[w].body, FALSE, FALSE)]
      BY <2>1 DEF Inserts
    <3>2. run'[k].state = "allocating"
      BY <2>1, <3>1 DEF TypeInv, TypeOK, Row
    <3> QED BY <3>2
  <2>2. CASE run'[k] = run[k]
    <3>1. Exists(k)
      BY <1>3, <2>2 DEF Exists
    <3> QED BY <1>1, <2>2, <3>1, StatusForward DEF TruthInv, ResultInv
  <2>3. CASE run'[k].state = "node_lost"
    BY <2>3
  <2>4. ASSUME Exists(k), NEW p \in Procs, Saves(p, k), run'[k] # run[k]
        PROVE  /\ run'[k].state \in {"completed", "cancelled"} => NewStatusOf(k) \in {run'[k].state, "gone"}
               /\ run'[k].state = "failed" =>
                    \/ NewStatusOf(k) \in {"failed", "gone"}
                    \/ NewStatusOf(k) = "none" /\ run'[k].body \in Rejects[run'[k].node]
    <3>1. proc[p].key = k /\ run[k].node \in Nodes /\ run'[k].body = run[k].body /\ run'[k].node = run[k].node
      BY <1>1, <2>4 DEF Saves, TypeInv, RowInv, KeepsRoutes
    <3>2. CASE proc[p].pc = "saveCreate"
      <4>1. run'[k].state = proc[p].reply /\ proc[p].reply = CreateReply(run[k].body)
        BY <2>4, <3>1, <3>2 DEF Saves, TruthInv, HeldInv
      <4>2. StatusOf(k) # "none" /\ nodeRun[run[k].node][k].body = run[k].body
        BY <3>1, <3>2 DEF RouteInv, AnswerInv, SingleExecution, StatusOf
      <4>3. run[k].body \in SyncBodies => StatusOf(k) \in {"completed", "gone"}
        BY <3>1, <4>2 DEF TruthInv, ExecutionInv, StatusOf
      <4>4. run[k].body \in SyncBodies => NewStatusOf(k) \in {"completed", "gone"}
        BY <1>1, <2>4, <4>3, StatusForward DEF TruthInv
      <4> QED BY <4>1, <4>4 DEF CreateReply
    <3>3. CASE proc[p].pc = "saveReject"
      <4>1. run'[k].state = "failed" /\ run[k].body \in Rejects[run[k].node]
        BY <2>4, <3>1, <3>3 DEF Saves, TruthInv, HeldInv
      <4>2. StatusOf(k) = "none"
        BY <3>1, <4>1 DEF StatusOf, TruthInv, ExecutionInv, RouteInv, SingleExecution
      <4>3. NewStatusOf(k) = "none"
        BY <1>1, <2>4, <4>1, <4>2, StatusForward DEF TruthInv
      <4> QED BY <3>1, <4>1, <4>3
    <3>4. CASE proc[p].pc = "saveStatus"
      <4>1. run'[k].state = proc[p].reply
        BY <2>4, <3>4 DEF Saves
      <4>2. proc[p].reply \in {"completed", "cancelled", "failed"} => StatusOf(k) \in {proc[p].reply, "gone"}
        BY <3>1, <3>4 DEF TruthInv, HeldInv, TERMINAL_RUN_STATES
      <4>3. proc[p].reply \in {"completed", "cancelled", "failed"} => NewStatusOf(k) \in {proc[p].reply, "gone"}
        BY <1>1, <2>4, <4>2, StatusForward DEF TruthInv
      <4> QED BY <4>1, <4>3
    <3> QED BY <2>4, <3>2, <3>3, <3>4 DEF Saves
  <2> QED BY <1>1, <2>1, <2>2, <2>3, <2>4 DEF RunStep, RowMove
<1>4. \A k \in Keys : StatusOf(k)' = NewStatusOf(k)
  BY DEF StatusOf, NewStatusOf
<1>5. artifacts' \subseteq Keys
  BY NextTypeInv DEF TypeInv, TypeOK
<1> QED BY <1>2, <1>3, <1>4, <1>5 DEF ResultInv

LEMMA TruthInvHolds == Spec => [](TypeInv /\ RouteInv /\ TruthInv)
<1>1. Init => TypeInv /\ RouteInv /\ TruthInv
  BY InitTypeInv, InitRouteInv, InitTruthInv
<1>2. TypeInv /\ RouteInv /\ TruthInv /\ [Next]_vars => (TypeInv /\ RouteInv /\ TruthInv)'
  <2> SUFFICES ASSUME TypeInv, RouteInv, TruthInv, [Next]_vars
               PROVE  TypeInv' /\ RouteInv' /\ TruthInv'
    OBVIOUS
  <2>1. TypeInv' /\ RouteInv'
    BY NextTypeInv, NextRouteInv
  <2>2. ExecutionInv'
    BY NodeSteps, NodeStatusSteps, NextExecutionInv DEF TruthInv
  <2>3. HeldInv' /\ ResultInv'
    BY NextHeldInv, NextResultInv
  <2> QED BY <2>1, <2>2, <2>3 DEF TruthInv
<1> QED BY <1>1, <1>2, PTL DEF Spec

\* A run the gateway calls completed, failed or cancelled is one its node ended
\* that way or rejected, and artifacts are published only of a completed run,
\* although an answer is saved long after the node gave it.
THEOREM FinalStatesAreTrue == Spec => []FinalStateIsTrue
<1>1. TypeInv /\ RouteInv /\ TruthInv => FinalStateIsTrue
  <2> SUFFICES ASSUME TruthInv, NEW k \in Keys
               PROVE  LET s == nodeRun[run[k].node][k].status IN
                      /\ run[k].state \in {"completed", "cancelled"} => s \in {run[k].state, "gone"}
                      /\ run[k].state = "failed" => s \in {"failed", "gone", "none"}
                      /\ k \in artifacts => s \in {"completed", "gone"}
    BY DEF FinalStateIsTrue
  <2>1. run[k].state \in {"completed", "cancelled", "failed"} => Exists(k)
    BY DEF Exists
  <2> QED BY <2>1 DEF TruthInv, ResultInv, StatusOf
<1> QED BY <1>1, TruthInvHolds, PTL

----------------------------------------------------------------------------
(* Capacity *)

\* Only a run that its node ended before it answered is final without
\* terminal_at.
UnstampedInv ==
    \A k \in Keys : run[k].state \in TERMINAL_RUN_STATES /\ ~run[k].terminalAt
                         => run[k].body \in SyncBodies

LEMMA NextUnstampedInv ==
  ASSUME TypeInv, RouteInv, TruthInv, UnstampedInv, [Next]_vars
  PROVE  UnstampedInv'
<1>1. KeepsRoutes /\ RunStep
  BY RouteSteps, RunSteps
<1> SUFFICES ASSUME NEW k \in Keys, run'[k].state \in TERMINAL_RUN_STATES, ~run'[k].terminalAt
             PROVE  run'[k].body \in SyncBodies
  BY DEF UnstampedInv
<1>2. CASE Inserts /\ run'[k] # run[k]
  <2>1. run'[k].state = "allocating"
    BY <1>2 DEF Inserts, TypeInv, TypeOK, Row
  <2> QED BY <2>1 DEF TERMINAL_RUN_STATES
<1>3. CASE run'[k] = run[k]
  BY <1>3 DEF UnstampedInv
<1>4. ASSUME Exists(k), NEW p \in Procs, Saves(p, k) PROVE run'[k].body \in SyncBodies
  <2>1. run'[k].body = run[k].body
    BY <1>1, <1>4 DEF KeepsRoutes
  <2>2. CASE proc[p].pc = "saveCreate"
    <3>1. run'[k].state = CreateReply(run[k].body)
      BY <1>4, <2>2 DEF Saves, TruthInv, HeldInv
    <3> QED BY <2>1, <3>1 DEF CreateReply, TERMINAL_RUN_STATES
  <2>3. CASE proc[p].pc = "saveStatus"
    BY <1>4, <2>3 DEF Saves
  <2> QED BY <1>4, <2>2, <2>3 DEF Saves
<1> QED BY <1>1, <1>2, <1>3, <1>4 DEF RunStep, RowMove

\* Keys that hold a slot after the step.
NewHolding(n, r) == {k \in Keys : /\ run'[k].state \in ACTIVE_RUN_STATES
                                  /\ ~run'[k].terminalAt
                                  /\ run'[k].node = n
                                  /\ r \in Needs[run'[k].body]}

\* No step but an insert gives a slot back to a run: a run that lost its slot
\* is stamped, or is one whose only answer is "completed".
LEMMA HoldingShrinks ==
  ASSUME TypeInv, RouteInv, TruthInv, UnstampedInv, [Next]_vars, ~Inserts,
         NEW n \in Nodes, NEW r \in Resources
  PROVE  NewHolding(n, r) \subseteq Holding(n, r)
<1>1. KeepsRoutes /\ \A k \in Keys : RowMove(k)
  BY RouteSteps, RunSteps DEF RunStep
<1> SUFFICES ASSUME NEW k \in NewHolding(n, r) PROVE k \in Holding(n, r)
  OBVIOUS
<1>2. /\ k \in Keys /\ run'[k].state \in ACTIVE_RUN_STATES /\ ~run'[k].terminalAt
      /\ run'[k].node = n /\ r \in Needs[run'[k].body]
  BY DEF NewHolding
<1>3. CASE run'[k] = run[k]
  BY <1>2, <1>3 DEF Holding, IsActive
<1>4. ASSUME Exists(k), NEW p \in Procs, Saves(p, k) PROVE k \in Holding(n, r)
  <2>1. run[k].node = n /\ r \in Needs[run[k].body] /\ run'[k].body = run[k].body
    BY <1>1, <1>2, <1>4 DEF KeepsRoutes
  <2>2. ~run[k].terminalAt
    BY <1>2, <1>4 DEF Saves
  <2>3. CASE IsActive(k)
    BY <1>2, <2>1, <2>2, <2>3 DEF Holding
  <2>4. CASE ~IsActive(k)
    <3>1. run[k].state \in TERMINAL_RUN_STATES
      BY <1>2, <1>4, <2>4 DEF Exists, IsActive, TypeInv, TypeOK, Rows
    <3>2. run[k].body \in SyncBodies
      BY <1>2, <2>2, <3>1 DEF UnstampedInv
    <3>3. run'[k].state \notin ACTIVE_RUN_STATES
      BY <1>4, <3>2 DEF Saves, TruthInv, HeldInv, CreateReply, ACTIVE_RUN_STATES
    <3> QED BY <1>2, <3>3
  <2> QED BY <2>3, <2>4
<1> QED BY <1>1, <1>2, <1>3, <1>4 DEF RowMove, ACTIVE_RUN_STATES

\* An insert adds its key to the pools its body needs on the locked node.
LEMMA HoldingGrows ==
  ASSUME TypeInv, NEW w \in Workers, proc[w].pc = "insert", ~Exists(proc[w].key),
         run' = [run EXCEPT ![proc[w].key] =
                    Row("allocating", proc[w].node, proc[w].body, FALSE, FALSE)],
         NEW n \in Nodes, NEW r \in Resources
  PROVE  IF n = proc[w].node /\ r \in Needs[proc[w].body]
         THEN NewHolding(n, r) \subseteq Holding(n, r) \cup {proc[w].key}
         ELSE NewHolding(n, r) \subseteq Holding(n, r)
<1>1. PICK k, row : /\ k = proc[w].key
                    /\ row = Row("allocating", proc[w].node, proc[w].body, FALSE, FALSE)
  OBVIOUS
<1>2. row.node = proc[w].node /\ row.body = proc[w].body
  BY <1>1 DEF Row
<1>3. run' = [run EXCEPT ![k] = row]
  BY <1>1
<1>4. \A j \in Keys \ {k} : run'[j] = run[j]
  BY <1>3 DEF TypeInv, TypeOK
<1>5. k \in Keys => run'[k] = row
  BY <1>3 DEF TypeInv, TypeOK
<1>6. ASSUME NEW j \in NewHolding(n, r)
      PROVE  j \in Holding(n, r) \/ (j = k /\ n = proc[w].node /\ r \in Needs[proc[w].body])
  <2>1. /\ j \in Keys /\ run'[j].state \in ACTIVE_RUN_STATES /\ ~run'[j].terminalAt
        /\ run'[j].node = n /\ r \in Needs[run'[j].body]
    BY <1>6 DEF NewHolding
  <2>2. CASE j = k
    BY <1>2, <1>5, <2>1, <2>2
  <2>3. CASE j # k
    <3>1. run'[j] = run[j]
      BY <1>4, <2>1, <2>3
    <3> QED BY <2>1, <3>1 DEF Holding, IsActive
  <2> QED BY <2>2, <2>3
<1>7. CASE n = proc[w].node /\ r \in Needs[proc[w].body]
  <2>1. NewHolding(n, r) \subseteq Holding(n, r) \cup {proc[w].key}
    BY <1>1, <1>6
  <2> QED BY <1>7, <2>1
<1>8. CASE ~(n = proc[w].node /\ r \in Needs[proc[w].body])
  <2>1. NewHolding(n, r) \subseteq Holding(n, r)
    BY <1>6, <1>8
  <2> QED BY <1>8, <2>1
<1> QED BY <1>7, <1>8

LEMMA HoldingFinite ==
  ASSUME NEW n, NEW r
  PROVE  /\ IsFiniteSet(Holding(n, r)) /\ Cardinality(Holding(n, r)) \in Nat
         /\ \A S \in SUBSET Holding(n, r) : Cardinality(S) \in Nat /\ Cardinality(S) <= Cardinality(Holding(n, r))
<1>1. IsFiniteSet(Keys) /\ Holding(n, r) \in SUBSET Keys
  BY ConstantsAssumption DEF Holding
<1>2. IsFiniteSet(Holding(n, r))
  BY <1>1, FS_Subset
<1> QED BY <1>2, FS_Subset, FS_CardinalityType

\* The recount counts every run that holds a slot.
LEMMA RoomIsReal ==
  ASSUME TypeInv, NEW n \in Nodes, NEW b \in Bodies, NEW limits \in [Nodes -> Limits],
         HasRoom(n, b, limits), NEW r \in Needs[b]
  PROVE  Cardinality(Holding(n, r)) < limits[n][r]
<1> DEFINE U == {k \in Keys : IsActive(k) /\ run[k].node = n /\ r \in Needs[run[k].body]}
<1>1. IsFiniteSet(Keys) /\ U \in SUBSET Keys /\ Holding(n, r) \in SUBSET U
  BY ConstantsAssumption DEF Holding
<1>2. IsFiniteSet(U)
  BY <1>1, FS_Subset
<1>3. Cardinality(U) < limits[n][r]
  BY DEF HasRoom, Used
<1>4. Cardinality(U) \in Nat /\ Cardinality(Holding(n, r)) <= Cardinality(U)
  BY <1>1, <1>2, FS_Subset, FS_CardinalityType
<1>5. Cardinality(Holding(n, r)) \in Nat
  BY HoldingFinite
<1>6. limits[n][r] \in Nat
  BY ConstantsAssumption DEF Limits
<1> HIDE DEF U
<1> QED BY <1>3, <1>4, <1>5, <1>6

\* A request keeps the limits it read until its reservation is inserted.
LEMMA LimitsStay ==
  ASSUME TypeInv, [Next]_vars, NEW w \in Workers, proc[w].pc = "insert"
  PROVE  limitsRead'[w] = limitsRead[w]
<1> USE DEF dbVars, limitVars, nodeVars, boundVars
<1>1. ASSUME NEW v \in Workers, Request(v) PROVE limitsRead'[w] = limitsRead[w]
  <2>1. ASSUME NEW k \in Keys, NEW b \in Bodies, ReserveRead(v, k, b)
        PROVE  limitsRead'[w] = limitsRead[w]
    <3>1. v # w
      BY <2>1 DEF ReserveRead
    <3> QED BY <2>1, <3>1 DEF ReserveRead, TypeInv, TypeOK
  <2> QED BY <1>1, <2>1
          DEF Request, Replay, GetRun, CancelRun, Manifest, ActivateNode, UpsertNode
<1>2. ASSUME NEW p \in Procs, ProcStep(p) PROVE UNCHANGED limitsRead
  BY <1>2 DEF ProcStep, SubmitKnown, SubmitAccepted, SubmitRejected, SubmitUnavailable,
              SaveCreate, SaveReject, SaveLost, SaveStatus
<1>3. ASSUME NEW v \in Workers, WorkerStep(v) PROVE UNCHANGED limitsRead
  BY <1>2, <1>3 DEF WorkerStep, Procs, ReserveLock, ReserveSkip, ReserveExhausted,
                    ReserveInsert, PersistManifest, Activate
<1>4. CASE ProbeLoop
  BY <1>2, <1>4 DEF ProbeLoop, Procs, ProbeStart, MarkOffline, ReconcileEnd, ProbeNode, Reconcile
<1>5. CASE Environment
  BY <1>5 DEF Environment, HealthExpires, NodeCrash, NodeStart, BootstrapNode,
              SetNodeState, NodeStep, GatewayRestart
<1>6. CASE UNCHANGED vars
  BY <1>6 DEF vars
<1> QED BY <1>1, <1>3, <1>4, <1>5, <1>6 DEF Next

\* A slot is taken within the limits the request read.
FitStep ==
    \A n \in Nodes, r \in Resources :
        \/ NewHolding(n, r) \subseteq Holding(n, r)
        \/ \E w \in Workers : /\ proc[w].pc = "insert"
                              /\ proc[w].node = n
                              /\ Cardinality(NewHolding(n, r)) <= limitsRead[w][n][r]

LEMMA RoomFits ==
  ASSUME TypeInv, RouteInv, TruthInv, UnstampedInv, RoomInv, [Next]_vars
  PROVE  FitStep
<1> SUFFICES ASSUME NEW n \in Nodes, NEW r \in Resources,
                    ~(NewHolding(n, r) \subseteq Holding(n, r))
             PROVE  \E w \in Workers : /\ proc[w].pc = "insert"
                                       /\ proc[w].node = n
                                       /\ Cardinality(NewHolding(n, r)) <= limitsRead[w][n][r]
  BY DEF FitStep
<1>1. PICK w \in Workers : /\ proc[w].pc = "insert" /\ ~Exists(proc[w].key)
                           /\ run' = [run EXCEPT ![proc[w].key] =
                                Row("allocating", proc[w].node, proc[w].body, FALSE, FALSE)]
  BY HoldingShrinks DEF Inserts
<1>2. /\ n = proc[w].node /\ r \in Needs[proc[w].body]
      /\ NewHolding(n, r) \subseteq Holding(n, r) \cup {proc[w].key}
  BY <1>1, HoldingGrows
<1>3. Cardinality(Holding(n, r)) < limitsRead[w][n][r]
  BY <1>1, <1>2 DEF RoomInv
<1>4. limitsRead[w][n][r] \in Nat /\ Cardinality(Holding(n, r)) \in Nat
  BY HoldingFinite DEF TypeInv, TypeOK, Limits
<1>5. /\ IsFiniteSet(Holding(n, r) \cup {proc[w].key})
      /\ \/ Cardinality(Holding(n, r) \cup {proc[w].key}) = Cardinality(Holding(n, r)) + 1
         \/ Cardinality(Holding(n, r) \cup {proc[w].key}) = Cardinality(Holding(n, r))
  BY HoldingFinite, FS_AddElement
<1>6. /\ Cardinality(NewHolding(n, r)) <= Cardinality(Holding(n, r) \cup {proc[w].key})
      /\ Cardinality(NewHolding(n, r)) \in Nat
  BY <1>2, <1>5, FS_Subset, FS_CardinalityType
<1>7. Cardinality(NewHolding(n, r)) <= limitsRead[w][n][r]
  BY <1>3, <1>4, <1>5, <1>6
<1> QED BY <1>1, <1>2, <1>7

LEMMA NextRoom ==
  ASSUME TypeInv, RouteInv, TruthInv, UnstampedInv, RoomInv, [Next]_vars
  PROVE  RoomInv'
<1>0. TypeInv' /\ LearnStep
  BY NextTypeInv, LearnSteps
<1>n. \A n, r : Holding(n, r)' = NewHolding(n, r)
  BY DEF Holding, NewHolding, IsActive
<1> SUFFICES ASSUME NEW w \in Workers, proc'[w].pc = "insert", NEW r \in Needs[proc'[w].body]
             PROVE  Cardinality(NewHolding(proc'[w].node, r)) < limitsRead'[w][proc'[w].node][r]
  BY <1>n DEF RoomInv
<1>w. w \in Procs
  BY DEF Procs
<1>1. PICK n \in Nodes, b \in Bodies : n = proc'[w].node /\ b = proc'[w].body
  BY <1>0, <1>w DEF TypeInv, ProcInv, TaskOK
<1>2. r \in Resources
  BY <1>1, ConstantsAssumption
<1>3. /\ limitsRead[w] \in [Nodes -> Limits]
      /\ limitsRead[w][n][r] \in Nat /\ Cardinality(Holding(n, r)) \in Nat
  BY <1>2, HoldingFinite DEF TypeInv, TypeOK, Limits
<1>4. CASE proc'[w] = proc[w]
  <2>1. Cardinality(Holding(n, r)) < limitsRead[w][n][r] /\ limitsRead'[w] = limitsRead[w]
    BY <1>1, <1>4, LimitsStay DEF RoomInv
  <2>2. NewHolding(n, r) \subseteq Holding(n, r)
    <3>1. CASE ~Inserts
      BY <1>2, <3>1, HoldingShrinks
    <3>2. CASE Inserts
      <4>1. PICK v \in Workers : /\ proc[v].pc = "insert" /\ ~Exists(proc[v].key) /\ proc'[v].pc # "insert"
                                 /\ run' = [run EXCEPT ![proc[v].key] =
                                      Row("allocating", proc[v].node, proc[v].body, FALSE, FALSE)]
        BY <3>2 DEF Inserts
      <4>2. nodeLock[proc[v].node] = v /\ nodeLock[n] = w /\ v # w
        BY <1>1, <1>4, <4>1 DEF TypeInv, ProcInv, TaskOK, Procs
      <4>3. n # proc[v].node
        BY <4>2
      <4> QED BY <1>2, <4>1, <4>3, HoldingGrows
    <3> QED BY <3>1, <3>2
  <2>3. Cardinality(NewHolding(n, r)) <= Cardinality(Holding(n, r)) /\ Cardinality(NewHolding(n, r)) \in Nat
    BY <2>2, HoldingFinite
  <2>4. Cardinality(NewHolding(n, r)) < limitsRead[w][n][r]
    BY <1>3, <2>1, <2>3
  <2> QED BY <1>1, <2>1, <2>4
<1>5. CASE proc'[w] # proc[w]
  <2>1. HasRoom(n, b, limitsRead[w]) /\ UNCHANGED <<run, limitsRead>>
    BY <1>0, <1>1, <1>5, <1>w DEF LearnStep, Learns
  <2>2. NewHolding(n, r) = Holding(n, r)
    BY <2>1 DEF NewHolding, Holding, IsActive
  <2>3. Cardinality(Holding(n, r)) < limitsRead[w][n][r]
    BY <1>1, <1>3, <2>1, RoomIsReal
  <2> QED BY <1>1, <2>1, <2>2, <2>3
<1> QED BY <1>4, <1>5

LEMMA InitRoom == Init => UnstampedInv /\ RoomInv
<1> SUFFICES ASSUME Init PROVE UnstampedInv /\ RoomInv
  OBVIOUS
<1>1. NoRow.state = "absent" /\ Idle.pc = "idle"
  BY DEF NoRow, Row, Idle, Task
<1>2. /\ \A k \in Keys : run[k] = NoRow
      /\ \A p \in Procs : proc[p] = Idle
  BY DEF Init
<1> QED BY <1>1, <1>2 DEF UnstampedInv, RoomInv, Procs, TERMINAL_RUN_STATES

\* The strengthening, and what its steps keep.
RoomFacts == TypeInv /\ RouteInv /\ TruthInv /\ UnstampedInv /\ RoomInv

LEMMA RoomFactsHold == Spec => []RoomFacts
<1>1. Init => RoomFacts
  BY InitTypeInv, InitRouteInv, InitTruthInv, InitRoom DEF RoomFacts
<1>2. RoomFacts /\ [Next]_vars => RoomFacts'
  <2> SUFFICES ASSUME RoomFacts, [Next]_vars PROVE RoomFacts'
    OBVIOUS
  <2> USE DEF RoomFacts
  <2>1. TypeInv' /\ RouteInv'
    BY NextTypeInv, NextRouteInv
  <2>2. TruthInv'
    BY NodeSteps, NodeStatusSteps, NextExecutionInv, NextHeldInv, NextResultInv DEF TruthInv
  <2>3. UnstampedInv'
    BY NextUnstampedInv
  <2>4. RoomInv'
    BY NextRoom
  <2> QED BY <2>1, <2>2, <2>3, <2>4
<1> QED BY <1>1, <1>2, PTL DEF Spec

LEMMA CapacityInvHolds == Spec => []CapacityInv
<1>1. RoomFacts => CapacityInv
  <2> SUFFICES ASSUME RoomFacts PROVE SyncInv
    BY DEF CapacityInv, RoomFacts
  <2>1. ASSUME NEW p \in Procs, proc[p].pc \in {"saveCreate", "saveStatus"},
               run[proc[p].key].body \in SyncBodies
        PROVE  proc[p].reply = "completed"
    BY <2>1 DEF RoomFacts, TruthInv, HeldInv, CreateReply
  <2> QED BY <2>1 DEF SyncInv, RoomFacts, TruthInv, ExecutionInv, UnstampedInv
<1> QED BY <1>1, RoomFactsHold, PTL

\* However many reservations read the same candidates at once, a run takes a
\* slot of a node only within the limits its request read, counted with the
\* runs that hold one when it is inserted.
THEOREM SlotsAreNeverOversold == Spec => ReservationsFitSlots
<1>1. RoomFacts /\ [Next]_vars =>
        [\A n \in Nodes, r \in Resources :
            \/ Holding(n, r)' \subseteq Holding(n, r)
            \/ \E w \in Workers : /\ proc[w].pc = "insert"
                                  /\ proc[w].node = n
                                  /\ Cardinality(Holding(n, r)') <= limitsRead[w][n][r]]_vars
  <2>1. \A n, r : Holding(n, r)' = NewHolding(n, r)
    BY DEF Holding, NewHolding, IsActive
  <2> QED BY <2>1, RoomFits DEF RoomFacts, FitStep
<1> QED BY <1>1, RoomFactsHold, PTL DEF Spec, ReservationsFitSlots

=============================================================================
