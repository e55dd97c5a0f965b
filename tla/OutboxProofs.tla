---------------------------- MODULE OutboxProofs ----------------------------
(***************************************************************************)
(* Proofs about Outbox and its history, for any number of workers and      *)
(* events and any batch size and retry budget.                             *)
(***************************************************************************)
EXTENDS OutboxHistory, TLAPS

\* A worker outside its loop has an event, a held row has a holder, and a row
\* that can still be retried has budget left.
CurInv == \A w \in Workers : wk[w].pc # "idle" => wk[w].cur \in Events
OwnerInv == \A e \in Events : ev[e].status = "leased" => ev[e].owner \in Workers
BudgetInv ==
    \A e \in Events :
        IF ev[e].status = "dead" THEN ev[e].retries = MaxAttempts
                                 ELSE ev[e].retries < MaxAttempts

OutboxInv == OutboxTypeOK /\ CurInv /\ OwnerInv /\ BudgetInv

-----------------------------------------------------------------------------
(* Rows. *)

(* A row built by Row is well typed.                                       *)
LEMMA RowType ==
    ASSUME NEW s \in Statuses, NEW o \in Workers \cup {None},
           NEW r \in 0..MaxAttempts, NEW d \in BOOLEAN
    PROVE  /\ Row(s, o, r, d) \in EventRow
           /\ Row(s, o, r, d).status = s
           /\ Row(s, o, r, d).owner = o
           /\ Row(s, o, r, d).retries = r
BY DEF Row, EventRow

(* append changes no row but a missing one, and keeps the table well       *)
(* formed.                                                                 *)
LEMMA AppendedKeeps ==
    ASSUME OutboxInv, NEW e \in Events, NEW d \in BOOLEAN
    PROVE  /\ Appended(ev, e, d) \in [Events -> EventRow]
           /\ \A f \in Events :
                \/ Appended(ev, e, d)[f] = ev[f]
                \/ /\ ev[f].status = "none"
                   /\ Appended(ev, e, d)[f].status = "pending"
                   /\ Appended(ev, e, d)[f].retries = 0
<1>1. Row("pending", None, 0, d) \in EventRow
  BY RowType, OutboxAssumption DEF Statuses
<1>2. /\ Row("pending", None, 0, d).status = "pending"
      /\ Row("pending", None, 0, d).retries = 0
  BY DEF Row
<1> QED
  BY <1>1, <1>2 DEF Appended, OutboxInv, OutboxTypeOK

-----------------------------------------------------------------------------
(* The inductive invariant. *)

LEMMA OutboxInvInit == OutboxInit => OutboxInv
  BY OutboxAssumption
  DEF OutboxInit, OutboxInv, OutboxTypeOK, CurInv, OwnerInv, BudgetInv, Row, Idle,
      EventRow, WorkerState, Statuses, Outcomes

\* What a change of one row has to satisfy.
GoodRow(r) ==
    /\ r \in EventRow
    /\ r.status = "leased" => r.owner \in Workers
    /\ IF r.status = "dead" THEN r.retries = MaxAttempts ELSE r.retries < MaxAttempts

(* The invariant follows from good rows and good workers.                  *)
LEMMA InvFromParts ==
    ASSUME ev' \in [Events -> EventRow], \A e \in Events : GoodRow(ev'[e]),
           wk' \in [Workers -> WorkerState], CurInv', crashes' \in 0..MaxCrashes
    PROVE  OutboxInv'
  BY DEF OutboxInv, OutboxTypeOK, OwnerInv, BudgetInv, GoodRow

(* Conversely, the rows of a state that satisfies it are good.             *)
LEMMA RowsAreGood ==
    ASSUME OutboxInv PROVE \A e \in Events : GoodRow(ev[e])
  BY DEF OutboxInv, OutboxTypeOK, OwnerInv, BudgetInv, GoodRow

(* Going back to the loop keeps the workers well formed.                   *)
LEMMA NextEventKeeps ==
    ASSUME OutboxInv, NEW w \in Workers, NextEvent(w)
    PROVE  wk' \in [Workers -> WorkerState] /\ CurInv'
  BY DEF NextEvent, OutboxInv, OutboxTypeOK, CurInv, WorkerState

(* Every step of the outbox keeps the invariant.                           *)
LEMMA OutboxInvStep == OutboxInv /\ [OutboxNext]_outboxVars => OutboxInv'
<1> SUFFICES ASSUME OutboxInv, [OutboxNext]_outboxVars PROVE OutboxInv'
  OBVIOUS
<1>g. \A e \in Events : GoodRow(ev[e])
  BY RowsAreGood
<1>t. /\ ev \in [Events -> EventRow] /\ wk \in [Workers -> WorkerState]
      /\ CurInv /\ crashes \in 0..MaxCrashes
  BY DEF OutboxInv, OutboxTypeOK
<1>n. 0 < MaxAttempts /\ MaxAttempts \in Nat /\ None \notin Events /\ None \notin Workers
  BY OutboxAssumption
<1>u. ASSUME UNCHANGED wk PROVE wk' \in [Workers -> WorkerState] /\ CurInv'
  BY <1>t, <1>u DEF CurInv
<1>r. ASSUME NEW e \in Events, NEW s \in {"pending", "leased", "done", "dead"},
             NEW o \in Workers \cup {None}, NEW r \in 0..MaxAttempts, NEW d \in BOOLEAN,
             s = "leased" => o \in Workers,
             IF s = "dead" THEN r = MaxAttempts ELSE r < MaxAttempts,
             ev' = [ev EXCEPT ![e] = Row(s, o, r, d)]
      PROVE  ev' \in [Events -> EventRow] /\ \A f \in Events : GoodRow(ev'[f])
  <2>1. /\ Row(s, o, r, d) \in EventRow /\ Row(s, o, r, d).status = s
        /\ Row(s, o, r, d).owner = o /\ Row(s, o, r, d).retries = r
    BY <1>r, RowType DEF Statuses
  <2>2. GoodRow(Row(s, o, r, d))
    BY <2>1, <1>r DEF GoodRow
  <2> QED
    BY <1>r, <2>1, <2>2, <1>g, <1>t
<1>1. ASSUME NEW e \in Events, Append(e) PROVE OutboxInv'
  <2>1. PICK d \in BOOLEAN : ev' = Appended(ev, e, d)
    BY <1>1 DEF Append
  <2>2. ev' \in [Events -> EventRow]
    BY <2>1, AppendedKeeps
  <2>3. ASSUME NEW f \in Events PROVE GoodRow(ev'[f])
    <3>1. \/ ev'[f] = ev[f]
          \/ ev'[f].status = "pending" /\ ev'[f].retries = 0
      BY <2>1, AppendedKeeps
    <3> QED
      BY <3>1, <2>2, <1>g, <1>n DEF GoodRow
  <2> QED
    BY <2>2, <2>3, <1>1, <1>t, <1>u, InvFromParts DEF Append
<1>2. ASSUME NEW e \in Events, BecomesDue(e) \/ LeaseExpires(e) PROVE OutboxInv'
  <2>1. /\ ev' \in [Events -> EventRow]
        /\ \A f \in Events : /\ ev'[f].status = ev[f].status
                             /\ ev'[f].owner = ev[f].owner
                             /\ ev'[f].retries = ev[f].retries
    <3>1. CASE BecomesDue(e)
      BY <3>1, <1>t DEF BecomesDue, EventRow
    <3>2. CASE LeaseExpires(e)
      <4>1. ev' = [ev EXCEPT ![e].expired = TRUE]
        BY <3>2 DEF LeaseExpires
      <4> QED
        BY <4>1, <1>t DEF EventRow
    <3> QED
      BY <1>2, <3>1, <3>2
  <2>2. \A f \in Events : GoodRow(ev'[f])
    BY <2>1, <1>g DEF GoodRow
  <2> QED
    BY <2>1, <2>2, <1>2, <1>t, <1>u, InvFromParts DEF BecomesDue, LeaseExpires
<1>3. ASSUME NEW w \in Workers, NEW S \in SUBSET Events, ClaimBatch(w, S) PROVE OutboxInv'
  <2>1. ASSUME NEW e \in S
        PROVE  /\ Row("leased", w, ev[e].retries, TRUE) \in EventRow
               /\ GoodRow(Row("leased", w, ev[e].retries, TRUE))
    <3>1. ev[e].retries \in 0..MaxAttempts /\ ev[e].retries < MaxAttempts
      BY <1>3, <1>g, <1>t DEF ClaimBatch, Claimable, GoodRow, EventRow
    <3>r. PICK r \in 0..MaxAttempts : r = ev[e].retries
      BY <3>1
    <3>2. /\ Row("leased", w, r, TRUE) \in EventRow
          /\ Row("leased", w, r, TRUE).status = "leased"
          /\ Row("leased", w, r, TRUE).owner = w
          /\ Row("leased", w, r, TRUE).retries = r
      BY DEF Row, EventRow, Statuses
    <3> QED
      BY <3>1, <3>r, <3>2 DEF GoodRow
  <2>2. ev' \in [Events -> EventRow] /\ \A f \in Events : GoodRow(ev'[f])
    BY <1>3, <2>1, <1>t, <1>g DEF ClaimBatch
  <2>3. wk' \in [Workers -> WorkerState] /\ CurInv'
    BY <1>3, <1>t DEF ClaimBatch, WorkerState, CurInv
  <2> QED
    BY <2>2, <2>3, <1>3, <1>t, InvFromParts DEF ClaimBatch
<1>4. ASSUME NEW w \in Workers, NEW e \in Events, Dispatch(w, e) PROVE OutboxInv'
  <2>1. wk' \in [Workers -> WorkerState] /\ CurInv'
    BY <1>4, <1>t DEF Dispatch, WorkerState, CurInv
  <2> QED
    BY <2>1, <1>4, <1>t, <1>g, InvFromParts DEF Dispatch
<1>5. ASSUME NEW w \in Workers, NEW o \in Outcomes, HandlerReturns(w, o) PROVE OutboxInv'
  <2>1. wk' \in [Workers -> WorkerState] /\ CurInv'
    BY <1>5, <1>t DEF HandlerReturns, Returns, WorkerState, CurInv, Outcomes
  <2> QED
    BY <2>1, <1>5, <1>t, <1>g, InvFromParts DEF HandlerReturns, Returns
<1>6. ASSUME NEW w \in Workers, Heartbeat(w) PROVE OutboxInv'
  <2>1. wk[w].cur \in Events
    BY <1>6, <1>t DEF Heartbeat, CurInv, Outcomes
  <2>2. /\ ev' \in [Events -> EventRow]
        /\ \A f \in Events : /\ ev'[f].status = ev[f].status
                             /\ ev'[f].owner = ev[f].owner
                             /\ ev'[f].retries = ev[f].retries
    BY <1>6, <2>1, <1>t DEF Heartbeat, EventRow
  <2>3. \A f \in Events : GoodRow(ev'[f])
    BY <2>2, <1>g DEF GoodRow
  <2> QED
    BY <2>2, <2>3, <1>6, <1>t, <1>u, InvFromParts DEF Heartbeat
<1>7. ASSUME NEW w \in Workers, Settle(w) PROVE OutboxInv'
  <2>c. wk[w].cur \in Events
    BY <1>7, <1>t DEF Settle, MarkDone, DeferSameEvent, RescheduleOrDeadLetter, CurInv
  <2>e. PICK e \in Events : e = wk[w].cur
    BY <2>c
  <2>y. /\ ev[e].retries \in 0..MaxAttempts
        /\ Fenced(w, e) => ev[e].retries < MaxAttempts
    BY <1>g, <1>t DEF GoodRow, EventRow, Fenced
  <2>1. CASE MarkDone(w)
    <3>1. ev' = ev \/ (Fenced(w, e) /\ ev' = [ev EXCEPT ![e] = Row("done", None, ev[e].retries, TRUE)])
      BY <2>1, <2>e DEF MarkDone
    <3>2. ev' \in [Events -> EventRow] /\ \A f \in Events : GoodRow(ev'[f])
      BY <3>1, <2>y, <1>r, <1>t, <1>g
    <3> QED
      BY <3>2, <2>1, <1>t, NextEventKeeps, InvFromParts DEF MarkDone
  <2>2. CASE DeferSameEvent(w)
    <3>1. ev' = ev \/ (Fenced(w, e) /\ ev' = [ev EXCEPT ![e] = Row("pending", None, ev[e].retries, FALSE)])
      BY <2>2, <2>e DEF DeferSameEvent, Deferred
    <3>2. ev' \in [Events -> EventRow] /\ \A f \in Events : GoodRow(ev'[f])
      BY <3>1, <2>y, <1>r, <1>t, <1>g
    <3> QED
      BY <3>2, <2>2, <1>t, NextEventKeeps, InvFromParts DEF DeferSameEvent
  <2>3. CASE RescheduleOrDeadLetter(w)
    <3>d. PICK n : n = ev[e].retries + 1
      OBVIOUS
    <3>1. CASE UNCHANGED ev /\ NextEvent(w)
      BY <3>1, <2>3, <1>t, <1>g, NextEventKeeps, InvFromParts DEF RescheduleOrDeadLetter
    <3>2. CASE /\ Fenced(w, e) /\ n < MaxAttempts
               /\ ev' = [ev EXCEPT ![e] = Row("pending", None, n, FALSE)]
               /\ NextEvent(w)
      <4>1. n \in 0..MaxAttempts
        BY <3>d, <2>y, <3>2, <1>n
      <4>2. ev' \in [Events -> EventRow] /\ \A f \in Events : GoodRow(ev'[f])
        BY <4>1, <3>2, <1>r
      <4> QED
        BY <4>2, <3>2, <2>3, <1>t, NextEventKeeps, InvFromParts DEF RescheduleOrDeadLetter
    <3>3. CASE /\ Fenced(w, e) /\ n >= MaxAttempts
               /\ ev' = [ev EXCEPT ![e] = Row("dead", None, n, TRUE)]
               /\ wk' = [wk EXCEPT ![w].pc = "dead"]
      <4>1. n = MaxAttempts /\ n \in 0..MaxAttempts
        BY <3>d, <2>y, <3>3, <1>n
      <4>2. ev' \in [Events -> EventRow] /\ \A f \in Events : GoodRow(ev'[f])
        BY <4>1, <3>3, <1>r
      <4>3. wk' \in [Workers -> WorkerState] /\ CurInv'
        BY <3>3, <2>c, <1>t DEF WorkerState, CurInv
      <4> QED
        BY <4>2, <4>3, <2>3, <1>t, InvFromParts DEF RescheduleOrDeadLetter
    <3> QED
      BY <2>3, <2>e, <3>d, <3>1, <3>2, <3>3 DEF RescheduleOrDeadLetter
  <2> QED
    BY <1>7, <2>1, <2>2, <2>3 DEF Settle
<1>8. ASSUME NEW w \in Workers, HandleDeadLetter(w) PROVE OutboxInv'
  BY <1>8, <1>t, <1>g, NextEventKeeps, InvFromParts DEF HandleDeadLetter
<1>9. ASSUME NEW w \in Workers, Crash(w) PROVE OutboxInv'
  <2>1. wk' \in [Workers -> WorkerState] /\ CurInv'
    BY <1>9, <1>t DEF Crash, Idle, WorkerState, CurInv
  <2>2. crashes' \in 0..MaxCrashes
    BY <1>9, <1>t, OutboxAssumption DEF Crash
  <2> QED
    BY <2>1, <2>2, <1>9, <1>t, <1>g, InvFromParts DEF Crash
<1>10. CASE UNCHANGED outboxVars
  BY <1>10, <1>t, <1>g, <1>u, InvFromParts DEF outboxVars
<1> QED
  BY <1>1, <1>2, <1>3, <1>4, <1>5, <1>6, <1>7, <1>8, <1>9, <1>10 DEF OutboxNext, Settle

(* The type invariant of the outbox holds in every reachable state: in     *)
(* particular no retry counter passes the budget.                          *)
THEOREM OutboxTypeCorrect == OutboxSpec => []OutboxTypeOK
<1>1. OutboxInv => OutboxTypeOK
  BY DEF OutboxInv
<1> QED
  BY OutboxInvInit, OutboxInvStep, <1>1, PTL DEF OutboxSpec

(* The inductive invariant, for the modules that build on the outbox.      *)
THEOREM OutboxInvariance == OutboxSpec => []OutboxInv
  BY OutboxInvInit, OutboxInvStep, PTL DEF OutboxSpec

-----------------------------------------------------------------------------
(* What a step may never do. *)

(* What one step does to the rows and, where it ends a lease, to the       *)
(* worker that ends it.                                                    *)
LEMMA RowStep ==
    ASSUME OutboxInv, OutboxNext, NEW f \in Events
    PROVE  \/ ev'[f] = ev[f]
           \/ ev[f].status = "none"
           \/ ev[f].status = "pending"
           \/ ev[f].status = "leased" /\ ev[f].expired
           \/ /\ ev[f].status = "leased" /\ ev'[f].status = "leased"
              /\ ev'[f].owner = ev[f].owner
           \/ \E w \in Workers : /\ Settle(w) /\ wk[w].cur = f /\ Fenced(w, f)
                                 /\ wk'[w].pc \in {"idle", "dead"}
<1>t. /\ ev \in [Events -> EventRow] /\ wk \in [Workers -> WorkerState]
      /\ CurInv
  BY DEF OutboxInv, OutboxTypeOK
<1> DEFINE Goal ==
           \/ ev'[f] = ev[f]
           \/ ev[f].status = "none"
           \/ ev[f].status = "pending"
           \/ ev[f].status = "leased" /\ ev[f].expired
           \/ /\ ev[f].status = "leased" /\ ev'[f].status = "leased"
              /\ ev'[f].owner = ev[f].owner
           \/ \E w \in Workers : /\ Settle(w) /\ wk[w].cur = f /\ Fenced(w, f)
                                 /\ wk'[w].pc \in {"idle", "dead"}
<1> SUFFICES Goal
  OBVIOUS
<1>1. ASSUME NEW e \in Events, Append(e) PROVE Goal
  <2>1. PICK d \in BOOLEAN : ev' = Appended(ev, e, d)
    BY <1>1 DEF Append
  <2> QED
    BY <2>1, AppendedKeeps
<1>2. ASSUME NEW e \in Events, BecomesDue(e) PROVE Goal
  BY <1>2, <1>t DEF BecomesDue
<1>3. ASSUME NEW e \in Events, LeaseExpires(e) PROVE Goal
  <2>1. ev' = [ev EXCEPT ![e].expired = TRUE] /\ ev[e].status = "leased"
    BY <1>3 DEF LeaseExpires
  <2> QED
    BY <2>1, <1>t DEF EventRow
<1>4. ASSUME NEW w \in Workers, NEW S \in SUBSET Events, ClaimBatch(w, S) PROVE Goal
  <2>1. CASE f \in S
    BY <2>1, <1>4 DEF ClaimBatch, Claimable
  <2>2. CASE f \notin S
    BY <2>2, <1>4 DEF ClaimBatch
  <2> QED
    BY <2>1, <2>2
<1>5. ASSUME NEW w \in Workers, NEW e \in Events, Dispatch(w, e) PROVE Goal
  BY <1>5 DEF Dispatch
<1>6. ASSUME NEW w \in Workers, NEW o \in Outcomes, HandlerReturns(w, o) PROVE Goal
  BY <1>6 DEF HandlerReturns, Returns
<1>7. ASSUME NEW w \in Workers, Heartbeat(w) PROVE Goal
  <2>1. /\ ev[wk[w].cur].status = "leased"
        /\ ev' = [ev EXCEPT ![wk[w].cur].expired = FALSE]
    BY <1>7 DEF Heartbeat, Fenced
  <2> QED
    BY <2>1, <1>t DEF EventRow
<1>8. ASSUME NEW w \in Workers, Settle(w) PROVE Goal
  <2>e. PICK e : e = wk[w].cur
    OBVIOUS
  <2>1. CASE ~Fenced(w, e)
    BY <2>1, <2>e, <1>8 DEF Settle, MarkDone, DeferSameEvent, RescheduleOrDeadLetter
  <2>2. CASE Fenced(w, e) /\ e # f
    <3>1. \E row : ev' = [ev EXCEPT ![e] = row]
      BY <2>2, <2>e, <1>8 DEF Settle, MarkDone, DeferSameEvent, RescheduleOrDeadLetter
    <3> QED
      BY <3>1, <2>2, <1>t
  <2>3. CASE Fenced(w, e) /\ e = f
    <3>1. wk' = [wk EXCEPT ![w].pc = "dead"] \/ NextEvent(w)
      BY <1>8 DEF Settle, MarkDone, DeferSameEvent, RescheduleOrDeadLetter
    <3>2. wk'[w].pc \in {"idle", "dead"}
      BY <3>1, <1>t DEF NextEvent, WorkerState
    <3> QED
      BY <3>2, <2>3, <2>e, <1>8
  <2> QED
    BY <2>1, <2>2, <2>3
<1>9. ASSUME NEW w \in Workers, HandleDeadLetter(w) PROVE Goal
  BY <1>9 DEF HandleDeadLetter
<1>10. ASSUME NEW w \in Workers, Crash(w) PROVE Goal
  BY <1>10 DEF Crash
<1> QED
  BY <1>1, <1>2, <1>3, <1>4, <1>5, <1>6, <1>7, <1>8, <1>9, <1>10 DEF OutboxNext, Settle

(* While a lease runs, nobody but its owner ends it, and only after the    *)
(* owner's handler returned: for any number of workers, however late their *)
(* settlements come.                                                       *)
THEOREM LeaseIsRespected == OutboxSpec => LeaseRespected
<1> DEFINE Step ==
      \A e \in Events :
          /\ ev[e].status = "leased" /\ ~ev[e].expired
          /\ ev'[e].status # "leased" \/ ev'[e].owner # ev[e].owner
          => /\ wk[ev[e].owner].cur = e
             /\ wk[ev[e].owner].pc \in Outcomes
             /\ wk'[ev[e].owner].pc \in {"idle", "dead"}
<1>1. OutboxInv /\ [OutboxNext]_outboxVars => [Step]_outboxVars
  <2> SUFFICES ASSUME OutboxInv, OutboxNext PROVE Step
    OBVIOUS
  <2> TAKE e \in Events
  <2> HAVE /\ ev[e].status = "leased" /\ ~ev[e].expired
           /\ ev'[e].status # "leased" \/ ev'[e].owner # ev[e].owner
  <2>1. PICK w \in Workers : /\ Settle(w) /\ wk[w].cur = e /\ Fenced(w, e)
                             /\ wk'[w].pc \in {"idle", "dead"}
    BY RowStep
  <2>2. wk[w].pc \in Outcomes
    BY <2>1 DEF Settle, MarkDone, DeferSameEvent, RescheduleOrDeadLetter, Outcomes
  <2> QED
    BY <2>1, <2>2 DEF Fenced
<1> QED
  BY <1>1, OutboxInvariance, PTL DEF OutboxSpec, LeaseRespected

(* A settled event never changes again, in any run of any number of        *)
(* workers and producers.                                                  *)
THEOREM SettledStaysSettled == OutboxSpec => SettledIsFinal
<1>1. OutboxInv /\ [OutboxNext]_outboxVars
      => [\A e \in Events : Terminal(e) => ev'[e] = ev[e]]_outboxVars
  <2> SUFFICES ASSUME OutboxInv, OutboxNext, NEW e \in Events, Terminal(e)
               PROVE  ev'[e] = ev[e]
    OBVIOUS
  <2> QED
    BY RowStep DEF Terminal, Fenced
<1> QED
  BY <1>1, OutboxInvariance, PTL DEF OutboxSpec, SettledIsFinal

-----------------------------------------------------------------------------
(* The history. *)

\* The reasons are carried from the handler's return to the settlement: a
\* worker about to mark an event done saw a success, and a worker about to
\* report a failure of a row it still holds saw one more than the row counts.
HistInv ==
    /\ hist \in [Events -> History]
    /\ \A w \in Workers : wk[w].pc = "ok" => hist[wk[w].cur].ok
    /\ \A e \in Events : ev[e].status = "done" => hist[e].ok
    /\ \A e \in Events : ev[e].retries <= hist[e].errors
    /\ \A w \in Workers :
          wk[w].pc = "error" /\ Fenced(w, wk[w].cur)
          => ev[wk[w].cur].retries + 1 <= hist[wk[w].cur].errors

\* What every step but a handler's return does to the rows and the workers.
Quiet ==
    /\ \A w \in Workers :
          wk'[w].pc \in {"ok", "error"} => wk'[w].pc = wk[w].pc /\ wk'[w].cur = wk[w].cur
    /\ \A e \in Events :
          ev'[e].status = "done"
          => ev[e].status = "done" \/ \E w \in Workers : wk[w].pc = "ok" /\ wk[w].cur = e
    /\ \A e \in Events :
          \/ ev'[e].retries \in {0, ev[e].retries}
          \/ /\ ev'[e].retries = ev[e].retries + 1
             /\ \E w \in Workers : wk[w].pc = "error" /\ wk[w].cur = e /\ Fenced(w, e)
    /\ \A e \in Events, w \in Workers :
          /\ wk[w].pc = "error" /\ wk'[w].pc = "error" /\ wk[w].cur = e
          /\ ev'[e].status = "leased" /\ ev'[e].owner = w
          => Fenced(w, e) /\ ev'[e].retries = ev[e].retries

-----------------------------------------------------------------------------

(* The history only grows.                                                 *)
LEMMA HistoryGrows ==
    ASSUME hist \in [Events -> History], hist' = [e \in Events |-> Record(e)]
    PROVE  /\ hist' \in [Events -> History]
           /\ \A e \in Events : /\ hist[e].ok => hist'[e].ok
                                /\ hist[e].errors <= hist'[e].errors
<1>1. ASSUME NEW e \in Events
      PROVE  /\ Record(e) \in History
             /\ hist[e].ok => Record(e).ok
             /\ hist[e].errors <= Record(e).errors
  <2>1. hist[e].ok \in BOOLEAN /\ hist[e].errors \in 0..MaxAttempts
    BY DEF History
  <2>2. PICK b \in BOOLEAN : b = (hist[e].ok \/ ReturnedNow(e, "ok"))
    OBVIOUS
  <2>3. PICK n : n = IF ReturnedNow(e, "error") /\ hist[e].errors < MaxAttempts
                     THEN hist[e].errors + 1 ELSE hist[e].errors
    OBVIOUS
  <2>4. n \in 0..MaxAttempts /\ hist[e].errors <= n
    BY <2>1, <2>3, OutboxAssumption
  <2>5. Record(e) = [ok |-> b, errors |-> n]
    BY <2>2, <2>3 DEF Record
  <2> QED
    BY <2>2, <2>4, <2>5 DEF History
<1> QED
  BY <1>1

(* A step that is no handler's return is quiet.                            *)
LEMMA QuietSteps ==
    ASSUME OutboxInv, OutboxNext,
           ~ \E w \in Workers, o \in Outcomes : HandlerReturns(w, o)
    PROVE  Quiet
<1>t. /\ ev \in [Events -> EventRow] /\ wk \in [Workers -> WorkerState]
      /\ CurInv /\ OwnerInv
  BY DEF OutboxInv, OutboxTypeOK
<1>1. ASSUME NEW e \in Events, Append(e) PROVE Quiet
  <2>1. PICK d \in BOOLEAN : ev' = Appended(ev, e, d)
    BY <1>1 DEF Append
  <2>2. \A f \in Events : \/ ev'[f] = ev[f]
                          \/ ev'[f].status = "pending" /\ ev'[f].retries = 0
    BY <2>1, AppendedKeeps
  <2> QED
    BY <2>2, <1>1 DEF Append, Quiet, Fenced
<1>2. ASSUME UNCHANGED wk,
             \A f \in Events : /\ ev'[f].status = ev[f].status
                               /\ ev'[f].owner = ev[f].owner
                               /\ ev'[f].retries = ev[f].retries
      PROVE Quiet
  BY <1>2 DEF Quiet, Fenced
<1>3. ASSUME NEW e \in Events, BecomesDue(e) PROVE Quiet
  BY <1>2, <1>3, <1>t DEF BecomesDue, EventRow
<1>4. ASSUME NEW e \in Events, LeaseExpires(e) PROVE Quiet
  <2>1. ev' = [ev EXCEPT ![e].expired = TRUE] /\ UNCHANGED wk
    BY <1>4 DEF LeaseExpires
  <2> QED
    BY <1>2, <2>1, <1>t DEF EventRow
<1>5. ASSUME NEW w \in Workers, Heartbeat(w) PROVE Quiet
  <2>1. ev' = [ev EXCEPT ![wk[w].cur].expired = FALSE] /\ UNCHANGED wk
    BY <1>5 DEF Heartbeat
  <2> QED
    BY <1>2, <2>1, <1>t DEF EventRow
<1>6. ASSUME NEW w \in Workers, NEW S \in SUBSET Events, ClaimBatch(w, S) PROVE Quiet
  <2>1. \A f \in Events : \/ ev'[f] = ev[f]
                          \/ /\ ev'[f].status = "leased" /\ ev'[f].owner = w
                             /\ ev'[f].retries = ev[f].retries
    BY <1>6 DEF ClaimBatch, Row
  <2>2. /\ wk[w].pc = "idle"
        /\ \A v \in Workers : wk'[v].pc = wk[v].pc /\ wk'[v].cur = wk[v].cur
    BY <1>6, <1>t DEF ClaimBatch, WorkerState
  <2> QED
    BY <2>1, <2>2 DEF Quiet, Fenced
<1>7. ASSUME UNCHANGED ev, NEW w \in Workers,
             \A v \in Workers : v # w => wk'[v] = wk[v],
             wk'[w].pc \notin {"ok", "error"}
      PROVE Quiet
  BY <1>7 DEF Quiet, Fenced
<1>8. ASSUME NEW w \in Workers, NEW e \in Events, Dispatch(w, e) PROVE Quiet
  BY <1>7, <1>8, <1>t DEF Dispatch, WorkerState
<1>9. ASSUME NEW w \in Workers, HandleDeadLetter(w) PROVE Quiet
  BY <1>7, <1>9, <1>t DEF HandleDeadLetter, NextEvent, WorkerState
<1>10. ASSUME NEW w \in Workers, Crash(w) PROVE Quiet
  BY <1>7, <1>10, <1>t DEF Crash, Idle, WorkerState
<1>11. ASSUME NEW w \in Workers, Settle(w) PROVE Quiet
  <2>e. PICK e \in Events : e = wk[w].cur
    BY <1>11, <1>t DEF Settle, MarkDone, DeferSameEvent, RescheduleOrDeadLetter, CurInv
  <2>w. /\ \A v \in Workers : v # w => wk'[v] = wk[v]
        /\ wk'[w].pc \notin {"ok", "error"}
    <3>1. NextEvent(w) \/ wk' = [wk EXCEPT ![w].pc = "dead"]
      BY <1>11 DEF Settle, MarkDone, DeferSameEvent, RescheduleOrDeadLetter
    <3> QED
      BY <3>1, <1>t DEF NextEvent, WorkerState
  <2>1. CASE UNCHANGED ev
    BY <2>1, <2>w, <1>7
  <2>2. ASSUME Fenced(w, e), NEW row, ev' = [ev EXCEPT ![e] = row],
               row.status = "done" => wk[w].pc = "ok", row.status # "leased",
               \/ row.retries = ev[e].retries
               \/ row.retries = ev[e].retries + 1 /\ wk[w].pc = "error"
        PROVE  Quiet
    <3>1. \A f \in Events : f # e => ev'[f] = ev[f]
      BY <2>2, <1>t
    <3>2. ev'[e] = row
      BY <2>2, <1>t
    <3> QED
      BY <3>1, <3>2, <2>2, <2>w, <2>e DEF Quiet, Fenced
  <2>3. CASE MarkDone(w) /\ Fenced(w, e)
    <3>1. ev' = [ev EXCEPT ![e] = Row("done", None, ev[e].retries, TRUE)] /\ wk[w].pc = "ok"
      BY <2>3, <2>e DEF MarkDone
    <3>2. /\ Row("done", None, ev[e].retries, TRUE).status = "done"
          /\ Row("done", None, ev[e].retries, TRUE).retries = ev[e].retries
      BY DEF Row
    <3> QED
      BY <3>1, <3>2, <2>3, <2>2
  <2>4. CASE DeferSameEvent(w) /\ Fenced(w, e)
    <3>1. ev' = [ev EXCEPT ![e] = Row("pending", None, ev[e].retries, FALSE)]
      BY <2>4, <2>e DEF DeferSameEvent, Deferred
    <3>2. /\ Row("pending", None, ev[e].retries, FALSE).status = "pending"
          /\ Row("pending", None, ev[e].retries, FALSE).retries = ev[e].retries
      BY DEF Row
    <3> QED
      BY <3>1, <3>2, <2>4, <2>2
  <2>5. CASE RescheduleOrDeadLetter(w) /\ Fenced(w, e)
    <3>d. PICK n : n = ev[e].retries + 1
      OBVIOUS
    <3>1. /\ wk[w].pc = "error"
          /\ \/ ev' = [ev EXCEPT ![e] = Row("pending", None, n, FALSE)]
             \/ ev' = [ev EXCEPT ![e] = Row("dead", None, n, TRUE)]
      BY <2>5, <2>e, <3>d DEF RescheduleOrDeadLetter
    <3>2. /\ Row("pending", None, n, FALSE).status = "pending"
          /\ Row("pending", None, n, FALSE).retries = n
          /\ Row("dead", None, n, TRUE).status = "dead"
          /\ Row("dead", None, n, TRUE).retries = n
      BY DEF Row
    <3> QED
      BY <3>1, <3>2, <3>d, <2>5, <2>2
  <2>6. CASE ~Fenced(w, e)
    <3>1. UNCHANGED ev
      BY <2>6, <2>e, <1>11 DEF Settle, MarkDone, DeferSameEvent, RescheduleOrDeadLetter
    <3> QED
      BY <3>1, <2>1
  <2> QED
    BY <1>11, <2>3, <2>4, <2>5, <2>6 DEF Settle
<1> QED
  BY <1>1, <1>3, <1>4, <1>5, <1>6, <1>8, <1>9, <1>10, <1>11 DEF OutboxNext, Settle

-----------------------------------------------------------------------------

(* Every step keeps the history invariant.                                 *)
LEMMA HistInvStep ==
    OutboxInv /\ OutboxInv' /\ HistInv /\ [HistoryNext]_historyVars => HistInv'
<1> SUFFICES ASSUME OutboxInv, OutboxInv', HistInv, [HistoryNext]_historyVars
             PROVE  HistInv'
  OBVIOUS
<1>t. /\ wk \in [Workers -> WorkerState] /\ ev \in [Events -> EventRow] /\ CurInv /\ BudgetInv
      /\ ev' \in [Events -> EventRow] /\ CurInv'
  BY DEF OutboxInv, OutboxTypeOK
<1>n. MaxAttempts \in Nat
  BY OutboxAssumption
<1>r. /\ \A e \in Events : ev[e].retries \in Nat /\ ev'[e].retries \in Nat
      /\ \A e \in Events : hist[e].errors \in Nat
  BY <1>t, <1>n DEF EventRow, HistInv, History
<1>u. CASE UNCHANGED historyVars
  BY <1>u DEF historyVars, HistInv, Fenced
<1>h. CASE HistoryNext
  <2>0. OutboxNext /\ hist' = [e \in Events |-> Record(e)]
    BY <1>h DEF HistoryNext
  <2>g. /\ hist' \in [Events -> History]
        /\ \A e \in Events : /\ hist[e].ok => hist'[e].ok
                             /\ hist[e].errors <= hist'[e].errors
    BY <2>0, HistoryGrows DEF HistInv
  <2>s. \A e \in Events : hist'[e].errors \in Nat
    BY <2>g, <1>n DEF History
  <2>1. ASSUME NEW w \in Workers, NEW o \in Outcomes, HandlerReturns(w, o) PROVE HistInv'
    <3>e. PICK c \in Events : c = wk[w].cur
      BY <2>1, <1>t DEF HandlerReturns, CurInv
    <3>1. /\ UNCHANGED ev /\ wk[w].pc = "running" /\ wk'[w].pc = o /\ wk'[w].cur = c
          /\ \A v \in Workers : v # w => wk'[v] = wk[v]
      BY <2>1, <3>e, <1>t DEF HandlerReturns, Returns, WorkerState
    <3>2. o = "ok" => hist'[c].ok
      BY <2>0, <3>1, <3>e DEF Record, ReturnedNow
    <3>3. ev[c].status = "leased" => ev[c].retries < MaxAttempts
      BY <1>t DEF BudgetInv
    <3>4. o = "error" /\ ev[c].status = "leased" => ev[c].retries + 1 <= hist'[c].errors
      <4> SUFFICES ASSUME o = "error", ev[c].status = "leased"
                   PROVE  ev[c].retries + 1 <= hist'[c].errors
        OBVIOUS
      <4>1. ReturnedNow(c, "error")
        BY <3>1, <3>e DEF ReturnedNow
      <4>2. hist'[c].errors = IF hist[c].errors < MaxAttempts
                              THEN hist[c].errors + 1 ELSE hist[c].errors
        BY <2>0, <4>1 DEF Record
      <4>3. ev[c].retries <= hist[c].errors
        BY DEF HistInv
      <4> QED
        BY <4>2, <4>3, <3>3, <1>r, <1>n
    <3>5. \A v \in Workers : wk'[v].pc = "ok" => hist'[wk'[v].cur].ok
      <4> SUFFICES ASSUME NEW v \in Workers, wk'[v].pc = "ok" PROVE hist'[wk'[v].cur].ok
        OBVIOUS
      <4>1. CASE v = w
        BY <4>1, <3>1, <3>2
      <4>2. CASE v # w
        BY <4>2, <3>1, <2>g, <1>t DEF HistInv, CurInv
      <4> QED
        BY <4>1, <4>2
    <3>6. \A v \in Workers :
             wk'[v].pc = "error" /\ ev'[wk'[v].cur].status = "leased" /\ ev'[wk'[v].cur].owner = v
             => ev'[wk'[v].cur].retries + 1 <= hist'[wk'[v].cur].errors
      <4> SUFFICES ASSUME NEW v \in Workers, wk'[v].pc = "error",
                          ev'[wk'[v].cur].status = "leased", ev'[wk'[v].cur].owner = v
                   PROVE  ev'[wk'[v].cur].retries + 1 <= hist'[wk'[v].cur].errors
        OBVIOUS
      <4>1. CASE v = w
        BY <4>1, <3>1, <3>4
      <4>2. CASE v # w
        <5>1. PICK f \in Events : f = wk[v].cur /\ f = wk'[v].cur
          BY <4>2, <3>1, <1>t DEF CurInv
        <5>2. ev[f].retries + 1 <= hist[f].errors
          BY <4>2, <5>1, <3>1 DEF HistInv, Fenced
        <5> QED
          BY <5>1, <5>2, <3>1, <2>g, <2>s, <1>r
      <4> QED
        BY <4>1, <4>2
    <3>7. \A e \in Events : ev'[e].retries <= hist'[e].errors
      BY <3>1, <2>g, <2>s, <1>r DEF HistInv
    <3> QED
      BY <3>1, <3>5, <3>6, <3>7, <2>g DEF HistInv, Fenced
  <2>2. CASE ~ \E w \in Workers, o \in Outcomes : HandlerReturns(w, o)
    <3>q. Quiet
      BY <2>0, <2>2, QuietSteps
    <3>1. \A v \in Workers : wk'[v].pc = "ok" => hist'[wk'[v].cur].ok
      BY <3>q, <2>g, <1>t DEF Quiet, HistInv, CurInv
    <3>2. \A e \in Events : ev'[e].status = "done" => hist'[e].ok
      BY <3>q, <2>g DEF Quiet, HistInv
    <3>3. ASSUME NEW e \in Events PROVE ev'[e].retries <= hist'[e].errors
      <4>1. CASE ev'[e].retries \in {0, ev[e].retries}
        BY <4>1, <2>g, <2>s, <1>r DEF HistInv
      <4>2. CASE /\ ev'[e].retries = ev[e].retries + 1
                 /\ \E w \in Workers : wk[w].pc = "error" /\ wk[w].cur = e /\ Fenced(w, e)
        <5>1. ev[e].retries + 1 <= hist[e].errors
          BY <4>2 DEF HistInv
        <5> QED
          BY <5>1, <4>2, <2>g, <2>s, <1>r
      <4> QED
        BY <4>1, <4>2, <3>q DEF Quiet
    <3>4. ASSUME NEW v \in Workers, wk'[v].pc = "error",
                 ev'[wk'[v].cur].status = "leased", ev'[wk'[v].cur].owner = v
          PROVE  ev'[wk'[v].cur].retries + 1 <= hist'[wk'[v].cur].errors
      <4>1. PICK e \in Events : e = wk'[v].cur /\ e = wk[v].cur /\ wk[v].pc = "error"
        BY <3>4, <3>q, <1>t DEF Quiet, CurInv
      <4>2. Fenced(v, e) /\ ev'[e].retries = ev[e].retries
        BY <4>1, <3>4, <3>q DEF Quiet
      <4>3. ev[e].retries + 1 <= hist[e].errors
        BY <4>1, <4>2 DEF HistInv
      <4> QED
        BY <4>1, <4>2, <4>3, <2>g, <2>s, <1>r
    <3> QED
      BY <3>1, <3>2, <3>3, <3>4, <2>g DEF HistInv, Fenced
  <2> QED
    BY <2>1, <2>2
<1> QED
  BY <1>u, <1>h

(* The history starts empty.                                               *)
LEMMA HistInvInit == HistoryInit => HistInv
  BY OutboxAssumption
  DEF HistoryInit, OutboxInit, HistInv, History, Row, Idle, Fenced

(* An event is done only after a success of its handler and dead only      *)
(* after MaxAttempts failures of it: whatever is delivered twice, deferred,*)
(* overtaken or lost in a crash, in any number of workers.                 *)
THEOREM EventsSettleForAReason == HistorySpec => []SettledForAReason
<1>1. HistoryInit => OutboxInv /\ HistInv
  BY OutboxInvInit, HistInvInit DEF HistoryInit
<1>2. OutboxInv /\ HistInv /\ [HistoryNext]_historyVars => (OutboxInv /\ HistInv)'
  <2>1. [HistoryNext]_historyVars => [OutboxNext]_outboxVars
    BY DEF HistoryNext, historyVars, outboxVars
  <2> QED
    BY <2>1, OutboxInvStep, HistInvStep
<1>3. OutboxInv /\ HistInv => SettledForAReason
  <2> SUFFICES ASSUME OutboxInv, HistInv, NEW e \in Events, ev[e].status = "dead"
               PROVE  hist[e].errors = MaxAttempts
    BY DEF SettledForAReason, HistInv
  <2>1. ev[e].retries = MaxAttempts /\ ev[e].retries <= hist[e].errors
    BY DEF OutboxInv, BudgetInv, HistInv
  <2>2. hist[e].errors \in 0..MaxAttempts /\ MaxAttempts \in Nat
    BY OutboxAssumption DEF HistInv, History
  <2> QED
    BY <2>1, <2>2
<1> QED
  BY <1>1, <1>2, <1>3, PTL DEF HistorySpec
=============================================================================
