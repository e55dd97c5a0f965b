------------------------------- MODULE Outbox -------------------------------
(***************************************************************************)
(* The transactional outbox (platform-backend/app/outbox).                 *)
(*                                                                         *)
(* Producers append events in their own transactions.  Worker processes    *)
(* claim batches of due events under a lease, run the registered handler   *)
(* of each claimed event one after the other, and settle every event in a  *)
(* transaction of its own: done, pending again, or dead.  Only the event   *)
(* whose handler is running has a heartbeat; the others of the batch wait  *)
(* with the lease they were claimed with.                                  *)
(*                                                                         *)
(* A handler is seen through how it returns; RenderJob replaces that step  *)
(* by the code of the render handlers.  Time is two facts about a row:     *)
(* due (available_at <= now()) and expired (lease_until <= now()).         *)
(***************************************************************************)
EXTENDS Naturals, FiniteSets

CONSTANTS
    Events,      \* (event_type, aggregate_id, idempotency_key) triples
    Workers,     \* outbox worker processes
    None,        \* SQL NULL
    BatchSize,   \* outbox_claim_batch_size
    MaxAttempts, \* outbox_max_attempts
    Timely,      \* no lease runs out under a prompt worker: see LeaseExpires
    MaxCrashes   \* bound: worker processes that die

ASSUME OutboxAssumption ==
    /\ None \notin Events \cup Workers
    /\ BatchSize \in Nat \ {0}
    /\ MaxAttempts \in Nat \ {0}
    /\ Timely \in BOOLEAN
    /\ MaxCrashes \in Nat

VARIABLES
    ev,      \* [Events -> outbox_events row]
    wk,      \* [Workers -> what the process is doing]
    crashes  \* worker crashes so far

outboxVars == <<ev, wk, crashes>>

Statuses == {"none", "pending", "leased", "done", "dead"}
Outcomes == {"ok", "defer", "error"}

Row(s, o, r, d) ==
    [status |-> s, owner |-> o, expired |-> FALSE, retries |-> r, due |-> d]
\* A worker process between two polls.  A restarted process has a new worker
\* id (worker.py:70), so it never passes for the owner of an old lease.
Idle == [pc |-> "idle", batch |-> {}, cur |-> None]

EventRow == [status: Statuses, owner: Workers \cup {None}, expired: BOOLEAN,
             retries: 0..MaxAttempts, due: BOOLEAN]
WorkerState == [pc: {"idle", "running", "dead"} \cup Outcomes,
                batch: SUBSET Events, cur: Events \cup {None}]

\* Every event has its type, every worker its state.
OutboxTypeOK ==
    /\ ev \in [Events -> EventRow]
    /\ wk \in [Workers -> WorkerState]
    /\ crashes \in 0..MaxCrashes

OutboxInit ==
    /\ ev = [e \in Events |-> Row("none", None, 0, FALSE)]
    /\ wk = [w \in Workers |-> Idle]
    /\ crashes = 0

-----------------------------------------------------------------------------
(* Producers. *)

\* append(e) with ON CONFLICT DO UPDATE.
AppendedUpsert(rows, e, d) == [rows EXCEPT ![e] = Row("pending", None, 0, d)]

\* The table after append(e): ON CONFLICT DO NOTHING keeps the first row.
Appended(rows, e, d) ==
    IF rows[e].status = "none"
    THEN [rows EXCEPT ![e] = Row("pending", None, 0, d)]
    ELSE rows

\* A business transaction, or the scheduling pass of a worker, appends e,
\* for now or for later.
Append(e) ==
    /\ \E d \in BOOLEAN : ev' = Appended(ev, e, d)
    /\ UNCHANGED <<wk, crashes>>

-----------------------------------------------------------------------------
(* Time. *)

BecomesDue(e) ==
    /\ ev[e].status = "pending" /\ ~ev[e].due
    /\ ev' = [ev EXCEPT ![e].due = TRUE]
    /\ UNCHANGED <<wk, crashes>>

\* The process w is between the dispatch of e and its settlement, the time
\* its heartbeat task lives.
Handling(w, e) == wk[w].cur = e /\ wk[w].pc \in {"running"} \cup Outcomes

\* If Timely, every heartbeat lands in time and a free worker dispatches at
\* once, so a lease runs out only while its event waits behind another one,
\* or after its owner died.
LeaseExpires(e) ==
    /\ ev[e].status = "leased" /\ ~ev[e].expired
    /\ LET w == ev[e].owner IN
       Timely => ~Handling(w, e) /\ (e \in wk[w].batch => wk[w].pc # "idle")
    /\ ev' = [ev EXCEPT ![e].expired = TRUE]
    /\ UNCHANGED <<wk, crashes>>

-----------------------------------------------------------------------------
(* The worker process. *)

\* Claiming pending rows only.
ClaimablePendingOnly(e) == ev[e].status = "pending" /\ ev[e].due

\* What claim_due_batch selects from.
Claimable(e) ==
    \/ ev[e].status = "pending" /\ ev[e].due
    \/ ev[e].status = "leased" /\ ev[e].expired

\* claim_due_batch: LIMIT BatchSize rows; SKIP LOCKED may leave out any row
\* that another transaction holds.
ClaimBatch(w, S) ==
    /\ wk[w].pc = "idle" /\ wk[w].batch = {}
    /\ S # {} /\ Cardinality(S) <= BatchSize
    /\ \A e \in S : Claimable(e)
    /\ ev' = [e \in Events |-> IF e \in S THEN Row("leased", w, ev[e].retries, TRUE)
                                          ELSE ev[e]]
    /\ wk' = [wk EXCEPT ![w].batch = S]
    /\ UNCHANGED crashes

\* The loop of poll_once starts the next claimed event, in the order UPDATE
\* ... RETURNING happened to give; the row is not read again.
Dispatch(w, e) ==
    /\ wk[w].pc = "idle" /\ e \in wk[w].batch
    /\ wk' = [wk EXCEPT ![w] = [pc |-> "running", batch |-> @.batch \ {e}, cur |-> e]]
    /\ UNCHANGED <<ev, crashes>>

\* A settlement's WHERE clause without lease_owner.
FencedByStatus(w, e) == ev[e].status = "leased"

\* A row this worker still holds: the WHERE clause of every settlement.
Fenced(w, e) == ev[e].status = "leased" /\ ev[e].owner = w

\* _renew_lease_until_cancelled, from dispatch to settlement.
Heartbeat(w) ==
    /\ wk[w].pc \in {"running"} \cup Outcomes
    /\ Fenced(w, wk[w].cur) /\ ev[wk[w].cur].expired
    /\ ev' = [ev EXCEPT ![wk[w].cur].expired = FALSE]
    /\ UNCHANGED <<wk, crashes>>

\* The handler is over, with result o; nothing is settled yet.
Returns(w, o) ==
    /\ wk' = [wk EXCEPT ![w].pc = o]
    /\ UNCHANGED <<ev, crashes>>

HandlerReturns(w, o) == wk[w].pc = "running" /\ Returns(w, o)

\* Back to the loop of poll_once.
NextEvent(w) == wk' = [wk EXCEPT ![w].pc = "idle", ![w].cur = None]

MarkDone(w) ==
    LET e == wk[w].cur IN
    /\ wk[w].pc = "ok"
    /\ ev' = IF Fenced(w, e)
             THEN [ev EXCEPT ![e] = Row("done", None, ev[e].retries, TRUE)]
             ELSE ev
    /\ NextEvent(w)
    /\ UNCHANGED crashes

\* A deferral that spends the retry budget.
DeferredAsFailure(row) ==
    IF row.retries + 1 >= MaxAttempts
    THEN Row("dead", None, MaxAttempts, FALSE)
    ELSE Row("pending", None, row.retries + 1, FALSE)

Deferred(row) == Row("pending", None, row.retries, FALSE)

DeferSameEvent(w) ==
    LET e == wk[w].cur IN
    /\ wk[w].pc = "defer"
    /\ ev' = IF Fenced(w, e) THEN [ev EXCEPT ![e] = Deferred(ev[e])] ELSE ev
    /\ NextEvent(w)
    /\ UNCHANGED crashes

\* reschedule_or_dead_letter; the transaction that makes an event dead is
\* followed, outside it, by the dead-letter handler.
RescheduleOrDeadLetter(w) ==
    LET e == wk[w].cur
        n == ev[e].retries + 1
    IN
    /\ wk[w].pc = "error"
    /\ \/ /\ ~Fenced(w, e)
          /\ NextEvent(w)
          /\ UNCHANGED ev
       \/ /\ Fenced(w, e) /\ n < MaxAttempts
          /\ ev' = [ev EXCEPT ![e] = Row("pending", None, n, FALSE)]
          /\ NextEvent(w)
       \/ /\ Fenced(w, e) /\ n >= MaxAttempts
          /\ ev' = [ev EXCEPT ![e] = Row("dead", None, n, TRUE)]
          /\ wk' = [wk EXCEPT ![w].pc = "dead"]
    /\ UNCHANGED crashes

\* handle_dead_letter; an exception in it is logged and forgotten.
HandleDeadLetter(w) ==
    /\ wk[w].pc = "dead"
    /\ NextEvent(w)
    /\ UNCHANGED <<ev, crashes>>

\* The process dies: killed, or by a database error in the claim, in a
\* settlement or in the heartbeat, none of which poll_once catches.
Crash(w) ==
    /\ crashes < MaxCrashes
    /\ wk[w] # Idle
    /\ wk' = [wk EXCEPT ![w] = Idle]
    /\ crashes' = crashes + 1
    /\ UNCHANGED ev

Settle(w) == MarkDone(w) \/ DeferSameEvent(w) \/ RescheduleOrDeadLetter(w)

OutboxNext ==
    \/ \E e \in Events : Append(e) \/ BecomesDue(e) \/ LeaseExpires(e)
    \/ \E w \in Workers :
          \/ \E S \in SUBSET Events : ClaimBatch(w, S)
          \/ \E e \in Events : Dispatch(w, e)
          \/ \E o \in Outcomes : HandlerReturns(w, o)
          \/ Heartbeat(w)
          \/ MarkDone(w)
          \/ DeferSameEvent(w)
          \/ RescheduleOrDeadLetter(w)
          \/ HandleDeadLetter(w)
          \/ Crash(w)

\* A claim by some worker that takes e.
ClaimOf(e) == \E w \in Workers, S \in SUBSET Events : e \in S /\ ClaimBatch(w, S)

\* Clocks advance, loops make progress, handlers end (their I/O has timeouts),
\* and ORDER BY available_at lets no due event be passed over for ever.
OutboxFairness ==
    /\ \A e \in Events : WF_outboxVars(BecomesDue(e)) /\ WF_outboxVars(LeaseExpires(e))
    /\ \A e \in Events : SF_outboxVars(ClaimOf(e))
    /\ \A w \in Workers :
          /\ WF_outboxVars(\E e \in Events : Dispatch(w, e))
          /\ WF_outboxVars(\E o \in Outcomes : HandlerReturns(w, o))
          /\ WF_outboxVars(Settle(w))
          /\ WF_outboxVars(HandleDeadLetter(w))

OutboxSpec == OutboxInit /\ [][OutboxNext]_outboxVars

-----------------------------------------------------------------------------
(* Properties. *)

Terminal(e) == ev[e].status \in {"done", "dead"}

(* While a lease has not run out, only its owner ends it, and only after   *)
(* its own handler of that event returned: a worker that lost an event and *)
(* settles late changes nothing (lease_owner in mark_done,                 *)
(* defer_same_event, reschedule_or_dead_letter).                           *)
LeaseRespected ==
    [][\A e \in Events :
          /\ ev[e].status = "leased" /\ ~ev[e].expired
          /\ ev'[e].status # "leased" \/ ev'[e].owner # ev[e].owner
          => /\ wk[ev[e].owner].cur = e
             /\ wk[ev[e].owner].pc \in Outcomes
             /\ wk'[ev[e].owner].pc \in {"idle", "dead"}]_outboxVars

(* A settled event stays settled, whatever late workers, duplicate appends *)
(* and restarts do (append's ON CONFLICT DO NOTHING).                      *)
SettledIsFinal ==
    [][\A e \in Events : Terminal(e) => ev'[e] = ev[e]]_outboxVars

(* An appended event is handed to a handler or settled, again and again:   *)
(* a worker that dies with a batch, or that is slow, delays an event but   *)
(* never loses it (claim_due_batch takes expired leases).                  *)
EveryEventIsServed ==
    \A e \in Events :
        ev[e].status \in {"pending", "leased"}
            ~> (Terminal(e) \/ \E w \in Workers : Handling(w, e))
=============================================================================
