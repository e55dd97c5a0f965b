--------------------------- MODULE OutboxHistory ---------------------------
(***************************************************************************)
(* Outbox with a history variable: what the handlers of each event did.    *)
(* No action of Outbox reads it, so it restricts no behaviour; it lets the *)
(* properties speak of handler runs that the database keeps no trace of.   *)
(***************************************************************************)
EXTENDS Outbox

VARIABLE hist  \* [Events -> [ok, errors]]

historyVars == <<ev, wk, crashes, hist>>

History == [ok: BOOLEAN, errors: 0..MaxAttempts]

\* The outbox is well typed, and so is its history.
HistoryTypeOK == OutboxTypeOK /\ hist \in [Events -> History]

HistoryInit ==
    /\ OutboxInit
    /\ hist = [e \in Events |-> [ok |-> FALSE, errors |-> 0]]

\* In this step a handler of e returns o.
ReturnedNow(e, o) ==
    \E w \in Workers : wk[w].pc = "running" /\ wk[w].cur = e /\ wk'[w].pc = o

\* The error counter stops at MaxAttempts, the only value it is compared with.
Record(e) ==
    [ok |-> hist[e].ok \/ ReturnedNow(e, "ok"),
     errors |-> IF ReturnedNow(e, "error") /\ hist[e].errors < MaxAttempts
                THEN hist[e].errors + 1 ELSE hist[e].errors]

HistoryNext == OutboxNext /\ hist' = [e \in Events |-> Record(e)]

HistorySpec == HistoryInit /\ [][HistoryNext]_historyVars
FairHistorySpec == HistorySpec /\ OutboxFairness

-----------------------------------------------------------------------------
(* Properties. *)

(* An event is done only if one of its handlers succeeded, and dead only   *)
(* if its handlers failed MaxAttempts times: deliveries, deferrals, lost   *)
(* leases and crashes spend none of the retry budget (retry_count against  *)
(* attempt_count in reschedule_or_dead_letter).                            *)
SettledForAReason ==
    \A e \in Events :
        /\ ev[e].status = "done" => hist[e].ok
        /\ ev[e].status = "dead" => hist[e].errors = MaxAttempts
============================================================================
