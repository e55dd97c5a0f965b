--------------------------- MODULE FieldSessions ---------------------------
(***************************************************************************)
(* The interactive map of a Compute node (backend/src/api/routes_map.cpp). *)
(* A browser starts a field session and polls it while a detached worker   *)
(* renders; a newer request for the same preemption key sets the cancel    *)
(* flag of the older one.  A reaper thread, every start and every worker   *)
(* that ends prune the registry.  Results are encoded outside the locks,   *)
(* by readers that pin the session.                                        *)
(*                                                                         *)
(* A step is one critical section of the registry, session or preemption   *)
(* mutex.  Clocks appear as the order of sessions by last access and by    *)
(* finish, and as the fact that the oldest of them is past its limit.      *)
(***************************************************************************)
EXTENDS Integers, Sequences, FiniteSets, FiniteSetsExt, SequencesExt

CONSTANTS
  Views,       \* the views asked for: preemption key, sequence number, bytes of the field
  BudgetBytes, \* MAX_INTERACTIVE_FIELD_RESERVED_BYTES
  MaxRunning,  \* MAX_RUNNING_INTERACTIVE_FIELDS
  MaxRetained, \* MAX_RETAINED_TERMINAL_INTERACTIVE_FIELDS
  MaxEntries,  \* MAX_INTERACTIVE_MAP_PREEMPT_ENTRIES
  Tiles,       \* rectangles of a field
  MaxRequests, \* bound: sessions and inline renders
  MaxReaders,  \* bound: result requests of a session at a time
  MaxFails     \* bound: renders and thread starts that fail

ASSUME FieldAssumption ==
  /\ \A v \in Views : v[2] \in Nat /\ v[3] \in 1..BudgetBytes
  /\ {BudgetBytes, MaxRunning, MaxRetained, MaxEntries, Tiles, MaxRequests, MaxReaders, MaxFails} \subseteq Nat

VARIABLES
  s,        \* the requests: sessions and inline renders
  served,   \* requests so far
  access,   \* the running sessions by lastAccess
  finished, \* the ended sessions of the registry by finish
  entry,    \* g_interactive_map_preempt
  pinned,   \* result requests between the pin and the gate
  open,     \* the browsers are still there
  gate,     \* g_interactive_field_result_encoding: the session it is held for
  fails     \* failures so far

fvars == <<s, served, access, finished, entry, pinned, gate, fails, open>>

Requests == 1..MaxRequests
Keys     == {v[1] : v \in Views}
NoOne    == 0    \* no request
Closing  == -1   \* the gate is held by a response that has released its reader

Terminal == {"completed", "cancelled", "failed"}
Absent   == [seq |-> -1, flag |-> NoOne]

Fresh == [kind |-> "none", key |-> "none", seq |-> 0, flag |-> FALSE, state |-> "running",
          pc |-> "none", reg |-> FALSE, size |-> 0, bytes |-> 0, tiles |-> 0,
          delivered |-> FALSE, readers |-> 0, old |-> FALSE]

\* The object of a request is destroyed with its last holder.
Dropped == [Fresh EXCEPT !.pc = "gone"]

FieldInit ==
  /\ s = [i \in Requests |-> Fresh]
  /\ served = 0
  /\ access = << >> /\ finished = << >>
  /\ entry = [k \in Keys |-> Absent]
  /\ pinned = [i \in Requests |-> 0]
  /\ gate = NoOne
  /\ fails = 0
  /\ open = TRUE

Live(t)    == {i \in Requests : t[i].reg /\ t[i].state = "running"}
Ended(t)   == {i \in Requests : t[i].reg /\ t[i].state \in Terminal}
Keep(q, S) == SelectSeq(q, LAMBDA i : i \in S)

\* The n of S that come first in the list q.
First(q, S, n) ==
  LET Before(i) == {j \in S : \E a, b \in 1..Len(q) : a < b /\ q[a] = j /\ q[b] = i}
  IN  {i \in S : Cardinality(Before(i)) < n}

\* The registry lists of the sessions t: erased and ended sessions leave.
Listed(t) == access' = Keep(access, Live(t)) /\ finished' = Keep(finished, Ended(t))
------------------------------------------------------------------------------
(* The preemption registry. *)

\* Somebody still holds the shared flag of request i.
HoldsFlag(t, i) == i # NoOne /\ (t[i].reg \/ t[i].pc \notin {"none", "gone"} \/ t[i].readers > 0)

PruneEntries(e, t) == [k \in Keys |-> IF HoldsFlag(t, e[k].flag) THEN e[k] ELSE Absent]

\* Mutant: a full table is emptied.
RoomEmptied(e, t) ==
  IF Cardinality({k \in Keys : e[k].seq # -1}) >= MaxEntries THEN [k \in Keys |-> Absent] ELSE e

\* The entries before a registration.
Room(e, t) == IF Cardinality({k \in Keys : e[k].seq # -1}) >= MaxEntries THEN PruneEntries(e, t) ELSE e

Accepts(e, k, q) == q >= e[k].seq

\* The flag of the request that held k's entry.
Preempted(t, e, k) ==
  IF HoldsFlag(t, e[k].flag) THEN [t EXCEPT ![e[k].flag].flag = TRUE] ELSE t
------------------------------------------------------------------------------
(* The session registry. *)

\* releaseInteractiveFieldBuffersLocked.
ReleaseBuffers(x) == [x EXCEPT !.bytes = 0, !.tiles = 0]

\* eraseInteractiveFieldSessionLocked, for the sessions of S.
Erase(t, S) ==
  [i \in Requests |-> IF i \notin S THEN t[i]
                      ELSE IF t[i].pc = "gone" /\ t[i].readers = 0 THEN Dropped
                      ELSE [t[i] EXCEPT !.reg = FALSE]]

Expired(t)    == {i \in Ended(t) : t[i].old /\ t[i].readers = 0}
Disposable(t) == {i \in Ended(t) \ Expired(t) :
                    (t[i].state # "completed" \/ t[i].delivered) /\ t[i].readers = 0}

\* pruneInteractiveFieldSessionsLocked: idle sessions are told to stop, expired
\* ones and all but the newest disposable ones are removed.
Prune(t) ==
  LET over == First(finished, Disposable(t), Cardinality(Disposable(t)) - MaxRetained)
      idle == {i \in Live(t) : t[i].old}
  IN  Erase([i \in Requests |-> IF i \in idle THEN [t[i] EXCEPT !.flag = TRUE] ELSE t[i]],
            Expired(t) \cup over)

\* The bytes of the fields of S, one by one.
Bytes(t, S) == {p \in S \X (1..BudgetBytes) : p[2] <= t[p[1]].bytes}

Registered(t)    == {i \in Requests : t[i].reg}
ReservedBytes(t) == Cardinality(Bytes(t, Registered(t)))

\* trimDeliveredInteractiveFieldsForBudgetLocked: the oldest acknowledged
\* fields go, as many as the new one needs.
Trim(t, need) ==
  LET c        == {i \in Ended(t) : t[i].state = "completed" /\ t[i].delivered
                                     /\ t[i].readers = 0 /\ t[i].bytes # 0}
      After(n) == Erase(t, First(finished, c, n))
      enough   == {n \in 0..Cardinality(c) : ReservedBytes(After(n)) <= BudgetBytes - need}
  IN  After(IF enough = {} THEN Cardinality(c) ELSE Min(enough))

\* Mutant: every retry asks one more session to stop.
MakeRoomAgain(t) ==
  LET victims == First(access, {i \in Live(t) : ~t[i].flag}, 1)
  IN  IF Cardinality(Live(t)) < MaxRunning THEN t
      ELSE [i \in Requests |-> IF i \in victims THEN [t[i] EXCEPT !.flag = TRUE] ELSE t[i]]

\* makeRoomForInteractiveFieldLocked: workers that wind down count as room.
MakeRoom(t) ==
  LET run     == {i \in Live(t) : ~t[i].flag}
      winding == Cardinality(Live(t)) - Cardinality(run)
      excess  == Cardinality(Live(t)) - MaxRunning + 1
      victims == First(access, run, excess - winding)
  IN  IF Cardinality(Live(t)) < MaxRunning THEN t
      ELSE [i \in Requests |-> IF i \in victims THEN [t[i] EXCEPT !.flag = TRUE] ELSE t[i]]

\* Mutant: only the fields of running sessions count against the budget.
BusyRunning(t, need) ==
  \/ Cardinality(Live(t)) >= MaxRunning
  \/ Cardinality(Bytes(t, Live(t))) > BudgetBytes - need

\* workersBusy, memoryBusy.
Busy(t, need) == Cardinality(Live(t)) >= MaxRunning \/ ReservedBytes(t) > BudgetBytes - need

\* A heartbeat: lastAccess of a running session.
Touch(t, i)  == IF i \in Live(t) THEN [t EXCEPT ![i].old = FALSE] ELSE t
Touched(t, i) == IF i \in Live(t) THEN Append(Keep(access, Live(t) \ {i}), i) ELSE Keep(access, Live(t))
------------------------------------------------------------------------------
(* Requests. *)

\* mapFieldSessionStartRoute finds the session of its view: the same request
\* gets its status, another one a conflict.
StartAgain(k, q, same) ==
  LET t == Prune(s)
      i == CHOOSE j \in Requests : t[j].reg /\ t[j].key = k /\ t[j].seq = q
  IN  /\ \E j \in Requests : t[j].reg /\ t[j].key = k /\ t[j].seq = q
      /\ s' = IF same THEN Touch(t, i) ELSE t
      /\ access' = IF same THEN Touched(t, i) ELSE Keep(access, Live(t))
      /\ finished' = Keep(finished, Ended(t))
      /\ UNCHANGED <<served, entry, pinned, gate, fails, open>>

\* mapFieldSessionStartRoute for a new view: registered, and then answered as
\* cancelled, refused as busy, or given a session.
StartNew(k, q, size) ==
  LET t == Prune(s)
      e == Room(entry, t)
      n == served + 1
      u == Trim(MakeRoom(Preempted(t, e, k)), size)
  IN  /\ ~\E j \in Requests : t[j].reg /\ t[j].key = k /\ t[j].seq = q
      /\ \/ /\ ~Accepts(e, k, q)
            /\ s' = t /\ entry' = e /\ Listed(t) /\ UNCHANGED served
         \/ /\ Accepts(e, k, q) /\ Busy(u, size)
            /\ s' = u /\ entry' = [e EXCEPT ![k] = [seq |-> q, flag |-> NoOne]]
            /\ Listed(u) /\ UNCHANGED served
         \/ /\ Accepts(e, k, q) /\ ~Busy(u, size) /\ n \in Requests
            /\ s' = [u EXCEPT ![n] = [Fresh EXCEPT !.kind = "session", !.key = k, !.seq = q, !.pc = "start",
                                                   !.reg = TRUE, !.size = size, !.bytes = size]]
            /\ entry' = [e EXCEPT ![k] = [seq |-> q, flag |-> n]]
            /\ access' = Append(Keep(access, Live(u)), n) /\ finished' = Keep(finished, Ended(u))
            /\ served' = n
  /\ UNCHANGED <<pinned, gate, fails, open>>

\* mapPreemptRoute registers a flag and lets go of it at once.
MapPreempt(k, q) ==
  LET e == Room(entry, s)
  IN  /\ s' = IF Accepts(e, k, q) THEN Preempted(s, e, k) ELSE s
      /\ entry' = IF Accepts(e, k, q) THEN [e EXCEPT ![k] = [seq |-> q, flag |-> NoOne]] ELSE e
      /\ UNCHANGED <<served, access, finished, pinned, gate, fails, open>>

\* An inline render that is the newest of its key holds its flag while it runs.
Inline(k, q) ==
  LET e == Room(entry, s)
      n == served + 1
  IN  /\ n \in Requests
      /\ Accepts(e, k, q)
      /\ s' = [Preempted(s, e, k) EXCEPT ![n] = [Fresh EXCEPT !.kind = "inline", !.key = k, !.seq = q, !.pc = "inline"]]
      /\ entry' = [e EXCEPT ![k] = [seq |-> q, flag |-> n]]
      /\ served' = n
      /\ UNCHANGED <<access, finished, pinned, gate, fails, open>>

\* mapRenderInlineRoute, mapFieldRoute: cancelled, completed or an error, the
\* flag is dropped.
InlineEnds(i) ==
  /\ s[i].pc = "inline"
  /\ s' = [s EXCEPT ![i] = Dropped]
  /\ UNCHANGED <<served, access, finished, entry, pinned, gate, fails, open>>

\* mapFieldSessionStatusRoute and mapFieldSessionSnapshotRoute.
Poll(i) ==
  /\ i \in Live(s)
  /\ s' = Touch(s, i)
  /\ access' = Touched(s, i)
  /\ UNCHANGED <<served, finished, entry, pinned, gate, fails, open>>
------------------------------------------------------------------------------
(* Workers. *)

\* The thread of a new session starts, or cannot be started.
StartWorker(i) ==
  /\ s[i].pc = "start"
  /\ \/ s' = [s EXCEPT ![i].pc = "render"] /\ UNCHANGED <<access, finished, fails, open>>
     \/ /\ fails < MaxFails /\ fails' = fails + 1
        /\ s' = [s EXCEPT ![i] = [ReleaseBuffers(@) EXCEPT !.state = "failed", !.pc = "unstart", !.old = FALSE]]
        /\ access' = Keep(access, Live(s) \ {i}) /\ finished' = Append(finished, i)
  /\ UNCHANGED <<served, entry, pinned, gate, open>>

\* The failed start leaves the registry and the view index.
StartUndone(i) ==
  /\ s[i].pc = "unstart"
  /\ s' = [s EXCEPT ![i] = Dropped]
  /\ finished' = Keep(finished, Ended(s) \ {i})
  /\ UNCHANGED <<served, access, entry, pinned, gate, fails, open>>

\* publishInteractiveFieldRect, a tile of a render that goes on.
PublishRect(i) ==
  /\ s[i].pc = "render" /\ s[i].tiles < Tiles
  /\ s' = [s EXCEPT ![i].tiles = @ + 1]
  /\ UNCHANGED <<served, access, finished, entry, pinned, gate, fails, open>>

\* render_map_field returns: unless it was told to stop, what has not been
\* published yet is published as a whole.
RenderReturns(i) ==
  /\ s[i].pc = "render"
  /\ s' = [s EXCEPT ![i].pc = "rendered", ![i].tiles = IF s[i].flag THEN @ ELSE Tiles]
  /\ UNCHANGED <<served, access, finished, entry, pinned, gate, fails, open>>

\* The end of a worker: the final state comes from the flag, which may as well be
\* set just after it, and is stored under the session's mutex.
Finalize(i, verdict) ==
  /\ s' = [s EXCEPT ![i] = [(IF verdict = "completed" THEN @ ELSE ReleaseBuffers(@))
                              EXCEPT !.state = verdict, !.pc = "prune", !.old = FALSE]]
  /\ access' = Keep(access, Live(s) \ {i}) /\ finished' = Append(finished, i)
  /\ UNCHANGED <<served, entry, pinned, gate, open>>

RenderDone(i) ==
  /\ s[i].pc = "rendered"
  /\ Finalize(i, IF s[i].flag THEN "cancelled" ELSE "completed")
  /\ UNCHANGED fails

\* render_map_field throws, because of the flag or for another reason.
RenderThrows(i) ==
  /\ s[i].pc = "render"
  /\ \/ s[i].flag /\ Finalize(i, "cancelled") /\ UNCHANGED fails
     \/ ~s[i].flag /\ fails < MaxFails /\ fails' = fails + 1 /\ Finalize(i, "failed")

\* finalize under the registry's mutex.
FinalPrune(i) ==
  LET t == Prune(s)
  IN  /\ s[i].pc = "prune"
      /\ s' = [t EXCEPT ![i] = IF @.reg THEN [@ EXCEPT !.pc = "gone"] ELSE Dropped]
      /\ Listed(t)
      /\ UNCHANGED <<served, entry, pinned, gate, fails, open>>
------------------------------------------------------------------------------
(* Results. *)

\* mapFieldSessionResultRoute, of a completed session that nobody acknowledged.
Pin(i) ==
  /\ i \in Ended(s) /\ s[i].state = "completed" /\ ~s[i].delivered
  /\ s[i].readers < MaxReaders
  /\ s' = [s EXCEPT ![i].readers = @ + 1]
  /\ pinned' = [pinned EXCEPT ![i] = @ + 1]
  /\ UNCHANGED <<served, access, finished, entry, gate, fails, open>>

\* releaseInteractiveFieldResultReader: the last reader after the
\* acknowledgement frees the field.
ReleaseReader(x) ==
  LET y == [x EXCEPT !.readers = Max({@ - 1, 0})]
  IN  IF y.delivered /\ y.readers = 0 THEN ReleaseBuffers(y) ELSE y

\* The gate is taken, or somebody else's: then the response is a 429.
EnterGate(i) ==
  /\ pinned[i] > 0
  /\ pinned' = [pinned EXCEPT ![i] = @ - 1]
  /\ IF gate = NoOne THEN gate' = i /\ UNCHANGED s
                     ELSE s' = [s EXCEPT ![i] = ReleaseReader(@)] /\ UNCHANGED gate
  /\ UNCHANGED <<served, access, finished, entry, fails, open>>

\* Both buffers are encoded, or an allocation fails: the reader lets go.
Encoded ==
  /\ gate \in Requests
  /\ s' = [s EXCEPT ![gate] = ReleaseReader(@)]
  /\ gate' = Closing
  /\ UNCHANGED <<served, access, finished, entry, pinned, fails, open>>

\* ResultEncodingLease's destructor.
LeaveGate ==
  /\ gate = Closing
  /\ gate' = NoOne
  /\ UNCHANGED <<s, served, access, finished, entry, pinned, fails, open>>

\* Mutant: the acknowledgement frees the field itself.
AcknowledgeFrees(i) ==
  /\ i \in Ended(s) /\ s[i].state = "completed"
  /\ s' = [s EXCEPT ![i] = [ReleaseBuffers(@) EXCEPT !.delivered = TRUE]]
  /\ UNCHANGED <<served, access, finished, entry, pinned, gate, fails, open>>

\* mapFieldSessionAcknowledgeRoute.
Acknowledge(i) ==
  /\ i \in Ended(s) /\ s[i].state = "completed"
  /\ s' = [s EXCEPT ![i] = [(IF s[i].readers = 0 THEN ReleaseBuffers(@) ELSE @) EXCEPT !.delivered = TRUE]]
  /\ UNCHANGED <<served, access, finished, entry, pinned, gate, fails, open>>
------------------------------------------------------------------------------
(* The reaper, whose two passes may come in any order, and the clock. *)

\* Mutant: the reaper wakes up only for ended sessions.
ReapEnded ==
  /\ s' = Erase(s, Expired(s))
  /\ Listed(s')
  /\ UNCHANGED <<served, entry, pinned, gate, fails, open>>

ReapSessions ==
  /\ s' = Prune(s)
  /\ Listed(s')
  /\ UNCHANGED <<served, entry, pinned, gate, fails, open>>

ReapEntries ==
  /\ entry' = PruneEntries(entry, s)
  /\ UNCHANGED <<s, served, access, finished, pinned, gate, fails, open>>

\* The oldest session of a list passes INTERACTIVE_FIELD_IDLE_TTL or _SESSION_TTL;
\* a thread that only has to prune is not held up that long.
Age(list) ==
  \E j \in 1..Len(list) :
    /\ s[list[j]].reg /\ s[list[j]].pc \notin {"unstart", "prune"}
    /\ ~s[list[j]].old /\ \A h \in 1..(j - 1) : s[list[h]].old
    /\ s' = [s EXCEPT ![list[j]].old = TRUE]
    /\ UNCHANGED <<served, access, finished, entry, pinned, gate, fails, open>>

\* Every explorer is closed: no more requests, heartbeats or acknowledgements.
Leave ==
  /\ open /\ open' = FALSE
  /\ UNCHANGED <<s, served, access, finished, entry, pinned, gate, fails>>

Request ==
  \/ \E v \in Views :
       \/ \E same \in BOOLEAN : StartAgain(v[1], v[2], same)
       \/ StartNew(v[1], v[2], v[3])
       \/ MapPreempt(v[1], v[2])
       \/ Inline(v[1], v[2])
  \/ \E i \in Requests : Poll(i) \/ Pin(i) \/ Acknowledge(i)

Threads ==
  \/ \E i \in Requests :
       \/ StartWorker(i) \/ StartUndone(i) \/ PublishRect(i) \/ RenderReturns(i) \/ RenderThrows(i)
       \/ RenderDone(i) \/ FinalPrune(i) \/ InlineEnds(i) \/ EnterGate(i)
  \/ Encoded \/ LeaveGate

Clock == Age(access) \/ Age(finished)

FieldNext == (open /\ Request) \/ Leave \/ Threads \/ ReapSessions \/ ReapEntries \/ Clock

FieldSpec == FieldInit /\ [][FieldNext]_fvars

\* A render that has been told to stop ends; one that has not may take for ever.
ThreadsEnd ==
  \/ \E i \in Requests :
       \/ StartWorker(i) \/ StartUndone(i) \/ RenderDone(i) \/ FinalPrune(i) \/ EnterGate(i)
       \/ s[i].flag /\ (RenderReturns(i) \/ RenderThrows(i))
  \/ Encoded \/ LeaveGate

\* Threads, the reaper and the clock go on.
FieldFairSpec == FieldSpec /\ WF_fvars(ThreadsEnd) /\ WF_fvars(ReapSessions) /\ WF_fvars(Clock)
------------------------------------------------------------------------------
(* Properties. *)

\* Whoever encodes a result, or is about to, reads the whole field of a completed
\* session that the registry still counts: neither the acknowledgement nor the
\* reaper frees it first, and every tile of it was published.
ReadersKeepField ==
  \A i \in Requests : pinned[i] > 0 \/ gate = i =>
    /\ s[i].reg /\ s[i].state = "completed" /\ s[i].bytes = s[i].size /\ s[i].bytes > 0
    /\ s[i].tiles = Tiles

\* Workers that have not ended, cancelled ones included, never exceed their
\* limit, and the fields in memory, registered or only held by a worker or a
\* reader, never exceed the budget.
WithinLimits ==
  /\ Cardinality({i \in Requests : s[i].kind = "session" /\ s[i].pc \in {"start", "render", "rendered"}})
       <= MaxRunning
  /\ Cardinality(Bytes(s, {i \in Requests : HoldsFlag(s, i)})) <= BudgetBytes

\* A request that computes and has not been told to stop is the one its key's
\* entry points at, with its number: the next request of the key can stop it, and
\* two of one key never go on together, whatever is pruned in between.
NewestOwnsKey ==
  \A i \in Requests :
    s[i].pc \in {"start", "render", "rendered", "inline"} /\ ~s[i].flag
      => entry[s[i].key] = [seq |-> s[i].seq, flag |-> i]

\* A worker is asked to stop for another explorer's sake only when no other
\* worker is already winding down: the retries of one start evict one session.
EvictsOnce ==
  [][\A i \in Requests :
       s'[i].flag /\ ~s[i].flag /\ i \in Live(s) /\ ~s[i].old
         => \/ \E k \in Keys : entry[k].flag = i /\ entry'[k] # entry[k]
            \/ \A j \in Live(s) : ~s[j].flag]_fvars

\* Once the browsers are gone, every session leaves the registry, however long its
\* render would take: the heartbeats stop, the reaper tells the workers to end, and
\* what they leave behind expires.
AbandonedSessionsLeave == ~open ~> \A i \in Requests : ~s[i].reg
=============================================================================
