------------------------ MODULE FieldSessionsProofs ------------------------
(***************************************************************************)
(* The registry of interactive fields keeps its promises for any number of *)
(* requests, readers, views and limits.  The argument is about one session *)
(* at a time: SOUND says which fields, readers and states go together, and *)
(* what prunes, preempts, makes room and trims only TIDIES a session: it   *)
(* may tell it to stop, and removes it only when it has ended, holds no    *)
(* bytes that matter and is read by nobody.                                *)
(***************************************************************************)
EXTENDS FieldSessions, FiniteSetTheorems, TLAPS

Computing == {"start", "render", "rendered"}

FieldRecord ==
  [kind : {"none", "session", "inline"}, key : Keys \cup {"none"}, seq : Nat, flag : BOOLEAN,
   state : {"running"} \cup Terminal,
   pc : {"none", "inline", "unstart", "prune", "gone"} \cup Computing,
   reg : BOOLEAN, size : 0..BudgetBytes, bytes : 0..BudgetBytes, tiles : Nat,
   delivered : BOOLEAN, readers : Nat, old : BOOLEAN]

FieldTypeOK ==
  /\ s \in [Requests -> FieldRecord]
  /\ served \in 0..MaxRequests
  /\ entry \in [Keys -> [seq : Int, flag : {NoOne} \cup Requests]]
  /\ pinned \in [Requests -> Nat]
  /\ gate \in {NoOne, Closing} \cup Requests
  /\ fails \in Nat /\ open \in BOOLEAN

(* The whole field of a view.                                              *)
Full(x) == x.bytes = x.size /\ x.bytes > 0 /\ x.tiles = Tiles

(* What goes together in one session or inline render.                     *)
Sound(x) ==
  /\ x.pc \in Computing <=> (x.reg /\ x.state = "running")
  /\ x.pc \in Computing => x.kind = "session" /\ x.bytes = x.size /\ x.bytes > 0
  /\ x.pc = "rendered" /\ ~x.flag => x.tiles = Tiles
  /\ x.state = "running" => x.readers = 0 /\ ~x.delivered
  /\ x.readers > 0 => x.reg /\ x.state = "completed" /\ Full(x)
  /\ x.reg /\ x.state = "completed" /\ ~x.delivered => Full(x)
  /\ ~x.reg \/ x.state \in {"cancelled", "failed"} \/ (x.delivered /\ x.readers = 0) => x.bytes = 0
  /\ x.pc \in {"unstart", "prune"} => x.state \in Terminal /\ ~x.old
  /\ x.pc = "unstart" => x.state = "failed"
  /\ x.pc \in Computing \cup {"inline"} => x.key \in Keys
  /\ x.pc \in {"none", "inline"} => ~x.reg /\ x.state = "running"

Good(t) == t \in [Requests -> FieldRecord] /\ \A i \in Requests : Sound(t[i])

(* Every reader is a result request, pinned or at the gate.                *)
ReadersInv == \A i \in Requests : s[i].readers = pinned[i] + (IF gate = i THEN 1 ELSE 0)

(* Requests that have not come are blank.                                  *)
ServedInv == \A i \in Requests : i > served => s[i] = Fresh

LimitsInv ==
  /\ Cardinality(Live(s)) <= MaxRunning
  /\ Cardinality(Bytes(s, Registered(s))) <= BudgetBytes

FieldInv ==
  FieldTypeOK /\ Good(s) /\ ReadersInv /\ ServedInv /\ NewestOwnsKey /\ LimitsInv

-----------------------------------------------------------------------------
(* One session.                                                            *)

Active(x) == x.pc \in Computing \cup {"inline"} \/ x.readers > 0

(* What housekeeping may do to a session: tell it to stop, or remove it    *)
(* when nobody computes or reads it.                                       *)
Tidied(x, y) ==
  /\ y \in FieldRecord /\ Sound(y)
  /\ y.pc = x.pc /\ y.readers = x.readers
  /\ Active(x) => y \in {x, [x EXCEPT !.flag = TRUE]}
  /\ x = Fresh => y = Fresh
  /\ y.bytes <= x.bytes /\ (y.reg => x.reg)

(* What a step of a session's own may do, as far as the others care.       *)
Shrinks(x, y) ==
  /\ y \in FieldRecord /\ Sound(y)
  /\ y.pc \in Computing => x.pc \in Computing
  /\ y.pc \in Computing \cup {"inline"} /\ ~y.flag =>
       x.pc \in Computing \cup {"inline"} /\ ~x.flag /\ y.key = x.key /\ y.seq = x.seq
  /\ x = Fresh => y = Fresh
  /\ y.bytes <= x.bytes /\ (y.reg => x.reg)

LEMMA FreshIsSound ==
  /\ Fresh \in FieldRecord /\ Sound(Fresh)
  /\ Dropped \in FieldRecord /\ Sound(Dropped)
  /\ Fresh.pc = "none" /\ Fresh.readers = 0 /\ ~Fresh.reg /\ Fresh.bytes = 0
  /\ Dropped.pc = "gone" /\ Dropped.readers = 0 /\ ~Dropped.reg /\ Dropped.bytes = 0
<1>1. 0 \in 0..BudgetBytes
  BY FieldAssumption
<1>2. Fresh \in FieldRecord
  BY <1>1 DEF Fresh, FieldRecord
<1>3. Dropped \in FieldRecord
  BY <1>2 DEF Dropped, FieldRecord
<1>4. PICK x : x = Fresh
  OBVIOUS
<1>5. x.pc = "none" /\ x.readers = 0 /\ x.reg = FALSE /\ x.bytes = 0 /\ x.state = "running" /\ x.delivered = FALSE
  BY <1>4 DEF Fresh
<1>6. Sound(x)
  BY <1>5 DEF Sound, Full, Computing, Terminal
<1>7. PICK y : y = Dropped
  OBVIOUS
<1>8. y.pc = "gone" /\ y.readers = 0 /\ y.reg = FALSE /\ y.bytes = 0 /\ y.state = "running" /\ y.delivered = FALSE
  BY <1>7 DEF Dropped, Fresh
<1>9. Sound(y)
  BY <1>8 DEF Sound, Full, Computing, Terminal
<1> QED BY <1>2, <1>3, <1>4, <1>5, <1>6, <1>7, <1>8, <1>9

LEMMA NothingTidies ==
  ASSUME NEW x \in FieldRecord, Sound(x)
  PROVE  Tidied(x, x) /\ Shrinks(x, x)
BY DEF Tidied, Shrinks, FieldRecord

(* A session that is told to stop.                                         *)
LEMMA StoppingTidies ==
  ASSUME NEW x \in FieldRecord, Sound(x), x # Fresh
  PROVE  Tidied(x, [x EXCEPT !.flag = TRUE])
<1>1. PICK y : y = [x EXCEPT !.flag = TRUE]
  OBVIOUS
<1>2. /\ y \in FieldRecord /\ y.flag = TRUE
      /\ y.kind = x.kind /\ y.key = x.key /\ y.state = x.state /\ y.pc = x.pc /\ y.reg = x.reg
      /\ y.size = x.size /\ y.bytes = x.bytes /\ y.tiles = x.tiles
      /\ y.delivered = x.delivered /\ y.readers = x.readers /\ y.old = x.old
  BY <1>1 DEF FieldRecord
<1>3. Sound(y)
  BY <1>2 DEF Sound, Full
<1>4. y.bytes <= x.bytes
  BY <1>2 DEF FieldRecord
<1> QED BY <1>1, <1>2, <1>3, <1>4 DEF Tidied

(* An ended session that nobody reads, removed.                            *)
LEMMA RemovingTidies ==
  ASSUME NEW x \in FieldRecord, Sound(x), x.reg, x.state \in Terminal, x.readers = 0,
         x.pc = "gone" \/ x.bytes = 0
  PROVE  Tidied(x, IF x.pc = "gone" THEN Dropped ELSE [x EXCEPT !.reg = FALSE])
<1>1. ~Active(x) /\ x # Fresh
  BY FreshIsSound DEF Active, Sound, FieldRecord, Terminal
<1>2. CASE x.pc = "gone"
  <2>1. Dropped.bytes <= x.bytes
    BY FreshIsSound DEF FieldRecord
  <2> QED BY <1>1, <1>2, <2>1, FreshIsSound DEF Tidied
<1>3. CASE x.pc # "gone"
  <2>1. PICK y : y = [x EXCEPT !.reg = FALSE]
    OBVIOUS
  <2>2. /\ y \in FieldRecord /\ y.reg = FALSE
        /\ y.kind = x.kind /\ y.key = x.key /\ y.state = x.state /\ y.pc = x.pc /\ y.flag = x.flag
        /\ y.size = x.size /\ y.bytes = x.bytes /\ y.tiles = x.tiles
        /\ y.delivered = x.delivered /\ y.readers = x.readers /\ y.old = x.old
    BY <2>1 DEF FieldRecord
  <2>3. Sound(y)
    BY <1>1, <1>3, <2>2 DEF Sound, Full, Terminal, Active, Computing
  <2>4. y.bytes <= x.bytes
    BY <2>2 DEF FieldRecord
  <2> QED BY <1>1, <1>3, <2>1, <2>2, <2>3, <2>4 DEF Tidied
<1> QED BY <1>2, <1>3

LEMMA TidyingGoesOn ==
  ASSUME NEW x \in FieldRecord, NEW y, NEW z, Tidied(x, y), Tidied(y, z)
  PROVE  Tidied(x, z)
<1>1. y \in FieldRecord /\ z \in FieldRecord
  BY DEF Tidied
<1>2. Active(x) => z \in {x, [x EXCEPT !.flag = TRUE]}
  <2>1. SUFFICES ASSUME Active(x) PROVE z \in {x, [x EXCEPT !.flag = TRUE]}
    OBVIOUS
  <2>2. Active(y)
    BY <2>1 DEF Tidied, Active
  <2>3. y \in {x, [x EXCEPT !.flag = TRUE]} /\ z \in {y, [y EXCEPT !.flag = TRUE]}
    BY <2>1, <2>2 DEF Tidied
  <2>4. [[x EXCEPT !.flag = TRUE] EXCEPT !.flag = TRUE] = [x EXCEPT !.flag = TRUE]
    BY DEF FieldRecord
  <2> QED BY <2>3, <2>4
<1>3. z.bytes <= x.bytes
  <2>1. x.bytes \in Int /\ y.bytes \in Int /\ z.bytes \in Int
    BY <1>1 DEF FieldRecord
  <2>2. z.bytes <= y.bytes /\ y.bytes <= x.bytes
    BY DEF Tidied
  <2> QED BY <2>1, <2>2
<1> QED BY <1>2, <1>3 DEF Tidied

LEMMA TidyingShrinks ==
  ASSUME NEW x \in FieldRecord, NEW y, Tidied(x, y)
  PROVE  Shrinks(x, y)
<1>1. y.pc \in Computing \cup {"inline"} /\ ~y.flag => y = x
  <2>1. SUFFICES ASSUME y.pc \in Computing \cup {"inline"}, ~y.flag PROVE y = x
    OBVIOUS
  <2>2. y \in {x, [x EXCEPT !.flag = TRUE]}
    BY <2>1 DEF Tidied, Active
  <2>3. [x EXCEPT !.flag = TRUE].flag = TRUE
    BY DEF FieldRecord
  <2> QED BY <2>1, <2>2, <2>3
<1> QED BY <1>1 DEF Tidied, Shrinks

-----------------------------------------------------------------------------
(* Housekeeping of all sessions.                                           *)

AllTidied(t, u) == u \in [Requests -> FieldRecord] /\ \A i \in Requests : Tidied(t[i], u[i])

LEMMA TidiedIsGood ==
  ASSUME NEW t, NEW u, AllTidied(t, u)
  PROVE  Good(u)
BY DEF AllTidied, Good, Tidied

LEMMA AllTidiedGoesOn ==
  ASSUME NEW t, NEW u, NEW v, Good(t), AllTidied(t, u), AllTidied(u, v)
  PROVE  AllTidied(t, v)
<1>1. \A i \in Requests : t[i] \in FieldRecord /\ Tidied(t[i], u[i]) /\ Tidied(u[i], v[i])
  BY DEF Good, AllTidied
<1>2. \A i \in Requests : Tidied(t[i], v[i])
  BY <1>1, TidyingGoesOn
<1> QED BY <1>2 DEF AllTidied

LEMMA AllTidiedAtRest ==
  ASSUME NEW t, Good(t)
  PROVE  AllTidied(t, t)
BY NothingTidies DEF Good, AllTidied

(* Telling some sessions to stop, none of them blank.                      *)
Stopping(t, S) == [i \in Requests |-> IF i \in S THEN [t[i] EXCEPT !.flag = TRUE] ELSE t[i]]

LEMMA StoppingTidiesAll ==
  ASSUME NEW t, Good(t), NEW S, \A i \in S \cap Requests : t[i] # Fresh
  PROVE  AllTidied(t, Stopping(t, S))
<1>1. \A i \in Requests : Tidied(t[i], Stopping(t, S)[i])
  <2>1. SUFFICES ASSUME NEW i \in Requests PROVE Tidied(t[i], Stopping(t, S)[i])
    OBVIOUS
  <2>2. t[i] \in FieldRecord /\ Sound(t[i])
    BY DEF Good
  <2>3. CASE i \in S
    BY <2>2, <2>3, StoppingTidies DEF Stopping
  <2>4. CASE i \notin S
    BY <2>2, <2>4, NothingTidies DEF Stopping
  <2> QED BY <2>3, <2>4
<1>2. \A i \in Requests : Stopping(t, S)[i] \in FieldRecord
  BY <1>1 DEF Tidied
<1>3. Stopping(t, S) = [i \in Requests |-> Stopping(t, S)[i]]
  BY DEF Stopping
<1> QED BY <1>1, <1>2, <1>3 DEF AllTidied

(* Sessions that may be removed.                                           *)
Removable(t) == {i \in Ended(t) : t[i].readers = 0 /\ (t[i].pc = "gone" \/ t[i].bytes = 0)}

LEMMA EraseTidies ==
  ASSUME NEW t, Good(t), NEW S \in SUBSET Removable(t)
  PROVE  /\ AllTidied(t, Erase(t, S))
         /\ \A i \in Requests : i \notin S => Erase(t, S)[i] = t[i]
<1>1. \A i \in Requests : i \notin S => Erase(t, S)[i] = t[i]
  BY DEF Erase
<1>2. \A i \in S : Erase(t, S)[i] = IF t[i].pc = "gone" THEN Dropped ELSE [t[i] EXCEPT !.reg = FALSE]
  BY DEF Erase, Removable, Ended
<1>3. \A i \in Requests : Tidied(t[i], Erase(t, S)[i])
  <2>1. SUFFICES ASSUME NEW i \in Requests PROVE Tidied(t[i], Erase(t, S)[i])
    OBVIOUS
  <2>2. t[i] \in FieldRecord /\ Sound(t[i])
    BY DEF Good
  <2>3. CASE i \in S
    <3>1. t[i].reg /\ t[i].state \in Terminal /\ t[i].readers = 0 /\ (t[i].pc = "gone" \/ t[i].bytes = 0)
      BY <2>3 DEF Removable, Ended
    <3> QED BY <1>2, <2>2, <2>3, <3>1, RemovingTidies
  <2>4. CASE i \notin S
    BY <1>1, <2>2, <2>4, NothingTidies
  <2> QED BY <2>3, <2>4
<1>4. \A i \in Requests : Erase(t, S)[i] \in FieldRecord
  BY <1>3 DEF Tidied
<1>5. Erase(t, S) = [i \in Requests |-> Erase(t, S)[i]]
  BY DEF Erase
<1> QED BY <1>1, <1>3, <1>4, <1>5 DEF AllTidied

LEMMA FirstAreSome ==
  ASSUME NEW q, NEW S, NEW n
  PROVE  First(q, S, n) \subseteq S
BY DEF First

(* pruneInteractiveFieldSessionsLocked tells only idle sessions to stop    *)
(* and removes only what may be removed.                                   *)
LEMMA PruneTidies ==
  ASSUME NEW t, Good(t)
  PROVE  /\ AllTidied(t, Prune(t))
         /\ \A i \in Live(t) : Prune(t)[i].flag => t[i].flag \/ t[i].old
<1> DEFINE idle == {i \in Live(t) : t[i].old}
           u    == Stopping(t, idle)
           over == First(finished, Disposable(t), Cardinality(Disposable(t)) - MaxRetained)
           S    == Expired(t) \cup over
<1>1. Prune(t) = Erase(u, S)
  BY DEF Prune, Stopping
<1>2. \A i \in Live(t) : i \in Requests /\ t[i].reg
  BY DEF Live
<1>3. \A i \in idle \cap Requests : t[i] # Fresh
  BY <1>2, FreshIsSound
<1>4. AllTidied(t, u)
  BY <1>3, StoppingTidiesAll
<1>5. over \subseteq Disposable(t)
  BY FirstAreSome
<1> HIDE DEF over
<1>6. \A i \in S : i \in Ended(t) /\ i \notin Live(t) /\ u[i] = t[i]
  BY <1>5 DEF Expired, Disposable, Ended, Live, Terminal, Stopping
<1>7. \A i \in S : t[i].readers = 0 /\ (t[i].pc = "gone" \/ t[i].bytes = 0)
  <2>1. SUFFICES ASSUME NEW i \in S PROVE t[i].readers = 0 /\ (t[i].pc = "gone" \/ t[i].bytes = 0)
    OBVIOUS
  <2>2. i \in Requests /\ t[i].reg /\ t[i].state \in Terminal
    BY <1>6 DEF Ended
  <2>3. t[i] \in FieldRecord /\ Sound(t[i])
    BY <2>2 DEF Good
  <2>4. CASE i \in Expired(t)
    <3>1. t[i].old /\ t[i].readers = 0
      BY <2>4 DEF Expired
    <3> QED BY <2>2, <2>3, <3>1 DEF Sound, FieldRecord, Terminal, Computing
  <2>5. CASE i \in Disposable(t)
    <3>1. t[i].readers = 0 /\ (t[i].state # "completed" \/ t[i].delivered)
      BY <2>5 DEF Disposable
    <3> QED BY <2>2, <2>3, <3>1 DEF Sound, Terminal
  <2> QED BY <1>5, <2>4, <2>5
<1>8. S \in SUBSET Removable(u)
  BY <1>6, <1>7 DEF Removable, Ended
<1>9. Good(u)
  BY <1>4, TidiedIsGood
<1>10. AllTidied(u, Erase(u, S)) /\ \A i \in Requests : i \notin S => Erase(u, S)[i] = u[i]
  BY <1>8, <1>9, EraseTidies
<1>11. AllTidied(t, Prune(t))
  BY <1>1, <1>4, <1>10, AllTidiedGoesOn
<1>12. \A i \in Live(t) : Prune(t)[i].flag => t[i].flag \/ t[i].old
  <2>1. SUFFICES ASSUME NEW i \in Live(t), Prune(t)[i].flag, ~t[i].old PROVE t[i].flag
    OBVIOUS
  <2>2. Prune(t)[i] = u[i]
    BY <1>1, <1>2, <1>6, <1>10
  <2>3. u[i] = t[i]
    BY <1>2, <2>1 DEF Stopping
  <2> QED BY <2>1, <2>2, <2>3
<1> QED BY <1>11, <1>12

(* The registered flags.                                                   *)
EntryTypeOK(e) == e \in [Keys -> [seq : Int, flag : {NoOne} \cup Requests]]

LEMMA EntriesStayTyped ==
  ASSUME NEW e, EntryTypeOK(e), NEW t
  PROVE  EntryTypeOK(Room(e, t)) /\ EntryTypeOK(PruneEntries(e, t))
<1>1. Absent \in [seq : Int, flag : {NoOne} \cup Requests]
  BY DEF Absent
<1> QED BY <1>1 DEF EntryTypeOK, Room, PruneEntries

(* A flag somebody holds is not pruned.                                    *)
LEMMA HeldFlagsStay ==
  ASSUME NEW e, EntryTypeOK(e), NEW t, NEW k \in Keys
  PROVE  /\ HoldsFlag(t, e[k].flag) => Room(e, t)[k] = e[k] /\ PruneEntries(e, t)[k] = e[k]
         /\ Room(e, t)[k] \in {e[k], Absent}
         /\ PruneEntries(e, t)[k] \in {e[k], Absent}
BY DEF EntryTypeOK, Room, PruneEntries

LEMMA ActiveHoldsFlag ==
  ASSUME NEW t, NEW i \in Requests, Active(t[i])
  PROVE  HoldsFlag(t, i)
BY DEF Active, HoldsFlag, Computing, Requests, NoOne

(* registerInteractiveMapRequest tells the request of the entry to stop,   *)
(* and nobody else.                                                        *)
LEMMA PreemptedTidies ==
  ASSUME NEW t, Good(t), NEW e, EntryTypeOK(e), NEW k \in Keys
  PROVE  /\ AllTidied(t, Preempted(t, e, k))
         /\ \A i \in Requests : i # e[k].flag => Preempted(t, e, k)[i] = t[i]
         /\ \A i \in Requests : i = e[k].flag /\ Active(t[i]) => Preempted(t, e, k)[i].flag
<1> DEFINE f == e[k].flag
<1>1. t \in [Requests -> FieldRecord]
  BY DEF Good
<1>2. f \in {NoOne} \cup Requests
  BY DEF EntryTypeOK
<1>3. CASE HoldsFlag(t, f)
  <2>1. f \in Requests
    BY <1>2, <1>3 DEF HoldsFlag
  <2>2. t[f] # Fresh
    BY <1>3, FreshIsSound DEF HoldsFlag
  <2>3. AllTidied(t, Stopping(t, {f}))
    BY <2>2, StoppingTidiesAll
  <2>4. Preempted(t, e, k) = Stopping(t, {f})
    <3>1. Preempted(t, e, k) = [t EXCEPT ![f].flag = TRUE]
      BY <1>3 DEF Preempted
    <3> QED BY <1>1, <2>1, <3>1 DEF Stopping
  <2>5. \A i \in Requests : i # f => Stopping(t, {f})[i] = t[i]
    BY DEF Stopping
  <2>6. Stopping(t, {f})[f].flag
    BY <1>1, <2>1 DEF Stopping, FieldRecord
  <2> QED BY <2>3, <2>4, <2>5, <2>6
<1>4. CASE ~HoldsFlag(t, f)
  <2>1. Preempted(t, e, k) = t
    BY <1>4 DEF Preempted
  <2>2. \A i \in Requests : i = f => ~Active(t[i])
    BY <1>4, ActiveHoldsFlag
  <2> QED BY <2>1, <2>2, AllTidiedAtRest
<1> QED BY <1>3, <1>4

LEMMA RequestsAreFinite ==
  /\ IsFiniteSet(Requests)
  /\ \A S \in SUBSET Requests : IsFiniteSet(S) /\ Cardinality(S) \in Nat
<1>1. MaxRequests \in Nat
  BY FieldAssumption
<1>2. IsFiniteSet(Requests)
  BY <1>1, FS_Interval DEF Requests
<1>3. \A S \in SUBSET Requests : IsFiniteSet(S)
  BY <1>2, FS_Subset
<1> QED BY <1>2, <1>3, FS_CardinalityType

(* makeRoomForInteractiveFieldLocked tells somebody to stop only when      *)
(* nobody winds down, or when there are too many as it is.                 *)
LEMMA MakeRoomTidies ==
  ASSUME NEW t, Good(t)
  PROVE  /\ AllTidied(t, MakeRoom(t))
         /\ \A i \in Requests : MakeRoom(t)[i].flag /\ ~t[i].flag =>
              \/ \A j \in Live(t) : ~t[j].flag
              \/ Cardinality(Live(t)) > MaxRunning
<1> DEFINE run     == {i \in Live(t) : ~t[i].flag}
           winding == Cardinality(Live(t)) - Cardinality(run)
           excess  == Cardinality(Live(t)) - MaxRunning + 1
           victims == First(access, run, excess - winding)
<1>1. Live(t) \in SUBSET Requests /\ run \in SUBSET Live(t)
  BY DEF Live
<1>2. Cardinality(Live(t)) \in Nat /\ Cardinality(run) \in Nat /\ IsFiniteSet(Live(t)) /\ MaxRunning \in Nat
  BY <1>1, RequestsAreFinite, FieldAssumption
<1>3. MakeRoom(t) = IF Cardinality(Live(t)) < MaxRunning THEN t ELSE Stopping(t, victims)
  BY DEF MakeRoom, Stopping
<1>4. victims \subseteq run
  BY FirstAreSome
<1>5. ASSUME NEW i \in victims, Cardinality(Live(t)) <= MaxRunning
      PROVE  run = Live(t)
  <2>1. PICK B \in SUBSET run : Cardinality(B) < excess - winding
    BY <1>5 DEF First
  <2>2. Cardinality(B) \in Nat
    BY <1>1, <2>1, RequestsAreFinite
  <2>3. Cardinality(run) >= Cardinality(Live(t))
    BY <1>2, <1>5, <2>1, <2>2
  <2>4. Cardinality(run) <= Cardinality(Live(t)) /\ (Cardinality(run) = Cardinality(Live(t)) => run = Live(t))
    BY <1>1, <1>2, FS_Subset
  <2> QED BY <1>2, <2>3, <2>4
<1> HIDE DEF victims
<1>6. AllTidied(t, MakeRoom(t))
  <2>1. \A i \in victims : t[i].reg
    BY <1>4 DEF Live
  <2>2. \A i \in victims \cap Requests : t[i] # Fresh
    BY <2>1, FreshIsSound
  <2>3. AllTidied(t, Stopping(t, victims))
    BY <2>2, StoppingTidiesAll
  <2> QED BY <1>3, <2>3, AllTidiedAtRest
<1>7. ASSUME NEW i \in Requests, MakeRoom(t)[i].flag, ~t[i].flag
      PROVE  (\A j \in Live(t) : ~t[j].flag) \/ Cardinality(Live(t)) > MaxRunning
  <2>1. i \in victims
    BY <1>3, <1>7 DEF Stopping
  <2>2. CASE Cardinality(Live(t)) <= MaxRunning
    <3>1. run = Live(t)
      BY <1>5, <2>1, <2>2
    <3> QED BY <3>1
  <2> QED BY <1>2, <2>2
<1> QED BY <1>6, <1>7

(* trimDeliveredInteractiveFieldsForBudgetLocked removes what may be       *)
(* removed and tells nobody to stop.                                       *)
LEMMA TrimTidies ==
  ASSUME NEW t, Good(t), NEW need
  PROVE  /\ AllTidied(t, Trim(t, need))
         /\ \A i \in Live(t) : Trim(t, need)[i] = t[i]
<1> DEFINE c == {i \in Ended(t) : /\ t[i].state = "completed" /\ t[i].delivered
                                  /\ t[i].readers = 0 /\ t[i].bytes # 0}
<1>1. PICK n : Trim(t, need) = Erase(t, First(finished, c, n))
  BY DEF Trim
<1>2. c = {}
  <2>1. \A i \in Requests : Sound(t[i])
    BY DEF Good
  <2> QED BY <2>1 DEF Sound, Ended
<1>3. First(finished, c, n) = {}
  BY <1>2, FirstAreSome
<1>4. {} \in SUBSET Removable(t)
  OBVIOUS
<1>5. AllTidied(t, Erase(t, {})) /\ \A i \in Requests : Erase(t, {})[i] = t[i]
  BY <1>4, EraseTidies
<1> QED BY <1>1, <1>3, <1>5 DEF Live

-----------------------------------------------------------------------------
(* What the limits and the entries see of a step.                          *)

AllShrink(t, u) == u \in [Requests -> FieldRecord] /\ \A i \in Requests : Shrinks(t[i], u[i])

LEMMA AllTidiedShrinks ==
  ASSUME NEW t, NEW u, Good(t), AllTidied(t, u)
  PROVE  /\ AllShrink(t, u)
         /\ Live(u) = Live(t)
         /\ \A i \in Requests : u[i].readers = t[i].readers
<1>1. \A i \in Requests : t[i] \in FieldRecord /\ Sound(t[i]) /\ Sound(u[i]) /\ Tidied(t[i], u[i])
  BY DEF Good, AllTidied, Tidied
<1>2. \A i \in Requests : Shrinks(t[i], u[i])
  BY <1>1, TidyingShrinks
<1>3. \A i \in Requests : /\ u[i].pc = t[i].pc /\ u[i].readers = t[i].readers
                          /\ i \in Live(t) <=> t[i].pc \in Computing
                          /\ i \in Live(u) <=> u[i].pc \in Computing
  BY <1>1 DEF Tidied, Sound, Live
<1>4. Live(t) \subseteq Requests /\ Live(u) \subseteq Requests
  BY DEF Live
<1>5. Live(u) = Live(t)
  BY <1>3, <1>4
<1> QED BY <1>2, <1>3, <1>5 DEF AllShrink, AllTidied

LEMMA ShrinkingGoesOn ==
  ASSUME NEW x \in FieldRecord, NEW y, NEW z, Shrinks(x, y), Shrinks(y, z)
  PROVE  Shrinks(x, z)
<1>1. y \in FieldRecord /\ z \in FieldRecord
  BY DEF Shrinks
<1>2. x.bytes \in Int /\ y.bytes \in Int /\ z.bytes \in Int
  BY <1>1 DEF FieldRecord
<1>3. z.bytes <= x.bytes
  BY <1>2 DEF Shrinks
<1> QED BY <1>3 DEF Shrinks

LEMMA AllShrinkGoesOn ==
  ASSUME NEW t, NEW u, NEW v, Good(t), AllShrink(t, u), AllShrink(u, v)
  PROVE  AllShrink(t, v)
<1>1. \A i \in Requests : t[i] \in FieldRecord /\ Shrinks(t[i], u[i]) /\ Shrinks(u[i], v[i])
  BY DEF Good, AllShrink
<1>2. \A i \in Requests : Shrinks(t[i], v[i])
  BY <1>1, ShrinkingGoesOn
<1> QED BY <1>2 DEF AllShrink

LEMMA OneShrinks ==
  ASSUME NEW t, Good(t), NEW i \in Requests, NEW y, Shrinks(t[i], y)
  PROVE  AllShrink(t, [t EXCEPT ![i] = y])
<1>1. \A j \in Requests : t[j] \in FieldRecord /\ Shrinks(t[j], t[j])
  BY NothingTidies DEF Good
<1>2. y \in FieldRecord
  BY DEF Shrinks
<1> QED BY <1>1, <1>2 DEF AllShrink, Good

LEMMA ShrunkIsGood ==
  ASSUME NEW t, NEW u, AllShrink(t, u)
  PROVE  Good(u)
BY DEF AllShrink, Good, Shrinks

(* Counting bytes one by one.                                              *)
LEMMA BytesAreFinite ==
  ASSUME NEW t, NEW S \in SUBSET Requests
  PROVE  IsFiniteSet(Bytes(t, S)) /\ Cardinality(Bytes(t, S)) \in Nat
<1>1. IsFiniteSet(S) /\ BudgetBytes \in Nat
  BY RequestsAreFinite, FieldAssumption
<1>2. IsFiniteSet(1..BudgetBytes)
  BY <1>1, FS_Interval
<1>3. IsFiniteSet(S \X (1..BudgetBytes))
  BY <1>1, <1>2, FS_Product
<1>4. Bytes(t, S) \in SUBSET (S \X (1..BudgetBytes))
  BY DEF Bytes
<1>5. IsFiniteSet(Bytes(t, S))
  BY <1>3, <1>4, FS_Subset
<1> QED BY <1>5, FS_CardinalityType

LEMMA ShrinkingFrees ==
  ASSUME NEW t, NEW u, Good(t), AllShrink(t, u)
  PROVE  /\ Live(u) \subseteq Live(t)
         /\ Cardinality(Live(u)) <= Cardinality(Live(t))
         /\ Bytes(u, Registered(u)) \subseteq Bytes(t, Registered(t))
         /\ Cardinality(Bytes(u, Registered(u))) <= Cardinality(Bytes(t, Registered(t)))
<1>1. \A i \in Requests : Sound(t[i]) /\ Sound(u[i]) /\ Shrinks(t[i], u[i])
  BY DEF Good, AllShrink, Shrinks
<1>2. Live(u) \in SUBSET Live(t) /\ Live(t) \in SUBSET Requests
  BY <1>1 DEF Live, Sound, Shrinks
<1>3. Bytes(u, Registered(u)) \in SUBSET Bytes(t, Registered(t))
  <2>1. SUFFICES ASSUME NEW p \in Bytes(u, Registered(u)) PROVE p \in Bytes(t, Registered(t))
    OBVIOUS
  <2>2. p \in Registered(u) \X (1..BudgetBytes) /\ p[2] <= u[p[1]].bytes
    BY <2>1 DEF Bytes
  <2>3. p[1] \in Requests /\ u[p[1]].reg /\ p[2] \in 1..BudgetBytes
    BY <2>2 DEF Registered
  <2>4. u[p[1]].bytes <= t[p[1]].bytes /\ t[p[1]].reg
    BY <1>1, <2>3 DEF Shrinks
  <2>5. u[p[1]].bytes \in Int /\ t[p[1]].bytes \in Int /\ BudgetBytes \in Nat
    BY <2>3, FieldAssumption DEF Good, AllShrink, FieldRecord
  <2>6. p[2] <= t[p[1]].bytes
    BY <2>2, <2>3, <2>4, <2>5
  <2>7. p \in Registered(t) \X (1..BudgetBytes)
    BY <2>2, <2>3, <2>4 DEF Registered
  <2> QED BY <2>6, <2>7 DEF Bytes
<1>4. Registered(t) \in SUBSET Requests
  BY DEF Registered
<1> QED BY <1>2, <1>3, <1>4, RequestsAreFinite, BytesAreFinite, FS_Subset

-----------------------------------------------------------------------------
(* The newest request owns the entry of its key.                           *)

Owns(t, e) ==
  \A i \in Requests :
    t[i].pc \in Computing \cup {"inline"} /\ ~t[i].flag
      => e[t[i].key] = [seq |-> t[i].seq, flag |-> i]

LEMMA ShrinkingKeepsOwners ==
  ASSUME NEW t, NEW u, NEW e, AllShrink(t, u), Owns(t, e)
  PROVE  Owns(u, e)
BY DEF AllShrink, Shrinks, Owns

LEMMA PruningKeepsOwners ==
  ASSUME NEW t, Good(t), NEW e, EntryTypeOK(e), Owns(t, e)
  PROVE  Owns(t, Room(e, t)) /\ Owns(t, PruneEntries(e, t))
<1>1. SUFFICES ASSUME NEW i \in Requests, t[i].pc \in Computing \cup {"inline"}, ~t[i].flag
               PROVE  /\ Room(e, t)[t[i].key] = [seq |-> t[i].seq, flag |-> i]
                      /\ PruneEntries(e, t)[t[i].key] = [seq |-> t[i].seq, flag |-> i]
  BY DEF Owns
<1>2. e[t[i].key] = [seq |-> t[i].seq, flag |-> i]
  BY <1>1 DEF Owns
<1>3. t[i].key \in Keys
  BY <1>1 DEF Good, Sound
<1>4. HoldsFlag(t, e[t[i].key].flag)
  BY <1>1, <1>2, ActiveHoldsFlag DEF Active
<1> QED BY <1>2, <1>3, <1>4, HeldFlagsStay

(* A registration tells the owner of the entry to stop before it takes it. *)
LEMMA RegisteringKeepsOwners ==
  ASSUME NEW t, Good(t), NEW e, EntryTypeOK(e), Owns(t, e), NEW k \in Keys, NEW x
  PROVE  Owns(Preempted(t, e, k), [e EXCEPT ![k] = x])
<1> DEFINE u == Preempted(t, e, k)
<1>1. AllTidied(t, u) /\ AllShrink(t, u)
  BY PreemptedTidies, AllTidiedShrinks
<1>2. \A i \in Requests : i = e[k].flag /\ Active(t[i]) => u[i].flag
  BY PreemptedTidies
<1> HIDE DEF u
<1>3. SUFFICES ASSUME NEW i \in Requests, u[i].pc \in Computing \cup {"inline"}, ~u[i].flag
               PROVE  [e EXCEPT ![k] = x][u[i].key] = [seq |-> u[i].seq, flag |-> i]
  BY DEF Owns, u
<1>4. /\ t[i].pc \in Computing \cup {"inline"} /\ ~t[i].flag
      /\ u[i].key = t[i].key /\ u[i].seq = t[i].seq
  BY <1>1, <1>3 DEF AllShrink, Shrinks
<1>5. e[t[i].key] = [seq |-> t[i].seq, flag |-> i] /\ Active(t[i])
  BY <1>4 DEF Owns, Active
<1>6. t[i].key # k
  BY <1>2, <1>3, <1>5
<1>7. t[i].key \in Keys
  BY <1>4 DEF Good, Sound
<1> QED BY <1>4, <1>5, <1>6, <1>7 DEF EntryTypeOK

-----------------------------------------------------------------------------
(* Steps of the registry.                                                  *)

LEMMA FieldsStart == FieldInit => FieldInv
<1> SUFFICES ASSUME FieldInit PROVE FieldInv
  OBVIOUS
<1>1. \A i \in Requests : s[i] = Fresh /\ pinned[i] = 0 /\ gate # i
  BY DEF FieldInit, Requests, NoOne
<1>2. FieldTypeOK
  <2>1. s \in [Requests -> FieldRecord]
    BY FreshIsSound DEF FieldInit
  <2>2. entry \in [Keys -> [seq : Int, flag : {NoOne} \cup Requests]]
    BY DEF FieldInit, Absent
  <2> QED BY <2>1, <2>2, FieldAssumption DEF FieldInit, FieldTypeOK
<1>3. Good(s)
  BY <1>1, <1>2, FreshIsSound DEF Good, FieldTypeOK
<1>4. ReadersInv /\ ServedInv
  BY <1>1, FreshIsSound DEF ReadersInv, ServedInv
<1>5. NewestOwnsKey
  BY <1>1, FreshIsSound DEF NewestOwnsKey
<1>6. LimitsInv
  <2>1. Live(s) = {} /\ Registered(s) = {}
    BY <1>1, FreshIsSound DEF Live, Registered
  <2>2. Bytes(s, Registered(s)) = {}
    BY <2>1 DEF Bytes
  <2> QED BY <2>1, <2>2, FS_EmptySet, FieldAssumption DEF LimitsInv
<1> QED BY <1>2, <1>3, <1>4, <1>5, <1>6 DEF FieldInv

(* A step in which every request shrinks keeps the invariant, when it      *)
(* accounts for its readers and leaves the entries to their owners.        *)
Settles ==
  /\ AllShrink(s, s') /\ served' = served
  /\ EntryTypeOK(entry') /\ Owns(s', entry')
  /\ fails' \in Nat /\ open' \in BOOLEAN
  /\ pinned' \in [Requests -> Nat] /\ gate' \in {NoOne, Closing} \cup Requests
  /\ \A i \in Requests : s'[i].readers = pinned'[i] + (IF gate' = i THEN 1 ELSE 0)

LEMMA SettlingKeepsInv ==
  ASSUME FieldInv, Settles
  PROVE  FieldInv'
<1>1. Good(s') /\ Good(s) /\ FieldTypeOK
  BY ShrunkIsGood DEF Settles, FieldInv
<1>2. FieldTypeOK'
  BY <1>1 DEF Settles, FieldTypeOK, EntryTypeOK, Good
<1>3. Good(s)'
  BY <1>1 DEF Good
<1>4. ReadersInv'
  BY DEF Settles, ReadersInv
<1>5. ServedInv'
  BY DEF Settles, FieldInv, ServedInv, AllShrink, Shrinks
<1>6. NewestOwnsKey'
  BY DEF Settles, NewestOwnsKey, Owns, Computing
<1>7. LimitsInv'
  <2>1. /\ Cardinality(Live(s')) <= Cardinality(Live(s))
        /\ Cardinality(Bytes(s', Registered(s'))) <= Cardinality(Bytes(s, Registered(s)))
    BY <1>1, ShrinkingFrees DEF Settles
  <2>2. /\ Live(s) \in SUBSET Requests /\ Live(s') \in SUBSET Requests
        /\ Registered(s) \in SUBSET Requests /\ Registered(s') \in SUBSET Requests
    BY DEF Live, Registered
  <2>3. /\ Cardinality(Live(s')) \in Nat /\ Cardinality(Live(s)) \in Nat
        /\ Cardinality(Bytes(s', Registered(s'))) \in Nat
        /\ Cardinality(Bytes(s, Registered(s))) \in Nat
        /\ MaxRunning \in Nat /\ BudgetBytes \in Nat
    BY <2>2, RequestsAreFinite, BytesAreFinite, FieldAssumption
  <2>4. Cardinality(Live(s)) <= MaxRunning /\ Cardinality(Bytes(s, Registered(s))) <= BudgetBytes
    BY DEF FieldInv, LimitsInv
  <2>5. Cardinality(Live(s')) <= MaxRunning /\ Cardinality(Bytes(s', Registered(s'))) <= BudgetBytes
    BY <2>1, <2>3, <2>4
  <2>6. Live(s)' = Live(s') /\ Bytes(s, Registered(s))' = Bytes(s', Registered(s'))
    BY DEF Live, Bytes, Registered
  <2> QED BY <2>5, <2>6 DEF LimitsInv
<1> QED BY <1>2, <1>3, <1>4, <1>5, <1>6, <1>7 DEF FieldInv

(* A step that leaves readers, gate and entries alone.                     *)
Rests ==
  /\ AllShrink(s, s') /\ \A i \in Requests : s'[i].readers = s[i].readers
  /\ UNCHANGED <<served, entry, pinned, gate, open>> /\ fails' \in Nat

LEMMA RestingKeepsInv ==
  ASSUME FieldInv, Rests
  PROVE  FieldInv'
<1>1. Owns(s, entry)
  BY DEF FieldInv, NewestOwnsKey, Owns, Computing
<1>2. Owns(s', entry)
  BY <1>1, ShrinkingKeepsOwners DEF Rests
<1>3. Settles
  BY <1>2 DEF Rests, Settles, FieldInv, FieldTypeOK, EntryTypeOK, ReadersInv
<1> QED BY <1>3, SettlingKeepsInv

(* Such a step of one request.                                             *)
LEMMA OneRests ==
  ASSUME FieldInv, NEW i \in Requests, NEW y, Shrinks(s[i], y), y.readers = s[i].readers,
         s' = [s EXCEPT ![i] = y],
         UNCHANGED <<served, entry, pinned, gate, open>>, fails' \in Nat
  PROVE  FieldInv'
<1>1. Good(s) /\ s \in [Requests -> FieldRecord]
  BY DEF FieldInv, Good
<1>2. AllShrink(s, s')
  BY <1>1, OneShrinks
<1>3. Rests
  BY <1>1, <1>2 DEF Rests
<1> QED BY <1>3, RestingKeepsInv

(* A heartbeat.                                                            *)
LEMMA TouchShrinks ==
  ASSUME NEW t, Good(t), NEW i
  PROVE  /\ AllShrink(t, Touch(t, i))
         /\ \A j \in Requests : /\ Touch(t, i)[j].readers = t[j].readers
                                /\ Touch(t, i)[j].flag = t[j].flag
<1>1. t \in [Requests -> FieldRecord] /\ \A j \in Requests : Sound(t[j]) /\ Shrinks(t[j], t[j])
  BY NothingTidies DEF Good
<1>2. CASE i \notin Live(t)
  BY <1>1, <1>2 DEF Touch, AllShrink
<1>3. CASE i \in Live(t)
  <2>1. i \in Requests /\ t[i].reg /\ t[i].state = "running" /\ t[i] \in FieldRecord /\ Sound(t[i])
    BY <1>1, <1>3 DEF Live
  <2>2. PICK y : y = [t[i] EXCEPT !.old = FALSE]
    OBVIOUS
  <2>3. /\ y \in FieldRecord /\ y.old = FALSE
        /\ y.kind = t[i].kind /\ y.key = t[i].key /\ y.seq = t[i].seq /\ y.flag = t[i].flag
        /\ y.state = t[i].state /\ y.pc = t[i].pc /\ y.reg = t[i].reg
        /\ y.size = t[i].size /\ y.bytes = t[i].bytes /\ y.tiles = t[i].tiles
        /\ y.delivered = t[i].delivered /\ y.readers = t[i].readers
    BY <2>1, <2>2 DEF FieldRecord
  <2>4. Sound(y)
    BY <2>1, <2>3 DEF Sound, Full
  <2>5. t[i] # Fresh
    BY <2>1, FreshIsSound
  <2>6. y.bytes <= t[i].bytes
    BY <2>1, <2>3 DEF FieldRecord
  <2>7. Shrinks(t[i], y)
    BY <2>1, <2>3, <2>4, <2>5, <2>6 DEF Shrinks
  <2>8. Touch(t, i) = [t EXCEPT ![i] = y]
    BY <1>3, <2>2 DEF Touch
  <2>9. AllShrink(t, Touch(t, i))
    <3>1. AllShrink(t, [t EXCEPT ![i] = y])
      BY <2>1, <2>7, OneShrinks
    <3> QED BY <2>8, <3>1
  <2> QED BY <1>1, <2>1, <2>3, <2>8, <2>9
<1> QED BY <1>2, <1>3

-----------------------------------------------------------------------------
(* Workers.                                                                *)

LEMMA InvIsGood ==
  ASSUME FieldInv
  PROVE  /\ Good(s) /\ s \in [Requests -> FieldRecord]
         /\ \A i \in Requests : s[i] \in FieldRecord /\ Sound(s[i])
         /\ fails \in Nat /\ EntryTypeOK(entry) /\ Owns(s, entry)
BY DEF FieldInv, Good, FieldTypeOK, EntryTypeOK, NewestOwnsKey, Owns, Computing

(* A request that is dropped with its last holder.                         *)
LEMMA DroppingKeepsInv ==
  ASSUME FieldInv, NEW i \in Requests, s[i].readers = 0, s[i] # Fresh,
         s' = [s EXCEPT ![i] = Dropped],
         UNCHANGED <<served, entry, pinned, gate, open>>, fails' \in Nat
  PROVE  FieldInv'
<1>1. s[i] \in FieldRecord
  BY InvIsGood
<1>2. Dropped.bytes <= s[i].bytes
  BY <1>1, FreshIsSound DEF FieldRecord
<1>3. Shrinks(s[i], Dropped)
  BY <1>2, FreshIsSound DEF Shrinks, Computing
<1> QED BY <1>3, FreshIsSound, OneRests

(* The end of a session that stores a final state; its buffers are freed   *)
(* unless it completed.                                                    *)
Ending(x, verdict, where) ==
  [(IF verdict = "completed" THEN x ELSE ReleaseBuffers(x))
     EXCEPT !.state = verdict, !.pc = where, !.old = FALSE]

LEMMA EndingShrinks ==
  ASSUME NEW x \in FieldRecord, Sound(x), x.pc \in Computing, NEW verdict \in Terminal,
         verdict = "completed" => Full(x), NEW where \in {"prune", "unstart"},
         where = "unstart" => verdict = "failed"
  PROVE  Shrinks(x, Ending(x, verdict, where)) /\ Ending(x, verdict, where).readers = x.readers
<1>0. 0 \in 0..BudgetBytes
  BY FieldAssumption
<1>1. PICK b \in FieldRecord : b = IF verdict = "completed" THEN x ELSE ReleaseBuffers(x)
  BY <1>0 DEF ReleaseBuffers, FieldRecord
<1>2. /\ b.kind = x.kind /\ b.key = x.key /\ b.seq = x.seq /\ b.flag = x.flag /\ b.reg = x.reg
      /\ b.size = x.size /\ b.delivered = x.delivered /\ b.readers = x.readers
      /\ b.bytes = IF verdict = "completed" THEN x.bytes ELSE 0
      /\ b.tiles = IF verdict = "completed" THEN x.tiles ELSE 0
  BY <1>1 DEF ReleaseBuffers, FieldRecord
<1>3. PICK y : y = [b EXCEPT !.state = verdict, !.pc = where, !.old = FALSE]
  OBVIOUS
<1>3a. y = Ending(x, verdict, where)
  BY <1>1, <1>3 DEF Ending
<1>3b. y \in FieldRecord
  BY <1>3 DEF FieldRecord
<1>3c. /\ y.kind = b.kind /\ y.key = b.key /\ y.seq = b.seq /\ y.flag = b.flag /\ y.reg = b.reg
       /\ y.size = b.size /\ y.delivered = b.delivered /\ y.readers = b.readers
       /\ y.bytes = b.bytes /\ y.tiles = b.tiles
       /\ y.state = verdict /\ y.pc = where /\ y.old = FALSE
  BY <1>3 DEF FieldRecord
<1>4. /\ y \in FieldRecord
      /\ y.state = verdict /\ y.pc = where /\ y.old = FALSE
      /\ y.kind = x.kind /\ y.key = x.key /\ y.seq = x.seq /\ y.flag = x.flag /\ y.reg = x.reg
      /\ y.size = x.size /\ y.delivered = x.delivered /\ y.readers = x.readers
      /\ y.bytes = IF verdict = "completed" THEN x.bytes ELSE 0
      /\ y.tiles = IF verdict = "completed" THEN x.tiles ELSE 0
  BY <1>2, <1>3b, <1>3c
<1>5. x.reg /\ x.state = "running" /\ x.readers = 0 /\ ~x.delivered
  BY DEF Sound
<1>6. Sound(y)
  BY <1>4, <1>5 DEF Sound, Full, Computing, Terminal
<1>7. x # Fresh
  BY <1>5, FreshIsSound
<1>8. y.bytes <= x.bytes
  BY <1>4 DEF FieldRecord
<1> QED BY <1>3a, <1>4, <1>5, <1>6, <1>7, <1>8 DEF Shrinks, Computing

(* A render that goes on.                                                  *)
Rendering(x, where, tiles) == [x EXCEPT !.pc = where, !.tiles = tiles]

LEMMA RenderingShrinks ==
  ASSUME NEW x \in FieldRecord, Sound(x), x.pc \in Computing,
         NEW where \in Computing, NEW tiles \in Nat,
         where = "rendered" /\ ~x.flag => tiles = Tiles
  PROVE  Shrinks(x, Rendering(x, where, tiles)) /\ Rendering(x, where, tiles).readers = x.readers
<1>0. PICK y : y = Rendering(x, where, tiles)
  OBVIOUS
<1>1. /\ y \in FieldRecord /\ y.pc = where /\ y.tiles = tiles
      /\ y.kind = x.kind /\ y.key = x.key /\ y.seq = x.seq /\ y.flag = x.flag
      /\ y.state = x.state /\ y.reg = x.reg /\ y.size = x.size /\ y.bytes = x.bytes
      /\ y.delivered = x.delivered /\ y.readers = x.readers /\ y.old = x.old
  BY <1>0 DEF Rendering, FieldRecord
<1>2. x.reg /\ x.state = "running" /\ x.readers = 0 /\ ~x.delivered
  BY DEF Sound
<1>3. Sound(y)
  BY <1>1, <1>2 DEF Sound, Full, Computing, Terminal
<1>4. x # Fresh
  BY <1>2, FreshIsSound
<1>5. y.bytes <= x.bytes
  BY <1>1 DEF FieldRecord
<1> QED BY <1>0, <1>1, <1>2, <1>3, <1>4, <1>5 DEF Shrinks, Computing

LEMMA WorkersStep ==
  ASSUME FieldInv, NEW i \in Requests,
         \/ StartWorker(i) \/ StartUndone(i) \/ PublishRect(i) \/ RenderReturns(i)
         \/ RenderThrows(i) \/ RenderDone(i) \/ InlineEnds(i)
  PROVE  FieldInv'
<1>1. Good(s) /\ s \in [Requests -> FieldRecord] /\ s[i] \in FieldRecord /\ Sound(s[i]) /\ fails \in Nat
  BY InvIsGood
<1>2. CASE StartWorker(i)
  <2>1. s[i].pc \in Computing /\ "render" \in Computing /\ s[i].tiles \in Nat
    BY <1>1, <1>2 DEF StartWorker, Computing, FieldRecord
  <2>2. CASE s' = [s EXCEPT ![i].pc = "render"] /\ UNCHANGED fails
    <3>1. PICK y : y = Rendering(s[i], "render", s[i].tiles)
      OBVIOUS
    <3>2. s' = [s EXCEPT ![i] = y]
      BY <1>1, <2>2, <3>1 DEF FieldRecord, Rendering
    <3>3. Shrinks(s[i], y) /\ y.readers = s[i].readers
      BY <1>1, <2>1, <3>1, RenderingShrinks
    <3> QED BY <1>1, <1>2, <2>2, <3>2, <3>3, OneRests DEF StartWorker
  <2>3. CASE fails' = fails + 1 /\ s' = [s EXCEPT ![i] = [ReleaseBuffers(@) EXCEPT
                                            !.state = "failed", !.pc = "unstart", !.old = FALSE]]
    <3>1. PICK y : y = Ending(s[i], "failed", "unstart")
      OBVIOUS
    <3>2. s' = [s EXCEPT ![i] = y]
      BY <2>3, <3>1 DEF Ending
    <3>3. "failed" \in Terminal /\ "unstart" \in {"prune", "unstart"}
      BY DEF Terminal
    <3>4. Shrinks(s[i], y) /\ y.readers = s[i].readers
      BY <1>1, <2>1, <3>1, <3>3, EndingShrinks
    <3>5. fails' \in Nat
      BY <1>1, <2>3
    <3> QED BY <1>2, <3>2, <3>4, <3>5, OneRests DEF StartWorker
  <2> QED BY <1>2, <2>2, <2>3 DEF StartWorker
<1>3. CASE StartUndone(i) \/ InlineEnds(i)
  <2>1. s[i].pc \in {"unstart", "inline"}
    BY <1>3 DEF StartUndone, InlineEnds
  <2>2. s[i].readers = 0 /\ s[i] # Fresh
    BY <1>1, <2>1, FreshIsSound DEF Sound, FieldRecord
  <2>3. s' = [s EXCEPT ![i] = Dropped] /\ UNCHANGED <<served, entry, pinned, gate, open, fails>>
    BY <1>3 DEF StartUndone, InlineEnds
  <2> QED BY <1>1, <2>2, <2>3, DroppingKeepsInv
<1>4. CASE PublishRect(i)
  <2>1. s[i].pc = "render" /\ "render" \in Computing /\ s[i].tiles + 1 \in Nat
    BY <1>1, <1>4 DEF PublishRect, Computing, FieldRecord
  <2>2. PICK y : y = Rendering(s[i], "render", s[i].tiles + 1)
    OBVIOUS
  <2>3. s' = [s EXCEPT ![i] = y]
    BY <1>1, <1>4, <2>1, <2>2 DEF PublishRect, FieldRecord, Rendering
  <2>4. Shrinks(s[i], y) /\ y.readers = s[i].readers
    BY <1>1, <2>1, <2>2, RenderingShrinks
  <2> QED BY <1>1, <1>4, <2>3, <2>4, OneRests DEF PublishRect
<1>5. CASE RenderReturns(i)
  <2>1. PICK n : n = IF s[i].flag THEN s[i].tiles ELSE Tiles
    OBVIOUS
  <2>2. s[i].pc \in Computing /\ "rendered" \in Computing /\ n \in Nat
    BY <1>1, <1>5, <2>1, FieldAssumption DEF RenderReturns, Computing, FieldRecord
  <2>3. PICK y : y = Rendering(s[i], "rendered", n)
    OBVIOUS
  <2>4. s' = [s EXCEPT ![i] = y]
    BY <1>1, <1>5, <2>1, <2>3 DEF RenderReturns, FieldRecord, Rendering
  <2>5. Shrinks(s[i], y) /\ y.readers = s[i].readers
    BY <1>1, <2>1, <2>2, <2>3, RenderingShrinks
  <2> QED BY <1>1, <1>5, <2>4, <2>5, OneRests DEF RenderReturns
<1>6. CASE RenderThrows(i) \/ RenderDone(i)
  <2>1. PICK verdict \in Terminal : /\ Finalize(i, verdict)
                                    /\ verdict = "completed" => s[i].pc = "rendered" /\ ~s[i].flag
    BY <1>6 DEF RenderThrows, RenderDone, Terminal
  <2>2. s[i].pc \in Computing /\ "prune" \in {"prune", "unstart"} /\ fails' \in Nat
    BY <1>1, <1>6 DEF RenderThrows, RenderDone, Computing
  <2>3. verdict = "completed" => Full(s[i])
    BY <1>1, <2>1, <2>2 DEF Sound, Full
  <2>4. PICK y : y = Ending(s[i], verdict, "prune")
    OBVIOUS
  <2>5. s' = [s EXCEPT ![i] = y]
    BY <2>1, <2>4 DEF Finalize, Ending
  <2>6. Shrinks(s[i], y) /\ y.readers = s[i].readers
    BY <1>1, <2>2, <2>3, <2>4, EndingShrinks
  <2> QED BY <2>1, <2>2, <2>5, <2>6, OneRests DEF Finalize
<1> QED BY <1>2, <1>3, <1>4, <1>5, <1>6

-----------------------------------------------------------------------------
(* Heartbeats, the reaper and the clock.                                   *)

LEMMA PruningStep ==
  ASSUME FieldInv, NEW t, t = Prune(s), AllShrink(t, s'), \A i \in Requests : s'[i].readers = t[i].readers,
         UNCHANGED <<served, entry, pinned, gate, open, fails>>
  PROVE  FieldInv'
<1>1. AllTidied(s, t)
  BY PruneTidies, InvIsGood
<1>2. AllShrink(s, t) /\ \A i \in Requests : t[i].readers = s[i].readers
  BY <1>1, AllTidiedShrinks, InvIsGood
<1>3. AllShrink(s, s')
  BY <1>2, AllShrinkGoesOn, InvIsGood
<1>4. Rests
  BY <1>2, <1>3, InvIsGood DEF Rests
<1> QED BY <1>4, RestingKeepsInv

LEMMA GoodShrinks ==
  ASSUME NEW t, Good(t)
  PROVE  AllShrink(t, t)
BY NothingTidies DEF Good, AllShrink

LEMMA HousekeepingStep ==
  ASSUME FieldInv,
         \/ ReapSessions \/ ReapEntries \/ Leave
         \/ \E i \in Requests : FinalPrune(i) \/ Poll(i)
         \/ \E k \in Keys, q \in Nat, same \in BOOLEAN : StartAgain(k, q, same)
  PROVE  FieldInv'
<1>1. Good(s) /\ EntryTypeOK(entry) /\ Owns(s, entry) /\ fails \in Nat /\ AllShrink(s, s)
  BY InvIsGood, GoodShrinks
<1>2. PICK t : t = Prune(s)
  OBVIOUS
<1>3. Good(t)
  BY <1>1, <1>2, PruneTidies, TidiedIsGood
<1>4. CASE ReapSessions
  <2>1. AllShrink(t, s') /\ \A i \in Requests : s'[i].readers = t[i].readers
    BY <1>2, <1>3, <1>4, GoodShrinks DEF ReapSessions
  <2> QED BY <1>2, <1>4, <2>1, PruningStep DEF ReapSessions
<1>5. CASE ReapEntries
  <2>1. EntryTypeOK(PruneEntries(entry, s)) /\ Owns(s, PruneEntries(entry, s))
    BY <1>1, EntriesStayTyped, PruningKeepsOwners
  <2>2. s' = s /\ entry' = PruneEntries(entry, s)
    BY <1>5 DEF ReapEntries
  <2>3. EntryTypeOK(entry') /\ Owns(s', entry') /\ AllShrink(s, s')
    BY <1>1, <2>1, <2>2
  <2>4. Settles
    BY <1>1, <1>5, <2>2, <2>3 DEF ReapEntries, Settles, FieldInv, FieldTypeOK, ReadersInv
  <2> QED BY <2>4, SettlingKeepsInv
<1>6. CASE Leave
  <2>1. s' = s /\ entry' = entry
    BY <1>6 DEF Leave
  <2>2. EntryTypeOK(entry') /\ Owns(s', entry') /\ AllShrink(s, s')
    BY <1>1, <2>1
  <2>3. Settles
    BY <1>1, <1>6, <2>1, <2>2 DEF Leave, Settles, FieldInv, FieldTypeOK, ReadersInv
  <2> QED BY <2>3, SettlingKeepsInv
<1>7. ASSUME NEW i \in Requests, FinalPrune(i) PROVE FieldInv'
  <2>1. PICK y : y = IF t[i].reg THEN [t[i] EXCEPT !.pc = "gone"] ELSE Dropped
    OBVIOUS
  <2>2. s' = [t EXCEPT ![i] = y] /\ s[i].pc = "prune"
    BY <1>2, <1>7, <2>1 DEF FinalPrune
  <2>3. t[i] \in FieldRecord /\ Sound(t[i]) /\ t[i].pc = "prune" /\ t \in [Requests -> FieldRecord]
    <3>1. Tidied(s[i], t[i])
      BY <1>1, <1>2, PruneTidies DEF AllTidied
    <3> QED BY <1>3, <2>2, <3>1 DEF Good, Tidied
  <2>4. t[i] # Fresh
    BY <2>3, FreshIsSound
  <2>5. Shrinks(t[i], y) /\ y.readers = t[i].readers
    <3>1. CASE t[i].reg
      <4>1. /\ y \in FieldRecord /\ y.pc = "gone"
            /\ y.kind = t[i].kind /\ y.key = t[i].key /\ y.seq = t[i].seq /\ y.flag = t[i].flag
            /\ y.state = t[i].state /\ y.reg = t[i].reg /\ y.size = t[i].size
            /\ y.bytes = t[i].bytes /\ y.tiles = t[i].tiles
            /\ y.delivered = t[i].delivered /\ y.readers = t[i].readers /\ y.old = t[i].old
        BY <2>1, <2>3, <3>1 DEF FieldRecord
      <4>2. Sound(y)
        BY <2>3, <4>1 DEF Sound, Full, Computing, Terminal
      <4>3. y.bytes <= t[i].bytes
        BY <4>1 DEF FieldRecord
      <4> QED BY <2>4, <4>1, <4>2, <4>3 DEF Shrinks, Computing
    <3>2. CASE ~t[i].reg
      <4>1. y = Dropped
        BY <2>1, <3>2
      <4>2. t[i].readers = 0
        BY <2>3, <3>2 DEF Sound, FieldRecord
      <4>3. Dropped.bytes <= t[i].bytes
        BY <2>3, FreshIsSound DEF FieldRecord
      <4>4. Shrinks(t[i], Dropped)
        BY <2>4, <4>3, FreshIsSound DEF Shrinks, Computing
      <4> QED BY <4>1, <4>2, <4>4, FreshIsSound
    <3> QED BY <3>1, <3>2
  <2>6. AllShrink(t, [t EXCEPT ![i] = y])
    BY <1>3, <2>5, OneShrinks
  <2>7. AllShrink(t, s') /\ \A j \in Requests : s'[j].readers = t[j].readers
    BY <2>2, <2>3, <2>5, <2>6
  <2> QED BY <1>2, <1>7, <2>7, PruningStep DEF FinalPrune
<1>8. ASSUME NEW i \in Requests, Poll(i) PROVE FieldInv'
  <2>1. AllShrink(s, Touch(s, i)) /\ \A j \in Requests : Touch(s, i)[j].readers = s[j].readers
    BY <1>1, TouchShrinks
  <2>2. Rests
    BY <1>1, <1>8, <2>1 DEF Poll, Rests
  <2> QED BY <2>2, RestingKeepsInv
<1>9. ASSUME NEW k \in Keys, NEW q \in Nat, NEW same \in BOOLEAN, StartAgain(k, q, same)
      PROVE  FieldInv'
  <2>1. PICK i : s' = IF same THEN Touch(t, i) ELSE t
    BY <1>2, <1>9 DEF StartAgain
  <2>2. AllShrink(t, Touch(t, i)) /\ \A j \in Requests : Touch(t, i)[j].readers = t[j].readers
    BY <1>3, TouchShrinks
  <2>3. AllShrink(t, t)
    BY <1>3, GoodShrinks
  <2>4. AllShrink(t, s') /\ \A j \in Requests : s'[j].readers = t[j].readers
    BY <2>1, <2>2, <2>3
  <2> QED BY <1>2, <1>9, <2>4, PruningStep DEF StartAgain
<1> QED BY <1>4, <1>5, <1>6, <1>7, <1>8, <1>9

(* Time passes for a session that is not about to be pruned.               *)
LEMMA ClockStep ==
  ASSUME FieldInv, NEW list, Age(list)
  PROVE  FieldInv'
<1>1. Good(s) /\ s \in [Requests -> FieldRecord] /\ fails \in Nat
  BY InvIsGood
<1>2. PICK j \in 1..Len(list) : /\ s[list[j]].reg /\ s[list[j]].pc \notin {"unstart", "prune"}
                                /\ ~s[list[j]].old
                                /\ s' = [s EXCEPT ![list[j]].old = TRUE]
  BY DEF Age
<1>3. PICK i : i = list[j]
  OBVIOUS
<1>4. UNCHANGED <<served, entry, pinned, gate, open, fails>>
  BY DEF Age
<1>5. CASE i \notin Requests
  <2>1. s' = s
    BY <1>1, <1>2, <1>3, <1>5
  <2>2. Rests
    BY <1>1, <1>4, <2>1, GoodShrinks DEF Rests
  <2> QED BY <2>2, RestingKeepsInv
<1>6. s[i] # Fresh
  BY <1>2, <1>3, FreshIsSound
<1>7. CASE i \in Requests
  <2>1. s[i] \in FieldRecord /\ Sound(s[i])
    BY <1>7, InvIsGood
  <2>2. PICK y : y = [s[i] EXCEPT !.old = TRUE]
    OBVIOUS
  <2>3. /\ y \in FieldRecord
        /\ y.kind = s[i].kind /\ y.key = s[i].key /\ y.seq = s[i].seq /\ y.flag = s[i].flag
        /\ y.state = s[i].state /\ y.pc = s[i].pc /\ y.reg = s[i].reg
        /\ y.size = s[i].size /\ y.bytes = s[i].bytes /\ y.tiles = s[i].tiles
        /\ y.delivered = s[i].delivered /\ y.readers = s[i].readers
    BY <2>1, <2>2 DEF FieldRecord
  <2>4. y.pc \notin {"unstart", "prune"}
    BY <1>2, <1>3, <2>3
  <2>5. Sound(y)
    BY <2>1, <2>3, <2>4 DEF Sound, Full
  <2>6. y.bytes <= s[i].bytes
    BY <2>1, <2>3 DEF FieldRecord
  <2>7. Shrinks(s[i], y)
    BY <1>6, <2>3, <2>5, <2>6 DEF Shrinks
  <2>8. s' = [s EXCEPT ![i] = y]
    BY <1>2, <1>3, <2>2
  <2> QED BY <1>1, <1>4, <1>7, <2>3, <2>7, <2>8, OneRests
<1> QED BY <1>5, <1>6, <1>7

-----------------------------------------------------------------------------
(* Results.                                                                *)

(* Whoever has pinned a result or encodes it finds the whole field.        *)
LEMMA ReadersFindField ==
  ASSUME FieldInv, NEW i \in Requests, pinned[i] > 0 \/ gate = i
  PROVE  /\ s[i].readers > 0 /\ s[i].reg /\ s[i].state = "completed" /\ Full(s[i])
<1>1. s[i].readers = pinned[i] + (IF gate = i THEN 1 ELSE 0) /\ pinned[i] \in Nat
  BY DEF FieldInv, ReadersInv, FieldTypeOK
<1>2. s[i].readers > 0
  BY <1>1
<1>3. Sound(s[i])
  BY InvIsGood
<1> QED BY <1>2, <1>3 DEF Sound

(* A step of the readers of one session.                                   *)
LEMMA ReadersOfOneSettle ==
  ASSUME FieldInv, NEW i \in Requests, NEW y, Shrinks(s[i], y), s' = [s EXCEPT ![i] = y],
         pinned' \in [Requests -> Nat], gate' \in {NoOne, Closing} \cup Requests,
         y.readers = pinned'[i] + (IF gate' = i THEN 1 ELSE 0),
         \A j \in Requests \ {i} : pinned'[j] = pinned[j] /\ (gate' = j <=> gate = j),
         UNCHANGED <<served, entry, fails, open>>
  PROVE  FieldInv'
<1>1. Good(s) /\ s \in [Requests -> FieldRecord] /\ EntryTypeOK(entry) /\ Owns(s, entry) /\ fails \in Nat
  BY InvIsGood
<1>2. AllShrink(s, s')
  BY <1>1, OneShrinks
<1>3. Owns(s', entry)
  BY <1>1, <1>2, ShrinkingKeepsOwners
<1>4. ReadersInv /\ open \in BOOLEAN
  BY DEF FieldInv, FieldTypeOK
<1>5. \A j \in Requests : s'[j].readers = pinned'[j] + (IF gate' = j THEN 1 ELSE 0)
  <2>1. SUFFICES ASSUME NEW j \in Requests
                 PROVE  s'[j].readers = pinned'[j] + (IF gate' = j THEN 1 ELSE 0)
    OBVIOUS
  <2>2. CASE j = i
    BY <1>1, <2>2
  <2>3. CASE j # i
    BY <1>1, <1>4, <2>3 DEF ReadersInv
  <2> QED BY <2>2, <2>3
<1>6. Settles
  BY <1>1, <1>2, <1>3, <1>4, <1>5 DEF Settles
<1> QED BY <1>6, SettlingKeepsInv

LEMMA PinningShrinks ==
  ASSUME NEW x \in FieldRecord, Sound(x), x.reg, x.state = "completed", ~x.delivered
  PROVE  /\ Shrinks(x, [x EXCEPT !.readers = @ + 1])
         /\ [x EXCEPT !.readers = @ + 1].readers = x.readers + 1
<1>0. PICK n \in Nat : n = x.readers + 1
  BY DEF FieldRecord
<1>1. PICK y : y = [x EXCEPT !.readers = n]
  OBVIOUS
<1>2. /\ y \in FieldRecord /\ y.readers = x.readers + 1
      /\ y.kind = x.kind /\ y.key = x.key /\ y.seq = x.seq /\ y.flag = x.flag /\ y.state = x.state
      /\ y.pc = x.pc /\ y.reg = x.reg /\ y.size = x.size /\ y.bytes = x.bytes /\ y.tiles = x.tiles
      /\ y.delivered = x.delivered /\ y.old = x.old
  BY <1>0, <1>1 DEF FieldRecord
<1>3. Sound(y)
  BY <1>2 DEF Sound, Full, Terminal
<1>4. x # Fresh
  BY FreshIsSound
<1>5. y.bytes <= x.bytes
  BY <1>2 DEF FieldRecord
<1> QED BY <1>0, <1>1, <1>2, <1>3, <1>4, <1>5 DEF Shrinks

LEMMA ReleasingShrinks ==
  ASSUME NEW x \in FieldRecord, Sound(x), x.readers > 0
  PROVE  Shrinks(x, ReleaseReader(x)) /\ ReleaseReader(x).readers = x.readers - 1
<1>0. x.readers \in Nat /\ 0 \in 0..BudgetBytes /\ 0 \in Nat
  BY FieldAssumption DEF FieldRecord
<1>1. Max({x.readers - 1, 0}) = x.readers - 1
  BY <1>0 DEF Max
<1>2. PICK b : b = [x EXCEPT !.readers = x.readers - 1]
  OBVIOUS
<1>3. /\ b \in FieldRecord /\ b.readers = x.readers - 1
      /\ b.kind = x.kind /\ b.key = x.key /\ b.seq = x.seq /\ b.flag = x.flag /\ b.state = x.state
      /\ b.pc = x.pc /\ b.reg = x.reg /\ b.size = x.size /\ b.bytes = x.bytes /\ b.tiles = x.tiles
      /\ b.delivered = x.delivered /\ b.old = x.old
  BY <1>0, <1>2 DEF FieldRecord
<1>4. PICK y : y = IF b.delivered /\ b.readers = 0 THEN ReleaseBuffers(b) ELSE b
  OBVIOUS
<1>5. y = ReleaseReader(x)
  BY <1>1, <1>2, <1>4 DEF ReleaseReader
<1>6. /\ y \in FieldRecord /\ y.readers = b.readers
      /\ y.kind = b.kind /\ y.key = b.key /\ y.seq = b.seq /\ y.flag = b.flag /\ y.state = b.state
      /\ y.pc = b.pc /\ y.reg = b.reg /\ y.size = b.size /\ y.delivered = b.delivered /\ y.old = b.old
      /\ y.bytes = IF b.delivered /\ b.readers = 0 THEN 0 ELSE b.bytes
      /\ y.tiles = IF b.delivered /\ b.readers = 0 THEN 0 ELSE b.tiles
  <2>1. CASE b.delivered /\ b.readers = 0
    <3>1. y = [b EXCEPT !.bytes = 0, !.tiles = 0]
      BY <1>4, <2>1 DEF ReleaseBuffers
    <3> QED BY <1>0, <1>3, <2>1, <3>1 DEF FieldRecord
  <2>2. CASE ~(b.delivered /\ b.readers = 0)
    BY <1>3, <1>4, <2>2
  <2> QED BY <2>1, <2>2
<1>7. x.reg /\ x.state = "completed" /\ Full(x)
  BY DEF Sound
<1>8. Sound(y)
  BY <1>3, <1>6, <1>7 DEF Sound, Full, Terminal, Computing
<1>9. x # Fresh
  BY <1>7, FreshIsSound
<1>10. y.bytes <= x.bytes
  BY <1>3, <1>6 DEF FieldRecord
<1> QED BY <1>3, <1>5, <1>6, <1>8, <1>9, <1>10 DEF Shrinks

(* A result that is acknowledged.                                          *)
Acknowledged(x) == [(IF x.readers = 0 THEN ReleaseBuffers(x) ELSE x) EXCEPT !.delivered = TRUE]

LEMMA AcknowledgingShrinks ==
  ASSUME NEW x \in FieldRecord, Sound(x), x.reg, x.state = "completed"
  PROVE  Shrinks(x, Acknowledged(x)) /\ Acknowledged(x).readers = x.readers
<1>0. x.readers \in Nat /\ 0 \in 0..BudgetBytes /\ 0 \in Nat
  BY FieldAssumption DEF FieldRecord
<1>1. PICK b \in FieldRecord : b = IF x.readers = 0 THEN ReleaseBuffers(x) ELSE x
  BY <1>0 DEF ReleaseBuffers, FieldRecord
<1>2. /\ b.kind = x.kind /\ b.key = x.key /\ b.seq = x.seq /\ b.flag = x.flag /\ b.state = x.state
      /\ b.pc = x.pc /\ b.reg = x.reg /\ b.size = x.size /\ b.old = x.old /\ b.readers = x.readers
      /\ b.bytes = IF x.readers = 0 THEN 0 ELSE x.bytes
      /\ b.tiles = IF x.readers = 0 THEN 0 ELSE x.tiles
  BY <1>1 DEF ReleaseBuffers, FieldRecord
<1>3. PICK y : y = [b EXCEPT !.delivered = TRUE]
  OBVIOUS
<1>3a. y = Acknowledged(x)
  BY <1>1, <1>3 DEF Acknowledged
<1>4. /\ y \in FieldRecord /\ y.delivered = TRUE
      /\ y.kind = b.kind /\ y.key = b.key /\ y.seq = b.seq /\ y.flag = b.flag /\ y.state = b.state
      /\ y.pc = b.pc /\ y.reg = b.reg /\ y.size = b.size /\ y.old = b.old /\ y.readers = b.readers
      /\ y.bytes = b.bytes /\ y.tiles = b.tiles
  BY <1>3 DEF FieldRecord
<1>5. Sound(y)
  BY <1>0, <1>2, <1>4 DEF Sound, Full, Terminal, Computing
<1>6. x # Fresh
  BY FreshIsSound
<1>7. y.bytes <= x.bytes
  BY <1>2, <1>4 DEF FieldRecord
<1> QED BY <1>2, <1>3a, <1>4, <1>5, <1>6, <1>7 DEF Shrinks

LEMMA ResultsStep ==
  ASSUME FieldInv,
         \/ \E i \in Requests : Pin(i) \/ EnterGate(i) \/ Acknowledge(i)
         \/ Encoded \/ LeaveGate
  PROVE  FieldInv'
<1>1. /\ Good(s) /\ s \in [Requests -> FieldRecord] /\ EntryTypeOK(entry) /\ Owns(s, entry)
      /\ fails \in Nat /\ \A i \in Requests : s[i] \in FieldRecord /\ Sound(s[i])
  BY InvIsGood
<1>2. /\ pinned \in [Requests -> Nat] /\ gate \in {NoOne, Closing} \cup Requests /\ open \in BOOLEAN
      /\ \A i \in Requests : s[i].readers = pinned[i] + (IF gate = i THEN 1 ELSE 0)
  BY DEF FieldInv, FieldTypeOK, ReadersInv
<1>3. NoOne \notin Requests /\ Closing \notin Requests
  BY DEF NoOne, Closing, Requests
<1>4. ASSUME NEW i \in Requests, Pin(i) PROVE FieldInv'
  <2>1. s[i].reg /\ s[i].state = "completed" /\ ~s[i].delivered
    BY <1>4 DEF Pin, Ended
  <2>2. PICK y : y = [s[i] EXCEPT !.readers = @ + 1]
    OBVIOUS
  <2>3. Shrinks(s[i], y) /\ y.readers = s[i].readers + 1
    BY <1>1, <2>1, <2>2, PinningShrinks
  <2>4. s' = [s EXCEPT ![i] = y] /\ pinned' = [pinned EXCEPT ![i] = @ + 1]
    BY <1>1, <1>4, <2>2 DEF Pin
  <2>5. pinned' \in [Requests -> Nat] /\ pinned'[i] = pinned[i] + 1
    BY <1>2, <2>4
  <2>6. UNCHANGED <<served, entry, gate, fails, open>>
    BY <1>4 DEF Pin
  <2>7. y.readers = pinned'[i] + (IF gate' = i THEN 1 ELSE 0)
    BY <1>2, <2>3, <2>5, <2>6
  <2> QED BY <1>2, <2>3, <2>4, <2>5, <2>6, <2>7, ReadersOfOneSettle
<1>5. ASSUME NEW i \in Requests, EnterGate(i) PROVE FieldInv'
  <2>1. pinned[i] > 0 /\ pinned' = [pinned EXCEPT ![i] = @ - 1]
    BY <1>5 DEF EnterGate
  <2>2. pinned' \in [Requests -> Nat] /\ pinned'[i] = pinned[i] - 1
    BY <1>2, <2>1
  <2>3. UNCHANGED <<served, entry, fails, open>>
    BY <1>5 DEF EnterGate
  <2>4. CASE gate = NoOne
    <3>1. gate' = i /\ s' = s
      BY <1>5, <2>4 DEF EnterGate
    <3>2. s' = [s EXCEPT ![i] = s[i]]
      BY <1>1, <3>1
    <3>3. Shrinks(s[i], s[i])
      BY <1>1, NothingTidies
    <3>4. s[i].readers = pinned'[i] + (IF gate' = i THEN 1 ELSE 0)
      BY <1>2, <1>3, <2>2, <2>4, <3>1
    <3>5. \A j \in Requests \ {i} : pinned'[j] = pinned[j] /\ (gate' = j <=> gate = j)
      BY <1>2, <1>3, <2>1, <2>4, <3>1
    <3>6. gate' \in {NoOne, Closing} \cup Requests
      BY <3>1
    <3> QED BY <2>2, <2>3, <3>2, <3>3, <3>4, <3>5, <3>6, ReadersOfOneSettle
  <2>5. CASE gate # NoOne
    <3>1. PICK y : y = ReleaseReader(s[i])
      OBVIOUS
    <3>2. gate' = gate /\ s' = [s EXCEPT ![i] = y]
      BY <1>5, <2>5, <3>1 DEF EnterGate
    <3>3. s[i].readers > 0
      BY <1>2, <2>1
    <3>4. Shrinks(s[i], y) /\ y.readers = s[i].readers - 1
      BY <1>1, <3>1, <3>3, ReleasingShrinks
    <3>5. y.readers = pinned'[i] + (IF gate' = i THEN 1 ELSE 0)
      BY <1>2, <2>2, <3>2, <3>4
    <3>6. \A j \in Requests \ {i} : pinned'[j] = pinned[j] /\ (gate' = j <=> gate = j)
      BY <1>2, <2>1, <3>2
    <3>7. gate' \in {NoOne, Closing} \cup Requests
      BY <1>2, <3>2
    <3> QED BY <2>2, <2>3, <3>2, <3>4, <3>5, <3>6, <3>7, ReadersOfOneSettle
  <2> QED BY <2>4, <2>5
<1>6. ASSUME NEW i \in Requests, Acknowledge(i) PROVE FieldInv'
  <2>1. s[i].reg /\ s[i].state = "completed"
    BY <1>6 DEF Acknowledge, Ended
  <2>2. PICK y : y = Acknowledged(s[i])
    OBVIOUS
  <2>3. s' = [s EXCEPT ![i] = y] /\ UNCHANGED <<served, entry, pinned, gate, fails, open>>
    BY <1>6, <2>2 DEF Acknowledge, Acknowledged
  <2>4. Shrinks(s[i], y) /\ y.readers = s[i].readers
    BY <1>1, <2>1, <2>2, AcknowledgingShrinks
  <2> QED BY <1>1, <2>3, <2>4, OneRests
<1>7. CASE Encoded
  <2>1. PICK i \in Requests : i = gate
    BY <1>7 DEF Encoded
  <2>2. PICK y : y = ReleaseReader(s[i])
    OBVIOUS
  <2>3. gate' = Closing /\ s' = [s EXCEPT ![i] = y] /\ UNCHANGED <<served, entry, pinned, fails, open>>
    BY <1>7, <2>1, <2>2 DEF Encoded
  <2>4. s[i].readers = pinned[i] + 1 /\ pinned[i] \in Nat
    BY <1>2, <2>1
  <2>5. Shrinks(s[i], y) /\ y.readers = s[i].readers - 1
    BY <1>1, <2>2, <2>4, ReleasingShrinks
  <2>6. y.readers = pinned'[i] + (IF gate' = i THEN 1 ELSE 0)
    BY <1>3, <2>3, <2>4, <2>5
  <2>7. \A j \in Requests \ {i} : pinned'[j] = pinned[j] /\ (gate' = j <=> gate = j)
    BY <1>3, <2>1, <2>3
  <2>8. pinned' \in [Requests -> Nat] /\ gate' \in {NoOne, Closing} \cup Requests
    BY <1>2, <2>3
  <2> QED BY <2>3, <2>5, <2>6, <2>7, <2>8, ReadersOfOneSettle
<1>8. CASE LeaveGate
  <2>1. s' = s /\ gate = Closing /\ gate' = NoOne /\ UNCHANGED <<served, entry, pinned, fails, open>>
    BY <1>8 DEF LeaveGate
  <2>2. AllShrink(s, s') /\ Owns(s', entry')
    BY <1>1, <2>1, GoodShrinks
  <2>3. \A i \in Requests : s'[i].readers = pinned'[i] + (IF gate' = i THEN 1 ELSE 0)
    BY <1>2, <1>3, <2>1
  <2>4. Settles
    BY <1>1, <1>2, <2>1, <2>2, <2>3 DEF Settles
  <2> QED BY <2>4, SettlingKeepsInv
<1> QED BY <1>4, <1>5, <1>6, <1>7, <1>8

-----------------------------------------------------------------------------
(* Requests.                                                               *)

(* The limits, when a request n that had not come becomes x.               *)
LEMMA ArrivingCounts ==
  ASSUME NEW u, Good(u), NEW n \in Requests, u[n] = Fresh, NEW x \in FieldRecord,
         NEW v, v = [u EXCEPT ![n] = x]
  PROVE  /\ Cardinality(Live(v)) <= Cardinality(Live(u)) + (IF x.reg THEN 1 ELSE 0)
         /\ Cardinality(Bytes(v, Registered(v)))
              <= Cardinality(Bytes(u, Registered(u))) + (IF x.reg THEN x.bytes ELSE 0)
<1>1. /\ u \in [Requests -> FieldRecord] /\ ~u[n].reg
      /\ \A i \in Requests \ {n} : v[i] = u[i]
      /\ v[n] = x
  BY FreshIsSound DEF Good
<1>2. /\ Live(u) \in SUBSET Requests /\ Live(v) \in SUBSET Requests
      /\ Registered(u) \in SUBSET Requests /\ Registered(v) \in SUBSET Requests
  BY DEF Live, Registered
<1>3. /\ IsFiniteSet(Live(u)) /\ Cardinality(Live(u)) \in Nat
      /\ IsFiniteSet(Bytes(u, Registered(u))) /\ Cardinality(Bytes(u, Registered(u))) \in Nat
  BY <1>2, RequestsAreFinite, BytesAreFinite
<1>4. CASE x.reg
  <2>1. x.bytes \in Nat /\ x.bytes <= BudgetBytes /\ BudgetBytes \in Nat
    BY FieldAssumption DEF FieldRecord
  <2>2. Live(v) \in SUBSET (Live(u) \cup {n})
    BY <1>1 DEF Live
  <2>3. IsFiniteSet(Live(u) \cup {n}) /\ Cardinality(Live(u) \cup {n}) <= Cardinality(Live(u)) + 1
    <3>1. /\ IsFiniteSet(Live(u) \cup {n})
          /\ Cardinality(Live(u) \cup {n}) = IF n \in Live(u) THEN Cardinality(Live(u)) ELSE Cardinality(Live(u)) + 1
      BY <1>3, FS_AddElement
    <3> QED BY <1>3, <3>1
  <2>4. Cardinality(Live(v)) <= Cardinality(Live(u)) + 1
    <3>1. Cardinality(Live(v)) <= Cardinality(Live(u) \cup {n})
      BY <2>2, <2>3, FS_Subset
    <3>2. Cardinality(Live(v)) \in Nat /\ Cardinality(Live(u) \cup {n}) \in Nat
      BY <1>2, <2>3, RequestsAreFinite, FS_CardinalityType
    <3> QED BY <1>3, <2>3, <3>1, <3>2
  <2>5. PICK N : N = {n} \X (1..x.bytes)
    OBVIOUS
  <2>6. IsFiniteSet(N) /\ Cardinality(N) = x.bytes
    <3>1. IsFiniteSet({n}) /\ Cardinality({n}) = 1
      BY FS_Singleton
    <3>2. IsFiniteSet(1..x.bytes) /\ Cardinality(1..x.bytes) = x.bytes
      <4>1. 1 \in Int /\ x.bytes \in Int
        BY <2>1
      <4>2. IsFiniteSet(1..x.bytes) /\ Cardinality(1..x.bytes) = IF 1 > x.bytes THEN 0 ELSE x.bytes - 1 + 1
        BY <4>1, FS_Interval
      <4>3. (IF 1 > x.bytes THEN 0 ELSE x.bytes - 1 + 1) = x.bytes
        BY <2>1
      <4> QED BY <4>2, <4>3
    <3>3. IsFiniteSet(N) /\ Cardinality(N) = 1 * x.bytes
      BY <2>5, <3>1, <3>2, FS_Product
    <3> QED BY <2>1, <3>3
  <2>7. Bytes(v, Registered(v)) \in SUBSET (Bytes(u, Registered(u)) \cup N)
    <3>1. SUFFICES ASSUME NEW p \in Bytes(v, Registered(v)), p \notin Bytes(u, Registered(u))
                   PROVE  p \in N
      OBVIOUS
    <3>2. p \in Registered(v) \X (1..BudgetBytes) /\ p[2] <= v[p[1]].bytes
      BY <3>1 DEF Bytes
    <3>3. p[1] = n
      <4>1. SUFFICES ASSUME p[1] # n PROVE FALSE
        OBVIOUS
      <4>2. p[1] \in Registered(u) /\ v[p[1]] = u[p[1]]
        BY <1>1, <3>2, <4>1 DEF Registered
      <4> QED BY <3>1, <3>2, <4>2 DEF Bytes
    <3>4. p[2] \in 1..x.bytes
      BY <1>1, <2>1, <3>2, <3>3
    <3> QED BY <2>5, <3>2, <3>3, <3>4
  <2>8. Cardinality(Bytes(v, Registered(v))) <= Cardinality(Bytes(u, Registered(u))) + x.bytes
    <3>1. PICK B : B = Bytes(u, Registered(u))
      OBVIOUS
    <3>2. /\ IsFiniteSet(B \cup N) /\ IsFiniteSet(B \cap N) /\ Cardinality(B \cap N) \in Nat
          /\ Cardinality(B \cup N) = Cardinality(B) + Cardinality(N) - Cardinality(B \cap N)
      BY <1>3, <2>6, <3>1, FS_Union, FS_Intersection, FS_CardinalityType
    <3>3. Cardinality(Bytes(v, Registered(v))) <= Cardinality(B \cup N)
      BY <2>7, <3>1, <3>2, FS_Subset
    <3>4. Cardinality(Bytes(v, Registered(v))) \in Nat
      BY <1>2, BytesAreFinite
    <3> QED BY <1>3, <2>1, <2>6, <3>1, <3>2, <3>3, <3>4
  <2> QED BY <1>4, <2>4, <2>8
<1>5. CASE ~x.reg
  <2>1. Live(v) = Live(u) /\ Registered(v) = Registered(u)
    BY <1>1, <1>5 DEF Live, Registered
  <2>2. \A i \in Registered(u) : v[i] = u[i]
    BY <1>1 DEF Registered
  <2>3. Bytes(v, Registered(v)) = Bytes(u, Registered(u))
    BY <2>1, <2>2 DEF Bytes
  <2> QED BY <1>3, <1>5, <2>1, <2>3
<1> QED BY <1>4, <1>5

(* A step that lets the next request n in as x, once its key's entry is    *)
(* its own and, if it is registered, there is room for it.                 *)
LEMMA ArrivingKeepsInv ==
  ASSUME FieldInv, NEW u, AllTidied(s, u), NEW n \in Requests, n = served + 1,
         NEW x \in FieldRecord, Sound(x), x.key \in Keys, x.readers = 0, s' = [u EXCEPT ![n] = x],
         EntryTypeOK(entry'), Owns(u, entry'), entry'[x.key] = [seq |-> x.seq, flag |-> n],
         served' = n, UNCHANGED <<pinned, gate, fails, open>>,
         x.reg => /\ Cardinality(Live(u)) < MaxRunning
                  /\ Cardinality(Bytes(u, Registered(u))) <= BudgetBytes - x.bytes
  PROVE  FieldInv'
<1>1. Good(s) /\ Good(u) /\ u \in [Requests -> FieldRecord] /\ FieldTypeOK /\ ReadersInv /\ ServedInv /\ LimitsInv
  BY TidiedIsGood DEF FieldInv, AllTidied
<1>2. served \in Nat /\ MaxRequests \in Nat /\ n > served
  BY <1>1, FieldAssumption DEF FieldTypeOK
<1>3. \A i \in Requests : i > served => s[i] = Fresh /\ u[i] = Fresh
  BY <1>1 DEF ServedInv, AllTidied, Tidied
<1>4. \A i \in Requests : u[i].readers = s[i].readers
  BY <1>1, AllTidiedShrinks
<1>5. PICK v : v = s'
  OBVIOUS
<1>6. /\ v \in [Requests -> FieldRecord] /\ v[n] = x
      /\ \A i \in Requests \ {n} : v[i] = u[i]
  BY <1>1, <1>5
<1>7. Good(v)
  BY <1>1, <1>6 DEF Good
<1>8. FieldTypeOK'
  <2>1. served' \in 0..MaxRequests
    BY <1>2 DEF Requests
  <2> QED BY <1>1, <1>5, <1>6, <2>1 DEF FieldTypeOK, EntryTypeOK
<1>9. Good(s)'
  BY <1>5, <1>7 DEF Good
<1>10. ReadersInv'
  <2>1. SUFFICES ASSUME NEW i \in Requests PROVE v[i].readers = pinned[i] + (IF gate = i THEN 1 ELSE 0)
    BY <1>5 DEF ReadersInv
  <2>2. s[n].readers = 0
    BY <1>2, <1>3, FreshIsSound
  <2>3. v[i].readers = s[i].readers
    BY <1>4, <1>6, <2>2
  <2> QED BY <1>1, <2>3 DEF ReadersInv
<1>11. ServedInv'
  <2>1. SUFFICES ASSUME NEW i \in Requests, i > n PROVE v[i] = Fresh
    BY <1>5 DEF ServedInv
  <2>2. i > served /\ i # n
    BY <1>2, <2>1 DEF Requests
  <2> QED BY <1>3, <1>6, <2>2
<1>12. NewestOwnsKey'
  <2>1. PICK e : e = entry'
    OBVIOUS
  <2>2. SUFFICES ASSUME NEW i \in Requests, v[i].pc \in Computing \cup {"inline"}, ~v[i].flag
                 PROVE  e[v[i].key] = [seq |-> v[i].seq, flag |-> i]
    BY <1>5, <2>1 DEF NewestOwnsKey, Computing
  <2>3. CASE i = n
    BY <1>6, <2>1, <2>3
  <2>4. CASE i # n
    BY <1>6, <2>1, <2>2, <2>4 DEF Owns
  <2> QED BY <2>3, <2>4
<1>13. LimitsInv'
  <2>1. /\ Cardinality(Live(v)) <= Cardinality(Live(u)) + (IF x.reg THEN 1 ELSE 0)
        /\ Cardinality(Bytes(v, Registered(v)))
             <= Cardinality(Bytes(u, Registered(u))) + (IF x.reg THEN x.bytes ELSE 0)
    BY <1>1, <1>2, <1>3, <1>5, ArrivingCounts
  <2>2. /\ Cardinality(Live(u)) <= Cardinality(Live(s))
        /\ Cardinality(Bytes(u, Registered(u))) <= Cardinality(Bytes(s, Registered(s)))
    BY <1>1, AllTidiedShrinks, ShrinkingFrees
  <2>3. /\ Live(s) \in SUBSET Requests /\ Live(u) \in SUBSET Requests /\ Live(v) \in SUBSET Requests
        /\ Registered(s) \in SUBSET Requests /\ Registered(u) \in SUBSET Requests
        /\ Registered(v) \in SUBSET Requests
    BY DEF Live, Registered
  <2>4. /\ Cardinality(Live(s)) \in Nat /\ Cardinality(Live(u)) \in Nat /\ Cardinality(Live(v)) \in Nat
        /\ Cardinality(Bytes(s, Registered(s))) \in Nat
        /\ Cardinality(Bytes(u, Registered(u))) \in Nat
        /\ Cardinality(Bytes(v, Registered(v))) \in Nat
    BY <2>3, RequestsAreFinite, BytesAreFinite
  <2>5. MaxRunning \in Nat /\ BudgetBytes \in Nat /\ x.bytes \in Nat
    BY FieldAssumption DEF FieldRecord
  <2>6. Cardinality(Live(s)) <= MaxRunning /\ Cardinality(Bytes(s, Registered(s))) <= BudgetBytes
    BY <1>1 DEF LimitsInv
  <2>7. Cardinality(Live(v)) <= MaxRunning /\ Cardinality(Bytes(v, Registered(v))) <= BudgetBytes
    <3>1. CASE x.reg
      BY <2>1, <2>4, <2>5, <3>1
    <3>2. CASE ~x.reg
      BY <2>1, <2>2, <2>4, <2>5, <2>6, <3>2
    <3> QED BY <3>1, <3>2
  <2>8. Live(s)' = Live(v) /\ Bytes(s, Registered(s))' = Bytes(v, Registered(v))
    BY <1>5 DEF Live, Bytes, Registered
  <2> QED BY <2>7, <2>8 DEF LimitsInv
<1> QED BY <1>8, <1>9, <1>10, <1>11, <1>12, <1>13 DEF FieldInv

(* A step that only tidies and registers.                                  *)
LEMMA TidyingKeepsInv ==
  ASSUME FieldInv, AllTidied(s, s'), EntryTypeOK(entry'), Owns(s', entry'),
         UNCHANGED <<served, pinned, gate, fails, open>>
  PROVE  FieldInv'
<1>1. AllShrink(s, s') /\ \A i \in Requests : s'[i].readers = s[i].readers
  BY AllTidiedShrinks, InvIsGood
<1>2. Settles
  BY <1>1 DEF Settles, FieldInv, FieldTypeOK, ReadersInv
<1> QED BY <1>2, SettlingKeepsInv

(* The entries after a registration.                                       *)
Registering(e, k, q, f) == [e EXCEPT ![k] = [seq |-> q, flag |-> f]]

LEMMA RegisteringIsTyped ==
  ASSUME NEW e, EntryTypeOK(e), NEW k \in Keys, NEW q \in Nat, NEW f \in {NoOne} \cup Requests
  PROVE  /\ EntryTypeOK(Registering(e, k, q, f))
         /\ Registering(e, k, q, f)[k] = [seq |-> q, flag |-> f]
BY DEF EntryTypeOK, Registering

(* The session of a new view, and an inline render.                        *)
Session(k, q, size) ==
  [Fresh EXCEPT !.kind = "session", !.key = k, !.seq = q, !.pc = "start",
                !.reg = TRUE, !.size = size, !.bytes = size]

Inlined(k, q) == [Fresh EXCEPT !.kind = "inline", !.key = k, !.seq = q, !.pc = "inline"]

LEMMA SessionsAreSound ==
  ASSUME NEW k \in Keys, NEW q \in Nat, NEW size \in 1..BudgetBytes
  PROVE  /\ Session(k, q, size) \in FieldRecord /\ Sound(Session(k, q, size))
         /\ Session(k, q, size).key = k /\ Session(k, q, size).seq = q
         /\ Session(k, q, size).readers = 0 /\ Session(k, q, size).bytes = size
<1>0. size \in 0..BudgetBytes /\ size > 0
  BY FieldAssumption
<1>1. PICK f \in FieldRecord : f = Fresh
  BY FreshIsSound
<1>2. f.readers = 0 /\ f.state = "running" /\ f.delivered = FALSE /\ f.flag = FALSE /\ f.old = FALSE
  BY <1>1 DEF Fresh
<1>3. PICK x : x = [f EXCEPT !.kind = "session", !.key = k, !.seq = q, !.pc = "start",
                             !.reg = TRUE, !.size = size, !.bytes = size]
  OBVIOUS
<1>4. x = Session(k, q, size)
  BY <1>1, <1>3 DEF Session
<1>5. /\ x \in FieldRecord
      /\ x.kind = "session" /\ x.key = k /\ x.seq = q /\ x.pc = "start" /\ x.reg = TRUE
      /\ x.size = size /\ x.bytes = size
      /\ x.readers = 0 /\ x.state = "running" /\ x.delivered = FALSE
  BY <1>0, <1>2, <1>3 DEF FieldRecord, Computing
<1>6. Sound(x)
  BY <1>0, <1>5 DEF Sound, Full, Computing, Terminal
<1> QED BY <1>4, <1>5, <1>6

LEMMA InlinesAreSound ==
  ASSUME NEW k \in Keys, NEW q \in Nat
  PROVE  /\ Inlined(k, q) \in FieldRecord /\ Sound(Inlined(k, q))
         /\ Inlined(k, q).key = k /\ Inlined(k, q).seq = q
         /\ Inlined(k, q).readers = 0 /\ ~Inlined(k, q).reg
<1>1. PICK f \in FieldRecord : f = Fresh
  BY FreshIsSound
<1>2. /\ f.readers = 0 /\ f.state = "running" /\ f.delivered = FALSE /\ f.reg = FALSE
      /\ f.bytes = 0
  BY <1>1 DEF Fresh
<1>3. PICK x : x = [f EXCEPT !.kind = "inline", !.key = k, !.seq = q, !.pc = "inline"]
  OBVIOUS
<1>4. x = Inlined(k, q)
  BY <1>1, <1>3 DEF Inlined
<1>5. /\ x \in FieldRecord
      /\ x.kind = "inline" /\ x.key = k /\ x.seq = q /\ x.pc = "inline" /\ x.reg = FALSE /\ x.bytes = 0
      /\ x.readers = 0 /\ x.state = "running" /\ x.delivered = FALSE
  BY <1>2, <1>3 DEF FieldRecord
<1>6. Sound(x)
  BY <1>5 DEF Sound, Full, Computing, Terminal
<1> QED BY <1>4, <1>5, <1>6

LEMMA InlineStep ==
  ASSUME FieldInv, NEW k \in Keys, NEW q \in Nat, MapPreempt(k, q) \/ Inline(k, q)
  PROVE  FieldInv'
<1>1. Good(s) /\ EntryTypeOK(entry) /\ Owns(s, entry)
  BY InvIsGood
<1>2. PICK e : e = Room(entry, s)
  OBVIOUS
<1>3. EntryTypeOK(e) /\ Owns(s, e)
  BY <1>1, <1>2, EntriesStayTyped, PruningKeepsOwners
<1>4. PICK u : u = Preempted(s, e, k)
  OBVIOUS
<1>5. AllTidied(s, u) /\ AllTidied(s, s)
  BY <1>1, <1>3, <1>4, PreemptedTidies, AllTidiedAtRest
<1>6. \A f : Owns(u, Registering(e, k, q, f))
  BY <1>1, <1>3, <1>4, RegisteringKeepsOwners DEF Registering
<1>7. CASE MapPreempt(k, q)
  <2>1. UNCHANGED <<served, pinned, gate, fails, open>>
    BY <1>7 DEF MapPreempt
  <2>2. CASE Accepts(e, k, q)
    <3>1. s' = u /\ entry' = Registering(e, k, q, NoOne)
      BY <1>2, <1>4, <1>7, <2>2 DEF MapPreempt, Registering
    <3>2. EntryTypeOK(entry')
      BY <1>3, <3>1, RegisteringIsTyped
    <3> QED BY <1>5, <1>6, <2>1, <3>1, <3>2, TidyingKeepsInv
  <2>3. CASE ~Accepts(e, k, q)
    <3>1. s' = s /\ entry' = e
      BY <1>2, <1>7, <2>3 DEF MapPreempt
    <3> QED BY <1>3, <1>5, <2>1, <3>1, TidyingKeepsInv
  <2> QED BY <2>2, <2>3
<1>8. CASE Inline(k, q)
  <2>1. PICK n \in Requests : n = served + 1
    BY <1>8 DEF Inline
  <2>2. PICK x : x = Inlined(k, q)
    OBVIOUS
  <2>3. /\ x \in FieldRecord /\ Sound(x) /\ x.key = k /\ x.seq = q /\ x.readers = 0 /\ ~x.reg
    BY <2>2, InlinesAreSound
  <2>4. /\ s' = [u EXCEPT ![n] = x] /\ entry' = Registering(e, k, q, n)
        /\ served' = n /\ UNCHANGED <<pinned, gate, fails, open>>
    BY <1>2, <1>4, <1>8, <2>1, <2>2 DEF Inline, Inlined, Registering
  <2>5. EntryTypeOK(entry') /\ entry'[k] = [seq |-> q, flag |-> n]
    BY <1>3, <2>4, RegisteringIsTyped
  <2>6. entry'[x.key] = [seq |-> x.seq, flag |-> n]
    BY <2>3, <2>5
  <2>7. Owns(u, entry')
    BY <1>6, <2>4
  <2> QED BY <1>5, <2>1, <2>3, <2>4, <2>5, <2>6, <2>7, ArrivingKeepsInv
<1> QED BY <1>7, <1>8

(* What a new view does to the others before it is answered.               *)
LEMMA StartingTidies ==
  ASSUME FieldInv, NEW k \in Keys, NEW size, NEW t, t = Prune(s), NEW e, e = Room(entry, t),
         NEW p, p = Preempted(t, e, k), NEW r, r = MakeRoom(p), NEW u, u = Trim(r, size)
  PROVE  /\ Good(t) /\ Good(p) /\ Good(r)
         /\ AllTidied(s, t) /\ AllTidied(t, p) /\ AllTidied(p, r) /\ AllTidied(s, u)
         /\ EntryTypeOK(e) /\ Owns(t, e)
         /\ \A q, f : Owns(u, Registering(e, k, q, f))
<1>1. Good(s) /\ EntryTypeOK(entry) /\ Owns(s, entry)
  BY InvIsGood
<1>2. AllTidied(s, t) /\ Good(t)
  BY <1>1, PruneTidies, TidiedIsGood
<1>3. Owns(t, entry)
  BY <1>1, <1>2, AllTidiedShrinks, ShrinkingKeepsOwners
<1>4. EntryTypeOK(e) /\ Owns(t, e)
  BY <1>1, <1>2, <1>3, EntriesStayTyped, PruningKeepsOwners
<1>5. AllTidied(t, p) /\ Good(p)
  BY <1>2, <1>4, PreemptedTidies, TidiedIsGood
<1>6. AllTidied(p, r) /\ Good(r)
  BY <1>5, MakeRoomTidies, TidiedIsGood
<1>7. AllTidied(r, u)
  BY <1>6, TrimTidies
<1>8. AllTidied(p, u)
  BY <1>5, <1>6, <1>7, AllTidiedGoesOn
<1>9. AllTidied(t, u)
  BY <1>2, <1>5, <1>8, AllTidiedGoesOn
<1>10. AllTidied(s, u)
  BY <1>1, <1>2, <1>9, AllTidiedGoesOn
<1>11. ASSUME NEW q, NEW f PROVE Owns(u, Registering(e, k, q, f))
  <2>1. PICK g : g = Registering(e, k, q, f)
    OBVIOUS
  <2>2. Owns(p, g)
    BY <1>2, <1>4, <2>1, RegisteringKeepsOwners DEF Registering
  <2>3. AllShrink(p, u)
    BY <1>5, <1>8, AllTidiedShrinks
  <2> QED BY <2>1, <2>2, <2>3, ShrinkingKeepsOwners
<1> QED BY <1>2, <1>4, <1>5, <1>6, <1>10, <1>11

LEMMA StartStep ==
  ASSUME FieldInv, NEW k \in Keys, NEW q \in Nat, NEW size \in 1..BudgetBytes, StartNew(k, q, size)
  PROVE  FieldInv'
<1>1. PICK t : t = Prune(s)
  OBVIOUS
<1>2. PICK e : e = Room(entry, t)
  OBVIOUS
<1>3. PICK p : p = Preempted(t, e, k)
  OBVIOUS
<1>4. PICK r : r = MakeRoom(p)
  OBVIOUS
<1>5. PICK u : u = Trim(r, size)
  OBVIOUS
<1>6. /\ AllTidied(s, t) /\ AllTidied(s, u) /\ EntryTypeOK(e) /\ Owns(t, e)
      /\ \A f : Owns(u, Registering(e, k, q, f))
  BY <1>1, <1>2, <1>3, <1>4, <1>5, StartingTidies
<1>7. UNCHANGED <<pinned, gate, fails, open>>
  BY DEF StartNew
<1>8. CASE s' = t /\ entry' = e /\ UNCHANGED served
  BY <1>6, <1>7, <1>8, TidyingKeepsInv
<1>9. CASE s' = u /\ entry' = Registering(e, k, q, NoOne) /\ UNCHANGED served
  <2>1. EntryTypeOK(entry') /\ Owns(s', entry')
    BY <1>6, <1>9, RegisteringIsTyped
  <2> QED BY <1>6, <1>7, <1>9, <2>1, TidyingKeepsInv
<1>10. ASSUME NEW n \in Requests, n = served + 1, ~Busy(u, size), served' = n,
              s' = [u EXCEPT ![n] = Session(k, q, size)], entry' = Registering(e, k, q, n)
       PROVE  FieldInv'
  <2>1. PICK x : x = Session(k, q, size)
    OBVIOUS
  <2>2. /\ x \in FieldRecord /\ Sound(x) /\ x.key = k /\ x.seq = q /\ x.readers = 0 /\ x.bytes = size
    BY <2>1, SessionsAreSound
  <2>3. s' = [u EXCEPT ![n] = x]
    BY <1>10, <2>1
  <2>4. EntryTypeOK(entry') /\ entry'[k] = [seq |-> q, flag |-> n] /\ Owns(u, entry')
    BY <1>6, <1>10, RegisteringIsTyped
  <2>5. entry'[x.key] = [seq |-> x.seq, flag |-> n]
    BY <2>2, <2>4
  <2>6. ~(Cardinality(Live(u)) >= MaxRunning) /\ ~(Cardinality(Bytes(u, Registered(u))) > BudgetBytes - size)
    BY <1>10 DEF Busy, ReservedBytes
  <2>7. Live(u) \in SUBSET Requests /\ Registered(u) \in SUBSET Requests
    BY DEF Live, Registered
  <2>8. /\ Cardinality(Live(u)) \in Nat /\ Cardinality(Bytes(u, Registered(u))) \in Nat
        /\ MaxRunning \in Nat /\ BudgetBytes \in Nat
    BY <2>7, RequestsAreFinite, BytesAreFinite, FieldAssumption
  <2>9. Cardinality(Live(u)) < MaxRunning /\ Cardinality(Bytes(u, Registered(u))) <= BudgetBytes - x.bytes
    BY <2>2, <2>6, <2>8
  <2> QED BY <1>6, <1>7, <1>10, <2>2, <2>3, <2>4, <2>5, <2>9, ArrivingKeepsInv
<1> QED BY <1>1, <1>2, <1>3, <1>4, <1>5, <1>8, <1>9, <1>10 DEF StartNew, Registering, Session

(* Every step keeps the invariant.                                         *)
LEMMA FieldsGoOn ==
  ASSUME FieldInv, [FieldNext]_fvars
  PROVE  FieldInv'
<1>1. \A v \in Views : v[1] \in Keys /\ v[2] \in Nat /\ v[3] \in 1..BudgetBytes
  BY FieldAssumption DEF Keys
<1>2. CASE Request
  <2>1. ASSUME NEW v \in Views, NEW same \in BOOLEAN, StartAgain(v[1], v[2], same) PROVE FieldInv'
    BY <1>1, <2>1, HousekeepingStep
  <2>2. ASSUME NEW v \in Views, StartNew(v[1], v[2], v[3]) PROVE FieldInv'
    BY <1>1, <2>2, StartStep
  <2>3. ASSUME NEW v \in Views, MapPreempt(v[1], v[2]) \/ Inline(v[1], v[2]) PROVE FieldInv'
    BY <1>1, <2>3, InlineStep
  <2>4. ASSUME NEW i \in Requests, Poll(i) PROVE FieldInv'
    BY <2>4, HousekeepingStep
  <2>5. ASSUME NEW i \in Requests, Pin(i) \/ Acknowledge(i) PROVE FieldInv'
    BY <2>5, ResultsStep
  <2> QED BY <1>2, <2>1, <2>2, <2>3, <2>4, <2>5 DEF Request
<1>3. CASE Threads
  <2>1. ASSUME NEW i \in Requests, \/ StartWorker(i) \/ StartUndone(i) \/ PublishRect(i) \/ RenderReturns(i)
                                   \/ RenderThrows(i) \/ RenderDone(i) \/ InlineEnds(i)
        PROVE  FieldInv'
    BY <2>1, WorkersStep
  <2>2. ASSUME NEW i \in Requests, FinalPrune(i) PROVE FieldInv'
    BY <2>2, HousekeepingStep
  <2>3. ASSUME NEW i \in Requests, EnterGate(i) PROVE FieldInv'
    BY <2>3, ResultsStep
  <2>4. ASSUME Encoded \/ LeaveGate PROVE FieldInv'
    BY <2>4, ResultsStep
  <2> QED BY <1>3, <2>1, <2>2, <2>3, <2>4 DEF Threads
<1>4. CASE Leave \/ ReapSessions \/ ReapEntries
  BY <1>4, HousekeepingStep
<1>5. CASE Clock
  BY <1>5, ClockStep DEF Clock
<1>6. CASE UNCHANGED fvars
  <2>1. s' = s /\ entry' = entry /\ UNCHANGED <<served, pinned, gate, fails, open>>
    BY <1>6 DEF fvars
  <2>2. AllTidied(s, s') /\ EntryTypeOK(entry') /\ Owns(s', entry')
    BY <2>1, InvIsGood, AllTidiedAtRest
  <2> QED BY <2>1, <2>2, TidyingKeepsInv
<1> QED BY <1>2, <1>3, <1>4, <1>5, <1>6 DEF FieldNext

-----------------------------------------------------------------------------
(* What holds of every behaviour.                                          *)

(* The limits, the readers, the preemption entries and the sessions fit    *)
(* together in every reachable state of the field registry.                *)
THEOREM FieldsInvariant == FieldSpec => []FieldInv
<1>1. FieldInit => FieldInv
  BY FieldsStart
<1>2. FieldInv /\ [FieldNext]_fvars => FieldInv'
  BY FieldsGoOn
<1> QED BY <1>1, <1>2, PTL DEF FieldSpec

(* A result request that has pinned a session or encodes it reads the      *)
(* whole field of a completed session that the registry still counts:      *)
(* neither mapFieldSessionAcknowledgeRoute nor the reaper frees it first.  *)
THEOREM ReadersAlwaysKeepField == FieldSpec => []ReadersKeepField
<1>1. FieldInv => ReadersKeepField
  BY ReadersFindField DEF ReadersKeepField, Full
<1> QED BY <1>1, FieldsInvariant, PTL

(* makeRoomForInteractiveFieldLocked and the budget of                     *)
(* mapFieldSessionStartRoute are never overrun, cancelled workers and      *)
(* fields that only a worker or a reader holds included.                   *)
THEOREM LimitsAlwaysHold == FieldSpec => []WithinLimits
<1>1. FieldInv => WithinLimits
  <2>1. SUFFICES ASSUME FieldInv PROVE WithinLimits
    OBVIOUS
  <2>2. \A i \in Requests : s[i] \in FieldRecord /\ Sound(s[i])
    BY <2>1, InvIsGood
  <2>3. PICK W : W = {i \in Requests : s[i].kind = "session" /\ s[i].pc \in {"start", "render", "rendered"}}
    OBVIOUS
  <2>4. PICK H : H = {i \in Requests : HoldsFlag(s, i)}
    OBVIOUS
  <2>5. W \in SUBSET Live(s) /\ Live(s) \in SUBSET Requests /\ W \in SUBSET Requests
    BY <2>2, <2>3 DEF Sound, Live, Computing
  <2>6. Bytes(s, H) \in SUBSET Bytes(s, Registered(s))
    <3>1. SUFFICES ASSUME NEW b \in Bytes(s, H) PROVE b \in Bytes(s, Registered(s))
      OBVIOUS
    <3>2. b \in H \X (1..BudgetBytes) /\ b[2] <= s[b[1]].bytes
      BY <3>1 DEF Bytes
    <3>3. b[1] \in Requests /\ b[2] \in 1..BudgetBytes
      BY <2>4, <3>2
    <3>4. s[b[1]].bytes # 0
      BY <2>2, <3>2, <3>3, FieldAssumption
    <3>5. b[1] \in Registered(s)
      BY <2>2, <3>3, <3>4 DEF Sound, Registered
    <3> QED BY <3>2, <3>5 DEF Bytes
  <2>7. Registered(s) \in SUBSET Requests /\ H \in SUBSET Requests
    BY <2>4 DEF Registered
  <2>8. /\ Cardinality(W) <= Cardinality(Live(s))
        /\ Cardinality(Bytes(s, H)) <= Cardinality(Bytes(s, Registered(s)))
    BY <2>5, <2>6, <2>7, RequestsAreFinite, BytesAreFinite, FS_Subset
  <2>9. /\ Cardinality(W) \in Nat /\ Cardinality(Live(s)) \in Nat
        /\ Cardinality(Bytes(s, H)) \in Nat /\ Cardinality(Bytes(s, Registered(s))) \in Nat
        /\ MaxRunning \in Nat /\ BudgetBytes \in Nat
    BY <2>5, <2>7, RequestsAreFinite, BytesAreFinite, FieldAssumption
  <2>10. Cardinality(Live(s)) <= MaxRunning /\ Cardinality(Bytes(s, Registered(s))) <= BudgetBytes
    BY <2>1 DEF FieldInv, LimitsInv
  <2>11. Cardinality(W) <= MaxRunning /\ Cardinality(Bytes(s, H)) <= BudgetBytes
    BY <2>8, <2>9, <2>10
  <2> QED BY <2>3, <2>4, <2>11 DEF WithinLimits
<1> QED BY <1>1, FieldsInvariant, PTL

(* registerInteractiveMapRequest: a request that computes and has not been *)
(* told to stop is the one its key's entry points at, whatever is pruned   *)
(* and whoever registers in between.                                       *)
THEOREM NewestAlwaysOwnsKey == FieldSpec => []NewestOwnsKey
<1>1. FieldInv => NewestOwnsKey
  BY DEF FieldInv
<1> QED BY <1>1, FieldsInvariant, PTL

-----------------------------------------------------------------------------
(* Who is told to stop.                                                    *)

(* The flag of request i is set in the step from t to u.                   *)
Raised(t, u, i) == u[i].flag /\ ~t[i].flag

LEMMA OwnStepsKeepFlag ==
  ASSUME NEW x \in FieldRecord
  PROVE  /\ \A verdict, where : Ending(x, verdict, where).flag = x.flag
         /\ \A where, tiles : Rendering(x, where, tiles).flag = x.flag
         /\ ReleaseReader(x).flag = x.flag
         /\ Acknowledged(x).flag = x.flag
<1>1. ReleaseBuffers(x) \in FieldRecord /\ ReleaseBuffers(x).flag = x.flag
  <2>1. 0 \in 0..BudgetBytes /\ 0 \in Nat
    BY FieldAssumption
  <2> QED BY <2>1 DEF ReleaseBuffers, FieldRecord
<1>2. ASSUME NEW verdict, NEW where PROVE Ending(x, verdict, where).flag = x.flag
  <2>1. PICK b \in FieldRecord : b = (IF verdict = "completed" THEN x ELSE ReleaseBuffers(x)) /\ b.flag = x.flag
    BY <1>1
  <2>2. Ending(x, verdict, where) = [b EXCEPT !.state = verdict, !.pc = where, !.old = FALSE]
    BY <2>1 DEF Ending
  <2>3. [b EXCEPT !.state = verdict, !.pc = where, !.old = FALSE].flag = b.flag
    BY DEF FieldRecord
  <2> QED BY <2>1, <2>2, <2>3
<1>3. ASSUME NEW where, NEW tiles PROVE Rendering(x, where, tiles).flag = x.flag
  BY DEF Rendering, FieldRecord
<1>4. ReleaseReader(x).flag = x.flag
  <2>1. PICK n : n = Max({x.readers - 1, 0})
    OBVIOUS
  <2>2. PICK b : b = [x EXCEPT !.readers = n]
    OBVIOUS
  <2>3. b.flag = x.flag /\ [b EXCEPT !.bytes = 0, !.tiles = 0].flag = b.flag
    BY <2>2 DEF FieldRecord
  <2>4. ReleaseReader(x) = IF b.delivered /\ b.readers = 0 THEN [b EXCEPT !.bytes = 0, !.tiles = 0] ELSE b
    BY <2>1, <2>2 DEF ReleaseReader, ReleaseBuffers
  <2> QED BY <2>3, <2>4
<1>5. Acknowledged(x).flag = x.flag
  <2>1. PICK b \in FieldRecord : b = (IF x.readers = 0 THEN ReleaseBuffers(x) ELSE x) /\ b.flag = x.flag
    BY <1>1
  <2>2. Acknowledged(x) = [b EXCEPT !.delivered = TRUE]
    BY <2>1 DEF Acknowledged
  <2>3. [b EXCEPT !.delivered = TRUE].flag = b.flag
    BY DEF FieldRecord
  <2> QED BY <2>1, <2>2, <2>3
<1> QED BY <1>2, <1>3, <1>4, <1>5

(* Most steps set no flag.                                                 *)
LEMMA FlagsStay ==
  ASSUME FieldInv,
         \/ \E i \in Requests :
              \/ StartWorker(i) \/ StartUndone(i) \/ PublishRect(i) \/ RenderReturns(i)
              \/ RenderThrows(i) \/ RenderDone(i) \/ InlineEnds(i)
              \/ Poll(i) \/ Pin(i) \/ EnterGate(i) \/ Acknowledge(i)
         \/ Encoded \/ LeaveGate \/ ReapEntries \/ Leave \/ UNCHANGED fvars
  PROVE  \A j \in Requests : ~Raised(s, s', j)
<1>1. s \in [Requests -> FieldRecord] /\ \A i \in Requests : s[i] \in FieldRecord
  BY InvIsGood
<1>2. ~Dropped.flag
  BY DEF Dropped, Fresh
<1>3. ASSUME NEW i \in Requests, NEW y, ~y.flag \/ y.flag = s[i].flag, s' = [s EXCEPT ![i] = y]
      PROVE  \A j \in Requests : ~Raised(s, s', j)
  BY <1>1, <1>3 DEF Raised
<1>4. ASSUME NEW i \in Requests, StartUndone(i) \/ InlineEnds(i) PROVE \A j \in Requests : ~Raised(s, s', j)
  BY <1>2, <1>3, <1>4 DEF StartUndone, InlineEnds
<1>5. ASSUME NEW i \in Requests, StartWorker(i) \/ RenderThrows(i) \/ RenderDone(i)
      PROVE  \A j \in Requests : ~Raised(s, s', j)
  <2>1. ASSUME NEW verdict, NEW where, s' = [s EXCEPT ![i] = Ending(s[i], verdict, where)]
        PROVE  \A j \in Requests : ~Raised(s, s', j)
    <3>1. PICK y : y = Ending(s[i], verdict, where)
      OBVIOUS
    <3>2. y.flag = s[i].flag
      BY <1>1, <3>1, OwnStepsKeepFlag
    <3> QED BY <1>3, <2>1, <3>1, <3>2
  <2>2. CASE s' = [s EXCEPT ![i].pc = "render"]
    BY <1>1, <2>2 DEF Raised, FieldRecord
  <2> QED BY <1>5, <2>1, <2>2 DEF StartWorker, RenderThrows, RenderDone, Finalize, Ending
<1>6. ASSUME NEW i \in Requests, PublishRect(i) PROVE \A j \in Requests : ~Raised(s, s', j)
  BY <1>1, <1>6 DEF PublishRect, Raised, FieldRecord
<1>7. ASSUME NEW i \in Requests, RenderReturns(i) PROVE \A j \in Requests : ~Raised(s, s', j)
  BY <1>1, <1>7 DEF RenderReturns, Raised, FieldRecord
<1>8. ASSUME NEW i \in Requests, Poll(i) PROVE \A j \in Requests : ~Raised(s, s', j)
  <2>1. \A j \in Requests : Touch(s, i)[j].flag = s[j].flag
    BY TouchShrinks, InvIsGood
  <2> QED BY <1>8, <2>1 DEF Poll, Raised
<1>9. ASSUME NEW i \in Requests, Pin(i) PROVE \A j \in Requests : ~Raised(s, s', j)
  BY <1>1, <1>9 DEF Pin, Raised, FieldRecord
<1>10. ASSUME NEW i \in Requests, EnterGate(i) PROVE \A j \in Requests : ~Raised(s, s', j)
  <2>1. CASE s' = s
    BY <2>1 DEF Raised
  <2>2. CASE s' = [s EXCEPT ![i] = ReleaseReader(s[i])]
    BY <1>1, <1>3, <2>2, OwnStepsKeepFlag
  <2> QED BY <1>10, <2>1, <2>2 DEF EnterGate
<1>11. ASSUME NEW i \in Requests, Acknowledge(i) PROVE \A j \in Requests : ~Raised(s, s', j)
  <2>1. s' = [s EXCEPT ![i] = Acknowledged(s[i])]
    BY <1>11 DEF Acknowledge, Acknowledged
  <2> QED BY <1>1, <1>3, <2>1, OwnStepsKeepFlag
<1>12. CASE Encoded
  <2>0. PICK i \in Requests : i = gate
    BY <1>12 DEF Encoded
  <2>1. s' = [s EXCEPT ![i] = ReleaseReader(s[i])]
    BY <1>12, <2>0 DEF Encoded
  <2> QED BY <1>1, <1>3, <2>1, OwnStepsKeepFlag
<1>13. CASE LeaveGate \/ ReapEntries \/ Leave \/ UNCHANGED fvars
  BY <1>13 DEF LeaveGate, ReapEntries, Leave, fvars, Raised
<1> QED BY <1>4, <1>5, <1>6, <1>7, <1>8, <1>9, <1>10, <1>11, <1>12, <1>13

LEMMA ClockSetsNoFlag ==
  ASSUME FieldInv, NEW list, Age(list)
  PROVE  \A j \in Requests : ~Raised(s, s', j)
<1>1. s \in [Requests -> FieldRecord]
  BY InvIsGood
<1>2. PICK j : s' = [s EXCEPT ![list[j]].old = TRUE]
  BY DEF Age
<1>3. PICK i : i = list[j]
  OBVIOUS
<1>4. CASE i \in Requests
  BY <1>1, <1>2, <1>3, <1>4 DEF Raised, FieldRecord
<1>5. CASE i \notin Requests
  BY <1>1, <1>2, <1>3, <1>5 DEF Raised
<1> QED BY <1>4, <1>5

(* Housekeeping never takes back a running session's order to stop.        *)
LEMMA OrdersStand ==
  ASSUME NEW t, NEW u, Good(t), AllTidied(t, u)
  PROVE  /\ Live(u) = Live(t)
         /\ \A j \in Live(t) : t[j].flag => u[j].flag
<1>1. SUFFICES ASSUME NEW j \in Live(t), t[j].flag PROVE u[j].flag
  BY AllTidiedShrinks
<1>2. j \in Requests /\ t[j] \in FieldRecord /\ Active(t[j])
  BY <1>1 DEF Live, Good, Sound, Active
<1>3. u[j] \in {t[j], [t[j] EXCEPT !.flag = TRUE]}
  BY <1>2 DEF AllTidied, Tidied
<1>4. [t[j] EXCEPT !.flag = TRUE].flag = TRUE
  BY <1>2 DEF FieldRecord
<1> QED BY <1>1, <1>3, <1>4

(* The request that held the entry of k and loses it.                      *)
LEMMA LosingTheEntry ==
  ASSUME FieldInv, NEW k \in Keys, NEW t, NEW e, e = Room(entry, t),
         NEW i \in Requests, i = e[k].flag, NEW q, NEW f, f # i,
         entry' = Registering(e, k, q, f)
  PROVE  entry[k].flag = i /\ entry'[k] # entry[k]
<1>1. EntryTypeOK(entry) /\ EntryTypeOK(e)
  BY InvIsGood, EntriesStayTyped
<1>2. e[k] \in {entry[k], Absent}
  BY <1>1, HeldFlagsStay
<1>3. Absent.flag \notin Requests
  BY DEF Absent, NoOne, Requests
<1>4. e[k] = entry[k]
  BY <1>2, <1>3
<1>5. entry'[k].flag = f
  BY <1>1 DEF Registering, EntryTypeOK
<1> QED BY <1>4, <1>5

(* Nobody winds down, among those who compute.                             *)
NobodyWindsDown == \A j \in Live(s) : ~s[j].flag

LosesEntry(i) == \E k \in Keys : entry[k].flag = i /\ entry'[k] # entry[k]

LEMMA RegistrationsEvictOnce ==
  ASSUME FieldInv, NEW k \in Keys, NEW q \in Nat, MapPreempt(k, q) \/ Inline(k, q),
         NEW i \in Live(s), Raised(s, s', i)
  PROVE  LosesEntry(i)
<1>1. PICK e : e = Room(entry, s)
  OBVIOUS
<1>2. Good(s) /\ EntryTypeOK(entry) /\ EntryTypeOK(e) /\ i \in Requests /\ s[i] # Fresh
  <2>1. s[i].reg /\ i \in Requests
    BY DEF Live
  <2> QED BY <1>1, <2>1, InvIsGood, EntriesStayTyped, FreshIsSound
<1>3. served \in Int /\ ~(i > served)
  BY <1>2 DEF FieldInv, ServedInv, FieldTypeOK
<1>4. PICK u : u = Preempted(s, e, k)
  OBVIOUS
<1>5. i # e[k].flag => u[i] = s[i]
  BY <1>2, <1>4, PreemptedTidies
<1>6. AllTidied(s, u)
  BY <1>2, <1>4, PreemptedTidies
<1>7. PICK f : f # i /\ s'[i] \in {s[i], u[i]} /\ (s'[i] = s[i] \/ entry' = Registering(e, k, q, f))
  <2>1. CASE MapPreempt(k, q)
    <3>1. NoOne # i
      BY <1>2 DEF NoOne, Requests
    <3>2. s' \in {s, u} /\ (s' = s \/ entry' = Registering(e, k, q, NoOne))
      BY <1>1, <1>4, <2>1 DEF MapPreempt, Registering
    <3> QED BY <3>1, <3>2
  <2>2. CASE Inline(k, q)
    <3>1. PICK n : n = served + 1
      OBVIOUS
    <3>2. n # i
      BY <1>2, <1>3, <3>1 DEF Requests
    <3>3. s' = [u EXCEPT ![n] = Inlined(k, q)] /\ entry' = Registering(e, k, q, n)
      BY <1>1, <1>4, <2>2, <3>1 DEF Inline, Inlined, Registering
    <3>4. s'[i] = u[i]
      BY <1>2, <1>6, <3>2, <3>3 DEF AllTidied
    <3> QED BY <3>2, <3>3, <3>4
  <2> QED BY <2>1, <2>2
<1>8. i = e[k].flag /\ entry' = Registering(e, k, q, f)
  BY <1>5, <1>7 DEF Raised
<1>9. entry[k].flag = i /\ entry'[k] # entry[k]
  BY <1>1, <1>2, <1>7, <1>8, LosingTheEntry
<1> QED BY <1>9 DEF LosesEntry

LEMMA StartsEvictOnce ==
  ASSUME FieldInv, NEW k \in Keys, NEW q \in Nat, NEW size, StartNew(k, q, size),
         NEW i \in Live(s), ~s[i].old, Raised(s, s', i)
  PROVE  LosesEntry(i) \/ NobodyWindsDown
<1>1. PICK t : t = Prune(s)
  OBVIOUS
<1>2. PICK e : e = Room(entry, t)
  OBVIOUS
<1>3. PICK p : p = Preempted(t, e, k)
  OBVIOUS
<1>4. PICK r : r = MakeRoom(p)
  OBVIOUS
<1>5. PICK u : u = Trim(r, size)
  OBVIOUS
<1>6. /\ Good(s) /\ Good(t) /\ Good(p) /\ Good(r)
      /\ AllTidied(s, t) /\ AllTidied(t, p) /\ AllTidied(p, r) /\ AllTidied(s, u)
      /\ EntryTypeOK(e)
  BY <1>1, <1>2, <1>3, <1>4, <1>5, StartingTidies, InvIsGood
<1>7. /\ Live(t) = Live(s) /\ Live(p) = Live(s) /\ Live(r) = Live(s)
      /\ \A j \in Live(s) : (s[j].flag => t[j].flag) /\ (t[j].flag => p[j].flag)
  BY <1>6, OrdersStand
<1>8. i \in Requests /\ s[i] # Fresh
  <2>1. s[i].reg /\ i \in Requests
    BY DEF Live
  <2> QED BY <2>1, FreshIsSound
<1>9. served \in Int /\ ~(i > served)
  BY <1>8 DEF FieldInv, ServedInv, FieldTypeOK
<1>10. ~t[i].flag
  BY <1>1, <1>6, PruneTidies DEF Raised
<1>11. u[i] = r[i]
  BY <1>5, <1>6, <1>7, TrimTidies
<1>12. PICK f : f # i /\ s'[i] \in {t[i], u[i]} /\ (s'[i] = t[i] \/ entry' = Registering(e, k, q, f))
  <2>1. CASE s' = t
    BY <2>1
  <2>2. CASE s' = u /\ entry' = Registering(e, k, q, NoOne)
    <3>1. NoOne # i
      BY <1>8 DEF NoOne, Requests
    <3> QED BY <2>2, <3>1
  <2>3. ASSUME NEW n, n = served + 1, s' = [u EXCEPT ![n] = Session(k, q, size)],
               entry' = Registering(e, k, q, n)
        PROVE  n # i /\ s'[i] = u[i]
    <3>1. n # i
      BY <1>8, <1>9, <2>3 DEF Requests
    <3> QED BY <1>6, <1>8, <2>3, <3>1 DEF AllTidied
  <2>4. \/ s' = t \/ (s' = u /\ entry' = Registering(e, k, q, NoOne))
        \/ (s' = [u EXCEPT ![served + 1] = Session(k, q, size)] /\ entry' = Registering(e, k, q, served + 1))
    BY <1>1, <1>2, <1>3, <1>4, <1>5 DEF StartNew, Registering, Session
  <2> QED BY <2>1, <2>2, <2>3, <2>4
<1>13. s'[i] = u[i] /\ r[i].flag /\ entry' = Registering(e, k, q, f)
  BY <1>10, <1>11, <1>12 DEF Raised
<1>14. CASE ~p[i].flag
  <2>1. (\A j \in Live(p) : ~p[j].flag) \/ Cardinality(Live(p)) > MaxRunning
    BY <1>4, <1>6, <1>8, <1>13, <1>14, MakeRoomTidies
  <2>2. Cardinality(Live(p)) <= MaxRunning
    BY <1>7 DEF FieldInv, LimitsInv
  <2>3. Live(p) \in SUBSET Requests
    BY DEF Live
  <2>4. ~(Cardinality(Live(p)) > MaxRunning)
    BY <2>2, <2>3, RequestsAreFinite, FieldAssumption
  <2> QED BY <1>7, <2>1, <2>4 DEF NobodyWindsDown
<1>15. CASE p[i].flag
  <2>1. i = e[k].flag
    BY <1>3, <1>6, <1>8, <1>10, <1>15, PreemptedTidies
  <2>2. entry[k].flag = i /\ entry'[k] # entry[k]
    BY <1>2, <1>8, <1>12, <1>13, <2>1, LosingTheEntry
  <2> QED BY <2>2 DEF LosesEntry
<1> QED BY <1>14, <1>15

(* pruneInteractiveFieldSessionsLocked tells only idle sessions to stop.   *)
LEMMA PruningEvictsTheIdle ==
  ASSUME FieldInv,
         \/ ReapSessions
         \/ \E j \in Requests : FinalPrune(j)
         \/ \E k \in Keys, q \in Nat, same \in BOOLEAN : StartAgain(k, q, same),
         NEW i \in Live(s), Raised(s, s', i)
  PROVE  s[i].old
<1>1. PICK t : t = Prune(s)
  OBVIOUS
<1>2. Good(s) /\ Good(t) /\ t \in [Requests -> FieldRecord] /\ i \in Requests
  BY <1>1, PruneTidies, TidiedIsGood, InvIsGood DEF Good, Live
<1>3. s'[i].flag => t[i].flag
  <2>1. CASE s' = t
    BY <2>1
  <2>2. ASSUME NEW j, s' = Touch(t, j) PROVE s'[i].flag => t[i].flag
    BY <1>2, <2>2, TouchShrinks
  <2>3. ASSUME NEW j \in Requests, FinalPrune(j) PROVE s'[i].flag => t[i].flag
    <3>1. PICK y : y = IF t[j].reg THEN [t[j] EXCEPT !.pc = "gone"] ELSE Dropped
      OBVIOUS
    <3>2. s' = [t EXCEPT ![j] = y]
      BY <1>1, <2>3, <3>1 DEF FinalPrune
    <3>3. y.flag => t[j].flag
      BY <1>2, <3>1 DEF FieldRecord, Dropped, Fresh
    <3> QED BY <1>2, <3>2, <3>3
  <2> QED BY <1>1, <2>1, <2>2, <2>3 DEF ReapSessions, StartAgain
<1>4. t[i].flag => s[i].flag \/ s[i].old
  BY <1>1, <1>2, PruneTidies
<1> QED BY <1>3, <1>4 DEF Raised

LEMMA EvictionsHaveAReason ==
  ASSUME FieldInv, [FieldNext]_fvars, NEW i \in Live(s), ~s[i].old, Raised(s, s', i)
  PROVE  LosesEntry(i) \/ NobodyWindsDown
<1>1. \A v \in Views : v[1] \in Keys /\ v[2] \in Nat
  BY FieldAssumption DEF Keys
<1>2. i \in Requests
  BY DEF Live
<1>3. CASE Request
  <2>1. ASSUME NEW v \in Views, NEW same \in BOOLEAN, StartAgain(v[1], v[2], same) PROVE FALSE
    BY <1>1, <2>1, PruningEvictsTheIdle
  <2>2. ASSUME NEW v \in Views, StartNew(v[1], v[2], v[3]) PROVE LosesEntry(i) \/ NobodyWindsDown
    BY <1>1, <2>2, StartsEvictOnce
  <2>3. ASSUME NEW v \in Views, MapPreempt(v[1], v[2]) \/ Inline(v[1], v[2]) PROVE LosesEntry(i)
    BY <1>1, <2>3, RegistrationsEvictOnce
  <2>4. ASSUME NEW j \in Requests, Poll(j) \/ Pin(j) \/ Acknowledge(j) PROVE FALSE
    BY <1>2, <2>4, FlagsStay
  <2> QED BY <1>3, <2>1, <2>2, <2>3, <2>4 DEF Request
<1>4. CASE Threads
  <2>1. ASSUME NEW j \in Requests, FinalPrune(j) PROVE FALSE
    BY <2>1, PruningEvictsTheIdle
  <2> QED BY <1>2, <1>4, <2>1, FlagsStay DEF Threads
<1>5. CASE ReapSessions
  BY <1>5, PruningEvictsTheIdle
<1>6. CASE Clock
  BY <1>2, <1>6, ClockSetsNoFlag DEF Clock
<1>7. CASE Leave \/ ReapEntries \/ UNCHANGED fvars
  BY <1>2, <1>7, FlagsStay
<1> QED BY <1>3, <1>4, <1>5, <1>6, <1>7 DEF FieldNext

(* makeRoomForInteractiveFieldLocked: a worker that is not idle is told to *)
(* stop only when its own key asked for something newer, or when no other  *)
(* worker is winding down already: the retries of one start evict one.     *)
THEOREM StartsEvictAtMostOne == FieldSpec => EvictsOnce
<1>1. FieldInv /\ [FieldNext]_fvars =>
        [\A i \in Requests :
           s'[i].flag /\ ~s[i].flag /\ i \in Live(s) /\ ~s[i].old
             => \/ \E k \in Keys : entry[k].flag = i /\ entry'[k] # entry[k]
                \/ \A j \in Live(s) : ~s[j].flag]_fvars
  BY EvictionsHaveAReason DEF Raised, LosesEntry, NobodyWindsDown
<1> QED BY <1>1, FieldsInvariant, PTL DEF FieldSpec, EvictsOnce
=============================================================================
