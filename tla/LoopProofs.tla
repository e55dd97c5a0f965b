----------------------------- MODULE LoopProofs -----------------------------
(***************************************************************************)
(* Proofs about the loops of the compute node.                             *)
(*                                                                         *)
(* RenderLoops: the shared loops implement the abstract frame, for any     *)
(* grid, number of threads and batch.  A worker HOLDS the positions it     *)
(* claimed and has not drawn; the argument is that nobody else holds them, *)
(* that they are undrawn, and that a claimed position that is neither      *)
(* drawn nor held was dropped because the caller had asked to stop or a    *)
(* thread had failed.                                                      *)
(*                                                                         *)
(* FixedPoint: the loops that draw a pixel, for words of any width from    *)
(* eight bits on, and so for the 64 bits of the code (the run checks them  *)
(* for eight).                                                             *)
(***************************************************************************)
EXTENDS RenderLoops, FixedPoint, FiniteSetTheorems, WellFoundedInduction, TLAPS

Positions == 0 .. N - 1
Marks == {<<"gpu">>, <<"cpu">>, <<"pair">>}
Busy == {"enter", "gpu", "draw", "after"}

RenderLoopsTypeOK ==
  /\ frame \in [loop : Loops, progressive : BOOLEAN, gpu : BOOLEAN,
                avx2 : BOOLEAN, multi : BOOLEAN]
  /\ {asked, cancelled, gpu_available, broken, first_error} \subseteq BOOLEAN
  /\ next \in Nat
  /\ pc \in [Workers -> {"check", "claim", "over"} \cup Busy]
  /\ claim \in [Workers -> [lo : Nat, hi : Nat]]
  /\ part \subseteq Items /\ published \subseteq Items
  /\ made \in [Items -> {<< >>} \cup Marks]
  /\ tiles \in [gpu : Nat, cpu : Nat]
  /\ outcome \in [result : {"running", "complete", "cancelled", "failed", "returned"},
                  engine : {"none", "cpu", "cuda", "hybrid"}]

(* The positions a worker draws next, and those it claimed and has not     *)
(* drawn.                                                                  *)
Turn(w) == claim[w].lo .. (IF frame.loop \in Chunked THEN claim[w].hi - 1 ELSE claim[w].lo)

Held(w) == {k \in claim[w].lo .. claim[w].hi - 1 :
              \/ pc[w] \in {"enter", "gpu", "draw"}
              \/ pc[w] = "after" /\ k \notin Turn(w)}

(* Why an item may be left out for good.                                   *)
Excused == IF frame.loop \in Flagged THEN cancelled ELSE asked

(* A worker that holds anything holds positions below the counter; what is *)
(* held is undrawn and held once; what it just drew is drawn.              *)
ClaimsInv ==
  /\ \A w \in Workers : pc[w] \in Busy =>
       claim[w].lo < claim[w].hi /\ claim[w].hi <= N /\ claim[w].hi <= next
  /\ \A w \in Workers : \A k \in Held(w) : made[Item(k)] = << >>
  /\ \A v, w \in Workers : v # w => Held(v) \cap Held(w) = {}
  /\ \A w \in Workers : pc[w] = "after" => \A k \in Turn(w) : made[Item(k)] # << >>

(* The counter splits the positions: those above it are untouched, those   *)
(* below are drawn, held, or excused.                                      *)
CounterInv ==
  \A k \in Positions :
    /\ k >= next => made[Item(k)] = << >>
    /\ k < next => \/ made[Item(k)] # << >>
                   \/ \E w \in Workers : k \in Held(w)
                   \/ Excused

(* The reasons to stop, and who stops.                                     *)
StopsInv ==
  /\ cancelled => asked \/ broken
  /\ broken => frame.loop \in Tiled
  /\ first_error = broken
  /\ \A t \in Threads : pc[t] = "over" => next >= N \/ Excused
  /\ outcome.result # "running" => \A w \in Workers : pc[w] = "over"

(* Only the loops with a GPU thread draw on the GPU, and they count what   *)
(* drew.                                                                   *)
GpuDrawn == {i \in Items : made[i] = <<"gpu">>}
CpuDrawn == {i \in Items : made[i] \in {<<"cpu">>, <<"pair">>}}

TalliesInv ==
  /\ frame.gpu => frame.loop \in Tiled \cup {"slabs"}
  /\ ~frame.gpu => pc[Gpu] = "over" /\ GpuDrawn = {}
  /\ \A w \in Workers : pc[w] = "gpu" => w = Gpu
  /\ tiles.gpu > 0 <=> GpuDrawn # {}
  /\ tiles.cpu > 0 <=> CpuDrawn # {}

LoopsInv == RenderLoopsTypeOK /\ ClaimsInv /\ CounterInv /\ StopsInv /\ TalliesInv /\ ReportsWhoDrew

-----------------------------------------------------------------------------
(* The grid and its order.                                                 *)

(* There is at least one item.                                             *)
LEMMA GridIsNotEmpty == N \in Nat /\ N > 0
<1>1. \A a, b \in Nat \ {0} : a * b \in Nat /\ a * b > 0
  OBVIOUS
<1> QED BY <1>1, GridAssumption DEF N

(* The progressive order visits every item once (map_field_progressive_order). *)
LEMMA ItemsAreOrdered ==
  /\ \A k \in Positions : Item(k) \in Items
  /\ \A j, k \in Positions : Item(j) = Item(k) => j = k
  /\ \A i \in Items : \E k \in Positions : Item(k) = i
<1>0. N \in Nat BY GridIsNotEmpty
<1>1. CASE ~frame.progressive
  BY <1>0, <1>1 DEF Item, Positions, Items
<1>2. CASE frame.progressive
  <2>1. \A k \in Positions : k + 1 \in 1 .. N /\ Item(k) = map_field_progressive_order[k + 1]
    BY <1>0, <1>2 DEF Item, Positions
  <2>2. \A k \in Positions : Item(k) \in Items
    BY <2>1, OrderAssumption
  <2>3. \A j, k \in Positions : Item(j) = Item(k) => j = k
    <3>1. SUFFICES ASSUME NEW j \in Positions, NEW k \in Positions, Item(j) = Item(k)
                   PROVE j = k
      OBVIOUS
    <3>2. j + 1 = k + 1 BY <2>1, <3>1, OrderAssumption
    <3> QED BY <1>0, <3>2 DEF Positions
  <2>4. \A i \in Items : \E k \in Positions : Item(k) = i
    <3>1. SUFFICES ASSUME NEW i \in Items PROVE \E k \in Positions : Item(k) = i
      OBVIOUS
    <3>2. PICK m \in 1 .. N : map_field_progressive_order[m] = i
      BY OrderAssumption
    <3>3. m - 1 \in Positions /\ (m - 1) + 1 = m
      BY <1>0 DEF Positions
    <3> QED BY <2>1, <3>2, <3>3
  <2> QED BY <2>2, <2>3, <2>4
<1> QED BY <1>1, <1>2

(* An item is one position's.                                              *)
LEMMA ItemsStay ==
  ASSUME frame' = frame
  PROVE  \A k : Item(k)' = Item(k)
BY DEF Item

(* A batch is at least one item.                                           *)
LEMMA BatchesAreNotEmpty ==
  ASSUME NEW w \in Workers
  PROVE  BatchOf(w) \in Nat /\ BatchOf(w) > 0
BY GridIsNotEmpty, BatchAssumption DEF BatchOf, calibrated_gpu_batch

(* Where a busy worker's turn and holdings lie.                            *)
LEMMA WhatIsHeld ==
  ASSUME RenderLoopsTypeOK, ClaimsInv, NEW w \in Workers
  PROVE  /\ Held(w) \subseteq Positions
         /\ \A k \in Held(w) : k < next
         /\ pc[w] \in Busy => /\ Turn(w) \subseteq Positions
                              /\ \A k \in Turn(w) : k < next
                              /\ Turn(w) \subseteq claim[w].lo .. claim[w].hi - 1
                              /\ claim[w].lo \in Turn(w)
         /\ pc[w] \notin Busy => Held(w) = {}
         /\ pc[w] \in {"enter", "gpu", "draw"} => Turn(w) \subseteq Held(w)
<1>1. claim[w] \in [lo : Nat, hi : Nat] /\ next \in Nat /\ N \in Nat
  BY GridIsNotEmpty DEF RenderLoopsTypeOK
<1>2. pc[w] \in Busy => claim[w].lo < claim[w].hi /\ claim[w].hi <= N /\ claim[w].hi <= next
  BY DEF ClaimsInv
<1>3. pc[w] \notin Busy => Held(w) = {}
  BY DEF Held, Busy
<1>4. pc[w] \in Busy => /\ Turn(w) \subseteq claim[w].lo .. claim[w].hi - 1
                        /\ claim[w].lo \in Turn(w)
  BY <1>1, <1>2 DEF Turn
<1>5. pc[w] \in Busy => claim[w].lo .. claim[w].hi - 1 \subseteq Positions
                        /\ \A k \in claim[w].lo .. claim[w].hi - 1 : k < next
  BY <1>1, <1>2 DEF Positions
<1>6. Held(w) \subseteq claim[w].lo .. claim[w].hi - 1
  BY DEF Held
<1>7. pc[w] \in {"enter", "gpu", "draw"} => Turn(w) \subseteq Held(w)
  BY <1>4 DEF Held, Busy
<1> QED BY <1>3, <1>4, <1>5, <1>6, <1>7

(* What a worker draws are items.                                          *)
LEMMA WhatIsDrawn ==
  ASSUME RenderLoopsTypeOK, ClaimsInv, NEW w \in Workers, pc[w] \in Busy
  PROVE  /\ Now(w) = {Item(k) : k \in Turn(w)}
         /\ Now(w) \subseteq Items
         /\ Now(w) # {}
<1>1. Now(w) = {Item(k) : k \in Turn(w)}
  BY DEF Now, Turn
<1>2. Turn(w) \subseteq Positions /\ claim[w].lo \in Turn(w)
  BY WhatIsHeld
<1> QED BY <1>1, <1>2, ItemsAreOrdered

-----------------------------------------------------------------------------
(* The invariant holds at the start.                                       *)
LEMMA LoopsStart == LoopInit => LoopsInv
<1> SUFFICES ASSUME LoopInit PROVE LoopsInv
  OBVIOUS
<1>1. frame \in [loop : Loops, progressive : BOOLEAN, gpu : BOOLEAN, avx2 : BOOLEAN, multi : BOOLEAN]
      /\ (frame.gpu => frame.loop \in Tiled \cup {"slabs"})
      /\ \A w \in Workers : pc[w] = IF w = Gpu /\ ~frame.gpu THEN "over"
                                    ELSE IF frame.loop \in OpenMP THEN "claim" ELSE "check"
  BY DEF LoopInit
<1>2. RenderLoopsTypeOK
  BY <1>1 DEF LoopInit, RenderLoopsTypeOK
<1>3. \A w \in Workers : pc[w] \in {"over", "claim", "check"} /\ Held(w) = {}
  BY <1>1 DEF Held
<1>4. ClaimsInv
  BY <1>3 DEF ClaimsInv, Busy
<1>5. CounterInv
  <2>1. \A k \in Positions : k >= next /\ ~(k < next) /\ made[Item(k)] = << >>
    BY ItemsAreOrdered, GridIsNotEmpty DEF LoopInit, Positions
  <2> QED BY <2>1 DEF CounterInv
<1>6. StopsInv
  BY <1>1, GpuAssumption DEF LoopInit, StopsInv, Workers
<1>7. GpuDrawn = {} /\ CpuDrawn = {}
  BY DEF LoopInit, GpuDrawn, CpuDrawn
<1>8. TalliesInv
  BY <1>1, <1>7 DEF LoopInit, TalliesInv, Workers
<1>9. ReportsWhoDrew
  BY DEF LoopInit, ReportsWhoDrew
<1> QED BY <1>2, <1>4, <1>5, <1>6, <1>8, <1>9 DEF LoopsInv

-----------------------------------------------------------------------------
(* Types.                                                                  *)

(* Every step keeps the types; a drawn item was undrawn.                   *)
LEMMA LoopsTypeStep ==
  ASSUME LoopsInv, [LoopNext]_loopVars
  PROVE  RenderLoopsTypeOK'
<1>1. RenderLoopsTypeOK /\ ClaimsInv /\ N \in Nat
  BY GridIsNotEmpty DEF LoopsInv
<1> USE DEF RenderLoopsTypeOK
<1>2. ASSUME Ask PROVE RenderLoopsTypeOK'
  BY <1>1, <1>2 DEF Ask
<1>3. ASSUME Join PROVE RenderLoopsTypeOK'
  BY <1>1, <1>3 DEF Join, Verdict, engine_used
<1>4. ASSUME NEW w \in Workers, Work(w) PROVE RenderLoopsTypeOK'
  <2> DEFINE Places == {"check", "claim", "over"} \cup Busy
  <2>1. \A where \in Places : Goto(w, where) => pc' \in [Workers -> Places]
    BY <1>1 DEF Goto
  <2>2. Home \in Places /\ {"check", "claim", "over", "enter", "gpu", "draw", "after"} \subseteq Places
    BY DEF Home, Busy
  <2> HIDE DEF Places
  <2>3. CASE Check(w)
    <3>1. pc' \in [Workers -> Places]
      BY <2>1, <2>2, <2>3 DEF Check
    <3>2. cancelled' \in BOOLEAN
      BY <1>1, <2>3 DEF Check, Noticed
    <3> QED BY <1>1, <2>3, <3>1, <3>2 DEF Check, Places
  <2>4. CASE Claim(w)
    <3>1. pc' \in [Workers -> Places]
      BY <2>1, <2>2, <2>4 DEF Claim
    <3>2. next' \in Nat
      BY <1>1, <2>4, BatchesAreNotEmpty DEF Claim
    <3>3. claim' \in [Workers -> [lo : Nat, hi : Nat]]
      <4>1. PICK h : h = IF next + BatchOf(w) > N THEN N ELSE next + BatchOf(w)
        OBVIOUS
      <4>2. h \in Nat
        BY <1>1, <4>1, BatchesAreNotEmpty
      <4>3. [lo |-> next, hi |-> h] \in [lo : Nat, hi : Nat]
        BY <1>1, <4>2
      <4>4. claim' = claim \/ claim' = [claim EXCEPT ![w] = [lo |-> next, hi |-> h]]
        BY <2>4, <4>1 DEF Claim
      <4> QED BY <1>1, <4>3, <4>4
    <3> QED BY <1>1, <2>4, <3>1, <3>2, <3>3 DEF Claim, Places
  <2>5. CASE Enter(w)
    <3>1. pc' \in [Workers -> Places]
      BY <2>1, <2>2, <2>5 DEF Enter
    <3>2. Now(w) \subseteq Items
      BY <1>1, <2>5, WhatIsDrawn DEF Enter, Busy
    <3>3. cancelled' \in BOOLEAN /\ part' \subseteq Items
      BY <1>1, <2>5, <3>2 DEF Enter, Noticed
    <3> QED BY <1>1, <2>5, <3>1, <3>3 DEF Enter, Places
  <2>6. ASSUME NEW by \in {"gpu", "cpu", "pair"}, pc[w] \in {"gpu", "draw"}, Drawn(w, by)
        PROVE  made' \in [Items -> {<< >>} \cup Marks] /\ part' \subseteq Items
    <3>1. \A i \in Now(w) : made[i] = << >>
      BY <1>1, <2>6, WhatIsDrawn, WhatIsHeld DEF ClaimsInv, Busy
    <3>2. Append(<< >>, by) = <<by>>
      OBVIOUS
    <3>3. Append(<< >>, by) \in Marks
      BY <2>6, <3>2 DEF Marks
    <3>4. \A i \in Items : (IF i \in Now(w) THEN Append(made[i], by) ELSE made[i]) \in {<< >>} \cup Marks
      BY <1>1, <3>1, <3>3
    <3> QED BY <1>1, <2>6, <3>4 DEF Drawn
  <2>7. ASSUME NEW by, pc[w] \in Busy, Tally(w, by)
        PROVE  tiles' \in [gpu : Nat, cpu : Nat]
    <3>1. IsFiniteSet(Items)
      <4>1. 0 \in Int /\ N - 1 \in Int
        BY GridIsNotEmpty
      <4> QED BY <4>1, FS_Interval DEF Items
    <3>2. IsFiniteSet(Now(w))
      BY <1>1, <2>7, <3>1, WhatIsDrawn, FS_Subset
    <3>3. Cardinality(Now(w)) \in Nat
      BY <3>2, FS_CardinalityType
    <3> QED BY <1>1, <2>7, <3>3 DEF Tally
  <2>8. CASE render_tile_gpu(w)
    <3>1. pc' \in [Workers -> Places]
      BY <2>1, <2>2, <2>8 DEF render_tile_gpu, Drawn
    <3>2. made' \in [Items -> {<< >>} \cup Marks] /\ part' \subseteq Items
      BY <2>6, <2>8 DEF render_tile_gpu
    <3>3. tiles' \in [gpu : Nat, cpu : Nat]
      BY <2>7, <2>8 DEF render_tile_gpu, Busy
    <3> QED BY <1>1, <2>8, <3>1, <3>2, <3>3 DEF render_tile_gpu, Places
  <2>9. CASE DrawWhole(w)
    <3>1. pc' \in [Workers -> Places]
      BY <2>1, <2>2, <2>9 DEF DrawWhole, Drawn
    <3>2. render_cpu_range \in {"gpu", "cpu", "pair"}
      BY DEF render_cpu_range
    <3>3. made' \in [Items -> {<< >>} \cup Marks] /\ part' \subseteq Items
      BY <2>6, <2>9, <3>2 DEF DrawWhole
    <3>4. tiles' \in [gpu : Nat, cpu : Nat]
      BY <2>7, <2>9 DEF DrawWhole, Busy
    <3> QED BY <1>1, <2>9, <3>1, <3>3, <3>4 DEF DrawWhole, Places
  <2>10. CASE GpuFails(w)
    BY <1>1, <2>1, <2>2, <2>10 DEF GpuFails, Places
  <2>11. CASE DrawStopped(w)
    BY <1>1, <2>1, <2>2, <2>11 DEF DrawStopped, Places
  <2>12. CASE record_worker_exception(w)
    BY <1>1, <2>1, <2>2, <2>12 DEF record_worker_exception, Places
  <2>13. CASE After(w)
    <3>1. Now(w) \subseteq Items
      BY <1>1, <2>13, WhatIsDrawn DEF After, Busy
    <3>2. published' \subseteq Items
      BY <1>1, <2>13, <3>1 DEF After, Announced
    <3>3. pc' \in [Workers -> Places]
      BY <2>1, <2>2, <2>13 DEF After
    <3>4. claim' \in [Workers -> [lo : Nat, hi : Nat]]
      <4>1. PICK c : c = [claim[w] EXCEPT !.lo = @ + 1]
        OBVIOUS
      <4>2. claim[w] \in [lo : Nat, hi : Nat]
        BY <1>1
      <4>3. c \in [lo : Nat, hi : Nat]
        BY <4>1, <4>2
      <4>4. claim' = claim \/ claim' = [claim EXCEPT ![w] = c]
        BY <2>13, <4>1 DEF After
      <4> QED BY <1>1, <4>3, <4>4
    <3> QED BY <1>1, <2>13, <3>2, <3>3, <3>4 DEF After, Places
  <2> QED BY <1>4, <2>3, <2>4, <2>5, <2>8, <2>9, <2>10, <2>11, <2>12, <2>13 DEF Work
<1>5. ASSUME UNCHANGED loopVars PROVE RenderLoopsTypeOK'
  BY <1>1, <1>5 DEF loopVars
<1> QED BY <1>2, <1>3, <1>4, <1>5 DEF LoopNext, Progress

-----------------------------------------------------------------------------
(* Claims and the counter.                                                 *)

(* A step of one worker that draws nothing and claims nothing: it keeps    *)
(* what it holds, or drops it for a reason.                                *)
Moves(w) ==
  /\ frame' = frame /\ made' = made /\ next' = next
  /\ \A v \in Workers \ {w} : pc'[v] = pc[v] /\ claim'[v] = claim[v]
  /\ pc'[w] \in Busy => /\ pc[w] \in Busy
                        /\ claim'[w].lo < claim'[w].hi
                        /\ claim'[w].hi = claim[w].hi
  /\ pc'[w] = "after" => pc[w] = "after" /\ claim'[w] = claim[w]
  /\ Held(w)' \subseteq Held(w)
  /\ Held(w)' = Held(w) \/ Excused'
  /\ Excused => Excused'

LEMMA MovesKeepClaims ==
  ASSUME RenderLoopsTypeOK, ClaimsInv, CounterInv, NEW w \in Workers, Moves(w)
  PROVE  ClaimsInv' /\ CounterInv'
<1>1. \A k : Item(k)' = Item(k)
  BY ItemsStay DEF Moves
<1>2. \A v \in Workers \ {w} : Held(v)' = Held(v) /\ Turn(v)' = Turn(v)
  BY DEF Moves, Held, Turn
<1>3. \A v \in Workers : Held(v)' \subseteq Held(v)
  BY <1>2 DEF Moves
<1>4. ClaimsInv'
  <2>1. \A v \in Workers : pc'[v] \in Busy =>
          claim'[v].lo < claim'[v].hi /\ claim'[v].hi <= N /\ claim'[v].hi <= next'
    BY DEF ClaimsInv, Moves
  <2>2. \A v \in Workers : \A k \in Held(v)' : made'[Item(k)'] = << >>
    BY <1>1, <1>3 DEF ClaimsInv, Moves
  <2>3. \A u, v \in Workers : u # v => Held(u)' \cap Held(v)' = {}
    BY <1>3 DEF ClaimsInv
  <2>4. \A v \in Workers : pc'[v] = "after" => \A k \in Turn(v)' : made'[Item(k)'] # << >>
    <3>1. pc'[w] = "after" => Turn(w)' = Turn(w)
      BY DEF Moves, Turn
    <3> QED BY <1>1, <1>2, <3>1 DEF ClaimsInv, Moves
  <2> QED BY <2>1, <2>2, <2>3, <2>4 DEF ClaimsInv
<1>5. CounterInv'
  <2>1. CASE Excused'
    BY <1>1, <2>1 DEF CounterInv, Moves
  <2>2. CASE ~Excused'
    <3>1. \A v \in Workers : Held(v)' = Held(v)
      BY <1>2, <2>2 DEF Moves
    <3>2. ~Excused
      BY <2>2 DEF Moves
    <3> QED BY <1>1, <3>1, <3>2 DEF CounterInv, Moves
  <2> QED BY <2>1, <2>2
<1> QED BY <1>4, <1>5

(* fetch_add hands out positions nobody holds.                             *)
LEMMA ClaimKeepsClaims ==
  ASSUME RenderLoopsTypeOK, RenderLoopsTypeOK', ClaimsInv, CounterInv,
         NEW w \in Workers, Claim(w)
  PROVE  ClaimsInv' /\ CounterInv'
<1>0. /\ N \in Nat /\ next \in Nat /\ next' \in Nat /\ next < next'
      /\ pc \in [Workers -> {"check", "claim", "over"} \cup Busy]
      /\ claim \in [Workers -> [lo : Nat, hi : Nat]]
      /\ claim' \in [Workers -> [lo : Nat, hi : Nat]]
  BY GridIsNotEmpty, BatchesAreNotEmpty DEF Claim, RenderLoopsTypeOK
<1>1. /\ \A k : Item(k)' = Item(k)
      /\ made' = made /\ (Excused' <=> Excused)
  BY ItemsStay DEF Claim, Excused
<1>2. \A v \in Workers \ {w} : pc'[v] = pc[v] /\ claim'[v] = claim[v]
  BY <1>0 DEF Claim, Goto
<1>3. \A v \in Workers \ {w} : Held(v)' = Held(v) /\ Turn(v)' = Turn(v)
  BY <1>2 DEF Held, Turn, Claim
<1>4. Held(w) = {}
  BY DEF Held, Claim
<1>5. \/ next < N /\ pc'[w] = "enter" /\ claim'[w].lo = next /\ next < claim'[w].hi
         /\ claim'[w].hi <= N /\ claim'[w].hi <= next'
         /\ (claim'[w].hi = N \/ claim'[w].hi = next')
      \/ next >= N /\ pc'[w] = "over"
  BY <1>0, BatchesAreNotEmpty DEF Claim, Goto
<1>6. \A k \in Held(w)' : k \in Positions /\ k >= next
  BY <1>0, <1>5 DEF Held, Positions
<1>7. \A v \in Workers : \A k \in Held(v) : k < next
  BY WhatIsHeld
<1>8. \A v \in Workers \ {w} : Held(v)' \cap Held(w)' = {}
  <2>1. SUFFICES ASSUME NEW v \in Workers \ {w}, NEW k \in Held(v)', k \in Held(w)'
                 PROVE FALSE
    OBVIOUS
  <2>2. k < next /\ k >= next /\ k \in Nat
    BY <1>0, <1>3, <1>6, <1>7, <2>1 DEF Positions
  <2> QED BY <1>0, <2>2
<1>9. ClaimsInv'
  <2>1. \A v \in Workers : pc'[v] \in Busy =>
          claim'[v].lo < claim'[v].hi /\ claim'[v].hi <= N /\ claim'[v].hi <= next'
    BY <1>0, <1>2, <1>5 DEF ClaimsInv, Busy
  <2>2. \A v \in Workers : \A k \in Held(v)' : made'[Item(k)'] = << >>
    BY <1>1, <1>3, <1>6 DEF ClaimsInv, CounterInv
  <2>3. \A u, v \in Workers : u # v => Held(u)' \cap Held(v)' = {}
    BY <1>3, <1>8 DEF ClaimsInv
  <2>4. \A v \in Workers : pc'[v] = "after" => \A k \in Turn(v)' : made'[Item(k)'] # << >>
    BY <1>1, <1>2, <1>3, <1>5 DEF ClaimsInv
  <2> QED BY <2>1, <2>2, <2>3, <2>4 DEF ClaimsInv
<1>10. CounterInv'
  <2>1. SUFFICES ASSUME NEW k \in Positions
                 PROVE  /\ k >= next' => made[Item(k)] = << >>
                        /\ k < next' => \/ made[Item(k)] # << >>
                                        \/ \E v \in Workers : k \in Held(v)'
                                        \/ Excused
    BY <1>1 DEF CounterInv
  <2>2. k \in Nat /\ k < N
    BY <1>0 DEF Positions
  <2>3. CASE k < next
    <3>1. \/ made[Item(k)] # << >>
          \/ \E v \in Workers : k \in Held(v)
          \/ Excused
      BY <2>3 DEF CounterInv
    <3>2. ASSUME NEW v \in Workers, k \in Held(v) PROVE k \in Held(v)'
      BY <1>3, <1>4, <3>2
    <3> QED BY <1>0, <2>2, <2>3, <3>1, <3>2
  <2>4. CASE k >= next
    <3>1. made[Item(k)] = << >>
      BY <2>4 DEF CounterInv
    <3>2. ASSUME k < next' PROVE k \in Held(w)'
      BY <1>0, <1>5, <2>2, <2>4, <3>2 DEF Held
    <3> QED BY <3>1, <3>2
  <2> QED BY <1>0, <2>2, <2>3, <2>4
<1> QED BY <1>9, <1>10

(* Drawing takes a worker's turn out of what it holds.                     *)
LEMMA DrawingKeepsClaims ==
  ASSUME RenderLoopsTypeOK, RenderLoopsTypeOK', ClaimsInv, CounterInv,
         NEW w \in Workers, NEW by \in {"gpu", "cpu", "pair"}, pc[w] \in {"gpu", "draw"}, Drawn(w, by),
         UNCHANGED <<frame, asked, cancelled, next, claim>>
  PROVE  ClaimsInv' /\ CounterInv'
<1>1. /\ \A k : Item(k)' = Item(k)
      /\ Excused' <=> Excused
      /\ \A v : Turn(v)' = Turn(v)
  BY ItemsStay DEF Excused, Turn
<1>2. /\ \A v \in Workers \ {w} : pc'[v] = pc[v]
      /\ pc'[w] = "after"
  BY DEF Drawn, Goto, RenderLoopsTypeOK
<1>3. \A v \in Workers \ {w} : Held(v)' = Held(v)
  BY <1>1, <1>2 DEF Held
<1>4. Held(w)' = Held(w) \ Turn(w) /\ Turn(w) \subseteq Held(w)
  BY <1>1, <1>2, WhatIsHeld DEF Held
<1>5. Turn(w) \subseteq Positions /\ Now(w) = {Item(k) : k \in Turn(w)}
  BY WhatIsHeld, WhatIsDrawn DEF Busy
<1>6. \A k \in Positions : made'[Item(k)] = IF k \in Turn(w) THEN Append(made[Item(k)], by)
                                            ELSE made[Item(k)]
  BY <1>5, ItemsAreOrdered DEF Drawn
<1>7. \A k \in Turn(w) : made'[Item(k)] # << >>
  <2>1. \A k \in Turn(w) : made[Item(k)] = << >>
    BY <1>4 DEF ClaimsInv
  <2>2. Append(<< >>, by) # << >>
    OBVIOUS
  <2> QED BY <1>5, <1>6, <2>1, <2>2
<1>8. \A v \in Workers : Held(v) \subseteq Positions
  BY WhatIsHeld
<1>9. \A v \in Workers \ {w} : \A k \in Turn(v) : pc[v] = "after" => k \in Positions
  BY WhatIsHeld DEF Busy
<1>10. \A k \in Positions : made[Item(k)] # << >> => made'[Item(k)] # << >>
  BY <1>6, <1>7
<1>11. ClaimsInv'
  <2>1. \A v \in Workers : pc'[v] \in Busy =>
          claim'[v].lo < claim'[v].hi /\ claim'[v].hi <= N /\ claim'[v].hi <= next'
    BY <1>2 DEF ClaimsInv, Busy
  <2>2. \A v \in Workers : \A k \in Held(v)' : made'[Item(k)'] = << >>
    <3>1. SUFFICES ASSUME NEW v \in Workers, NEW k \in Held(v)' PROVE made'[Item(k)] = << >>
      BY <1>1
    <3>2. k \in Held(v) /\ k \notin Turn(w)
      BY <1>3, <1>4, <3>1 DEF ClaimsInv
    <3> QED BY <1>6, <1>8, <3>2 DEF ClaimsInv
  <2>3. \A u, v \in Workers : u # v => Held(u)' \cap Held(v)' = {}
    BY <1>3, <1>4 DEF ClaimsInv
  <2>4. \A v \in Workers : pc'[v] = "after" => \A k \in Turn(v)' : made'[Item(k)'] # << >>
    BY <1>1, <1>2, <1>7, <1>9, <1>10 DEF ClaimsInv
  <2> QED BY <2>1, <2>2, <2>3, <2>4 DEF ClaimsInv
<1>12. CounterInv'
  <2>1. SUFFICES ASSUME NEW k \in Positions
                 PROVE  /\ k >= next => made'[Item(k)] = << >>
                        /\ k < next => \/ made'[Item(k)] # << >>
                                       \/ \E v \in Workers : k \in Held(v)'
                                       \/ Excused
    BY <1>1 DEF CounterInv
  <2>2. next \in Nat /\ k \in Int
    BY DEF RenderLoopsTypeOK, Positions
  <2>3. CASE k \in Turn(w)
    <3>1. k < next
      BY <2>3, WhatIsHeld DEF Busy
    <3> QED BY <1>7, <2>2, <2>3, <3>1
  <2>4. CASE k \notin Turn(w)
    <3>1. made'[Item(k)] = made[Item(k)]
      BY <1>6, <2>4
    <3>2. \A v \in Workers : k \in Held(v) => k \in Held(v)'
      BY <1>3, <1>4, <2>4
    <3> QED BY <3>1, <3>2 DEF CounterInv
  <2> QED BY <2>3, <2>4
<1> QED BY <1>11, <1>12

(* Every step keeps the claims and the counter.                            *)
LEMMA ClaimsStep ==
  ASSUME LoopsInv, LoopNext, RenderLoopsTypeOK'
  PROVE  ClaimsInv' /\ CounterInv'
<1>1. RenderLoopsTypeOK /\ ClaimsInv /\ CounterInv
  BY DEF LoopsInv
<1>2. ASSUME Ask \/ Join PROVE ClaimsInv' /\ CounterInv'
  <2>1. Gpu \in Workers
    BY DEF Workers
  <2>2. UNCHANGED <<frame, made, next, pc, claim>> /\ (Excused => Excused')
    BY <1>2 DEF Ask, Join, Excused
  <2>3. \A v \in Workers : Held(v)' = Held(v)
    BY <2>2 DEF Held, Turn
  <2>4. Moves(Gpu)
    BY <1>1, <2>1, <2>2, <2>3 DEF Moves, ClaimsInv
  <2> QED BY <1>1, <2>1, <2>4, MovesKeepClaims
<1>3. ASSUME NEW w \in Workers, Work(w) PROVE ClaimsInv' /\ CounterInv'
  <2>1. /\ \A where : Goto(w, where) => pc'[w] = where /\ \A v \in Workers \ {w} : pc'[v] = pc[v]
        /\ pc[w] \in Busy => claim[w].lo < claim[w].hi
        /\ claim \in [Workers -> [lo : Nat, hi : Nat]]
    BY <1>1 DEF Goto, RenderLoopsTypeOK, ClaimsInv
  <2>2. Home \notin Busy
    BY DEF Home, Busy
  <2>3. ASSUME Noticed, frame' = frame, asked' = asked, Excused PROVE Excused'
    <3>1. CASE frame.loop \in Flagged
      <4>1. cancelled
        BY <2>3, <3>1 DEF Excused
      <4>2. cancelled'
        BY <2>3, <4>1 DEF Noticed
      <4> QED BY <2>3, <3>1, <4>2 DEF Excused
    <3>2. CASE frame.loop \notin Flagged
      BY <2>3, <3>2 DEF Excused
    <3> QED BY <3>1, <3>2
  <2>4. ASSUME UNCHANGED <<frame, made, next, claim>>, NEW where, Goto(w, where),
               where \notin Busy, Excused => Excused', pc[w] \in Busy => Excused'
        PROVE  Moves(w)
    <3>1. Held(w)' = {} /\ (pc[w] \notin Busy => Held(w) = {})
      BY <2>1, <2>4 DEF Held, Busy
    <3> QED BY <2>1, <2>4, <3>1 DEF Moves, Busy
  <2>5. CASE Check(w)
    <3>1. Excused => Excused'
      BY <2>3, <2>5 DEF Check
    <3>2. UNCHANGED <<frame, made, next, claim>> /\ pc[w] \notin Busy
      BY <2>5 DEF Check, Busy
    <3>3. PICK where \in {"over", "claim"} : Goto(w, where)
      BY <2>5 DEF Check
    <3>4. where \notin Busy
      BY DEF Busy
    <3>5. Moves(w)
      BY <2>4, <3>1, <3>2, <3>3, <3>4
    <3> QED BY <1>1, <3>5, MovesKeepClaims
  <2>6. CASE Claim(w)
    BY <1>1, <2>6, ClaimKeepsClaims
  <2>7. CASE Enter(w)
    <3>1. UNCHANGED <<frame, asked, made, next, claim>> /\ pc[w] = "enter"
      BY <2>7 DEF Enter
    <3>2. CASE Noticed /\ Goto(w, Home) /\ cancel_requested
      <4>1. Excused' /\ (Excused => Excused')
        BY <2>3, <3>1, <3>2 DEF Noticed, Excused, cancel_requested
      <4>2. Moves(w)
        BY <2>2, <2>4, <3>1, <3>2, <4>1
      <4> QED BY <1>1, <4>2, MovesKeepClaims
    <3>3. CASE cancelled' = cancelled /\ \E where \in {"gpu", "draw"} : Goto(w, where)
      <4>1. pc'[w] \in {"gpu", "draw"} /\ (Excused <=> Excused')
        BY <2>1, <3>1, <3>3 DEF Excused
      <4>2. Held(w)' = Held(w)
        BY <3>1, <4>1 DEF Held, Turn
      <4>3. Moves(w)
        BY <2>1, <3>1, <3>3, <4>1, <4>2 DEF Moves, Busy
      <4> QED BY <1>1, <4>3, MovesKeepClaims
    <3> QED BY <2>7, <3>2, <3>3 DEF Enter
  <2>8. CASE render_tile_gpu(w)
    <3>1. UNCHANGED <<frame, asked, cancelled, next, claim>> /\ pc[w] \in {"gpu", "draw"} /\ Drawn(w, "gpu")
      BY <2>8 DEF render_tile_gpu
    <3>2. "gpu" \in {"gpu", "cpu", "pair"}
      OBVIOUS
    <3> QED BY <1>1, <3>1, <3>2, DrawingKeepsClaims
  <2>9. CASE DrawWhole(w)
    <3>1. UNCHANGED <<frame, asked, cancelled, next, claim>> /\ pc[w] \in {"gpu", "draw"}
          /\ Drawn(w, render_cpu_range)
      BY <2>9 DEF DrawWhole
    <3>2. render_cpu_range \in {"gpu", "cpu", "pair"}
      BY DEF render_cpu_range
    <3> QED BY <1>1, <3>1, <3>2, DrawingKeepsClaims
  <2>10. CASE GpuFails(w)
    <3>1. UNCHANGED <<frame, made, next, claim>> /\ pc[w] = "gpu" /\ pc'[w] = "draw"
          /\ (\A v \in Workers \ {w} : pc'[v] = pc[v]) /\ (Excused <=> Excused')
      BY <2>1, <2>10 DEF GpuFails, Excused
    <3>2. Held(w)' = Held(w)
      BY <3>1 DEF Held, Turn
    <3>3. Moves(w)
      BY <2>1, <3>1, <3>2 DEF Moves, Busy
    <3> QED BY <1>1, <3>3, MovesKeepClaims
  <2>11. CASE DrawStopped(w)
    <3>1. UNCHANGED <<frame, asked, made, next, claim>> /\ cancelled' = TRUE
          /\ frame.loop \in Cancellable
      BY <2>11 DEF DrawStopped
    <3>2. Excused'
      BY <3>1 DEF Excused, Cancellable, Flagged
    <3>3. PICK where \in {"over", Home} : Goto(w, where)
      BY <2>11 DEF DrawStopped
    <3>4. where \notin Busy
      BY <2>2 DEF Busy
    <3>5. Moves(w)
      BY <2>4, <3>1, <3>2, <3>3, <3>4
    <3> QED BY <1>1, <3>5, MovesKeepClaims
  <2>12. CASE record_worker_exception(w)
    <3>1. UNCHANGED <<frame, asked, made, next, claim>> /\ cancelled' = TRUE
          /\ frame.loop \in Tiled /\ Goto(w, "over")
      BY <2>12 DEF record_worker_exception
    <3>2. Excused' /\ "over" \notin Busy
      BY <3>1 DEF Excused, Flagged, Busy
    <3>3. Moves(w)
      BY <2>4, <3>1, <3>2
    <3> QED BY <1>1, <3>3, MovesKeepClaims
  <2>13. CASE After(w)
    <3>1. /\ UNCHANGED <<frame, asked, cancelled, made, next>> /\ pc[w] = "after"
          /\ Excused <=> Excused'
      BY <2>13 DEF After, Excused
    <3>2. CASE /\ frame.loop \notin Chunked /\ claim[w].lo + 1 < claim[w].hi
               /\ claim' = [claim EXCEPT ![w].lo = @ + 1] /\ Goto(w, "enter")
      <4>1. /\ claim'[w].lo = claim[w].lo + 1 /\ claim'[w].hi = claim[w].hi
            /\ \A v \in Workers \ {w} : claim'[v] = claim[v]
        BY <2>1, <3>2
      <4>2. claim[w].lo \in Nat /\ claim[w].hi \in Nat /\ pc'[w] = "enter"
        BY <2>1, <3>2
      <4>3. Turn(w) = {claim[w].lo}
        BY <3>2, <4>2 DEF Turn
      <4>4. Held(w)' = Held(w)
        BY <3>1, <4>1, <4>2, <4>3 DEF Held
      <4>5. Moves(w)
        BY <2>1, <3>1, <3>2, <4>1, <4>2, <4>4 DEF Moves, Busy
      <4> QED BY <1>1, <4>5, MovesKeepClaims
    <3>3. CASE /\ ~(frame.loop \notin Chunked /\ claim[w].lo + 1 < claim[w].hi)
               /\ UNCHANGED claim /\ \E where \in {"over", Home} : Goto(w, where)
      <4>1. claim[w].lo \in Nat /\ claim[w].hi \in Nat /\ claim[w].lo < claim[w].hi
        BY <2>1, <3>1 DEF Busy
      <4>2. Held(w) = {}
        BY <3>1, <3>3, <4>1 DEF Held, Turn
      <4>3. pc'[w] \notin Busy
        BY <2>1, <2>2, <3>3 DEF Busy
      <4>4. Held(w)' = {}
        BY <4>3 DEF Held, Busy
      <4>5. Moves(w)
        BY <2>1, <3>1, <3>3, <4>2, <4>3, <4>4 DEF Moves, Busy
      <4> QED BY <1>1, <4>5, MovesKeepClaims
    <3> QED BY <2>13, <3>2, <3>3 DEF After
  <2> QED BY <1>3, <2>5, <2>6, <2>7, <2>8, <2>9, <2>10, <2>11, <2>12, <2>13 DEF Work
<1> QED BY <1>2, <1>3 DEF LoopNext, Progress

-----------------------------------------------------------------------------
(* The reasons to stop.                                                    *)
LEMMA StopsStep ==
  ASSUME LoopsInv, LoopNext
  PROVE  StopsInv'
<1>1. RenderLoopsTypeOK /\ StopsInv
  BY DEF LoopsInv
<1>2. CASE Ask
  BY <1>1, <1>2 DEF Ask, StopsInv, Excused
<1>3. CASE Join
  BY <1>1, <1>3 DEF Join, StopsInv, Excused
<1>4. ASSUME NEW w \in Workers, Work(w) PROVE StopsInv'
  <2>1. \A where : Goto(w, where) => pc'[w] = where /\ \A v \in Workers \ {w} : pc'[v] = pc[v]
    BY <1>1 DEF Goto, RenderLoopsTypeOK
  <2>2. pc[w] # "over"
    BY <1>4 DEF Work, Check, Claim, Enter, render_tile_gpu, GpuFails, DrawWhole, DrawStopped,
             record_worker_exception, After
  <2>3. outcome.result = "running"
    BY <1>1, <1>4, <2>2 DEF StopsInv
  <2>4. outcome' = outcome /\ frame' = frame /\ asked' = asked
    BY <1>4 DEF Work, Check, Claim, Enter, render_tile_gpu, GpuFails, DrawWhole, DrawStopped,
             record_worker_exception, After
  <2>5. Threads \subseteq Workers
    BY DEF Workers
  <2>6. SUFFICES /\ cancelled' => asked \/ broken'
                 /\ broken' => frame.loop \in Tiled
                 /\ first_error' = broken'
                 /\ next >= N => next' >= N
                 /\ Excused => Excused'
                 /\ pc'[w] = "over" => next' >= N \/ Excused'
                 /\ \A v \in Workers \ {w} : pc'[v] = pc[v]
    BY <1>1, <2>3, <2>4, <2>5 DEF StopsInv
  <2>7. Home # "over"
    BY DEF Home
  <2> USE DEF StopsInv
  <2>8. CASE Check(w)
    <3>1. /\ Noticed /\ Goto(w, IF cancel_requested THEN "over" ELSE "claim")
          /\ UNCHANGED <<frame, asked, next, broken, first_error>>
      BY <2>8 DEF Check
    <3>2. cancelled => cancelled'
      BY <3>1 DEF Noticed
    <3>3. cancelled' => asked \/ broken
      BY <1>1, <3>1 DEF Noticed
    <3>4. cancel_requested => Excused'
      <4>1. frame.loop \in Flagged /\ cancel_requested => cancelled'
        BY <3>1 DEF Noticed, cancel_requested
      <4>2. frame.loop \notin Flagged /\ cancel_requested => asked
        BY DEF cancel_requested
      <4> QED BY <3>1, <4>1, <4>2 DEF Excused
    <3>5. Excused => Excused'
      BY <3>1, <3>2 DEF Excused
    <3>6. pc'[w] = "over" => cancel_requested
      BY <2>1, <3>1
    <3>7. \A v \in Workers \ {w} : pc'[v] = pc[v]
      BY <2>1, <3>1
    <3> QED BY <1>1, <3>1, <3>3, <3>4, <3>5, <3>6, <3>7
  <2>9. CASE Claim(w)
    <3>1. BatchOf(w) \in Nat /\ N \in Nat /\ next \in Nat
      BY <1>1, BatchesAreNotEmpty, GridIsNotEmpty DEF RenderLoopsTypeOK
    <3>2. UNCHANGED <<asked, cancelled, broken, first_error, frame>> /\ next' = next + BatchOf(w)
      BY <2>9 DEF Claim
    <3>3. pc'[w] = "over" => next >= N
      BY <2>1, <2>9 DEF Claim
    <3>4. \A v \in Workers \ {w} : pc'[v] = pc[v]
      BY <2>1, <2>9 DEF Claim
    <3>5. Excused <=> Excused'
      BY <3>2 DEF Excused
    <3> QED BY <1>1, <3>1, <3>2, <3>3, <3>4, <3>5
  <2>10. CASE Enter(w)
    <3>1. UNCHANGED <<frame, asked, next, broken, first_error>>
      BY <2>10 DEF Enter
    <3>2. Noticed \/ cancelled' = cancelled
      BY <2>10 DEF Enter
    <3>3. (cancelled => cancelled') /\ (cancelled' => cancelled \/ asked)
      <4>1. CASE Noticed
        BY <4>1, Zenon DEF Noticed
      <4>2. CASE cancelled' = cancelled
        BY <4>2
      <4> QED BY <3>2, <4>1, <4>2
    <3>4. PICK where \in {Home, "gpu", "draw"} : Goto(w, where)
      BY <2>10 DEF Enter
    <3>5. pc'[w] # "over" /\ \A v \in Workers \ {w} : pc'[v] = pc[v]
      BY <2>1, <2>7, <3>4
    <3>6. Excused => Excused'
      BY <3>1, <3>3 DEF Excused
    <3> QED BY <1>1, <3>1, <3>3, <3>5, <3>6
  <2>11. CASE render_tile_gpu(w) \/ DrawWhole(w) \/ GpuFails(w)
    <3>1. UNCHANGED <<frame, asked, cancelled, next, broken, first_error>>
      BY <2>11 DEF render_tile_gpu, DrawWhole, GpuFails
    <3>2. PICK where \in {"after", "draw"} : Goto(w, where)
      BY <2>11 DEF render_tile_gpu, DrawWhole, GpuFails, Drawn
    <3>3. Excused <=> Excused'
      BY <3>1 DEF Excused
    <3> QED BY <1>1, <2>1, <3>1, <3>2, <3>3
  <2>12. CASE DrawStopped(w)
    <3>1. UNCHANGED <<frame, asked, next, broken, first_error>> /\ cancelled' = TRUE
          /\ frame.loop \in Cancellable /\ cancel_requested
      BY <2>12 DEF DrawStopped
    <3>2. asked \/ broken
      BY <1>1, <3>1 DEF cancel_requested
    <3>3. Excused'
      BY <3>1 DEF Excused, Cancellable, Flagged
    <3>4. \A v \in Workers \ {w} : pc'[v] = pc[v]
      BY <2>1, <2>12 DEF DrawStopped
    <3> QED BY <1>1, <3>1, <3>2, <3>3, <3>4
  <2>13. CASE record_worker_exception(w)
    <3>1. UNCHANGED <<frame, asked, next>> /\ broken' = TRUE /\ cancelled' = TRUE /\ first_error' = TRUE
          /\ frame.loop \in Tiled
      BY <2>13 DEF record_worker_exception
    <3>2. Excused'
      BY <3>1 DEF Excused, Flagged
    <3>3. \A v \in Workers \ {w} : pc'[v] = pc[v]
      BY <2>1, <2>13 DEF record_worker_exception
    <3> QED BY <3>1, <3>2, <3>3
  <2>14. CASE After(w)
    <3>1. UNCHANGED <<frame, asked, cancelled, next, broken, first_error>>
      BY <2>14 DEF After
    <3>2. \/ Goto(w, "enter") \/ Goto(w, Home)
          \/ Goto(w, "over") /\ frame.loop = "ln" /\ asked
      BY <2>14 DEF After
    <3>3. frame.loop = "ln" /\ asked => Excused'
      BY <3>1 DEF Excused, Flagged, Tiled
    <3>4. Excused <=> Excused'
      BY <3>1 DEF Excused
    <3>5. pc'[w] = "over" => Excused'
      BY <2>1, <2>7, <3>2, <3>3
    <3>6. \A v \in Workers \ {w} : pc'[v] = pc[v]
      BY <2>1, <3>2
    <3> QED BY <1>1, <3>1, <3>4, <3>5, <3>6
  <2> QED BY <1>4, <2>8, <2>9, <2>10, <2>11, <2>12, <2>13, <2>14 DEF Work
<1> QED BY <1>2, <1>3, <1>4 DEF LoopNext, Progress

-----------------------------------------------------------------------------
(* What drew the frame.                                                    *)

(* Drawing moves a worker's items from the undrawn to one of the two sets, *)
(* and the count of that set from zero.                                    *)
LEMMA DrawingIsCounted ==
  ASSUME LoopsInv, RenderLoopsTypeOK', NEW w \in Workers, NEW by \in {"gpu", "cpu", "pair"},
         pc[w] \in {"gpu", "draw"}, Drawn(w, by), Tally(w, IF by = "gpu" THEN "gpu" ELSE "cpu")
  PROVE  /\ by = "gpu" => /\ GpuDrawn' # {} /\ tiles'.gpu > 0
                          /\ CpuDrawn' = CpuDrawn /\ tiles'.cpu = tiles.cpu
         /\ by # "gpu" => /\ CpuDrawn' # {} /\ tiles'.cpu > 0
                          /\ GpuDrawn' = GpuDrawn /\ tiles'.gpu = tiles.gpu
<1>1. RenderLoopsTypeOK /\ ClaimsInv /\ pc[w] \in Busy
  BY DEF LoopsInv, Busy
<1>2. Now(w) \subseteq Items /\ Now(w) # {} /\ Now(w) = {Item(k) : k \in Turn(w)}
  BY <1>1, WhatIsDrawn
<1>3. IsFiniteSet(Now(w))
  <2>1. IsFiniteSet(Items)
    <3>1. 0 \in Int /\ N - 1 \in Int
      BY GridIsNotEmpty
    <3> QED BY <3>1, FS_Interval DEF Items
  <2> QED BY <1>2, <2>1, FS_Subset
<1>4. Cardinality(Now(w)) \in Nat /\ Cardinality(Now(w)) > 0
  BY <1>2, <1>3, FS_CardinalityType, FS_EmptySet
<1>5. \A i \in Now(w) : made[i] = << >>
  BY <1>1, <1>2, WhatIsHeld DEF ClaimsInv
<1>6. Append(<< >>, by) = <<by>>
  OBVIOUS
<1>7. \A i \in Items : made'[i] = IF i \in Now(w) THEN <<by>> ELSE made[i]
  BY <1>5, <1>6 DEF Drawn
<1>8. << >> # <<"gpu">> /\ << >> # <<"cpu">> /\ << >> # <<"pair">>
      /\ <<"cpu">> # <<"gpu">> /\ <<"pair">> # <<"gpu">>
  OBVIOUS
<1>9. by = "gpu" => Now(w) \subseteq GpuDrawn' /\ CpuDrawn' = CpuDrawn
  BY <1>2, <1>5, <1>7, <1>8 DEF GpuDrawn, CpuDrawn
<1>10. by # "gpu" => Now(w) \subseteq CpuDrawn' /\ GpuDrawn' = GpuDrawn
  BY <1>2, <1>5, <1>7, <1>8 DEF GpuDrawn, CpuDrawn
<1>11. tiles \in [gpu : Nat, cpu : Nat]
  BY <1>1 DEF RenderLoopsTypeOK
<1>12. by = "gpu" => tiles'.gpu > 0 /\ tiles'.cpu = tiles.cpu
  BY <1>4, <1>11 DEF Tally
<1>13. by # "gpu" => tiles'.cpu > 0 /\ tiles'.gpu = tiles.gpu
  BY <1>4, <1>11 DEF Tally
<1> QED BY <1>2, <1>9, <1>10, <1>12, <1>13

(* Every step keeps the tallies.                                           *)
LEMMA TalliesStep ==
  ASSUME LoopsInv, LoopNext, RenderLoopsTypeOK'
  PROVE  TalliesInv'
<1>1. RenderLoopsTypeOK /\ TalliesInv
  BY DEF LoopsInv
<1>2. ASSUME Ask \/ Join PROVE TalliesInv'
  <2>1. UNCHANGED <<frame, pc, made, tiles>>
    BY <1>2 DEF Ask, Join
  <2> QED BY <1>1, <2>1 DEF TalliesInv, GpuDrawn, CpuDrawn
<1>3. ASSUME NEW w \in Workers, Work(w) PROVE TalliesInv'
  <2>1. \A where : Goto(w, where) => pc'[w] = where /\ \A v \in Workers \ {w} : pc'[v] = pc[v]
    BY <1>1 DEF Goto, RenderLoopsTypeOK
  <2>2. frame' = frame /\ pc[w] # "over"
    BY <1>3 DEF Work, Check, Claim, Enter, render_tile_gpu, GpuFails, DrawWhole, DrawStopped,
             record_worker_exception, After
  <2>3. Gpu \in Workers
    BY DEF Workers
  <2>4. ~frame.gpu => w # Gpu /\ pc[Gpu] = "over"
    BY <1>1, <2>2 DEF TalliesInv
  <2>5. ASSUME UNCHANGED <<made, tiles>>, NEW where, Goto(w, where), where = "gpu" => w = Gpu
        PROVE  TalliesInv'
    <3>1. GpuDrawn' = GpuDrawn /\ CpuDrawn' = CpuDrawn
      BY <2>5 DEF GpuDrawn, CpuDrawn
    <3>2. ~frame.gpu => pc'[Gpu] = "over"
      BY <2>1, <2>3, <2>4, <2>5
    <3>3. \A v \in Workers : pc'[v] = "gpu" => v = Gpu
      BY <1>1, <2>1, <2>5 DEF TalliesInv
    <3> QED BY <1>1, <2>2, <2>5, <3>1, <3>2, <3>3 DEF TalliesInv
  <2>6. ASSUME NEW by \in {"gpu", "cpu", "pair"}, pc[w] \in {"gpu", "draw"}, Drawn(w, by),
               Tally(w, IF by = "gpu" THEN "gpu" ELSE "cpu"), by = "gpu" => pc[w] = "gpu"
        PROVE  TalliesInv'
    <3>1. /\ by = "gpu" => /\ GpuDrawn' # {} /\ tiles'.gpu > 0
                           /\ CpuDrawn' = CpuDrawn /\ tiles'.cpu = tiles.cpu
          /\ by # "gpu" => /\ CpuDrawn' # {} /\ tiles'.cpu > 0
                           /\ GpuDrawn' = GpuDrawn /\ tiles'.gpu = tiles.gpu
      BY <2>6, DrawingIsCounted
    <3>2. pc'[w] = "after" /\ \A v \in Workers \ {w} : pc'[v] = pc[v]
      BY <2>1, <2>6 DEF Drawn
    <3>3. ~frame.gpu => by # "gpu"
      BY <1>1, <2>4, <2>6 DEF TalliesInv
    <3>4. ~frame.gpu => pc'[Gpu] = "over" /\ GpuDrawn' = {}
      BY <1>1, <2>3, <2>4, <3>1, <3>2, <3>3 DEF TalliesInv
    <3>5. \A v \in Workers : pc'[v] = "gpu" => v = Gpu
      BY <1>1, <3>2 DEF TalliesInv
    <3>6. (tiles'.gpu > 0 <=> GpuDrawn' # {}) /\ (tiles'.cpu > 0 <=> CpuDrawn' # {})
      BY <1>1, <3>1 DEF TalliesInv
    <3> QED BY <1>1, <2>2, <3>4, <3>5, <3>6 DEF TalliesInv
  <2>7. Home # "gpu"
    BY DEF Home
  <2>8. CASE Check(w)
    BY <2>5, <2>8 DEF Check
  <2>9. CASE Claim(w)
    BY <2>5, <2>9 DEF Claim
  <2>10. CASE Enter(w)
    BY <2>5, <2>7, <2>10 DEF Enter, OnGpu
  <2>11. CASE render_tile_gpu(w)
    <3>1. pc[w] = "gpu" /\ Drawn(w, "gpu") /\ Tally(w, "gpu")
      BY <2>11 DEF render_tile_gpu
    <3> QED BY <2>6, <3>1
  <2>12. CASE DrawWhole(w)
    <3>1. pc[w] = "draw" /\ Drawn(w, render_cpu_range) /\ Tally(w, "cpu")
      BY <2>12 DEF DrawWhole
    <3>2. render_cpu_range \in {"cpu", "pair"}
      BY DEF render_cpu_range
    <3>3. PICK by \in {"cpu", "pair"} : by = render_cpu_range
      BY <3>2
    <3>4. by \in {"gpu", "cpu", "pair"} /\ by # "gpu" /\ Drawn(w, by)
          /\ Tally(w, IF by = "gpu" THEN "gpu" ELSE "cpu")
      BY <3>1, <3>3
    <3> QED BY <2>6, <3>1, <3>4
  <2>13. CASE GpuFails(w)
    BY <2>5, <2>13 DEF GpuFails
  <2>14. CASE DrawStopped(w)
    BY <2>5, <2>7, <2>14 DEF DrawStopped
  <2>15. CASE record_worker_exception(w)
    BY <2>5, <2>15 DEF record_worker_exception
  <2>16. CASE After(w)
    BY <2>5, <2>7, <2>16 DEF After
  <2> QED BY <1>3, <2>8, <2>9, <2>10, <2>11, <2>12, <2>13, <2>14, <2>15, <2>16 DEF Work
<1> QED BY <1>2, <1>3 DEF LoopNext, Progress

(* When every worker has stopped and nothing excuses a gap, all is drawn.  *)
LEMMA NothingIsLeftOut ==
  ASSUME LoopsInv, \A w \in Workers : pc[w] = "over", ~Excused
  PROVE  \A i \in Items : made[i] \in Marks
<1>1. \A w \in Workers : Held(w) = {}
  BY DEF Held
<1>2. PICK t \in Threads : pc[t] = "over"
  BY ThreadsAssumption DEF Workers
<1>3. next >= N /\ next \in Nat /\ N \in Nat
  BY <1>2, GridIsNotEmpty DEF LoopsInv, StopsInv, RenderLoopsTypeOK
<1>4. \A k \in Positions : k < next
  BY <1>3 DEF Positions
<1>5. \A k \in Positions : made[Item(k)] # << >>
  BY <1>1, <1>4 DEF LoopsInv, CounterInv
<1> QED BY <1>5, ItemsAreOrdered DEF LoopsInv, RenderLoopsTypeOK

(* A complete answer is given when nothing excuses a gap.                  *)
LEMMA CompleteIsNotExcused ==
  Verdict = "complete" => ~Excused
<1> SUFFICES ASSUME Excused PROVE Verdict # "complete"
  OBVIOUS
<1>1. CASE frame.loop \in Flagged
  <2>1. cancelled
    BY <1>1 DEF Excused
  <2> QED BY <1>1, <2>1 DEF Verdict, Flagged, Tiled
<1>2. CASE frame.loop \notin Flagged
  <2>1. asked
    BY <1>2 DEF Excused
  <2> QED BY <1>2, <2>1 DEF Verdict, Flagged, Tiled
<1> QED BY <1>1, <1>2

(* Every step keeps the report.                                            *)
LEMMA ReportStep ==
  ASSUME LoopsInv, LoopNext
  PROVE  ReportsWhoDrew'
<1>1. RenderLoopsTypeOK /\ StopsInv /\ TalliesInv /\ ReportsWhoDrew
  BY DEF LoopsInv
<1>2. CASE Join
  <2>1. SUFFICES ASSUME outcome'.result = "complete"
                 PROVE  LET ByGpu == {i \in Items : made[i] = <<"gpu">>} IN
                        outcome'.engine = IF ByGpu = Items THEN "cuda"
                                          ELSE IF ByGpu = {} THEN "cpu" ELSE "hybrid"
    BY <1>2 DEF Join, ReportsWhoDrew
  <2>2. Verdict = "complete" /\ outcome'.engine = engine_used /\ \A w \in Workers : pc[w] = "over"
    BY <1>2, <2>1 DEF Join
  <2>3. \A i \in Items : made[i] \in Marks
    BY <2>2, CompleteIsNotExcused, NothingIsLeftOut
  <2>4. PICK i \in Items : TRUE
    BY GridIsNotEmpty DEF Items
  <2>5. GpuDrawn \cup CpuDrawn = Items /\ GpuDrawn \cap CpuDrawn = {}
    BY <2>3 DEF GpuDrawn, CpuDrawn, Marks
  <2>6. engine_used = IF GpuDrawn = Items THEN "cuda" ELSE IF GpuDrawn = {} THEN "cpu" ELSE "hybrid"
    <3>1. CASE frame.loop \notin Tiled \cup {"slabs"}
      <4>1. GpuDrawn = {}
        BY <1>1, <3>1 DEF TalliesInv
      <4> QED BY <2>4, <3>1, <4>1 DEF engine_used
    <3>2. CASE frame.loop \in Tiled \cup {"slabs"}
      <4>1. /\ tiles.gpu > 0 <=> GpuDrawn # {}
            /\ tiles.cpu > 0 <=> CpuDrawn # {}
        BY <1>1 DEF TalliesInv
      <4> QED BY <2>4, <2>5, <3>2, <4>1 DEF engine_used
    <3> QED BY <3>1, <3>2
  <2> QED BY <2>2, <2>6 DEF GpuDrawn
<1>3. CASE Ask
  BY <1>1, <1>3 DEF Ask, ReportsWhoDrew
<1>4. ASSUME NEW w \in Workers, Work(w) PROVE ReportsWhoDrew'
  <2>1. outcome' = outcome /\ pc[w] # "over"
    BY <1>4 DEF Work, Check, Claim, Enter, render_tile_gpu, GpuFails, DrawWhole, DrawStopped,
             record_worker_exception, After
  <2>2. outcome.result = "running"
    BY <1>1, <2>1 DEF StopsInv
  <2> QED BY <2>1, <2>2 DEF ReportsWhoDrew
<1> QED BY <1>2, <1>3, <1>4 DEF LoopNext, Progress

-----------------------------------------------------------------------------
(* LoopsInv is an invariant of the shared loops: nothing is held twice,    *)
(* nothing held is drawn, and gaps have a reason.                          *)
THEOREM LoopsInvariant == LoopSpec => []LoopsInv
<1>1. LoopInit => LoopsInv
  BY LoopsStart
<1>2. LoopsInv /\ [LoopNext]_loopVars => LoopsInv'
  <2> SUFFICES ASSUME LoopsInv, [LoopNext]_loopVars PROVE LoopsInv'
    OBVIOUS
  <2>1. RenderLoopsTypeOK'
    BY LoopsTypeStep
  <2>2. CASE LoopNext
    BY <2>1, <2>2, ClaimsStep, StopsStep, TalliesStep, ReportStep DEF LoopsInv
  <2>3. CASE UNCHANGED loopVars
    <3>1. /\ UNCHANGED <<frame, asked, cancelled, next, pc, claim, made, broken, first_error, tiles, outcome>>
          /\ LoopsInv
      BY <2>3 DEF loopVars
    <3>2. /\ \A w : Held(w)' = Held(w) /\ Turn(w)' = Turn(w)
          /\ \A k : Item(k)' = Item(k)
          /\ Excused' <=> Excused
      BY <3>1, ItemsStay DEF Held, Turn, Excused
    <3>3. ClaimsInv' /\ CounterInv'
      BY <3>1, <3>2 DEF LoopsInv, ClaimsInv, CounterInv
    <3>4. StopsInv'
      BY <3>1, <3>2 DEF LoopsInv, StopsInv
    <3>5. TalliesInv' /\ ReportsWhoDrew'
      BY <3>1 DEF LoopsInv, TalliesInv, ReportsWhoDrew, GpuDrawn, CpuDrawn
    <3> QED BY <2>1, <3>3, <3>4, <3>5 DEF LoopsInv
  <2> QED BY <2>2, <2>3
<1> QED BY <1>1, <1>2, PTL DEF LoopSpec

(* A frame that is handed out as complete was drawn by what its engine     *)
(* says, also when the GPU failed halfway (engine_used).                   *)
THEOREM ReportsAreTrue == LoopSpec => []ReportsWhoDrew
<1>1. LoopsInv => ReportsWhoDrew
  BY DEF LoopsInv
<1> QED BY <1>1, LoopsInvariant, PTL

-----------------------------------------------------------------------------
(* The refinement.                                                         *)

drawnBar == [i \in Items |-> Len(made[i])]
resultBar == IF outcome.result # "returned" THEN outcome.result
             ELSE IF \A i \in Items : made[i] # << >> THEN "complete" ELSE "partial"

(* The loops start as the abstract frame does.                             *)
LEMMA FrameStart == LoopInit => AbstractFrame!FrameInit
<1> SUFFICES ASSUME LoopInit PROVE AbstractFrame!FrameInit
  OBVIOUS
<1>1. drawnBar = [i \in Items |-> 0]
  BY DEF LoopInit, drawnBar
<1>2. resultBar = "running"
  BY DEF LoopInit, resultBar
<1> QED BY <1>1, <1>2 DEF LoopInit, AbstractFrame!FrameInit, drawnBar, resultBar

(* An item counts as drawn once or not at all.                             *)
LEMMA DrawnOnce ==
  ASSUME RenderLoopsTypeOK
  PROVE  \A i \in Items : /\ made[i] = << >> => drawnBar[i] = 0
                          /\ made[i] # << >> => drawnBar[i] = 1
<1>1. Len(<< >>) = 0 /\ \A m \in Marks : Len(m) = 1
  BY DEF Marks
<1> QED BY <1>1 DEF drawnBar, RenderLoopsTypeOK

(* A drawing worker draws undrawn parts of the abstract frame.             *)
LEMMA DrawingImplementsDraw ==
  ASSUME LoopsInv, NEW w \in Workers, NEW by, pc[w] \in {"gpu", "draw"}, Drawn(w, by),
         UNCHANGED <<asked, broken, published, outcome>>
  PROVE  AbstractFrame!Draw
<1>1. RenderLoopsTypeOK /\ ClaimsInv /\ pc[w] \in Busy
  BY DEF LoopsInv, Busy
<1>2. outcome.result = "running"
  BY DEF LoopsInv, StopsInv
<1>3. resultBar = "running" /\ resultBar' = "running"
  BY <1>2 DEF resultBar
<1>4. Now(w) \subseteq Items /\ \A i \in Now(w) : made[i] = << >>
  BY <1>1, WhatIsDrawn, WhatIsHeld DEF ClaimsInv
<1>5. Now(w) \in SUBSET {i \in Items : drawnBar[i] = 0}
  BY <1>1, <1>4, DrawnOnce
<1>6. drawnBar' = [i \in Items |-> IF i \in Now(w) THEN 1 ELSE drawnBar[i]]
  <2>1. Len(Append(<< >>, by)) = 1
    OBVIOUS
  <2>2. \A i \in Items : Len(made'[i]) = IF i \in Now(w) THEN 1 ELSE Len(made[i])
    BY <1>4, <2>1 DEF Drawn
  <2> QED BY <2>2 DEF drawnBar
<1> QED BY <1>3, <1>5, <1>6 DEF AbstractFrame!Draw, drawnBar, resultBar

(* The join answers as the abstract frame may: complete only when whole    *)
(* and unbroken, cancelled or partial only when asked, failed only when    *)
(* broken.                                                                 *)
LEMMA JoinImplementsAnswer ==
  ASSUME LoopsInv, Join
  PROVE  AbstractFrame!Answer
<1>1. RenderLoopsTypeOK /\ StopsInv
  BY DEF LoopsInv
<1>2. /\ outcome.result = "running" /\ outcome'.result = Verdict
      /\ UNCHANGED <<made, published, asked, broken>>
      /\ \A w \in Workers : pc[w] = "over"
  BY DEF Join
<1>3. resultBar = "running"
  BY <1>2 DEF resultBar
<1>4. ASSUME ~Excused PROVE /\ \A i \in Items : drawnBar[i] = 1
                            /\ \A i \in Items : made[i] # << >>
  <2>1. \A i \in Items : made[i] \in Marks
    BY <1>2, <1>4, NothingIsLeftOut
  <2>2. << >> \notin Marks
    BY DEF Marks
  <2> QED BY <1>1, <2>1, <2>2, DrawnOnce
<1>5. \/ resultBar' = "complete" /\ (\A i \in Items : drawnBar[i] = 1) /\ ~broken
      \/ resultBar' = "cancelled" /\ asked /\ ~broken
      \/ resultBar' = "partial" /\ asked /\ ~broken
      \/ resultBar' = "failed" /\ broken
  <2>1. CASE Verdict = "complete"
    <3>1. ~Excused
      BY <2>1, CompleteIsNotExcused
    <3>2. ~broken
      <4>1. CASE frame.loop \in Tiled
        <5>1. ~first_error
          BY <2>1, <4>1 DEF Verdict, Tiled
        <5>2. first_error = broken
          BY <1>1 DEF StopsInv
        <5> QED BY <5>1, <5>2
      <4>2. CASE frame.loop \notin Tiled
        BY <1>1, <4>2 DEF StopsInv
      <4> QED BY <4>1, <4>2
    <3>3. resultBar' = "complete"
      BY <1>2, <2>1 DEF resultBar
    <3> QED BY <1>4, <3>1, <3>2, <3>3
  <2>2. CASE Verdict = "cancelled"
    <3>1. cancelled \/ asked
      BY <2>2 DEF Verdict
    <3>2. ~broken
      <4>1. CASE frame.loop \in Tiled
        <5>1. ~first_error
          BY <2>2, <4>1 DEF Verdict, Tiled
        <5>2. first_error = broken
          BY <1>1 DEF StopsInv
        <5> QED BY <5>1, <5>2
      <4>2. CASE frame.loop \notin Tiled
        BY <1>1, <4>2 DEF StopsInv
      <4> QED BY <4>1, <4>2
    <3>3. resultBar' = "cancelled"
      BY <1>2, <2>2 DEF resultBar
    <3> QED BY <1>1, <3>1, <3>2, <3>3 DEF StopsInv
  <2>3. CASE Verdict = "failed"
    <3>1. broken
      BY <1>1, <2>3 DEF Verdict, StopsInv
    <3>2. resultBar' = "failed"
      BY <1>2, <2>3 DEF resultBar
    <3> QED BY <3>1, <3>2
  <2>4. CASE Verdict = "returned"
    <3>1. frame.loop \notin Tiled
      BY <2>4 DEF Verdict
    <3>2. ~broken
      BY <1>1, <3>1 DEF StopsInv
    <3>3. resultBar' = IF \A i \in Items : made[i] # << >> THEN "complete" ELSE "partial"
      BY <1>2, <2>4 DEF resultBar
    <3>4. CASE \A i \in Items : made[i] # << >>
      BY <1>1, <3>2, <3>3, <3>4, DrawnOnce
    <3>5. CASE ~\A i \in Items : made[i] # << >>
      <4>1. Excused
        BY <1>4, <3>5
      <4>2. frame.loop \notin Flagged
        BY <2>4, <3>1 DEF Verdict, Flagged
      <4>3. asked
        BY <4>1, <4>2 DEF Excused
      <4> QED BY <3>2, <3>3, <3>5, <4>3
    <3> QED BY <3>4, <3>5
  <2> QED BY <2>1, <2>2, <2>3, <2>4 DEF Verdict
<1> QED BY <1>2, <1>3, <1>5
    DEF AbstractFrame!Answer, AbstractFrame!Whole, drawnBar, resultBar

(* Announcing items shows drawn parts.                                     *)
LEMMA AfterImplementsShow ==
  ASSUME LoopsInv, NEW w \in Workers, After(w)
  PROVE  AbstractFrame!Show
<1>1. RenderLoopsTypeOK /\ ClaimsInv /\ pc[w] = "after" /\ pc[w] \in Busy
  BY DEF LoopsInv, Busy, After
<1>2. outcome.result = "running"
  BY <1>1 DEF LoopsInv, StopsInv
<1>3. /\ UNCHANGED <<made, asked, broken, outcome>>
      /\ published' = published \cup Announced(w)
  BY DEF After
<1>4. resultBar = "running" /\ resultBar' = resultBar /\ drawnBar' = drawnBar
  BY <1>2, <1>3 DEF resultBar, drawnBar
<1>5. Announced(w) \subseteq Now(w)
  BY DEF Announced
<1>6. Now(w) \subseteq Items /\ \A i \in Now(w) : made[i] # << >>
  BY <1>1, WhatIsDrawn DEF ClaimsInv
<1>7. Announced(w) \ published \in SUBSET ({i \in Items : drawnBar[i] = 1} \ published)
  BY <1>1, <1>5, <1>6, DrawnOnce
<1>8. published' = published \cup (Announced(w) \ published)
  BY <1>3
<1> QED BY <1>3, <1>4, <1>7, <1>8 DEF AbstractFrame!Show, drawnBar, resultBar

(* Every step of the loops is a step of the abstract frame or none.        *)
LEMMA FrameStep ==
  ASSUME LoopsInv, [LoopNext]_loopVars
  PROVE  [AbstractFrame!FrameNext]_(AbstractFrame!frameVars)
<1>1. ASSUME UNCHANGED <<made, published, asked, broken, outcome>>
      PROVE  UNCHANGED AbstractFrame!frameVars
  BY <1>1 DEF AbstractFrame!frameVars
<1>2. CASE Ask
  <2>1. asked' = TRUE /\ UNCHANGED <<made, published, broken, outcome>>
    BY <1>2 DEF Ask
  <2>2. AbstractFrame!GiveUp
    BY <2>1 DEF AbstractFrame!GiveUp
  <2> QED BY <2>2 DEF AbstractFrame!FrameNext
<1>3. CASE Join
  BY <1>3, JoinImplementsAnswer DEF AbstractFrame!FrameNext
<1>4. ASSUME NEW w \in Workers, Work(w)
      PROVE  [AbstractFrame!FrameNext]_(AbstractFrame!frameVars)
  <2>1. CASE Check(w) \/ Claim(w) \/ Enter(w) \/ GpuFails(w) \/ DrawStopped(w)
    BY <1>1, <2>1 DEF Check, Claim, Enter, GpuFails, DrawStopped
  <2>2. CASE render_tile_gpu(w)
    <3>1. pc[w] \in {"gpu", "draw"} /\ Drawn(w, "gpu") /\ UNCHANGED <<asked, broken, published, outcome>>
      BY <2>2 DEF render_tile_gpu
    <3>2. AbstractFrame!Draw
      BY <3>1, DrawingImplementsDraw
    <3> QED BY <3>2 DEF AbstractFrame!FrameNext
  <2>3. CASE DrawWhole(w)
    <3>1. pc[w] \in {"gpu", "draw"} /\ Drawn(w, render_cpu_range)
          /\ UNCHANGED <<asked, broken, published, outcome>>
      BY <2>3 DEF DrawWhole
    <3>2. AbstractFrame!Draw
      BY <3>1, DrawingImplementsDraw
    <3> QED BY <3>2 DEF AbstractFrame!FrameNext
  <2>4. CASE record_worker_exception(w)
    <3>1. pc[w] = "draw" /\ broken' = TRUE /\ UNCHANGED <<made, published, asked, outcome>>
      BY <2>4 DEF record_worker_exception
    <3>2. outcome.result = "running"
      BY <3>1 DEF LoopsInv, StopsInv
    <3>3. AbstractFrame!Break
      BY <3>1, <3>2 DEF AbstractFrame!Break
    <3> QED BY <3>3 DEF AbstractFrame!FrameNext
  <2>5. CASE After(w)
    BY <2>5, AfterImplementsShow DEF AbstractFrame!FrameNext
  <2> QED BY <1>4, <2>1, <2>2, <2>3, <2>4, <2>5 DEF Work
<1>5. CASE UNCHANGED loopVars
  BY <1>1, <1>5 DEF loopVars
<1> QED BY <1>2, <1>3, <1>4, <1>5 DEF LoopNext, Progress

(* Every shared loop implements the abstract frame: each item is drawn at  *)
(* most once and announced only when drawn, "complete" means whole, an     *)
(* incomplete frame reaches only a caller who had asked to stop, and an    *)
(* error is never reported as a cancellation.                              *)
THEOREM LoopsImplementFrame == LoopSpec => ImplementsFrame
<1>1. LoopInit => AbstractFrame!FrameInit
  BY FrameStart
<1>2. LoopsInv /\ [LoopNext]_loopVars => [AbstractFrame!FrameNext]_(AbstractFrame!frameVars)
  BY FrameStep
<1> QED BY <1>1, <1>2, LoopsInvariant, PTL DEF LoopSpec, ImplementsFrame, AbstractFrame!FrameSpec

-----------------------------------------------------------------------------
(* The fixed-point loops that draw a pixel.                                *)
Formats == {Q360, Q459, Q657}
U == 2^frac              \* one
H == 2^(Bits - 1)        \* the first number that is no word

-----------------------------------------------------------------------------
(* Integers.                                                               *)

LEMMA Products ==
  \A a, b \in Int : a * b \in Int /\ a * b = b * a /\ (a >= 0 /\ b >= 0 => a * b >= 0)
  OBVIOUS

LEMMA MultipliesInOrder ==
  \A a, b \in Int, u \in Nat : a <= b => u * a <= u * b
  OBVIOUS

LEMMA DividesInOrder ==
  \A a, b \in Int, u \in Nat \ {0} : u * a < u * b => a < b
  OBVIOUS

(* Integer division rounds down.                                           *)
LEMMA Quotient ==
  \A a \in Int, u \in Nat \ {0} :
    /\ a \div u \in Int /\ u * (a \div u) <= a /\ a < u * (a \div u) + u
    /\ a >= 0 => a \div u >= 0
  OBVIOUS

LEMMA QuotientIs ==
  \A a, q \in Int, u \in Nat \ {0} : u * q <= a /\ a < u * q + u => a \div u = q
  OBVIOUS

LEMMA Remains ==
  \A a \in Int, u \in Nat \ {0} : a % u = a - u * (a \div u) /\ a % u \in Nat /\ a % u < u
  OBVIOUS

LEMMA RemainsIs ==
  \A a, q \in Int, u \in Nat \ {0} : u * q <= a /\ a < u * q + u => a % u = a - u * q
<1> SUFFICES ASSUME NEW a \in Int, NEW q \in Int, NEW u \in Nat \ {0}, u * q <= a, a < u * q + u
             PROVE  a % u = a - u * q
  OBVIOUS
<1>1. a \div u = q
  BY QuotientIs
<1>2. a % u = a - u * (a \div u)
  BY Remains
<1> QED BY <1>1, <1>2

(* A quotient is compared through its multiple.                            *)
LEMMA QuotientAtLeast ==
  \A a, q \in Int, u \in Nat \ {0} : u * q <= a <=> q <= a \div u
<1> SUFFICES ASSUME NEW a \in Int, NEW q \in Int, NEW u \in Nat \ {0}
             PROVE  u * q <= a <=> q <= a \div u
  OBVIOUS
<1> DEFINE d == a \div u
<1>1. d \in Int /\ u * d <= a /\ a < u * d + u
  BY Quotient
<1>2. u * (d + 1) = u * d + u
  BY <1>1
<1> HIDE DEF d
<1>3. ASSUME u * q <= a PROVE q <= d
  <2>1. u * q < u * (d + 1)
    BY <1>1, <1>2, <1>3
  <2> QED BY <1>1, <2>1, DividesInOrder
<1>4. ASSUME q <= d PROVE u * q <= a
  <2>1. u * q <= u * d
    BY <1>1, <1>4, MultipliesInOrder
  <2> QED BY <1>1, <2>1
<1> QED BY <1>3, <1>4 DEF d

-----------------------------------------------------------------------------
(* Widths.                                                                 *)

LEMMA PowersOfTwo ==
  \A n \in 0 .. Bits : 2^n \in Nat \ {0} /\ 2^(n + 1) = 2 * 2^n /\ 4^n = 2^n * 2^n
  BY PowersAssumption

(* How a format divides a word.                                            *)
LEMMA Widths ==
  ASSUME frac \in Formats
  PROVE  /\ frac \in Nat /\ U \in Nat /\ U >= 2 /\ H \in Nat /\ H >= 8 * U
         /\ 2^Bits = 2 * H /\ 4^frac = U * U
         /\ 2^(Bits - frac) \in Nat \ {0} /\ 2^Bits = 2^(Bits - frac) * U
         /\ IMax = H - 1 /\ IMin = -H /\ UMax = 2 * H - 1
<1>1. Bits \in Nat /\ Bits >= 8
  BY BitsAssumption
<1>2. \A n \in 0 .. 8 : 2^(Bits - n) \in Nat \ {0}
  BY <1>1, PowersOfTwo
<1>3. \A n \in 0 .. 7 : 2^(Bits - n) = 2 * 2^(Bits - (n + 1))
  <2> SUFFICES ASSUME NEW n \in 0 .. 7 PROVE 2^(Bits - n) = 2 * 2^(Bits - (n + 1))
    OBVIOUS
  <2>1. Bits - (n + 1) \in 0 .. Bits /\ (Bits - (n + 1)) + 1 = Bits - n
    BY <1>1
  <2> QED BY <2>1, PowersOfTwo
<1>4. PICK p \in [0 .. 8 -> Nat \ {0}] : \A n \in 0 .. 8 : p[n] = 2^(Bits - n)
  <2>1. [n \in 0 .. 8 |-> 2^(Bits - n)] \in [0 .. 8 -> Nat \ {0}]
    BY <1>2
  <2> QED BY <2>1
<1>5. /\ p[0] = 2 * p[1] /\ p[1] = 2 * p[2] /\ p[2] = 2 * p[3] /\ p[3] = 2 * p[4]
      /\ p[4] = 2 * p[5] /\ p[5] = 2 * p[6] /\ p[6] = 2 * p[7] /\ p[7] = 2 * p[8]
  BY <1>3, <1>4
<1>6. 2^Bits = p[0] /\ H = p[1]
  BY <1>1, <1>4 DEF H
<1>7. 2^4 = 16 /\ 2^5 = 32 /\ 2^7 = 128
  OBVIOUS
<1>8. PICK k \in {4, 5, 7} : frac = Bits - k
  BY DEF Formats, Q360, Q459, Q657
<1>9. frac \in 0 .. Bits /\ Bits - frac = k /\ U = p[k]
  BY <1>1, <1>4, <1>8 DEF U
<1>10. 4^frac = U * U
  BY <1>9, PowersOfTwo DEF U
<1>11. U \in Nat /\ U >= 2 /\ H \in Nat /\ H >= 8 * U
  BY <1>4, <1>5, <1>6, <1>8, <1>9
<1>12. 2^(Bits - frac) \in Nat \ {0} /\ 2^Bits = 2^(Bits - frac) * U
  <2>1. 2^(Bits - frac) = 2^k
    BY <1>9
  <2>2. /\ k = 4 => 2^k = 16
        /\ k = 5 => 2^k = 32
        /\ k = 7 => 2^k = 128
    BY <1>7
  <2>3. /\ k = 4 => p[0] = 16 * p[k]
        /\ k = 5 => p[0] = 32 * p[k]
        /\ k = 7 => p[0] = 128 * p[k]
    BY <1>4, <1>5
  <2>4. \E m \in {16, 32, 128} : 2^k = m /\ p[0] = m * p[k]
    BY <1>8, <2>2, <2>3
  <2> QED BY <1>6, <1>9, <2>1, <2>4
<1> QED BY <1>6, <1>5, <1>4, <1>9, <1>10, <1>11, <1>12 DEF IMax, IMin, UMax, H

-----------------------------------------------------------------------------
(* Words.                                                                  *)

LEMMA Wraps ==
  ASSUME frac \in Formats, NEW a \in Int
  PROVE  /\ Wrap(a) \in Words
         /\ a \in Words => Wrap(a) = a
         /\ H <= a /\ a < 3 * H => Wrap(a) = a - 2 * H
         /\ -3 * H <= a /\ a < -H => Wrap(a) = a + 2 * H
<1>1. H \in Nat /\ H > 0 /\ IMin = -H /\ IMax = H - 1 /\ 2^Bits = 2 * H
  BY Widths
<1>2. Wrap(a) = ((a + H) % (2 * H)) - H
  BY <1>1 DEF Wrap
<1>3. PICK h : h = 2 * H
  OBVIOUS
<1>4. h \in Nat \ {0}
  BY <1>1, <1>3
<1>5. (a + H) % h \in 0 .. h - 1
  BY <1>1, <1>4
<1>6. \A q \in {-1, 0, 1} : h * q <= a + H /\ a + H < h * q + h => (a + H) % h = a + H - h * q
  BY <1>1, <1>4, RemainsIs
<1>7. Words = -H .. H - 1
  BY <1>1 DEF Words
<1> QED BY <1>1, <1>2, <1>3, <1>5, <1>6, <1>7

LEMMA Saturates ==
  ASSUME frac \in Formats, NEW a \in 0 .. UMax, NEW b \in 0 .. UMax
  PROVE  add_u64_sat(a, b) = IF a + b > UMax THEN UMax ELSE a + b
<1>1. H \in Nat /\ H > 0 /\ UMax = 2 * H - 1 /\ 2^Bits = 2 * H
  BY Widths
<1>2. PICK h : h = 2 * H
  OBVIOUS
<1>3. h \in Nat \ {0} /\ UMax = h - 1 /\ 2^Bits = h
  BY <1>1, <1>2
<1>4. (a + b) % h = IF a + b >= h THEN a + b - h ELSE a + b
  <2>1. \A q \in {0, 1} : h * q <= a + b /\ a + b < h * q + h => (a + b) % h = a + b - h * q
    BY <1>3, RemainsIs
  <2> QED BY <1>3, <2>1
<1> QED BY <1>3, <1>4 DEF add_u64_sat

LEMMA Magnitudes ==
  \A a \in Int : /\ abs_i64_to_u64(a) \in Nat /\ abs_i64_to_u64(a) * abs_i64_to_u64(a) = a * a
                 /\ a * a \in Nat
  BY DEF abs_i64_to_u64

(* Both squares are the rounded square, or the largest number.             *)
LEMMA CpuSquare ==
  \A a \in Int : fixed_square_q_sat_raw_cpu(a) = SatU((a * a) \div U)
  BY Magnitudes DEF fixed_square_q_sat_raw_cpu, U

LEMMA CudaSquare ==
  ASSUME frac \in Formats, NEW a \in Int
  PROVE  fixed_square_q_sat_raw_cuda(a) = SatU((a * a) \div U)
<1>1. PICK p \in Nat : p = a * a
  BY Magnitudes
<1>2. PICK W : W = 2^Bits
  OBVIOUS
<1>3. PICK V : V = 2^(Bits - frac)
  OBVIOUS
<1>4. U \in Nat \ {0} /\ V \in Nat \ {0} /\ W = V * U /\ W \in Nat \ {0} /\ UMax = W - 1
  BY <1>2, <1>3, Widths
<1>5. PICK hi, lo : hi = p \div W /\ lo = p % W
  OBVIOUS
<1>6. hi \in Nat /\ lo \in Nat /\ lo < W /\ p = W * hi + lo
  <2>1. p \div W \in Nat
    BY <1>1, <1>4, Quotient
  <2>2. p % W = p - W * (p \div W) /\ p % W \in Nat /\ p % W < W
    <3>1. p \in Int /\ W \in Nat \ {0}
      BY <1>1, <1>4
    <3> QED BY ONLY <3>1, Remains
  <2>3. W * hi \in Nat
    BY <1>4, <1>5, <2>1, Products
  <2> QED BY <1>1, <1>4, <1>5, <2>1, <2>2, <2>3
<1>7. fixed_square_q_sat_raw_cuda(a) = IF hi >= U THEN UMax ELSE ((hi * V) % W) + lo \div U
  BY <1>1, <1>2, <1>3, <1>5, Magnitudes DEF fixed_square_q_sat_raw_cuda, U
<1>8. p \div U \in Nat
  BY <1>1, <1>4, Quotient
<1>9. CASE hi >= U
  <2>1. W * U <= W * hi
    BY <1>4, <1>6, <1>9, MultipliesInOrder
  <2>2. U * W <= p
    BY <1>4, <1>6, <2>1, Products
  <2>3. W <= p \div U
    BY <1>1, <1>4, <2>2, QuotientAtLeast
  <2> QED BY <1>1, <1>4, <1>7, <1>8, <1>9, <2>3 DEF SatU
<1>10. CASE hi < U
  <2>1. PICK d : d = lo \div U
    OBVIOUS
  <2>2. d \in Nat /\ U * d <= lo /\ lo < U * d + U
    BY <1>4, <1>6, <2>1, Quotient
  <2>3. V * hi < W /\ V * hi \in Nat
    <3>1. V * (hi + 1) <= V * U
      BY <1>4, <1>6, <1>10, MultipliesInOrder
    <3>2. V * (hi + 1) = V * hi + V
      BY <1>4, <1>6
    <3> QED BY <1>4, <1>6, <3>1, <3>2, Products
  <2>4. (hi * V) % W = V * hi
    BY <1>4, <1>6, <2>3, Products
  <2>5. W * hi = U * (V * hi)
    BY <1>4, <1>6
  <2>6. U * (V * hi + d) = U * (V * hi) + U * d
    BY <1>4, <2>2, <2>3
  <2>7. p \div U = V * hi + d
    BY <1>1, <1>4, <1>6, <2>2, <2>3, <2>5, <2>6, QuotientIs
  <2>8. V * hi + d <= UMax
    <3>1. d < V
      <4>1. U * d < U * V
        BY <1>4, <1>6, <2>2, Products
      <4> QED BY <1>4, <2>2, <4>1, DividesInOrder
    <3>2. V * (hi + 1) <= V * U
      BY <1>4, <1>6, <1>10, MultipliesInOrder
    <3>3. V * (hi + 1) = V * hi + V
      BY <1>4, <1>6
    <3> QED BY <1>4, <1>6, <2>2, <2>3, <3>1, <3>2, <3>3
  <2>9. SatU((a * a) \div U) = p \div U
    BY <1>1, <1>4, <2>2, <2>3, <2>7, <2>8 DEF SatU
  <2> QED BY <1>4, <1>6, <1>7, <1>10, <2>1, <2>4, <2>7, <2>9
<1> QED BY <1>4, <1>6, <1>9, <1>10

-----------------------------------------------------------------------------
(* The escape test.                                                        *)

(* The squares in units of the last place.                                 *)
LEMMA RoundedSquare ==
  ASSUME frac \in Formats, NEW a \in Int
  PROVE  /\ (a * a) \div U \in Nat
         /\ U * ((a * a) \div U) <= a * a /\ a * a < U * ((a * a) \div U) + U
<1>1. a * a \in Nat /\ U \in Nat \ {0}
  BY Widths, Magnitudes
<1> QED BY <1>1, Quotient

(* A component beyond the radius settles it.                               *)
LEMMA FarEscapes ==
  ASSUME frac \in Formats, NEW a \in Int, NEW b \in Int,
         abs_i64_to_u64(a) > 2 * U \/ abs_i64_to_u64(b) > 2 * U
  PROVE  TrulyEscaped(a, b)
<1>1. U \in Nat \ {0}
  BY Widths
<1>2. ASSUME NEW c \in Int, abs_i64_to_u64(c) > 2 * U PROVE (c * c) \div U > 4 * U
  <2>1. PICK m \in Nat : m = abs_i64_to_u64(c) /\ c * c = m * m
    BY Magnitudes
  <2>2. m >= 2 * U + 1
    BY <1>1, <1>2, <2>1
  <2>3. m * (2 * U + 1) <= m * m
    BY <1>1, <2>1, <2>2, MultipliesInOrder
  <2>4. (2 * U + 1) * (2 * U + 1) <= (2 * U + 1) * m
    BY <1>1, <2>1, <2>2, MultipliesInOrder
  <2>5. (2 * U + 1) * (2 * U + 1) <= m * m
    BY <1>1, <2>1, <2>3, <2>4, Products
  <2>6. U * (4 * U + 4) <= (2 * U + 1) * (2 * U + 1)
    BY <1>1
  <2>7. U * (4 * U + 4) <= c * c
    BY <1>1, <2>1, <2>5, <2>6
  <2>8. 4 * U + 4 <= (c * c) \div U
    <3>1. c * c \in Int /\ 4 * U + 4 \in Int
      BY <1>1
    <3> QED BY ONLY <1>1, <3>1, <2>7, QuotientAtLeast
  <2> QED BY <1>1, <2>8, RoundedSquare
<1>3. (a * a) \div U \in Nat /\ (b * b) \div U \in Nat
  BY RoundedSquare
<1> QED BY <1>1, <1>2, <1>3 DEF TrulyEscaped, U

(* A point that has not escaped is within the radius.                      *)
LEMMA NearPoints ==
  ASSUME frac \in Formats, NEW a \in Int, NEW b \in Int, ~TrulyEscaped(a, b)
  PROVE  /\ abs_i64_to_u64(a) <= 2 * U /\ abs_i64_to_u64(b) <= 2 * U
         /\ (a * a) \div U + (b * b) \div U <= 4 * U
<1>1. U \in Nat /\ (a * a) \div U \in Nat /\ (b * b) \div U \in Nat
  BY Widths, RoundedSquare
<1>2. abs_i64_to_u64(a) \in Nat /\ abs_i64_to_u64(b) \in Nat
  BY Magnitudes
<1>3. (a * a) \div U + (b * b) \div U <= 4 * U
  BY <1>1 DEF TrulyEscaped, U
<1> QED BY <1>1, <1>2, <1>3, FarEscapes

(* Saturation hides no escape.                                             *)
LEMMA SquaresDecide ==
  ASSUME frac \in Formats, NEW a \in Int, NEW b \in Int
  PROVE  add_u64_sat(SatU((a * a) \div U), SatU((b * b) \div U)) > bailout2_raw <=> TrulyEscaped(a, b)
<1>1. PICK p \in Nat, q \in Nat : p = (a * a) \div U /\ q = (b * b) \div U
  BY RoundedSquare
<1>2. U \in Nat /\ UMax \in Nat /\ UMax > 4 * U
  BY Widths
<1>3. SatU(p) \in 0 .. UMax /\ SatU(q) \in 0 .. UMax
  BY <1>1, <1>2 DEF SatU
<1>4. PICK x, y : x = SatU(p) /\ y = SatU(q)
  OBVIOUS
<1>5. add_u64_sat(x, y) = IF x + y > UMax THEN UMax ELSE x + y
  BY <1>3, <1>4, Saturates
<1>6. add_u64_sat(x, y) > 4 * U <=> p + q > 4 * U
  BY <1>1, <1>2, <1>3, <1>4, <1>5 DEF SatU
<1> QED BY <1>1, <1>4, <1>6 DEF TrulyEscaped, bailout2_raw, U

LEMMA CpuSquaresDecide ==
  ASSUME frac \in Formats, NEW a \in Int, NEW b \in Int
  PROVE  CpuSquares(a, b) <=> TrulyEscaped(a, b)
BY SquaresDecide, CpuSquare DEF CpuSquares, MagnitudeEscapes, Mag2

LEMMA CudaSquaresDecide ==
  ASSUME frac \in Formats, NEW a \in Int, NEW b \in Int
  PROVE  CudaSquares(a, b) <=> TrulyEscaped(a, b)
BY SquaresDecide, CudaSquare DEF CudaSquares, MagnitudeEscapes, Mag2

(* What the sum of the components says about the squares.                  *)
LEMMA SumsDecide ==
  ASSUME frac = Q360, NEW a \in Int, NEW b \in Int,
         NEW s \in Nat, s = abs_i64_to_u64(a) + abs_i64_to_u64(b)
  PROVE  /\ s > two_sqrt2_floor_raw => TrulyEscaped(a, b)
         /\ s <= 2 * U => ~TrulyEscaped(a, b)
<1>0. frac \in Formats
  BY DEF Formats
<1>1. U \in Nat \ {0} /\ 4^frac = U * U
  BY <1>0, Widths
<1>2. PICK p \in Nat, q \in Nat :
        /\ p = (a * a) \div U /\ q = (b * b) \div U
        /\ U * p <= a * a /\ a * a < U * p + U
        /\ U * q <= b * b /\ b * b < U * q + U
  BY <1>0, RoundedSquare
<1>3. TrulyEscaped(a, b) <=> p + q > 4 * U
  BY <1>2 DEF TrulyEscaped, U
<1>4. PICK x \in Nat, y \in Nat : /\ x = abs_i64_to_u64(a) /\ y = abs_i64_to_u64(b)
                                  /\ a * a = x * x /\ b * b = y * y
  BY Magnitudes
<1>5. U * (p + q) = U * p + U * q
  BY <1>1, <1>2
<1>6. s * s = x * x + y * y + 2 * (x * y) /\ x * y \in Nat /\ 2 * (x * y) <= x * x + y * y
  <2>1. (x - y) * (x - y) >= 0 /\ (x - y) * (x - y) = x * x + y * y - 2 * (x * y)
    BY <1>4
  <2>2. s * s = x * x + y * y + 2 * (x * y)
    BY <1>4
  <2>3. x * y \in Nat /\ x * x \in Nat /\ y * y \in Nat
    BY <1>4, Products
  <2> QED BY <2>1, <2>2, <2>3
<1>7. ASSUME s <= 2 * U PROVE p + q <= 4 * U
  <2>1. s * s <= s * (2 * U) /\ (2 * U) * s <= (2 * U) * (2 * U)
    BY <1>1, <1>7, MultipliesInOrder
  <2>2. (2 * U) * (2 * U) = U * (4 * U) /\ s * (2 * U) = (2 * U) * s
    BY <1>1
  <2>3. s * s <= U * (4 * U)
    BY <1>1, <2>1, <2>2, Products
  <2>4. U * (p + q) <= U * (4 * U)
    BY <1>1, <1>2, <1>4, <1>5, <1>6, <2>3, Products
  <2>5. U * (p + q) < U * (4 * U + 1)
    BY <1>1, <1>2, <2>4
  <2>6. p + q < 4 * U + 1
    BY <1>1, <1>2, <2>5, DividesInOrder
  <2> QED BY <1>1, <1>2, <2>6
<1>8. ASSUME s > two_sqrt2_floor_raw PROVE p + q > 4 * U
  <2>1. PICK n \in Nat : n = two_sqrt2_floor_raw /\ (n + 1) * (n + 1) >= 8 * (U * U) + 4 * U
    BY <1>1, GateAssumption DEF two_sqrt2_floor_raw, U
  <2>2. (n + 1) * (n + 1) <= (n + 1) * s /\ s * (n + 1) <= s * s
    BY <1>8, <2>1, MultipliesInOrder
  <2>3. (n + 1) * s = s * (n + 1)
    BY <2>1
  <2>4. 8 * (U * U) + 4 * U <= s * s
    BY <1>1, <2>1, <2>2, <2>3, Products
  <2>5. 4 * (U * U) + 2 * U <= a * a + b * b
    BY <1>1, <1>4, <1>6, <2>4, Products
  <2>6. U * (p + q + 2) = U * p + U + U * q + U
    BY <1>1, <1>2
  <2>7. U * (4 * U + 2) = 4 * (U * U) + 2 * U
    BY <1>1
  <2>8. U * (4 * U + 2) < U * (p + q + 2)
    BY <1>1, <1>2, <2>5, <2>6, <2>7, Products
  <2>9. 4 * U + 2 < p + q + 2
    BY <1>1, <1>2, <2>8, DividesInOrder
  <2> QED BY <1>1, <1>2, <2>9
<1> QED BY <1>1, <1>2, <1>3, <1>7, <1>8

(* The gates of the three formats change no decision.                      *)
LEMMA GateDecides ==
  ASSUME frac \in Formats, NEW a \in Words, NEW b \in Words, NEW mag2,
         mag2 > bailout2_raw <=> TrulyEscaped(a, b)
  PROVE  LET ax == abs_i64_to_u64(a)
             ay == abs_i64_to_u64(b)
             l1 == add_u64_sat(ax, ay)
             far == ax > two_raw \/ ay > two_raw
         IN (CASE frac = Q657 -> mag2 > bailout2_raw
               [] frac = Q459 -> far \/ mag2 > bailout2_raw
               [] frac = Q360 -> \/ far \/ l1 > two_sqrt2_floor_raw
                                 \/ l1 > two_raw /\ mag2 > bailout2_raw)
            <=> TrulyEscaped(a, b)
<1>1. H \in Nat /\ IMin = -H /\ IMax = H - 1 /\ UMax = 2 * H - 1 /\ U \in Nat /\ H >= 8 * U /\ U >= 2
  BY Widths
<1>2. a \in Int /\ b \in Int /\ two_raw = 2 * U
  BY <1>1 DEF Words, two_raw, U
<1>3. PICK ax \in Nat, ay \in Nat : ax = abs_i64_to_u64(a) /\ ay = abs_i64_to_u64(b)
  BY <1>2, Magnitudes
<1>4. PICK l1 : l1 = add_u64_sat(ax, ay)
  OBVIOUS
<1>5. Q657 # Q459 /\ Q657 # Q360 /\ Q459 # Q360
  BY BitsAssumption DEF Q657, Q459, Q360
<1>6. ax > two_raw \/ ay > two_raw => TrulyEscaped(a, b)
  BY <1>2, <1>3, FarEscapes
<1>7. ASSUME frac = Q360, ax <= two_raw, ay <= two_raw
      PROVE  l1 > two_sqrt2_floor_raw \/ (l1 > two_raw /\ mag2 > bailout2_raw) <=> TrulyEscaped(a, b)
  <2>1. ax \in 0 .. UMax /\ ay \in 0 .. UMax /\ ax + ay <= UMax
    BY <1>1, <1>2, <1>3, <1>7
  <2>2. l1 = ax + ay
    <3>1. add_u64_sat(ax, ay) = IF ax + ay > UMax THEN UMax ELSE ax + ay
      BY <2>1, Saturates
    <3>2. ~(ax + ay > UMax)
      BY <1>1, <2>1
    <3> QED BY <1>4, <3>1, <3>2
  <2>3. /\ l1 > two_sqrt2_floor_raw => TrulyEscaped(a, b)
        /\ l1 <= 2 * U => ~TrulyEscaped(a, b)
    BY <1>2, <1>3, <1>7, <2>2, SumsDecide
  <2> QED BY <1>1, <1>2, <1>3, <2>2, <2>3
<1>8. CASE frac = Q657
  BY <1>5, <1>8
<1>9. CASE frac = Q459
  BY <1>3, <1>5, <1>6, <1>9
<1>10. CASE frac = Q360
  BY <1>1, <1>2, <1>3, <1>4, <1>5, <1>6, <1>7, <1>10
<1> QED BY <1>8, <1>9, <1>10 DEF Formats

LEMMA CpuGateDecides ==
  ASSUME frac \in Formats, NEW a \in Words, NEW b \in Words
  PROVE  CpuGate(a, b) <=> TrulyEscaped(a, b)
<1>1. a \in Int /\ b \in Int
  BY Widths DEF Words
<1>2. Mag2(fixed_square_q_sat_raw_cpu, a, b) > bailout2_raw <=> TrulyEscaped(a, b)
  BY <1>1, CpuSquaresDecide DEF CpuSquares, MagnitudeEscapes
<1> QED BY <1>2, GateDecides DEF CpuGate, GateEscapes

LEMMA CudaGateDecides ==
  ASSUME frac \in Formats, NEW a \in Words, NEW b \in Words
  PROVE  CudaGate(a, b) <=> TrulyEscaped(a, b)
<1>1. a \in Int /\ b \in Int
  BY Widths DEF Words
<1>2. Mag2(fixed_square_q_sat_raw_cuda, a, b) > bailout2_raw <=> TrulyEscaped(a, b)
  BY <1>1, CudaSquaresDecide DEF CudaSquares, MagnitudeEscapes
<1> QED BY <1>2, GateDecides DEF CudaGate, GateEscapes

-----------------------------------------------------------------------------
(* One step.                                                               *)

Signs == {"+", "-", "|"}
Folding == [1 .. 4 -> Signs]

(* The step in unbounded integers, f being what the variant folds.         *)
StepRe(f, x, y, c) == Plain(f[3], (x * x) \div 2^frac - (y * y) \div 2^frac) + c
StepIm(f, x, y, c) == Plain(f[4], (2 * (Plain(f[1], x) * Plain(f[2], y))) \div 2^frac) + c
StepImCuda(f, x, y, c) == Plain(f[4], 2 * Quo(Plain(f[1], x) * Plain(f[2], y), 2^frac)) + c

LEMMA Foldings ==
  /\ \A v \in 0 .. 9 : step_fixed[v + 1] \in Folding
  /\ step_fixed_cuda = step_fixed /\ d_step_fixed_cached = step_fixed
<1>1. step_fixed_cuda = step_fixed /\ d_step_fixed_cached = step_fixed
  BY DEF step_fixed, step_fixed_cuda, d_step_fixed_cached
<1>2. ASSUME NEW v \in 0 .. 9 PROVE step_fixed[v + 1] \in Folding
  <2>1. \A a, b, c, d \in Signs : <<a, b, c, d>> \in Folding
    BY DEF Folding
  <2>2. v \in {0, 1, 2, 3, 4, 5, 6, 7, 8, 9}
    OBVIOUS
  <2>3. /\ step_fixed[1] \in Folding /\ step_fixed[2] \in Folding /\ step_fixed[3] \in Folding
        /\ step_fixed[4] \in Folding /\ step_fixed[5] \in Folding /\ step_fixed[6] \in Folding
        /\ step_fixed[7] \in Folding /\ step_fixed[8] \in Folding /\ step_fixed[9] \in Folding
        /\ step_fixed[10] \in Folding
    BY <2>1 DEF step_fixed, Signs
  <2> QED BY <2>2, <2>3
<1> QED BY <1>1, <1>2

LEMMA PlainKeepsMagnitude ==
  ASSUME NEW s \in Signs, NEW a \in Int
  PROVE  Plain(s, a) \in Int /\ abs_i64_to_u64(Plain(s, a)) = abs_i64_to_u64(a)
  BY DEF Signs, Plain, abs_i64_to_u64

LEMMA FoldIsPlain ==
  ASSUME NEW s \in Signs, NEW a \in Int, a # IMin
  PROVE  FxFold(s, a) = Plain(s, a)
  BY DEF Signs, Plain, FxFold, FxNeg, scalar_abs, abs_i64_to_u64

(* What the wrapped sum of a small number and a word has to do with the    *)
(* sum: it is the sum, or both are beyond the radius.                      *)
LEMMA WrappedSum ==
  ASSUME frac \in Formats, NEW c \in Words, NEW d \in Int, abs_i64_to_u64(d) <= 4 * U + 2
  PROVE  /\ Wrap(d + c) \in Words
         /\ \/ Wrap(d + c) = d + c
            \/ abs_i64_to_u64(d + c) > 2 * U /\ abs_i64_to_u64(Wrap(d + c)) > 2 * U
<1>1. H \in Nat /\ IMin = -H /\ IMax = H - 1 /\ U \in Nat /\ H >= 8 * U /\ U >= 2
  BY Widths
<1>2. c \in -H .. H - 1 /\ d \in -(4 * U + 2) .. 4 * U + 2 /\ d + c \in Int
  BY <1>1 DEF Words, abs_i64_to_u64
<1>3. PICK a \in Int : a = d + c
  BY <1>2
<1>4. /\ Wrap(a) \in Words
      /\ a \in Words => Wrap(a) = a
      /\ H <= a /\ a < 3 * H => Wrap(a) = a - 2 * H
      /\ -3 * H <= a /\ a < -H => Wrap(a) = a + 2 * H
  BY <1>3, Wraps
<1>5. CASE a \in Words
  BY <1>3, <1>4, <1>5
<1>6. CASE H <= a
  <2>1. Wrap(a) = a - 2 * H
    BY <1>1, <1>2, <1>3, <1>4, <1>6
  <2> QED BY <1>1, <1>2, <1>3, <1>4, <1>6, <2>1 DEF abs_i64_to_u64
<1>7. CASE a < -H
  <2>1. Wrap(a) = a + 2 * H
    BY <1>1, <1>2, <1>3, <1>4, <1>7
  <2> QED BY <1>1, <1>2, <1>3, <1>4, <1>7, <2>1 DEF abs_i64_to_u64
<1> QED BY <1>1, <1>3, <1>5, <1>6, <1>7 DEF Words

LEMMA WrappingDecides ==
  ASSUME frac \in Formats, NEW c \in Words, NEW e \in Words, NEW d \in Int, NEW g \in Int,
         abs_i64_to_u64(d) <= 4 * U + 2, abs_i64_to_u64(g) <= 4 * U + 2
  PROVE  /\ TrulyEscaped(Wrap(d + c), Wrap(g + e)) <=> TrulyEscaped(d + c, g + e)
         /\ ~TrulyEscaped(d + c, g + e) => Wrap(d + c) = d + c /\ Wrap(g + e) = g + e
<1>1. c \in Int /\ e \in Int /\ d + c \in Int /\ g + e \in Int
  BY Widths DEF Words
<1>2. Wrap(d + c) \in Int /\ Wrap(g + e) \in Int
  BY WrappedSum, Widths DEF Words
<1>3. CASE Wrap(d + c) = d + c /\ Wrap(g + e) = g + e
  BY <1>3
<1>4. CASE Wrap(d + c) # d + c
  <2>1. abs_i64_to_u64(d + c) > 2 * U /\ abs_i64_to_u64(Wrap(d + c)) > 2 * U
    BY <1>4, WrappedSum
  <2> QED BY <1>1, <1>2, <2>1, FarEscapes
<1>5. CASE Wrap(g + e) # g + e
  <2>1. abs_i64_to_u64(g + e) > 2 * U /\ abs_i64_to_u64(Wrap(g + e)) > 2 * U
    BY <1>5, WrappedSum
  <2> QED BY <1>1, <1>2, <2>1, FarEscapes
<1> QED BY <1>3, <1>4, <1>5

LEMMA SignOfProduct ==
  ASSUME NEW P \in Int, NEW Q \in Int
  PROVE  LET m == abs_i64_to_u64(P) * abs_i64_to_u64(Q)
         IN /\ m \in Nat
            /\ (P < 0) # (Q < 0) => P * Q = -m
            /\ (P < 0) = (Q < 0) => P * Q = m
<1>2. PICK a \in Nat, b \in Nat : a = abs_i64_to_u64(P) /\ b = abs_i64_to_u64(Q)
  BY Magnitudes
<1>3. PICK m \in Nat : m = a * b
  BY <1>2, Products
<1>4. /\ (P < 0) # (Q < 0) => P * Q = -m
      /\ (P < 0) = (Q < 0) => P * Q = m
  <2>1. CASE P < 0 /\ Q < 0
    BY <1>2, <1>3, <2>1 DEF abs_i64_to_u64
  <2>2. CASE P < 0 /\ ~(Q < 0)
    <3>1. P = -a /\ Q = b
      BY <1>2, <2>2 DEF abs_i64_to_u64
    <3> QED BY <1>2, <1>3, <2>2, <3>1
  <2>3. CASE ~(P < 0) /\ Q < 0
    <3>1. P = a /\ Q = -b
      BY <1>2, <2>3 DEF abs_i64_to_u64
    <3> QED BY <1>2, <1>3, <2>3, <3>1
  <2>4. CASE ~(P < 0) /\ ~(Q < 0)
    BY <1>2, <1>3, <2>4 DEF abs_i64_to_u64
  <2> QED BY <2>1, <2>2, <2>3, <2>4
<1> QED BY <1>2, <1>3, <1>4

(* The mixed product of a point within the radius is small, so neither     *)
(* backend saturates or wraps it.                                          *)
LEMMA MixedIsSmall ==
  ASSUME frac \in Formats, NEW x \in Int, NEW y \in Int, ~TrulyEscaped(x, y),
         NEW P \in Int, NEW Q \in Int,
         abs_i64_to_u64(P) = abs_i64_to_u64(x), abs_i64_to_u64(Q) = abs_i64_to_u64(y)
  PROVE  2 * abs_i64_to_u64(P * Q) < U * (4 * U + 2)
<1>1. PICK a \in Nat, b \in Nat : /\ a = abs_i64_to_u64(P) /\ b = abs_i64_to_u64(Q)
                                  /\ x * x = a * a /\ y * y = b * b
  BY Magnitudes
<1>2. U \in Nat \ {0}
  BY Widths
<1>3. PICK p \in Nat, q \in Nat : /\ p = (x * x) \div U /\ q = (y * y) \div U
                                  /\ x * x < U * p + U /\ y * y < U * q + U
  BY RoundedSquare
<1>4. p + q <= 4 * U
  BY <1>3, NearPoints
<1>5. abs_i64_to_u64(P * Q) = a * b
  <2>1. a * b \in Nat /\ (P * Q = a * b \/ P * Q = -(a * b))
    BY <1>1, SignOfProduct
  <2> QED BY <2>1 DEF abs_i64_to_u64
<1>6. 2 * (a * b) <= a * a + b * b
  <2>1. (a - b) * (a - b) >= 0 /\ (a - b) * (a - b) = a * a + b * b - 2 * (a * b)
    BY <1>1
  <2>2. a * b \in Nat /\ a * a \in Nat /\ b * b \in Nat
    BY <1>1, Products
  <2> QED BY <2>1, <2>2
<1>7. U * (p + q + 2) <= U * (4 * U + 2)
  BY <1>2, <1>3, <1>4, MultipliesInOrder
<1>8. U * (p + q + 2) = U * p + U + U * q + U
  BY <1>2, <1>3
<1>9. a * b \in Nat /\ a * a \in Nat /\ b * b \in Nat
  BY <1>1, Products
<1>10. a * a + b * b < U * (p + q + 2)
  <2>1. PICK up \in Int, uq \in Int : up = U * p /\ uq = U * q
    BY <1>2, <1>3
  <2>2. a * a < up + U /\ b * b < uq + U /\ U * (p + q + 2) = up + U + uq + U
    BY <1>1, <1>3, <1>8, <2>1
  <2> QED BY <1>2, <1>9, <2>1, <2>2
<1>11. a * a + b * b \in Int /\ U * (p + q + 2) \in Int /\ U * (4 * U + 2) \in Int /\ 2 * (a * b) \in Int
  BY <1>2, <1>3, <1>9
<1> QED BY ONLY <1>5, <1>6, <1>7, <1>10, <1>11

LEMMA CpuProduct ==
  ASSUME frac \in Formats, NEW P \in Int, NEW Q \in Int,
         abs_i64_to_u64(P) <= 2 * U, 2 * abs_i64_to_u64(P * Q) < U * (4 * U + 2)
  PROVE  /\ FxMul(FxMul(2 * 2^frac, P), Q) = (2 * (P * Q)) \div U
         /\ (2 * (P * Q)) \div U \in Int
         /\ abs_i64_to_u64((2 * (P * Q)) \div U) <= 4 * U + 2
<1>1. U \in Nat \ {0} /\ U >= 2 /\ H \in Nat /\ H >= 8 * U /\ IMax = H - 1 /\ IMin = -H
  BY Widths
<1>2. (2 * U * P) \div U = 2 * P
  <2>1. 2 * P \in Int /\ 2 * U * P \in Int /\ U * (2 * P) = 2 * U * P
    BY <1>1
  <2> QED BY <1>1, <2>1, QuotientIs
<1>3. FxMul(2 * 2^frac, P) = 2 * P
  <2>1. SatI(2 * P) = 2 * P
    BY <1>1 DEF SatI, abs_i64_to_u64
  <2> QED BY <1>2, <2>1 DEF FxMul, U
<1>4. PICK m \in Int : m = P * Q
  BY Products
<1>5. 2 * P * Q = 2 * m
  BY <1>4
<1>6. PICK q : q = (2 * m) \div U
  OBVIOUS
<1>7. q \in Int /\ U * q <= 2 * m /\ 2 * m < U * q + U
  <2>1. 2 * m \in Int
    OBVIOUS
  <2> QED BY <1>1, <1>6, <2>1, Quotient
<1>8. PICK k \in Int : k = U * (4 * U + 2)
  BY <1>1
<1>9. -k < 2 * m /\ 2 * m < k
  BY <1>1, <1>4, <1>8 DEF abs_i64_to_u64
<1>10. q < 4 * U + 2
  <2>1. U * q < U * (4 * U + 2)
    BY <1>1, <1>7, <1>8, <1>9
  <2> QED BY <1>1, <1>7, <2>1, DividesInOrder
<1>11. -(4 * U + 2) <= q
  <2>1. U * (-(4 * U + 2)) < U * (q + 1)
    <3>1. U * (-(4 * U + 2)) = -k /\ U * (q + 1) = U * q + U
      BY <1>1, <1>7, <1>8
    <3> QED BY <1>1, <1>7, <1>9, <3>1
  <2>2. -(4 * U + 2) < q + 1
    BY <1>1, <1>7, <2>1, DividesInOrder
  <2> QED BY <1>1, <1>7, <2>2
<1>12. SatI(q) = q
  BY <1>1, <1>7, <1>10, <1>11 DEF SatI
<1>13. abs_i64_to_u64(q) <= 4 * U + 2
  BY <1>1, <1>7, <1>10, <1>11 DEF abs_i64_to_u64
<1>14. FxMul(2 * P, Q) = q
  BY <1>5, <1>6, <1>12 DEF FxMul, U
<1> QED BY <1>3, <1>4, <1>6, <1>7, <1>13, <1>14

LEMMA CudaProduct ==
  ASSUME frac \in Formats, NEW P \in Int, NEW Q \in Int,
         2 * abs_i64_to_u64(P * Q) < U * (4 * U + 2)
  PROVE  /\ FxMulCuda(P, Q) = Quo(P * Q, U)
         /\ Quo(P * Q, U) \in Int /\ abs_i64_to_u64(Quo(P * Q, U)) <= 2 * U
<1>1. U \in Nat \ {0} /\ U >= 2 /\ H \in Nat /\ H >= 8 * U /\ IMax = H - 1 /\ IMin = -H /\ 2^Bits = 2 * H
  BY Widths
<1>2. PICK a \in Nat, b \in Nat : a = abs_i64_to_u64(P) /\ b = abs_i64_to_u64(Q)
  BY Magnitudes
<1>3. PICK m \in Nat : m = a * b
  BY <1>2, Products
<1>4. /\ (P < 0) # (Q < 0) => P * Q = -m
      /\ (P < 0) = (Q < 0) => P * Q = m
  BY <1>2, <1>3, SignOfProduct
<1>5. abs_i64_to_u64(P * Q) = m
  BY <1>3, <1>4 DEF abs_i64_to_u64
<1>6. PICK k : k = m \div U
  OBVIOUS
<1>7. k \in Nat /\ U * k <= m
  BY <1>1, <1>3, <1>6, Quotient
<1>8. k <= 2 * U
  <2>1. 2 * m < U * (4 * U + 2)
    BY <1>5
  <2>2. U * (4 * U + 2) = 2 * (U * (2 * U + 1))
    BY <1>1
  <2>3. U * k < U * (2 * U + 1)
    BY <1>1, <1>3, <1>7, <2>1, <2>2, Products
  <2>4. k < 2 * U + 1
    BY <1>1, <1>7, <2>3, DividesInOrder
  <2> QED BY <1>1, <1>7, <2>4
<1>9. k % 2^Bits = k
  <2>1. PICK h \in Nat \ {0} : h = 2^Bits /\ k < h
    BY <1>1, <1>7, <1>8
  <2> QED BY <1>7, <2>1
<1>10. Wrap(k) = k /\ Wrap(-k) = -k
  <2>1. k \in Words /\ -k \in Words
    BY <1>1, <1>7, <1>8 DEF Words
  <2> QED BY <1>7, <2>1, Wraps
<1>11. FxMulCuda(P, Q) = IF (P < 0) # (Q < 0) THEN -k ELSE k
  BY <1>2, <1>3, <1>6, <1>9, <1>10 DEF FxMulCuda, U
<1>12. Quo(-m, U) = -k /\ Quo(m, U) = k
  <2>1. 0 \div U = 0
    BY <1>1
  <2> QED BY <1>1, <1>3, <1>6, <2>1 DEF Quo
<1>13. FxMulCuda(P, Q) = Quo(P * Q, U)
  BY <1>4, <1>11, <1>12
<1>14. Quo(P * Q, U) \in {k, -k}
  BY <1>4, <1>12
<1> QED BY <1>1, <1>7, <1>8, <1>13, <1>14 DEF abs_i64_to_u64

(* The squares of a point within the radius survive saturation, and their  *)
(* difference is small.                                                    *)
LEMMA SquaresOfNearPoint ==
  ASSUME frac \in Formats, NEW x \in Int, NEW y \in Int, ~TrulyEscaped(x, y), NEW s \in Signs
  PROVE  LET p == (x * x) \div U
             q == (y * y) \div U
             d == Plain(s, p - q)
         IN /\ u64_to_i64_sat(SatU(p)) = p /\ u64_to_i64_sat(SatU(q)) = q
            /\ FxFold(s, FxAdd(p, -q)) = d
            /\ d \in Int /\ abs_i64_to_u64(d) <= 4 * U
<1>1. U \in Nat /\ U >= 2 /\ H \in Nat /\ H >= 8 * U /\ IMax = H - 1 /\ IMin = -H /\ UMax = 2 * H - 1
  BY Widths
<1>2. PICK p \in Nat, q \in Nat : p = (x * x) \div U /\ q = (y * y) \div U
  BY RoundedSquare
<1>3. p + q <= 4 * U
  BY <1>2, NearPoints
<1>4. u64_to_i64_sat(SatU(p)) = p /\ u64_to_i64_sat(SatU(q)) = q
  BY <1>1, <1>2, <1>3 DEF u64_to_i64_sat, SatU
<1>5. p - q \in Words /\ p - q # IMin
  BY <1>1, <1>3 DEF Words
<1>6. FxAdd(p, -q) = p - q
  <2>1. p + (-q) = p - q
    OBVIOUS
  <2>2. Wrap(p - q) = p - q
    BY <1>5, Wraps
  <2> QED BY <2>1, <2>2 DEF FxAdd
<1>7. FxFold(s, p - q) = Plain(s, p - q)
  BY <1>5, FoldIsPlain
<1>8. Plain(s, p - q) \in Int /\ abs_i64_to_u64(Plain(s, p - q)) = abs_i64_to_u64(p - q)
  BY PlainKeepsMagnitude
<1>9. abs_i64_to_u64(p - q) <= 4 * U
  BY <1>1, <1>3 DEF abs_i64_to_u64
<1> QED BY <1>2, <1>4, <1>6, <1>7, <1>8, <1>9

LEMMA NearFolds ==
  ASSUME frac \in Formats, NEW x \in Int, abs_i64_to_u64(x) <= 4 * U + 2, NEW s \in Signs
  PROVE  FxFold(s, x) = Plain(s, x)
<1>1. U \in Nat /\ U >= 2 /\ H \in Nat /\ H >= 8 * U /\ IMin = -H
  BY Widths
<1>2. x # IMin
  BY <1>1 DEF abs_i64_to_u64
<1> QED BY <1>2, FoldIsPlain

(* A step of either backend is the wrapped step in unbounded integers, of  *)
(* small numbers to which c is added.                                      *)
LEMMA CpuStep ==
  ASSUME frac \in Formats, NEW v \in 0 .. 9, NEW x \in Int, NEW y \in Int, ~TrulyEscaped(x, y),
         NEW cx, NEW cy
  PROVE  \E d, g \in Int :
           /\ abs_i64_to_u64(d) <= 4 * U + 2 /\ abs_i64_to_u64(g) <= 4 * U + 2
           /\ StepRe(step_fixed[v + 1], x, y, cx) = d + cx
           /\ StepIm(step_fixed[v + 1], x, y, cy) = g + cy
           /\ CpuNext(v, x, y, cx, cy) = <<Wrap(d + cx), Wrap(g + cy)>>
<1>1. PICK f : f = step_fixed[v + 1] /\ f[1] \in Signs /\ f[2] \in Signs /\ f[3] \in Signs /\ f[4] \in Signs
  BY Foldings DEF Folding
<1>2. U \in Nat
  BY Widths
<1>3. abs_i64_to_u64(x) <= 2 * U /\ abs_i64_to_u64(y) <= 2 * U /\ abs_i64_to_u64(x) \in Nat /\ abs_i64_to_u64(y) \in Nat
  BY NearPoints, Magnitudes
<1>4. PICK d \in Int : /\ d = Plain(f[3], (x * x) \div U - (y * y) \div U) /\ abs_i64_to_u64(d) <= 4 * U
                       /\ d = FxFold(f[3], FxAdd(u64_to_i64_sat(fixed_square_q_sat_raw_cpu(x)),
                                                 -u64_to_i64_sat(fixed_square_q_sat_raw_cpu(y))))
  <2>1. PICK s \in Signs : s = f[3]
    BY <1>1
  <2>2. PICK p, q : p = (x * x) \div U /\ q = (y * y) \div U
    OBVIOUS
  <2>3. /\ fixed_square_q_sat_raw_cpu(x) = SatU(p) /\ fixed_square_q_sat_raw_cpu(y) = SatU(q)
    BY <2>2, CpuSquare
  <2>4. /\ u64_to_i64_sat(SatU(p)) = p /\ u64_to_i64_sat(SatU(q)) = q
        /\ FxFold(s, FxAdd(p, -q)) = Plain(s, p - q)
        /\ Plain(s, p - q) \in Int /\ abs_i64_to_u64(Plain(s, p - q)) <= 4 * U
    BY <2>2, SquaresOfNearPoint
  <2> QED BY <2>1, <2>2, <2>3, <2>4
<1>5. PICK P \in Int, Q \in Int : /\ P = Plain(f[1], x) /\ Q = Plain(f[2], y)
                                  /\ abs_i64_to_u64(P) = abs_i64_to_u64(x)
                                  /\ abs_i64_to_u64(Q) = abs_i64_to_u64(y)
  <2>1. Plain(f[1], x) \in Int /\ abs_i64_to_u64(Plain(f[1], x)) = abs_i64_to_u64(x)
    BY <1>1, PlainKeepsMagnitude
  <2>2. Plain(f[2], y) \in Int /\ abs_i64_to_u64(Plain(f[2], y)) = abs_i64_to_u64(y)
    BY <1>1, PlainKeepsMagnitude
  <2> QED BY <2>1, <2>2
<1>6. FxFold(f[1], x) = P /\ FxFold(f[2], y) = Q
  BY <1>1, <1>2, <1>3, <1>5, NearFolds
<1>7. 2 * abs_i64_to_u64(P * Q) < U * (4 * U + 2)
  BY <1>5, MixedIsSmall
<1>8. PICK e \in Int : /\ e = (2 * (P * Q)) \div U /\ abs_i64_to_u64(e) <= 4 * U + 2
                       /\ FxMul(FxMul(2 * 2^frac, P), Q) = e
  BY <1>2, <1>3, <1>5, <1>7, CpuProduct
<1>9. PICK g \in Int : g = Plain(f[4], e) /\ abs_i64_to_u64(g) <= 4 * U + 2 /\ g = FxFold(f[4], e)
  BY <1>1, <1>8, PlainKeepsMagnitude, NearFolds
<1>10. CpuNext(v, x, y, cx, cy) = <<Wrap(d + cx), Wrap(g + cy)>>
  BY <1>1, <1>4, <1>6, <1>8, <1>9 DEF CpuNext, FxAdd
<1>11. StepRe(f, x, y, cx) = d + cx /\ StepIm(f, x, y, cy) = g + cy
  BY <1>4, <1>5, <1>8, <1>9 DEF StepRe, StepIm, U
<1>12. abs_i64_to_u64(d) <= 4 * U + 2
  BY <1>2, <1>4, Magnitudes
<1> QED BY <1>1, <1>9, <1>10, <1>11, <1>12

LEMMA CudaStep ==
  ASSUME frac \in Formats, NEW v \in 0 .. 9, NEW x \in Int, NEW y \in Int, ~TrulyEscaped(x, y),
         NEW cx, NEW cy
  PROVE  \E d, g \in Int :
           /\ abs_i64_to_u64(d) <= 4 * U + 2 /\ abs_i64_to_u64(g) <= 4 * U + 2
           /\ StepRe(step_fixed[v + 1], x, y, cx) = d + cx
           /\ StepImCuda(step_fixed[v + 1], x, y, cy) = g + cy
           /\ CudaNext(v, x, y, cx, cy) = <<Wrap(d + cx), Wrap(g + cy)>>
           /\ LnCudaNext(v, x, y, cx, cy) = CudaNext(v, x, y, cx, cy)
<1>1. PICK f : f = step_fixed[v + 1] /\ f[1] \in Signs /\ f[2] \in Signs /\ f[3] \in Signs /\ f[4] \in Signs
  BY Foldings DEF Folding
<1>2. U \in Nat /\ U >= 2 /\ H \in Nat /\ H >= 8 * U /\ IMax = H - 1 /\ IMin = -H
  BY Widths
<1>3. abs_i64_to_u64(x) <= 2 * U /\ abs_i64_to_u64(y) <= 2 * U /\ abs_i64_to_u64(x) \in Nat /\ abs_i64_to_u64(y) \in Nat
  BY NearPoints, Magnitudes
<1>4. PICK d \in Int : /\ d = Plain(f[3], (x * x) \div U - (y * y) \div U) /\ abs_i64_to_u64(d) <= 4 * U
                       /\ d = FxFold(f[3], FxAdd(u64_to_i64_sat(fixed_square_q_sat_raw_cuda(x)),
                                                 -u64_to_i64_sat(fixed_square_q_sat_raw_cuda(y))))
  <2>1. PICK s \in Signs : s = f[3]
    BY <1>1
  <2>2. PICK p, q : p = (x * x) \div U /\ q = (y * y) \div U
    OBVIOUS
  <2>3. /\ fixed_square_q_sat_raw_cuda(x) = SatU(p) /\ fixed_square_q_sat_raw_cuda(y) = SatU(q)
    BY <2>2, CudaSquare
  <2>4. /\ u64_to_i64_sat(SatU(p)) = p /\ u64_to_i64_sat(SatU(q)) = q
        /\ FxFold(s, FxAdd(p, -q)) = Plain(s, p - q)
        /\ Plain(s, p - q) \in Int /\ abs_i64_to_u64(Plain(s, p - q)) <= 4 * U
    BY <2>2, SquaresOfNearPoint
  <2> QED BY <2>1, <2>2, <2>3, <2>4
<1>5. PICK P \in Int, Q \in Int : /\ P = Plain(f[1], x) /\ Q = Plain(f[2], y)
                                  /\ abs_i64_to_u64(P) = abs_i64_to_u64(x)
                                  /\ abs_i64_to_u64(Q) = abs_i64_to_u64(y)
  <2>1. Plain(f[1], x) \in Int /\ abs_i64_to_u64(Plain(f[1], x)) = abs_i64_to_u64(x)
    BY <1>1, PlainKeepsMagnitude
  <2>2. Plain(f[2], y) \in Int /\ abs_i64_to_u64(Plain(f[2], y)) = abs_i64_to_u64(y)
    BY <1>1, PlainKeepsMagnitude
  <2> QED BY <2>1, <2>2
<1>6. FxFold(f[1], x) = P /\ FxFold(f[2], y) = Q
  BY <1>1, <1>2, <1>3, <1>5, NearFolds
<1>7. 2 * abs_i64_to_u64(P * Q) < U * (4 * U + 2)
  BY <1>5, MixedIsSmall
<1>8. PICK m \in Int : m = Quo(P * Q, U) /\ abs_i64_to_u64(m) <= 2 * U /\ FxMulCuda(P, Q) = m
  BY <1>7, CudaProduct
<1>9. FxAdd(m, m) = 2 * m /\ abs_i64_to_u64(2 * m) <= 4 * U + 2
  <2>1. m + m = 2 * m /\ 2 * m \in Words
    BY <1>2, <1>8 DEF Words, abs_i64_to_u64
  <2>2. Wrap(2 * m) = 2 * m
    BY <2>1, Wraps
  <2> QED BY <1>2, <1>8, <2>1, <2>2 DEF FxAdd, abs_i64_to_u64
<1>10. PICK g \in Int : g = Plain(f[4], 2 * m) /\ abs_i64_to_u64(g) <= 4 * U + 2 /\ g = FxFold(f[4], 2 * m)
  BY <1>1, <1>9, PlainKeepsMagnitude, NearFolds
<1>11. CudaMove(f, x, y, cx, cy) = <<Wrap(d + cx), Wrap(g + cy)>>
  BY <1>4, <1>6, <1>8, <1>9, <1>10 DEF CudaMove, FxAdd
<1>12. StepRe(f, x, y, cx) = d + cx /\ StepImCuda(f, x, y, cy) = g + cy
  BY <1>4, <1>5, <1>8, <1>10 DEF StepRe, StepImCuda, U
<1>13. abs_i64_to_u64(d) <= 4 * U + 2
  BY <1>2, <1>4, Magnitudes
<1>14. CudaNext(v, x, y, cx, cy) = CudaMove(f, x, y, cx, cy) /\ LnCudaNext(v, x, y, cx, cy) = CudaMove(f, x, y, cx, cy)
  BY <1>1, Foldings DEF CudaNext, LnCudaNext
<1> QED BY <1>1, <1>10, <1>11, <1>12, <1>13, <1>14

(* The backends round the mixed product differently, by two units at most. *)
LEMMA RoundingsAgree ==
  ASSUME NEW u \in Nat \ {0}, NEW m \in Int
  PROVE  /\ (2 * m) \div u \in Int /\ Quo(m, u) \in Int
         /\ (2 * m) \div u - 2 * Quo(m, u) \in {-2, -1, 0, 1}
<1>1. PICK q \in Int : q = (2 * m) \div u /\ u * q <= 2 * m /\ 2 * m < u * q + u
  <2>1. 2 * m \in Int
    OBVIOUS
  <2> QED BY <2>1, Quotient
<1>2. CASE m >= 0
  <2>1. PICK k \in Int : k = m \div u /\ u * k <= m /\ m < u * k + u
    BY Quotient
  <2>2. u * (2 * k) < u * (q + 1) /\ u * q < u * (2 * k + 2)
    <3>1. u * (2 * k) = 2 * (u * k) /\ u * (q + 1) = u * q + u /\ u * (2 * k + 2) = 2 * (u * k) + 2 * u
      BY <1>1, <2>1
    <3>2. PICK a \in Int, b \in Int : a = u * k /\ b = u * q
      BY <1>1, <2>1
    <3> QED BY <1>1, <2>1, <3>1, <3>2
  <2>3. 2 * k < q + 1 /\ q < 2 * k + 2
    BY <1>1, <2>1, <2>2, DividesInOrder
  <2>4. Quo(m, u) = k
    BY <1>2, <2>1 DEF Quo
  <2> QED BY <1>1, <2>1, <2>3, <2>4
<1>3. CASE m < 0
  <2>1. PICK k \in Int : k = (-m) \div u /\ u * k <= -m /\ -m < u * k + u
    <3>1. -m \in Int
      OBVIOUS
    <3> QED BY <3>1, Quotient
  <2>2. u * (-2 * k - 2) < u * (q + 1) /\ u * q < u * (-2 * k + 1)
    <3>1. /\ u * (-2 * k - 2) = -2 * (u * k) - 2 * u /\ u * (q + 1) = u * q + u
          /\ u * (-2 * k + 1) = -2 * (u * k) + u
      BY <1>1, <2>1
    <3>2. PICK a \in Int, b \in Int : a = u * k /\ b = u * q
      BY <1>1, <2>1
    <3> QED BY <1>1, <2>1, <3>1, <3>2
  <2>3. -2 * k - 2 < q + 1 /\ q < -2 * k + 1
    BY <1>1, <2>1, <2>2, DividesInOrder
  <2>4. Quo(m, u) = -k
    BY <1>3, <2>1 DEF Quo
  <2> QED BY <1>1, <2>1, <2>3, <2>4
<1> QED BY <1>2, <1>3

LEMMA PlainIsContinuous ==
  ASSUME NEW s \in Signs, NEW a \in Int, NEW b \in Int, a - b \in -2 .. 2
  PROVE  Plain(s, a) - Plain(s, b) \in -2 .. 2
  BY DEF Signs, Plain, abs_i64_to_u64

LEMMA StepsAgree ==
  ASSUME frac \in Formats, NEW f \in Folding, NEW x \in Int, NEW y \in Int, NEW c \in Int
  PROVE  /\ StepIm(f, x, y, c) \in Int /\ StepImCuda(f, x, y, c) \in Int
         /\ StepIm(f, x, y, c) - StepImCuda(f, x, y, c) \in -2 .. 2
<1>1. f[1] \in Signs /\ f[2] \in Signs /\ f[4] \in Signs
  BY DEF Folding
<1>2. PICK P \in Int : P = Plain(f[1], x)
  BY <1>1, PlainKeepsMagnitude
<1>3. PICK Q \in Int : Q = Plain(f[2], y)
  BY <1>1, PlainKeepsMagnitude
<1>4. PICK m \in Int : m = P * Q
  OBVIOUS
<1>5. U \in Nat \ {0}
  BY Widths
<1>6. PICK a \in Int, b \in Int : a = (2 * m) \div U /\ b = 2 * Quo(m, U) /\ a - b \in -2 .. 2
  <2>1. /\ (2 * m) \div U \in Int /\ Quo(m, U) \in Int
        /\ (2 * m) \div U - 2 * Quo(m, U) \in {-2, -1, 0, 1}
    BY <1>5, RoundingsAgree
  <2>2. 2 * Quo(m, U) \in Int
    BY <2>1
  <2> QED BY <2>1, <2>2
<1>7. Plain(f[4], a) \in Int /\ Plain(f[4], b) \in Int
  BY <1>1, PlainKeepsMagnitude
<1>8. Plain(f[4], a) - Plain(f[4], b) \in -2 .. 2
  BY <1>1, <1>6, PlainIsContinuous
<1>9. StepIm(f, x, y, c) = Plain(f[4], a) + c /\ StepImCuda(f, x, y, c) = Plain(f[4], b) + c
  BY <1>2, <1>3, <1>4, <1>6 DEF StepIm, StepImCuda, U
<1> QED BY <1>7, <1>8, <1>9

(* Words that differ by two units at most do so across the wrap, too.      *)
LEMMA WrappedDistance ==
  ASSUME frac \in Formats, NEW c \in Words, NEW d \in Int, NEW g \in Int, d - g \in -2 .. 2,
         abs_i64_to_u64(d) <= 4 * U + 2, abs_i64_to_u64(g) <= 4 * U + 2
  PROVE  abs_i64_to_u64(Wrap(Wrap(d + c) - Wrap(g + c))) <= 2
<1>1. H \in Nat /\ IMin = -H /\ IMax = H - 1 /\ U \in Nat /\ H >= 8 * U /\ U >= 2
  BY Widths
<1>2. c \in -H .. H - 1 /\ d \in -(4 * U + 2) .. 4 * U + 2 /\ g \in -(4 * U + 2) .. 4 * U + 2
  BY <1>1 DEF Words, abs_i64_to_u64
<1>3. \A a \in Int : /\ a \in Words => Wrap(a) = a
                     /\ H <= a /\ a < 3 * H => Wrap(a) = a - 2 * H
                     /\ -3 * H <= a /\ a < -H => Wrap(a) = a + 2 * H
  BY Wraps
<1>4. PICK a \in Int, b \in Int : a = d + c /\ b = g + c
  BY <1>2
<1>5. Wrap(a) \in {a, a - 2 * H, a + 2 * H} /\ Wrap(b) \in {b, b - 2 * H, b + 2 * H} /\ Wrap(a) \in Int /\ Wrap(b) \in Int
      /\ Wrap(a) \in -H .. H - 1 /\ Wrap(b) \in -H .. H - 1
  BY <1>1, <1>2, <1>3, <1>4 DEF Words
<1>6. PICK w \in Int : w = Wrap(a) - Wrap(b)
  BY <1>5
<1>7. w \in {a - b, a - b - 2 * H, a - b + 2 * H}
  BY <1>1, <1>2, <1>4, <1>5, <1>6
<1>8. Wrap(w) = a - b
  BY <1>1, <1>2, <1>3, <1>4, <1>7 DEF Words
<1> QED BY <1>2, <1>4, <1>6, <1>8 DEF abs_i64_to_u64

LEMMA InsideIsNear ==
  ASSUME frac \in Formats, NEW x \in Int, NEW y \in Int, Inside(x, y)
  PROVE  ~TrulyEscaped(x, y)
<1>1. U \in Nat \ {0} /\ 4^frac = U * U
  BY Widths
<1>2. PICK p \in Nat, q \in Nat : /\ p = (x * x) \div U /\ q = (y * y) \div U
                                  /\ U * p <= x * x /\ U * q <= y * y
  BY RoundedSquare
<1>3. x * x + y * y <= 4 * (U * U)
  BY <1>1 DEF Inside
<1>4. U * (p + q) < U * (4 * U + 1)
  <2>1. U * (p + q) = U * p + U * q /\ U * (4 * U + 1) = 4 * (U * U) + U
    BY <1>1, <1>2
  <2>2. x * x \in Nat /\ y * y \in Nat /\ U * p \in Nat /\ U * q \in Nat /\ U * U \in Nat
    BY <1>1, <1>2, Products, Magnitudes
  <2> QED BY <1>1, <1>2, <1>3, <2>1, <2>2
<1>5. p + q < 4 * U + 1
  BY <1>1, <1>2, <1>4, DividesInOrder
<1> QED BY <1>1, <1>2, <1>5 DEF TrulyEscaped, U

(* What the step of a point within the radius decides, for any word c.     *)
LEMMA StepIsExact ==
  ASSUME frac \in Formats, NEW v \in 0 .. 9, NEW x \in Int, NEW y \in Int, ~TrulyEscaped(x, y),
         NEW cx \in Words, NEW cy \in Words
  PROVE  LET f == step_fixed[v + 1]
             cpu == FixedStep(v, x, y, cx, cy)
             gpu == FixedStepCuda(v, x, y, cx, cy)
         IN /\ cpu.escaped <=> TrulyEscaped(StepRe(f, x, y, cx), StepIm(f, x, y, cy))
            /\ gpu.escaped <=> TrulyEscaped(StepRe(f, x, y, cx), StepImCuda(f, x, y, cy))
            /\ cpu.re = gpu.re /\ abs_i64_to_u64(Wrap(cpu.im - gpu.im)) <= 2
<1>1. PICK f \in Folding : f = step_fixed[v + 1]
  BY Foldings
<1>2. PICK d \in Int, g \in Int :
        /\ abs_i64_to_u64(d) <= 4 * U + 2 /\ abs_i64_to_u64(g) <= 4 * U + 2
        /\ StepRe(f, x, y, cx) = d + cx /\ StepIm(f, x, y, cy) = g + cy
        /\ CpuNext(v, x, y, cx, cy) = <<Wrap(d + cx), Wrap(g + cy)>>
  BY <1>1, CpuStep
<1>3. PICK e \in Int, h \in Int :
        /\ abs_i64_to_u64(e) <= 4 * U + 2 /\ abs_i64_to_u64(h) <= 4 * U + 2
        /\ StepRe(f, x, y, cx) = e + cx /\ StepImCuda(f, x, y, cy) = h + cy
        /\ CudaNext(v, x, y, cx, cy) = <<Wrap(e + cx), Wrap(h + cy)>>
  BY <1>1, CudaStep
<1>4. cx \in Int /\ cy \in Int
  BY Widths DEF Words
<1>5. d = e
  BY <1>2, <1>3, <1>4
<1>6. g - h \in -2 .. 2
  <2>1. StepIm(f, x, y, cy) - StepImCuda(f, x, y, cy) \in -2 .. 2
    BY <1>4, StepsAgree
  <2> QED BY <1>2, <1>3, <1>4, <2>1
<1>7. Wrap(d + cx) \in Words /\ Wrap(g + cy) \in Words /\ Wrap(h + cy) \in Words
  BY <1>2, <1>3, WrappedSum
<1>8. CpuGate(Wrap(d + cx), Wrap(g + cy)) <=> TrulyEscaped(d + cx, g + cy)
  BY <1>2, <1>7, CpuGateDecides, WrappingDecides
<1>9. CudaGate(Wrap(d + cx), Wrap(h + cy)) <=> TrulyEscaped(d + cx, h + cy)
  BY <1>2, <1>3, <1>7, CudaGateDecides, WrappingDecides
<1>10. abs_i64_to_u64(Wrap(Wrap(g + cy) - Wrap(h + cy))) <= 2
  BY <1>2, <1>3, <1>6, WrappedDistance
<1>11. FixedStep(v, x, y, cx, cy) = [re |-> Wrap(d + cx), im |-> Wrap(g + cy),
                                     escaped |-> CpuGate(Wrap(d + cx), Wrap(g + cy))]
  BY <1>2 DEF FixedStep, CpuGate
<1>12. FixedStepCuda(v, x, y, cx, cy) = [re |-> Wrap(d + cx), im |-> Wrap(h + cy),
                                         escaped |-> CudaGate(Wrap(d + cx), Wrap(h + cy))]
  BY <1>3, <1>5 DEF FixedStepCuda, CudaGate
<1>13. /\ FixedStep(v, x, y, cx, cy).escaped <=> TrulyEscaped(d + cx, g + cy)
       /\ FixedStep(v, x, y, cx, cy).re = Wrap(d + cx) /\ FixedStep(v, x, y, cx, cy).im = Wrap(g + cy)
  BY <1>8, <1>11
<1>14. /\ FixedStepCuda(v, x, y, cx, cy).escaped <=> TrulyEscaped(d + cx, h + cy)
       /\ FixedStepCuda(v, x, y, cx, cy).re = Wrap(d + cx) /\ FixedStepCuda(v, x, y, cx, cy).im = Wrap(h + cy)
  BY <1>9, <1>12
<1> QED BY <1>1, <1>2, <1>3, <1>5, <1>10, <1>13, <1>14

(* The action Step records what StepIsExact says.                          *)
LEMMA StepKeepsExact ==
  ASSUME frac \in Formats, Step
  PROVE  FixedEscapesExactly'
<1>1. frac' = frac /\ work' = "step"
  BY DEF Step
<1>2. PICK v \in 0 .. 9, cx \in Parameters, cy \in Parameters :
        /\ input' = <<v, cx, cy>>
        /\ output' = [p \in {q \in (-two_raw .. two_raw) \X (-two_raw .. two_raw) : Inside(q[1], q[2])} |->
                        <<FixedStep(v, p[1], p[2], cx, cy), FixedStepCuda(v, p[1], p[2], cx, cy)>>]
  BY DEF Step
<1>3. cx \in Words /\ cy \in Words
  BY InputsAssumption
<1>4. PICK f \in Folding : f = step_fixed[v + 1]
  BY Foldings
<1>5. two_raw \in Int
  BY Widths DEF two_raw, U
<1> SUFFICES ASSUME NEW p \in DOMAIN output'
             PROVE  LET cpu == output'[p][1]
                        gpu == output'[p][2]
                    IN /\ cpu.escaped <=> TrulyEscaped(TrueRe(f, p), TrueIm(f, p))'
                       /\ gpu.escaped <=> TrulyEscaped(TrueRe(f, p), TrueImCuda(f, p))'
                       /\ cpu.re = gpu.re /\ abs_i64_to_u64(Wrap(cpu.im - gpu.im)) <= 2
  BY <1>2, <1>4 DEF FixedEscapesExactly
<1>6. PICK x \in Int, y \in Int : x = p[1] /\ y = p[2] /\ Inside(x, y)
  BY <1>2, <1>5
<1>7. ~TrulyEscaped(x, y)
  BY <1>6, InsideIsNear
<1>8. LET cpu == FixedStep(v, x, y, cx, cy)
          gpu == FixedStepCuda(v, x, y, cx, cy)
      IN /\ cpu.escaped <=> TrulyEscaped(StepRe(f, x, y, cx), StepIm(f, x, y, cy))
         /\ gpu.escaped <=> TrulyEscaped(StepRe(f, x, y, cx), StepImCuda(f, x, y, cy))
         /\ cpu.re = gpu.re /\ abs_i64_to_u64(Wrap(cpu.im - gpu.im)) <= 2
  BY <1>3, <1>4, <1>7, StepIsExact
<1>9. output'[p] = <<FixedStep(v, x, y, cx, cy), FixedStepCuda(v, x, y, cx, cy)>>
  BY <1>2, <1>6
<1>10. TrueRe(f, p)' = StepRe(f, x, y, cx) /\ TrueImCuda(f, p)' = StepImCuda(f, x, y, cy)
  BY <1>1, <1>2, <1>6 DEF TrueRe, TrueImCuda, StepRe, StepImCuda
<1>11. TrueIm(f, p)' = StepIm(f, x, y, cy)
  <2>1. PICK P \in Int : P = Plain(f[1], x)
    BY PlainKeepsMagnitude DEF Folding
  <2>2. PICK Q \in Int : Q = Plain(f[2], y)
    BY PlainKeepsMagnitude DEF Folding
  <2>3. 2 * P * Q = 2 * (P * Q)
    OBVIOUS
  <2> QED BY <1>1, <1>2, <1>6, <2>1, <2>2, <2>3 DEF TrueIm, StepIm
<1>12. \A a, b : TrulyEscaped(a, b)' <=> TrulyEscaped(a, b)
  BY <1>1 DEF TrulyEscaped
<1>13. /\ TrulyEscaped(TrueRe(f, p), TrueIm(f, p))' <=> TrulyEscaped(StepRe(f, x, y, cx), StepIm(f, x, y, cy))
       /\ TrulyEscaped(TrueRe(f, p), TrueImCuda(f, p))' <=> TrulyEscaped(StepRe(f, x, y, cx), StepImCuda(f, x, y, cy))
  BY <1>1, <1>10, <1>11 DEF TrulyEscaped
<1> QED BY <1>8, <1>9, <1>13

-----------------------------------------------------------------------------
(* The pixels of a view.                                                   *)

(* The offset of a pixel is its exact place rounded down, although the     *)
(* span is divided first.                                                  *)
LEMMA OffsetIsRounded ==
  ASSUME NEW span \in Nat, NEW count \in Nat \ {0}, NEW i \in 0 .. count - 1
  PROVE  LET D == 2 * count
             O == Offset(span, i, count)
         IN O \in Nat /\ O <= span /\ D * O <= span * (2 * i + 1) /\ span * (2 * i + 1) < D * O + D
<1>1. PICK D \in Nat \ {0} : D = 2 * count
  OBVIOUS
<1>2. PICK k \in Nat : k = 2 * i + 1 /\ k <= D
  BY <1>1
<1>3. PICK q \in Nat : q = span \div D /\ D * q <= span /\ span < D * q + D
  BY Quotient
<1>4. PICK r \in Nat : r = span - q * D /\ span = D * q + r
  <2>1. q * D = D * q /\ D * q \in Nat
    BY <1>3, Products
  <2> QED BY <1>3, <2>1
<1>5. PICK t \in Nat : t = r * k
  BY <1>2, <1>4, Products
<1>6. PICK e \in Nat : e = t \div D /\ D * e <= t /\ t < D * e + D
  BY <1>5, Quotient
<1>7. Offset(span, i, count) = q * k + e
  <2>1. Quo(span, D) = q
    BY <1>3 DEF Quo
  <2>2. Quo(t, D) = e
    BY <1>6 DEF Quo
  <2> QED BY <1>1, <1>2, <1>4, <1>5, <2>1, <2>2 DEF Offset
<1>8. PICK O \in Nat : O = q * k + e
  <2>1. q * k \in Nat
    BY <1>2, <1>3, Products
  <2> QED BY <2>1
<1>9. D * O = D * (q * k) + D * e /\ span * k = D * (q * k) + t
  <2>1. D * (q * k + e) = D * (q * k) + D * e
    BY <1>2, <1>3, <1>6
  <2>2. (D * q + r) * k = D * (q * k) + r * k
    <3>1. \A a, b, c, d \in Int : (a * b + c) * d = a * (b * d) + c * d
      OBVIOUS
    <3> QED BY <3>1
  <2> QED BY <1>4, <1>5, <1>8, <2>1, <2>2
<1>10. D * O <= span * k /\ span * k < D * O + D
  <2>1. PICK a \in Int, b \in Int : a = D * (q * k) /\ b = D * e
    BY <1>2, <1>3, <1>6
  <2> QED BY <1>5, <1>6, <1>9, <2>1
<1>11. O <= span
  <2>1. span * k <= span * D
    BY <1>2, MultipliesInOrder
  <2>2. D * O < D * (span + 1)
    <3>1. D * (span + 1) = span * D + D
      BY <1>1
    <3>2. PICK a \in Int, b \in Int, c \in Int : a = span * k /\ b = span * D /\ c = D * O
      BY <1>2, <1>8
    <3> QED BY <1>10, <2>1, <3>1, <3>2
  <2>3. O < span + 1
    BY <1>8, <2>2, DividesInOrder
  <2> QED BY <2>3, <1>8
<1> QED BY <1>1, <1>2, <1>7, <1>8, <1>10, <1>11

LEMMA OffsetsInOrder ==
  ASSUME NEW span \in Nat, NEW count \in Nat \ {0}, NEW i \in 0 .. count - 1, i > 0
  PROVE  Offset(span, i - 1, count) <= Offset(span, i, count)
<1>1. PICK D \in Nat \ {0} : D = 2 * count
  OBVIOUS
<1>2. i - 1 \in 0 .. count - 1
  OBVIOUS
<1>3. PICK a \in Nat : a = Offset(span, i - 1, count) /\ D * a <= span * (2 * (i - 1) + 1)
  BY <1>1, <1>2, OffsetIsRounded
<1>4. PICK b \in Nat : b = Offset(span, i, count) /\ span * (2 * i + 1) < D * b + D
  BY <1>1, OffsetIsRounded
<1>5. span * (2 * (i - 1) + 1) <= span * (2 * i + 1)
  BY MultipliesInOrder
<1>6. D * a < D * (b + 1)
  <2>1. D * (b + 1) = D * b + D
    BY <1>4
  <2>2. PICK s \in Int, t \in Int, u \in Int, w \in Int :
          s = D * a /\ t = span * (2 * (i - 1) + 1) /\ u = span * (2 * i + 1) /\ w = D * b
    BY <1>3, <1>4
  <2> QED BY <1>3, <1>4, <1>5, <2>1, <2>2
<1>7. a < b + 1
  BY <1>3, <1>4, <1>6, DividesInOrder
<1> QED BY <1>3, <1>4, <1>7

(* Where a pixel is, when the view with its edges is made of words.        *)
LEMMA PixelIsNear ==
  ASSUME frac \in Formats, NEW centre \in Words, NEW span \in Nat, NEW count \in Nat \ {0},
         centre - span \in Words, centre + span \in Words, NEW i \in 0 .. count - 1
  PROVE  LET s == span \div 2
             O == Offset(span, i, count)
             a == O - s
         IN /\ s \in Nat /\ O \in Nat
            /\ fixed_pixel_re_raw(centre, span, count, i) = centre - s + O
            /\ fixed_pixel_im_raw(centre, span, count, i) = centre + s - O
            /\ abs_i64_to_u64(2 * count * a - (2 * i + 1 - count) * span) <= 2 * count
<1>1. PICK D \in Nat \ {0} : D = 2 * count
  OBVIOUS
<1>2. PICK O \in Nat : /\ O = Offset(span, i, count) /\ O <= span
                       /\ D * O <= span * (2 * i + 1) /\ span * (2 * i + 1) < D * O + D
  BY <1>1, OffsetIsRounded
<1>3. PICK s \in Nat : s = span \div 2 /\ 2 * s <= span /\ span <= 2 * s + 1
  OBVIOUS
<1>4. Quo(span, 2) = s
  BY <1>3 DEF Quo
<1>5. H \in Nat /\ IMin = -H /\ IMax = H - 1
  BY Widths
<1>6. centre - s + O \in Words /\ centre + s - O \in Words
  BY <1>2, <1>3, <1>5 DEF Words
<1>7. Wrap(centre - s + O) = centre - s + O /\ Wrap(centre + s - O) = centre + s - O
  BY <1>5, <1>6, Wraps DEF Words
<1>8. /\ fixed_pixel_re_raw(centre, span, count, i) = centre - s + O
      /\ fixed_pixel_im_raw(centre, span, count, i) = centre + s - O
  BY <1>2, <1>4, <1>7 DEF fixed_pixel_re_raw, fixed_pixel_im_raw
<1>9. D * (O - s) - (2 * i + 1 - count) * span \in -D .. D
  <2>1. D * (O - s) = D * O - count * (2 * s)
    BY <1>1
  <2>2. (2 * i + 1 - count) * span = span * (2 * i + 1) - count * span
    OBVIOUS
  <2>3. count * (2 * s) <= count * span /\ count * span <= count * (2 * s + 1) /\ count * (2 * s + 1) = count * (2 * s) + count
    BY <1>3, MultipliesInOrder
  <2>4. PICK a \in Int, b \in Int, c \in Int, d \in Int :
          a = D * O /\ b = span * (2 * i + 1) /\ c = count * (2 * s) /\ d = count * span
    BY <1>1, <1>2, <1>3
  <2> QED BY <1>1, <1>2, <2>1, <2>2, <2>3, <2>4
<1>10. abs_i64_to_u64(2 * count * (O - s) - (2 * i + 1 - count) * span) <= 2 * count
  BY <1>1, <1>9 DEF abs_i64_to_u64
<1> QED BY <1>2, <1>3, <1>8, <1>10

(* The action View records what PixelIsNear says.                          *)
LEMMA ViewKeepsExact ==
  ASSUME frac \in Formats, View
  PROVE  FixedPixelsInView'
<1>1. PICK centre \in Parameters, span \in Spans, count \in Counts :
        /\ fixed_viewport_representable(centre, span, count)
        /\ input' = <<centre, span, count>>
        /\ output' = [i \in 0 .. count - 1 |->
                        [re |-> fixed_pixel_re_raw(centre, span, count, i),
                         im |-> fixed_pixel_im_raw(centre, span, count, i)]]
  BY DEF View
<1>2. centre \in Words /\ span \in Nat /\ count \in Nat \ {0}
  <2>1. centre \in Words /\ span \in Int /\ count \in Nat \ {0}
    BY InputsAssumption
  <2>2. span > 0
    BY <1>1 DEF fixed_viewport_representable
  <2> QED BY <2>1, <2>2
<1>3. centre \in Int
  BY <1>2, Widths DEF Words
<1> SUFFICES ASSUME centre - span \in Words, centre + span \in Words, NEW i \in 0 .. count - 1
             PROVE  /\ abs_i64_to_u64(2 * count * (output'[i].re - centre) - (2 * i + 1 - count) * span) <= 2 * count
                    /\ abs_i64_to_u64(2 * count * (centre - output'[i].im) - (2 * i + 1 - count) * span) <= 2 * count
                    /\ i > 0 => output'[i].re >= output'[i - 1].re /\ output'[i].im <= output'[i - 1].im
  BY <1>1 DEF FixedPixelsInView
<1>4. PICK s \in Nat, O \in Nat :
        /\ s = span \div 2 /\ O = Offset(span, i, count)
        /\ fixed_pixel_re_raw(centre, span, count, i) = centre - s + O
        /\ fixed_pixel_im_raw(centre, span, count, i) = centre + s - O
        /\ abs_i64_to_u64(2 * count * (O - s) - (2 * i + 1 - count) * span) <= 2 * count
  BY <1>2, PixelIsNear
<1>5. output'[i].re = centre - s + O /\ output'[i].im = centre + s - O
  BY <1>1, <1>4
<1>6. output'[i].re - centre = O - s /\ centre - output'[i].im = O - s
  BY <1>3, <1>4, <1>5
<1>7. ASSUME i > 0 PROVE output'[i].re >= output'[i - 1].re /\ output'[i].im <= output'[i - 1].im
  <2>1. i - 1 \in 0 .. count - 1
    BY <1>2, <1>7
  <2>a. PICK j \in 0 .. count - 1 : j = i - 1
    BY <2>1
  <2>b. LET r == span \div 2
            Q == Offset(span, j, count)
        IN /\ r \in Nat /\ Q \in Nat
           /\ fixed_pixel_re_raw(centre, span, count, j) = centre - r + Q
           /\ fixed_pixel_im_raw(centre, span, count, j) = centre + r - Q
    BY <1>2, PixelIsNear
  <2>2. PICK Q \in Nat :
          /\ Q = Offset(span, i - 1, count)
          /\ fixed_pixel_re_raw(centre, span, count, i - 1) = centre - s + Q
          /\ fixed_pixel_im_raw(centre, span, count, i - 1) = centre + s - Q
    BY <1>4, <2>a, <2>b
  <2>3. Q <= O
    BY <1>2, <1>4, <1>7, <2>2, OffsetsInOrder
  <2>4. output'[i - 1].re = centre - s + Q /\ output'[i - 1].im = centre + s - Q
    BY <1>1, <2>1, <2>2
  <2> QED BY <1>3, <1>4, <1>5, <2>2, <2>3, <2>4
<1> QED BY <1>4, <1>6, <1>7

-----------------------------------------------------------------------------
(* Recursive functions.                                                    *)

LEMMA LeastNumber ==
  ASSUME NEW T \in SUBSET Nat, T # {}
  PROVE  \E n \in T : \A m \in T : n <= m
<1>1. IsWellFoundedOn(OpToRel(<, Nat), Nat)
  BY NatLessThanWellFounded
<1>2. PICK n \in T : \A m \in T : ~(<<m, n>> \in OpToRel(<, Nat))
  BY <1>1, WFMin
<1>3. \A m \in T : ~(m < n)
  BY <1>2 DEF OpToRel
<1> QED BY <1>3

LEMMA Induction ==
  ASSUME NEW T \in SUBSET Nat, 0 \in T, \A n \in T : n + 1 \in T
  PROVE  T = Nat
<1>1. SUFFICES ASSUME Nat \ T # {} PROVE FALSE
  OBVIOUS
<1>2. PICK n \in Nat \ T : \A m \in Nat \ T : n <= m
  BY <1>1, LeastNumber
<1>3. n # 0 /\ n - 1 \in Nat
  BY <1>2
<1>4. n - 1 \in T
  BY <1>2, <1>3
<1> QED BY <1>2, <1>3, <1>4

(* A function that is defined from its value before.                       *)
Recurs(f, a, b, n) == f[0] = a /\ \A i \in 1 .. n : f[i] = b[<<i, f[i - 1]>>]

LEMMA Recursion ==
  ASSUME NEW S, NEW a \in S, NEW b \in [Nat \X S -> S], NEW n \in Nat
  PROVE  \E f \in [0 .. n -> S] : Recurs(f, a, b, n)
<1> USE DEF Recurs
<1> DEFINE Defined(k) == \E f \in [0 .. k -> S] : f[0] = a /\ \A i \in 1 .. k : f[i] = b[<<i, f[i - 1]>>]
           T == {k \in Nat : Defined(k)}
<1>1. 0 \in T
  <2>1. [i \in 0 .. 0 |-> a] \in [0 .. 0 -> S]
    OBVIOUS
  <2>2. [i \in 0 .. 0 |-> a][0] = a /\ 1 .. 0 = {}
    OBVIOUS
  <2>3. Defined(0)
    BY <2>1, <2>2
  <2> QED BY <2>3
<1>2. ASSUME NEW k \in T PROVE k + 1 \in T
  <2>1. PICK f \in [0 .. k -> S] : f[0] = a /\ \A i \in 1 .. k : f[i] = b[<<i, f[i - 1]>>]
    OBVIOUS
  <2>2. k \in Nat /\ b[<<k + 1, f[k]>>] \in S
    BY <2>1
  <2>3. PICK g : g = [i \in 0 .. k + 1 |-> IF i = k + 1 THEN b[<<k + 1, f[k]>>] ELSE f[i]]
    OBVIOUS
  <2>4. g \in [0 .. k + 1 -> S]
    BY <2>2, <2>3
  <2>5. g[0] = a
    BY <2>1, <2>2, <2>3
  <2>6. \A i \in 1 .. k + 1 : g[i] = b[<<i, g[i - 1]>>]
    <3> SUFFICES ASSUME NEW i \in 1 .. k + 1 PROVE g[i] = b[<<i, g[i - 1]>>]
      OBVIOUS
    <3>1. i - 1 \in 0 .. k /\ g[i - 1] = f[i - 1]
      BY <2>2, <2>3
    <3>2. CASE i = k + 1
      <4>1. g[i] = b[<<k + 1, f[k]>>]
        BY <2>2, <2>3, <3>2
      <4>2. g[i - 1] = f[k]
        BY <2>2, <3>1, <3>2
      <4> QED BY <3>2, <4>1, <4>2
    <3>3. CASE i \in 1 .. k
      BY <2>1, <2>2, <2>3, <3>1, <3>3
    <3> QED BY <2>2, <3>2, <3>3
  <2>7. Defined(k + 1)
    BY <2>4, <2>5, <2>6
  <2>8. k + 1 \in Nat
    BY <2>2
  <2> HIDE DEF Defined
  <2> QED BY <2>7, <2>8
<1>3. T = Nat
  <2> HIDE DEF T
  <2>1. T \in SUBSET Nat
    BY DEF T
  <2> QED BY <1>1, <1>2, <2>1, Induction
<1> QED BY <1>3

LEMMA UpTo ==
  ASSUME NEW T, NEW n \in Nat, 0 \in T, \A i \in 1 .. n : i - 1 \in T => i \in T
  PROVE  \A i \in 0 .. n : i \in T
<1> DEFINE R == {i \in Nat : i <= n => i \in T}
<1>1. 0 \in R
  OBVIOUS
<1>2. ASSUME NEW i \in R PROVE i + 1 \in R
  <2>1. i \in Nat /\ (i <= n => i \in T)
    OBVIOUS
  <2>2. i + 1 <= n => i + 1 \in 1 .. n /\ (i + 1) - 1 = i
    BY <2>1
  <2>3. i + 1 <= n => i + 1 \in T
    BY <2>1, <2>2
  <2> QED BY <2>1, <2>3
<1>3. R = Nat
  <2>1. R \in SUBSET Nat
    OBVIOUS
  <2> HIDE DEF R
  <2> QED BY <1>1, <1>2, <2>1, Induction
<1> QED BY <1>3


-----------------------------------------------------------------------------
(* What a loop is given.                                                   *)
IsJob(j) == /\ j.variant \in 0 .. 9 /\ j.julia \in BOOLEAN /\ j.iters \in Nat
            /\ j.x \in Words /\ j.y \in Words

Constant(j) == IF j.julia THEN JuliaC ELSE <<j.x, j.y>>
First(j) == IF j.julia THEN <<j.x, j.y>> ELSE <<0, 0>>
Out(p) == TrulyEscaped(p[1], p[2])
Points == Int \X Int

FxAfter(j, cuda, p) ==
  LET f == step_fixed[j.variant + 1]
      c == Constant(j)
      a == Plain(f[1], p[1]) * Plain(f[2], p[2])
  IN <<StepRe(f, p[1], p[2], c[1]),
       Plain(f[4], IF cuda THEN 2 * Quo(a, 2^frac) ELSE (2 * a) \div 2^frac) + c[2]>>

LEMMA JobsAreTyped ==
  ASSUME frac \in Formats, NEW j, IsJob(j)
  PROVE  /\ step_fixed[j.variant + 1] \in Folding
         /\ Constant(j)[1] \in Words /\ Constant(j)[2] \in Words /\ First(j) \in Words \X Words
         /\ Words \subseteq Int
<1>1. Words \subseteq Int /\ 0 \in Words
  BY Widths DEF Words
<1>2. JuliaC \in Words \X Words
  BY InputsAssumption
<1> QED BY <1>1, <1>2, Foldings DEF IsJob, Constant, First

LEMMA AfterIsTheStep ==
  ASSUME NEW j, NEW p
  PROVE  LET f == step_fixed[j.variant + 1]
             c == Constant(j)
         IN /\ FxAfter(j, TRUE, p) = <<StepRe(f, p[1], p[2], c[1]), StepImCuda(f, p[1], p[2], c[2])>>
            /\ FxAfter(j, FALSE, p) = <<StepRe(f, p[1], p[2], c[1]), StepIm(f, p[1], p[2], c[2])>>
  BY DEF FxAfter, StepIm, StepImCuda

LEMMA AfterIsAPoint ==
  ASSUME frac \in Formats, NEW j, IsJob(j), NEW p \in Points, NEW cuda \in BOOLEAN
  PROVE  FxAfter(j, cuda, p) \in Points
<1>1. PICK f \in Folding : f = step_fixed[j.variant + 1]
  BY JobsAreTyped
<1>2. PICK c \in Int, d \in Int : c = Constant(j)[1] /\ d = Constant(j)[2]
  BY JobsAreTyped
<1>3. PICK x \in Int, y \in Int : x = p[1] /\ y = p[2]
  BY DEF Points
<1>4. U \in Nat \ {0}
  BY Widths
<1>5. f[1] \in Signs /\ f[2] \in Signs /\ f[3] \in Signs /\ f[4] \in Signs
  BY DEF Folding
<1>6. \A s \in Signs, a \in Int : Plain(s, a) \in Int
  BY PlainKeepsMagnitude
<1>7. \A a \in Int : a \div U \in Int /\ Quo(a, U) \in Int
  BY <1>4 DEF Quo
<1>8. StepRe(f, x, y, c) \in Int
  <2>1. PICK a \in Int : a = (x * x) \div U - (y * y) \div U
    BY <1>7
  <2>2. Plain(f[3], a) \in Int
    BY <1>5, <1>6
  <2> QED BY <2>1, <2>2 DEF StepRe, U
<1>9. StepIm(f, x, y, d) \in Int /\ StepImCuda(f, x, y, d) \in Int
  <2>1. PICK P \in Int, Q \in Int : P = Plain(f[1], x) /\ Q = Plain(f[2], y)
    BY <1>5, <1>6
  <2>2. PICK a \in Int, b \in Int : a = (2 * (P * Q)) \div U /\ b = 2 * Quo(P * Q, U)
    BY <1>7
  <2>3. Plain(f[4], a) \in Int /\ Plain(f[4], b) \in Int
    BY <1>5, <1>6
  <2> QED BY <2>1, <2>2, <2>3 DEF StepIm, StepImCuda, U
<1>10. /\ FxAfter(j, TRUE, p) = <<StepRe(f, x, y, c), StepImCuda(f, x, y, d)>>
       /\ FxAfter(j, FALSE, p) = <<StepRe(f, x, y, c), StepIm(f, x, y, d)>>
  BY <1>1, <1>2, <1>3, AfterIsTheStep
<1>11. FxAfter(j, TRUE, p) \in Points /\ FxAfter(j, FALSE, p) \in Points
  <2>1. PICK r \in Int, s \in Int, m \in Int :
          r = StepRe(f, x, y, c) /\ s = StepIm(f, x, y, d) /\ m = StepImCuda(f, x, y, d)
    BY <1>8, <1>9
  <2>2. FxAfter(j, TRUE, p) = <<r, m>> /\ FxAfter(j, FALSE, p) = <<r, s>>
    BY <1>10, <2>1
  <2>3. <<r, m>> \in Points /\ <<r, s>> \in Points
    BY DEF Points
  <2> QED BY <2>2, <2>3, Zenon
<1>12. CASE cuda = TRUE
  BY <1>11, <1>12
<1>13. CASE cuda = FALSE
  BY <1>11, <1>13
<1> QED BY <1>12, <1>13

(* The orbit that the specification counts by.                             *)
LEMMA OrbitIsDefined ==
  ASSUME frac \in Formats, NEW j, IsJob(j), NEW cuda \in BOOLEAN
  PROVE  LET z == TrueOrbit(j, cuda)
         IN /\ z \in [0 .. j.iters -> Points] /\ z[0] = First(j)
            /\ \A i \in 1 .. j.iters : ~Out(z[i - 1]) => z[i] = FxAfter(j, cuda, z[i - 1])
<1> DEFINE Then(i, p) == IF Out(p) /\ (i > 1 \/ j.julia) THEN p ELSE FxAfter(j, cuda, p)
           E(z) == [i \in 0 .. j.iters |-> IF i = 0 THEN First(j) ELSE Then(i, z[i - 1])]
<1>1. TrueOrbit(j, cuda) = CHOOSE z : z = E(z)
  BY DEF TrueOrbit, First, FxAfter, Out, Constant, StepRe
<1>2. First(j) \in Points /\ j.iters \in Nat /\ \A i \in Nat, p \in Points : Then(i, p) \in Points
  BY JobsAreTyped, AfterIsAPoint DEF Points, IsJob
<1> HIDE DEF Then
<1>3. \E z : z = E(z)
  <2>1. PICK n \in Nat, a \in Points : n = j.iters /\ a = First(j)
    BY <1>2
  <2>2. PICK b \in [Nat \X Points -> Points] : \A i \in Nat, p \in Points : b[<<i, p>>] = Then(i, p)
    <3>1. [q \in Nat \X Points |-> Then(q[1], q[2])] \in [Nat \X Points -> Points]
      BY <1>2
    <3> QED BY <3>1
  <2>3. PICK z \in [0 .. n -> Points] : z[0] = a /\ \A i \in 1 .. n : z[i] = b[<<i, z[i - 1]>>]
    <3>1. \E z \in [0 .. n -> Points] : Recurs(z, a, b, n)
      BY Recursion
    <3> QED BY <3>1 DEF Recurs
  <2>4. \A i \in 1 .. n : i \in Nat /\ z[i] = Then(i, z[i - 1])
    <3> SUFFICES ASSUME NEW i \in 1 .. n PROVE i \in Nat /\ z[i] = Then(i, z[i - 1])
      OBVIOUS
    <3>1. i \in Nat /\ z[i - 1] \in Points
      BY <2>3
    <3> QED BY <2>2, <2>3, <3>1
  <2>5. z = E(z)
    BY <2>1, <2>3, <2>4
  <2> QED BY <2>5
<1>4. PICK z : z = TrueOrbit(j, cuda) /\ z = E(z)
  <2> HIDE DEF E
  <2> QED BY <1>1, <1>3
<1>5. \A i \in 0 .. j.iters : z[i] \in Points
  <2> DEFINE T == {i \in 0 .. j.iters : z[i] \in Points}
  <2>1. 0 \in T
    BY <1>2, <1>4
  <2>2. \A i \in 1 .. j.iters : i - 1 \in T => i \in T
    BY <1>2, <1>4
  <2> HIDE DEF T
  <2>3. \A i \in 0 .. j.iters : i \in T
    BY <1>2, <2>1, <2>2, UpTo
  <2> QED BY <2>3 DEF T
<1>6. z \in [0 .. j.iters -> Points] /\ z[0] = First(j)
  <2>1. PICK n \in Nat : n = j.iters
    BY <1>2
  <2>2. z = [i \in 0 .. n |-> z[i]] /\ z[0] = First(j)
    BY <1>4, <2>1
  <2>3. \A i \in 0 .. n : z[i] \in Points
    BY <1>5, <2>1
  <2>4. z \in [0 .. n -> Points]
    BY <2>2, <2>3
  <2> QED BY <2>1, <2>2, <2>4
<1>7. \A i \in 1 .. j.iters : ~Out(z[i - 1]) => z[i] = FxAfter(j, cuda, z[i - 1])
  BY <1>2, <1>4 DEF Then
<1> QED BY <1>4, <1>6, <1>7

(* What is counted along an orbit.                                         *)
Count(z, n) ==
  LET out == {k \in 0 .. n : TrulyEscaped(z[k][1], z[k][2])}
      first == CHOOSE k \in out : \A m \in out : k <= m
  IN IF out = {} THEN [iter |-> n, escaped |-> FALSE]
     ELSE [iter |-> IF first = 0 THEN 0 ELSE first - 1, escaped |-> TRUE]

LEMMA CountEscaped ==
  ASSUME NEW n \in Nat, NEW z, NEW m \in 0 .. n, Out(z[m]), \A k \in 0 .. m - 1 : ~Out(z[k])
  PROVE  Count(z, n) = [iter |-> IF m = 0 THEN 0 ELSE m - 1, escaped |-> TRUE]
<1> DEFINE out == {k \in 0 .. n : TrulyEscaped(z[k][1], z[k][2])}
           first == CHOOSE k \in out : \A l \in out : k <= l
<1>1. Count(z, n) = IF out = {} THEN [iter |-> n, escaped |-> FALSE]
                    ELSE [iter |-> IF first = 0 THEN 0 ELSE first - 1, escaped |-> TRUE]
  BY DEF Count
<1>2. m \in out /\ \A k \in out : m <= k /\ k \in Int
  BY DEF Out
<1> HIDE DEF out
<1>3. first = m
  <2>1. first \in out /\ \A l \in out : first <= l
    BY <1>2
  <2> HIDE DEF first
  <2>2. first <= m /\ m <= first /\ first \in Int /\ m \in Int
    BY <1>2, <2>1
  <2> QED BY <2>2
<1> QED BY <1>1, <1>2, <1>3

LEMMA CountInside ==
  ASSUME NEW n \in Nat, NEW z, \A k \in 0 .. n : ~Out(z[k])
  PROVE  Count(z, n) = [iter |-> n, escaped |-> FALSE]
<1>1. {k \in 0 .. n : TrulyEscaped(z[k][1], z[k][2])} = {}
  BY DEF Out
<1> QED BY <1>1 DEF Count

LEMMA CountAtLeast ==
  ASSUME NEW n \in Nat, NEW z, NEW i \in 0 .. n, \A k \in 0 .. i : ~Out(z[k])
  PROVE  Count(z, n).iter \in Nat /\ Count(z, n).iter >= i
<1>1. CASE \A k \in 0 .. n : ~Out(z[k])
  <2>1. Count(z, n).iter = n
    BY <1>1, CountInside
  <2> QED BY <2>1
<1>2. CASE \E k \in 0 .. n : Out(z[k])
  <2>1. PICK T \in SUBSET Nat : T = {k \in 0 .. n : Out(z[k])} /\ T # {}
    <3>1. {k \in 0 .. n : Out(z[k])} \in SUBSET Nat /\ {k \in 0 .. n : Out(z[k])} # {}
      BY <1>2
    <3> QED BY <3>1
  <2>2. PICK m \in T : \A k \in T : m <= k
    BY <2>1, LeastNumber
  <2>3. m \in 0 .. n /\ Out(z[m]) /\ \A k \in 0 .. m - 1 : ~Out(z[k])
    BY <2>1, <2>2
  <2>4. m > i
    BY <2>3
  <2>5. Count(z, n).iter = IF m = 0 THEN 0 ELSE m - 1
    BY <2>3, CountEscaped
  <2> QED BY <2>3, <2>4, <2>5
<1> QED BY <1>1, <1>2

Machines == [i : Nat, x : Words, y : Words, escaped : BOOLEAN, cancelled : BOOLEAN]
Live(s) == ~s.escaped /\ ~s.cancelled

(* What an iteration of a loop does to its state s, i being the iteration  *)
(* and z the orbit.                                                        *)
FxMoves(z, stop, i, s, t) ==
  IF ~Live(s) THEN t = s
  ELSE IF stop # NoStop /\ s.i % Stride = 0 /\ s.i >= stop THEN t = [s EXCEPT !.cancelled = TRUE]
  ELSE <<s.x, s.y>> = z[i - 1] /\ ~Out(z[i - 1]) =>
         /\ ~t.cancelled /\ (t.escaped <=> Out(z[i]))
         /\ t.i = IF t.escaped THEN s.i ELSE s.i + 1
         /\ ~t.escaped => <<t.x, t.y>> = z[i]

Counted(z, n, stop, s) ==
  /\ ~s.cancelled => Ended(s) = Count(z, n)
  /\ s.cancelled => stop # NoStop /\ Count(z, n).iter >= stop

LEMMA LoopsCount ==
  ASSUME NEW n \in Nat, NEW stop \in Int, NEW z, NEW g, \A i \in 0 .. n : g[i] \in Machines,
         g[0].i = 0, ~g[0].cancelled, g[0].escaped <=> Out(z[0]), <<g[0].x, g[0].y>> = z[0],
         \A i \in 1 .. n : FxMoves(z, stop, i, g[i - 1], g[i])
  PROVE  Counted(z, n, stop, g[n])
<1> DEFINE Inside1(i) == \A k \in 0 .. i : ~Out(z[k])
           Going(i, s) == Live(s) => s.i = i /\ <<s.x, s.y>> = z[i] /\ Inside1(i)
           Gone(i, s) == s.escaped => /\ ~s.cancelled
                                      /\ \E m \in 0 .. i : /\ Out(z[m]) /\ Inside1(m - 1)
                                                           /\ s.i = IF m = 0 THEN 0 ELSE m - 1
           Stopped(i, s) == s.cancelled => /\ ~s.escaped /\ stop # NoStop /\ s.i >= stop
                                           /\ s.i \in 0 .. i /\ Inside1(s.i)
           T == {i \in 0 .. n : Going(i, g[i]) /\ Gone(i, g[i]) /\ Stopped(i, g[i])}
<1>1. 0 \in T
  <2>1. Going(0, g[0])
    BY DEF Live
  <2>2. Gone(0, g[0])
    OBVIOUS
  <2> QED BY <2>1, <2>2
<1>2. ASSUME NEW i \in 1 .. n, i - 1 \in T PROVE i \in T
  <2>1. PICK s \in Machines, t \in Machines : s = g[i - 1] /\ t = g[i]
    OBVIOUS
  <2>2. Going(i - 1, s) /\ Gone(i - 1, s) /\ Stopped(i - 1, s) /\ FxMoves(z, stop, i, s, t) /\ i \in Int
    BY <1>2, <2>1
  <2> SUFFICES Going(i, t) /\ Gone(i, t) /\ Stopped(i, t)
    BY <2>1
  <2>3. CASE ~Live(s)
    <3>1. t = s
      BY <2>2, <2>3 DEF FxMoves
    <3>2. 0 .. i - 1 \subseteq 0 .. i
      BY <2>2
    <3> QED BY <2>2, <2>3, <3>1, <3>2
  <2>4. CASE Live(s) /\ stop # NoStop /\ s.i % Stride = 0 /\ s.i >= stop
    <3>1. t = [s EXCEPT !.cancelled = TRUE]
      BY <2>2, <2>4 DEF FxMoves
    <3>2. t.cancelled /\ ~t.escaped /\ t.i = s.i
      BY <2>4, <3>1 DEF Live, Machines
    <3>3. s.i = i - 1 /\ Inside1(i - 1) /\ i - 1 \in 0 .. i
      BY <2>2, <2>4
    <3> QED BY <2>4, <3>2, <3>3 DEF Live
  <2>5. CASE Live(s) /\ ~(stop # NoStop /\ s.i % Stride = 0 /\ s.i >= stop)
    <3>1. s.i = i - 1 /\ <<s.x, s.y>> = z[i - 1] /\ Inside1(i - 1)
      BY <2>2, <2>5
    <3>2. ~Out(z[i - 1])
      BY <2>2, <3>1
    <3>3. /\ ~t.cancelled /\ (t.escaped <=> Out(z[i]))
          /\ t.i = IF t.escaped THEN s.i ELSE s.i + 1
          /\ ~t.escaped => <<t.x, t.y>> = z[i]
      BY <2>2, <2>5, <3>1, <3>2 DEF FxMoves
    <3>4. \A k \in 0 .. i : k = i \/ k \in 0 .. i - 1
      BY <2>2
    <3>5. CASE t.escaped
      <4>1. t.i = IF i = 0 THEN 0 ELSE i - 1
        BY <3>1, <3>3, <3>5
      <4>2. Gone(i, t)
        BY <3>1, <3>3, <3>5, <4>1
      <4> QED BY <3>3, <3>5, <4>2 DEF Live
    <3>6. CASE ~t.escaped
      <4>1. t.i = i
        BY <2>2, <3>1, <3>3, <3>6
      <4>2. Inside1(i)
        BY <3>1, <3>3, <3>4, <3>6
      <4> QED BY <3>3, <3>6, <4>1, <4>2
    <3> QED BY <3>5, <3>6
  <2> QED BY <2>3, <2>4, <2>5
<1>3. n \in T
  <2> HIDE DEF T
  <2>1. \A i \in 0 .. n : i \in T
    BY <1>1, <1>2, UpTo
  <2> QED BY <2>1
<1>4. PICK s \in Machines : s = g[n]
  OBVIOUS
<1>5. Going(n, s) /\ Gone(n, s) /\ Stopped(n, s)
  BY <1>3, <1>4
<1>6. CASE Live(s)
  <2>1. Ended(s) = [iter |-> n, escaped |-> FALSE]
    BY <1>5, <1>6 DEF Live, Ended, Machines
  <2> QED BY <1>4, <1>5, <1>6, <2>1, CountInside DEF Counted, Live
<1>7. CASE s.escaped
  <2>1. PICK m \in 0 .. n : Out(z[m]) /\ Inside1(m - 1) /\ s.i = IF m = 0 THEN 0 ELSE m - 1
    BY <1>5, <1>7
  <2>2. Ended(s) = [iter |-> IF m = 0 THEN 0 ELSE m - 1, escaped |-> TRUE]
    BY <1>7, <2>1 DEF Ended, Machines
  <2> QED BY <1>4, <1>5, <1>7, <2>1, <2>2, CountEscaped DEF Counted
<1>8. CASE s.cancelled
  <2>1. Count(z, n).iter \in Nat /\ Count(z, n).iter >= s.i
    BY <1>5, <1>8, CountAtLeast
  <2>2. Count(z, n).iter >= stop
    BY <1>5, <1>8, <2>1 DEF Machines
  <2> QED BY <1>4, <1>5, <1>8, <2>2 DEF Counted
<1> QED BY <1>6, <1>7, <1>8 DEF Live

LEMMA TestsAreBoolean ==
  ASSUME frac \in Formats, NEW a, NEW b
  PROVE  /\ CpuGate(a, b) \in BOOLEAN /\ CpuSquares(a, b) \in BOOLEAN
         /\ CudaGate(a, b) \in BOOLEAN /\ CudaSquares(a, b) \in BOOLEAN
<1>1. CpuSquares(a, b) \in BOOLEAN /\ CudaSquares(a, b) \in BOOLEAN
  BY DEF CpuSquares, CudaSquares, MagnitudeEscapes
<1>2. Q657 # Q459 /\ Q657 # Q360 /\ Q459 # Q360
  BY BitsAssumption DEF Q657, Q459, Q360
<1>3. CASE frac = Q657
  BY <1>1, <1>2, <1>3 DEF CpuGate, CudaGate, GateEscapes
<1>4. CASE frac = Q459
  BY <1>1, <1>2, <1>4 DEF CpuGate, CudaGate, GateEscapes
<1>5. CASE frac = Q360
  BY <1>1, <1>2, <1>5 DEF CpuGate, CudaGate, GateEscapes
<1> QED BY <1>3, <1>4, <1>5 DEF Formats

(* The next point of a loop that has not escaped, and the tests of it.     *)
LEMMA CpuMoves ==
  ASSUME frac \in Formats, NEW j, IsJob(j), NEW x \in Words, NEW y \in Words, ~TrulyEscaped(x, y)
  PROVE  LET c == Constant(j)
             q == CpuNext(j.variant, x, y, c[1], c[2])
             r == FxAfter(j, FALSE, <<x, y>>)
         IN /\ q \in Words \X Words /\ (~Out(r) => q = r)
            /\ CpuGate(q[1], q[2]) <=> Out(r)
            /\ CpuSquares(q[1], q[2]) <=> Out(r)
<1>1. PICK c \in Words, e \in Words : c = Constant(j)[1] /\ e = Constant(j)[2]
  BY JobsAreTyped
<1>2. x \in Int /\ y \in Int /\ c \in Int /\ e \in Int
  BY JobsAreTyped
<1>3. PICK v \in 0 .. 9 : v = j.variant
  BY DEF IsJob
<1>4. PICK d \in Int, g \in Int :
           /\ abs_i64_to_u64(d) <= 4 * U + 2 /\ abs_i64_to_u64(g) <= 4 * U + 2
           /\ StepRe(step_fixed[v + 1], x, y, c) = d + c
           /\ StepIm(step_fixed[v + 1], x, y, e) = g + e
           /\ CpuNext(v, x, y, c, e) = <<Wrap(d + c), Wrap(g + e)>>
  BY <1>2, CpuStep
<1>5. PICK a \in Words, b \in Words : a = Wrap(d + c) /\ b = Wrap(g + e)
  <2>1. d + c \in Int /\ g + e \in Int
    BY <1>2
  <2>2. Wrap(d + c) \in Words /\ Wrap(g + e) \in Words
    BY <2>1, Wraps
  <2> QED BY <2>2
<1>6. a \in Int /\ b \in Int
  BY JobsAreTyped
<1>7. FxAfter(j, FALSE, <<x, y>>) = <<d + c, g + e>>
  <2>1. PICK p : p = <<x, y>>
    OBVIOUS
  <2>3. p[1] = x /\ p[2] = y
    BY <2>1
  <2>2. FxAfter(j, FALSE, p) = <<StepRe(step_fixed[v + 1], x, y, c), StepIm(step_fixed[v + 1], x, y, e)>>
    BY <1>1, <1>3, <2>3, AfterIsTheStep
  <2> QED BY <1>4, <2>1, <2>2
<1>8. Out(<<d + c, g + e>>) <=> TrulyEscaped(d + c, g + e)
  BY DEF Out
<1>9. (TrulyEscaped(a, b) <=> TrulyEscaped(d + c, g + e)) /\ (~TrulyEscaped(d + c, g + e) => a = d + c /\ b = g + e)
  BY <1>4, <1>5, WrappingDecides
<1>10. (CpuGate(a, b) <=> TrulyEscaped(a, b)) /\ (CpuSquares(a, b) <=> TrulyEscaped(a, b))
  BY <1>6, CpuGateDecides, CpuSquaresDecide
<1>11. CpuNext(j.variant, x, y, Constant(j)[1], Constant(j)[2]) = <<a, b>>
  BY <1>1, <1>3, <1>4, <1>5
<1>12. PICK q : q = <<a, b>>
  OBVIOUS
<1>13. q \in Words \X Words /\ q[1] = a /\ q[2] = b
  BY <1>12
<1>14. ~Out(FxAfter(j, FALSE, <<x, y>>)) => q = FxAfter(j, FALSE, <<x, y>>)
  BY <1>7, <1>8, <1>9, <1>12
<1>15. Out(FxAfter(j, FALSE, <<x, y>>)) <=> TrulyEscaped(a, b)
  BY <1>7, <1>8, <1>9
<1> QED BY <1>10, <1>11, <1>12, <1>13, <1>14, <1>15

LEMMA CudaMoves ==
  ASSUME frac \in Formats, NEW j, IsJob(j), NEW x \in Words, NEW y \in Words, ~TrulyEscaped(x, y)
  PROVE  LET c == Constant(j)
             q == CudaNext(j.variant, x, y, c[1], c[2])
             r == FxAfter(j, TRUE, <<x, y>>)
         IN /\ q \in Words \X Words /\ (~Out(r) => q = r)
            /\ LnCudaNext(j.variant, x, y, c[1], c[2]) = q
            /\ CudaGate(q[1], q[2]) <=> Out(r)
            /\ CudaSquares(q[1], q[2]) <=> Out(r)
<1>1. PICK c \in Words, e \in Words : c = Constant(j)[1] /\ e = Constant(j)[2]
  BY JobsAreTyped
<1>2. x \in Int /\ y \in Int /\ c \in Int /\ e \in Int
  BY JobsAreTyped
<1>3. PICK v \in 0 .. 9 : v = j.variant
  BY DEF IsJob
<1>4. PICK d \in Int, g \in Int :
           /\ abs_i64_to_u64(d) <= 4 * U + 2 /\ abs_i64_to_u64(g) <= 4 * U + 2
           /\ StepRe(step_fixed[v + 1], x, y, c) = d + c
           /\ StepImCuda(step_fixed[v + 1], x, y, e) = g + e
           /\ CudaNext(v, x, y, c, e) = <<Wrap(d + c), Wrap(g + e)>>
           /\ LnCudaNext(v, x, y, c, e) = CudaNext(v, x, y, c, e)
  BY <1>2, CudaStep, SMTT(30)
<1>5. PICK a \in Words, b \in Words : a = Wrap(d + c) /\ b = Wrap(g + e)
  <2>1. d + c \in Int /\ g + e \in Int
    BY <1>2
  <2>2. Wrap(d + c) \in Words /\ Wrap(g + e) \in Words
    BY <2>1, Wraps
  <2> QED BY <2>2
<1>6. a \in Int /\ b \in Int
  BY JobsAreTyped
<1>7. FxAfter(j, TRUE, <<x, y>>) = <<d + c, g + e>>
  <2>1. PICK p : p = <<x, y>>
    OBVIOUS
  <2>3. p[1] = x /\ p[2] = y
    BY <2>1
  <2>2. FxAfter(j, TRUE, p) = <<StepRe(step_fixed[v + 1], x, y, c), StepImCuda(step_fixed[v + 1], x, y, e)>>
    BY <1>1, <1>3, <2>3, AfterIsTheStep
  <2> QED BY <1>4, <2>1, <2>2
<1>8. Out(<<d + c, g + e>>) <=> TrulyEscaped(d + c, g + e)
  BY DEF Out
<1>9. (TrulyEscaped(a, b) <=> TrulyEscaped(d + c, g + e)) /\ (~TrulyEscaped(d + c, g + e) => a = d + c /\ b = g + e)
  BY <1>4, <1>5, WrappingDecides
<1>10. (CudaGate(a, b) <=> TrulyEscaped(a, b)) /\ (CudaSquares(a, b) <=> TrulyEscaped(a, b))
  BY <1>6, CudaGateDecides, CudaSquaresDecide
<1>11. CudaNext(j.variant, x, y, Constant(j)[1], Constant(j)[2]) = <<a, b>>
  BY <1>1, <1>3, <1>4, <1>5
<1>12. LnCudaNext(j.variant, x, y, Constant(j)[1], Constant(j)[2]) = <<a, b>>
  BY <1>1, <1>3, <1>4, <1>5
<1>13. PICK q : q = <<a, b>>
  OBVIOUS
<1>14. q \in Words \X Words /\ q[1] = a /\ q[2] = b
  BY <1>13
<1>15. ~Out(FxAfter(j, TRUE, <<x, y>>)) => q = FxAfter(j, TRUE, <<x, y>>)
  BY <1>7, <1>8, <1>9, <1>13
<1>16. Out(FxAfter(j, TRUE, <<x, y>>)) <=> TrulyEscaped(a, b)
  BY <1>7, <1>8, <1>9
<1> QED BY <1>10, <1>11, <1>12, <1>13, <1>14, <1>15, <1>16

(* States of a loop that are not far from the orbit.                       *)
Sound == {s \in Machines : Live(s) => ~TrulyEscaped(s.x, s.y)}

(* The body of a loop whose next point is q, out being what the test says. *)
Advance(stop, s, q, out) ==
  IF s.escaped \/ s.cancelled THEN s
  ELSE IF stop # NoStop /\ s.i % Stride = 0 /\ s.i >= stop THEN [s EXCEPT !.cancelled = TRUE]
  ELSE [s EXCEPT !.escaped = out, !.i = IF out THEN @ ELSE @ + 1, !.x = q[1], !.y = q[2]]

LEMMA AdvanceMoves ==
  ASSUME NEW stop \in Int, NEW s \in Sound, NEW q, NEW out \in BOOLEAN, NEW r,
         Live(s) => q \in Words \X Words /\ (out <=> Out(r)) /\ (~Out(r) => q = r)
  PROVE  LET t == Advance(stop, s, q, out)
         IN /\ t \in Sound
            /\ \A z, i : (<<s.x, s.y>> = z[i - 1] /\ ~Out(z[i - 1]) => z[i] = r) => FxMoves(z, stop, i, s, t)
<1>1. s \in Machines
  BY DEF Sound
<1>2. PICK t : t = Advance(stop, s, q, out)
  OBVIOUS
<1>3. CASE ~Live(s)
  BY <1>2, <1>3 DEF Advance, FxMoves, Live
<1>4. CASE Live(s) /\ stop # NoStop /\ s.i % Stride = 0 /\ s.i >= stop
  <2>1. t = [s EXCEPT !.cancelled = TRUE]
    BY <1>2, <1>4 DEF Advance, Live
  <2>2. t \in Sound
    BY <1>1, <2>1 DEF Machines, Live, Sound
  <2> QED BY <1>2, <1>4, <2>1, <2>2 DEF FxMoves
<1>5. CASE Live(s) /\ ~(stop # NoStop /\ s.i % Stride = 0 /\ s.i >= stop)
  <2>1. t = [s EXCEPT !.escaped = out, !.i = IF out THEN @ ELSE @ + 1, !.x = q[1], !.y = q[2]]
    BY <1>2, <1>5 DEF Advance, Live
  <2>2. /\ t \in Machines /\ t.escaped = out /\ t.i = (IF out THEN s.i ELSE s.i + 1)
        /\ t.x = q[1] /\ t.y = q[2] /\ ~t.cancelled
    <3>1. q[1] \in Words /\ q[2] \in Words /\ (IF out THEN s.i ELSE s.i + 1) \in Nat
      BY <1>1, <1>5 DEF Machines
    <3>2. ~s.cancelled
      BY <1>5 DEF Live
    <3> QED BY <1>1, <2>1, <3>1, <3>2 DEF Machines
  <2>3. t \in Sound
    BY <1>5, <2>2 DEF Sound, Live, Out
  <2>4. <<t.x, t.y>> = q
    BY <1>5, <2>2
  <2> QED BY <1>2, <1>5, <2>2, <2>3, <2>4 DEF FxMoves
<1> QED BY <1>3, <1>4, <1>5

(* A loop that starts at the first point of an orbit and whose body        *)
(* carries it along counts that orbit.                                     *)
Starts(j, s) == /\ s \in Sound /\ s.i = 0 /\ ~s.cancelled /\ (s.escaped <=> Out(First(j)))
                /\ <<s.x, s.y>> = First(j)

Carries(j, cuda, stop, s, t) ==
  /\ t \in Sound
  /\ \A z, i : (<<s.x, s.y>> = z[i - 1] /\ ~Out(z[i - 1]) => z[i] = FxAfter(j, cuda, <<s.x, s.y>>))
               => FxMoves(z, stop, i, s, t)

LEMMA LoopCounts ==
  ASSUME frac \in Formats, NEW j, IsJob(j), NEW cuda \in BOOLEAN, NEW stop \in Int, NEW g,
         Starts(j, g[0]),
         \A i \in 1 .. j.iters : g[i - 1] \in Sound => Carries(j, cuda, stop, g[i - 1], g[i])
  PROVE  Counted(TrueOrbit(j, cuda), j.iters, stop, g[j.iters])
<1>1. PICK n \in Nat : n = j.iters
  BY DEF IsJob
<1>2. PICK z : /\ z = TrueOrbit(j, cuda) /\ z[0] = First(j)
               /\ \A i \in 1 .. n : ~Out(z[i - 1]) => z[i] = FxAfter(j, cuda, z[i - 1])
  BY <1>1, OrbitIsDefined
<1>3. \A i \in 0 .. n : g[i] \in Sound
  <2> DEFINE T == {i \in 0 .. n : g[i] \in Sound}
  <2>1. 0 \in T
    BY DEF Starts
  <2>2. \A i \in 1 .. n : i - 1 \in T => i \in T
    <3>1. \A i \in 1 .. n : g[i - 1] \in Sound => g[i] \in Sound
      BY <1>1 DEF Carries
    <3> QED BY <3>1
  <2> HIDE DEF T
  <2>3. \A i \in 0 .. n : i \in T
    BY <2>1, <2>2, UpTo
  <2> QED BY <2>3 DEF T
<1>4. \A i \in 0 .. n : g[i] \in Machines
  BY <1>3 DEF Sound
<1>5. \A i \in 1 .. n : FxMoves(z, stop, i, g[i - 1], g[i])
  <2> SUFFICES ASSUME NEW i \in 1 .. n PROVE FxMoves(z, stop, i, g[i - 1], g[i])
    OBVIOUS
  <2>1. i - 1 \in 0 .. n
    OBVIOUS
  <2>2. Carries(j, cuda, stop, g[i - 1], g[i])
    BY <1>1, <1>3, <2>1
  <2>3. ~Out(z[i - 1]) => z[i] = FxAfter(j, cuda, z[i - 1])
    BY <1>2
  <2> QED BY <2>2, <2>3 DEF Carries
<1>6. g[0].i = 0 /\ ~g[0].cancelled /\ (g[0].escaped <=> Out(z[0])) /\ <<g[0].x, g[0].y>> = z[0]
  BY <1>2 DEF Starts
<1>7. Counted(z, n, stop, g[n])
  BY <1>4, <1>5, <1>6, LoopsCount
<1> QED BY <1>1, <1>2, <1>7

LEMMA Iteration ==
  ASSUME NEW S, NEW a \in S, NEW b \in [S -> S], NEW n \in Nat
  PROVE  \E f \in [0 .. n -> S] : f[0] = a /\ \A i \in 1 .. n : f[i] = b[f[i - 1]]
<1>1. PICK c \in [Nat \X S -> S] : \A i \in Nat, s \in S : c[<<i, s>>] = b[s]
  <2>1. [p \in Nat \X S |-> b[p[2]]] \in [Nat \X S -> S]
    OBVIOUS
  <2> QED BY <2>1
<1>2. PICK f \in [0 .. n -> S] : f[0] = a /\ \A i \in 1 .. n : f[i] = c[<<i, f[i - 1]>>]
  <2>1. \E f \in [0 .. n -> S] : Recurs(f, a, c, n)
    BY Recursion
  <2> QED BY <2>1 DEF Recurs
<1>3. \A i \in 1 .. n : f[i] = b[f[i - 1]]
  <2> SUFFICES ASSUME NEW i \in 1 .. n PROVE f[i] = b[f[i - 1]]
    OBVIOUS
  <2>1. i \in Nat /\ f[i - 1] \in S
    BY <1>2
  <2> QED BY <1>1, <1>2, <2>1
<1> QED BY <1>2, <1>3

(* The first states of the loops.                                          *)
LEMMA FxLoopsStart ==
  ASSUME frac \in Formats, NEW j, IsJob(j)
  PROVE  /\ Starts(j, FxStart(j, CpuGate, TRUE)) /\ Starts(j, FxStart(j, CudaGate, TRUE))
         /\ ~j.julia => Starts(j, FxStart(j, CpuGate, FALSE)) /\ Starts(j, FxStart(j, CudaSquares, FALSE))
<1>1. PICK x \in Words, y \in Words : First(j) = <<x, y>> /\ x = (IF j.julia THEN j.x ELSE 0) /\ y = (IF j.julia THEN j.y ELSE 0)
  BY JobsAreTyped DEF First, IsJob
<1>2. Out(First(j)) <=> TrulyEscaped(x, y)
  BY <1>1 DEF Out
<1>3. ~TrulyEscaped(0, 0)
  <2>1. Inside(0, 0)
    BY Widths, Products DEF Inside
  <2> QED BY <2>1, InsideIsNear
<1>4. \A e \in BOOLEAN : (e <=> TrulyEscaped(x, y)) =>
        Starts(j, [i |-> 0, x |-> x, y |-> y, escaped |-> e, cancelled |-> FALSE])
  BY <1>1, <1>2 DEF Starts, Sound, Machines, Live
<1>5. ASSUME ~j.julia PROVE ~TrulyEscaped(x, y)
  BY <1>1, <1>3, <1>5
<1>6. ASSUME j.julia PROVE (CpuGate(j.x, j.y) <=> TrulyEscaped(x, y)) /\ (CudaGate(j.x, j.y) <=> TrulyEscaped(x, y))
  BY <1>1, <1>6, CpuGateDecides, CudaGateDecides
<1>7. j.julia \in BOOLEAN
  BY DEF IsJob
<1>8. PICK d \in BOOLEAN, e \in BOOLEAN :
        d = (TRUE /\ j.julia /\ CpuGate(j.x, j.y)) /\ e = (TRUE /\ j.julia /\ CudaGate(j.x, j.y))
  BY <1>7, TestsAreBoolean
<1>9. (d <=> TrulyEscaped(x, y)) /\ (e <=> TrulyEscaped(x, y))
  BY <1>5, <1>6, <1>7, <1>8
<1>10. /\ FxStart(j, CpuGate, TRUE) = [i |-> 0, x |-> x, y |-> y, escaped |-> d, cancelled |-> FALSE]
       /\ FxStart(j, CudaGate, TRUE) = [i |-> 0, x |-> x, y |-> y, escaped |-> e, cancelled |-> FALSE]
  BY <1>1, <1>8 DEF FxStart
<1>11. /\ FxStart(j, CpuGate, FALSE) = [i |-> 0, x |-> x, y |-> y, escaped |-> FALSE, cancelled |-> FALSE]
       /\ FxStart(j, CudaSquares, FALSE) = [i |-> 0, x |-> x, y |-> y, escaped |-> FALSE, cancelled |-> FALSE]
  BY <1>1 DEF FxStart
<1>12. Starts(j, FxStart(j, CpuGate, TRUE)) /\ Starts(j, FxStart(j, CudaGate, TRUE))
  BY <1>4, <1>9, <1>10
<1>13. ASSUME ~j.julia PROVE Starts(j, FxStart(j, CpuGate, FALSE)) /\ Starts(j, FxStart(j, CudaSquares, FALSE))
  BY <1>4, <1>5, <1>11, <1>13
<1> QED BY <1>12, <1>13

(* Their bodies.                                                           *)
LEMMA CpuBodies ==
  ASSUME frac \in Formats, NEW j, IsJob(j), NEW stop \in Int, NEW s \in Sound
  PROVE  /\ Carries(j, FALSE, stop, s, FxBody(j, CpuNext, CpuGate, stop, s))
         /\ Carries(j, FALSE, stop, s, FxBody(j, CpuNext, CpuSquares, stop, s))
<1>1. s.x \in Words /\ s.y \in Words
  BY DEF Sound, Machines
<1>2. PICK q : q = CpuNext(j.variant, s.x, s.y, Constant(j)[1], Constant(j)[2])
  OBVIOUS
<1>3. PICK r : r = FxAfter(j, FALSE, <<s.x, s.y>>)
  OBVIOUS
<1>4. Live(s) => /\ q \in Words \X Words /\ (~Out(r) => q = r)
                 /\ (CpuGate(q[1], q[2]) <=> Out(r)) /\ (CpuSquares(q[1], q[2]) <=> Out(r))
  BY <1>1, <1>2, <1>3, CpuMoves DEF Sound
<1>5. PICK d \in BOOLEAN, e \in BOOLEAN : d = CpuGate(q[1], q[2]) /\ e = CpuSquares(q[1], q[2])
  BY TestsAreBoolean
<1>6. /\ FxBody(j, CpuNext, CpuGate, stop, s) = Advance(stop, s, q, d)
      /\ FxBody(j, CpuNext, CpuSquares, stop, s) = Advance(stop, s, q, e)
  BY <1>2, <1>5 DEF FxBody, Advance, Constant
<1>7. Carries(j, FALSE, stop, s, Advance(stop, s, q, d)) /\ Carries(j, FALSE, stop, s, Advance(stop, s, q, e))
  BY <1>3, <1>4, <1>5, AdvanceMoves DEF Carries
<1> QED BY <1>6, <1>7

LEMMA CudaBodies ==
  ASSUME frac \in Formats, NEW j, IsJob(j), NEW stop \in Int, NEW s \in Sound
  PROVE  /\ Carries(j, TRUE, stop, s, FxBody(j, CudaNext, CudaGate, stop, s))
         /\ Carries(j, TRUE, stop, s, FxBody(j, CudaNext, CudaSquares, stop, s))
         /\ Carries(j, TRUE, stop, s, FxBody(j, LnCudaNext, CudaSquares, stop, s))
<1>1. s.x \in Words /\ s.y \in Words
  BY DEF Sound, Machines
<1>2. PICK q : q = CudaNext(j.variant, s.x, s.y, Constant(j)[1], Constant(j)[2])
  OBVIOUS
<1>3. PICK r : r = FxAfter(j, TRUE, <<s.x, s.y>>)
  OBVIOUS
<1>4. Live(s) => /\ q \in Words \X Words /\ (~Out(r) => q = r)
                 /\ LnCudaNext(j.variant, s.x, s.y, Constant(j)[1], Constant(j)[2]) = q
                 /\ (CudaGate(q[1], q[2]) <=> Out(r)) /\ (CudaSquares(q[1], q[2]) <=> Out(r))
  BY <1>1, <1>2, <1>3, CudaMoves DEF Sound
<1>5. PICK d \in BOOLEAN, e \in BOOLEAN : d = CudaGate(q[1], q[2]) /\ e = CudaSquares(q[1], q[2])
  BY TestsAreBoolean
<1>6. /\ FxBody(j, CudaNext, CudaGate, stop, s) = Advance(stop, s, q, d)
      /\ FxBody(j, CudaNext, CudaSquares, stop, s) = Advance(stop, s, q, e)
  BY <1>2, <1>5 DEF FxBody, Advance, Constant
<1>7. FxBody(j, LnCudaNext, CudaSquares, stop, s) = Advance(stop, s, q, e)
  <2>1. CASE Live(s)
    BY <1>4, <1>5, <2>1 DEF FxBody, Advance, Constant, Live
  <2>2. CASE ~Live(s)
    BY <2>2 DEF FxBody, Advance, Live
  <2> QED BY <2>1, <2>2
<1>8. Carries(j, TRUE, stop, s, Advance(stop, s, q, d)) /\ Carries(j, TRUE, stop, s, Advance(stop, s, q, e))
  BY <1>3, <1>4, <1>5, AdvanceMoves DEF Carries
<1> QED BY <1>6, <1>7, <1>8

(* The loops.                                                              *)
LEMMA CpuGateLoop ==
  ASSUME frac \in Formats, NEW j, IsJob(j), NEW stop \in Int
  PROVE  Counted(TrueOrbit(j, FALSE), j.iters, stop, FxLoop(j, CpuNext, CpuGate, CpuGate, TRUE, stop))
<1>n. PICK n \in Nat : n = j.iters
  BY DEF IsJob
<1>a. PICK a : a = FxStart(j, CpuGate, TRUE)
  OBVIOUS
<1> DEFINE Body(s) == FxBody(j, CpuNext, CpuGate, stop, s)
           E(g) == [i \in 0 .. n |-> IF i = 0 THEN a ELSE Body(g[i - 1])]
<1>1. FxLoop(j, CpuNext, CpuGate, CpuGate, TRUE, stop) = (CHOOSE g : g = E(g))[n]
  BY <1>n, <1>a DEF FxLoop
<1>s. stop \in Int
  OBVIOUS
<1>2. Starts(j, a)
  BY <1>a, FxLoopsStart
<1>3. \A s \in Sound : Carries(j, FALSE, stop, s, Body(s))
  BY <1>s, CpuBodies
<1> HIDE DEF Body
<1>4. \E g : g = E(g)
  <2>1. PICK S : S = Sound
    OBVIOUS
  <2>2. a \in S /\ \A s \in S : Body(s) \in S
    BY <1>2, <1>3, <2>1 DEF Starts, Carries
  <2>3. PICK b \in [S -> S] : \A s \in S : b[s] = Body(s)
    <3>1. [s \in S |-> Body(s)] \in [S -> S]
      BY <2>2
    <3> QED BY <3>1
  <2>4. PICK f \in [0 .. n -> S] : f[0] = a /\ \A i \in 1 .. n : f[i] = b[f[i - 1]]
    BY <2>2, Iteration, SMTT(30)
  <2>5. \A i \in 1 .. n : f[i] = Body(f[i - 1])
    BY <2>2, <2>3, <2>4
  <2>6. f = E(f)
    BY <2>1, <2>2, <2>4, <2>5
  <2> QED BY <2>6
<1>5. PICK g : g = E(g) /\ FxLoop(j, CpuNext, CpuGate, CpuGate, TRUE, stop) = g[n]
  <2> HIDE DEF E
  <2> QED BY <1>1, <1>4
<1>6. g[0] = a /\ \A i \in 1 .. n : g[i] = Body(g[i - 1])
  BY <1>5
<1>7. Starts(j, g[0]) /\ \A i \in 1 .. j.iters : g[i - 1] \in Sound => Carries(j, FALSE, stop, g[i - 1], g[i])
  BY <1>n, <1>2, <1>3, <1>6
<1>8. Counted(TrueOrbit(j, FALSE), j.iters, stop, g[j.iters])
  BY <1>s, <1>7, LoopCounts
<1> QED BY <1>n, <1>5, <1>8

LEMMA CpuSquaresLoop ==
  ASSUME frac \in Formats, NEW j, IsJob(j), NEW stop \in Int
  PROVE  Counted(TrueOrbit(j, FALSE), j.iters, stop, FxLoop(j, CpuNext, CpuGate, CpuSquares, TRUE, stop))
<1>n. PICK n \in Nat : n = j.iters
  BY DEF IsJob
<1>a. PICK a : a = FxStart(j, CpuGate, TRUE)
  OBVIOUS
<1> DEFINE Body(s) == FxBody(j, CpuNext, CpuSquares, stop, s)
           E(g) == [i \in 0 .. n |-> IF i = 0 THEN a ELSE Body(g[i - 1])]
<1>1. FxLoop(j, CpuNext, CpuGate, CpuSquares, TRUE, stop) = (CHOOSE g : g = E(g))[n]
  BY <1>n, <1>a DEF FxLoop
<1>s. stop \in Int
  OBVIOUS
<1>2. Starts(j, a)
  BY <1>a, FxLoopsStart
<1>3. \A s \in Sound : Carries(j, FALSE, stop, s, Body(s))
  BY <1>s, CpuBodies
<1> HIDE DEF Body
<1>4. \E g : g = E(g)
  <2>1. PICK S : S = Sound
    OBVIOUS
  <2>2. a \in S /\ \A s \in S : Body(s) \in S
    BY <1>2, <1>3, <2>1 DEF Starts, Carries
  <2>3. PICK b \in [S -> S] : \A s \in S : b[s] = Body(s)
    <3>1. [s \in S |-> Body(s)] \in [S -> S]
      BY <2>2
    <3> QED BY <3>1
  <2>4. PICK f \in [0 .. n -> S] : f[0] = a /\ \A i \in 1 .. n : f[i] = b[f[i - 1]]
    BY <2>2, Iteration, SMTT(30)
  <2>5. \A i \in 1 .. n : f[i] = Body(f[i - 1])
    BY <2>2, <2>3, <2>4
  <2>6. f = E(f)
    BY <2>1, <2>2, <2>4, <2>5
  <2> QED BY <2>6
<1>5. PICK g : g = E(g) /\ FxLoop(j, CpuNext, CpuGate, CpuSquares, TRUE, stop) = g[n]
  <2> HIDE DEF E
  <2> QED BY <1>1, <1>4
<1>6. g[0] = a /\ \A i \in 1 .. n : g[i] = Body(g[i - 1])
  BY <1>5
<1>7. Starts(j, g[0]) /\ \A i \in 1 .. j.iters : g[i - 1] \in Sound => Carries(j, FALSE, stop, g[i - 1], g[i])
  BY <1>n, <1>2, <1>3, <1>6
<1>8. Counted(TrueOrbit(j, FALSE), j.iters, stop, g[j.iters])
  BY <1>s, <1>7, LoopCounts
<1> QED BY <1>n, <1>5, <1>8

LEMMA CudaGateLoop ==
  ASSUME frac \in Formats, NEW j, IsJob(j)
  PROVE  Counted(TrueOrbit(j, TRUE), j.iters, NoStop, FxLoop(j, CudaNext, CudaGate, CudaGate, TRUE, NoStop))
<1>n. PICK n \in Nat : n = j.iters
  BY DEF IsJob
<1>a. PICK a : a = FxStart(j, CudaGate, TRUE)
  OBVIOUS
<1> DEFINE Body(s) == FxBody(j, CudaNext, CudaGate, NoStop, s)
           E(g) == [i \in 0 .. n |-> IF i = 0 THEN a ELSE Body(g[i - 1])]
<1>1. FxLoop(j, CudaNext, CudaGate, CudaGate, TRUE, NoStop) = (CHOOSE g : g = E(g))[n]
  BY <1>n, <1>a DEF FxLoop
<1>s. NoStop \in Int
  BY DEF NoStop
<1>2. Starts(j, a)
  BY <1>a, FxLoopsStart
<1>3. \A s \in Sound : Carries(j, TRUE, NoStop, s, Body(s))
  BY <1>s, CudaBodies
<1> HIDE DEF Body
<1>4. \E g : g = E(g)
  <2>1. PICK S : S = Sound
    OBVIOUS
  <2>2. a \in S /\ \A s \in S : Body(s) \in S
    BY <1>2, <1>3, <2>1 DEF Starts, Carries
  <2>3. PICK b \in [S -> S] : \A s \in S : b[s] = Body(s)
    <3>1. [s \in S |-> Body(s)] \in [S -> S]
      BY <2>2
    <3> QED BY <3>1
  <2>4. PICK f \in [0 .. n -> S] : f[0] = a /\ \A i \in 1 .. n : f[i] = b[f[i - 1]]
    BY <2>2, Iteration, SMTT(30)
  <2>5. \A i \in 1 .. n : f[i] = Body(f[i - 1])
    BY <2>2, <2>3, <2>4
  <2>6. f = E(f)
    BY <2>1, <2>2, <2>4, <2>5
  <2> QED BY <2>6
<1>5. PICK g : g = E(g) /\ FxLoop(j, CudaNext, CudaGate, CudaGate, TRUE, NoStop) = g[n]
  <2> HIDE DEF E
  <2> QED BY <1>1, <1>4
<1>6. g[0] = a /\ \A i \in 1 .. n : g[i] = Body(g[i - 1])
  BY <1>5
<1>7. Starts(j, g[0]) /\ \A i \in 1 .. j.iters : g[i - 1] \in Sound => Carries(j, TRUE, NoStop, g[i - 1], g[i])
  BY <1>n, <1>2, <1>3, <1>6
<1>8. Counted(TrueOrbit(j, TRUE), j.iters, NoStop, g[j.iters])
  BY <1>s, <1>7, LoopCounts
<1> QED BY <1>n, <1>5, <1>8

LEMMA CudaSquaresLoop ==
  ASSUME frac \in Formats, NEW j, IsJob(j)
  PROVE  Counted(TrueOrbit(j, TRUE), j.iters, NoStop, FxLoop(j, CudaNext, CudaGate, CudaSquares, TRUE, NoStop))
<1>n. PICK n \in Nat : n = j.iters
  BY DEF IsJob
<1>a. PICK a : a = FxStart(j, CudaGate, TRUE)
  OBVIOUS
<1> DEFINE Body(s) == FxBody(j, CudaNext, CudaSquares, NoStop, s)
           E(g) == [i \in 0 .. n |-> IF i = 0 THEN a ELSE Body(g[i - 1])]
<1>1. FxLoop(j, CudaNext, CudaGate, CudaSquares, TRUE, NoStop) = (CHOOSE g : g = E(g))[n]
  BY <1>n, <1>a DEF FxLoop
<1>s. NoStop \in Int
  BY DEF NoStop
<1>2. Starts(j, a)
  BY <1>a, FxLoopsStart
<1>3. \A s \in Sound : Carries(j, TRUE, NoStop, s, Body(s))
  BY <1>s, CudaBodies
<1> HIDE DEF Body
<1>4. \E g : g = E(g)
  <2>1. PICK S : S = Sound
    OBVIOUS
  <2>2. a \in S /\ \A s \in S : Body(s) \in S
    BY <1>2, <1>3, <2>1 DEF Starts, Carries
  <2>3. PICK b \in [S -> S] : \A s \in S : b[s] = Body(s)
    <3>1. [s \in S |-> Body(s)] \in [S -> S]
      BY <2>2
    <3> QED BY <3>1
  <2>4. PICK f \in [0 .. n -> S] : f[0] = a /\ \A i \in 1 .. n : f[i] = b[f[i - 1]]
    BY <2>2, Iteration, SMTT(30)
  <2>5. \A i \in 1 .. n : f[i] = Body(f[i - 1])
    BY <2>2, <2>3, <2>4
  <2>6. f = E(f)
    BY <2>1, <2>2, <2>4, <2>5
  <2> QED BY <2>6
<1>5. PICK g : g = E(g) /\ FxLoop(j, CudaNext, CudaGate, CudaSquares, TRUE, NoStop) = g[n]
  <2> HIDE DEF E
  <2> QED BY <1>1, <1>4
<1>6. g[0] = a /\ \A i \in 1 .. n : g[i] = Body(g[i - 1])
  BY <1>5
<1>7. Starts(j, g[0]) /\ \A i \in 1 .. j.iters : g[i - 1] \in Sound => Carries(j, TRUE, NoStop, g[i - 1], g[i])
  BY <1>n, <1>2, <1>3, <1>6
<1>8. Counted(TrueOrbit(j, TRUE), j.iters, NoStop, g[j.iters])
  BY <1>s, <1>7, LoopCounts
<1> QED BY <1>n, <1>5, <1>8

LEMMA LnLoop ==
  ASSUME frac \in Formats, NEW j, IsJob(j), ~j.julia
  PROVE  Counted(TrueOrbit(j, FALSE), j.iters, NoStop, FxLoop(j, CpuNext, CpuGate, CpuGate, FALSE, NoStop))
<1>n. PICK n \in Nat : n = j.iters
  BY DEF IsJob
<1>a. PICK a : a = FxStart(j, CpuGate, FALSE)
  OBVIOUS
<1> DEFINE Body(s) == FxBody(j, CpuNext, CpuGate, NoStop, s)
           E(g) == [i \in 0 .. n |-> IF i = 0 THEN a ELSE Body(g[i - 1])]
<1>1. FxLoop(j, CpuNext, CpuGate, CpuGate, FALSE, NoStop) = (CHOOSE g : g = E(g))[n]
  BY <1>n, <1>a DEF FxLoop
<1>s. NoStop \in Int
  BY DEF NoStop
<1>2. Starts(j, a)
  BY <1>a, FxLoopsStart
<1>3. \A s \in Sound : Carries(j, FALSE, NoStop, s, Body(s))
  BY <1>s, CpuBodies
<1> HIDE DEF Body
<1>4. \E g : g = E(g)
  <2>1. PICK S : S = Sound
    OBVIOUS
  <2>2. a \in S /\ \A s \in S : Body(s) \in S
    BY <1>2, <1>3, <2>1 DEF Starts, Carries
  <2>3. PICK b \in [S -> S] : \A s \in S : b[s] = Body(s)
    <3>1. [s \in S |-> Body(s)] \in [S -> S]
      BY <2>2
    <3> QED BY <3>1
  <2>4. PICK f \in [0 .. n -> S] : f[0] = a /\ \A i \in 1 .. n : f[i] = b[f[i - 1]]
    BY <2>2, Iteration, SMTT(30)
  <2>5. \A i \in 1 .. n : f[i] = Body(f[i - 1])
    BY <2>2, <2>3, <2>4
  <2>6. f = E(f)
    BY <2>1, <2>2, <2>4, <2>5
  <2> QED BY <2>6
<1>5. PICK g : g = E(g) /\ FxLoop(j, CpuNext, CpuGate, CpuGate, FALSE, NoStop) = g[n]
  <2> HIDE DEF E
  <2> QED BY <1>1, <1>4
<1>6. g[0] = a /\ \A i \in 1 .. n : g[i] = Body(g[i - 1])
  BY <1>5
<1>7. Starts(j, g[0]) /\ \A i \in 1 .. j.iters : g[i - 1] \in Sound => Carries(j, FALSE, NoStop, g[i - 1], g[i])
  BY <1>n, <1>2, <1>3, <1>6
<1>8. Counted(TrueOrbit(j, FALSE), j.iters, NoStop, g[j.iters])
  BY <1>s, <1>7, LoopCounts
<1> QED BY <1>n, <1>5, <1>8

LEMMA LnCudaLoop ==
  ASSUME frac \in Formats, NEW j, IsJob(j), ~j.julia
  PROVE  Counted(TrueOrbit(j, TRUE), j.iters, NoStop, FxLoop(j, LnCudaNext, CudaSquares, CudaSquares, FALSE, NoStop))
<1>n. PICK n \in Nat : n = j.iters
  BY DEF IsJob
<1>a. PICK a : a = FxStart(j, CudaSquares, FALSE)
  OBVIOUS
<1> DEFINE Body(s) == FxBody(j, LnCudaNext, CudaSquares, NoStop, s)
           E(g) == [i \in 0 .. n |-> IF i = 0 THEN a ELSE Body(g[i - 1])]
<1>1. FxLoop(j, LnCudaNext, CudaSquares, CudaSquares, FALSE, NoStop) = (CHOOSE g : g = E(g))[n]
  BY <1>n, <1>a DEF FxLoop
<1>s. NoStop \in Int
  BY DEF NoStop
<1>2. Starts(j, a)
  BY <1>a, FxLoopsStart
<1>3. \A s \in Sound : Carries(j, TRUE, NoStop, s, Body(s))
  BY <1>s, CudaBodies
<1> HIDE DEF Body
<1>4. \E g : g = E(g)
  <2>1. PICK S : S = Sound
    OBVIOUS
  <2>2. a \in S /\ \A s \in S : Body(s) \in S
    BY <1>2, <1>3, <2>1 DEF Starts, Carries
  <2>3. PICK b \in [S -> S] : \A s \in S : b[s] = Body(s)
    <3>1. [s \in S |-> Body(s)] \in [S -> S]
      BY <2>2
    <3> QED BY <3>1
  <2>4. PICK f \in [0 .. n -> S] : f[0] = a /\ \A i \in 1 .. n : f[i] = b[f[i - 1]]
    BY <2>2, Iteration, SMTT(30)
  <2>5. \A i \in 1 .. n : f[i] = Body(f[i - 1])
    BY <2>2, <2>3, <2>4
  <2>6. f = E(f)
    BY <2>1, <2>2, <2>4, <2>5
  <2> QED BY <2>6
<1>5. PICK g : g = E(g) /\ FxLoop(j, LnCudaNext, CudaSquares, CudaSquares, FALSE, NoStop) = g[n]
  <2> HIDE DEF E
  <2> QED BY <1>1, <1>4
<1>6. g[0] = a /\ \A i \in 1 .. n : g[i] = Body(g[i - 1])
  BY <1>5
<1>7. Starts(j, g[0]) /\ \A i \in 1 .. j.iters : g[i - 1] \in Sound => Carries(j, TRUE, NoStop, g[i - 1], g[i])
  BY <1>n, <1>2, <1>3, <1>6
<1>8. Counted(TrueOrbit(j, TRUE), j.iters, NoStop, g[j.iters])
  BY <1>s, <1>7, LoopCounts
<1> QED BY <1>n, <1>5, <1>8

LEMMA CountsArePrimed ==
  ASSUME frac' = frac, NEW j, NEW cuda
  PROVE  TrueCount(j, cuda)' = TrueCount(j, cuda)
<1>1. TrueOrbit(j, cuda)' = TrueOrbit(j, cuda)
  BY DEF TrueOrbit, TrulyEscaped
<1> QED BY <1>1 DEF TrueCount, TrulyEscaped

LEMMA CountedLoops ==
  ASSUME frac \in Formats, NEW j, IsJob(j), NEW tracked \in BOOLEAN, NEW stop \in Int
  PROVE  /\ iterate_fixed_int_masked(j, tracked) = TrueCount(j, FALSE)
         /\ fractal_fx64_int_kernel(j, tracked) = TrueCount(j, TRUE)
         /\ LET c == iterate_fixed_field_cancellable(j, tracked, stop)
            IN IF c.complete THEN c.result = TrueCount(j, FALSE)
               ELSE stop # NoStop /\ TrueCount(j, FALSE).iter >= stop
<1>1. TrueCount(j, FALSE) = Count(TrueOrbit(j, FALSE), j.iters) /\ TrueCount(j, TRUE) = Count(TrueOrbit(j, TRUE), j.iters)
  BY DEF TrueCount, Count
<1>2. NoStop \in Int
  BY DEF NoStop
<1>3. \A z, n, s : Counted(z, n, NoStop, s) => Ended(s) = Count(z, n)
  BY DEF Counted
<1>4. iterate_fixed_int_masked(j, tracked) = TrueCount(j, FALSE)
  <2>1. CASE tracked
    <3>1. Counted(TrueOrbit(j, FALSE), j.iters, NoStop, FxLoop(j, CpuNext, CpuGate, CpuSquares, TRUE, NoStop))
      BY <1>2, CpuSquaresLoop
    <3> QED BY <1>1, <1>3, <2>1, <3>1 DEF iterate_fixed_int_masked
  <2>2. CASE ~tracked
    <3>1. Counted(TrueOrbit(j, FALSE), j.iters, NoStop, FxLoop(j, CpuNext, CpuGate, CpuGate, TRUE, NoStop))
      BY <1>2, CpuGateLoop
    <3> QED BY <1>1, <1>3, <2>2, <3>1 DEF iterate_fixed_int_masked
  <2> QED BY <2>1, <2>2
<1>5. fractal_fx64_int_kernel(j, tracked) = TrueCount(j, TRUE)
  <2>1. CASE tracked
    BY <1>1, <1>3, <2>1, CudaSquaresLoop DEF fractal_fx64_int_kernel
  <2>2. CASE ~tracked
    BY <1>1, <1>3, <2>2, CudaGateLoop DEF fractal_fx64_int_kernel
  <2> QED BY <2>1, <2>2
<1>6. PICK s : /\ Counted(TrueOrbit(j, FALSE), j.iters, stop, s)
               /\ iterate_fixed_field_cancellable(j, tracked, stop)
                    = IF s.cancelled THEN [complete |-> FALSE] ELSE [complete |-> TRUE, result |-> Ended(s)]
  <2>1. CASE tracked
    BY <2>1, CpuSquaresLoop DEF iterate_fixed_field_cancellable
  <2>2. CASE ~tracked
    BY <2>2, CpuGateLoop DEF iterate_fixed_field_cancellable
  <2> QED BY <2>1, <2>2
<1>7. PICK c : c = iterate_fixed_field_cancellable(j, tracked, stop)
  OBVIOUS
<1>8. CASE s.cancelled
  <2>1. c = [complete |-> FALSE]
    BY <1>6, <1>7, <1>8
  <2>2. ~c.complete
    BY <2>1
  <2>3. stop # NoStop /\ TrueCount(j, FALSE).iter >= stop
    BY <1>1, <1>6, <1>8 DEF Counted
  <2> QED BY <1>4, <1>5, <1>7, <2>2, <2>3
<1>9. CASE ~s.cancelled
  <2>1. c = [complete |-> TRUE, result |-> Ended(s)]
    BY <1>6, <1>7, <1>9
  <2>2. c.complete /\ c.result = Ended(s)
    BY <2>1
  <2>3. Ended(s) = TrueCount(j, FALSE)
    BY <1>1, <1>6, <1>9 DEF Counted
  <2> QED BY <1>4, <1>5, <1>7, <2>2, <2>3
<1> QED BY <1>8, <1>9

LEMMA CountedLnLoops ==
  ASSUME frac \in Formats, NEW j, IsJob(j), ~j.julia
  PROVE  /\ render_ln_fixed_rows(j) = TrueCount(j, FALSE) /\ sample_ln_iter_fx64(j) = TrueCount(j, FALSE)
         /\ ln_map_kernel_fx64(j) = TrueCount(j, TRUE) /\ ln_map_iters_kernel_fx64(j) = TrueCount(j, TRUE)
<1>1. TrueCount(j, FALSE) = Count(TrueOrbit(j, FALSE), j.iters) /\ TrueCount(j, TRUE) = Count(TrueOrbit(j, TRUE), j.iters)
  BY DEF TrueCount, Count
<1>3. \A z, n, s : Counted(z, n, NoStop, s) => Ended(s) = Count(z, n)
  BY DEF Counted
<1>4. render_ln_fixed_rows(j) = TrueCount(j, FALSE) /\ sample_ln_iter_fx64(j) = TrueCount(j, FALSE)
  BY <1>1, <1>3, LnLoop DEF render_ln_fixed_rows, sample_ln_iter_fx64
<1>5. ln_map_kernel_fx64(j) = TrueCount(j, TRUE) /\ ln_map_iters_kernel_fx64(j) = TrueCount(j, TRUE)
  BY <1>1, <1>3, LnCudaLoop DEF ln_map_kernel_fx64, ln_map_iters_kernel_fx64
<1> QED BY <1>4, <1>5

(* The action Loop records what the loops count.                           *)
LEMMA LoopKeepsExact ==
  ASSUME frac \in Formats, Loop
  PROVE  FixedLoopsAgree'
<1>1. frac' = frac /\ work' = "loop"
  BY DEF Loop
<1>2. PICK j \in LoopJobs, tracked \in BOOLEAN, stop \in {NoStop, 1} :
        /\ input' = <<j, tracked, stop>>
        /\ output' = [cpu |-> iterate_fixed_int_masked(j, tracked),
                      cancellable |-> iterate_fixed_field_cancellable(j, tracked, stop),
                      gpu |-> fractal_fx64_int_kernel(j, tracked),
                      ln |-> IF frac # Q657 THEN {}
                             ELSE {render_ln_fixed_rows(j), sample_ln_iter_fx64(j)},
                      lngpu |-> IF frac # Q657 THEN {}
                                ELSE {ln_map_kernel_fx64(j), ln_map_iters_kernel_fx64(j)}]
  BY DEF Loop
<1>3. IsJob(j) /\ stop \in Int
  BY InputsAssumption DEF IsJob, NoStop
<1>4. /\ output'.cpu = TrueCount(j, FALSE) /\ output'.gpu = TrueCount(j, TRUE)
      /\ output'.cancellable = iterate_fixed_field_cancellable(j, tracked, stop)
  BY <1>2, <1>3, CountedLoops
<1>5. IF output'.cancellable.complete THEN output'.cancellable.result = TrueCount(j, FALSE)
      ELSE stop # NoStop /\ TrueCount(j, FALSE).iter >= stop
  BY <1>3, <1>4, CountedLoops
<1>6. ASSUME ~j.julia
      PROVE  output'.ln \subseteq {TrueCount(j, FALSE)} /\ output'.lngpu \subseteq {TrueCount(j, TRUE)}
  <2>1. CASE frac # Q657
    BY <1>2, <2>1
  <2>2. CASE frac = Q657
    <3>1. output'.ln = {render_ln_fixed_rows(j), sample_ln_iter_fx64(j)} /\ output'.lngpu = {ln_map_kernel_fx64(j), ln_map_iters_kernel_fx64(j)}
      BY <1>2, <2>2
    <3> QED BY <1>3, <1>6, <3>1, CountedLnLoops
  <2> QED BY <2>1, <2>2
<1>7. TrueCount(j, FALSE)' = TrueCount(j, FALSE) /\ TrueCount(j, TRUE)' = TrueCount(j, TRUE)
  BY <1>1, CountsArePrimed
<1>8. input'[1] = j /\ input'[3] = stop
  BY <1>2
<1> QED BY <1>4, <1>5, <1>6, <1>7, <1>8 DEF FixedLoopsAgree

-----------------------------------------------------------------------------
(* The specification.                                                      *)

ExactInv == frac \in Formats /\ FixedPointIsExact

(* What is asked of the fixed-point backends - one step, a whole orbit by  *)
(* every loop, the grid of pixels - they compute as exact numbers do, for  *)
(* words of any width whose powers and square root are as assumed.         *)
THEOREM FixedPointStaysExact == FxSpec => []FixedPointIsExact
<1>1. FxInit => ExactInv
  BY DEF FxInit, ExactInv, Formats, FixedPointIsExact, FixedEscapesExactly, FixedLoopsAgree, FixedPixelsInView
<1>2. ASSUME ExactInv, [FxNext]_fxvars PROVE ExactInv'
  <2>1. frac \in Formats
    BY <1>2 DEF ExactInv
  <2>2. CASE Step
    <3>1. frac' = frac /\ work' = "step"
      BY <2>2 DEF Step
    <3>2. FixedEscapesExactly'
      BY <2>1, <2>2, StepKeepsExact
    <3>3. FixedLoopsAgree' /\ FixedPixelsInView'
      BY <3>1 DEF FixedLoopsAgree, FixedPixelsInView
    <3> QED BY <2>1, <3>1, <3>2, <3>3 DEF ExactInv, FixedPointIsExact, Formats, Q360, Q459, Q657
  <2>3. CASE Loop
    <3>1. frac' = frac /\ work' = "loop"
      BY <2>3 DEF Loop
    <3>2. FixedLoopsAgree'
      BY <2>1, <2>3, LoopKeepsExact
    <3>3. FixedEscapesExactly' /\ FixedPixelsInView'
      BY <3>1 DEF FixedEscapesExactly, FixedPixelsInView
    <3> QED BY <2>1, <3>1, <3>2, <3>3 DEF ExactInv, FixedPointIsExact, Formats, Q360, Q459, Q657
  <2>4. CASE View
    <3>1. frac' = frac /\ work' = "view"
      BY <2>4 DEF View
    <3>2. FixedPixelsInView'
      BY <2>1, <2>4, ViewKeepsExact
    <3>3. FixedEscapesExactly' /\ FixedLoopsAgree'
      BY <3>1 DEF FixedEscapesExactly, FixedLoopsAgree
    <3> QED BY <2>1, <3>1, <3>2, <3>3 DEF ExactInv, FixedPointIsExact, Formats, Q360, Q459, Q657
  <2>5. CASE UNCHANGED fxvars
    <3>1. frac' = frac /\ work' = work /\ input' = input /\ output' = output
      BY <2>5 DEF fxvars
    <3>2. FixedEscapesExactly' /\ FixedPixelsInView'
      BY <1>2, <3>1 DEF ExactInv, FixedPointIsExact, FixedEscapesExactly, FixedPixelsInView,
                       TrulyEscaped, TrueRe, TrueIm, TrueImCuda
    <3>3. FixedLoopsAgree'
      <4>1. \A j : TrueCount(j, FALSE)' = TrueCount(j, FALSE) /\ TrueCount(j, TRUE)' = TrueCount(j, TRUE)
        BY <3>1, CountsArePrimed
      <4> QED BY <1>2, <3>1, <4>1 DEF ExactInv, FixedPointIsExact, FixedLoopsAgree
    <3> QED BY <2>1, <3>1, <3>2, <3>3 DEF ExactInv, FixedPointIsExact, Formats, Q360, Q459, Q657
  <2> QED BY <1>2, <2>2, <2>3, <2>4, <2>5 DEF FxNext
<1>3. ExactInv => FixedPointIsExact
  BY DEF ExactInv
<1> QED BY <1>1, <1>2, <1>3, PTL DEF FxSpec
=============================================================================
