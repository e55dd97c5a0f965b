---------------------------- MODULE RenderLoops ----------------------------
(***************************************************************************)
(* The loops that share a frame between the threads of a compute node:     *)
(*   field       OpenMP over tiles (variants, fixed point, formulas)       *)
(*   segments    OpenMP over pieces of rows (AVX2 and AVX-512 fields)      *)
(*   transition  OpenMP over rows (AVX2 slices)                            *)
(*   explore     OpenMP over rows, without a cancellation flag             *)
(*   map_tiles, field_tiles   CPU threads and a GPU thread over tiles      *)
(*   slabs       CPU threads and a GPU thread over slabs of a volume       *)
(*   ln          CPU threads over batches of rows of a log-polar map       *)
(* The work items are claimed from one counter; any thread may be stopped  *)
(* by the caller's cancellation, fail on the GPU, or throw.                *)
(***************************************************************************)
EXTENDS Integers, FiniteSets, Sequences, SequencesExt

CONSTANTS Loops,          \* the loops considered
          Columns, Rows,  \* the grid of work items
          Threads,        \* the CPU threads
          Gpu,            \* the thread that drives the GPU
          Batch           \* items claimed at once by the GPU thread and by ln

ASSUME BatchAssumption == Batch \in Nat \ {0}
ASSUME GridAssumption == Columns \in Nat \ {0} /\ Rows \in Nat \ {0}
ASSUME GpuAssumption == Gpu \notin Threads
ASSUME ThreadsAssumption == Threads # {}   \* default_render_threads is at least one

N == Columns * Rows
Items == 0 .. N - 1

VARIABLES frame,          \* [loop, progressive, gpu, avx2, multi]: the request
          asked,          \* should_cancel() answers TRUE from now on
          cancelled,      \* the loop's atomic flag
          next,           \* next_tile, next_z, next_row, or OpenMP's counter
          pc, claim,      \* of each thread: where it is, and [lo, hi] left
          part,           \* items begun and not finished
          made,           \* for each item, what drew it, in order
          published,      \* items the callbacks announced
          gpu_available,  \* the GPU has not failed yet (slabs)
          broken, first_error,   \* a thread threw; what is rethrown
          tiles,          \* gpu_tiles and cpu_tiles
          outcome         \* what the caller gets

loopVars == <<frame, asked, cancelled, next, pc, claim, part, made, published,
              gpu_available, broken, first_error, tiles, outcome>>

-----------------------------------------------------------------------------
(* The progressive order of a field's tiles: reversed bits, interleaved.   *)

map_progressive_reverse_bits(value, bits) ==
  FoldLeft(LAMBDA acc, b : 2 * acc + ((value \div 2^b) % 2), 0, [b \in 1 .. bits |-> b - 1])

map_progressive_work_rank(x, y, bits) ==
  LET rx == map_progressive_reverse_bits(x, bits)
      ry == map_progressive_reverse_bits(y, bits)
  IN FoldLeft(LAMBDA acc, b : acc + ((rx \div 2^b) % 2) * 4^b + ((ry \div 2^b) % 2) * 2 * 4^b,
              0, [b \in 1 .. bits |-> b - 1])

BitsOf(extent) == CHOOSE b \in 0 .. extent : 2^b >= extent /\ \A c \in 0 .. b - 1 : 2^c < extent

map_field_progressive_order ==
  LET bits == BitsOf(IF Columns > Rows THEN Columns ELSE Rows)
      rank(i) == map_progressive_work_rank(i % Columns, i \div Columns, bits)
  IN SortSeq([k \in 1 .. N |-> k - 1], LAMBDA a, b : rank(a) < rank(b))

(* std::sort permutes what it sorts.                                       *)
ASSUME OrderAssumption ==
  /\ map_field_progressive_order \in [1 .. N -> Items]
  /\ \A j, k \in 1 .. N :
       map_field_progressive_order[j] = map_field_progressive_order[k] => j = k
  /\ \A i \in Items : \E k \in 1 .. N : map_field_progressive_order[k] = i

Item(k) == IF frame.progressive THEN map_field_progressive_order[k + 1] ELSE k

-----------------------------------------------------------------------------
(* How the loops differ. *)

OpenMP == {"field", "segments", "transition", "explore"}
Tiled == {"map_tiles", "field_tiles"}
Flagged == {"field", "segments", "transition"} \cup Tiled
Cancellable == {"field", "segments"} \cup Tiled     \* an item can be left half drawn
Chunked == {"ln", "slabs"}                          \* a claim is drawn as one

Workers == Threads \cup {Gpu}
Home == IF frame.loop \in OpenMP THEN "claim" ELSE "check"

calibrated_gpu_batch == \* at least one, and never the whole frame
  LET most == IF N > 1 THEN N - 1 ELSE 1 IN IF Batch > most THEN most ELSE Batch

BatchOf(w) ==
  IF w = Gpu THEN IF frame.loop \in Tiled THEN calibrated_gpu_batch ELSE Batch
  ELSE IF frame.loop = "ln" THEN Batch ELSE 1

cancel_requested == asked \/ (frame.loop \in Flagged /\ cancelled)
Noticed == cancelled' = (cancelled \/ (frame.loop \in Flagged /\ asked))

LoopInit ==
  /\ \E l \in Loops, progressive, gpu, avx2, multi \in BOOLEAN :
       /\ progressive => l \in {"field", "segments"}
       /\ gpu => l \in Tiled
       /\ avx2 \/ multi => l = "slabs"
       /\ frame = [loop |-> l, progressive |-> progressive, gpu |-> gpu \/ l = "slabs",
                   avx2 |-> avx2, multi |-> multi]
       /\ pc = [w \in Workers |-> IF w = Gpu /\ ~frame.gpu THEN "over"
                                  ELSE IF l \in OpenMP THEN "claim" ELSE "check"]
  /\ claim = [w \in Workers |-> [lo |-> 0, hi |-> 0]]
  /\ asked = FALSE /\ cancelled = FALSE /\ next = 0
  /\ part = {} /\ published = {}
  /\ made = [i \in Items |-> << >>]
  /\ gpu_available = TRUE /\ broken = FALSE /\ first_error = FALSE
  /\ tiles = [gpu |-> 0, cpu |-> 0]
  /\ outcome = [result |-> "running", engine |-> "none"]

-----------------------------------------------------------------------------
(* The caller's cancellation, at any time. *)
Ask ==
  /\ outcome.result = "running" /\ ~asked
  /\ asked' = TRUE
  /\ UNCHANGED <<frame, cancelled, next, pc, claim, part, made, published,
                 gpu_available, broken, first_error, tiles, outcome>>

Goto(w, where) == pc' = [pc EXCEPT ![w] = where]

(* Threads look for a cancellation before they claim. *)
Check(w) ==
  /\ pc[w] = "check"
  /\ Noticed
  /\ Goto(w, IF cancel_requested THEN "over" ELSE "claim")
  /\ UNCHANGED <<frame, asked, next, claim, part, made, published, gpu_available,
                 broken, first_error, tiles, outcome>>

ClaimApart(w) == \* mutant: the counter advances by one, not by the batch
  /\ pc[w] = "claim"
  /\ next' = next + 1
  /\ IF next >= N THEN Goto(w, "over") /\ UNCHANGED claim
     ELSE /\ claim' = [claim EXCEPT ![w] =
                         [lo |-> next, hi |-> IF next + BatchOf(w) > N THEN N ELSE next + BatchOf(w)]]
          /\ Goto(w, "enter")
  /\ UNCHANGED <<frame, asked, cancelled, part, made, published, gpu_available,
                 broken, first_error, tiles, outcome>>

(* fetch_add, or the next iteration of an OpenMP dynamic schedule. *)
Claim(w) ==
  /\ pc[w] = "claim"
  /\ next' = next + BatchOf(w)
  /\ IF next >= N THEN Goto(w, "over") /\ UNCHANGED claim
     ELSE /\ claim' = [claim EXCEPT ![w] =
                         [lo |-> next, hi |-> IF next + BatchOf(w) > N THEN N ELSE next + BatchOf(w)]]
          /\ Goto(w, "enter")
  /\ UNCHANGED <<frame, asked, cancelled, part, made, published, gpu_available,
                 broken, first_error, tiles, outcome>>

Now(w) == \* what the thread draws next: one item, or all it claimed
  {Item(k) : k \in claim[w].lo .. (IF frame.loop \in Chunked THEN claim[w].hi - 1 ELSE claim[w].lo)}

OnGpu(w) == w = Gpu /\ (frame.loop \in Tiled \/ gpu_available)

(* Iterations of OpenMP loops and the tiles of the GPU thread's batch look *)
(* for a cancellation before they draw.                                    *)
Enter(w) ==
  /\ pc[w] = "enter"
  /\ LET looks == frame.loop \in OpenMP \/ (frame.loop \in Tiled /\ w = Gpu)
     IN IF looks /\ cancel_requested
        THEN Noticed /\ Goto(w, Home) /\ UNCHANGED part
        ELSE /\ part' = part \cup Now(w)
             /\ Goto(w, IF OnGpu(w) THEN "gpu" ELSE "draw")
             /\ UNCHANGED cancelled
  /\ UNCHANGED <<frame, asked, next, claim, made, published, gpu_available,
                 broken, first_error, tiles, outcome>>

(* The slabs of a multi-leg volume are drawn on the CPU by the AVX2 loop,  *)
(* or, without it, by the OpenMP loop of the pair formula.                 *)
render_cpu_range == IF frame.loop = "slabs" /\ frame.multi /\ ~frame.avx2 THEN "pair" ELSE "cpu"

Drawn(w, by) ==
  /\ part' = part \ Now(w)
  /\ made' = [i \in Items |-> IF i \in Now(w) THEN Append(made[i], by) ELSE made[i]]
  /\ Goto(w, "after")

TallyByThread(w, by) == \* mutant: the GPU thread's tiles all count as the GPU's
  tiles' = IF w = Gpu THEN [tiles EXCEPT !.gpu = @ + Cardinality(Now(w))]
           ELSE [tiles EXCEPT !.cpu = @ + Cardinality(Now(w))]

Tally(w, by) ==
  tiles' = IF by = "gpu" THEN [tiles EXCEPT !.gpu = @ + Cardinality(Now(w))]
           ELSE [tiles EXCEPT !.cpu = @ + Cardinality(Now(w))]

render_tile_gpu(w) ==
  /\ pc[w] = "gpu"
  /\ Drawn(w, "gpu") /\ Tally(w, "gpu")
  /\ UNCHANGED <<frame, asked, cancelled, next, claim, published, gpu_available,
                 broken, first_error, outcome>>

GpuRetries(w) == \* mutant: the launch is repeated
  /\ pc[w] = "gpu"
  /\ gpu_available' = (gpu_available /\ frame.loop # "slabs")
  /\ Goto(w, "enter")
  /\ UNCHANGED <<frame, asked, cancelled, next, claim, part, made, published,
                 broken, first_error, tiles, outcome>>

(* A launch that fails is drawn again on the CPU; for slabs, so is         *)
(* everything the GPU thread claims later.                                 *)
GpuFails(w) ==
  /\ pc[w] = "gpu"
  /\ gpu_available' = (gpu_available /\ frame.loop # "slabs")
  /\ Goto(w, "draw")
  /\ UNCHANGED <<frame, asked, cancelled, next, claim, part, made, published,
                 broken, first_error, tiles, outcome>>

DrawWhole(w) ==
  /\ pc[w] = "draw"
  /\ Drawn(w, render_cpu_range) /\ Tally(w, "cpu")
  /\ UNCHANGED <<frame, asked, cancelled, next, claim, published, gpu_available,
                 broken, first_error, outcome>>

(* Noticed inside an item: OpenMP loops skip on, a tile's renderer throws  *)
(* "cancelled", which ends its thread without an error.                    *)
DrawStopped(w) ==
  /\ pc[w] = "draw" /\ frame.loop \in Cancellable /\ cancel_requested
  /\ cancelled' = TRUE
  /\ Goto(w, IF frame.loop \in Tiled THEN "over" ELSE Home)
  /\ UNCHANGED <<frame, asked, next, claim, part, made, published, gpu_available,
                 broken, first_error, tiles, outcome>>

record_worker_exception(w) ==
  /\ pc[w] = "draw" /\ frame.loop \in Tiled
  /\ broken' = TRUE /\ cancelled' = TRUE /\ first_error' = TRUE
  /\ Goto(w, "over")
  /\ UNCHANGED <<frame, asked, next, claim, part, made, published, gpu_available,
                 tiles, outcome>>

(* Which finished items are announced: a segment only while nobody has     *)
(* cancelled, a chunk of ln rows only if nobody has asked.                 *)
Announced(w) ==
  CASE frame.loop = "field"     -> IF frame.progressive THEN Now(w) ELSE {}
    [] frame.loop = "segments"  -> IF frame.progressive /\ ~cancelled THEN Now(w) ELSE {}
    [] frame.loop = "map_tiles" -> Now(w)
    [] frame.loop = "ln"        -> IF asked THEN {} ELSE Now(w)
    [] OTHER                    -> {}

After(w) ==
  /\ pc[w] = "after"
  /\ published' = published \cup Announced(w)
  /\ IF frame.loop \notin Chunked /\ claim[w].lo + 1 < claim[w].hi
     THEN claim' = [claim EXCEPT ![w].lo = @ + 1] /\ Goto(w, "enter")
     ELSE UNCHANGED claim /\ Goto(w, IF frame.loop = "ln" /\ asked THEN "over" ELSE Home)
  /\ UNCHANGED <<frame, asked, cancelled, next, part, made, gpu_available,
                 broken, first_error, tiles, outcome>>

-----------------------------------------------------------------------------
(* After the join. *)

Verdict ==
  CASE frame.loop \in Tiled ->
         IF first_error THEN "failed" ELSE IF cancelled \/ asked THEN "cancelled" ELSE "complete"
    [] frame.loop \in {"field", "segments"} -> IF cancelled \/ asked THEN "cancelled" ELSE "complete"
    [] frame.loop = "transition" -> IF cancelled THEN "cancelled" ELSE "complete"
    [] frame.loop = "slabs" -> IF asked THEN "cancelled" ELSE "complete"
    [] OTHER -> "returned"              \* explore and ln leave it to their callers

engine_used ==
  IF frame.loop \notin Tiled \cup {"slabs"} THEN "cpu"
  ELSE IF tiles.gpu > 0 /\ tiles.cpu > 0 THEN "hybrid"
  ELSE IF tiles.gpu > 0 THEN "cuda" ELSE "cpu"

Join ==
  /\ outcome.result = "running"
  /\ \A w \in Workers : pc[w] = "over"
  /\ outcome' = [result |-> Verdict, engine |-> engine_used]
  /\ UNCHANGED <<frame, asked, cancelled, next, pc, claim, part, made, published,
                 gpu_available, broken, first_error, tiles>>

Work(w) ==
  \/ Check(w) \/ Claim(w) \/ Enter(w) \/ render_tile_gpu(w) \/ GpuFails(w)
  \/ DrawWhole(w) \/ DrawStopped(w) \/ record_worker_exception(w) \/ After(w)

Progress == Join \/ \E w \in Workers : Work(w)

LoopNext == Ask \/ Progress

(* The threads of the pool run. *)
LoopSpec == LoopInit /\ [][LoopNext]_loopVars /\ WF_loopVars(Progress)

-----------------------------------------------------------------------------
(* The promise to the caller.  A loop that returns normally hands out a    *)
(* whole frame, or an incomplete one to a caller who had asked to stop.    *)

AbstractFrame == INSTANCE Frame WITH
  Parts <- Items, drawn <- [i \in Items |-> Len(made[i])], shown <- published,
  result <- IF outcome.result # "returned" THEN outcome.result
            ELSE IF \A i \in Items : made[i] # << >> THEN "complete" ELSE "partial"

(* Every loop implements the abstract frame: under any interleaving of     *)
(* claims, cancellation, GPU failure and exceptions, each item is drawn at *)
(* most once, announced only when drawn, "complete" means whole, and an    *)
(* error is never reported as a cancellation.                              *)
ImplementsFrame == AbstractFrame!FrameSpec

(* engine_used says what drew the frame: "cuda" means all of it, "hybrid"  *)
(* both, also when the GPU failed halfway.                                 *)
ReportsWhoDrew ==
  outcome.result = "complete" =>
    LET ByGpu == {i \in Items : made[i] = <<"gpu">>} IN
    outcome.engine = IF ByGpu = Items THEN "cuda" ELSE IF ByGpu = {} THEN "cpu" ELSE "hybrid"

(* Every frame ends: no thread waits for another, and no cancellation or   *)
(* failure leaves the join waiting.                                        *)
EveryFrameEnds == <>(outcome.result # "running")
=============================================================================
