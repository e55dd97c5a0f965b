---------------------------- MODULE PixelKernels ----------------------------
(***************************************************************************)
(* Every vector and GPU kernel that computes the escape time of a quadratic*)
(* variant, over the pixels of a map or of a log-polar (ln) map.  Each     *)
(* backend has its own copy of the variant table, of the pixel grid and of *)
(* the loop; a request may be served by any of them, tile by tile.         *)
(*                                                                         *)
(* A job is [plane, variant, julia, jc, centre, turned, width, height,     *)
(* from, to, iters, bail, cap].  Lengths are in half pixels, so that every *)
(* pixel centre is a lattice point.                                        *)
(***************************************************************************)
EXTENDS EscapeTime

CONSTANTS LaneUnit,       \* doubles in an AVX2 register (4 in the hardware)
          Jobs            \* the requests

ASSUME LaneAssumption == LaneUnit \in Nat \ {0}

(* The radius of an ln map. *)
LnRadius == 4

(* Pixel centres, the Julia parameter and the square of the bailout are    *)
(* finite numbers; the columns of an ln map are quarter turns, at most 4.  *)
IsRequest(j) ==
  /\ j.variant \in Quadratic \cup Transcendental /\ j.julia \in BOOLEAN /\ j.turned \in {-1, 0, 1}
  /\ {j.width, j.height, j.from, j.to, j.iters, j.bail, j.cap} \subseteq Nat
  /\ j.bail * j.bail <= Huge /\ (j.plane = "ln" => j.width <= 4) /\ j.from <= j.to /\ j.to <= j.width
  /\ LET reach == j.width + j.height + j.from + LnRadius
     IN \A a \in {j.centre.re, j.centre.im} : a \in Int /\ -Huge <= a - reach /\ a + reach <= Huge
  /\ Finite(j.jc.re) /\ Finite(j.jc.im)

ASSUME JobsAssumption == \A j \in Jobs : IsRequest(j)

VARIABLES job,            \* the request being rendered
          image           \* what a kernel has written, [kernel, row, pixels]

vars == <<job, image>>

-----------------------------------------------------------------------------
(* Pixel centres.  A quarter turn, to the left (1) or to the right (-1),   *)
(* stands for every rotation with a sine.                                  *)

cos_theta(j) == IF j.turned = 0 THEN 1 ELSE 0
sin_theta(j) == j.turned

(* The loops over a row keep re_min and im_max, or dy of the row. *)
RowPixel(j, x, y) ==
  LET dx == 2 * x + 1 - j.width
      dy == -(2 * y + 1 - j.height)
  IN IF sin_theta(j) # 0
     THEN Point(j.centre.re + dx * cos_theta(j) - dy * sin_theta(j),
                j.centre.im + dx * sin_theta(j) + dy * cos_theta(j))
     ELSE Point((j.centre.re - j.width) + (2 * x + 1), (j.centre.im + j.height) - (2 * y + 1))

(* A thread of a grid of blocks computes one pixel, if it is inside. *)
CudaPixel(j, px_x, px_y) ==
  IF sin_theta(j) # 0
  THEN LET dx == 2 * px_x + 1 - j.width
           dy == -(2 * px_y + 1 - j.height)
       IN Point(j.centre.re + dx * cos_theta(j) - dy * sin_theta(j),
                j.centre.im + dx * sin_theta(j) + dy * cos_theta(j))
  ELSE Point((j.centre.re - j.width) + (2 * px_x + 1), (j.centre.im + j.height) - (2 * px_y + 1))

(* Log-polar columns are directions and rows are radii; four columns have  *)
(* exact directions.  The radius falls with every row (exp of a falling    *)
(* line), here from LnRadius by one lattice unit.                          *)
cos_col == <<1, 0, -1, 0>>
sin_col == <<0, 1, 0, -1>>

LnPixel(j, x, row) ==
  LET r == LnRadius - (j.from + row)          \* row_offset + row
  IN Point(j.centre.re + r * cos_col[x + 1], j.centre.im + r * sin_col[x + 1])

(* A thread of the ln kernels gets one index into the rows of its launch. *)
CudaLnPixel(j, idx, row_start) == LnPixel(j, idx % j.width, row_start + idx \div j.width)

Start(j, p) == IF j.julia THEN p ELSE Point(0, 0)
Param(j, p) == IF j.julia THEN j.jc ELSE p

-----------------------------------------------------------------------------
(* The variant tables of the other backends. *)

avx2_step ==
  << <<"+","+","+","+">>, <<"+","+","+","-">>, <<"|","|","+","+">>, <<"+","|","+","+">>,
     <<"|","-","+","+">>, <<"+","+","|","+">>, <<"+","+","|","-">>, <<"+","+","|","|">>,
     <<"+","|","|","+">>, <<"|","+","|","-">> >>

avx2_step_ps ==
  << <<"+","+","+","+">>, <<"+","+","+","-">>, <<"|","|","+","+">>, <<"+","|","+","+">>,
     <<"|","-","+","+">>, <<"+","+","|","+">>, <<"+","+","|","-">>, <<"+","+","|","|">>,
     <<"+","|","|","+">>, <<"|","+","|","-">> >>

avx512_step ==
  << <<"+","+","+","+">>, <<"+","+","+","-">>, <<"|","|","+","+">>, <<"+","|","+","+">>,
     <<"|","-","+","+">>, <<"+","+","|","+">>, <<"+","+","|","-">>, <<"+","+","|","|">>,
     <<"+","|","|","+">>, <<"|","+","|","-">> >>

avx512_step_ps ==
  << <<"+","+","+","+">>, <<"+","+","+","-">>, <<"|","|","+","+">>, <<"+","|","+","+">>,
     <<"|","-","+","+">>, <<"+","+","|","+">>, <<"+","+","|","-">>, <<"+","+","|","|">>,
     <<"+","|","|","+">>, <<"|","+","|","-">> >>

step_fp64_cached ==
  << <<"+","+","+","+">>, <<"+","+","+","-">>, <<"|","|","+","+">>, <<"+","|","+","+">>,
     <<"|","-","+","+">>, <<"+","+","|","+">>, <<"+","+","|","-">>, <<"+","+","|","|">>,
     <<"+","|","|","+">>, <<"|","+","|","-">> >>

step_fp32_cached ==
  << <<"+","+","+","+">>, <<"+","+","+","-">>, <<"|","|","+","+">>, <<"+","|","+","+">>,
     <<"|","-","+","+">>, <<"+","+","|","+">>, <<"+","+","|","-">>, <<"+","+","|","|">>,
     <<"+","|","|","+">>, <<"|","+","|","-">> >>

ln_avx2_step ==
  << <<"+","+","+","+">>, <<"+","+","+","-">>, <<"|","|","+","+">>, <<"+","|","+","+">>,
     <<"|","-","+","+">>, <<"+","+","|","+">>, <<"+","+","|","-">>, <<"+","+","|","|">>,
     <<"+","|","|","+">>, <<"|","+","|","-">> >>

ln_avx2_step_ps ==
  << <<"+","+","+","+">>, <<"+","+","+","-">>, <<"|","|","+","+">>, <<"+","|","+","+">>,
     <<"|","-","+","+">>, <<"+","+","|","+">>, <<"+","+","|","-">>, <<"+","+","|","|">>,
     <<"+","|","|","+">>, <<"|","+","|","-">> >>

ln_avx512_step ==
  << <<"+","+","+","+">>, <<"+","+","+","-">>, <<"|","|","+","+">>, <<"+","|","+","+">>,
     <<"|","-","+","+">>, <<"+","+","|","+">>, <<"+","+","|","-">>, <<"+","+","|","|">>,
     <<"+","|","|","+">>, <<"|","+","|","-">> >>

ln_avx512_step_ps ==
  << <<"+","+","+","+">>, <<"+","+","+","-">>, <<"|","|","+","+">>, <<"+","|","+","+">>,
     <<"|","-","+","+">>, <<"+","+","|","+">>, <<"+","+","|","-">>, <<"+","+","|","|">>,
     <<"+","|","|","+">>, <<"|","+","|","-">> >>

d_step_cached ==
  << <<"+","+","+","+">>, <<"+","+","+","-">>, <<"|","|","+","+">>, <<"+","|","+","+">>,
     <<"|","+","+","-">>, <<"+","+","|","+">>, <<"+","+","|","-">>, <<"+","+","|","|">>,
     <<"+","|","|","+">>, <<"|","+","|","-">> >>

d_step_cached_f ==
  << <<"+","+","+","+">>, <<"+","+","+","-">>, <<"|","|","+","+">>, <<"+","|","+","+">>,
     <<"|","+","+","-">>, <<"+","+","|","+">>, <<"+","+","|","-">>, <<"+","+","|","|">>,
     <<"+","|","|","+">>, <<"|","+","|","-">> >>

-----------------------------------------------------------------------------
(* Vector loops.  A kernel takes a row in groups of lanes; a mask says     *)
(* which lanes still iterate.  A kernel is described by its lanes, its     *)
(* table, whether lanes past the end of the row start masked out           *)
(* ("masked") or are given a far point and iterate ("far"), and whether z  *)
(* moves in the lanes active before this iteration's escapes or after      *)
(* them.                                                                   *)

Kernel(lanes, folds, tail, moves) ==
  [lanes |-> lanes, folds |-> folds, tail |-> tail, moves |-> moves]

avx2_fp64_row   == Kernel(LaneUnit,     avx2_step,       "masked", "before")
avx2_fp32_row   == Kernel(2 * LaneUnit, avx2_step_ps,    "masked", "after")
avx512_fp64_row == Kernel(2 * LaneUnit, avx512_step,     "far",    "before")
avx512_fp32_row == Kernel(4 * LaneUnit, avx512_step_ps,  "masked", "after")
ln_avx2_rows        == Kernel(LaneUnit,     ln_avx2_step,      "masked", "after")
ln_avx2_rows_fp32   == Kernel(2 * LaneUnit, ln_avx2_step_ps,   "masked", "after")
ln_avx512_rows      == Kernel(2 * LaneUnit, ln_avx512_step,    "masked", "after")
ln_avx512_rows_fp32 == Kernel(4 * LaneUnit, ln_avx512_step_ps, "masked", "after")

MapRowKernels ==
  [avx2_fp64 |-> avx2_fp64_row, avx2_fp32 |-> avx2_fp32_row,
   avx512_fp64 |-> avx512_fp64_row, avx512_fp32 |-> avx512_fp32_row]
LnRowKernels ==
  [avx2_fp64 |-> ln_avx2_rows, avx2_fp32 |-> ln_avx2_rows_fp32,
   avx512_fp64 |-> ln_avx512_rows, avx512_fp32 |-> ln_avx512_rows_fp32]

(* Mutant of Blend: the mask is forgotten. *)
BlendEveryLane(mask, old, new) == new

(* blendv and mask_mov: the lanes of a mask take the new value. *)
Blend(mask, old, new) == [l \in DOMAIN old |-> IF l \in mask THEN new[l] ELSE old[l]]

(* x86 min and max answer their second operand when one is NaN. *)
VMin(a, b) == [l \in DOMAIN a |-> IF Gt(b[l], a[l]) THEN a[l] ELSE b[l]]
VMax(a, b) == [l \in DOMAIN a |-> IF Gt(a[l], b[l]) THEN a[l] ELSE b[l]]

LanesStart(k, j, pts, inside) ==
  [i |-> 0, z |-> [l \in DOMAIN pts |-> Cached(Start(j, pts[l]))],
   c |-> [l \in DOMAIN pts |-> Param(j, pts[l])],
   min |-> [l \in DOMAIN pts |-> Inf], max |-> [l \in DOMAIN pts |-> 0],
   iter |-> [l \in DOMAIN pts |-> j.iters], norm |-> [l \in DOMAIN pts |-> 0],
   active |-> IF k.tail = "far" THEN DOMAIN pts ELSE inside]

LanesStep(k, j, g) ==
  IF g.active = {} THEN g
  ELSE LET new == [l \in DOMAIN g.z |-> QuadraticStep(k.folds[j.variant + 1], g.z[l], g.c[l])]
           n2  == [l \in DOMAIN g.z |-> Add(new[l].re2, new[l].im2)]
           out == {l \in g.active : Gt(n2[l], j.bail * j.bail) \/ n2[l] = NaN}
       IN [g EXCEPT !.i = g.i + 1,
                    !.min = Blend(g.active, @, VMin(@, n2)),
                    !.max = Blend(g.active, @, VMax(@, n2)),
                    !.iter = Blend(out, @, [l \in DOMAIN @ |-> g.i]),
                    !.norm = Blend(out, @, n2),
                    !.z = Blend(IF k.moves = "before" THEN g.active ELSE g.active \ out, @, new),
                    !.active = @ \ out]

FarPoint == Point(Huge, 0)

(* The pixels x_begin .. x_limit - 1 of a row whose pixel x is At(x). *)
Row(k, j, x_begin, x_limit, At(_)) ==
  [x \in x_begin .. x_limit - 1 |->
     LET first == x_begin + ((x - x_begin) \div k.lanes) * k.lanes
         lanes == 0 .. k.lanes - 1
         inside == {l \in lanes : first + l < x_limit}
         pts == [l \in lanes |-> IF l \in inside THEN At(first + l) ELSE FarPoint]
         g == Iterate(j.iters, LanesStart(k, j, pts, inside), LAMBDA s : LanesStep(k, j, s))
         l == x - first
     IN [iter |-> IF l \in g.active THEN j.iters ELSE g.iter[l],
         norm |-> IF l \in g.active THEN 0 ELSE g.norm[l],
         min |-> g.min[l], max |-> g.max[l], escaped |-> l \notin g.active]]

-----------------------------------------------------------------------------
(* GPU threads: one pixel, an ordinary loop that breaks. *)

ThreadBody(folds, j, c, s) ==
  IF s.escaped THEN s
  ELSE LET z   == QuadraticStep(folds[j.variant + 1], s.z, c)
           n2  == FiniteNorm(z)
           out == ~(Finite(z.re) /\ Finite(z.im)) \/ Gt(n2, j.bail * j.bail)
       IN [s EXCEPT !.min = IF Gt(@, n2) THEN n2 ELSE @, !.max = IF Gt(n2, @) THEN n2 ELSE @,
                    !.norm = IF out THEN n2 ELSE @, !.escaped = out,
                    !.i = IF out THEN @ ELSE @ + 1, !.z = IF out THEN @ ELSE z]

Thread(folds, j, p) ==
  LET s == Iterate(j.iters, [i |-> 0, z |-> Cached(Start(j, p)), min |-> Inf, max |-> 0,
                             norm |-> 0, escaped |-> FALSE],
                   LAMBDA t : ThreadBody(folds, j, Param(j, p), t))
  IN [iter |-> s.i, norm |-> s.norm, min |-> s.min, max |-> s.max, escaped |-> s.escaped]

fractal_fp64(j, x, y) == Thread(step_fp64_cached, j, CudaPixel(j, x, y))
fractal_fp32(j, x, y) == Thread(step_fp32_cached, j, CudaPixel(j, x, y))
fractal_field_fp64(j, x, y) == Thread(step_fp64_cached, j, CudaPixel(j, x, y))
fractal_field_fp32(j, x, y) == Thread(step_fp32_cached, j, CudaPixel(j, x, y))

(* An ln launch covers row_count rows from row_start, one thread per index. *)
ln_map_kernel(j, idx, row_start)            == Thread(d_step_cached, j, CudaLnPixel(j, idx, row_start))
ln_map_kernel_fp32(j, idx, row_start)       == Thread(d_step_cached_f, j, CudaLnPixel(j, idx, row_start))
ln_map_iters_kernel(j, idx, row_start)      == Thread(d_step_cached, j, CudaLnPixel(j, idx, row_start))
ln_map_iters_kernel_fp32(j, idx, row_start) == Thread(d_step_cached_f, j, CudaLnPixel(j, idx, row_start))

-----------------------------------------------------------------------------
(* Scalar loops over the log-polar plane: the OpenMP rows, the samples of  *)
(* the planner and the raw counts.                                         *)

LnScalar(j, x, row) ==
  LET p == LnPixel(j, x, row) IN iterate_masked(j, Start(j, p), Param(j, p))

render_ln_openmp_rows(j, x, row) == LnScalar(j, x, row)
sample_ln_iter_fp64(j, x, row) == LnScalar(j, x, row)
sample_ln_iter_fp32(j, x, row) == LnScalar(j, x, row)
compute_ln_iters_fp64(j, x, row) == LnScalar(j, x, row)

(* The wrappers of the vector kernels clamp the rows they are asked for. *)
clamp_rows(j, row_start, row_count) ==
  LET start == IF row_start < j.height THEN row_start ELSE j.height
      end   == IF start + row_count < j.height THEN start + row_count ELSE j.height
  IN start .. end - 1

-----------------------------------------------------------------------------
(* A request is rendered by one of the kernels, a row at a time. *)

Nothing == [kernel |-> "none"]

Init == job \in Jobs /\ image = Nothing

Wrote(kernel, y, pixels) ==
  /\ image' = [kernel |-> kernel, y |-> y, pixels |-> pixels]
  /\ UNCHANGED job

Fresh == image = Nothing

(* A vector row asks for a cancellation when it starts a group and at      *)
(* every stride of its loop, all but AVX-512's of single precision.  A     *)
(* group writes when its loop has ended, so the row ends after some whole  *)
(* groups or at its last pixel.                                            *)
RowEnds(name) ==
  {x \in job.from .. job.to :
     x = job.to \/ (name # "avx512_fp32" /\ (x - job.from) % MapRowKernels[name].lanes = 0)}

RenderMapRow ==
  /\ Fresh /\ job.plane = "map" /\ job.variant \in Quadratic
  /\ \E name \in DOMAIN MapRowKernels, y \in 0 .. job.height - 1 :
       LET row == Row(MapRowKernels[name], job, job.from, job.to, LAMBDA x : RowPixel(job, x, y))
       IN \E end \in RowEnds(name) : Wrote(name, y, [x \in job.from .. end - 1 |-> row[x]])

RenderMapThreads ==
  /\ Fresh /\ job.plane = "map" /\ job.variant \in Quadratic
  /\ \E y \in 0 .. job.height - 1 :
       \/ Wrote("gpu_fp64", y, [x \in 0 .. job.width - 1 |-> fractal_fp64(job, x, y)])
       \/ Wrote("gpu_fp32", y, [x \in 0 .. job.width - 1 |-> fractal_fp32(job, x, y)])
       \/ Wrote("gpu_field_fp64", y, [x \in 0 .. job.width - 1 |-> fractal_field_fp64(job, x, y)])
       \/ Wrote("gpu_field_fp32", y, [x \in 0 .. job.width - 1 |-> fractal_field_fp32(job, x, y)])

RenderMapScalar ==
  /\ Fresh /\ job.plane = "map"
  /\ \E y \in 0 .. job.height - 1 :
       Wrote("scalar", y, [x \in job.from .. job.to - 1 |->
         LET p == RowPixel(job, x, y) IN iterate_masked(job, Start(job, p), Param(job, p))])

RenderCancellable ==
  /\ Fresh /\ job.plane = "map"
  /\ \E y \in 0 .. job.height - 1, stop \in {Never} \cup 0 .. job.iters :
       LET Run(x) == LET p == RowPixel(job, x, y) IN
             IF job.cap > 0 THEN iterate_pairwise_field_cancellable(job, Start(job, p), Param(job, p), stop)
             ELSE iterate_field_cancellable(job, Start(job, p), Param(job, p), stop)
       IN /\ image' = [kernel |-> "cancellable", y |-> y, stop |-> stop,
                       pixels |-> [x \in job.from .. job.to - 1 |-> Run(x)]]
          /\ UNCHANGED job

RenderPairwise ==
  /\ Fresh /\ job.plane = "map" /\ job.cap > 0
  /\ \E y \in 0 .. job.height - 1 :
       Wrote("pairwise", y, [x \in job.from .. job.to - 1 |->
         LET p == RowPixel(job, x, y) IN iterate_pairwise(job, Start(job, p), Param(job, p))])

(* The ln kernels keep the iteration count only. *)
WroteCounts(kernel, y, pixels) == Wrote(kernel, y, [x \in DOMAIN pixels |-> pixels[x].iter])

RenderLnRow ==
  /\ Fresh /\ job.plane = "ln" /\ job.variant \in Quadratic
  /\ \E name \in DOMAIN LnRowKernels, start \in 0 .. job.height : \E y \in clamp_rows(job, start, 1) :
       WroteCounts(name, y, Row(LnRowKernels[name], job, 0, job.width, LAMBDA x : LnPixel(job, x, y)))

RenderLnThreads ==
  /\ Fresh /\ job.plane = "ln" /\ job.variant \in Quadratic
  /\ \E start \in 0 .. job.height - 1 : \E y \in start .. job.height - 1 :
       LET idx(x) == (y - start) * job.width + x
           Line == 0 .. job.width - 1
       IN \/ WroteCounts("gpu_fp64", y, [x \in Line |-> ln_map_kernel(job, idx(x), start)])
          \/ WroteCounts("gpu_fp32", y, [x \in Line |-> ln_map_kernel_fp32(job, idx(x), start)])
          \/ WroteCounts("gpu_iters_fp64", y, [x \in Line |-> ln_map_iters_kernel(job, idx(x), start)])
          \/ WroteCounts("gpu_iters_fp32", y, [x \in Line |-> ln_map_iters_kernel_fp32(job, idx(x), start)])

RenderLnScalar ==
  /\ Fresh /\ job.plane = "ln"
  /\ \E y \in 0 .. job.height - 1 :
       \/ WroteCounts("openmp", y, [x \in 0 .. job.width - 1 |-> render_ln_openmp_rows(job, x, y)])
       \/ WroteCounts("raw_counts", y, [x \in 0 .. job.width - 1 |-> compute_ln_iters_fp64(job, x, y)])
       \/ job.variant \in Quadratic
          /\ WroteCounts("sample_fp64", y, [x \in 0 .. job.width - 1 |-> sample_ln_iter_fp64(job, x, y)])
       \/ job.variant \in Quadratic
          /\ WroteCounts("sample_fp32", y, [x \in 0 .. job.width - 1 |-> sample_ln_iter_fp32(job, x, y)])

Next ==
  \/ RenderMapRow \/ RenderMapThreads \/ RenderMapScalar \/ RenderCancellable
  \/ RenderPairwise \/ RenderLnRow \/ RenderLnThreads \/ RenderLnScalar

Spec == Init /\ [][Next]_vars

-----------------------------------------------------------------------------
(* Reference: the pixel by geometry, the orbit by its recurrence, the      *)
(* answers by their meaning.                                               *)

TruePixel(j, x, y) ==
  IF j.plane = "ln" THEN LnPixel(j, x, y)
  ELSE LET dx == 2 * x + 1 - j.width
           dy == j.height - (2 * y + 1)
       IN IF j.turned = 0 THEN Point(j.centre.re + dx, j.centre.im + dy)
          ELSE Point(j.centre.re - j.turned * dy, j.centre.im + j.turned * dx)

TrueStep(j, z, c) ==
  IF j.variant \in Quadratic THEN QuadraticStep(variant_step[j.variant], z, c)
  ELSE TranscendentalStep(j.variant, z, c)

Orbit(j, p) ==
  LET z[n \in 0 .. j.iters] == IF n = 0 THEN Cached(Start(j, p)) ELSE TrueStep(j, z[n - 1], Param(j, p))
  IN z

Escapes(j, z) ==
  \/ ~Finite(z.re) \/ ~Finite(z.im)
  \/ IF j.variant \in Quadratic THEN FiniteNorm(z) > j.bail * j.bail
     ELSE Magnitude(z.re) >= j.bail \/ Magnitude(z.im) >= j.bail

Least(S) == CHOOSE a \in S : \A b \in S : a <= b
Greatest(S) == CHOOSE a \in S : \A b \in S : a >= b

(* The orbit's points count up to and with the one that escapes. *)
Last(j, z, n) == LET out == {i \in 1 .. n : Escapes(j, z[i])} IN IF out = {} THEN n ELSE Least(out)

Reference(j, x, y) ==
  LET z == Orbit(j, TruePixel(j, x, y))
      last == Last(j, z, j.iters)
      norms == {FiniteNorm(z[i]) : i \in 1 .. last}
      escaped == \E i \in 1 .. j.iters : Escapes(j, z[i])
  IN [iter |-> IF escaped THEN last - 1 ELSE j.iters, escaped |-> escaped,
      norm |-> IF escaped THEN FiniteNorm(z[last]) ELSE 0,
      min |-> Least(norms \cup {Inf}), max |-> Greatest(norms \cup {0})]

ReferencePairwise(j, x, y) ==
  LET z == Orbit(j, TruePixel(j, x, y))
      last == Last(j, z, IF j.cap < j.iters THEN j.cap ELSE j.iters)
      pairs == {q \in (1 .. last) \X (1 .. last) : q[1] > q[2]}
  IN Least({Inf} \cup ({Distance2(z[q[1]], z[q[2]]) : q \in pairs} \ {NaN}))

(* A norm that is not finite may be infinite or NaN, and then nothing is   *)
(* said of the smallest and the largest norm.                              *)
Matches(a, r) ==
  /\ a.iter = r.iter /\ a.escaped = r.escaped
  /\ Finite(r.norm) => a.norm = r.norm /\ a.min = r.min /\ a.max = r.max
  /\ ~Finite(r.norm) => ~Finite(a.norm)

(* Whichever kernel renders a row, scalar, vector or GPU, of the plane or  *)
(* of its log-polar map, every pixel it writes before it ends or is        *)
(* cancelled gets the iteration count, the norm and the extremes of the    *)
(* orbit of its own point: no lane of a partial group, lane that went on   *)
(* after its neighbours escaped, pixel grid or copy of a variant differs.  *)
KernelsAgree ==
  job.plane \in {"map", "ln"} /\ image.kernel \notin {"none", "cancellable", "pairwise"} =>
    \A x \in DOMAIN image.pixels :
      IF job.plane = "ln" THEN image.pixels[x] = Reference(job, x, image.y).iter
      ELSE Matches(image.pixels[x], Reference(job, x, image.y))

(* A scalar loop that can be cancelled answers exactly what the plain loop *)
(* would, or answers that it was cancelled, no later than CancelStride     *)
(* iterations after the request; the distances are those of all pairs of   *)
(* points.                                                                 *)
CancelIsClean ==
  /\ image.kernel = "pairwise" =>
       \A x \in DOMAIN image.pixels : image.pixels[x] = ReferencePairwise(job, x, image.y)
  /\ image.kernel = "cancellable" =>
       \A x \in DOMAIN image.pixels :
         LET r == image.pixels[x] IN
         /\ r.complete =>
              IF job.cap > 0 THEN r.result = ReferencePairwise(job, x, image.y)
              ELSE Matches(r.result, Reference(job, x, image.y))
         /\ ~r.complete => image.stop # Never /\ r.at >= image.stop
         /\ image.stop # Never => r.at < image.stop + CancelStride
=============================================================================
