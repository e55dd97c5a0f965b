----------------------------- MODULE Transition -----------------------------
(***************************************************************************)
(* Slices of a transition space (compute/transition_kernel.cpp, its AVX2   *)
(* and its CUDA copy).  One real axis is shared by several imaginary ones, *)
(* each folded as its own variant; a screen point (u, v) is embedded with  *)
(* v spread over the axes.  Slices at right angles are plain maps.         *)
(*                                                                         *)
(* A slice job is a job of PixelKernels with plane "slice" and the fields  *)
(*   legs    <<[variant, dir, influence]>>, what is made of the angle or   *)
(*           of the weights of a multi transition,                         *)
(*   direct  "none", or the plain map the angle asks for.                  *)
(* dir is the cosine or sine in units that keep v * dir on the lattice;    *)
(* influences other than 1 would leave it, so the weights of a job's legs  *)
(* are equal.                                                              *)
(*                                                                         *)
(* The transition volumes (compute/transition_volume.cpp, its AVX2 and its *)
(* CUDA copy) iterate the same formulas over the voxels of a cube; plane   *)
(* "volume", legs <<[variant, y_factor, z_factor, influence]>>.            *)
(***************************************************************************)
EXTENDS PixelKernels, TLC

-----------------------------------------------------------------------------
(* Angles, in thousandths of a degree. *)

HalfTurn == 180000

(* The % of C++ keeps the sign of the dividend. *)
Remainder(a, b) == IF a >= 0 THEN a % b ELSE -((-a) % b)

normalize_transition_milli_deg(mdeg) ==
  LET r == Remainder(mdeg + HalfTurn, 2 * HalfTurn)
      wrapped == (IF r < 0 THEN r + 2 * HalfTurn ELSE r) - HalfTurn
  IN IF wrapped = -HalfTurn /\ mdeg > 0 THEN HalfTurn ELSE wrapped

direct_slice_for_milli_deg(mdeg) ==
  CASE mdeg = 0      -> "From"
    [] mdeg = 90000  -> "To"
    [] mdeg = -90000 -> "ToFlipY"
    [] mdeg \in {HalfTurn, -HalfTurn} -> "FromFlipY"
    [] OTHER -> "None"

(* What an angle makes of a pair of variants.  Every angle inside a        *)
(* quadrant has the same cosine and sine here, of different sizes.         *)
CosSin(mdeg) ==
  CASE mdeg = 0 -> <<1, 0>> [] mdeg = 90000 -> <<0, 1>> [] mdeg = -90000 -> <<0, -1>>
    [] mdeg \in {HalfTurn, -HalfTurn} -> <<-1, 0>>
    [] OTHER -> <<IF mdeg \in -90000 .. 90000 THEN 2 ELSE -2, IF mdeg > 0 THEN 1 ELSE -1>>

PairSlice(j, from_variant, to_variant, theta_milli_deg) ==
  LET mdeg == normalize_transition_milli_deg(theta_milli_deg)
      Leg(v, dir) == [variant |-> v, dir |-> dir, influence |-> 1]
  IN j @@ [direct |-> direct_slice_for_milli_deg(mdeg), mdeg |-> theta_milli_deg,
           legs |-> <<Leg(from_variant, CosSin(mdeg)[1]), Leg(to_variant, CosSin(mdeg)[2])>>]

(* Legs of a multi transition: at most four, of quadratic variants; those  *)
(* without a positive weight are dropped, and the others share the unit    *)
(* vector.  Unit / |w| is whole for one leg and for four equal ones.       *)
MaxLegs == 4
Unit == 2
IntSqrt(n) == CHOOSE r \in 0 .. n : r * r = n
Refused == <<>>

active_transition_legs(input) ==
  LET kept == SelectSeq(input, LAMBDA l : l.weight > 0)
      max  == CHOOSE w \in {kept[i].weight : i \in DOMAIN kept} : \A i \in DOMAIN kept : w >= kept[i].weight
      sum2[i \in 0 .. Len(kept)] == IF i = 0 THEN 0 ELSE sum2[i - 1] + kept[i].weight * kept[i].weight
  IN IF Len(input) > MaxLegs \/ (\E i \in DOMAIN input : input[i].variant \notin Quadratic) \/ kept = <<>>
     THEN Refused
     ELSE [i \in DOMAIN kept |->
             [variant |-> kept[i].variant, dir |-> (Unit * kept[i].weight) \div IntSqrt(sum2[Len(kept)]),
              influence |-> kept[i].weight \div max]]

(* Axes of a volume's legs: one, two at right angles, or spread over the   *)
(* turn, in units of their common length.                                  *)
active_volume_legs(input) ==
  LET kept == SelectSeq(input, LAMBDA l : l.weight > 0)
      n == Len(kept)
      Axis(i) == IF n = 1 THEN <<1, 0>> ELSE IF n = 2 THEN << <<1, 0>>, <<0, 1>> >>[i]
                 ELSE << <<1, 0>>, <<0, 1>>, <<-1, 0>>, <<0, -1>> >>[i]
  IN IF Len(input) > MaxLegs \/ (\E i \in DOMAIN input : input[i].variant \notin Quadratic) \/ kept = <<>>
     THEN Refused
     ELSE [i \in DOMAIN kept |->
             [variant |-> kept[i].variant, y_factor |-> Axis(i)[1], z_factor |-> Axis(i)[2], influence |-> 1]]

MultiVolume(j, input) == j @@ [legs |-> active_volume_legs(input)]

PairVolume(j, from_variant, to_variant) ==
  j @@ [legs |-> <<[variant |-> from_variant, y_factor |-> 1, z_factor |-> 0, influence |-> 1],
                   [variant |-> to_variant, y_factor |-> 0, z_factor |-> 1, influence |-> 1]>>]

MultiSlice(j, input) == j @@ [direct |-> "None", legs |-> active_transition_legs(input)]

-----------------------------------------------------------------------------
(* What the jobs of slices and volumes are: the legs share the unit vector *)
(* or lie on the axes, and only a slice has a Julia set.  A slice that is  *)
(* a plain map is a pair with one axis along v; its bailout is positive,   *)
(* as the handlers ask, and the numbers reach far beyond it and beyond the *)
(* Julia parameter.                                                        *)
SliceLegs == [variant : Quadratic, dir : -Huge .. Huge, influence : {1}]
VolumeLegs == [variant : Quadratic, y_factor : {-1, 0, 1}, z_factor : {-1, 0, 1}, influence : {1}]

RightAngles == [From |-> <<1, 0>>, To |-> <<0, 1>>, ToFlipY |-> <<0, -1>>, FromFlipY |-> <<-1, 0>>]

IsRightAngle(j) ==
  /\ j.direct \in DOMAIN RightAngles /\ Len(j.legs) = 2
  /\ \A k \in 1 .. 2 : j.legs[k].dir = RightAngles[j.direct][k]
  /\ j.bail >= 1 /\ 12 * j.bail <= Huge
  /\ 4 * (j.bail + Magnitude(j.jc.re) + Magnitude(j.jc.im)) <= Huge

JobFields ==
  {"plane", "variant", "julia", "jc", "centre", "turned", "width", "height", "from", "to", "iters", "bail", "cap", "legs"}

IsSlice(j) ==
  /\ JobFields \subseteq DOMAIN j /\ Len(j.legs) \in 1 .. MaxLegs
  /\ j.plane = "slice" => j.legs \in Seq(SliceLegs) /\ (j.direct # "None" => IsRightAngle(j))
  /\ j.plane = "volume" => j.legs \in Seq(VolumeLegs) /\ ~j.julia

ASSUME SlicesAssumption == \A j \in Jobs : j.plane \in {"slice", "volume"} => IsSlice(j)

-----------------------------------------------------------------------------
(* Screen points: the row loops with a rotation and without, and the GPU's *)
(* thread, which always rotates.                                           *)
transition_viewport_point(j, x, y) == RowPixel(j, x, y)

rotated_viewport_point(j, px, py) ==
  LET dx == 2 * px + 1 - j.width
      dy == -(2 * py + 1 - j.height)
  IN Point(j.centre.re + dx * cos_theta(j) - dy * sin_theta(j),
           j.centre.im + dx * sin_theta(j) + dy * cos_theta(j))

(* Voxels of a cube of j.width a side; the GPU counts through its slab. *)
Voxel(j, xi, yi, zi) ==
  LET At(i) == 2 * i + 1 - j.width IN [re |-> j.centre.re + At(xi), y |-> j.centre.im + At(yi), z |-> At(zi)]

CudaVoxel(j, idx, z_start) ==
  Voxel(j, idx % j.width, (idx \div j.width) % j.width, z_start + idx \div (j.width * j.width))

EmbedVoxel(legs, p) ==
  [x |-> p.re, axis |-> [k \in DOMAIN legs |-> Add(Mul(p.y, legs[k].y_factor), Mul(p.z, legs[k].z_factor))]]

Embed(legs, p) == [x |-> p.re, axis |-> [k \in DOMAIN legs |-> Mul(p.im, legs[k].dir)]]

-----------------------------------------------------------------------------
(* The other copies of variant_transition_*_projection.  The AVX2 and the  *)
(* CUDA copies fold the factors by flags, the scalar one by cases.         *)

FlaggedReal(post_abs, v, x2, a2) ==
  LET q == Add(x2, Neg(a2)) IN IF v \in post_abs THEN Magnitude(q) ELSE q

FlaggedImag(abs_x, abs_axis, neg, v, x, a) ==
  LET p == IF v \in abs_x THEN Magnitude(x) ELSE x
      q == Mul(2, Mul(p, IF v \in abs_axis THEN Magnitude(a) ELSE a))
  IN IF v \in neg THEN Neg(q) ELSE q

fold_rules ==
  [post_abs_real |-> {5, 6, 7, 8, 9}, abs_x |-> {2, 4, 7, 9}, abs_axis |-> {2, 3, 8, 7},
   neg_imag |-> {1, 4, 6, 9}]
real_projection_pd(v, x2, a2) == FlaggedReal(fold_rules.post_abs_real, v, x2, a2)
imag_projection_pd(v, x, a) ==
  FlaggedImag(fold_rules.abs_x, fold_rules.abs_axis, fold_rules.neg_imag, v, x, a)

real_projection_d(v, x2, a2) == FlaggedReal({5, 6, 7, 8, 9}, v, x2, a2)
imag_projection_d(v, x, a) == FlaggedImag({2, 4, 7, 9}, {2, 3, 7, 8}, {1, 4, 6, 9}, v, x, a)
real_projection_f(v, x2, a2) == FlaggedReal({5, 6, 7, 8, 9}, v, x2, a2)
imag_projection_f(v, x, a) == FlaggedImag({2, 4, 7, 9}, {2, 3, 7, 8}, {1, 4, 6, 9}, v, x, a)

transition_real_projection_s(v, x2, a2) == FlaggedReal({5, 6, 7, 8, 9}, v, x2, a2)
transition_imag_projection_s(v, x, a) ==
  CASE v \in {1, 6} -> Mul(-2, Mul(x, a))
    [] v \in {2, 7} -> Mul(2, Magnitude(Mul(x, a)))
    [] v \in {3, 8} -> Mul(2, Mul(x, Magnitude(a)))
    [] v \in {4, 9} -> Mul(-2, Mul(Magnitude(x), a))
    [] OTHER        -> Mul(2, Mul(x, a))

transition_real_projection_f32(v, x2, a2) == FlaggedReal({5, 6, 7, 8, 9}, v, x2, a2)
transition_imag_projection_f32(v, x, a) == FlaggedImag({2, 4, 7, 9}, {2, 3, 8, 7}, {1, 4, 6, 9}, v, x, a)
volume_fold_rules ==
  [post_abs_real |-> {5, 6, 7, 8, 9}, abs_x |-> {2, 4, 7, 9}, abs_axis |-> {2, 3, 8, 7},
   neg_imag |-> {1, 4, 6, 9}]
real_projection_ps(v, x2, a2) == FlaggedReal(volume_fold_rules.post_abs_real, v, x2, a2)
imag_projection_ps(v, x, a) ==
  FlaggedImag(volume_fold_rules.abs_x, volume_fold_rules.abs_axis, volume_fold_rules.neg_imag, v, x, a)
volume_real_projection(v, x2, a2) == FlaggedReal({5, 6, 7, 8, 9}, v, x2, a2)
volume_imag_projection(v, x, a) == FlaggedImag({2, 4, 7, 9}, {2, 3, 7, 8}, {1, 4, 6, 9}, v, x, a)

-----------------------------------------------------------------------------
(* One step and its norm; the pairwise transition has two legs of          *)
(* influence 1, for which the sum takes away one x^2 as its formula does.  *)

(* The copy of the projections that the chosen engine has. *)
SliceReal(copy, v, x2, a2) ==
  CASE copy = "openmp"      -> variant_transition_real_projection(v, x2, a2)
    [] copy = "scalar"      -> transition_real_projection_s(v, x2, a2)
    [] copy = "avx2"        -> real_projection_pd(v, x2, a2)
    [] copy = "cuda_fp64"   -> real_projection_d(v, x2, a2)
    [] copy = "cuda_fp32"   -> real_projection_f(v, x2, a2)
    [] copy = "volume"      -> transition_real_projection_f32(v, x2, a2)
    [] copy = "volume_avx2" -> real_projection_ps(v, x2, a2)
    [] copy = "volume_cuda" -> volume_real_projection(v, x2, a2)

SliceImag(copy, v, x, a) ==
  CASE copy = "openmp"      -> variant_transition_imag_projection(v, x, a)
    [] copy = "scalar"      -> transition_imag_projection_s(v, x, a)
    [] copy = "avx2"        -> imag_projection_pd(v, x, a)
    [] copy = "cuda_fp64"   -> imag_projection_d(v, x, a)
    [] copy = "cuda_fp32"   -> imag_projection_f(v, x, a)
    [] copy = "volume"      -> transition_imag_projection_f32(v, x, a)
    [] copy = "volume_avx2" -> imag_projection_ps(v, x, a)
    [] copy = "volume_cuda" -> volume_imag_projection(v, x, a)

SumOver(n, t) == LET s[k \in 0 .. n] == IF k = 0 THEN 0 ELSE Add(s[k - 1], t[k]) IN s[n]

SliceStep(copy, legs, z, c) ==
  LET n == Len(legs)
      Sq(a) == Mul(a, a)
      real == SumOver(n, [k \in 1 .. n |->
                Mul(legs[k].influence, SliceReal(copy, legs[k].variant, Sq(z.x), Sq(z.axis[k])))])
      all  == SumOver(n, [k \in 1 .. n |-> legs[k].influence])
  IN [x |-> Add(Add(real, Neg(Mul(all - 1, Sq(z.x)))), c.x),
      axis |-> [k \in 1 .. n |-> Add(Mul(legs[k].influence, SliceImag(copy, legs[k].variant, z.x, z.axis[k])), c.axis[k])]]

AllFinite(z) == Finite(z.x) /\ \A k \in DOMAIN z.axis : Finite(z.axis[k])
SliceNorm(z) ==
  Add(Mul(z.x, z.x), SumOver(Len(z.axis), [k \in 1 .. Len(z.axis) |-> Mul(z.axis[k], z.axis[k])]))

(* A slice's orbit starts at its point, and the point counts for the       *)
(* smallest and the largest norm and for the distances.                    *)
SliceStart(j, p) ==
  LET z == IF j.plane = "volume" THEN EmbedVoxel(j.legs, p) ELSE Embed(j.legs, p)
  IN [i |-> 0, z |-> z, c |-> IF j.julia THEN Embed(j.legs, j.jc) ELSE z, min |-> SliceNorm(z),
      max |-> SliceNorm(z), norm |-> 0, escaped |-> FALSE, orbit |-> <<z>>]

Visit(j, s, z, n2, out) ==
  [s EXCEPT !.min = IF n2 < @ THEN n2 ELSE @, !.max = IF n2 > @ THEN n2 ELSE @,
            !.norm = IF out THEN n2 ELSE @, !.escaped = out,
            !.orbit = IF Len(@) < j.cap THEN Append(@, z) ELSE @,
            !.i = IF out THEN @ ELSE @ + 1, !.z = IF out THEN @ ELSE z]

Measure(j, s, z) ==
  IF AllFinite(z) THEN Visit(j, s, z, SliceNorm(z), Gt(SliceNorm(z), j.bail * j.bail))
  ELSE Visit(j, s, z, Inf, TRUE)

SliceBody(copy, j, s) == IF s.escaped THEN s ELSE Measure(j, s, SliceStep(copy, j.legs, s.z, s.c))

SliceLoop(copy, j, p) ==
  Iterate(j.iters, SliceStart(j, p), LAMBDA s : SliceBody(copy, j, s))

SliceAnswer(s) ==
  [iter |-> s.i, norm |-> s.norm, min |-> s.min, max |-> s.max, escaped |-> s.escaped]

SliceDistance(a, b) ==
  LET D(p, q) == LET d == Add(p, Neg(q)) IN Mul(d, d)
  IN Add(D(a.x, b.x), SumOver(Len(a.axis), [k \in 1 .. Len(a.axis) |-> D(a.axis[k], b.axis[k])]))

(* iterate_transition and iterate_transition_multi; extra is the smallest  *)
(* distance in the stored orbit, of points a before b.                     *)
iterate_transition(j, p) ==
  SliceAnswer(SliceLoop("openmp", j, p))

Nearer(o, a, best) ==
  LET near[k \in 0 .. Len(o) - a] ==
        IF k = 0 THEN best
        ELSE LET d == SliceDistance(o[a], o[a + k]) IN IF Gt(near[k - 1], d) THEN d ELSE near[k - 1]
  IN near[Len(o) - a]

Closest(o) ==
  LET best[a \in 0 .. Len(o)] == IF a = 0 THEN Huge ELSE Nearer(o, a, best[a - 1])
  IN IF Len(o) >= 2 THEN best[Len(o)] ELSE 0

iterate_transition_extra(j, p) == Closest(SliceLoop("openmp", j, p).orbit)

render_transition_scalar(j, p) ==
  SliceAnswer(SliceLoop("scalar", j, p))

transition_slice_escape_fp64(j, p) == SliceAnswer(SliceLoop("cuda_fp64", j, p))
transition_slice_escape_fp32(j, p) == SliceAnswer(SliceLoop("cuda_fp32", j, p))

(* A voxel's value: at least 1/2 and growing with the count when its orbit *)
(* escapes, otherwise below, by the size of the last point.                *)
VoxelValue(s) == [escaped |-> s.escaped, by |-> IF s.escaped THEN s.i ELSE SliceNorm(s.z)]

build_transition_range_openmp(j, p) ==
  VoxelValue(SliceLoop("volume", j, p))

transition_volume_kernel(j, idx, z_start) ==
  VoxelValue(SliceLoop("volume_cuda", j, CudaVoxel(j, idx, z_start)))

(* A vector of points: the lanes that escaped keep their z, so *)
(* that later norms of theirs repeat the one that escaped.  A norm that is *)
(* NaN replaces both extremes, as it is the second operand.                *)
VisitLane(s, z, n2, on, out) ==
  [s EXCEPT !.min = IF Gt(n2, @) THEN @ ELSE n2, !.max = IF Gt(@, n2) THEN @ ELSE n2,
            !.norm = IF out THEN n2 ELSE @, !.escaped = @ \/ out,
            !.i = IF on /\ ~out THEN @ + 1 ELSE @, !.z = IF on /\ ~out THEN z ELSE @]

MeasureLane(j, s, z, n2, on) ==
  VisitLane(s, z, n2, on, on /\ (Gt(n2, j.bail * j.bail) \/ n2 = NaN))

Lane(copy, j, s, on) ==
  LET z == SliceStep(copy, j.legs, s.z, s.c) IN MeasureLane(j, s, z, SliceNorm(z), on)

SliceLanes(copy, j, pts, inside) ==
  Iterate(j.iters, [l \in DOMAIN pts |-> SliceStart(j, pts[l])],
    LAMBDA v : IF \A l \in inside : v[l].escaped THEN v
               ELSE [l \in DOMAIN v |-> Lane(copy, j, v[l], l \in inside /\ ~v[l].escaped)])

render_escape_fp64(j, pts, inside) ==
  LET g == SliceLanes("avx2", j, pts, inside)
  IN [l \in inside |-> SliceAnswer(g[l])]

build_range_impl(j, pts, inside) ==
  LET g == SliceLanes("volume_avx2", j, pts, inside)
  IN [l \in inside |-> VoxelValue(g[l])]

-----------------------------------------------------------------------------
(* A plain map in place of a slice: the mirrored view, rows exchanged. *)
DirectJob(j) ==
  LET flip == j.direct \in {"FromFlipY", "ToFlipY"}
      m == [j EXCEPT !.plane = "map",
                     !.variant = j.legs[IF j.direct \in {"To", "ToFlipY"} THEN 2 ELSE 1].variant]
  IN IF ~flip THEN m
     ELSE [m EXCEPT !.centre = Point(@.re, Neg(@.im)), !.jc = Point(@.re, Neg(@.im)), !.turned = -@]

flip_field_output_y(j, y) ==
  IF j.direct \in {"FromFlipY", "ToFlipY"} THEN j.height - 1 - y ELSE y

render_direct_slice_field(j, x, y) ==
  LET m == DirectJob(j)
      p == RowPixel(m, x, flip_field_output_y(j, y))
  IN iterate_masked(m, Start(m, p), Param(m, p))

TileJobOfCorner(j, x, y, tw, th) == \* mutant: the centre of a full tile
  LET dx == 2 * x + 2 - j.width
      dy == -(2 * y + 2 - j.height)
  IN [j EXCEPT !.width = tw, !.height = th,
               !.centre = Point(@.re + dx * cos_theta(j) - dy * sin_theta(j),
                                @.im + dx * sin_theta(j) + dy * cos_theta(j))]

(* Tiles of a GPU frame that can be cancelled: the rectangle of the tile   *)
(* becomes a view of its own, and its rows are copied back.                *)
TileJob(j, x, y, tw, th) ==
  LET dx == 2 * x + tw - j.width
      dy == -(2 * y + th - j.height)
  IN [j EXCEPT !.width = tw, !.height = th,
               !.centre = Point(@.re + dx * cos_theta(j) - dy * sin_theta(j),
                                @.im + dx * sin_theta(j) + dy * cos_theta(j))]

render_transition_cuda(j, tile, scalar, x, y) ==
  LET tx == (x \div tile) * tile
      ty == (y \div tile) * tile
      Side(at, size) == IF size - at < tile THEN size - at ELSE tile
      t == TileJob(j, tx, ty, Side(tx, j.width), Side(ty, j.height))
      p == rotated_viewport_point(t, x - tx, y - ty)
  IN IF scalar = "fp32" THEN transition_slice_escape_fp32(t, p) ELSE transition_slice_escape_fp64(t, p)

-----------------------------------------------------------------------------
Line == 0 .. job.width - 1
SliceFresh == Fresh /\ job.plane = "slice"

RenderSliceOpenMP ==
  /\ SliceFresh /\ job.direct = "None"
  /\ \E y \in 0 .. job.height - 1 :
       \/ Wrote("openmp", y, [x \in Line |-> iterate_transition(job, transition_viewport_point(job, x, y))])
       \/ Wrote("extra", y, [x \in Line |-> iterate_transition_extra(job, transition_viewport_point(job, x, y))])
       \/ Wrote("scalar", y, [x \in Line |-> render_transition_scalar(job, transition_viewport_point(job, x, y))])

RenderSliceAvx2 ==
  /\ SliceFresh /\ job.direct = "None"
  /\ \E y \in 0 .. job.height - 1 :
       LET lanes == 0 .. 4 * LaneUnit - 1
           First(x) == (x \div (4 * LaneUnit)) * 4 * LaneUnit
           Group(x) == render_escape_fp64(job, [l \in lanes |-> transition_viewport_point(job, First(x) + l, y)],
                                          {l \in lanes : First(x) + l < job.width})
       IN Wrote("avx2", y, [x \in Line |-> Group(x)[x - First(x)]])

RenderSliceCuda ==
  /\ SliceFresh /\ job.direct = "None"
  /\ \E y \in 0 .. job.height - 1, tile \in {2, job.width}, scalar \in {"fp32", "fp64"} :
       Wrote("cuda", y, [x \in Line |-> render_transition_cuda(job, tile, scalar, x, y)])

RenderDirectSlice ==
  /\ SliceFresh /\ job.direct # "None"
  /\ \E y \in 0 .. job.height - 1 :
       Wrote("direct", y, [x \in Line |-> render_direct_slice_field(job, x, y)])

RenderVolume ==
  /\ Fresh /\ job.plane = "volume"
  /\ \E y \in Line, z \in Line :
       LET lanes == 0 .. 8 * LaneUnit - 1
           First(x) == (x \div (8 * LaneUnit)) * 8 * LaneUnit
           Group(x) == build_range_impl(job, [l \in lanes |-> Voxel(job, First(x) + l, y, z)],
                                        {l \in lanes : First(x) + l < job.width})
       IN \/ Wrote("openmp", <<y, z>>, [x \in Line |-> build_transition_range_openmp(job, Voxel(job, x, y, z))])
          \/ Wrote("avx2", <<y, z>>, [x \in Line |-> Group(x)[x - First(x)]])
          \/ \E from \in 0 .. z :
               Wrote("cuda", <<y, z>>, [x \in Line |->
                 transition_volume_kernel(job, x + job.width * (y + job.width * (z - from)), from)])

SliceNext == RenderVolume \/ RenderSliceOpenMP \/ RenderSliceAvx2 \/ RenderSliceCuda \/ RenderDirectSlice

SliceSpec == Init /\ [][Next \/ SliceNext]_vars

-----------------------------------------------------------------------------
(* Reference: a leg moves its axis as the variant moves a complex point    *)
(* whose real part is shared, and the real parts are summed less the       *)
(* squares that would be counted twice.                                    *)
LegMove(l, z, k) ==
  QuadraticStep(variant_step[l.variant], Cached(Point(z.x, z.axis[k])), Point(0, 0))

TrueSliceStep(legs, z, c) ==
  LET n == Len(legs)
      real == SumOver(n, [k \in 1 .. n |-> LegMove(legs[k], z, k).re])
  IN [x |-> Add(Add(real, Neg(Mul(n - 1, Mul(z.x, z.x)))), c.x),
      axis |-> [k \in 1 .. n |-> Add(LegMove(legs[k], z, k).im, c.axis[k])]]

SliceOrbit(j, start, c) ==
  LET z[n \in 0 .. j.iters] == IF n = 0 THEN start ELSE TrueSliceStep(j.legs, z[n - 1], c) IN z

TrueSize(z) == IF AllFinite(z) THEN SliceNorm(z) ELSE Inf

ClosestPair(z, kept) ==
  LET pairs == {q \in (0 .. kept) \X (0 .. kept) : q[1] < q[2]}
  IN IF pairs = {} THEN 0
     ELSE Least({Huge} \cup ({SliceDistance(z[q[1]], z[q[2]]) : q \in pairs} \ {NaN, Inf}))

Told(j, z, size, escaped, last) ==
  [iter |-> IF escaped THEN last - 1 ELSE j.iters, escaped |-> escaped,
   norm |-> IF escaped THEN size[last] ELSE 0, size |-> size[last],
   min |-> Least({size[n] : n \in 0 .. last}), max |-> Greatest({size[n] : n \in 0 .. last}),
   extra |-> ClosestPair(z, IF j.cap <= last + 1 THEN j.cap - 1 ELSE last)]

ToldOrbit(j, z, size) ==
  LET outs == {n \in 1 .. j.iters : Gt(size[n], j.bail * j.bail)}
  IN IF outs = {} THEN Told(j, z, size, FALSE, j.iters) ELSE Told(j, z, size, TRUE, Least(outs))

SliceReference(j, start, c) ==
  LET z == SliceOrbit(j, start, c) IN ToldOrbit(j, z, [n \in 0 .. j.iters |-> TrueSize(z[n])])

PixelReference(j, x, y) ==
  SliceReference(j, Embed(j.legs, TruePixel(j, x, y)),
                    Embed(j.legs, IF j.julia THEN j.jc ELSE TruePixel(j, x, y)))

VoxelTold(r) == [escaped |-> r.escaped, by |-> IF r.escaped THEN r.iter ELSE r.size]

VoxelReference(j, x, y, z) ==
  LET At(i) == 2 * i + 1 - j.width
      p == EmbedVoxel(j.legs, [re |-> j.centre.re + At(x), y |-> j.centre.im + At(y), z |-> At(z)])
  IN VoxelTold(SliceReference(j, p, p))

(* Every copy of the slice kernel, whole or in tiles, gives each pixel the *)
(* count, norm and extremes of the orbit of its own embedded point, and    *)
(* every copy of the volume kernel gives each voxel the same value.        *)
SliceCopiesAgree ==
  job.plane \in {"slice", "volume"} /\ image.kernel \notin {"none", "direct"} =>
    \A x \in DOMAIN image.pixels :
      IF job.plane = "volume" THEN image.pixels[x] = VoxelReference(job, x, image.y[1], image.y[2])
      ELSE IF image.kernel = "extra" THEN image.pixels[x] = PixelReference(job, x, image.y).extra
      ELSE Matches(image.pixels[x], PixelReference(job, x, image.y))

(* A slice at a right angle is drawn as a plain map, mirrored when the     *)
(* angle is -90 or 180 degrees.  For a Julia set it is the slice itself,   *)
(* pixel by pixel, also in a rotated view; otherwise the map begins at 0   *)
(* and a slice at its point, so the counts differ by one at most, provided *)
(* that no orbit comes back from beyond the bailout: from 2 on, the radius *)
(* the variants have by default.                                           *)
RightAnglesFit ==
  job.plane = "slice" /\ image.kernel = "direct" =>
    \A x \in DOMAIN image.pixels :
      LET a == image.pixels[x].iter
          b == PixelReference(job, x, image.y).iter
      IN IF job.julia THEN a = b ELSE job.bail >= 2 => a \in {b, b + 1}

(* A slice is the same picture whichever of its kernels, tilings or        *)
(* shortcuts draws it.                                                     *)
SlicesAgree == SliceCopiesAgree /\ RightAnglesFit
=============================================================================
