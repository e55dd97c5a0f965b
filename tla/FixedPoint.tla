----------------------------- MODULE FixedPoint -----------------------------
(***************************************************************************)
(* Fixed-point rendering (scalar/fx64.hpp, fx64_raw.hpp, cuda/fx64.cuh and *)
(* the fixed loops of escape_time.hpp and cuda/map_kernel.cu): pixels and  *)
(* orbits are words of Bits bits with F of them after the point.  The      *)
(* formats q3.60, q4.59 and q6.57 of a 64-bit word keep 3, 4 and 6 bits    *)
(* before the point; so do the formats of the smaller word here.           *)
(***************************************************************************)
EXTENDS Integers, Sequences, FiniteSets

CONSTANTS Bits,           \* of a word
          Parameters,     \* raw values of a component of c
          Spans, Counts,  \* raw widths of a view, pixels along it
          Stride,         \* iterations between two looks at the cancel probe
          LoopJobs,       \* [variant, julia, x, y, iters]
          JuliaC          \* <<re, im>> of the Julia sets

ASSUME BitsAssumption == Bits \in Nat /\ Bits >= 8

(* What the proofs need to know of powers of two. *)
ASSUME PowersAssumption ==
  \A n \in 0 .. Bits : 2^n \in Nat \ {0} /\ 2^(n + 1) = 2 * 2^n /\ 4^n = 2^n * 2^n

VARIABLES frac,           \* bits after the point of the format in use
          work,           \* what is computed: "none", "step", "loop" or "view"
          input, output

fxvars == <<frac, work, input, output>>

IMax == 2^(Bits - 1) - 1
IMin == -(2^(Bits - 1))
UMax == 2^Bits - 1
Words == IMin .. IMax

Q360 == Bits - 4
Q459 == Bits - 5
Q657 == Bits - 7

ASSUME InputsAssumption ==
  /\ Parameters \subseteq Words /\ Spans \subseteq Int /\ Counts \subseteq Nat \ {0}
  /\ Stride \in Nat \ {0} /\ JuliaC \in Words \X Words
  /\ \A j \in LoopJobs : /\ j.variant \in 0 .. 9 /\ j.julia \in BOOLEAN /\ j.iters \in Nat
                         /\ j.x \in Words /\ j.y \in Words

-----------------------------------------------------------------------------
(* Words.  Adding or negating in the word type wraps around (the build's   *)
(* outcome of an overflow); products are computed in a double word.        *)

Wrap(a) == ((a - IMin) % 2^Bits) + IMin
SatI(a) == IF a > IMax THEN IMax ELSE IF a < IMin THEN IMin ELSE a
SatU(a) == IF a > UMax THEN UMax ELSE a

FxAdd(a, b) == Wrap(a + b)
FxNeg(a) == IF a = IMin THEN IMax ELSE -a
scalar_abs(a) == IF a >= 0 THEN a ELSE FxNeg(a)
abs_i64_to_u64(a) == IF a < 0 THEN -a ELSE a

(* Shifting right rounds down. *)
FxMul(a, b) == SatI((a * b) \div 2^frac)

(* The GPU multiplies magnitudes, so it rounds toward zero, and keeps the  *)
(* low word of the shifted product.                                        *)
FxMulCuda(a, b) ==
  LET mag == Wrap(((abs_i64_to_u64(a) * abs_i64_to_u64(b)) \div 2^frac) % 2^Bits)
  IN IF (a < 0) # (b < 0) THEN Wrap(-mag) ELSE mag

fixed_square_q_sat_raw_cpu(a) == SatU((abs_i64_to_u64(a) * abs_i64_to_u64(a)) \div 2^frac)

(* The GPU saturates when the high word has a bit that the shift loses. *)
fixed_square_q_sat_raw_cuda(a) ==
  LET p  == abs_i64_to_u64(a) * abs_i64_to_u64(a)
      hi == p \div 2^Bits
      lo == p % 2^Bits
  IN IF hi >= 2^frac THEN UMax ELSE ((hi * 2^(Bits - frac)) % 2^Bits) + lo \div 2^frac

(* Mutant of add_u64_sat: the sum of the squares wraps around. *)
AddWraps(a, b) == (a + b) % 2^Bits

add_u64_sat(a, b) == LET sum == (a + b) % 2^Bits IN IF sum < a THEN UMax ELSE sum
u64_to_i64_sat(a) == IF a > IMax THEN IMax ELSE a

-----------------------------------------------------------------------------
(* One iteration.  The mixed product is (2 x) y on the CPU and x y + x y   *)
(* on the GPU; the squares are those of the previous escape test.          *)

FxFold(f, a) == CASE f = "+" -> a [] f = "-" -> FxNeg(a) [] f = "|" -> scalar_abs(a)

step_fixed ==
  << <<"+","+","+","+">>, <<"+","+","+","-">>, <<"|","|","+","+">>, <<"+","|","+","+">>,
     <<"|","-","+","+">>, <<"+","+","|","+">>, <<"+","+","|","-">>, <<"+","+","|","|">>,
     <<"+","|","|","+">>, <<"|","+","|","-">> >>

step_fixed_cuda ==
  << <<"+","+","+","+">>, <<"+","+","+","-">>, <<"|","|","+","+">>, <<"+","|","+","+">>,
     <<"|","-","+","+">>, <<"+","+","|","+">>, <<"+","+","|","-">>, <<"+","+","|","|">>,
     <<"+","|","|","+">>, <<"|","+","|","-">> >>

CpuNext(v, x, y, cx, cy) ==
  LET f  == step_fixed[v + 1]
      x2 == u64_to_i64_sat(fixed_square_q_sat_raw_cpu(x))
      y2 == u64_to_i64_sat(fixed_square_q_sat_raw_cpu(y))
      xy == FxMul(FxMul(2 * 2^frac, FxFold(f[1], x)), FxFold(f[2], y))
  IN <<FxAdd(FxFold(f[3], FxAdd(x2, -y2)), cx), FxAdd(FxFold(f[4], xy), cy)>>

CudaMove(f, x, y, cx, cy) ==
  LET x2 == u64_to_i64_sat(fixed_square_q_sat_raw_cuda(x))
      y2 == u64_to_i64_sat(fixed_square_q_sat_raw_cuda(y))
      p  == FxMulCuda(FxFold(f[1], x), FxFold(f[2], y))
  IN <<FxAdd(FxFold(f[3], FxAdd(x2, -y2)), cx), FxAdd(FxFold(f[4], FxAdd(p, p)), cy)>>

CudaNext(v, x, y, cx, cy) == CudaMove(step_fixed_cuda[v + 1], x, y, cx, cy)

two_raw == 2 * 2^frac
bailout2_raw == 4 * 2^frac
two_sqrt2_floor ==
  [f \in {Q360, Q459, Q657} |->
     CHOOSE n \in 0 .. UMax : n * n <= 8 * 4^f /\ (n + 1) * (n + 1) > 8 * 4^f]
two_sqrt2_floor_raw == two_sqrt2_floor[frac]

(* The sum of the components is compared in q3.60 only.  The two squares   *)
(* lose less than two units when they are rounded down; the next sum after *)
(* the floor exceeds the radius by as much, thanks to the digits of the    *)
(* square root at that place.  That holds of 60 bits after the point, and  *)
(* not of every number of bits (11, for instance).                         *)
ASSUME GateAssumption ==
  LET n == two_sqrt2_floor[Q360]
  IN n \in Nat /\ n * n <= 8 * 4^Q360 /\ (n + 1) * (n + 1) >= 8 * 4^Q360 + 4 * 2^Q360

(* The escape test.  Before the squares, q4.59 compares the components     *)
(* with the bailout, and q3.60 also their sum with 2 sqrt 2; a sum of at   *)
(* most 2 settles the test without the squares.                            *)
Mag2(Square(_), x, y) == add_u64_sat(Square(x), Square(y))

GateEscapes(Square(_), x, y) ==
  LET ax == abs_i64_to_u64(x)
      ay == abs_i64_to_u64(y)
      l1 == add_u64_sat(ax, ay)
      far == ax > two_raw \/ ay > two_raw
  IN CASE frac = Q657 -> Mag2(Square, x, y) > bailout2_raw
       [] frac = Q459 -> far \/ Mag2(Square, x, y) > bailout2_raw
       [] frac = Q360 -> \/ far \/ l1 > two_sqrt2_floor_raw
                         \/ l1 > two_raw /\ Mag2(Square, x, y) > bailout2_raw

(* A loop that must know the magnitude, for the smallest, the largest or   *)
(* the last one, has no gates after the first point.                       *)
MagnitudeEscapes(Square(_), x, y) == Mag2(Square, x, y) > bailout2_raw

FixedStep(v, x, y, cx, cy) ==
  LET n == CpuNext(v, x, y, cx, cy)
  IN [re |-> n[1], im |-> n[2], escaped |-> GateEscapes(fixed_square_q_sat_raw_cpu, n[1], n[2])]

FixedStepCuda(v, x, y, cx, cy) ==
  LET n == CudaNext(v, x, y, cx, cy)
  IN [re |-> n[1], im |-> n[2], escaped |-> GateEscapes(fixed_square_q_sat_raw_cuda, n[1], n[2])]

-----------------------------------------------------------------------------
NoStop == -1

(* The loops.  job is [variant, julia, x, y, iters]; for a Julia set the   *)
(* map's loops test the first point too, those of the ln map do not.       *)

FxStart(job, Escapes(_, _), precheck) ==
  [i |-> 0, x |-> IF job.julia THEN job.x ELSE 0, y |-> IF job.julia THEN job.y ELSE 0,
   escaped |-> precheck /\ job.julia /\ Escapes(job.x, job.y), cancelled |-> FALSE]

FxBody(job, Move(_, _, _, _, _), Escapes(_, _), stop, s) ==
  IF s.escaped \/ s.cancelled THEN s
  ELSE IF stop # NoStop /\ s.i % Stride = 0 /\ s.i >= stop THEN [s EXCEPT !.cancelled = TRUE]
  ELSE LET n == Move(job.variant, s.x, s.y, IF job.julia THEN JuliaC[1] ELSE job.x,
                                            IF job.julia THEN JuliaC[2] ELSE job.y)
           out == Escapes(n[1], n[2])
       IN [s EXCEPT !.escaped = out, !.i = IF out THEN @ ELSE @ + 1, !.x = n[1], !.y = n[2]]

FxLoop(job, Move(_, _, _, _, _), First(_, _), Escapes(_, _), precheck, stop) ==
  LET after[i \in 0 .. job.iters] ==
        IF i = 0 THEN FxStart(job, First, precheck)
        ELSE FxBody(job, Move, Escapes, stop, after[i - 1])
  IN after[job.iters]

CpuGate(x, y)   == GateEscapes(fixed_square_q_sat_raw_cpu, x, y)
CpuSquares(x, y) == MagnitudeEscapes(fixed_square_q_sat_raw_cpu, x, y)
CudaGate(x, y)  == GateEscapes(fixed_square_q_sat_raw_cuda, x, y)
CudaSquares(x, y) == MagnitudeEscapes(fixed_square_q_sat_raw_cuda, x, y)

Ended(s) == [iter |-> s.i, escaped |-> s.escaped]

(* tracked: the caller wants a norm, a smallest or a largest magnitude. *)
iterate_fixed_int_masked(job, tracked) ==
  Ended(IF tracked THEN FxLoop(job, CpuNext, CpuGate, CpuSquares, TRUE, NoStop)
        ELSE FxLoop(job, CpuNext, CpuGate, CpuGate, TRUE, NoStop))

iterate_fixed_field_cancellable(job, tracked, stop) ==
  LET s == IF tracked THEN FxLoop(job, CpuNext, CpuGate, CpuSquares, TRUE, stop)
           ELSE FxLoop(job, CpuNext, CpuGate, CpuGate, TRUE, stop)
  IN IF s.cancelled THEN [complete |-> FALSE] ELSE [complete |-> TRUE, result |-> Ended(s)]

fractal_fx64_int_kernel(job, tracked) ==
  Ended(IF tracked THEN FxLoop(job, CudaNext, CudaGate, CudaSquares, TRUE, NoStop)
        ELSE FxLoop(job, CudaNext, CudaGate, CudaGate, TRUE, NoStop))

(* The ln map is rendered in q6.57 only, its rows and its samples alike. *)
render_ln_fixed_rows(job) == Ended(FxLoop(job, CpuNext, CpuGate, CpuGate, FALSE, NoStop))
sample_ln_iter_fx64(job) == Ended(FxLoop(job, CpuNext, CpuGate, CpuGate, FALSE, NoStop))

d_step_fixed_cached ==
  << <<"+","+","+","+">>, <<"+","+","+","-">>, <<"|","|","+","+">>, <<"+","|","+","+">>,
     <<"|","-","+","+">>, <<"+","+","|","+">>, <<"+","+","|","-">>, <<"+","+","|","|">>,
     <<"+","|","|","+">>, <<"|","+","|","-">> >>

LnCudaNext(v, x, y, cx, cy) == CudaMove(d_step_fixed_cached[v + 1], x, y, cx, cy)

ln_map_kernel_fx64(job) == Ended(FxLoop(job, LnCudaNext, CudaSquares, CudaSquares, FALSE, NoStop))
ln_map_iters_kernel_fx64(job) == Ended(FxLoop(job, LnCudaNext, CudaSquares, CudaSquares, FALSE, NoStop))

-----------------------------------------------------------------------------
(* Pixels of a view of span raw units over count pixels. *)

Quo(a, b) == IF a >= 0 THEN a \div b ELSE -((-a) \div b)

Offset(span, index, count) ==
  LET quotient  == Quo(span, 2 * count)
      remainder == span - quotient * (2 * count)
  IN quotient * (2 * index + 1) + Quo(remainder * (2 * index + 1), 2 * count)

fixed_pixel_re_raw(centre, span, count, x) == Wrap(centre - Quo(span, 2) + Offset(span, x, count))
fixed_pixel_im_raw(centre, span, count, y) == Wrap(centre + Quo(span, 2) - Offset(span, y, count))

(* A view is drawn in fixed point when its first and last pixels, on the   *)
(* grid of whole steps, are words.                                         *)
make_fixed_viewport_raw(centre, span, count) ==
  LET step == Quo(span, count)
      first == centre - Quo(span, 2) + Quo(step, 2)
  IN [step |-> step, first |-> first, last |-> first + (count - 1) * step]

fixed_viewport_representable(centre, span, count) ==
  LET v == make_fixed_viewport_raw(centre, span, count)
  IN span > 0 /\ v.first \in Words /\ v.last \in Words

-----------------------------------------------------------------------------
Nil == <<>>

FxInit == frac \in {Q360, Q459, Q657} /\ work = "none" /\ input = Nil /\ output = Nil

(* Points whose orbit has not escaped lie inside the radius. *)
Inside(x, y) == x * x + y * y <= 4 * 4^frac

Step ==
  /\ work = "none"
  /\ \E v \in 0 .. 9, cx \in Parameters, cy \in Parameters :
       /\ work' = "step"
       /\ input' = <<v, cx, cy>>
       /\ output' = [p \in {q \in (-two_raw .. two_raw) \X (-two_raw .. two_raw) : Inside(q[1], q[2])} |->
                       <<FixedStep(v, p[1], p[2], cx, cy),
                         FixedStepCuda(v, p[1], p[2], cx, cy)>>]
  /\ UNCHANGED frac

View ==
  /\ work = "none"
  /\ \E centre \in Parameters, span \in Spans, count \in Counts :
       /\ fixed_viewport_representable(centre, span, count)
       /\ work' = "view"
       /\ input' = <<centre, span, count>>
       /\ output' = [i \in 0 .. count - 1 |->
                       [re |-> fixed_pixel_re_raw(centre, span, count, i),
                        im |-> fixed_pixel_im_raw(centre, span, count, i)]]
  /\ UNCHANGED frac

Loop ==
  /\ work = "none"
  /\ \E j \in LoopJobs, tracked \in BOOLEAN, stop \in {NoStop, 1} :
       /\ work' = "loop"
       /\ input' = <<j, tracked, stop>>
       /\ output' = [cpu |-> iterate_fixed_int_masked(j, tracked),
                     cancellable |-> iterate_fixed_field_cancellable(j, tracked, stop),
                     gpu |-> fractal_fx64_int_kernel(j, tracked),
                     ln |-> IF frac # Q657 THEN {}
                            ELSE {render_ln_fixed_rows(j), sample_ln_iter_fx64(j)},
                     lngpu |-> IF frac # Q657 THEN {}
                               ELSE {ln_map_kernel_fx64(j), ln_map_iters_kernel_fx64(j)}]
  /\ UNCHANGED frac

FxNext == Step \/ Loop \/ View

FxSpec == FxInit /\ [][FxNext]_fxvars

-----------------------------------------------------------------------------
(* The same step in unbounded integers.  The mixed term is 2xy rounded     *)
(* down on the CPU, and twice xy rounded toward zero on the GPU.           *)
Plain(f, a) == CASE f = "+" -> a [] f = "-" -> -a [] f = "|" -> abs_i64_to_u64(a)
TrueRe(f, p) == Plain(f[3], (p[1] * p[1]) \div 2^frac - (p[2] * p[2]) \div 2^frac) + input[2]
TrueIm(f, p) == Plain(f[4], (2 * Plain(f[1], p[1]) * Plain(f[2], p[2])) \div 2^frac) + input[3]
TrueImCuda(f, p) == Plain(f[4], 2 * Quo(Plain(f[1], p[1]) * Plain(f[2], p[2]), 2^frac)) + input[3]

TrulyEscaped(x, y) == (x * x) \div 2^frac + (y * y) \div 2^frac > 4 * 2^frac

(* A step from inside the radius of 2 decides correctly whether the point  *)
(* escapes, whatever word c is: the gates in front of the squares, the     *)
(* squares that saturate and the sums that wrap never hide or invent an    *)
(* escape, on the CPU or on the GPU, and the next points differ by at most *)
(* two units of the last place between them.                               *)
FixedEscapesExactly ==
  work = "step" =>
    \A p \in DOMAIN output :
      LET f == step_fixed[input[1] + 1]
          cpu == output[p][1]
          gpu == output[p][2]
      IN /\ cpu.escaped <=> TrulyEscaped(TrueRe(f, p), TrueIm(f, p))
         /\ gpu.escaped <=> TrulyEscaped(TrueRe(f, p), TrueImCuda(f, p))
         /\ cpu.re = gpu.re /\ abs_i64_to_u64(Wrap(cpu.im - gpu.im)) <= 2

(* The same orbit in unbounded integers, with the rounding of its backend. *)
TrueOrbit(j, cuda) ==
  LET f == step_fixed[j.variant + 1]
      c == IF j.julia THEN JuliaC ELSE <<j.x, j.y>>
      Mixed(p) == LET a == Plain(f[1], p[1]) * Plain(f[2], p[2])
                  IN IF cuda THEN 2 * Quo(a, 2^frac) ELSE (2 * a) \div 2^frac
      z[n \in 0 .. j.iters] ==
        IF n = 0 THEN IF j.julia THEN <<j.x, j.y>> ELSE <<0, 0>>
        ELSE LET p == z[n - 1] IN
             IF TrulyEscaped(p[1], p[2]) /\ (n > 1 \/ j.julia) THEN p
             ELSE <<Plain(f[3], (p[1] * p[1]) \div 2^frac - (p[2] * p[2]) \div 2^frac) + c[1],
                    Plain(f[4], Mixed(p)) + c[2]>>
  IN z

(* Iterations before the first point outside, counting a Julia set's first *)
(* point as the map's loops do.                                            *)
TrueCount(j, cuda) ==
  LET z == TrueOrbit(j, cuda)
      out == {n \in 0 .. j.iters : TrulyEscaped(z[n][1], z[n][2])}
      first == CHOOSE n \in out : \A k \in out : n <= k
  IN IF out = {} THEN [iter |-> j.iters, escaped |-> FALSE]
     ELSE [iter |-> IF first = 0 THEN 0 ELSE first - 1, escaped |-> TRUE]

(* A whole orbit is counted the same by the loops with and without gates,  *)
(* by the one that can be cancelled unless it answers that it was, by the  *)
(* GPU's for its own rounding, and by those of the ln map; none of them    *)
(* runs on after a word has overflowed.                                    *)
FixedLoopsAgree ==
  work = "loop" =>
    LET j == input[1] IN
    /\ output.cpu = TrueCount(j, FALSE)
    /\ output.gpu = TrueCount(j, TRUE)
    /\ IF output.cancellable.complete THEN output.cancellable.result = output.cpu
       ELSE input[3] # NoStop /\ output.cpu.iter >= input[3]
    /\ ~j.julia => output.ln \subseteq {output.cpu} /\ output.lngpu \subseteq {output.gpu}

(* The pixels of a view whose edges are words lie inside it, from left to  *)
(* right and from top to bottom, each within one unit of its true centre.  *)
FixedPixelsInView ==
  work = "view" /\ input[1] - input[2] \in Words /\ input[1] + input[2] \in Words =>
    LET centre == input[1]
        span   == input[2]
        count  == input[3]
        Near(a, i) == abs_i64_to_u64(2 * count * a - (2 * i + 1 - count) * span) <= 2 * count
    IN \A i \in DOMAIN output :
         /\ Near(output[i].re - centre, i) /\ Near(centre - output[i].im, i)
         /\ i > 0 => output[i].re >= output[i - 1].re /\ output[i].im <= output[i - 1].im

(* The fixed-point backends compute what the exact numbers say: one step,  *)
(* a whole orbit, and the grid of pixels it starts from.                   *)
FixedPointIsExact == FixedEscapesExactly /\ FixedLoopsAgree /\ FixedPixelsInView
=============================================================================
