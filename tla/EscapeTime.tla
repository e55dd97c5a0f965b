----------------------------- MODULE EscapeTime -----------------------------
(***************************************************************************)
(* The escape-time iteration of one pixel, as the scalar code computes it  *)
(* (compute/variants.hpp, compute/escape_time.hpp and the copies that can  *)
(* be cancelled in compute/map_kernel.cpp).                                *)
(*                                                                         *)
(* Floating-point numbers are integers up to Huge; what is larger becomes  *)
(* infinite, and NaN arises and spreads as IEEE 754 says.  Rounding is     *)
(* left out: within the range every format computes the exact result.      *)
(***************************************************************************)
EXTENDS Integers, Sequences, FiniteSets

CONSTANTS Huge,           \* the largest finite number
          CancelStride,   \* iterations between two looks at the cancel probe
          CxApply(_, _)   \* sin, cos, exp, ... of a point, for variants 10..15

ASSUME HugeAssumption == Huge \in Nat \ {0} /\ CancelStride \in Nat \ {0}

Inf == Huge + 1
NaN == Huge + 2

Finite(a) == a \in -Huge .. Huge

Round(a) == IF a > Huge THEN Inf ELSE IF a < -Huge THEN -Inf ELSE a

Add(a, b) ==
  IF NaN \in {a, b} \/ {a, b} = {Inf, -Inf} THEN NaN
  ELSE IF Inf \in {a, b} THEN Inf ELSE IF -Inf \in {a, b} THEN -Inf ELSE Round(a + b)

Mul(a, b) ==
  IF NaN \in {a, b} \/ (0 \in {a, b} /\ ~(Finite(a) /\ Finite(b))) THEN NaN ELSE Round(a * b)

Neg(a) == IF a = NaN THEN NaN ELSE -a

Magnitude(a) == IF a # NaN /\ a < 0 THEN -a ELSE a

(* Every comparison with NaN is false. *)
Gt(a, b) == NaN \notin {a, b} /\ a > b

-----------------------------------------------------------------------------
(* Variants.  A quadratic variant folds z before it is squared and the     *)
(* square before c is added; a fold keeps a number, negates it or takes    *)
(* its magnitude.  A row of a fold table is <<of Re z, of Im z, of Re z^2, *)
(* of Im z^2>>, one for each of the variants 0..9.                         *)

Quadratic == 0 .. 9
Transcendental == 10 .. 15

Fold(f, a) == CASE f = "+" -> a [] f = "-" -> Neg(a) [] f = "|" -> Magnitude(a)

variant_step ==
  [v \in Quadratic |-> <<
     <<"+","+","+","+">>, <<"+","+","+","-">>, <<"|","|","+","+">>, <<"+","|","+","+">>,
     <<"|","-","+","+">>, <<"+","+","|","+">>, <<"+","+","|","-">>, <<"+","+","|","|">>,
     <<"+","|","|","+">>, <<"|","+","|","-">> >>[v + 1]]

step_cached ==
  [v \in Quadratic |-> <<
     <<"+","+","+","+">>, <<"+","+","+","-">>, <<"|","|","+","+">>, <<"+","|","+","+">>,
     <<"|","-","+","+">>, <<"+","+","|","+">>, <<"+","+","|","-">>, <<"+","+","|","|">>,
     <<"+","|","|","+">>, <<"|","+","|","-">> >>[v + 1]]

Point(a, b) == [re |-> a, im |-> b]

(* A point with its squares, which the loops carry from step to step. *)
Cached(p) == [re |-> p.re, im |-> p.im, re2 |-> Mul(p.re, p.re), im2 |-> Mul(p.im, p.im)]

QuadraticStep(fold, z, c) ==
  Cached(Point(Add(Fold(fold[3], Add(z.re2, Neg(z.im2))), c.re),
               Add(Fold(fold[4], Mul(2, Mul(Fold(fold[1], z.re), Fold(fold[2], z.im)))), c.im)))

(* apply_trig, which takes every scalar through double. *)
TranscendentalStep(v, z, c) ==
  LET w == CxApply(v, Point(z.re, z.im)) IN Cached(Point(Add(w.re, c.re), Add(w.im, c.im)))

(* The axis projections from which the transition volumes are computed:    *)
(* the real part of the square and its mixed part, with the variant's      *)
(* folds applied.                                                          *)
variant_transition_real_projection(v, x2, a2) ==
  Fold(IF v \in {5, 6, 7, 8, 9} THEN "|" ELSE "+", Add(x2, Neg(a2)))

variant_transition_imag_projection(v, x, a) ==
  Mul(2, CASE v \in {1, 6} -> Neg(Mul(x, a))
           [] v \in {2, 7} -> Magnitude(Mul(x, a))
           [] v \in {3, 8} -> Mul(x, Magnitude(a))
           [] v \in {4, 9} -> Neg(Mul(Magnitude(x), a))
           [] OTHER        -> Mul(x, a))

-----------------------------------------------------------------------------
(* Scalar loops.  A loop ends when the pixel escapes, when its iterations  *)
(* are used up, or, in the copies that look at the cancel probe, when the  *)
(* probe answers.  stop is the iteration from which it answers; a loop     *)
(* that is not asked to look has stop = Never.                             *)

Never == -1

make_iter_result(z) ==
  [i |-> 0, z |-> z, iter |-> 0, norm |-> 0, min |-> Inf, max |-> 0,
   escaped |-> FALSE, cancelled |-> FALSE]

(* Mutant of Asked: the probe is polled one stride late. *)
AskedLate(stop, i) == stop # Never /\ i % CancelStride = 0 /\ i >= stop + CancelStride

Asked(stop, i) == stop # Never /\ i % CancelStride = 0 /\ i >= stop

Iterate(n, s0, Body(_)) ==
  LET after[i \in 0 .. n] == IF i = 0 THEN s0 ELSE Body(after[i - 1]) IN after[n]

FiniteNorm(z) == IF Finite(z.re) /\ Finite(z.im) THEN Add(z.re2, z.im2) ELSE Inf

(* One iteration of iterate_quadratic_cached_masked and of its cancellable *)
(* copy.                                                                   *)
QuadraticBody(v, c, bail2, stop, s) ==
  IF s.escaped \/ s.cancelled THEN s
  ELSE IF Asked(stop, s.i) THEN [s EXCEPT !.cancelled = TRUE]
  ELSE LET z  == QuadraticStep(step_cached[v], s.z, c)
           n2 == FiniteNorm(z)
           out == ~(Finite(z.re) /\ Finite(z.im)) \/ Gt(n2, bail2)
       IN [s EXCEPT !.i = s.i + 1, !.z = z,
                    !.min = IF n2 < @ THEN n2 ELSE @, !.max = IF n2 > @ THEN n2 ELSE @,
                    !.escaped = out, !.iter = IF out THEN s.i ELSE @,
                    !.norm = IF out THEN n2 ELSE @]

(* The same for the transcendental variants, whose components are compared *)
(* with the bailout.                                                       *)
TranscendentalBody(v, c, bail, stop, s) ==
  IF s.escaped \/ s.cancelled THEN s
  ELSE IF Asked(stop, s.i) THEN [s EXCEPT !.cancelled = TRUE]
  ELSE LET z   == TranscendentalStep(v, s.z, c)
           n2  == FiniteNorm(z)
           out == \/ ~(Finite(z.re) /\ Finite(z.im))
                  \/ Magnitude(z.re) >= bail \/ Magnitude(z.im) >= bail
       IN [s EXCEPT !.i = s.i + 1, !.z = z,
                    !.min = IF n2 < @ THEN n2 ELSE @, !.max = IF n2 > @ THEN n2 ELSE @,
                    !.escaped = out, !.iter = IF out THEN s.i ELSE @,
                    !.norm = IF out THEN n2 ELSE @]

Answer(s, iters) == [iter |-> IF s.escaped THEN s.iter ELSE iters, norm |-> s.norm,
                     min |-> s.min, max |-> s.max, escaped |-> s.escaped]

iterate_quadratic(job, z0, c, stop) ==
  Iterate(job.iters, make_iter_result(Cached(z0)),
          LAMBDA s : QuadraticBody(job.variant, c, job.bail * job.bail, stop, s))

iterate_transcendental(job, z0, c, stop) ==
  Iterate(job.iters, make_iter_result(Cached(z0)),
          LAMBDA s : TranscendentalBody(job.variant, c, job.bail, stop, s))

iterate_masked(job, z0, c) ==
  Answer(IF job.variant \in Quadratic THEN iterate_quadratic(job, z0, c, Never)
         ELSE iterate_transcendental(job, z0, c, Never), job.iters)

(* The result is written only by a loop that was not cancelled. *)
iterate_field_cancellable(job, z0, c, stop) ==
  LET s == IF job.variant \in Quadratic THEN iterate_quadratic(job, z0, c, stop)
           ELSE iterate_transcendental(job, z0, c, stop)
  IN IF s.cancelled THEN [complete |-> FALSE, at |-> s.i]
     ELSE [complete |-> TRUE, at |-> s.i, result |-> Answer(s, job.iters)]

-----------------------------------------------------------------------------
(* The smallest squared distance between two points of the orbit, which is *)
(* kept in scratch, capped at job.cap points; the point that escapes still *)
(* counts.                                                                 *)

Distance2(a, b) ==
  LET dr == Add(a.re, Neg(b.re))
      di == Add(a.im, Neg(b.im))
  IN Add(Mul(dr, dr), Mul(di, di))

LeastDistance(best, a, scratch) ==
  LET f[k \in 0 .. Len(scratch)] ==
        IF k = 0 THEN best
        ELSE LET d2 == Distance2(a, scratch[k]) IN IF Gt(f[k - 1], d2) THEN d2 ELSE f[k - 1]
  IN f[Len(scratch)]

PairwiseBody(job, c, stop, s) ==
  IF s.escaped \/ s.cancelled THEN s
  ELSE IF Asked(stop, s.i) THEN [s EXCEPT !.cancelled = TRUE]
  ELSE LET z == IF job.variant \in Quadratic THEN QuadraticStep(variant_step[job.variant], s.z, c)
                ELSE TranscendentalStep(job.variant, s.z, c)
           out == \/ ~(Finite(z.re) /\ Finite(z.im))
                  \/ IF job.variant \in Quadratic THEN Gt(FiniteNorm(z), job.bail * job.bail)
                     ELSE Magnitude(z.re) >= job.bail \/ Magnitude(z.im) >= job.bail
       IN [s EXCEPT !.i = s.i + 1, !.z = z, !.extra = LeastDistance(@, z, s.scratch),
                    !.scratch = Append(@, z), !.escaped = out]

PairwiseStart(z0) ==
  [i |-> 0, z |-> Cached(z0), extra |-> Inf, scratch |-> <<>>, escaped |-> FALSE, cancelled |-> FALSE]

iterate_pairwise(job, z0, c) ==
  Iterate(IF job.cap < job.iters THEN job.cap ELSE job.iters, PairwiseStart(z0),
          LAMBDA s : PairwiseBody(job, c, Never, s)).extra

(* The cancellable copy also looks at the probe inside the search through  *)
(* the scratch, at its first entry and every CancelStride entries.         *)
iterate_pairwise_field_cancellable(job, z0, c, stop) ==
  LET n == IF job.cap < job.iters THEN job.cap ELSE job.iters
      s == Iterate(n, PairwiseStart(z0),
             LAMBDA t : IF ~(t.escaped \/ t.cancelled) /\ t.scratch # <<>> /\ stop # Never /\ t.i >= stop
                        THEN [t EXCEPT !.cancelled = TRUE] ELSE PairwiseBody(job, c, stop, t))
  IN IF s.cancelled THEN [complete |-> FALSE, at |-> s.i]
     ELSE [complete |-> TRUE, at |-> s.i, result |-> s.extra]
=============================================================================
