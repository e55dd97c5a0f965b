------------------------------ MODULE Colormap ------------------------------
(***************************************************************************)
(* Colours.  compute/colormap.hpp colours what the CPU rendered; each CUDA *)
(* file carries its own copy, which claims to match it pixel for pixel.    *)
(* A colour is <<blue, green, red>>.                                       *)
(*                                                                         *)
(* Positions on a palette are fractions k / n of integers.  An escape norm *)
(* is 2^(2^k), whose double logarithm is k; a metric value is a power of   *)
(* two.  Cosines stay symbolic: a channel is the argument of its cosine.   *)
(***************************************************************************)
EXTENDS Integers, Sequences

CONSTANTS ColourIters,    \* iteration counts coloured
          MaxIter,        \* of the image
          ShownIters,     \* iteration counts of the smooth palettes
          DoubleLogs,     \* k of the escape norms
          Exponents,      \* of the metric values
          BailExponent    \* of the bailout

ASSUME ColoursAssumption ==
  /\ MaxIter \in Nat /\ ColourIters \subseteq Nat /\ ShownIters \subseteq Nat
  /\ DoubleLogs \subseteq Nat /\ Exponents \subseteq Int /\ BailExponent \in Int

VARIABLES asked,          \* what is coloured
          colour          \* what each copy answered

colvars == <<asked, colour>>

(* The numbers of enum class Colormap; 0 is ClassicCos. *)
Mod17 == 1
HsvWheel == 2
Tri765 == 3
Grayscale == 4
HsRainbow == 5
Inferno == 6
Viridis == 7
Twilight == 8
EmberBlue == 9
Spectral1530 == 10
Palettes == 0 .. 10
Gradients == {Inferno, Viridis, Twilight, EmberBlue}

Grey(v) == <<v, v, v>>
White == Grey(255)
clamp255(v) == IF v < 0 THEN 0 ELSE IF v > 255 THEN 255 ELSE v
Clamped(c) == [i \in 1..3 |-> clamp255(c[i])]
AtMost(a, b) == IF a < b THEN a ELSE b
AtLeast(a, b) == IF a > b THEN a ELSE b
Distance(a, b) == IF a > b THEN a - b ELSE b - a

cos_color(k, n) == <<<<"cos", 139, k, n>>, <<"cos", 27, k, n>>, <<"cos", 53, k, n>>>>
cos_cycle(k, n) == <<<<"phase", 2, k, n>>, <<"phase", 1, k, n>>, <<"phase", 0, k, n>>>>

-----------------------------------------------------------------------------
(* Gradients: stops <<percent, red, green, blue>>. *)

gradient_stops ==
  [p \in Gradients |->
     CASE p = Inferno ->
            << <<0, 0, 0, 4>>, <<14, 31, 12, 72>>, <<28, 85, 15, 109>>, <<42, 136, 34, 106>>,
               <<56, 186, 54, 85>>, <<70, 227, 89, 51>>, <<84, 249, 140, 10>>,
               <<94, 252, 195, 55>>, <<100, 252, 255, 164>> >>
       [] p = Viridis ->
            << <<0, 68, 1, 84>>, <<25, 59, 82, 139>>, <<50, 33, 145, 140>>, <<75, 94, 201, 98>>,
               <<100, 253, 231, 37>> >>
       [] p = Twilight ->
            << <<0, 32, 24, 70>>, <<18, 63, 92, 180>>, <<36, 58, 150, 165>>, <<54, 240, 210, 120>>,
               <<72, 210, 90, 90>>, <<88, 90, 50, 110>>, <<100, 32, 24, 70>> >>
       [] p = EmberBlue ->
            << <<0, 5, 8, 32>>, <<22, 10, 70, 120>>, <<48, 55, 190, 185>>, <<72, 245, 172, 75>>,
               <<100, 255, 246, 210>> >>]

(* From a to z, u = (t - a.t) / (z.t - a.t) of the way, rounded. *)
Mix(a, z, channel, k, n) ==
  LET den == (z[1] - a[1]) * n
      num == a[channel] * (z[1] * n - 100 * k) + z[channel] * (100 * k - a[1] * n)
  IN clamp255((2 * num + den) \div (2 * den))

(* The first stop at or after t; t at or before the first stop is that. *)
gradient_stops_bgr(stops, k, n) ==
  IF k <= 0 THEN <<stops[1][4], stops[1][3], stops[1][2]>>
  ELSE LET i == CHOOSE i \in 2 .. Len(stops) :
                  100 * AtMost(k, n) <= stops[i][1] * n
                  /\ \A j \in 2 .. i - 1 : 100 * AtMost(k, n) > stops[j][1] * n
       IN [c \in 1..3 |-> Mix(stops[i - 1], stops[i], 5 - c, AtMost(k, n), n)]

colorize_gradient_palette_bgr(k, n, p) == gradient_stops_bgr(gradient_stops[p], k, n)

(* The GPU's chain of tests, d_gradient_set on the segment that is hit. *)
d_gradient_segments ==
  [p \in Gradients |->
     CASE p = Inferno ->
            << <<0,14, 0,0,4, 31,12,72>>, <<14,28, 31,12,72, 85,15,109>>,
               <<28,42, 85,15,109, 136,34,106>>, <<42,56, 136,34,106, 186,54,85>>,
               <<56,70, 186,54,85, 227,89,51>>, <<70,84, 227,89,51, 249,140,10>>,
               <<84,94, 249,140,10, 252,195,55>>, <<94,100, 252,195,55, 252,255,164>> >>
       [] p = Viridis ->
            << <<0,25, 68,1,84, 59,82,139>>, <<25,50, 59,82,139, 33,145,140>>,
               <<50,75, 33,145,140, 94,201,98>>, <<75,100, 94,201,98, 253,231,37>> >>
       [] p = Twilight ->
            << <<0,18, 32,24,70, 63,92,180>>, <<18,36, 63,92,180, 58,150,165>>,
               <<36,54, 58,150,165, 240,210,120>>, <<54,72, 240,210,120, 210,90,90>>,
               <<72,88, 210,90,90, 90,50,110>>, <<88,100, 90,50,110, 32,24,70>> >>
       [] p = EmberBlue ->
            << <<0,22, 5,8,32, 10,70,120>>, <<22,48, 10,70,120, 55,190,185>>,
               <<48,72, 55,190,185, 245,172,75>>, <<72,100, 245,172,75, 255,246,210>> >>]

d_gradient_set(seg, k, n) ==
  [c \in 1..3 |->
     LET den == (seg[2] - seg[1]) * n
         u   == AtLeast(0, AtMost(den, 100 * k - seg[1] * n))
         num == seg[6 - c] * (den - u) + seg[9 - c] * u
     IN clamp255((2 * num + den) \div (2 * den))]

d_gradient_palette_bgr(k, n, p) ==
  LET segs == d_gradient_segments[p]
      t    == AtLeast(0, AtMost(k, n))
      hit  == {i \in 1 .. Len(segs) - 1 : 100 * t <= segs[i][2] * n}
  IN d_gradient_set(segs[IF hit = {} THEN Len(segs) ELSE CHOOSE i \in hit : \A j \in hit : i <= j], t, n)

-----------------------------------------------------------------------------
(* Wheels. *)

(* The hue k / n of a turn, fully saturated. *)
hsv_to_rgb(k, n) ==
  LET x == (255 * (n - Distance((6 * k) % (2 * n), n))) \div n
      sector == (6 * k) \div n
  IN CASE sector = 0 -> <<0, x, 255>>  [] sector = 1 -> <<0, 255, x>>
       [] sector = 2 -> <<x, 255, 0>>  [] sector = 3 -> <<255, x, 0>>
       [] sector = 4 -> <<255, 0, x>>  [] OTHER      -> <<x, 0, 255>>

(* d_hsv_to_rgb and d_hsv_to_rgb_d. *)
d_hsv_to_rgb(k, n) ==
  LET x == (255 * (n - Distance((6 * k) % (2 * n), n))) \div n
      sector == (6 * k) \div n
  IN CASE sector = 0 -> <<0, x, 255>>  [] sector = 1 -> <<0, 255, x>>
       [] sector = 2 -> <<x, 255, 0>>  [] sector = 3 -> <<255, x, 0>>
       [] sector = 4 -> <<255, 0, x>>  [] OTHER      -> <<x, 0, 255>>

rainbow_from_index(i) ==
  CASE i <= 0          -> Grey(0)
    [] i >= 1785       -> White
    [] i \in 1..255    -> Clamped(<<i, 0, 0>>)
    [] i \in 256..509  -> Clamped(<<510 - i, 0, i - 255>>)
    [] i \in 510..764  -> Clamped(<<i - 510, 0, 255>>)
    [] i \in 765..1019 -> Clamped(<<1020 - i, i - 765, 1020 - i>>)
    [] i \in 1020..1274 -> Clamped(<<i - 1020, 255, 0>>)
    [] i \in 1275..1529 -> Clamped(<<1530 - i, 255, i - 1275>>)
    [] i \in 1530..1784 -> Clamped(<<i - 1530, 255, 255>>)

d_rainbow_from_index(i) ==
  CASE i <= 0          -> Grey(0)
    [] i >= 1785       -> White
    [] i \in 1..255    -> Clamped(<<i, 0, 0>>)
    [] i \in 256..509  -> Clamped(<<510 - i, 0, i - 255>>)
    [] i \in 510..764  -> Clamped(<<i - 510, 0, 255>>)
    [] i \in 765..1019 -> Clamped(<<1020 - i, i - 765, 1020 - i>>)
    [] i \in 1020..1274 -> Clamped(<<i - 1020, 255, 0>>)
    [] i \in 1275..1529 -> Clamped(<<1530 - i, 255, i - 1275>>)
    [] i \in 1530..1784 -> Clamped(<<i - 1530, 255, 255>>)

(* Six transitions of 255 steps, green first. *)
Hue(seg, d) ==
  CASE seg = 0 -> <<d, 255, 0>>  [] seg = 1 -> <<255, 255 - d, 0>>  [] seg = 2 -> <<255, 0, d>>
    [] seg = 3 -> <<255 - d, 0, 255>>  [] seg = 4 -> <<0, d, 255>>  [] OTHER -> <<0, 255, 255 - d>>

(* Mutant of hue1530: segments of 256 steps. *)
hue1530_of_256(i) == Hue((i % 1530) \div 256, (i % 1530) % 256)

hue1530(i) == Hue((i % 1530) \div 255, (i % 1530) % 255)
d_hue1530(i) == Hue((i % 1530) \div 255, (i % 1530) % 255)
ln_d_hue1530(i) == Hue((i % 1530) \div 255, (i % 1530) % 255)

Band(band, d) ==
  CASE band = 0 -> Clamped(<<255, d, 255 - d>>)
    [] band = 1 -> Clamped(<<255 - d, 255, d>>)
    [] OTHER    -> Clamped(<<d, 255 - d, 255>>)

Tri(m) == Band(m \div 255, m % 255)

-----------------------------------------------------------------------------
(* Escape times. *)

(* The palettes that step with the iteration count, given the copy's own   *)
(* wheels.                                                                 *)
StepPalette(iter, max_iter, p, Gradient(_, _, _), Hsv(_, _), Wheel(_)) ==
  IF iter >= max_iter THEN White
  ELSE LET k == iter + 1
           n == max_iter + 2
       IN CASE p \in Gradients -> Gradient(k, n, p)
            [] p = Mod17 -> Clamped(<<(iter % 17) * 17, iter \div 256, iter % 256>>)
            [] p = HsvWheel -> Hsv(iter % 1440, 1440)
            [] p = Tri765 -> Tri(iter % 765)
            [] p = Grayscale -> Grey(clamp255((255 * k) \div n))
            [] p = Spectral1530 -> IF iter < 255 THEN <<0, iter, 0>> ELSE Wheel((iter - 255) % 1530)
            [] OTHER -> cos_color(k, n)

colorize_escape_bgr(iter, max_iter, p) ==
  StepPalette(iter, max_iter, p, colorize_gradient_palette_bgr, hsv_to_rgb, hue1530)

colorize_escape_bgr_cuda(iter, max_iter, p) ==
  StepPalette(iter, max_iter, p, d_gradient_palette_bgr, d_hsv_to_rgb, d_hue1530)

d_colorize_escape_bgr_ln(iter, max_iter, p) ==
  StepPalette(iter, max_iter, p, d_gradient_palette_bgr, d_hsv_to_rgb, ln_d_hue1530)

(* NoNorm: |z|^2 at most 1, as when the kernel kept none. *)
NoNorm == -1
smooth_mu(iter, k) == IF k = NoNorm THEN iter ELSE AtLeast(0, iter + 1 - k)

colorize_escape_smooth_bgr(iter, max_iter, p, norm) ==
  IF iter >= max_iter THEN White
  ELSE LET mu == smooth_mu(iter, norm)
           k  == mu % 32
       IN CASE p \in Gradients -> colorize_gradient_palette_bgr(k, 32, p)
            [] p = HsvWheel -> hsv_to_rgb(k, 32)
            [] p = Tri765 -> Band((((765 * k) \div 32) \div 255) % 3, (255 * ((765 * k) % 32)) \div 32)
            [] p = Grayscale -> Grey(clamp255((255 * k) \div 32))
            [] p = Spectral1530 -> IF mu < 255 THEN <<0, clamp255(mu), 0>> ELSE hue1530((mu - 255) % 1530)
            [] p = Mod17 -> Grey(clamp255((mu % 17) * 15))
            [] OTHER -> cos_color(k, 32)

-----------------------------------------------------------------------------
(* Metric fields.  A value is an exponent e of two, or one of these. *)

ZeroValue == -1000
InfiniteValue == 1000
FieldValues == Exponents \cup {ZeroValue, InfiniteValue}

(* raw / bailout, at most 1, as a fraction of 2^ValueBits. *)
ValueBits == 12
normalize_raw_field(e) ==
  IF e = InfiniteValue THEN 2^ValueBits
  ELSE IF e = ZeroValue THEN 0
  ELSE IF e <= BailExponent - ValueBits THEN 1
  ELSE AtMost(2^ValueBits, 2^(ValueBits + e - BailExponent))

colorize_field_hs_bgr(e) ==
  IF e \in {ZeroValue, InfiniteValue} THEN White
  ELSE rainbow_from_index(AtLeast(0, AtMost(1785, 36 - 35 * e)))

colorize_field_hs_bgr_cuda(e) ==
  IF e \in {ZeroValue, InfiniteValue} THEN White
  ELSE d_rainbow_from_index(AtLeast(0, AtMost(1785, 36 - 35 * e)))

(* An infinite value has an infinite logarithm, whose conversion to int is *)
(* undefined; the renderers never let one through to here.                 *)
colorize_field_smooth_bgr(e, p) ==
  IF e = ZeroValue THEN White
  ELSE LET base == 2 - e
           Index(k) == AtLeast(0, k * base)
       IN CASE p \in Gradients -> colorize_gradient_palette_bgr(base % 8, 8, p)
            [] p = HsvWheel -> hsv_to_rgb(Index(180) % 1440, 1440)
            [] p = Tri765 -> Tri(Index(96) % 765)
            [] p = HsRainbow -> rainbow_from_index(AtMost(1785, Index(35)))
            [] p = Spectral1530 -> hue1530(Index(191))
            [] OTHER -> Grey(Index(32) % 256)

FieldPalette(k, p, Gradient(_, _, _), Hsv(_, _), Rainbow(_), Wheel(_)) ==
  LET n == 2^ValueBits
  IN CASE p \in Gradients -> Gradient(k, n, p)
       [] p = Grayscale -> Grey(clamp255((255 * k) \div n))
       [] p = HsvWheel -> Hsv(k, n)
       [] p = Tri765 -> LET m == (765 * k) \div n IN Band((m \div 255) % 3, m % 255)
       [] p = Mod17 -> Grey(AtMost(16, (17 * k) \div n) * 15)
       [] p = HsRainbow -> Rainbow(AtMost(1785, (1785 * k) \div n))
       [] p = Spectral1530 -> Wheel(AtMost(1529, (1530 * k) \div n))
       [] OTHER -> cos_cycle(k, n)

colorize_field_bgr(k, p) ==
  FieldPalette(k, p, colorize_gradient_palette_bgr, hsv_to_rgb, rainbow_from_index, hue1530)

colorize_field_bgr_cuda(k, p) ==
  FieldPalette(k, p, d_gradient_palette_bgr, d_hsv_to_rgb, d_rainbow_from_index, d_hue1530)

(* What colorize_direct does with a metric value. *)
colorize_direct(e, p, smooth) ==
  IF p = HsRainbow THEN colorize_field_hs_bgr(e)
  ELSE IF smooth THEN colorize_field_smooth_bgr(e, p)
  ELSE colorize_field_bgr(normalize_raw_field(e), p)

colorize_metric_field_bgr(e, p) ==
  IF p = HsRainbow THEN colorize_field_hs_bgr_cuda(e)
  ELSE colorize_field_bgr_cuda(normalize_raw_field(e), p)

-----------------------------------------------------------------------------
NoColour == <<>>

ColInit == asked = NoColour /\ colour = NoColour

ColourEscape ==
  /\ asked = NoColour
  /\ \E p \in Palettes, iter \in ColourIters :
       /\ asked' = [what |-> "escape", p |-> p, iter |-> iter]
       /\ colour' = <<colorize_escape_bgr(iter, MaxIter, p),
                      colorize_escape_bgr_cuda(iter, MaxIter, p),
                      d_colorize_escape_bgr_ln(iter, MaxIter, p)>>

ColourSmooth ==
  /\ asked = NoColour
  /\ \E p \in Palettes, iter \in ShownIters, norm \in DoubleLogs \cup {NoNorm} :
       /\ asked' = [what |-> "smooth", p |-> p, iter |-> iter, norm |-> norm]
       /\ colour' = <<colorize_escape_smooth_bgr(iter, MaxIter, p, norm)>>

ColourField ==
  /\ asked = NoColour
  /\ \E p \in Palettes, e \in FieldValues, smooth \in BOOLEAN :
       /\ smooth => e # InfiniteValue
       /\ asked' = [what |-> "field", p |-> p, e |-> e, smooth |-> smooth]
       /\ colour' = IF smooth THEN <<colorize_direct(e, p, TRUE)>>
                    ELSE <<colorize_direct(e, p, FALSE), colorize_metric_field_bgr(e, p)>>

ColNext == ColourEscape \/ ColourSmooth \/ ColourField

ColSpec == ColInit /\ [][ColNext]_colvars

-----------------------------------------------------------------------------
Near(a, b, gap) == \A i \in 1..3 : Distance(a[i], b[i]) <= gap

(* The copies of the palettes on the GPU colour every escape count and     *)
(* every metric value as the CPU does ("pixel-exact"), white is the inside *)
(* of the set, and the wheels have no seam: a neighbouring count has a     *)
(* colour at most two levels away in each channel, also where segments of  *)
(* the wheel meet and where it closes; the same of the rainbow's index.    *)
PalettesAgree ==
  /\ asked # NoColour => \A i \in DOMAIN colour : colour[i] = colour[1]
  /\ asked # NoColour /\ asked.what = "escape" =>
       /\ asked.iter >= MaxIter => colour[1] = White
       /\ asked.iter + 1 < MaxIter /\ asked.p \in {HsvWheel, Tri765, Spectral1530} =>
            Near(colour[1], colorize_escape_bgr(asked.iter + 1, MaxIter, asked.p), 2)
       /\ Near(rainbow_from_index(asked.iter), rainbow_from_index(asked.iter + 1), 1)
  /\ asked # NoColour /\ asked.what = "smooth" /\ asked.p = Spectral1530 /\ asked.iter + 1 < MaxIter =>
       Near(colour[1], colorize_escape_smooth_bgr(asked.iter + 1, MaxIter, asked.p, asked.norm), 1)
=============================================================================
