---------------------------- MODULE MCAlgorithms ----------------------------
(***************************************************************************)
(* The computations of the node that keep no state between requests, each  *)
(* on small inputs.  A behaviour is one computation: a row of a map or of  *)
(* a slice, a fixed-point step, loop or view, or the colour of a pixel.    *)
(*                                                                         *)
(* Rows have five pixels: the vectors of two and of four lanes have full   *)
(* and partial groups, the narrowest ones a lane to themselves.  A centre  *)
(* far out has orbits that overflow.                                       *)
(***************************************************************************)
EXTENDS Transition, FixedPoint, Colormap

(* Stand-ins for the complex functions: one that grows, one with a pole. *)
MCCxApply(v, z) ==
  IF v = 10 THEN Point(Add(z.re, z.re), Neg(z.im))
  ELSE IF z.re = z.im THEN Point(NaN, Inf) ELSE Point(z.im, Add(z.re, 1))

Base == [plane |-> "map", variant |-> 0, julia |-> FALSE, jc |-> Point(-1, 1),
         centre |-> Point(0, 0), turned |-> 0, width |-> 5, height |-> 2,
         from |-> 0, to |-> 5, iters |-> 4, bail |-> 4, cap |-> 0]

MapJobs ==
  LET Planes == {[Base EXCEPT !.variant = v, !.julia = j, !.turned = t] :
                   v \in 0..11, j \in BOOLEAN, t \in {0, 1}}
      Far    == {[b EXCEPT !.centre = Point(60, 60)] : b \in Planes}
      Parts  == {[b EXCEPT !.from = 1, !.to = 4, !.cap = 3] : b \in Planes}
      Lns    == {[b EXCEPT !.plane = "ln", !.width = 4, !.to = 4, !.from = f] :
                   b \in {p \in Planes : p.turned = 0}, f \in 0..1}
  IN Planes \cup Far \cup Parts \cup Lns

(* Every variant is the first leg of a pair; the angles are the right      *)
(* angles, given in several ways, and two others.                          *)
SliceJobs ==
  LET Slice == [Base EXCEPT !.plane = "slice", !.centre = Point(1, 2), !.height = 3, !.cap = 3]
      Views == {[Slice EXCEPT !.julia = j, !.turned = t] : j \in BOOLEAN, t \in {-1, 0}}
      Pairs == {PairSlice(b, f, 8 - f \div 2, m) : b \in Views, f \in 0..9,
                  m \in {0, 90000, -90000, 180000, -450000, 540000, 37000, -150000}}
      Far   == {[p EXCEPT !.centre = Point(30, 30)] :
                  p \in {q \in Pairs : q.legs[1].variant \in {0, 5, 7} /\ q.turned = 0}}
      Low   == {[p EXCEPT !.bail = b, !.centre = Point(0, 1)] : b \in {1, 2},
                  p \in {q \in Pairs : q.direct # "None" /\ q.turned = 0 /\ q.legs[1].variant \in {0, 6}}}
      Legs(vs, ws) == [i \in DOMAIN vs |-> [variant |-> vs[i], weight |-> ws[i]]]
      Mixes == {<<0, 2, 5, 9>>, <<1, 4, 3, 6>>, <<7, 8, 0, 3>>}
      Multi == {MultiSlice(b, Legs(vs, ws)) : b \in Views, vs \in Mixes,
                  ws \in {<<1, 1, 1, 1>>, <<0, 5, -1, 0>>}}
      Cube  == [Slice EXCEPT !.plane = "volume", !.width = 3, !.to = 3]
      Volumes == {PairVolume(Cube, f, 9 - f) : f \in 0..9}
                 \cup {MultiVolume(Cube, Legs(vs, ws)) : vs \in Mixes,
                         ws \in {<<1, 1, 1, 1>>, <<0, 5, -1, 5>>, <<0, 0, 1, 0>>}}
  IN Pairs \cup Multi \cup Far \cup Low \cup Volumes

MCJobs == MapJobs \cup SliceJobs

MCParameters == {IMin, -33, 7, IMax}
MCJuliaC == <<-9, 5>>
MCLoopJobs ==
  [variant : 0..9, julia : BOOLEAN, x : {-70, -11, 3, 20, IMax}, y : {IMin, -8, 0, 13}, iters : {0, 4}]

MCIters == 0 .. 1800
MCExponents == {-51, -50, -13, -12, -9, -8, -7, -2, -1, 0, 1, 2, 3}

NoJob == [plane |-> "none"]
Idle == job = NoJob /\ image = Nothing
FxIdle == frac = Q657 /\ work = "idle" /\ input = Nil /\ output = Nil

AlgorithmsInit ==
  /\ ColInit
  /\ \/ Init /\ FxIdle
     \/ FxInit /\ Idle
     \/ Idle /\ FxIdle

AlgorithmsNext ==
  \/ job # NoJob /\ (Next \/ SliceNext) /\ UNCHANGED <<fxvars, colvars>>
  \/ FxNext /\ UNCHANGED <<vars, colvars>>
  \/ Idle /\ FxIdle /\ ColNext /\ UNCHANGED <<vars, fxvars>>

AlgorithmsSpec == AlgorithmsInit /\ [][AlgorithmsNext]_<<vars, fxvars, colvars>>
=============================================================================
