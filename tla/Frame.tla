------------------------------- MODULE Frame -------------------------------
(***************************************************************************)
(* What a rendering loop promises its caller, whatever threads, devices    *)
(* and order it uses: every part of the frame is drawn at most once, a     *)
(* part is shown only once it is drawn, and the answer is honest.          *)
(***************************************************************************)
EXTENDS Naturals

CONSTANT Parts            \* the tiles, rows or slabs of the frame

VARIABLES drawn,          \* how often each part was drawn to its end
          shown,          \* the parts the caller was told of
          asked,          \* the caller wants the frame no more
          broken,         \* drawing some part failed for good
          result          \* the answer

frameVars == <<drawn, shown, asked, broken, result>>

Whole == \A i \in Parts : drawn[i] = 1

FrameInit ==
  /\ drawn = [i \in Parts |-> 0]
  /\ shown = {}
  /\ asked = FALSE
  /\ broken = FALSE
  /\ result = "running"

Draw == \* some parts, none of them drawn before
  /\ result = "running"
  /\ \E S \in SUBSET {i \in Parts : drawn[i] = 0} :
       drawn' = [i \in Parts |-> IF i \in S THEN 1 ELSE drawn[i]]
  /\ UNCHANGED <<shown, asked, broken, result>>

Show ==
  /\ result = "running"
  /\ \E S \in SUBSET ({i \in Parts : drawn[i] = 1} \ shown) : shown' = shown \cup S
  /\ UNCHANGED <<drawn, asked, broken, result>>

GiveUp == asked' = TRUE /\ UNCHANGED <<drawn, shown, broken, result>>

Break == result = "running" /\ broken' = TRUE /\ UNCHANGED <<drawn, shown, asked, result>>

(* A failure is never hidden by a cancellation; an incomplete frame is     *)
(* handed out only to a caller who gave it up.                             *)
Answer ==
  /\ result = "running"
  /\ \/ result' = "complete" /\ Whole /\ ~broken
     \/ result' = "cancelled" /\ asked /\ ~broken
     \/ result' = "partial" /\ asked /\ ~broken
     \/ result' = "failed" /\ broken
  /\ UNCHANGED <<drawn, shown, asked, broken>>

FrameNext == Draw \/ Show \/ GiveUp \/ Break \/ Answer

FrameSpec == FrameInit /\ [][FrameNext]_frameVars
=============================================================================
