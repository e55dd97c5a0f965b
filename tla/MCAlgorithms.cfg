SPECIFICATION AlgorithmsSpec
CONSTANTS
  Huge = 1000
  CancelStride = 2
  CxApply <- MCCxApply
  LaneUnit = 1
  Jobs <- MCJobs
  Bits = 8
  Parameters <- MCParameters
  Spans = {1, 9, 40}
  Counts = {1, 4, 5}
  Stride = 2
  LoopJobs <- MCLoopJobs
  JuliaC <- MCJuliaC
  ColourIters <- MCIters
  MaxIter = 1800
  ShownIters = {0, 1, 2, 31, 32, 33, 254, 255, 256, 300}
  DoubleLogs = {0, 1, 2, 3}
  Exponents <- MCExponents
  BailExponent = 1
INVARIANTS KernelsAgree CancelIsClean SlicesAgree FixedPointIsExact PalettesAgree
CHECK_DEADLOCK FALSE
