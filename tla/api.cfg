\* Two requests in flight over three blocks with a failed call; two callers of
\* health() with a ttl of two; experiments on amounts up to 8.  Requests, blocks
\* and probes run out, so deadlock is not checked.
CONSTANTS
  Chain <- MCChain
  s1 = s1
  s2 = s2
  Slots = {s1, s2}
  MaxGets = 2
  MaxRaises = 1
  WadDecimals = 2
  AsFloat <- MCAsFloat
  Times08 <- MCTimes08
  LowerCase <- MCLowerCase
  a = a
  b = b
  Callers = {a, b}
  Ttl = 2
  MaxTime = 4
  MaxHead = 3
  MaxProbes = 3
  Reserves <- MCReserves
  Amounts <- MCAmounts
  Fees <- MCFees
  Ratios <- MCRatios
  Ids <- MCIds
  E18 = 100
SPECIFICATION Spec
INVARIANTS ErrorsHaveCause QuietAnswerIsTheChain LendingAddsUp HealthIsFresh InverseIsExact SandwichSolvent ImplementationsAgree
CHECK_DEADLOCK FALSE
