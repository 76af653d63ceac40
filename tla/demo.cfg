\* Three runs, each started at any point of the ones before, two alerts of the
\* mempool and a third page: enough for a run inside a run inside a run and for
\* an alert after one that vanished under the pointer.  Everything may stop when
\* the bounds are used up and the user rests, but navigation never ends.
CONSTANTS
  OtherPages = {"edu"}
  MaxRuns = 3
  MaxSamples = 2
SPECIFICATION FairSpec
INVARIANTS StepIsProgress NoAlertOnLens
PROPERTIES LensGoesOff TourEnds AlertGoes
