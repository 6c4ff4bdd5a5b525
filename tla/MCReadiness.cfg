SPECIFICATION Spec
CONSTANTS
  Threads = {t1, t2}
  Warmers = {w1, w2}
  SelfWarmup = TRUE
  PayloadFile = TRUE
  MaxStrays = 1
  NoWarmer = NoWarmer
INVARIANTS
  RefusedOnlyInSwitch
  ReadyAfterWarmup
PROPERTIES
  BecomesReady
