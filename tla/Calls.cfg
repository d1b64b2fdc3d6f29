CONSTANTS
  Origin = {a, b}
  Resendable = {a}
  MaxGen = 3
  MaxEpoch = 3
  Req = {r1, r2}
  Threads = {"plain", "io_worker", "unnamed"}
SPECIFICATION MCSpec
INVARIANTS NoOvertaking RunsOnce EintrIsOwed
PROPERTIES CancelsAnswered SignalEnds
CHECK_DEADLOCK FALSE
