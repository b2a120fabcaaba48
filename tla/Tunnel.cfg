\* The start and two admin requests, two children of one tunnel.
SPECIFICATION Spec
CONSTANTS
  Boot = boot
  Requests = {r1, r2}
  MaxGen = 2
INVARIANTS ChildOwned ReadyIsWatched StartingIsWatched SettledIsTrue
SYMMETRY Symmetry
\* The requests are bounded.
CHECK_DEADLOCK FALSE
