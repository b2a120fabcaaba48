\* Three logins and two changes of the account, interleaved in every way,
\* by clients that may hang up.
SPECIFICATION Spec
CONSTANTS
  Logins = {l1, l2, l3}
  Changes = {c1, c2}
  Limit = 2
  Window = 2
  Lifetime = 2
  MaxTime = 3
INVARIANTS Throttled RefusedForCause ChangedOnce SignedOut GuessesLimited
SYMMETRY Symmetry
\* The requests are finite in number and so is the clock.
CHECK_DEADLOCK FALSE
