----------------------------- MODULE RateLimiter -----------------------------
(***************************************************************************)
(* The limiter in front of the login and of the subscription (web/mod.rs). *)
(* It is used under a mutex, so a call of allow is one step, and its clock *)
(* is the monotonic one.                                                   *)
(***************************************************************************)
EXTENDS Naturals, Sequences

CONSTANTS Limit,      \* calls allowed
          Window,     \* in any window of this length
          MaxTime     \* bound on the clock

\* 10 and 120 calls in 60 seconds (main.rs).
ASSUME LimiterAssumption == Limit \in Nat \ {0} /\ Window \in Nat /\ MaxTime \in Nat

VARIABLES
  now,        \* Instant::now
  attempts,   \* the queue
  granted,    \* history: when a call was allowed
  verdict     \* what allow returned, if it has been called at this instant

limiter == <<now, attempts, granted, verdict>>

LimiterInit == now = 0 /\ attempts = <<>> /\ granted = <<>> /\ verdict = "none"

\* Mutant: a call leaves the window one tick early.
ExpiredEarly(at) == now - at + 1 >= Window

\* Mutant: a call that is exactly a window old still counts.
ExpiredLate(at) == now - at > Window

Expired(at) == now - at >= Window

\* The loop takes k elements from the front of the queue: those before the first
\* that has not expired.
Pops(k) ==
  /\ \A i \in 1 .. k : Expired(attempts[i])
  /\ k < Len(attempts) => ~Expired(attempts[k + 1])

Kept(k) == SubSeq(attempts, k + 1, Len(attempts))

\* Mutant: the limit is passed by one.
GrantOneMore(k) ==
  /\ Pops(k) /\ Len(Kept(k)) <= Limit
  /\ attempts' = Append(Kept(k), now)
  /\ granted' = Append(granted, now)
  /\ verdict' = "granted"
  /\ UNCHANGED now

Grant(k) ==
  /\ Pops(k) /\ Len(Kept(k)) < Limit
  /\ attempts' = Append(Kept(k), now)
  /\ granted' = Append(granted, now)
  /\ verdict' = "granted"
  /\ UNCHANGED now

Refuse(k) ==
  /\ Pops(k) /\ Len(Kept(k)) >= Limit
  /\ attempts' = Kept(k)
  /\ verdict' = "refused"
  /\ UNCHANGED <<now, granted>>

Allow == \E k \in 0 .. Len(attempts) : Grant(k) \/ Refuse(k)

ClockTick ==
  /\ now < MaxTime
  /\ now' = now + 1
  /\ verdict' = "none"
  /\ UNCHANGED <<attempts, granted>>

LimiterNext == Allow \/ ClockTick

LimiterSpec == LimiterInit /\ [][LimiterNext]_limiter

-----------------------------------------------------------------------------

\* The variables have their types, and the queue never outgrows the limit.
LimiterTypeOK ==
  /\ now \in Nat
  /\ attempts \in Seq(Nat) /\ Len(attempts) <= Limit /\ granted \in Seq(Nat)
  /\ verdict \in {"none", "granted", "refused"}

\* Wherever a window of that length is laid, not only at multiples of it, no more
\* than Limit calls are allowed in it: the call after the next Limit - 1 is a whole
\* window away (allow).
Throttled ==
  \A i \in 1 .. Len(granted) :
    i + Limit <= Len(granted) => granted[i + Limit] - granted[i] >= Window

\* A call is refused only when Limit calls were allowed less than a window ago: what
\* the queue forgets never matters, and what it keeps is never too old (allow).
RefusedForCause ==
  verdict = "refused" =>
    /\ Len(granted) >= Limit
    /\ now - granted[Len(granted) - Limit + 1] < Window
=============================================================================
