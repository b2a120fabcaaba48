-------------------------- MODULE AdminLogin_proofs --------------------------
(***************************************************************************)
(* The rate limiter, for every limit, window and schedule of calls; then   *)
(* the sessions behind it, for any number of logins and changes of the     *)
(* account.                                                                *)
(***************************************************************************)
EXTENDS AdminLogin, FiniteSetTheorems, NaturalsInduction, TLAPS

-----------------------------------------------------------------------------
(* The rate limiter *)

\* How many of the calls allowed have been forgotten.
Forgotten == Len(granted) - Len(attempts)

\* The queue holds the latest of the calls allowed, and those it has forgotten are a
\* window old or more.
Remembers ==
  /\ Len(attempts) <= Len(granted)
  /\ \A i \in 1 .. Len(attempts) : attempts[i] = granted[Forgotten + i]
  /\ \A i \in 1 .. Forgotten : granted[i] + Window <= now

InPast == \A i \in 1 .. Len(granted) : granted[i] <= now

\* Throttled, without subtraction.
Spaced ==
  \A i \in 1 .. Len(granted) :
    i + Limit <= Len(granted) => granted[i] + Window <= granted[i + Limit]

IInv == LimiterTypeOK /\ Remembers /\ InPast /\ Spaced /\ RefusedForCause

USE LimiterAssumption

-----------------------------------------------------------------------------

LEMMA InitIInv == LimiterInit => IInv
  BY DEF LimiterInit, IInv, LimiterTypeOK, Remembers, Forgotten, InPast, Spaced, RefusedForCause

LEMMA Sizes ==
  ASSUME IInv
  PROVE  /\ attempts \in Seq(Nat) /\ granted \in Seq(Nat) /\ now \in Nat
         /\ Len(attempts) \in Nat /\ Len(granted) \in Nat /\ Forgotten \in Nat
         /\ Forgotten = Len(granted) - Len(attempts) /\ Len(attempts) <= Limit
         /\ \A i \in 1 .. Len(granted) : granted[i] \in Nat
<1>1. attempts \in Seq(Nat) /\ granted \in Seq(Nat) /\ now \in Nat
  BY DEF IInv, LimiterTypeOK
<1>2. Len(attempts) \in Nat /\ Len(granted) \in Nat /\ Len(attempts) <= Len(granted)
      /\ Len(attempts) <= Limit
  BY <1>1 DEF IInv, LimiterTypeOK, Remembers
<1> QED
  BY <1>1, <1>2 DEF Forgotten

\* The queue after the loop.
LEMMA KeptType ==
  ASSUME IInv, NEW k \in 0 .. Len(attempts), Pops(k)
  PROVE  /\ Kept(k) \in Seq(Nat) /\ Len(Kept(k)) = Len(attempts) - k
         /\ \A i \in 1 .. Len(Kept(k)) : Kept(k)[i] = granted[Forgotten + k + i]
         /\ \A i \in 1 .. Forgotten + k : granted[i] + Window <= now
<1>1. /\ attempts \in Seq(Nat) /\ now \in Nat /\ Len(attempts) \in Nat /\ Forgotten \in Nat
      /\ Forgotten = Len(granted) - Len(attempts) /\ Len(granted) \in Nat
      /\ \A i \in 1 .. Len(granted) : granted[i] \in Nat
  BY Sizes
<1>2. /\ Kept(k) \in Seq(Nat) /\ Len(Kept(k)) = Len(attempts) - k
      /\ \A i \in 1 .. Len(Kept(k)) : Kept(k)[i] = attempts[k + i]
  BY <1>1 DEF Kept
<1>3. \A i \in 1 .. Len(Kept(k)) : Kept(k)[i] = granted[Forgotten + k + i]
  <2> SUFFICES ASSUME NEW i \in 1 .. Len(Kept(k))
               PROVE  Kept(k)[i] = granted[Forgotten + k + i]
    OBVIOUS
  <2>1. k + i \in 1 .. Len(attempts) /\ Forgotten + (k + i) = Forgotten + k + i
    BY <1>1, <1>2
  <2>2. attempts[k + i] = granted[Forgotten + (k + i)]
    BY <2>1 DEF IInv, Remembers
  <2> QED
    BY <1>2, <2>1, <2>2
<1>4. ASSUME NEW i \in 1 .. Forgotten + k
      PROVE  granted[i] + Window <= now
  <2>1. CASE i <= Forgotten
    BY <1>1, <2>1 DEF IInv, Remembers, Forgotten
  <2>2. CASE i > Forgotten
    <3>1. PICK j \in 1 .. k : i = Forgotten + j
      <4>1. i - Forgotten \in 1 .. k /\ i = Forgotten + (i - Forgotten)
        BY <1>1, <2>2
      <4> QED
        BY <4>1
    <3>2. Expired(attempts[j]) /\ attempts[j] = granted[i]
      <4>1. Expired(attempts[j])
        BY DEF Pops
      <4>2. j \in 1 .. Len(attempts)
        BY <1>1
      <4> QED
        BY <3>1, <4>1, <4>2 DEF IInv, Remembers
    <3>3. granted[i] \in Nat
      <4>1. 1 <= i /\ i <= Len(granted)
        BY <1>1, <3>1
      <4> QED
        BY <1>1, <4>1
    <3> QED
      BY <1>1, <3>2, <3>3 DEF Expired
  <2> QED
    BY <1>1, <2>1, <2>2
<1> QED
  BY <1>2, <1>3, <1>4

LEMMA GrantStep ==
  ASSUME IInv, NEW k \in 0 .. Len(attempts), Grant(k)
  PROVE  IInv'
<1> DEFINE n == Len(granted)
           m == Len(Kept(k))
<1>1. /\ now \in Nat /\ n \in Nat /\ m \in Nat /\ m < Limit
      /\ Forgotten + k = n - m /\ n - m \in Nat
      /\ granted \in Seq(Nat) /\ Kept(k) \in Seq(Nat)
      /\ \A i \in 1 .. n : granted[i] \in Nat
  <2>1. Pops(k) /\ m < Limit
    BY DEF Grant
  <2>2. Kept(k) \in Seq(Nat) /\ m = Len(attempts) - k /\ m \in Nat
    BY <2>1, KeptType
  <2> QED
    BY <2>1, <2>2, Sizes
<1>2. /\ granted' \in Seq(Nat) /\ Len(granted') = n + 1
      /\ granted'[n + 1] = now /\ \A i \in 1 .. n : granted'[i] = granted[i]
  BY <1>1 DEF Grant
<1>3. /\ attempts' \in Seq(Nat) /\ Len(attempts') = m + 1
      /\ attempts'[m + 1] = now /\ \A i \in 1 .. m : attempts'[i] = Kept(k)[i]
  BY <1>1 DEF Grant
<1>4. /\ \A i \in 1 .. m : Kept(k)[i] = granted[n - m + i]
      /\ \A i \in 1 .. n - m : granted[i] + Window <= now
  BY <1>1, KeptType DEF Grant
<1>5. now' = now /\ Forgotten' = n - m
  BY <1>1, <1>2, <1>3 DEF Grant, Forgotten
<1>6. LimiterTypeOK'
  BY <1>2, <1>3 DEF IInv, LimiterTypeOK, Grant
<1>7. (\A i \in 1 .. n : granted[i] <= now) /\ RefusedForCause'
  BY DEF Grant, IInv, InPast, RefusedForCause
<1>8. \A i \in 1 .. n : i + Limit <= n => granted[i] + Window <= granted[i + Limit]
  BY DEF IInv, Spaced
<1> HIDE DEF n, m
<1>9. Remembers'
  <2>1. ASSUME NEW i \in 1 .. m + 1
        PROVE  attempts'[i] = granted'[n - m + i]
    <3>1. CASE i = m + 1
      BY <1>1, <1>2, <1>3, <3>1
    <3>2. CASE i # m + 1
      <4>1. i \in 1 .. m /\ n - m + i \in 1 .. n
        BY <1>1, <3>2
      <4> QED
        BY <1>2, <1>3, <1>4, <4>1
    <3> QED
      BY <3>1, <3>2
  <2>2. ASSUME NEW i \in 1 .. n - m
        PROVE  granted'[i] + Window <= now
    <3>1. i \in 1 .. n
      BY <1>1
    <3> QED
      BY <1>2, <1>4, <3>1
  <2>3. m + 1 <= n + 1 /\ m + 1 <= Limit
    BY <1>1
  <2> QED
    BY <1>2, <1>3, <1>5, <2>1, <2>2, <2>3 DEF Remembers
<1>10. InPast'
  <2> SUFFICES ASSUME NEW i \in 1 .. n + 1
               PROVE  granted'[i] <= now
    BY <1>2, <1>5 DEF InPast
  <2>1. i \in 1 .. n \/ i = n + 1
    BY <1>1
  <2>2. CASE i \in 1 .. n
    BY <1>2, <1>7, <2>2
  <2>3. CASE i = n + 1
    BY <1>1, <1>2, <2>3
  <2> QED
    BY <2>1, <2>2, <2>3
<1>11. Spaced'
  <2> SUFFICES ASSUME NEW i \in 1 .. n + 1, i + Limit <= n + 1
               PROVE  granted'[i] + Window <= granted'[i + Limit]
    BY <1>2 DEF Spaced
  <2>1. CASE i + Limit <= n
    <3>1. i \in 1 .. n /\ i + Limit \in 1 .. n
      BY <1>1, <2>1
    <3> QED
      BY <1>2, <1>8, <2>1, <3>1
  <2>2. CASE i + Limit = n + 1
    <3>1. i \in 1 .. n - m /\ i \in 1 .. n
      BY <1>1, <2>2
    <3> QED
      BY <1>2, <1>4, <2>2, <3>1
  <2> QED
    BY <1>1, <2>1, <2>2
<1> QED
  BY <1>6, <1>7, <1>9, <1>10, <1>11 DEF IInv

LEMMA RefuseStep ==
  ASSUME IInv, NEW k \in 0 .. Len(attempts), Refuse(k)
  PROVE  IInv'
<1> DEFINE n == Len(granted)
           m == Len(Kept(k))
<1>1. /\ granted \in Seq(Nat) /\ now \in Nat /\ n \in Nat /\ m \in Nat
      /\ Kept(k) \in Seq(Nat) /\ m = Len(attempts) - k /\ Len(attempts) <= Limit
      /\ m >= Limit /\ Len(attempts) \in 0 .. n /\ Forgotten + k = n - m
  <2>1. Pops(k) /\ m >= Limit
    BY DEF Refuse
  <2>2. Kept(k) \in Seq(Nat) /\ m = Len(attempts) - k /\ m \in Nat
    BY <2>1, KeptType
  <2> QED
    BY <2>1, <2>2, Sizes
<1>2. attempts' = Kept(k) /\ UNCHANGED <<now, granted>> /\ Forgotten' = n - m
  BY <1>1 DEF Refuse, Forgotten
<1>3. m = Limit /\ k = 0
  BY <1>1
<1>4. LimiterTypeOK' /\ InPast' /\ Spaced'
  BY <1>1, <1>2 DEF IInv, LimiterTypeOK, InPast, Spaced, Refuse
<1>5. Remembers'
  <2>1. \A i \in 1 .. m : Kept(k)[i] = granted[n - m + i]
    BY <1>1, KeptType DEF Refuse
  <2>2. \A i \in 1 .. n - m : granted[i] + Window <= now
    BY <1>1, KeptType DEF Refuse
  <2> QED
    BY <1>1, <1>2, <1>3, <2>1, <2>2 DEF Remembers
<1>6. RefusedForCause'
  <2>1. ~Expired(attempts[1]) /\ attempts[1] = granted[n - Limit + 1]
    BY <1>1, <1>3 DEF Refuse, Pops, IInv, Remembers, Forgotten
  <2> QED
    BY <1>1, <1>2, <1>3, <2>1 DEF RefusedForCause, Expired
<1> QED
  BY <1>4, <1>5, <1>6 DEF IInv

LEMMA TickStep ==
  ASSUME IInv, ClockTick
  PROVE  IInv'
<1>1. LimiterTypeOK' /\ Spaced' /\ RefusedForCause'
  BY DEF IInv, LimiterTypeOK, Spaced, RefusedForCause, ClockTick
<1>2. \A i \in 1 .. Len(granted) : granted[i] \in Nat
  BY DEF IInv, LimiterTypeOK
<1>3. InPast'
  BY <1>2 DEF IInv, LimiterTypeOK, InPast, ClockTick
<1>4. Remembers'
  <2>1. Forgotten \in 0 .. Len(granted) /\ Forgotten' = Forgotten
    BY DEF IInv, LimiterTypeOK, Remembers, Forgotten, ClockTick
  <2>2. \A i \in 1 .. Forgotten : granted[i] + Window <= now + 1
    BY <1>2, <2>1 DEF IInv, LimiterTypeOK, Remembers
  <2> QED
    BY <2>1, <2>2 DEF IInv, Remembers, ClockTick
<1> QED
  BY <1>1, <1>3, <1>4 DEF IInv

LEMMA NextIInv == IInv /\ [LimiterNext]_limiter => IInv'
<1> SUFFICES ASSUME IInv, [LimiterNext]_limiter
             PROVE  IInv'
  OBVIOUS
<1>1. CASE Allow
  BY <1>1, GrantStep, RefuseStep DEF Allow
<1>2. CASE ClockTick
  BY <1>2, TickStep
<1>3. CASE UNCHANGED limiter
  BY <1>3 DEF limiter, IInv, LimiterTypeOK, Remembers, Forgotten, InPast, Spaced, RefusedForCause, Expired
<1> QED
  BY <1>1, <1>2, <1>3 DEF LimiterNext

LEMMA Invariance == LimiterSpec => []IInv
  BY InitIInv, NextIInv, PTL DEF LimiterSpec

LEMMA SpacedThrottled == IInv => Throttled
<1> SUFFICES ASSUME IInv, NEW i \in 1 .. Len(granted), i + Limit <= Len(granted)
             PROVE  granted[i + Limit] - granted[i] >= Window
  BY DEF Throttled
<1>1. granted[i] \in Nat /\ granted[i + Limit] \in Nat
  BY DEF IInv, LimiterTypeOK
<1> QED
  BY <1>1 DEF IInv, Spaced

-----------------------------------------------------------------------------

\* However calls are spread over time, no window of the given length ever holds more
\* calls allowed than the limit (RateLimiter::allow).
THEOREM ThrottledHolds == LimiterSpec => []Throttled
  BY Invariance, SpacedThrottled, PTL

\* And the limiter refuses only when it must: the limit has been reached within the
\* window that ends at the refused call (RateLimiter::allow).
THEOREM RefusedForCauseHolds == LimiterSpec => []RefusedForCause
  BY Invariance, PTL DEF IInv

-----------------------------------------------------------------------------
(* The sessions *)


\* Types, but for the limiter's and the bound on a session's life.
Typed ==
  /\ password \in Nat /\ sessions \subseteq Session
  /\ pc \in [Tasks -> {"idle", "verify", "issue", "store", "clear",
                       "200", "401", "422", "429", "500", "lost"}]
  /\ guess \in [Tasks -> Nat]
  /\ changed \subseteq Changes /\ outdated \in [Changes -> SUBSET Session]
  /\ arrived \in [Logins -> Nat]

\* A change of the password was given one that is current no more, and has gone on.
Spent == \A t \in changed : guess[t] < password /\ pc[t] \notin {"idle", "store"}

\* A session, valid now or remembered, is that of a login that has been answered.
Answered ==
  /\ \A s \in sessions : pc[s.token] = "200"
  /\ \A t \in Changes : \A s \in outdated[t] : pc[s.token] = "200"

AInv == IInv /\ Typed /\ Spent /\ ChangedOnce /\ Answered /\ SignedOut

USE TasksAssumption DEF Tasks, Goto

-----------------------------------------------------------------------------

LEMMA InitAInv == Init => AInv
<1> SUFFICES ASSUME Init
             PROVE  AInv
  OBVIOUS
<1>1. IInv
  BY InitIInv DEF Init
<1>2. Typed /\ Spent /\ ChangedOnce /\ Answered /\ SignedOut
  BY DEF Init, Typed, Spent, ChangedOnce, Answered, SignedOut
<1> QED
  BY <1>1, <1>2 DEF AInv

\* The limiter makes a step of its own or none.
LEMMA LimiterStep == [Next]_vars => [LimiterNext]_limiter
  BY DEF Next, vars, limiter, LimiterNext, LoginStart, LoginVerify, LoginIssue,
         ChangeStart, ChangeStore, Store, ChangeClear, HangUp, Tick

\* A step that touches neither the password nor what changes remember, adds no session
\* and lets no task out of an answer.
LEMMA QuietStep ==
  ASSUME AInv, IInv', Typed', UNCHANGED <<password, changed, outdated>>,
         sessions' \subseteq sessions,
         \A t \in changed : guess'[t] = guess[t] /\ pc'[t] \notin {"idle", "store"},
         \A t \in Changes : pc'[t] = "200" => pc[t] = "200" \/ sessions' = {},
         \A l \in Logins : pc[l] = "200" => pc'[l] = "200"
  PROVE  AInv'
<1>1. Spent' /\ ChangedOnce'
  BY DEF AInv, Spent, ChangedOnce
<1>2. Answered' /\ SignedOut'
  BY DEF AInv, Typed, Session, Answered, SignedOut
<1> QED
  BY <1>1, <1>2 DEF AInv

LEMMA LoginStep ==
  ASSUME AInv, IInv', NEW t \in Logins, LoginStart(t) \/ LoginVerify(t) \/ LoginIssue(t)
  PROVE  AInv'
<1>1. CASE LoginStart(t)
  <2>1. Typed'
    <3>1. arrived' \in [Logins -> Nat]
      BY <1>1 DEF AInv, IInv, LimiterTypeOK, Typed, LoginStart
    <3> QED
      BY <1>1, <3>1 DEF AInv, Typed, LoginStart
  <2> QED
    BY <1>1, <2>1, QuietStep DEF AInv, Typed, Spent, LoginStart
<1>2. CASE LoginVerify(t)
  <2>1. Typed'
    BY <1>2 DEF AInv, Typed, LoginVerify
  <2> QED
    BY <1>2, <2>1, QuietStep DEF AInv, Typed, Spent, LoginVerify
<1>3. CASE LoginIssue(t)
  <2> DEFINE new == [token |-> t, expires |-> now + Lifetime]
  <2>1. sessions' = sessions \cup {new} /\ pc' = [pc EXCEPT ![t] = "200"] /\ pc[t] = "issue"
        /\ UNCHANGED <<password, guess, changed, outdated, arrived>>
    BY <1>3 DEF LoginIssue
  <2>2. new \in Session
    BY LifetimeAssumption DEF AInv, IInv, LimiterTypeOK, Session
  <2>3. Typed'
    BY <2>1, <2>2 DEF AInv, Typed
  <2>4. \A u \in Changes : pc'[u] = pc[u]
    BY <2>1 DEF AInv, Typed
  <2>5. Spent' /\ ChangedOnce'
    BY <2>1, <2>4 DEF AInv, Typed, Spent, ChangedOnce
  <2>6. Answered'
    BY <2>1, <2>2 DEF AInv, Typed, Answered, Session
  <2>7. \A u \in Changes : new \notin outdated[u]
    BY <2>1 DEF AInv, Answered
  <2>8. SignedOut'
    BY <2>1, <2>4, <2>7 DEF AInv, SignedOut
  <2> QED
    BY <2>3, <2>5, <2>6, <2>8 DEF AInv
<1> QED
  BY <1>1, <1>2, <1>3

LEMMA ChangeStep ==
  ASSUME AInv, IInv', NEW t \in Changes, ChangeStart(t) \/ ChangeStore(t) \/ ChangeClear(t)
  PROVE  AInv'
<1>1. CASE ChangeStart(t)
  <2>1. Typed' /\ sessions' \subseteq sessions
    BY <1>1 DEF AInv, Typed, ChangeStart, Valid
  <2> QED
    BY <1>1, <2>1, QuietStep DEF AInv, Typed, Spent, ChangeStart
<1>2. CASE ChangeClear(t)
  <2>1. Typed'
    BY <1>2 DEF AInv, Typed, ChangeClear
  <2> QED
    BY <1>2, <2>1, QuietStep DEF AInv, Typed, Spent, ChangeClear
<1>3. CASE ChangeStore(t) /\ ~Store(t)
  <2>1. pc[t] = "store" /\ (pc' = [pc EXCEPT ![t] = "401"] \/ pc' = [pc EXCEPT ![t] = "500"])
        /\ UNCHANGED <<password, sessions, guess, changed, outdated, arrived>>
    BY <1>3 DEF ChangeStore
  <2>2. Typed'
    BY <2>1 DEF AInv, Typed
  <2> QED
    BY <2>1, <2>2, QuietStep DEF AInv, Typed, Spent
<1>4. CASE ChangeStore(t) /\ Store(t)
  <2>1. /\ pc[t] = "store" /\ guess[t] = password
        /\ outdated' = [outdated EXCEPT ![t] = sessions]
        /\ pc' = [pc EXCEPT ![t] = "clear"] /\ UNCHANGED <<sessions, guess, arrived>>
    BY <1>4 DEF ChangeStore, Store, AInv, Typed
  <2>2. \/ password' = password + 1 /\ changed' = changed \cup {t}
        \/ UNCHANGED <<password, changed>>
    BY <1>4 DEF Store
  <2>3. Typed'
    BY <2>1, <2>2 DEF AInv, Typed
  <2>4. Spent'
    BY <2>1, <2>2 DEF AInv, Typed, Spent
  <2>5. ChangedOnce'
    BY <2>1, <2>2 DEF AInv, Typed, Spent, ChangedOnce
  <2>6. Answered' /\ SignedOut'
    BY <2>1 DEF AInv, Typed, Session, Answered, SignedOut
  <2> QED
    BY <2>3, <2>4, <2>5, <2>6 DEF AInv
<1> QED
  BY <1>1, <1>2, <1>3, <1>4

\* A handler that is dropped has not answered.
LEMMA HangUpStep ==
  ASSUME AInv, IInv', NEW t \in Tasks, HangUp(t)
  PROVE  AInv'
<1>1. Typed'
  BY DEF AInv, Typed, HangUp
<1> QED
  BY <1>1, QuietStep DEF AInv, Typed, Spent, HangUp

LEMMA NextAInv == AInv /\ [Next]_vars => AInv'
<1> SUFFICES ASSUME AInv, [Next]_vars
             PROVE  AInv'
  OBVIOUS
<1>1. IInv'
  BY LimiterStep, NextIInv DEF AInv
<1>2. CASE \E t \in Logins : LoginStart(t) \/ LoginVerify(t) \/ LoginIssue(t)
  BY <1>1, <1>2, LoginStep
<1>3. CASE \E t \in Changes : ChangeStart(t) \/ ChangeStore(t) \/ ChangeClear(t)
  BY <1>1, <1>3, ChangeStep
<1>4. CASE Tick \/ UNCHANGED vars
  <2>1. UNCHANGED <<password, sessions, pc, guess, changed, outdated, arrived>>
    BY <1>4 DEF Tick, vars
  <2>2. Typed'
    BY <2>1 DEF AInv, Typed
  <2> QED
    BY <1>1, <2>1, <2>2, QuietStep DEF AInv, Spent
<1>5. CASE \E t \in Tasks : HangUp(t)
  BY <1>1, <1>5, HangUpStep
<1> QED
  BY <1>2, <1>3, <1>4, <1>5 DEF Next

LEMMA SessionInvariance == Spec => []AInv
  BY InitAInv, NextAInv, PTL DEF Spec

-----------------------------------------------------------------------------
(* Logins and the limiter *)

\* Each login that was let in was so by a call of its own, when it arrived.
LetIn ==
  \E f \in [Guessing -> 1 .. Len(granted)] :
    /\ \A t, u \in Guessing : f[t] = f[u] => t = u
    /\ \A t \in Guessing : granted[f[t]] = arrived[t]

InOrder == \A i, j \in 1 .. Len(granted) : i <= j => granted[i] <= granted[j]

GInv == AInv /\ InOrder /\ LetIn

LEMMA InitGInv == Init => GInv
<1> SUFFICES ASSUME Init
             PROVE  GInv
  OBVIOUS
<1>1. Guessing = {} /\ Len(granted) = 0
  BY DEF Init, LimiterInit, Guessing
<1>2. InOrder
  BY <1>1 DEF InOrder
<1>3. LetIn
  <2> DEFINE f == [t \in Guessing |-> 0]
  <2>1. f \in [Guessing -> 1 .. Len(granted)]
    BY <1>1
  <2> QED
    BY <1>1, <2>1 DEF LetIn
<1> QED
  BY <1>2, <1>3, InitAInv DEF GInv

\* A step that neither calls the limiter nor lets a login in.
LEMMA OthersStep ==
  ASSUME GInv, UNCHANGED <<granted, arrived>>, Guessing' = Guessing
  PROVE  InOrder' /\ LetIn'
BY DEF GInv, InOrder, LetIn

LEMMA StartStep ==
  ASSUME GInv, NEW t \in Logins, LoginStart(t)
  PROVE  InOrder' /\ LetIn'
<1> DEFINE n == Len(granted)
<1>1. /\ granted \in Seq(Nat) /\ n \in Nat /\ now \in Nat
      /\ \A i \in 1 .. n : granted[i] \in Nat /\ granted[i] <= now
  BY DEF GInv, AInv, IInv, LimiterTypeOK, InPast
<1>2. /\ pc \in [Tasks -> {"idle", "verify", "issue", "store", "clear",
                           "200", "401", "422", "429", "500", "lost"}]
      /\ arrived \in [Logins -> Nat] /\ t \notin Guessing /\ t \in Tasks
  BY DEF GInv, AInv, Typed, LoginStart, Guessing
<1>3. CASE verdict' = "granted"
  <2>1. granted' = Append(granted, now)
    BY <1>3 DEF LoginStart, Allow, Grant, Refuse
  <2>2. /\ Len(granted') = n + 1 /\ granted'[n + 1] = now
        /\ \A i \in 1 .. n : granted'[i] = granted[i]
    BY <1>1, <2>1
  <2>3. Guessing' = Guessing \cup {t} /\ arrived' = [arrived EXCEPT ![t] = now]
    BY <1>2, <1>3 DEF LoginStart, Guessing
  <2>4. InOrder'
    <3> SUFFICES ASSUME NEW i \in 1 .. n + 1, NEW j \in 1 .. n + 1, i <= j
                 PROVE  granted'[i] <= granted'[j]
      BY <2>2 DEF InOrder
    <3>1. CASE j \in 1 .. n
      BY <1>1, <2>2, <3>1 DEF GInv, InOrder
    <3>2. CASE j = n + 1
      <4>1. i \in 1 .. n \/ i = n + 1
        BY <1>1
      <4> QED
        BY <1>1, <2>2, <3>2, <4>1
    <3> QED
      BY <1>1, <3>1, <3>2
  <2>5. LetIn'
    <3>1. PICK f \in [Guessing -> 1 .. n] :
            /\ \A u, v \in Guessing : f[u] = f[v] => u = v
            /\ \A u \in Guessing : granted[f[u]] = arrived[u]
      BY DEF GInv, LetIn
    <3> DEFINE h == [u \in Guessing' |-> IF u = t THEN n + 1 ELSE f[u]]
    <3>2. h[t] = n + 1 /\ \A u \in Guessing : h[u] = f[u] /\ h[u] \in 1 .. n
      BY <1>2, <2>3
    <3>3. h \in [Guessing' -> 1 .. Len(granted')]
      BY <1>1, <2>2, <2>3, <3>2
    <3>4. ASSUME NEW u \in Guessing', NEW v \in Guessing', h[u] = h[v]
          PROVE  u = v
      <4>1. u = t \/ u \in Guessing
        BY <2>3
      <4>2. v = t \/ v \in Guessing
        BY <2>3
      <4>3. n + 1 \notin 1 .. n
        BY <1>1
      <4> QED
        BY <3>1, <3>2, <3>4, <4>1, <4>2, <4>3
    <3>5. ASSUME NEW u \in Guessing'
          PROVE  granted'[h[u]] = arrived'[u]
      <4>1. CASE u = t
        BY <1>2, <2>2, <2>3, <3>2, <4>1
      <4>2. CASE u # t
        <5>1. u \in Guessing /\ u \in Logins /\ arrived'[u] = arrived[u]
          BY <1>2, <2>3, <4>2 DEF Guessing
        <5> QED
          BY <2>2, <3>1, <3>2, <5>1
      <4> QED
        BY <4>1, <4>2
    <3> HIDE DEF h
    <3> QED
      BY <3>3, <3>4, <3>5 DEF LetIn
  <2> QED
    BY <2>4, <2>5
<1>4. CASE verdict' # "granted"
  <2>1. granted' = granted
    BY <1>4 DEF LoginStart, Allow, Grant, Refuse
  <2>2. Guessing' = Guessing /\ \A u \in Guessing : arrived'[u] = arrived[u]
    BY <1>2, <1>4 DEF LoginStart, Guessing
  <2> QED
    BY <2>1, <2>2 DEF GInv, InOrder, LetIn
<1> QED
  BY <1>3, <1>4

LEMMA NextGInv == GInv /\ [Next]_vars => GInv'
<1> SUFFICES ASSUME GInv, [Next]_vars
             PROVE  GInv'
  OBVIOUS
<1>1. AInv'
  BY NextAInv DEF GInv
<1>2. pc \in [Tasks -> {"idle", "verify", "issue", "store", "clear",
                       "200", "401", "422", "429", "500", "lost"}]
  BY DEF GInv, AInv, Typed
<1>3. CASE \E t \in Logins : LoginStart(t)
  BY <1>1, <1>3, StartStep DEF GInv
<1>4. CASE \E t \in Logins : LoginVerify(t) \/ LoginIssue(t)
  <2>1. UNCHANGED <<granted, arrived>> /\ Guessing' = Guessing
    BY <1>2, <1>4 DEF LoginVerify, LoginIssue, Guessing, limiter
  <2> QED
    BY <1>1, <2>1, OthersStep DEF GInv
<1>5. CASE \E t \in Changes : ChangeStart(t) \/ ChangeStore(t) \/ ChangeClear(t)
  <2>1. UNCHANGED <<granted, arrived>> /\ Guessing' = Guessing
    BY <1>2, <1>5 DEF ChangeStart, ChangeStore, Store, ChangeClear, Guessing, limiter
  <2> QED
    BY <1>1, <2>1, OthersStep DEF GInv
<1>6. CASE \E t \in Tasks : HangUp(t)
  <2>1. UNCHANGED <<granted, arrived>> /\ Guessing' = Guessing
    BY <1>2, <1>6 DEF HangUp, Guessing, limiter
  <2> QED
    BY <1>1, <2>1, OthersStep DEF GInv
<1>7. CASE Tick \/ UNCHANGED vars
  <2>1. UNCHANGED <<granted, arrived, pc>>
    BY <1>7 DEF Tick, ClockTick, vars, limiter
  <2>2. Guessing' = Guessing
    BY <2>1 DEF Guessing
  <2> QED
    BY <1>1, <2>1, <2>2, OthersStep DEF GInv
<1> QED
  BY <1>3, <1>4, <1>5, <1>6, <1>7 DEF Next

LEMMA LeastOf ==
  ASSUME NEW T \in SUBSET Nat, T # {}
  PROVE  \E m \in T : \A k \in T : m <= k
<1> DEFINE R == {ss \in Nat \X Nat : ss[1] < ss[2]}
<1>1. IsWellFoundedOn(R, Nat)
  BY NatLessThanWellFounded DEF OpToRel
<1> HIDE DEF R
<1>2. PICK m \in T : \A k \in T : ~ (<<k, m>> \in R)
  BY <1>1, WFMin
<1>3. \A k \in T : ~ (k < m)
  BY <1>2 DEF R
<1> QED
  BY <1>3

\* The calls that let in the logins of one window are among Limit consecutive ones, so
\* that there are Limit of these logins at most.
LEMMA WindowSmall == GInv => GuessesLimited
<1> SUFFICES ASSUME GInv, NEW t \in Guessing
             PROVE  Cardinality({u \in Guessing :
                       arrived[u] \in arrived[t] .. arrived[t] + Window - 1}) <= Limit
  BY DEF GuessesLimited
<1> DEFINE n == Len(granted)
           S == {u \in Guessing : arrived[u] \in arrived[t] .. arrived[t] + Window - 1}
<1>1. /\ n \in Nat /\ \A i \in 1 .. n : granted[i] \in Nat
      /\ \A u \in Guessing : arrived[u] \in Nat
  BY DEF GInv, AInv, Typed, IInv, LimiterTypeOK, Guessing
<1>2. PICK f \in [Guessing -> 1 .. n] :
        /\ \A u, v \in Guessing : f[u] = f[v] => u = v
        /\ \A u \in Guessing : granted[f[u]] = arrived[u]
  BY DEF GInv, LetIn
<1>3. \A u \in S : u \in Guessing /\ arrived[t] <= arrived[u] /\ arrived[u] < arrived[t] + Window
  BY <1>1
<1>4. ASSUME NEW i \in 1 .. n, NEW j \in 1 .. n, granted[j] < granted[i] + Window
      PROVE  j < i + Limit
  <2> SUFFICES ASSUME i + Limit <= j
               PROVE  FALSE
    BY <1>1
  <2>1. i + Limit \in 1 .. n
    BY <1>1
  <2>2. granted[i] + Window <= granted[i + Limit]
    BY <1>1, <2>1 DEF GInv, AInv, IInv, Spaced
  <2>3. granted[i + Limit] <= granted[j]
    BY <2>1 DEF GInv, InOrder
  <2> QED
    BY <1>1, <1>4, <2>1, <2>2, <2>3
<1> HIDE DEF S
<1>5. CASE S = {}
  <2>1. Cardinality(S) = 0
    BY <1>5, FS_EmptySet
  <2> QED
    BY <2>1 DEF S
<1>6. CASE S # {}
  <2> DEFINE T == {f[u] : u \in S}
  <2>1. T \in SUBSET Nat /\ T # {}
    BY <1>1, <1>2, <1>3, <1>6
  <2>2. PICK m \in T : \A k \in T : m <= k
    BY <2>1, LeastOf
  <2>3. m \in 1 .. n /\ arrived[t] <= granted[m]
    BY <1>2, <1>3
  <2>4. ASSUME NEW u \in S PROVE f[u] \in m .. m + Limit - 1
    <3>1. f[u] \in 1 .. n /\ m <= f[u] /\ granted[f[u]] = arrived[u] /\ u \in Guessing
      BY <1>2, <1>3, <2>2
    <3>2. granted[f[u]] < granted[m] + Window
      BY <1>1, <1>3, <2>3, <3>1
    <3>3. f[u] < m + Limit
      BY <1>4, <2>3, <3>1, <3>2
    <3> QED
      BY <1>1, <2>3, <3>1, <3>3
  <2> DEFINE h == [u \in S |-> f[u]]
             I == m .. m + Limit - 1
  <2>5. h \in Injection(S, I)
    BY <1>2, <1>3, <2>4 DEF Injection, IsInjective
  <2>6. IsFiniteSet(I) /\ Cardinality(I) = Limit
    <3> DEFINE b == m + Limit - 1
    <3>1. m \in Int /\ b \in Int /\ ~ (m > b) /\ b - m + 1 = Limit
      BY <1>1, <2>3
    <3>2. I = m .. b
      OBVIOUS
    <3> HIDE DEF b, I
    <3>3. IsFiniteSet(m .. b) /\ Cardinality(m .. b) = b - m + 1
      BY <3>1, FS_Interval
    <3> QED
      BY <3>1, <3>2, <3>3
  <2> HIDE DEF h, I
  <2>7. Cardinality(S) <= Limit
    BY <2>5, <2>6, FS_Injection
  <2> QED
    BY <2>7 DEF S
<1> QED
  BY <1>5, <1>6

\* In no window of the given length do more logins arrive that get as far as a password
\* than the limit, for any number of logins and changes and any schedule (login,
\* RateLimiter::allow).
THEOREM GuessesLimitedHolds == Spec => []GuessesLimited
  BY InitGInv, NextGInv, WindowSmall, PTL DEF Spec

\* Of all the changes that give the same current password, one sets a new one
\* (the write lock of update_account).
THEOREM ChangedOnceHolds == Spec => []ChangedOnce
  BY SessionInvariance, PTL DEF AInv

\* No session outlives an acknowledged change of the account, for any number of logins
\* and changes under way (update_account, require_admin, login).
THEOREM SignedOutHolds == Spec => []SignedOut
  BY SessionInvariance, PTL DEF AInv
=============================================================================
