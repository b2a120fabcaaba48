----------------------------- MODULE AdminLogin -----------------------------
(***************************************************************************)
(* The sessions of the admin interface (web/mod.rs): login behind its rate *)
(* limiter, require_admin, and the change of the account.  Each handler    *)
(* takes the limiter, the configuration and the sessions one after the     *)
(* other, under a lock of its own, so that handlers interleave in between. *)
(*                                                                         *)
(* A password is named by the number of changes before it was set; a token *)
(* is named by the login that was given it.                                *)
(***************************************************************************)
EXTENDS RateLimiter, FiniteSets

CONSTANTS Logins,       \* requests to log in
          Changes,      \* requests to change the account
          Lifetime      \* of a session, eight hours in the code

ASSUME TasksAssumption    == Logins \cap Changes = {}
ASSUME LifetimeAssumption == Lifetime \in Nat \ {0}

Tasks == Logins \cup Changes

VARIABLES
  password,     \* config.web.password_hash
  sessions,     \* AppState.sessions: tokens and when they expire
  pc, guess,    \* where each handler is, and the password it was given
  changed,      \* history: changes that have set a new password
  outdated,     \* history: the sessions at the moment of each change
  arrived       \* history: when each login was let in or refused

vars    == <<limiter, password, sessions, pc, guess, changed, outdated, arrived>>

Session == [token : Logins, expires : Nat]

Init ==
  /\ LimiterInit
  /\ password = 0 /\ sessions = {}
  /\ pc = [t \in Tasks |-> "idle"] /\ guess = [t \in Tasks |-> 0]
  /\ changed = {} /\ outdated = [t \in Changes |-> {}]
  /\ arrived = [t \in Logins |-> 0]

Goto(t, label) == pc' = [pc EXCEPT ![t] = label]

\* Mutant: only failed logins are counted.
StartUncounted(t) ==
  /\ pc[t] = "idle"
  /\ \E g \in 0 .. password : guess' = [guess EXCEPT ![t] = g]
  /\ arrived' = [arrived EXCEPT ![t] = now]
  /\ IF guess'[t] = password THEN UNCHANGED limiter ELSE Allow
  /\ Goto(t, IF guess'[t] = password \/ verdict' = "granted" THEN "verify" ELSE "429")
  /\ UNCHANGED <<password, sessions, changed, outdated>>

\* login: the limiter first.
LoginStart(t) ==
  /\ pc[t] = "idle"
  /\ \E g \in 0 .. password : guess' = [guess EXCEPT ![t] = g]
  /\ arrived' = [arrived EXCEPT ![t] = now]
  /\ Allow
  /\ Goto(t, IF verdict' = "granted" THEN "verify" ELSE "429")
  /\ UNCHANGED <<password, sessions, changed, outdated>>

\* The account is read, and the user name and the password are verified.
LoginVerify(t) ==
  /\ pc[t] = "verify"
  /\ Goto(t, "401") \/ (guess[t] = password /\ Goto(t, "issue"))
  /\ UNCHANGED <<limiter, password, sessions, guess, changed, outdated, arrived>>

LoginIssue(t) ==
  /\ pc[t] = "issue"
  /\ sessions' = sessions \cup {[token |-> t, expires |-> now + Lifetime]}
  /\ Goto(t, "200")
  /\ UNCHANGED <<limiter, password, guess, changed, outdated, arrived>>

\* require_admin forgets the sessions that have expired.
Valid == {s \in sessions : s.expires > now}

\* update_account: require_admin with one of the tokens ever given; a new password
\* may be too short.
ChangeStart(t) ==
  /\ pc[t] = "idle"
  /\ sessions' = Valid
  /\ \E token \in {l \in Logins : pc[l] = "200"}, g \in 0 .. password :
       /\ guess' = [guess EXCEPT ![t] = g]
       /\ IF \E s \in Valid : s.token = token THEN Goto(t, "store") \/ Goto(t, "422")
          ELSE Goto(t, "401")
  /\ UNCHANGED <<limiter, password, changed, outdated, arrived>>

\* Save and assign: a new password, or only another user name.
Store(t) ==
  /\ \/ password' = password + 1 /\ changed' = changed \cup {t}
     \/ UNCHANGED <<password, changed>>
  /\ outdated' = [outdated EXCEPT ![t] = sessions]
  /\ Goto(t, "clear")

\* Mutant: the password is verified before the lock is taken, against
\* the one that is current then.
StoreUnverified(t) ==
  /\ pc[t] = "store"
  /\ Store(t)
  /\ UNCHANGED <<limiter, sessions, guess, arrived>>

\* Verify, save and assign, all under the write lock.
ChangeStore(t) ==
  /\ pc[t] = "store"
  /\ \/ guess[t] # password /\ Goto(t, "401") /\ UNCHANGED <<password, changed, outdated>>
     \/ guess[t] = password /\ Goto(t, "500") /\ UNCHANGED <<password, changed, outdated>>
     \/ guess[t] = password /\ Store(t)
  /\ UNCHANGED <<limiter, sessions, guess, arrived>>

\* Mutant: the change only forgets the sessions that have expired.
ClearExpired(t) ==
  /\ pc[t] = "clear"
  /\ sessions' = Valid
  /\ Goto(t, "200")
  /\ UNCHANGED <<limiter, password, guess, changed, outdated, arrived>>

ChangeClear(t) ==
  /\ pc[t] = "clear"
  /\ sessions' = {}
  /\ Goto(t, "200")
  /\ UNCHANGED <<limiter, password, guess, changed, outdated, arrived>>

\* The client closes its connection: the handler is dropped at the lock it waits for.
HangUp(t) ==
  /\ pc[t] \in {"verify", "issue", "store", "clear"}
  /\ Goto(t, "lost")
  /\ UNCHANGED <<limiter, password, sessions, guess, changed, outdated, arrived>>

Tick == ClockTick /\ UNCHANGED <<password, sessions, pc, guess, changed, outdated, arrived>>

Next ==
  \/ \E t \in Logins : LoginStart(t) \/ LoginVerify(t) \/ LoginIssue(t)
  \/ \E t \in Changes : ChangeStart(t) \/ ChangeStore(t) \/ ChangeClear(t)
  \/ \E t \in Tasks : HangUp(t)
  \/ Tick

Spec == Init /\ [][Next]_vars

-----------------------------------------------------------------------------

\* A password is changed once: of all the changes that give the same current
\* password, however they overlap, one sets a new one (the write lock of update_account).
ChangedOnce == \A t, u \in changed : guess[t] = guess[u] => t = u

\* Once a change of the account is acknowledged, no session that existed when the
\* change was made is valid, whichever handlers ran in between (update_account).
SignedOut == \A t \in Changes : pc[t] = "200" => outdated[t] \cap sessions = {}

\* The logins that were let in: whatever became of them since, their password has been
\* looked at or may still be.
Guessing == {t \in Logins : pc[t] \notin {"idle", "429"}}

\* However logins and changes interleave, succeed, fail or are dropped half-way, and
\* however a burst is laid over two windows, no more than Limit of the requests that arrive
\* within one window get as far as a password (login, RateLimiter).
GuessesLimited ==
  \A t \in Guessing :
    Cardinality({u \in Guessing : arrived[u] \in arrived[t] .. arrived[t] + Window - 1})
      <= Limit
=============================================================================
