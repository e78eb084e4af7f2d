------------------------------ MODULE RateLimit ------------------------------
(***************************************************************************)
(* check_and_record of ai_company/ratelimit.py, called by the request      *)
(* threads of webapp_cloud.start_repo_run.  A thread reads the clock, then *)
(* waits for the lock, and only then prunes, counts and appends; threads   *)
(* may get the lock in another order than they read the clock.             *)
(*                                                                         *)
(* Time is a counter that may advance between any two steps; everything    *)
(* before the lock is one step, everything under it another.               *)
(*                                                                         *)
(* Abstracted: an entry of _history is the request that appended it, whose *)
(* stamp is now[r].  The code filters the list, counts it and appends to   *)
(* it, so the order of its entries is never used: the list is a set of     *)
(* requests, in which two requests of the same instant remain two entries. *)
(***************************************************************************)
EXTENDS Integers, FiniteSets

CONSTANTS Requests,    \* the calls of check_and_record
          Users,
          UserOf,      \* the user each request is made by
          Max,         \* max_per_window
          Window,      \* window_seconds
          MaxTime      \* bound: the clock stops here

ASSUME LimitAssumption == /\ UserOf \in [Requests -> Users]
                          /\ Max \in Nat \ {0}
                          /\ Window \in Nat \ {0}
                          /\ MaxTime \in Nat

VARIABLES clock,
          attempts,   \* _history: for each user the requests whose stamps are kept
          phase,      \* where each request is: "new", "stamped", or its answer
          now,        \* the local variable now of each request
          overtaken   \* not in the code: users with a request that got the
                      \* lock after one of theirs with a later stamp

vars == <<clock, attempts, phase, now, overtaken>>

TypeOK ==
  /\ clock \in 0..MaxTime
  /\ attempts \in [Users -> SUBSET Requests]
  /\ phase \in [Requests -> {"new", "stamped", "allowed", "denied"}]
  /\ now \in [Requests -> 0..MaxTime]
  /\ overtaken \subseteq Users

Init ==
  /\ clock = 0
  /\ attempts = [u \in Users |-> {}]
  /\ phase = [r \in Requests |-> "new"]
  /\ now = [r \in Requests |-> 0]
  /\ overtaken = {}

Tick ==
  /\ clock < MaxTime
  /\ clock' = clock + 1
  /\ UNCHANGED <<attempts, phase, now, overtaken>>

\* now = time.time(), before the lock.
ReadClock(r) ==
  /\ phase[r] = "new"
  /\ now' = [now EXCEPT ![r] = clock]
  /\ phase' = [phase EXCEPT ![r] = "stamped"]
  /\ UNCHANGED <<clock, attempts, overtaken>>

\* Bug: the window is one tick short.
RecentShort(u, r) == {q \in attempts[u] : now[r] - now[q] < Window - 1}

\* The entries of u that are still in the window of r.
Recent(u, r) == {q \in attempts[u] : now[r] - now[q] < Window}

\* Bug: a refused request is recorded like an admitted one.
RecordRefused(r) ==
  LET u == UserOf[r]
      kept == Recent(u, r)
  IN /\ phase[r] = "stamped"
     /\ IF Cardinality(kept) >= Max
        THEN /\ attempts' = [attempts EXCEPT ![u] = kept \union {r}]
             /\ phase' = [phase EXCEPT ![r] = "denied"]
        ELSE /\ attempts' = [attempts EXCEPT ![u] = kept \union {r}]
             /\ phase' = [phase EXCEPT ![r] = "allowed"]
     /\ overtaken' = IF \E q \in Requests : /\ UserOf[q] = u /\ now[q] > now[r]
                                            /\ phase[q] \in {"allowed", "denied"}
                     THEN overtaken \union {u} ELSE overtaken
     /\ UNCHANGED <<clock, now>>

\* The critical section.
CheckAndRecord(r) ==
  LET u == UserOf[r]
      kept == Recent(u, r)
  IN /\ phase[r] = "stamped"
     /\ IF Cardinality(kept) >= Max
        THEN /\ attempts' = [attempts EXCEPT ![u] = kept]
             /\ phase' = [phase EXCEPT ![r] = "denied"]
        ELSE /\ attempts' = [attempts EXCEPT ![u] = kept \union {r}]
             /\ phase' = [phase EXCEPT ![r] = "allowed"]
     /\ overtaken' = IF \E q \in Requests : /\ UserOf[q] = u /\ now[q] > now[r]
                                            /\ phase[q] \in {"allowed", "denied"}
                     THEN overtaken \union {u} ELSE overtaken
     /\ UNCHANGED <<clock, now>>

Answered == \A r \in Requests : phase[r] \in {"allowed", "denied"}

Terminating == Answered /\ clock = MaxTime /\ UNCHANGED vars

Next == Tick \/ (\E r \in Requests : ReadClock(r) \/ CheckAndRecord(r)) \/ Terminating

Spec == Init /\ [][Next]_vars

------------------------------------------------------------------------------
(* Properties. *)

\* The requests of u that were let through with a stamp in [from, from + Window).
Admitted(u, from) ==
  {r \in Requests : /\ UserOf[r] = u
                    /\ phase[r] = "allowed"
                    /\ from <= now[r] /\ now[r] < from + Window}

WindowRespectedFor(u) ==
  \A from \in 0..MaxTime : Cardinality(Admitted(u, from)) <= Max

\* What holds of the code: the window is respected for every user whose requests
\* got the lock in the order in which they read the clock.
WindowRespectedInOrder == \A u \in Users \ overtaken : WindowRespectedFor(u)

\* Whatever the order, the entries that are kept fit the limit, each of them is
\* an admitted request of this user, and a request is refused only if Max
\* requests of the same user went through in the window before it (or overtook
\* it): one user never uses up another's runs.
LimitIsOwn ==
  \A u \in Users :
    LET own == {r \in Requests : UserOf[r] = u /\ phase[r] = "allowed"} IN
    /\ attempts[u] \subseteq own
    /\ Cardinality(attempts[u]) <= Max
    /\ \A r \in Requests :
         phase[r] = "denied" /\ UserOf[r] = u =>
           Cardinality({q \in own : now[r] - now[q] < Window}) >= Max
==============================================================================
