------------------------------ MODULE AuthProofs ------------------------------
(***************************************************************************)
(* The unlocked globals of auth.py keep their promise for every number of  *)
(* requests, every cache time and every clock: the stamp is never newer    *)
(* than the client it belongs to, because a thread stores the client of    *)
(* this moment first and the time it had read before that afterwards, and  *)
(* a client only ever gives way to a newer one.                            *)
(*                                                                         *)
(* The rate limiter behind them keeps its promises for every limit, window *)
(* and clock: an admitted request leaves the history only when a request   *)
(* of the same user with a stamp a whole window later has been answered.   *)
(***************************************************************************)
EXTENDS Auth, FiniteSetTheorems, TLAPS

Stages == {"arrived", "check", "build", "stamp", "return", "verify",
           "entered", "refused", "error500"}

\* The ranges of what require_auth reads and writes.
KeyTypes ==
  /\ clock \in Nat
  /\ client \in Nat \union {NoClient}
  /\ builtAt \in Nat
  /\ step \in [Requests -> Stages]
  /\ started \in [Requests -> Nat]
  /\ used \in [Requests -> Nat \union {NoClient}]

\* The client is as old as its stamp says, or younger.
StampIsOlder ==
  /\ client <= clock
  /\ IF client = NoClient THEN builtAt = 0 ELSE builtAt <= client

\* What a request may rely on at each point between its tests and its answer.
RequestInv(r) ==
  /\ started[r] <= clock
  /\ step[r] \in {"stamp", "return"} => client # NoClient
  /\ step[r] = "stamp" => started[r] <= client
  /\ step[r] = "return" => client >= started[r] - CacheSeconds
  /\ step[r] = "verify" => used[r] # NoClient /\ used[r] >= started[r] - CacheSeconds

KeyInv == KeyTypes /\ StampIsOlder /\ \A r \in Requests : RequestInv(r)

\* Nothing is built or asked yet.
LEMMA KeyInvInit == AuthInit => KeyInv
  BY AuthAssumption
     DEF AuthInit, Init, KeyInv, KeyTypes, StampIsOlder, RequestInv, Stages, NoClient

\* A step of one request at which the client is kept or replaced by one of this
\* moment leaves what the others rely on intact.
LEMMA OthersKeepInv ==
  ASSUME KeyInv, NEW r \in Requests, NEW q \in Requests, q # r,
         client' \in {client, clock}, clock' = clock,
         step'[q] = step[q], started'[q] = started[q], used'[q] = used[q]
  PROVE  RequestInv(q)'
  BY AuthAssumption DEF KeyInv, KeyTypes, StampIsOlder, RequestInv, NoClient

LEMMA KeyInvStep == KeyInv /\ [AuthNext]_allVars => KeyInv'
<1> SUFFICES ASSUME KeyInv, [AuthNext]_allVars PROVE KeyInv'
  OBVIOUS
<1> USE AuthAssumption DEF NoClient
<1>1. CASE Tick /\ UNCHANGED authVars
  BY <1>1 DEF Tick, authVars, KeyInv, KeyTypes, StampIsOlder, RequestInv
<1>2. ASSUME NEW r \in Requests, Arrive(r) PROVE KeyInv'
  <2>1. KeyTypes' /\ StampIsOlder'
    BY <1>2 DEF Arrive, Goto, vars, KeyInv, KeyTypes, StampIsOlder, Stages
  <2>2. RequestInv(r)'
    BY <1>2 DEF Arrive, Goto, vars, KeyInv, KeyTypes, RequestInv
  <2>3. \A q \in Requests \ {r} : RequestInv(q)'
    BY <1>2, OthersKeepInv DEF Arrive, Goto, vars, KeyInv, KeyTypes
  <2> QED
    BY <2>1, <2>2, <2>3 DEF KeyInv
<1>3. ASSUME NEW r \in Requests, Check(r) PROVE KeyInv'
  <2>1. KeyTypes' /\ StampIsOlder'
    BY <1>3 DEF Check, Goto, vars, KeyInv, KeyTypes, StampIsOlder, Stages
  <2>2. RequestInv(r)'
    BY <1>3 DEF Check, Goto, vars, KeyInv, KeyTypes, StampIsOlder, RequestInv
  <2>3. \A q \in Requests \ {r} : RequestInv(q)'
    BY <1>3, OthersKeepInv DEF Check, Goto, vars, KeyInv, KeyTypes
  <2> QED
    BY <2>1, <2>2, <2>3 DEF KeyInv
<1>4. ASSUME NEW r \in Requests, Rebuild(r) PROVE KeyInv'
  <2>1. KeyTypes' /\ StampIsOlder'
    BY <1>4 DEF Rebuild, Goto, vars, KeyInv, KeyTypes, StampIsOlder, RequestInv, Stages
  <2>2. RequestInv(r)'
    BY <1>4 DEF Rebuild, Goto, vars, KeyInv, KeyTypes, StampIsOlder, RequestInv
  <2>3. \A q \in Requests \ {r} : RequestInv(q)'
    BY <1>4, OthersKeepInv DEF Rebuild, Goto, vars, KeyInv, KeyTypes
  <2> QED
    BY <2>1, <2>2, <2>3 DEF KeyInv
<1>5. ASSUME NEW r \in Requests, Return(r) PROVE KeyInv'
  <2>1. KeyTypes' /\ StampIsOlder'
    BY <1>5 DEF Return, Goto, vars, KeyInv, KeyTypes, StampIsOlder, Stages
  <2>2. RequestInv(r)'
    BY <1>5 DEF Return, Goto, vars, KeyInv, KeyTypes, RequestInv
  <2>3. \A q \in Requests \ {r} : RequestInv(q)'
    BY <1>5, OthersKeepInv DEF Return, Goto, vars, KeyInv, KeyTypes
  <2> QED
    BY <2>1, <2>2, <2>3 DEF KeyInv
<1>6. ASSUME NEW r \in Requests, Verify(r) PROVE KeyInv'
  <2>1. KeyTypes' /\ StampIsOlder'
    BY <1>6 DEF Verify, Goto, vars, KeyInv, KeyTypes, StampIsOlder, Stages
  <2>2. RequestInv(r)'
    BY <1>6 DEF Verify, Goto, vars, KeyInv, KeyTypes, RequestInv
  <2>3. \A q \in Requests \ {r} : RequestInv(q)'
    BY <1>6, OthersKeepInv DEF Verify, Goto, vars, KeyInv, KeyTypes
  <2> QED
    BY <2>1, <2>2, <2>3 DEF KeyInv
<1>7. ASSUME NEW r \in Requests, Handle(r) PROVE KeyInv'
  <2>1. clock' = clock
    BY <1>7 DEF Handle, ReadClock, CheckAndRecord
  <2> QED
    BY <2>1, <1>7 DEF Handle, authVars, KeyInv, KeyTypes, StampIsOlder, RequestInv
<1>8. CASE AuthTerminating \/ UNCHANGED allVars
  BY <1>8 DEF AuthTerminating, allVars, vars, authVars, KeyInv, KeyTypes, StampIsOlder, RequestInv
<1> QED
  BY <1>1, <1>2, <1>3, <1>4, <1>5, <1>6, <1>7, <1>8 DEF AuthNext

\* No request is verified with a missing client, nor with one that had been in
\* use for longer than the cache time when the request asked for it.
THEOREM FreshKeys == AuthSpec => []KeysAreFresh
<1>1. KeyInv => KeysAreFresh
  BY DEF KeyInv, RequestInv, KeysAreFresh
<1> QED
  BY KeyInvInit, KeyInvStep, <1>1, PTL DEF AuthSpec

------------------------------------------------------------------------------
(* The rate limiter. *)

\* The requests of u that were let through.
Own(u) == {r \in Requests : UserOf[r] = u /\ phase[r] = "allowed"}

OwnFinite == \A u \in Users : IsFiniteSet(Own(u))

\* What has been pruned from the history of a user without overtaking is a whole
\* window older than a request of this user that has been answered.
PrunedIsOld ==
  \A u \in Users \ overtaken : \A q \in Own(u) \ attempts[u] :
    \E p \in Requests : /\ UserOf[p] = u /\ phase[p] \in {"allowed", "denied"}
                        /\ now[p] - now[q] >= Window

LimitFor(u) ==
  /\ attempts[u] \subseteq Own(u)
  /\ Cardinality(attempts[u]) <= Max
  /\ \A r \in Requests :
       phase[r] = "denied" /\ UserOf[r] = u =>
         Cardinality({q \in Own(u) : now[r] - now[q] < Window}) >= Max

LimitInv ==
  /\ TypeOK
  /\ OwnFinite
  /\ \A u \in Users : LimitFor(u)
  /\ PrunedIsOld
  /\ WindowRespectedInOrder

LEMMA LimitInvInit == Init => LimitInv
<1> SUFFICES ASSUME Init PROVE LimitInv
  OBVIOUS
<1> USE LimitAssumption
<1>1. TypeOK
  BY DEF Init, TypeOK
<1>2. \A u \in Users : Own(u) = {} /\ attempts[u] = {}
  BY DEF Init, Own
<1>3. OwnFinite /\ \A u \in Users : LimitFor(u)
  BY <1>2, FS_EmptySet DEF Init, OwnFinite, LimitFor
<1>4. PrunedIsOld
  BY <1>2 DEF PrunedIsOld
<1>5. \A u \in Users, from \in 0..MaxTime : Admitted(u, from) = {}
  BY DEF Init, Admitted
<1>6. WindowRespectedInOrder
  BY <1>5, FS_EmptySet DEF WindowRespectedInOrder, WindowRespectedFor
<1> QED
  BY <1>1, <1>3, <1>4, <1>6 DEF LimitInv

\* Nothing but the critical section touches what a request left behind.
LEMMA QuietStepKeepsLimit ==
  ASSUME LimitInv, TypeOK', UNCHANGED <<attempts, overtaken>>,
         \A q \in Requests : phase[q] \in {"allowed", "denied"}
                               => phase'[q] = phase[q] /\ now'[q] = now[q],
         \A q \in Requests : phase'[q] \in {"allowed", "denied"} => phase'[q] = phase[q]
  PROVE  LimitInv'
<1>1. \A u \in Users : Own(u)' = Own(u) /\ \A q \in Own(u) : now'[q] = now[q]
  BY DEF Own
<1>2. OwnFinite'
  BY <1>1 DEF LimitInv, OwnFinite
<1>3. ASSUME NEW u \in Users PROVE LimitFor(u)'
  <2>1. ASSUME NEW r \in Requests, phase'[r] = "denied"
        PROVE  {q \in Own(u)' : now'[r] - now'[q] < Window}
                 = {q \in Own(u) : now[r] - now[q] < Window}
    BY <1>1, <2>1
  <2> QED
    BY <1>1, <2>1 DEF LimitInv, LimitFor
<1>4. PrunedIsOld'
  BY <1>1 DEF LimitInv, PrunedIsOld
<1>5. \A u \in Users, from \in 0..MaxTime : Admitted(u, from)' = Admitted(u, from)
  BY DEF Admitted
<1>6. WindowRespectedInOrder'
  BY <1>5 DEF LimitInv, WindowRespectedInOrder, WindowRespectedFor
<1> QED
  BY <1>2, <1>3, <1>4, <1>6 DEF LimitInv

LEMMA TickKeepsLimit == LimitInv /\ Tick => LimitInv'
<1> SUFFICES ASSUME LimitInv, Tick PROVE LimitInv'
  OBVIOUS
<1>1. TypeOK'
  BY LimitAssumption DEF LimitInv, TypeOK, Tick
<1> QED
  BY <1>1, QuietStepKeepsLimit DEF Tick

LEMMA ReadClockKeepsLimit ==
  ASSUME LimitInv, NEW r \in Requests, ReadClock(r)
  PROVE  LimitInv'
<1>1. TypeOK'
  BY LimitAssumption DEF LimitInv, TypeOK, ReadClock
<1>2. \A q \in Requests : phase[q] \in {"allowed", "denied"}
                            => phase'[q] = phase[q] /\ now'[q] = now[q]
  BY DEF LimitInv, TypeOK, ReadClock
<1>3. \A q \in Requests : phase'[q] \in {"allowed", "denied"} => phase'[q] = phase[q]
  BY DEF LimitInv, TypeOK, ReadClock
<1> QED
  BY <1>1, <1>2, <1>3, QuietStepKeepsLimit DEF ReadClock

\* The critical section, for the user of the request and for the others.
LEMMA RecordKeepsLimit ==
  ASSUME LimitInv, NEW r \in Requests, CheckAndRecord(r)
  PROVE  LimitInv'
<1> DEFINE u == UserOf[r]
           kept == Recent(u, r)
<1> USE LimitAssumption
<1>1. /\ u \in Users /\ r \notin Own(u)
      /\ kept \subseteq attempts[u] /\ attempts[u] \subseteq Own(u) /\ Own(u) \subseteq Requests
  BY DEF LimitInv, LimitFor, Own, Recent, CheckAndRecord
<1>2. /\ IsFiniteSet(Own(u)) /\ IsFiniteSet(attempts[u]) /\ IsFiniteSet(kept)
      /\ Cardinality(kept) \in Nat /\ Cardinality(attempts[u]) \in Nat
      /\ Cardinality(kept) <= Cardinality(attempts[u])
  <2>1. IsFiniteSet(Own(u))
    BY <1>1 DEF LimitInv, OwnFinite
  <2>2. IsFiniteSet(attempts[u])
    BY <1>1, <2>1, FS_Subset
  <2>3. IsFiniteSet(kept) /\ Cardinality(kept) <= Cardinality(attempts[u])
    BY <1>1, <2>2, FS_Subset
  <2> QED
    BY <2>1, <2>2, <2>3, FS_CardinalityType
<1>3. /\ Cardinality(attempts[u]) <= Max
      /\ IsFiniteSet(kept \union {r})
      /\ Cardinality(kept \union {r}) = Cardinality(kept) + 1
  <2>1. r \notin kept
    BY <1>1
  <2> HIDE DEF kept
  <2>2. /\ IsFiniteSet(kept \union {r})
        /\ Cardinality(kept \union {r}) = Cardinality(kept) + 1
    BY <1>2, <2>1, FS_AddElement
  <2> QED
    BY <1>1, <2>2 DEF LimitInv, LimitFor
<1>4. /\ phase[r] = "stamped" /\ now' = now
      /\ now \in [Requests -> 0..MaxTime] /\ DOMAIN phase = Requests
      /\ DOMAIN attempts = Users
  BY DEF CheckAndRecord, LimitInv, TypeOK
<1>5. TypeOK'
  BY <1>1 DEF CheckAndRecord, LimitInv, TypeOK
<1>6. ASSUME NEW v \in Users, v # u
      PROVE  /\ Own(v)' = Own(v) /\ attempts'[v] = attempts[v]
             /\ \A from \in 0..MaxTime : Admitted(v, from)' = Admitted(v, from)
             /\ v \in overtaken' <=> v \in overtaken
             /\ \A q \in Requests : UserOf[q] = v => phase'[q] = phase[q]
  BY <1>4, <1>6 DEF CheckAndRecord, Own, Admitted
<1>7. ASSUME NEW v \in Users, v # u
      PROVE  IsFiniteSet(Own(v)') /\ LimitFor(v)'
  BY <1>4, <1>6, <1>7 DEF LimitInv, OwnFinite, LimitFor
<1>8. u \notin overtaken' =>
        /\ u \notin overtaken
        /\ \A q \in Requests : UserOf[q] = u /\ phase[q] \in {"allowed", "denied"}
                                 => now[q] <= now[r]
  BY <1>1, <1>4 DEF CheckAndRecord
<1>9. CASE Cardinality(kept) >= Max
  <2>1. attempts'[u] = kept /\ phase' = [phase EXCEPT ![r] = "denied"]
    BY <1>1, <1>4, <1>9 DEF CheckAndRecord
  <2>2. Own(u)' = Own(u) /\ \A from \in 0..MaxTime : Admitted(u, from)' = Admitted(u, from)
    BY <1>4, <2>1 DEF Own, Admitted
  <2>3. IsFiniteSet(Own(u)')
    BY <1>2, <2>2
  <2>4. LimitFor(u)'
    <3>1. attempts'[u] \subseteq Own(u)' /\ Cardinality(attempts'[u]) <= Max
      BY <1>1, <1>2, <1>3, <2>1, <2>2
    <3>2. ASSUME NEW q \in Requests, phase'[q] = "denied", UserOf[q] = u
          PROVE  Cardinality({p \in Own(u) : now[q] - now[p] < Window}) >= Max
      <4> DEFINE Near == {p \in Own(u) : now[r] - now[p] < Window}
      <4>1. kept \subseteq Near
        BY <1>1 DEF Recent
      <4>2. IsFiniteSet(Near)
        BY <1>2, FS_Subset
      <4>3. Cardinality(kept) <= Cardinality(Near) /\ Cardinality(Near) \in Nat
        BY <4>1, <4>2, FS_Subset, FS_CardinalityType
      <4>4. CASE q = r
        BY <1>2, <1>9, <4>3, <4>4
      <4>5. CASE q # r
        BY <1>1, <1>4, <2>1, <3>2, <4>5 DEF LimitInv, LimitFor
      <4> QED
        BY <4>4, <4>5
    <3> QED
      BY <1>4, <2>2, <3>1, <3>2 DEF LimitFor
  <2>5. OwnFinite' /\ \A v \in Users : LimitFor(v)'
    BY <1>7, <2>3, <2>4 DEF OwnFinite
  <2>6. PrunedIsOld'
    <3>1. ASSUME NEW v \in Users, v \notin overtaken', NEW q \in Own(v)', q \notin attempts'[v]
          PROVE  \E p \in Requests : /\ UserOf[p] = v /\ phase'[p] \in {"allowed", "denied"}
                                     /\ now'[p] - now'[q] >= Window
      <4>1. CASE v # u
        BY <1>4, <1>6, <3>1, <4>1 DEF LimitInv, PrunedIsOld
      <4>2. CASE v = u /\ q \in attempts[u]
        <5>1. now[r] - now[q] >= Window
          BY <1>4, <2>1, <3>1, <4>2, <1>1 DEF Recent
        <5> QED
          BY <5>1, <1>4, <2>1, <4>2
      <4>3. CASE v = u /\ q \notin attempts[u]
        <5>1. PICK p \in Requests : /\ UserOf[p] = u /\ phase[p] \in {"allowed", "denied"}
                                    /\ now[p] - now[q] >= Window
          BY <1>1, <1>8, <2>2, <3>1, <4>3 DEF LimitInv, PrunedIsOld
        <5> QED
          BY <5>1, <1>4, <2>1, <4>3
      <4> QED
        BY <4>1, <4>2, <4>3
    <3> QED
      BY <3>1 DEF PrunedIsOld
  <2>7. WindowRespectedInOrder'
    BY <1>1, <1>6, <1>8, <2>2 DEF LimitInv, WindowRespectedInOrder, WindowRespectedFor
  <2> QED
    BY <1>5, <2>5, <2>6, <2>7 DEF LimitInv
<1>10. CASE ~(Cardinality(kept) >= Max)
  <2>1. attempts'[u] = kept \union {r} /\ phase' = [phase EXCEPT ![r] = "allowed"]
    BY <1>1, <1>4, <1>10 DEF CheckAndRecord
  <2>2. Own(u)' = Own(u) \union {r}
    BY <1>4, <2>1 DEF Own
  <2>3. IsFiniteSet(Own(u)')
    BY <1>2, <2>2, FS_AddElement
  <2>4. LimitFor(u)'
    <3>1. attempts'[u] \subseteq Own(u)'
      BY <1>1, <2>1, <2>2
    <3>2. Cardinality(attempts'[u]) <= Max
      BY <1>2, <1>3, <1>10, <2>1
    <3>3. ASSUME NEW q \in Requests, phase'[q] = "denied", UserOf[q] = u
          PROVE  Cardinality({p \in Own(u)' : now[q] - now[p] < Window}) >= Max
      <4> DEFINE Near == {p \in Own(u) : now[q] - now[p] < Window}
                 NearNow == {p \in Own(u)' : now[q] - now[p] < Window}
      <4>1. Cardinality(Near) >= Max
        BY <1>1, <1>4, <2>1, <3>3 DEF LimitInv, LimitFor
      <4>2. Near \subseteq NearNow /\ IsFiniteSet(Near) /\ IsFiniteSet(NearNow)
        <5>1. Near \subseteq NearNow
          BY <2>2
        <5>2. IsFiniteSet(NearNow)
          BY <2>3, FS_Subset
        <5> QED
          BY <5>1, <5>2, FS_Subset
      <4>3. /\ Cardinality(Near) <= Cardinality(NearNow)
            /\ Cardinality(Near) \in Nat /\ Cardinality(NearNow) \in Nat
        BY <4>2, FS_Subset, FS_CardinalityType
      <4> QED
        BY <4>1, <4>3
    <3> QED
      BY <1>4, <3>1, <3>2, <3>3 DEF LimitFor
  <2>5. OwnFinite' /\ \A v \in Users : LimitFor(v)'
    BY <1>7, <2>3, <2>4 DEF OwnFinite
  <2>6. PrunedIsOld'
    <3>1. ASSUME NEW v \in Users, v \notin overtaken', NEW q \in Own(v)', q \notin attempts'[v]
          PROVE  \E p \in Requests : /\ UserOf[p] = v /\ phase'[p] \in {"allowed", "denied"}
                                     /\ now'[p] - now'[q] >= Window
      <4>1. CASE v # u
        BY <1>4, <1>6, <3>1, <4>1 DEF LimitInv, PrunedIsOld
      <4>2. CASE v = u /\ q \in attempts[u]
        <5>1. now[r] - now[q] >= Window
          BY <1>4, <2>1, <3>1, <4>2, <1>1 DEF Recent
        <5> QED
          BY <5>1, <1>4, <2>1, <4>2
      <4>3. CASE v = u /\ q \notin attempts[u]
        <5>1. q \in Own(u)
          BY <2>1, <2>2, <3>1, <4>3
        <5>2. PICK p \in Requests : /\ UserOf[p] = u /\ phase[p] \in {"allowed", "denied"}
                                    /\ now[p] - now[q] >= Window
          BY <1>1, <1>8, <5>1, <3>1, <4>3 DEF LimitInv, PrunedIsOld
        <5> QED
          BY <5>2, <1>4, <2>1, <4>3
      <4> QED
        BY <4>1, <4>2, <4>3
    <3> QED
      BY <3>1 DEF PrunedIsOld
  <2>7. ASSUME u \notin overtaken', NEW from \in 0..MaxTime
        PROVE  Cardinality(Admitted(u, from)') <= Max
    <3>1. CASE from <= now[r] /\ now[r] < from + Window
      <4>1. ASSUME NEW q \in Admitted(u, from) PROVE q \in kept
        <5>1. q \in Own(u) /\ from <= now[q] /\ now[q] \in 0..MaxTime
          BY <1>4 DEF Admitted, Own
        <5>2. now[r] - now[q] < Window
          BY <1>4, <3>1, <5>1
        <5>3. q \in attempts[u]
          <6> SUFFICES ASSUME q \notin attempts[u] PROVE FALSE
            OBVIOUS
          <6>1. PICK p \in Requests : /\ UserOf[p] = u /\ phase[p] \in {"allowed", "denied"}
                                      /\ now[p] - now[q] >= Window
            BY <1>1, <1>8, <2>7, <5>1 DEF LimitInv, PrunedIsOld
          <6>2. now[p] <= now[r] /\ now[p] \in 0..MaxTime /\ now[r] \in 0..MaxTime
            BY <1>4, <1>8, <2>7, <6>1
          <6> QED
            BY <5>1, <5>2, <6>1, <6>2
        <5> QED
          BY <5>2, <5>3 DEF Recent
      <4>2. Admitted(u, from)' \subseteq kept \union {r}
        BY <1>4, <2>1, <4>1 DEF Admitted
      <4>3. Cardinality(Admitted(u, from)') <= Cardinality(kept \union {r})
        BY <1>3, <4>2, FS_Subset
      <4>4. Cardinality(Admitted(u, from)') \in Nat
        BY <1>3, <4>2, FS_Subset, FS_CardinalityType
      <4> QED
        BY <1>2, <1>3, <1>10, <4>3, <4>4
    <3>2. CASE ~(from <= now[r] /\ now[r] < from + Window)
      <4>1. Admitted(u, from)' = Admitted(u, from)
        BY <1>4, <2>1, <3>2 DEF Admitted
      <4> QED
        BY <1>1, <1>8, <2>7, <4>1 DEF LimitInv, WindowRespectedInOrder, WindowRespectedFor
    <3> QED
      BY <3>1, <3>2
  <2>8. WindowRespectedInOrder'
    BY <1>6, <2>7 DEF LimitInv, WindowRespectedInOrder, WindowRespectedFor
  <2> QED
    BY <1>5, <2>5, <2>6, <2>8 DEF LimitInv
<1> QED
  BY <1>9, <1>10

LEMMA LimitInvStep == LimitInv /\ [Next]_vars => LimitInv'
<1> SUFFICES ASSUME LimitInv, [Next]_vars PROVE LimitInv'
  OBVIOUS
<1>1. CASE Terminating \/ UNCHANGED vars
  <2>1. TypeOK'
    BY <1>1 DEF Terminating, vars, LimitInv, TypeOK
  <2> QED
    BY <1>1, <2>1, QuietStepKeepsLimit DEF Terminating, vars
<1> QED
  BY <1>1, TickKeepsLimit, ReadClockKeepsLimit, RecordKeepsLimit DEF Next

\* What require_auth does to a request before the handler is invisible to the
\* limiter: the whole path implements the limiter alone.
THEOREM LimiterBehindAuth == AuthSpec => Spec
<1>1. AuthInit => Init
  BY DEF AuthInit
<1>2. [AuthNext]_allVars => [Next]_vars
  BY DEF AuthNext, Arrive, Check, Rebuild, Return, Verify, Handle, AuthTerminating,
         allVars, Next
<1> QED
  BY <1>1, <1>2, PTL DEF AuthSpec, Spec

\* For every user whose requests get the lock in the order of their stamps, no
\* window of check_and_record lets more than Max requests through.
THEOREM WindowIsRespected == AuthSpec => []WindowRespectedInOrder
<1>1. LimitInv => WindowRespectedInOrder
  BY DEF LimitInv
<1> QED
  BY LimitInvInit, LimitInvStep, LimiterBehindAuth, <1>1, PTL DEF Spec

\* In whatever order the lock is taken, the history of a user holds at most Max
\* requests, all admitted and that user's own, and refusals are that user's doing.
THEOREM RefusalsAreOwn == AuthSpec => []LimitIsOwn
<1>1. LimitInv => LimitIsOwn
  BY DEF LimitInv, LimitFor, LimitIsOwn, Own
<1> QED
  BY LimitInvInit, LimitInvStep, LimiterBehindAuth, <1>1, PTL DEF Spec
===============================================================================
