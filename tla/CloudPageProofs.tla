---------------------------- MODULE CloudPageProofs ----------------------------
(***************************************************************************)
(* What a cloud run and its page promise, for every number of rounds and   *)
(* of overlapping polls and every tolerance: where the sandbox can be while*)
(* the thread is at each step, what is known of the cap and the tests      *)
(* there, and that a decided run runs no more tests, so that what a late   *)
(* reply says of a finished run is still true.                             *)
(***************************************************************************)
EXTENDS CloudPage, TLAPS

AtWork == Working \union {"cap"}

\* What the request has come to and whether there is an executor.
StageInv ==
  /\ request \in {"received", "registered", "loaded", "refused"} => executor = "none"
  /\ request = "error500" => executor \in {"none", "killed"}
  /\ request = "dropped" => executor = "killed"
  /\ request = "accepted" => executor # "none"

\* What the entry says at each step.
EntryInv ==
  /\ request \in {"received", "refused"} => entry = "absent"
  /\ request \in {"registered", "loaded"} => entry = "running"
  /\ executor \in AtWork \union {"finish"} => entry = "running"
  /\ executor = "report" => entry = "finished"
  /\ executor \in {"close", "done"} => entry \in {"finished", "error"}
  /\ executor = "killed" => entry = "absent"
  /\ executor \notin {"close", "done"} \/ entry # "finished" => verdict = NoVerdict

\* A sandbox the thread does not know of is not running, until it is over.
SandboxInv ==
  /\ sandbox = "none" /\ executor \notin {"done", "killed"} => running = 0
  /\ sandbox = "dead" => running = 0
  /\ executor \in {"none", "done"} => sandbox = "none"
  /\ executor = "done" => running = 0 \/ unkilled

\* The time was over in the round in progress, if it is over.
TimeInv ==
  /\ overran <= round
  /\ NoRoundBeyondCap

\* Each spelling is inserted once, and the last commit has its place.
NamesInv ==
  /\ Len(names) <= 2
  /\ Len(names) = 2 => names[1] # names[2]
  /\ names # <<>> => \E i \in 1..Len(names) : names[i] = newest
  /\ TestsSeeEdits

LastPassed == exits # <<>> /\ exits[Len(exits)] = TRUE
TestsDecided == exits # <<>> /\ (exits[Len(exits)] = TRUE \/ Len(exits) = limit)

\* While rounds go on the tests have not decided; afterwards they have.
RoundInv ==
  /\ executor = "none" => exits = <<>> /\ round = 1
  /\ executor \in AtWork => /\ Len(exits) + 1 = round
                            /\ ~ LastPassed
                            /\ round > 1 => round <= limit
  /\ executor \in Working => round <= limit
  /\ executor \in {"finish", "report"} => Len(exits) = round
  /\ executor \in {"finish", "report"} \/ entry = "finished" => TestsDecided
  /\ verdict.resolved = TRUE => LastPassed

RunInv ==
  TypeOK /\ StageInv /\ EntryInv /\ SandboxInv /\ TimeInv /\ NamesInv /\ RoundInv

\* Replies on their way, and what the page shows.
ReplyInv ==
  /\ \A p \in Polls :
       /\ poll[p].stage \in {"copying", "replied"} /\ poll[p].status = "finished" => TestsDecided
       /\ poll[p].resolved = TRUE => LastPassed
  /\ shown # "none" => TestsDecided
  /\ shown = "passed" => LastPassed

PageInv == PageTypeOK /\ RunInv /\ ReplyInv

------------------------------------------------------------------------------
(* The run: one lemma per part of its invariant, one step per action. *)

LEMMA RunInvInit == Init => RunInv
<1> SUFFICES ASSUME Init PROVE RunInv
  OBVIOUS
<1> USE CloudAssumption DEF Init
<1>1. TypeOK
  <2>1. verdict \in [resolved : BOOLEAN, rounds : 0..MaxRounds]
    BY DEF NoVerdict
  <2>2. names \in Seq(Spellings)
    <3>1. <<>> \in Seq(Spellings) /\ <<"a.py">> \in Seq(Spellings)
      BY DEF Spellings
    <3> QED
      BY <3>1
  <2>3. exits \in Seq(BOOLEAN)
    OBVIOUS
  <2>4. /\ request = "received" /\ entry = "absent" /\ executor = "none"
        /\ round \in 1..MaxRounds /\ limit \in 0..MaxRounds /\ overran \in 0..MaxRounds
        /\ sandbox = "none" /\ running \in 0..1 /\ newest \in Spellings
    BY DEF Spellings
  <2>5. unkilled \in BOOLEAN /\ fresh \in BOOLEAN
    OBVIOUS
  <2> HIDE DEF Init
  <2> QED
    BY <2>1, <2>2, <2>3, <2>4, <2>5 DEF TypeOK
<1>2. StageInv /\ EntryInv /\ SandboxInv
  BY DEF StageInv, EntryInv, SandboxInv, AtWork, Working
<1>3. TimeInv
  BY DEF TimeInv, NoRoundBeyondCap
<1>4. NamesInv
  <2>1. CASE names = <<>>
    BY <2>1 DEF NamesInv, TestsSeeEdits
  <2>2. CASE names = <<"a.py">>
    <3>1. Len(names) = 1 /\ names[1] = newest
      BY <2>2
    <3> QED
      BY <3>1 DEF NamesInv, TestsSeeEdits
  <2> QED
    BY <2>1, <2>2
<1>5. RoundInv
  BY DEF RoundInv, LastPassed, TestsDecided, AtWork, Working, NoVerdict
<1> QED
  BY <1>1, <1>2, <1>3, <1>4, <1>5 DEF RunInv

LEMMA RunTypeStep == RunInv /\ RunStep => TypeOK'
<1> SUFFICES ASSUME RunInv, RunStep PROVE TypeOK'
  OBVIOUS
<1> USE CloudAssumption DEF RunInv, record, e2b, files
<1>1. CASE Refuse
  BY <1>1 DEF Refuse, TypeOK, NoVerdict, Spellings, Working
<1>2. CASE Register
  BY <1>2 DEF Register, TypeOK, NoVerdict, Spellings, Working
<1>3. CASE LoadUpload
  BY <1>3 DEF LoadUpload, TypeOK, NoVerdict, Spellings, Working
<1>4. CASE Spawn
  BY <1>4 DEF Spawn, TypeOK, NoVerdict, Spellings, Working
<1>5. CASE CheckCap
  BY <1>5 DEF CheckCap, Fail, TypeOK, NoVerdict, Spellings, Working
<1>6. CASE PlanRound
  BY <1>6 DEF PlanRound, TypeOK, NoVerdict, Spellings, Working
<1>7. CASE Schedule
  BY <1>7 DEF Schedule, TypeOK, NoVerdict, Spellings, Working
<1>8. ASSUME NEW s \in Spellings, Edit(s) PROVE TypeOK'
  <2>1. names' \in Seq(Spellings)
    BY <1>8 DEF Edit, TypeOK
  <2> QED
    BY <1>8, <2>1 DEF Edit, TypeOK
<1>9. CASE Push
  <2>1. fresh' \in BOOLEAN
    BY <1>9, Zenon DEF Push
  <2>2. sandbox' \in {"none", "live", "dead"} /\ running' \in 0..1 /\ unkilled' \in BOOLEAN
    BY <1>9 DEF Push, Create, TypeOK, SandboxInv
  <2> QED
    BY <1>9, <2>1, <2>2 DEF Push, TypeOK, Working
<1>10. ASSUME NEW passed \in BOOLEAN, Test(passed) PROVE TypeOK'
  <2>1. exits' \in Seq(BOOLEAN)
    BY <1>10 DEF Test, RunTests, TypeOK
  <2>2. overran' \in 0..MaxRounds
    BY <1>10 DEF Test, RunTests, TypeOK
  <2>3. executor' \in {"finish", "cap"} /\ round' \in 1..MaxRounds
    BY <1>10 DEF Test, RunTests, TypeOK, RoundInv, Working, AtWork
  <2> QED
    BY <1>10, <2>1, <2>2, <2>3 DEF Test, RunTests, TypeOK
<1>11. CASE FinishStatus
  BY <1>11 DEF FinishStatus, TypeOK, NoVerdict, Spellings, Working
<1>12. CASE FinishVerdict
  <2>1. exits[Len(exits)] \in BOOLEAN
    BY <1>12 DEF FinishVerdict, TypeOK, RoundInv, TestsDecided
  <2>2. verdict' \in [resolved : BOOLEAN, rounds : 0..MaxRounds]
    BY <1>12, <2>1 DEF FinishVerdict, TypeOK
  <2> QED
    BY <1>12, <2>2 DEF FinishVerdict, TypeOK
<1>13. CASE Raise
  <2>1. sandbox' \in {"none", "live", "dead"} /\ running' \in 0..1 /\ unkilled' \in BOOLEAN
    BY <1>13 DEF Raise, Create, TypeOK, SandboxInv, Working
  <2> QED
    BY <1>13, <2>1 DEF Raise, Fail, TypeOK
<1>14. CASE Close
  <2>1. sandbox' = "none" /\ running' \in 0..1
    BY <1>14 DEF Close, TypeOK
  <2>2. unkilled' \in BOOLEAN
    BY <1>14 DEF Close, TypeOK
  <2> QED
    BY <1>14, <2>1, <2>2 DEF Close, TypeOK
<1>15. CASE TimeIsUp
  BY <1>15 DEF TimeIsUp, TypeOK, NoVerdict, Spellings, Working
<1>16. CASE Expire
  BY <1>16 DEF Expire, TypeOK, NoVerdict, Spellings, Working
<1>17. CASE Restart
  BY <1>17 DEF Restart, TypeOK, NoVerdict, Spellings, Working
<1> QED
  BY <1>1, <1>2, <1>3, <1>4, <1>5, <1>6, <1>7, <1>8, <1>9, <1>10, <1>11, <1>12, <1>13, <1>14, <1>15, <1>16,
     <1>17 DEF RunStep, RequestStep, ExecutorStep

LEMMA StageInvStep == RunInv /\ RunStep => StageInv'
<1> SUFFICES ASSUME RunInv, RunStep PROVE StageInv'
  OBVIOUS
<1> USE CloudAssumption DEF RunInv, record, e2b, files
<1>1. CASE Refuse
  BY <1>1 DEF Refuse, StageInv, Working, TypeOK
<1>2. CASE Register
  BY <1>2 DEF Register, StageInv, Working, TypeOK
<1>3. CASE LoadUpload
  BY <1>3 DEF LoadUpload, StageInv, Working, TypeOK
<1>4. CASE Spawn
  BY <1>4 DEF Spawn, StageInv, Working, TypeOK
<1>5. CASE CheckCap
  BY <1>5 DEF CheckCap, Fail, StageInv, Working, TypeOK
<1>6. CASE PlanRound
  BY <1>6 DEF PlanRound, StageInv, Working, TypeOK
<1>7. CASE Schedule
  BY <1>7 DEF Schedule, StageInv, Working, TypeOK
<1>8. ASSUME NEW s \in Spellings, Edit(s) PROVE StageInv'
  BY <1>8 DEF Edit, StageInv, Working, TypeOK
<1>9. CASE Push
  BY <1>9 DEF Push, Create, StageInv, Working, TypeOK
<1>10. ASSUME NEW passed \in BOOLEAN, Test(passed) PROVE StageInv'
  BY <1>10 DEF Test, RunTests, StageInv, Working, TypeOK
<1>11. CASE FinishStatus
  BY <1>11 DEF FinishStatus, StageInv, Working, TypeOK
<1>12. CASE FinishVerdict
  BY <1>12 DEF FinishVerdict, StageInv, Working, TypeOK
<1>13. CASE Raise
  BY <1>13 DEF Raise, Fail, Create, StageInv, Working, TypeOK
<1>14. CASE Close
  BY <1>14 DEF Close, StageInv, Working, TypeOK
<1>15. CASE TimeIsUp
  BY <1>15 DEF TimeIsUp, StageInv, Working, TypeOK
<1>16. CASE Expire
  BY <1>16 DEF Expire, StageInv, Working, TypeOK
<1>17. CASE Restart
  BY <1>17 DEF Restart, StageInv, Working, TypeOK
<1> QED
  BY <1>1, <1>2, <1>3, <1>4, <1>5, <1>6, <1>7, <1>8, <1>9, <1>10, <1>11, <1>12, <1>13, <1>14, <1>15, <1>16,
     <1>17 DEF RunStep, RequestStep, ExecutorStep

LEMMA EntryInvStep == RunInv /\ RunStep => EntryInv'
<1> SUFFICES ASSUME RunInv, RunStep PROVE EntryInv'
  OBVIOUS
<1> USE CloudAssumption DEF RunInv, record, e2b, files
<1>1. CASE Refuse
  BY <1>1 DEF Refuse, EntryInv, StageInv, AtWork, Working, TypeOK
<1>2. CASE Register
  BY <1>2 DEF Register, EntryInv, StageInv, AtWork, Working, TypeOK
<1>3. CASE LoadUpload
  BY <1>3 DEF LoadUpload, EntryInv, StageInv, AtWork, Working, TypeOK
<1>4. CASE Spawn
  BY <1>4 DEF Spawn, EntryInv, StageInv, AtWork, Working, TypeOK
<1>5. CASE CheckCap
  BY <1>5 DEF CheckCap, Fail, EntryInv, StageInv, AtWork, Working, TypeOK
<1>6. CASE PlanRound
  BY <1>6 DEF PlanRound, EntryInv, StageInv, AtWork, Working, TypeOK
<1>7. CASE Schedule
  BY <1>7 DEF Schedule, EntryInv, StageInv, AtWork, Working, TypeOK
<1>8. ASSUME NEW s \in Spellings, Edit(s) PROVE EntryInv'
  BY <1>8 DEF Edit, EntryInv, StageInv, AtWork, Working, TypeOK
<1>9. CASE Push
  BY <1>9 DEF Push, Create, EntryInv, StageInv, AtWork, Working, TypeOK
<1>10. ASSUME NEW passed \in BOOLEAN, Test(passed) PROVE EntryInv'
  BY <1>10 DEF Test, RunTests, EntryInv, StageInv, AtWork, Working, TypeOK
<1>11. CASE FinishStatus
  BY <1>11 DEF FinishStatus, EntryInv, StageInv, AtWork, Working, TypeOK
<1>12. CASE FinishVerdict
  BY <1>12 DEF FinishVerdict, EntryInv, StageInv, AtWork, Working, TypeOK
<1>13. CASE Raise
  BY <1>13 DEF Raise, Fail, Create, EntryInv, StageInv, AtWork, Working, TypeOK
<1>14. CASE Close
  BY <1>14 DEF Close, EntryInv, StageInv, AtWork, Working, TypeOK
<1>15. CASE TimeIsUp
  BY <1>15 DEF TimeIsUp, EntryInv, StageInv, AtWork, Working, TypeOK
<1>16. CASE Expire
  BY <1>16 DEF Expire, EntryInv, StageInv, AtWork, Working, TypeOK
<1>17. CASE Restart
  BY <1>17 DEF Restart, EntryInv, StageInv, AtWork, Working, TypeOK
<1> QED
  BY <1>1, <1>2, <1>3, <1>4, <1>5, <1>6, <1>7, <1>8, <1>9, <1>10, <1>11, <1>12, <1>13, <1>14, <1>15, <1>16,
     <1>17 DEF RunStep, RequestStep, ExecutorStep

LEMMA SandboxInvStep == RunInv /\ RunStep => SandboxInv'
<1> SUFFICES ASSUME RunInv, RunStep PROVE SandboxInv'
  OBVIOUS
<1> USE CloudAssumption DEF RunInv, record, e2b, files
<1>1. CASE Refuse
  BY <1>1 DEF Refuse, SandboxInv, StageInv, Working, TypeOK
<1>2. CASE Register
  BY <1>2 DEF Register, SandboxInv, StageInv, Working, TypeOK
<1>3. CASE LoadUpload
  BY <1>3 DEF LoadUpload, SandboxInv, StageInv, Working, TypeOK
<1>4. CASE Spawn
  BY <1>4 DEF Spawn, SandboxInv, StageInv, Working, TypeOK
<1>5. CASE CheckCap
  BY <1>5 DEF CheckCap, Fail, SandboxInv, StageInv, Working, TypeOK
<1>6. CASE PlanRound
  BY <1>6 DEF PlanRound, SandboxInv, StageInv, Working, TypeOK
<1>7. CASE Schedule
  BY <1>7 DEF Schedule, SandboxInv, StageInv, Working, TypeOK
<1>8. ASSUME NEW s \in Spellings, Edit(s) PROVE SandboxInv'
  BY <1>8 DEF Edit, SandboxInv, StageInv, Working, TypeOK
<1>9. CASE Push
  BY <1>9 DEF Push, Create, SandboxInv, StageInv, Working, TypeOK
<1>10. ASSUME NEW passed \in BOOLEAN, Test(passed) PROVE SandboxInv'
  BY <1>10 DEF Test, RunTests, SandboxInv, StageInv, Working, TypeOK
<1>11. CASE FinishStatus
  BY <1>11 DEF FinishStatus, SandboxInv, StageInv, Working, TypeOK
<1>12. CASE FinishVerdict
  BY <1>12 DEF FinishVerdict, SandboxInv, StageInv, Working, TypeOK
<1>13. CASE Raise
  BY <1>13 DEF Raise, Fail, Create, SandboxInv, StageInv, Working, TypeOK
<1>14. CASE Close
  BY <1>14 DEF Close, SandboxInv, StageInv, Working, TypeOK
<1>15. CASE TimeIsUp
  BY <1>15 DEF TimeIsUp, SandboxInv, StageInv, Working, TypeOK
<1>16. CASE Expire
  BY <1>16 DEF Expire, SandboxInv, StageInv, Working, TypeOK
<1>17. CASE Restart
  BY <1>17 DEF Restart, SandboxInv, StageInv, Working, TypeOK
<1> QED
  BY <1>1, <1>2, <1>3, <1>4, <1>5, <1>6, <1>7, <1>8, <1>9, <1>10, <1>11, <1>12, <1>13, <1>14, <1>15, <1>16,
     <1>17 DEF RunStep, RequestStep, ExecutorStep

LEMMA TimeInvStep == RunInv /\ RunStep => TimeInv'
<1> SUFFICES ASSUME RunInv, RunStep PROVE TimeInv'
  OBVIOUS
<1> USE CloudAssumption DEF RunInv, record, e2b, files
<1>1. CASE Refuse
  BY <1>1 DEF Refuse, TimeInv, NoRoundBeyondCap, Working, TypeOK
<1>2. CASE Register
  BY <1>2 DEF Register, TimeInv, NoRoundBeyondCap, Working, TypeOK
<1>3. CASE LoadUpload
  BY <1>3 DEF LoadUpload, TimeInv, NoRoundBeyondCap, Working, TypeOK
<1>4. CASE Spawn
  BY <1>4 DEF Spawn, TimeInv, NoRoundBeyondCap, Working, TypeOK
<1>5. CASE CheckCap
  BY <1>5 DEF CheckCap, Fail, TimeInv, NoRoundBeyondCap, Working, TypeOK
<1>6. CASE PlanRound
  BY <1>6 DEF PlanRound, TimeInv, NoRoundBeyondCap, Working, TypeOK
<1>7. CASE Schedule
  BY <1>7 DEF Schedule, TimeInv, NoRoundBeyondCap, Working, TypeOK
<1>8. ASSUME NEW s \in Spellings, Edit(s) PROVE TimeInv'
  BY <1>8 DEF Edit, TimeInv, NoRoundBeyondCap, Working, TypeOK
<1>9. CASE Push
  BY <1>9 DEF Push, Create, TimeInv, NoRoundBeyondCap, Working, TypeOK
<1>10. ASSUME NEW passed \in BOOLEAN, Test(passed) PROVE TimeInv'
  <2>1. executor = "test" /\ executor' \in {"finish", "cap"} /\ round' \in {round, round + 1}
        /\ exits' = Append(exits, passed) /\ UNCHANGED overran
    BY <1>10 DEF Test, RunTests
  <2>2. Len(exits) + 1 = round /\ Len(exits') = Len(exits) + 1
    BY <2>1 DEF RoundInv, AtWork, Working, TypeOK
  <2>3. overran # 0 => round = overran
    BY <2>1 DEF TimeInv, NoRoundBeyondCap, Working
  <2>4. overran \in Nat /\ round \in Nat
    BY DEF TypeOK
  <2> QED
    BY <2>1, <2>2, <2>3, <2>4 DEF TimeInv, NoRoundBeyondCap, Working
<1>11. CASE FinishStatus
  BY <1>11 DEF FinishStatus, TimeInv, NoRoundBeyondCap, Working, TypeOK
<1>12. CASE FinishVerdict
  BY <1>12 DEF FinishVerdict, TimeInv, NoRoundBeyondCap, Working, TypeOK
<1>13. CASE Raise
  BY <1>13 DEF Raise, Fail, Create, TimeInv, NoRoundBeyondCap, Working, TypeOK
<1>14. CASE Close
  BY <1>14 DEF Close, TimeInv, NoRoundBeyondCap, Working, TypeOK
<1>15. CASE TimeIsUp
  <2>1. overran' = round /\ UNCHANGED <<executor, round, exits>> /\ Len(exits) + 1 = round
    BY <1>15 DEF TimeIsUp, RoundInv, AtWork
  <2>2. round \in Nat /\ Len(exits) \in Nat
    BY DEF TypeOK
  <2> QED
    BY <2>1, <2>2 DEF TimeInv, NoRoundBeyondCap
<1>16. CASE Expire
  BY <1>16 DEF Expire, TimeInv, NoRoundBeyondCap, Working, TypeOK
<1>17. CASE Restart
  BY <1>17 DEF Restart, TimeInv, NoRoundBeyondCap, Working, TypeOK
<1> QED
  BY <1>1, <1>2, <1>3, <1>4, <1>5, <1>6, <1>7, <1>8, <1>9, <1>10, <1>11, <1>12, <1>13, <1>14, <1>15, <1>16,
     <1>17 DEF RunStep, RequestStep, ExecutorStep

\* A spelling that is not there yet is the second one at most.
LEMMA InsertSpelling ==
  ASSUME NEW kept \in Seq(Spellings), NEW s \in Spellings,
         Len(kept) <= 2, Len(kept) = 2 => kept[1] # kept[2],
         ~ \E i \in 1..Len(kept) : kept[i] = s
  PROVE  /\ Len(Append(kept, s)) \in 1..2
         /\ Append(kept, s)[Len(Append(kept, s))] = s
         /\ Len(Append(kept, s)) = 2 => Append(kept, s)[1] # Append(kept, s)[2]
<1> DEFINE n == Len(kept)
<1>1. n \in Nat /\ \A i \in 1..n : kept[i] \in Spellings /\ kept[i] # s
  OBVIOUS
<1>2. n # 2 /\ n <= 2
  BY <1>1 DEF Spellings
<1>3. /\ Len(Append(kept, s)) = n + 1
      /\ Append(kept, s)[n + 1] = s
      /\ \A i \in 1..n : Append(kept, s)[i] = kept[i]
  OBVIOUS
<1> DEFINE longer == Append(kept, s)
<1> HIDE DEF n, longer
<1>4. /\ Len(longer) = n + 1 /\ longer[n + 1] = s
      /\ \A i \in 1..n : longer[i] = kept[i]
  BY <1>3 DEF longer
<1>5. n \in 0..1
  <2>1. n \in Nat
    BY <1>1
  <2> QED
    BY <2>1, <1>2
<1>6. /\ Len(longer) \in 1..2 /\ longer[Len(longer)] = s
      /\ Len(longer) = 2 => longer[1] # longer[2]
  BY <1>1, <1>4, <1>5
<1> QED
  BY <1>6 DEF longer

LEMMA NamesInvStep == RunInv /\ RunStep => NamesInv'
<1> SUFFICES ASSUME RunInv, RunStep PROVE NamesInv'
  OBVIOUS
<1> USE CloudAssumption DEF RunInv, record, e2b, files
<1>1. CASE Refuse
  BY <1>1 DEF Refuse, NamesInv, TestsSeeEdits, Spellings, TypeOK, Working
<1>2. CASE Register
  BY <1>2 DEF Register, NamesInv, TestsSeeEdits, Spellings, TypeOK, Working
<1>3. CASE LoadUpload
  BY <1>3 DEF LoadUpload, NamesInv, TestsSeeEdits, Spellings, TypeOK, Working
<1>4. CASE Spawn
  BY <1>4 DEF Spawn, NamesInv, TestsSeeEdits, Spellings, TypeOK, Working
<1>5. CASE CheckCap
  BY <1>5 DEF CheckCap, Fail, NamesInv, TestsSeeEdits, Spellings, TypeOK, Working
<1>6. CASE PlanRound
  BY <1>6 DEF PlanRound, NamesInv, TestsSeeEdits, Spellings, TypeOK, Working
<1>7. CASE Schedule
  BY <1>7 DEF Schedule, NamesInv, TestsSeeEdits, Spellings, TypeOK, Working
<1>8. ASSUME NEW s \in Spellings, Edit(s) PROVE NamesInv'
  <2>1. names \in Seq(Spellings) /\ Len(names) \in Nat
    BY DEF TypeOK
  <2>2. TestsSeeEdits'
    BY <1>8 DEF Edit, TestsSeeEdits
  <2>3. CASE \E i \in 1..Len(names) : names[i] = s
    <3>1. names' = names /\ newest' = s
      BY <1>8, <2>3 DEF Edit
    <3> QED
      BY <2>2, <2>3, <3>1 DEF NamesInv
  <2>4. CASE ~ \E i \in 1..Len(names) : names[i] = s
    <3>1. names' = Append(names, s) /\ newest' = s
      BY <1>8, <2>4 DEF Edit
    <3>2. /\ Len(names') \in 1..2 /\ names'[Len(names')] = s
          /\ Len(names') = 2 => names'[1] # names'[2]
      BY <2>1, <2>4, <3>1, InsertSpelling DEF NamesInv
    <3> QED
      BY <2>2, <3>1, <3>2 DEF NamesInv
  <2> QED
    BY <2>3, <2>4
<1>9. CASE Push
  <2>1. UNCHANGED <<names, newest>> /\ fresh' = (names = <<>> \/ names[Len(names)] = newest)
    BY <1>9 DEF Push
  <2>2. CASE names = <<>> \/ names[Len(names)] = newest
    BY <2>1, <2>2 DEF NamesInv, TestsSeeEdits
  <2>3. CASE names # <<>> /\ names[Len(names)] # newest
    <3>1. PICK i \in 1..Len(names) : names[i] = newest
      BY <2>3 DEF NamesInv
    <3> DEFINE n == Len(names)
    <3>2. n \in Nat /\ n <= 2 /\ i # n /\ i \in 1..n
      BY <2>3, <3>1 DEF NamesInv, TypeOK
    <3> HIDE DEF n
    <3>3. n = 2 /\ i = 1
      BY <3>2
    <3> QED
      BY <2>1, <3>1, <3>3 DEF NamesInv, TestsSeeEdits, n
  <2> QED
    BY <2>2, <2>3
<1>10. ASSUME NEW passed \in BOOLEAN, Test(passed) PROVE NamesInv'
  BY <1>10 DEF Test, RunTests, NamesInv, TestsSeeEdits, Spellings, TypeOK, Working
<1>11. CASE FinishStatus
  BY <1>11 DEF FinishStatus, NamesInv, TestsSeeEdits, Spellings, TypeOK, Working
<1>12. CASE FinishVerdict
  BY <1>12 DEF FinishVerdict, NamesInv, TestsSeeEdits, Spellings, TypeOK, Working
<1>13. CASE Raise
  BY <1>13 DEF Raise, Fail, Create, NamesInv, TestsSeeEdits, Spellings, TypeOK, Working
<1>14. CASE Close
  BY <1>14 DEF Close, NamesInv, TestsSeeEdits, Spellings, TypeOK, Working
<1>15. CASE TimeIsUp
  BY <1>15 DEF TimeIsUp, NamesInv, TestsSeeEdits, Spellings, TypeOK, Working
<1>16. CASE Expire
  BY <1>16 DEF Expire, NamesInv, TestsSeeEdits, Spellings, TypeOK, Working
<1>17. CASE Restart
  BY <1>17 DEF Restart, NamesInv, TestsSeeEdits, Spellings, TypeOK, Working
<1> QED
  BY <1>1, <1>2, <1>3, <1>4, <1>5, <1>6, <1>7, <1>8, <1>9, <1>10, <1>11, <1>12, <1>13, <1>14, <1>15, <1>16,
     <1>17 DEF RunStep, RequestStep, ExecutorStep

LEMMA RoundInvStep == RunInv /\ RunStep => RoundInv'
<1> SUFFICES ASSUME RunInv, RunStep PROVE RoundInv'
  OBVIOUS
<1> USE CloudAssumption DEF RunInv, record, e2b, files
<1>1. CASE Refuse
  BY <1>1 DEF Refuse, RoundInv, EntryInv, StageInv, LastPassed, TestsDecided, AtWork, Working, NoVerdict, TypeOK
<1>2. CASE Register
  BY <1>2 DEF Register, RoundInv, EntryInv, StageInv, LastPassed, TestsDecided, AtWork, Working, NoVerdict, TypeOK
<1>3. CASE LoadUpload
  BY <1>3 DEF LoadUpload, RoundInv, EntryInv, StageInv, LastPassed, TestsDecided, AtWork, Working, NoVerdict, TypeOK
<1>4. CASE Spawn
  BY <1>4 DEF Spawn, RoundInv, EntryInv, StageInv, LastPassed, TestsDecided, AtWork, Working, NoVerdict, TypeOK
<1>5. CASE CheckCap
  BY <1>5 DEF CheckCap, Fail, RoundInv, EntryInv, StageInv, LastPassed, TestsDecided, AtWork, Working, NoVerdict, TypeOK
<1>6. CASE PlanRound
  BY <1>6 DEF PlanRound, RoundInv, EntryInv, StageInv, LastPassed, TestsDecided, AtWork, Working, NoVerdict, TypeOK
<1>7. CASE Schedule
  BY <1>7 DEF Schedule, RoundInv, EntryInv, StageInv, LastPassed, TestsDecided, AtWork, Working, NoVerdict, TypeOK
<1>8. ASSUME NEW s \in Spellings, Edit(s) PROVE RoundInv'
  BY <1>8 DEF Edit, RoundInv, EntryInv, StageInv, LastPassed, TestsDecided, AtWork, Working, NoVerdict, TypeOK
<1>9. CASE Push
  BY <1>9 DEF Push, Create, RoundInv, EntryInv, StageInv, LastPassed, TestsDecided, AtWork, Working, NoVerdict, TypeOK
<1>10. ASSUME NEW passed \in BOOLEAN, Test(passed) PROVE RoundInv'
  BY <1>10 DEF Test, RunTests, RoundInv, EntryInv, StageInv, LastPassed, TestsDecided, AtWork, Working, NoVerdict, TypeOK
<1>11. CASE FinishStatus
  BY <1>11 DEF FinishStatus, RoundInv, EntryInv, StageInv, LastPassed, TestsDecided, AtWork, Working, NoVerdict, TypeOK
<1>12. CASE FinishVerdict
  BY <1>12 DEF FinishVerdict, RoundInv, EntryInv, StageInv, LastPassed, TestsDecided, AtWork, Working, NoVerdict, TypeOK
<1>13. CASE Raise
  BY <1>13 DEF Raise, Fail, Create, RoundInv, EntryInv, StageInv, LastPassed, TestsDecided, AtWork, Working, NoVerdict, TypeOK
<1>14. CASE Close
  BY <1>14 DEF Close, RoundInv, EntryInv, StageInv, LastPassed, TestsDecided, AtWork, Working, NoVerdict, TypeOK
<1>15. CASE TimeIsUp
  BY <1>15 DEF TimeIsUp, RoundInv, EntryInv, StageInv, LastPassed, TestsDecided, AtWork, Working, NoVerdict, TypeOK
<1>16. CASE Expire
  BY <1>16 DEF Expire, RoundInv, EntryInv, StageInv, LastPassed, TestsDecided, AtWork, Working, NoVerdict, TypeOK
<1>17. CASE Restart
  BY <1>17 DEF Restart, RoundInv, EntryInv, StageInv, LastPassed, TestsDecided, AtWork, Working, NoVerdict, TypeOK
<1> QED
  BY <1>1, <1>2, <1>3, <1>4, <1>5, <1>6, <1>7, <1>8, <1>9, <1>10, <1>11, <1>12, <1>13, <1>14, <1>15, <1>16,
     <1>17 DEF RunStep, RequestStep, ExecutorStep

LEMMA RunInvKept == RunInv /\ UNCHANGED vars => RunInv'
<1> SUFFICES ASSUME RunInv, UNCHANGED vars PROVE RunInv'
  OBVIOUS
<1> USE DEF vars, record, e2b, files, RunInv
<1>1. TypeOK' /\ StageInv' /\ EntryInv' /\ SandboxInv'
  BY DEF TypeOK, StageInv, EntryInv, SandboxInv
<1>2. TimeInv' /\ NamesInv' /\ RoundInv'
  BY DEF TimeInv, NoRoundBeyondCap, NamesInv, TestsSeeEdits, RoundInv, LastPassed, TestsDecided
<1> QED
  BY <1>1, <1>2

LEMMA RunInvStep == RunInv /\ RunStep => RunInv'
  BY RunTypeStep, StageInvStep, EntryInvStep, SandboxInvStep, TimeInvStep, NamesInvStep,
     RoundInvStep DEF RunInv

\* Tests that have decided are the last ones.
LEMMA DecidedStays ==
  ASSUME RunInv, RunStep \/ UNCHANGED vars, TestsDecided
  PROVE  TestsDecided' /\ (LastPassed => LastPassed')
<1>1. UNCHANGED <<exits, limit>>
  <2>1. ASSUME NEW passed \in BOOLEAN, Test(passed) PROVE FALSE
    <3>1. executor = "test"
      BY <2>1 DEF Test, RunTests
    <3>2. Len(exits) + 1 = round /\ ~ LastPassed /\ round <= limit /\ Len(exits) \in Nat
      BY <3>1 DEF RunInv, TypeOK, RoundInv, AtWork, Working
    <3>3. limit \in Nat
      BY DEF RunInv, TypeOK
    <3> QED
      BY <3>2, <3>3 DEF TestsDecided, LastPassed
  <2>2. CASE UNCHANGED vars
    BY <2>2 DEF vars
  <2>3. CASE RequestStep
    BY <2>3 DEF RequestStep, Refuse, Register, LoadUpload, Spawn
  <2>4. CASE CheckCap \/ PlanRound \/ Schedule \/ Push \/ FinishStatus \/ FinishVerdict
               \/ Raise \/ Close
    BY <2>4 DEF CheckCap, PlanRound, Schedule, Push, FinishStatus, FinishVerdict, Raise, Close
  <2>5. CASE TimeIsUp \/ Expire \/ Restart \/ \E s \in Spellings : Edit(s)
    BY <2>5 DEF TimeIsUp, Expire, Restart, Edit
  <2> QED
    BY <2>1, <2>2, <2>3, <2>4, <2>5 DEF RunStep, ExecutorStep
<1> QED
  BY <1>1 DEF TestsDecided, LastPassed

------------------------------------------------------------------------------
(* The page. *)

LEMMA PageInvInit == PageInit => PageInv
<1> SUFFICES ASSUME PageInit PROVE PageInv
  OBVIOUS
<1>1. RunInv /\ TypeOK
  BY RunInvInit DEF PageInit, RunInv
<1>2. PageTypeOK
  BY <1>1, PageAssumption DEF PageInit, PageTypeOK, NoPoll
<1>3. ReplyInv
  BY DEF PageInit, ReplyInv, NoPoll
<1> QED
  BY <1>1, <1>2, <1>3 DEF PageInv

\* A step of the run leaves what was copied or shown true.
LEMMA RunKeepsReplies ==
  ASSUME PageInv, RunStep \/ UNCHANGED vars, UNCHANGED pageVars
  PROVE  PageInv'
<1>1. RunInv' /\ TypeOK'
  BY RunInvStep, RunInvKept DEF PageInv, RunInv
<1>2. PageTypeOK'
  BY <1>1 DEF PageInv, PageTypeOK, pageVars
<1>3. TestsDecided => TestsDecided' /\ (LastPassed => LastPassed')
  BY DecidedStays DEF PageInv
<1>4. LastPassed => TestsDecided
  BY DEF LastPassed, TestsDecided
<1>5. ReplyInv'
  BY <1>3, <1>4 DEF PageInv, ReplyInv, pageVars
<1> QED
  BY <1>1, <1>2, <1>5 DEF PageInv

LEMMA PageInvStep == PageInv /\ [PageNext]_allVars => PageInv'
<1> SUFFICES ASSUME PageInv, [PageNext]_allVars PROVE PageInv'
  OBVIOUS
<1>1. CASE RunStep /\ UNCHANGED pageVars
  BY <1>1, RunKeepsReplies
<1>2. CASE UNCHANGED allVars
  BY <1>2, RunKeepsReplies DEF allVars
<1>3. CASE PageStep
  <2>1. UNCHANGED vars
    BY <1>3 DEF PageStep, PollStep, Answer, SendPoll, LookUp, CopyVerdict, Arrive, LosePoll
  <2>2. RunInv' /\ TypeOK'
    BY <2>1, RunInvKept DEF PageInv, RunInv
  <2>3. UNCHANGED <<exits, limit, entry, verdict>>
    BY <2>1 DEF vars, record
  <2>4. (TestsDecided' <=> TestsDecided) /\ (LastPassed' <=> LastPassed)
    BY <2>3 DEF TestsDecided, LastPassed
  <2> USE PageAssumption DEF PageInv, PageTypeOK
  <2>5. CASE Answer
    <3>1. PageTypeOK'
      BY <2>2, <2>5 DEF Answer
    <3>2. ReplyInv'
      BY <2>4, <2>5 DEF Answer, ReplyInv
    <3> QED
      BY <2>2, <3>1, <3>2
  <2>6. ASSUME NEW p \in Polls, SendPoll(p) PROVE PageInv'
    <3>1. PageTypeOK'
      BY <2>2, <2>6 DEF SendPoll
    <3>2. ReplyInv'
      BY <2>4, <2>6 DEF SendPoll, ReplyInv
    <3> QED
      BY <2>2, <3>1, <3>2
  <2>7. ASSUME NEW p \in Polls, LookUp(p) PROVE PageInv'
    <3>1. entry \in {"absent", "running", "finished", "error"}
      BY DEF TypeOK
    <3>2. PageTypeOK'
      BY <2>2, <2>7, <3>1 DEF LookUp
    <3>3. entry = "finished" => TestsDecided
      BY DEF RunInv, RoundInv
    <3>4. ReplyInv'
      BY <2>4, <2>7, <3>3 DEF LookUp, ReplyInv
    <3> QED
      BY <2>2, <3>2, <3>4
  <2>8. ASSUME NEW p \in Polls, CopyVerdict(p) PROVE PageInv'
    <3>1. verdict.resolved \in BOOLEAN
      BY DEF TypeOK
    <3>2. PageTypeOK'
      BY <2>2, <2>8, <3>1 DEF CopyVerdict
    <3>3. verdict.resolved = TRUE => LastPassed
      BY DEF RunInv, RoundInv
    <3>4. ReplyInv'
      BY <2>4, <2>8, <3>3 DEF CopyVerdict, ReplyInv
    <3> QED
      BY <2>2, <3>2, <3>4
  <2>9. ASSUME NEW p \in Polls, Arrive(p) PROVE PageInv'
    <3>1. PageTypeOK'
      BY <2>2, <2>9 DEF Arrive, Verdict, NoPoll
    <3>2. ReplyInv'
      BY <2>4, <2>9 DEF Arrive, Verdict, NoPoll, ReplyInv
    <3> QED
      BY <2>2, <3>1, <3>2
  <2>10. ASSUME NEW p \in Polls, LosePoll(p) PROVE PageInv'
    <3>1. failures' \in 0..(Tolerance + 1)
      BY <2>10 DEF LosePoll
    <3>2. timer' \in BOOLEAN /\ message' \in BOOLEAN
      BY <2>10 DEF LosePoll
    <3>3. PageTypeOK'
      BY <2>2, <2>10, <3>1, <3>2 DEF LosePoll, NoPoll
    <3>4. ReplyInv'
      BY <2>4, <2>10 DEF LosePoll, NoPoll, ReplyInv
    <3> QED
      BY <2>2, <3>3, <3>4
  <2> QED
    BY <1>3, <2>5, <2>6, <2>7, <2>8, <2>9, <2>10 DEF PageStep, PollStep
<1> QED
  BY <1>1, <1>2, <1>3 DEF PageNext, Terminating

LEMMA PageInvariance == PageSpec => []PageInv
  BY PageInvInit, PageInvStep, PTL DEF PageSpec

------------------------------------------------------------------------------
(* The theorems. *)

\* However a run ends, its thread leaves no sandbox behind that it could kill,
\* and it never holds two.
THEOREM NoLeak == PageSpec => []NoSandboxLeak
<1>1. PageInv => NoSandboxLeak
  BY DEF PageInv, RunInv, TypeOK, SandboxInv, NoSandboxLeak
<1> QED
  BY <1>1, PageInvariance, PTL

\* No round begins once MAX_RUN_SECONDS are over, whatever step they ended in:
\* the round in progress then is the last that is planned, pushed or tested.
THEOREM CapHolds == PageSpec => []NoRoundBeyondCap
<1>1. PageInv => NoRoundBeyondCap
  BY DEF PageInv, RunInv, TimeInv
<1> QED
  BY <1>1, PageInvariance, PTL

\* Tests run on the latest edits unless a path was spelled in two ways.
THEOREM EditsAreTested == PageSpec => []TestsSeeEdits
<1>1. PageInv => TestsSeeEdits
  BY DEF PageInv, RunInv, NamesInv
<1> QED
  BY <1>1, PageInvariance, PTL

\* The page shows a verdict only after the tests have decided, and "passed" only
\* if they passed, whichever replies were copied when and came in which order.
THEOREM PassesAreReal == PageSpec => []ShownPassIsReal
<1>1. PageInv => ShownPassIsReal
  BY DEF PageInv, ReplyInv, ShownPassIsReal, TestsDecided, LastPassed
<1> QED
  BY <1>1, PageInvariance, PTL

------------------------------------------------------------------------------
(* The run implements FixRounds. *)

LEMMA SimulationInit == Init => Rounds!RoundsInit
  BY CloudAssumption DEF Init, Outcome, NoVerdict, Rounds!RoundsInit, Rounds!NoVerdict

\* A step that moves neither tests nor verdict nor outcome is a stutter.
LEMMA Stutter ==
  ASSUME UNCHANGED <<limit, exits, verdict>>, Outcome' = Outcome
  PROVE  UNCHANGED Rounds!roundVars
  BY DEF Rounds!roundVars

LEMMA RequestSimulation ==
  ASSUME RunInv, RequestStep
  PROVE  Rounds!Begin \/ UNCHANGED Rounds!roundVars
<1> USE DEF record, e2b, files
<1>1. CASE Refuse \/ Register \/ LoadUpload
  <2>1. UNCHANGED <<limit, exits, verdict>>
    BY <1>1 DEF Refuse, Register, LoadUpload
  <2>2. Outcome = "waiting" /\ Outcome' = "waiting"
    BY <1>1 DEF Refuse, Register, LoadUpload, Outcome
  <2> QED
    BY <2>1, <2>2, Stutter
<1>2. CASE Spawn
  <2>1. Outcome = "waiting" /\ UNCHANGED <<limit, exits, verdict>>
    BY <1>2 DEF Spawn, Outcome
  <2>2. entry = "running"
    BY <1>2 DEF Spawn, RunInv, EntryInv
  <2>3. Outcome' = "running"
    BY <1>2, <2>2 DEF Spawn, Outcome
  <2> QED
    BY <2>1, <2>3 DEF Rounds!Begin
<1> QED
  BY <1>1, <1>2 DEF RequestStep

\* The executor is at work for an accepted request.
LEMMA AtWorkFacts ==
  ASSUME RunInv, executor \notin {"none", "killed"}
  PROVE  /\ request = "accepted"
         /\ Outcome = IF executor = "report" THEN "running" ELSE entry
<1>1. request = "accepted"
  BY DEF RunInv, TypeOK, StageInv
<1> QED
  BY <1>1 DEF Outcome

LEMMA GiveUpSimulation ==
  ASSUME RunInv, executor \in AtWork, Fail, UNCHANGED <<request, limit, exits>>
  PROVE  Rounds!GiveUp
<1>1. request = "accepted" /\ Outcome = "running"
  BY AtWorkFacts DEF AtWork, Working, RunInv, EntryInv
<1>2. Outcome' = "error"
  BY <1>1 DEF Fail, Outcome
<1>3. ~ Rounds!Decided(exits)
  <2>1. Len(exits) \in Nat /\ limit \in Nat /\ round \in Nat
    BY DEF RunInv, TypeOK
  <2>2. Len(exits) + 1 = round /\ ~ LastPassed /\ (round > 1 => round <= limit)
    BY DEF RunInv, RoundInv
  <2>3. exits # <<>> => Len(exits) > 0
    BY DEF RunInv, TypeOK
  <2>4. exits # <<>> => exits[Len(exits)] \in BOOLEAN
    BY <2>1, <2>3 DEF RunInv, TypeOK
  <2>5. exits # <<>> => Len(exits) # limit
    BY <2>1, <2>2, <2>3
  <2> QED
    BY <2>2, <2>4, <2>5 DEF Rounds!Decided, LastPassed
<1> QED
  BY <1>1, <1>2, <1>3 DEF Rounds!GiveUp, Fail

LEMMA ExecutorSimulation ==
  ASSUME RunInv, ExecutorStep
  PROVE  Rounds!RoundsNext \/ UNCHANGED Rounds!roundVars
<1> USE DEF record, e2b, files
<1>1. CASE CheckCap
  <2>1. CASE Fail
    BY <1>1, <2>1, GiveUpSimulation DEF CheckCap, AtWork, Rounds!RoundsNext
  <2>2. CASE executor' = "plan" /\ UNCHANGED record
    <3>1. Outcome' = Outcome
      BY <1>1, <2>2 DEF CheckCap, Outcome
    <3> QED
      BY <1>1, <2>2, <3>1, Stutter DEF CheckCap
  <2> QED
    BY <1>1, <2>1, <2>2 DEF CheckCap
<1>2. CASE PlanRound \/ Schedule \/ Push \/ Close
  <2>1. UNCHANGED <<request, limit, exits, verdict, entry>>
    BY <1>2 DEF PlanRound, Schedule, Push, Close
  <2>2. executor \notin {"killed", "report"} /\ executor' \notin {"killed", "report"}
    BY <1>2 DEF PlanRound, Schedule, Push, Close
  <2>3. Outcome' = Outcome
    BY <2>1, <2>2 DEF Outcome
  <2> QED
    BY <2>1, <2>3, Stutter
<1>3. ASSUME NEW passed \in BOOLEAN, Test(passed)
      PROVE  Rounds!TestOnce(passed)
  <2>1. executor = "test" /\ executor' \in {"finish", "cap"} /\ exits' = Append(exits, passed)
        /\ UNCHANGED <<request, limit, entry, verdict>>
    BY <1>3 DEF Test, RunTests
  <2>2. request = "accepted" /\ Outcome = "running"
    BY <2>1, AtWorkFacts DEF AtWork, Working, RunInv, EntryInv
  <2>3. Outcome' = "running"
    BY <2>1, <2>2 DEF Outcome
  <2>4. Len(exits) < limit
    BY <2>1 DEF RunInv, TypeOK, RoundInv, AtWork, Working
  <2>5. ~ Rounds!Decided(exits)
    <3>1. ~ LastPassed
      BY <2>1 DEF RunInv, RoundInv, AtWork, Working
    <3>2. exits # <<>> => exits[Len(exits)] \in BOOLEAN
      BY DEF RunInv, TypeOK
    <3>3. Len(exits) # limit
      BY <2>4 DEF RunInv, TypeOK
    <3> QED
      BY <3>1, <3>2, <3>3 DEF Rounds!Decided, LastPassed
  <2> QED
    BY <2>1, <2>2, <2>3, <2>4, <2>5 DEF Rounds!TestOnce
<1>4. CASE FinishStatus
  <2>1. executor = "finish" /\ executor' = "report"
        /\ UNCHANGED <<request, limit, exits, verdict>>
    BY <1>4 DEF FinishStatus
  <2>2. request = "accepted" /\ Outcome = "running"
    BY <2>1, AtWorkFacts DEF RunInv, EntryInv
  <2>3. Outcome' = "running"
    BY <2>1, <2>2 DEF Outcome
  <2> QED
    BY <2>1, <2>2, <2>3, Stutter
<1>5. CASE FinishVerdict
  <2>1. /\ executor = "report" /\ executor' = "close"
        /\ verdict' = [resolved |-> exits[Len(exits)], rounds |-> round]
        /\ UNCHANGED <<request, limit, exits, entry>>
    BY <1>5 DEF FinishVerdict
  <2>2. request = "accepted" /\ Outcome = "running" /\ entry = "finished"
    BY <2>1, AtWorkFacts DEF RunInv, EntryInv
  <2>3. Outcome' = "finished"
    BY <2>1, <2>2 DEF Outcome
  <2>4. TestsDecided /\ round = Len(exits)
    BY <2>1 DEF RunInv, RoundInv
  <2>5. Rounds!Decided(exits)
    BY <2>4 DEF TestsDecided, Rounds!Decided
  <2>6. Rounds!ReportLater
    BY <2>1, <2>2, <2>3, <2>4, <2>5 DEF Rounds!ReportLater, Rounds!Report
  <2> QED
    BY <2>6 DEF Rounds!RoundsNext
<1>6. CASE Raise
  BY <1>6, GiveUpSimulation DEF Raise, AtWork, Rounds!RoundsNext
<1> QED
  BY <1>1, <1>2, <1>3, <1>4, <1>5, <1>6 DEF ExecutorStep, Rounds!RoundsNext

LEMMA EnvironmentSimulation ==
  ASSUME RunInv, TimeIsUp \/ Expire \/ Restart \/ \E s \in Spellings : Edit(s)
  PROVE  Rounds!Lose \/ UNCHANGED Rounds!roundVars
<1> USE DEF record, e2b, files
<1>1. CASE TimeIsUp \/ Expire \/ \E s \in Spellings : Edit(s)
  <2>1. UNCHANGED <<request, limit, exits, verdict, entry, executor>>
    BY <1>1 DEF TimeIsUp, Expire, Edit
  <2>2. Outcome' = Outcome
    BY <2>1 DEF Outcome
  <2> QED
    BY <2>1, <2>2, Stutter
<1>2. CASE Restart
  <2>1. /\ verdict' = NoVerdict /\ executor' = "killed" /\ executor # "killed"
        /\ UNCHANGED <<limit, exits>>
    BY <1>2 DEF Restart
  <2>2. CASE request = "accepted"
    <3>1. executor # "none"
      BY <2>2 DEF RunInv, StageInv
    <3>2. Outcome \in {"running", "finished", "error"}
      BY <2>1, <3>1, AtWorkFacts DEF RunInv, TypeOK, EntryInv, AtWork, Working
    <3>3. Outcome' = "lost"
      BY <1>2, <2>1, <2>2 DEF Restart, Outcome
    <3> QED
      BY <2>1, <3>2, <3>3 DEF Rounds!Lose, NoVerdict, Rounds!NoVerdict
  <2>3. CASE request # "accepted"
    <3>1. request' # "accepted"
      BY <1>2, <2>3 DEF Restart
    <3>2. Outcome = "waiting" /\ Outcome' = "waiting"
      BY <2>3, <3>1 DEF Outcome
    <3>3. executor \notin {"close", "done"}
      BY <2>3 DEF RunInv, TypeOK, StageInv
    <3>4. verdict = NoVerdict
      BY <3>3 DEF RunInv, EntryInv
    <3> QED
      BY <2>1, <3>2, <3>4, Stutter
  <2> QED
    BY <2>2, <2>3
<1> QED
  BY <1>1, <1>2

LEMMA StepSimulation ==
  PageInv /\ [PageNext]_allVars => [Rounds!RoundsNext]_(Rounds!roundVars)
<1> SUFFICES ASSUME PageInv, [PageNext]_allVars
             PROVE  Rounds!RoundsNext \/ UNCHANGED Rounds!roundVars
  OBVIOUS
<1>1. CASE RunStep
  <2>1. RunInv
    BY DEF PageInv
  <2> QED
    BY <1>1, <2>1, RequestSimulation, ExecutorSimulation, EnvironmentSimulation
       DEF RunStep, Rounds!RoundsNext
<1>2. CASE UNCHANGED vars
  <2>1. UNCHANGED <<request, limit, exits, verdict, entry, executor>>
    BY <1>2 DEF vars, record
  <2>2. Outcome' = Outcome
    BY <2>1 DEF Outcome
  <2> QED
    BY <2>1, <2>2, Stutter
<1> QED
  BY <1>1, <1>2 DEF PageNext, PageStep, PollStep, Answer, SendPoll, LookUp, CopyVerdict,
                    Arrive, LosePoll, Terminating, allVars

\* Every behaviour of a cloud run and its page is one that FixRounds allows: one
\* settlement, of the tests of all rounds, or none because the process was lost.
THEOREM CloudRefinement == PageSpec => Rounds!RoundsSafety
<1>1. PageInit => Rounds!RoundsInit
  BY SimulationInit DEF PageInit
<1> QED
  BY <1>1, StepSimulation, PageInvariance, PTL DEF PageSpec, Rounds!RoundsSafety
===============================================================================
