------------------------------- MODULE FixRounds -------------------------------
(***************************************************************************)
(* What a repo run promises, wherever it executes: tests are run round     *)
(* after round until they pass or the rounds asked for are used up, and    *)
(* the run then says exactly that; or it ends with an error while its      *)
(* tests are undecided; or the process that runs it is lost.  RepoRun (the *)
(* local run) and CloudRun (the sandboxed one) implement this              *)
(* specification.                                                          *)
(***************************************************************************)
EXTENDS Integers, Sequences

VARIABLES limit,     \* the rounds asked for, max_fix_rounds + 1
          exits,     \* whether the tests passed, per round
          outcome,   \* "waiting", "running", or how the run ended
          verdict    \* what it reports

roundVars == <<limit, exits, outcome, verdict>>

NoVerdict == [resolved |-> FALSE, rounds |-> 0]

Decided(tests) == tests # <<>> /\ (tests[Len(tests)] \/ Len(tests) = limit)

RoundsInit ==
  /\ limit \in Nat
  /\ exits = <<>>
  /\ outcome \in {"waiting", "running"}
  /\ verdict = NoVerdict

Begin ==
  /\ outcome = "waiting"
  /\ outcome' = "running"
  /\ UNCHANGED <<limit, exits, verdict>>

Report(tests) ==
  /\ Decided(tests)
  /\ outcome' = "finished"
  /\ verdict' = [resolved |-> tests[Len(tests)], rounds |-> Len(tests)]

\* A round is tested; its verdict may be reported at once or later.
TestOnce(passed) ==
  /\ outcome = "running"
  /\ ~ Decided(exits)
  /\ Len(exits) < limit
  /\ exits' = Append(exits, passed)
  /\ UNCHANGED limit
  /\ Report(exits') \/ UNCHANGED <<outcome, verdict>>

ReportLater ==
  /\ outcome = "running"
  /\ Report(exits)
  /\ UNCHANGED <<limit, exits>>

GiveUp ==
  /\ outcome = "running"
  /\ ~ Decided(exits)
  /\ outcome' = "error"
  /\ UNCHANGED <<limit, exits, verdict>>

\* The process ends, and what it reported is gone with it.
Lose ==
  /\ outcome \in {"running", "finished", "error"}
  /\ outcome' = "lost"
  /\ verdict' = NoVerdict
  /\ UNCHANGED <<limit, exits>>

RoundsNext ==
  Begin \/ ReportLater \/ GiveUp \/ Lose \/ \E passed \in BOOLEAN : TestOnce(passed)

\* A run that was begun does not stay "running".
RoundsEnd == outcome = "running" ~> outcome # "running"

RoundsSafety == RoundsInit /\ [][RoundsNext]_roundVars

RoundsSpec == RoundsSafety /\ RoundsEnd
===============================================================================
