------------------------------- MODULE CloudRun -------------------------------
(***************************************************************************)
(* One run of webapp_cloud.py: the request thread that registers it, loads *)
(* the upload and spawns the executor, the executor thread with its rounds,*)
(* its wall-clock cap and its remote sandbox (ai_company/sandbox_exec.py), *)
(* the entry of RUNS they write, and the end of the server process, which  *)
(* takes the entry and the daemon thread with it.                          *)
(*                                                                         *)
(* Abstracted: planning and scheduling are single steps (Planner and       *)
(* Scheduler say what happens in them); of the clock, only the moment at   *)
(* which MAX_RUN_SECONDS have passed, which may come during any step; of   *)
(* the file store, the names under which one file is kept and which of     *)
(* them was committed last; the log and the task list of the entry.  E2B   *)
(* is external: a sandbox may die at any time, every call to it may raise. *)
(***************************************************************************)
EXTENDS Integers, Sequences

CONSTANT MaxRounds   \* the most rounds a request can ask for

ASSUME CloudAssumption == MaxRounds \in Nat \ {0}

VARIABLES request,   \* where start_repo_run is, and what it answered
          limit,     \* max_fix_rounds + 1 of the request, 0 if it is negative
          entry,     \* RUNS[run_id]["status"], "absent" if there is no entry
          verdict,   \* its "resolved" and "rounds", NoVerdict before _finish
          executor,  \* where _execute_sandboxed_run is
          round,     \* round_no
          overran,   \* the round in which MAX_RUN_SECONDS were over, 0 before (external)
          exits,     \* whether the tests passed, per round
          sandbox,   \* RemoteWorkspace._sandbox: "none", "live", or "dead"
          running,   \* sandboxes alive at the provider (external)
          unkilled,  \* kill() raised (external)
          names,     \* the spellings of the file's path in the store, as inserted
          newest,    \* the spelling committed last
          fresh      \* whether the sandbox holds that commit

record == <<entry, verdict>>
e2b == <<sandbox, running, unkilled>>
files == <<names, newest, fresh>>
vars == <<request, limit, record, executor, round, overran, exits, e2b, files>>

NoVerdict == [resolved |-> FALSE, rounds |-> 0]
Spellings == {"a.py", "./a.py"}
Working == {"plan", "schedule", "push", "test"}

TypeOK ==
  /\ request \in {"received", "registered", "loaded", "refused", "accepted",
                  "error500", "dropped"}
  /\ limit \in 0..MaxRounds
  /\ entry \in {"absent", "running", "finished", "error"}
  /\ verdict \in [resolved : BOOLEAN, rounds : 0..MaxRounds]
  /\ executor \in Working \union {"none", "cap", "finish", "report", "close", "done", "killed"}
  /\ round \in 1..MaxRounds
  /\ overran \in 0..MaxRounds
  /\ exits \in Seq(BOOLEAN)
  /\ sandbox \in {"none", "live", "dead"}
  /\ running \in 0..1
  /\ unkilled \in BOOLEAN
  /\ names \in Seq(Spellings)
  /\ newest \in Spellings
  /\ fresh \in BOOLEAN

\* The upload holds the file under its plain name, or agents will create it.
Init ==
  /\ request = "received"
  /\ limit \in 0..MaxRounds
  /\ entry = "absent"
  /\ verdict = NoVerdict
  /\ executor = "none"
  /\ round = 1
  /\ overran = 0
  /\ exits = <<>>
  /\ sandbox = "none"
  /\ running = 0
  /\ unkilled = FALSE
  /\ names \in {<<>>, <<"a.py">>}
  /\ newest = "a.py"
  /\ fresh = FALSE

------------------------------------------------------------------------------
(* The request thread. *)

\* Rate limit, missing fields, size, unknown provider: no entry is made.
Refuse ==
  /\ request = "received"
  /\ request' = "refused"
  /\ UNCHANGED <<limit, record, executor, round, overran, exits, e2b, files>>

Register ==
  /\ request = "received"
  /\ request' = "registered"
  /\ entry' = "running"
  /\ UNCHANGED <<limit, verdict, executor, round, overran, exits, e2b, files>>

\* The upload is unpacked after the run was registered; if that raises, the
\* error handler answers 500 and the entry stays behind.
LoadUpload ==
  /\ request = "registered"
  /\ request' \in {"loaded", "error500"}
  /\ UNCHANGED <<limit, record, executor, round, overran, exits, e2b, files>>

Spawn ==
  /\ request = "loaded"
  /\ request' = "accepted"
  /\ executor' = "cap"
  /\ UNCHANGED <<limit, record, round, overran, exits, e2b, files>>

------------------------------------------------------------------------------
(* The executor thread. *)

\* _fail, on the way to the finally clause.
Fail == entry' = "error" /\ executor' = "close" /\ UNCHANGED verdict

\* Bug: the cap is looked at once, before the first round.
CheckCapOnce ==
  /\ executor = "cap"
  /\ IF round > limit \/ (overran # 0 /\ round = 1)
     THEN Fail
     ELSE executor' = "plan" /\ UNCHANGED record
  /\ UNCHANGED <<request, limit, round, overran, exits, e2b, files>>

\* The head of the loop: the cap is checked here and nowhere else.  When no
\* round was asked for, the call of _finish after the loop names test_output,
\* which no round has bound, and raises.
CheckCap ==
  /\ executor = "cap"
  /\ IF round > limit \/ overran # 0
     THEN Fail
     ELSE executor' = "plan" /\ UNCHANGED record
  /\ UNCHANGED <<request, limit, round, overran, exits, e2b, files>>

PlanRound ==
  /\ executor = "plan"
  /\ executor' = "schedule"
  /\ UNCHANGED <<request, limit, record, round, overran, exits, e2b, files>>

\* apply_edits commits the file under the agent's spelling of its path.
Edit(s) ==
  /\ executor = "schedule"
  /\ names' = IF \E i \in 1..Len(names) : names[i] = s THEN names ELSE Append(names, s)
  /\ newest' = s
  /\ fresh' = FALSE
  /\ UNCHANGED <<request, limit, record, executor, round, overran, exits, e2b>>

\* scheduler.run() returns.
Schedule ==
  /\ executor = "schedule"
  /\ executor' = "push"
  /\ UNCHANGED <<request, limit, record, round, overran, exits, e2b, files>>

\* _get_sandbox: created on first use, kept from then on.
Create ==
  /\ sandbox = "none"
  /\ sandbox' = "live"
  /\ running' = running + 1
  /\ UNCHANGED unkilled

\* Bug: a sandbox that exists is taken to hold the files already.
PushOnce ==
  /\ executor = "push"
  /\ \/ Create /\ fresh' = (names = <<>> \/ names[Len(names)] = newest)
     \/ sandbox = "live" /\ UNCHANGED <<e2b, fresh>>
  /\ executor' = "test"
  /\ UNCHANGED <<request, limit, record, round, overran, exits, names, newest>>

\* push_files writes every entry of the store, in the order they were inserted:
\* of two spellings of one path the one inserted later ends up in the sandbox.
Push ==
  /\ executor = "push"
  /\ Create \/ (sandbox = "live" /\ UNCHANGED e2b)
  /\ fresh' = (names = <<>> \/ names[Len(names)] = newest)
  /\ executor' = "test"
  /\ UNCHANGED <<request, limit, record, round, overran, exits, names, newest>>

\* The test command ends with an exit code.
RunTests(passed) ==
  /\ executor = "test"
  /\ sandbox = "live"
  /\ exits' = Append(exits, passed)
  /\ UNCHANGED <<overran, e2b>>

\* Bug: the verdict of the last round is taken before its tests.
TestShort(passed) ==
  /\ RunTests(passed)
  /\ executor' = IF passed \/ round + 1 >= limit THEN "finish" ELSE "cap"
  /\ round' = IF executor' = "cap" THEN round + 1 ELSE round
  /\ UNCHANGED <<request, limit, record, files>>

\* run(test_cmd) returns; then _finish, or the next round.
Test(passed) ==
  /\ RunTests(passed)
  /\ executor' = IF passed \/ round = limit THEN "finish" ELSE "cap"
  /\ round' = IF executor' = "cap" THEN round + 1 ELSE round
  /\ UNCHANGED <<request, limit, record, files>>

\* _finish writes the status first and what goes with it later.  It holds the
\* lock, but the status route copies the entry without it.
FinishStatus ==
  /\ executor = "finish"
  /\ entry' = "finished"
  /\ executor' = "report"
  /\ UNCHANGED <<request, limit, verdict, round, overran, exits, e2b, files>>

FinishVerdict ==
  /\ executor = "report"
  /\ verdict' = [resolved |-> exits[Len(exits)], rounds |-> round]
  /\ executor' = "close"
  /\ UNCHANGED <<request, limit, entry, round, overran, exits, e2b, files>>

\* Bug: the thread dies of an exception that is not SandboxUnavailable.
RaiseUncaught ==
  /\ executor \in Working
  /\ (executor = "push" /\ Create) \/ UNCHANGED e2b
  /\ executor' = "close"
  /\ UNCHANGED <<request, limit, record, round, overran, exits, files>>

\* A model call in planning, the scheduler, E2B (a new sandbox may refuse the
\* files), or the test command's timeout raises: both except clauses record it.
Raise ==
  /\ executor \in Working
  /\ (executor = "push" /\ Create) \/ UNCHANGED e2b
  /\ Fail
  /\ UNCHANGED <<request, limit, round, overran, exits, files>>

\* Bug: close() forgets the sandbox without killing it.
CloseForgets ==
  /\ executor = "close"
  /\ sandbox' = "none"
  /\ executor' = "done"
  /\ UNCHANGED <<request, limit, record, round, overran, exits, running, unkilled, files>>

\* finally: remote.close().  An exception of kill() is swallowed; the sandbox is
\* then left to its lifetime.
Close ==
  /\ executor = "close"
  /\ sandbox' = "none"
  /\ \/ running' = 0 /\ UNCHANGED unkilled
     \/ running = 1 /\ unkilled' = TRUE /\ UNCHANGED running
  /\ executor' = "done"
  /\ UNCHANGED <<request, limit, record, round, overran, exits, files>>

------------------------------------------------------------------------------
(* The environment. *)

\* The clock passes started_at + MAX_RUN_SECONDS, in the middle of whatever the
\* executor is doing: a model call, a push, the tests.
TimeIsUp ==
  /\ executor \in Working \union {"cap"}
  /\ overran = 0
  /\ overran' = round
  /\ UNCHANGED <<request, limit, record, executor, round, exits, e2b, files>>

\* E2B ends a sandbox on its own (its lifetime is over).
Expire ==
  /\ running = 1
  /\ running' = 0
  /\ sandbox' = IF sandbox = "live" THEN "dead" ELSE sandbox
  /\ UNCHANGED <<request, limit, record, executor, round, overran, exits, unkilled, files>>

\* The server process ends (DEPLOY.md: the instance sleeps, is redeployed).  RUNS
\* is gone, and the daemon thread dies without its finally clause.
Restart ==
  /\ request \notin {"received", "refused", "dropped"}
  /\ executor # "killed"
  /\ request' = IF request \in {"registered", "loaded"} THEN "dropped" ELSE request
  /\ entry' = "absent"
  /\ verdict' = NoVerdict
  /\ executor' = "killed"
  /\ sandbox' = "none"
  /\ UNCHANGED <<limit, round, overran, exits, running, unkilled, files>>

RequestStep == Refuse \/ Register \/ LoadUpload \/ Spawn

ExecutorStep ==
  \/ CheckCap \/ PlanRound \/ Schedule \/ Push \/ FinishStatus \/ FinishVerdict
  \/ Raise \/ Close
  \/ \E passed \in BOOLEAN : Test(passed)

RunStep == \/ RequestStep \/ ExecutorStep \/ TimeIsUp \/ Expire \/ Restart
           \/ \E s \in Spellings : Edit(s)

\* Both threads run.  That model calls, the scheduler and E2B's calls end is an
\* assumption: no timeout of the code bounds all of them.
RunFairness == WF_vars(RequestStep) /\ WF_vars(ExecutorStep)

------------------------------------------------------------------------------
(* Properties. *)

\* A run never holds two sandboxes at the provider, and holds none once its
\* thread is over, whichever way it ended; only E2B's refusal to kill it, or the
\* end of the server process, leaves one behind.
NoSandboxLeak ==
  /\ running <= 1
  /\ executor \in {"none", "done"} => sandbox = "none" /\ (running = 0 \/ unkilled)

\* The cap is looked at between rounds only: the round in which the time was over
\* may run on for as long as its calls take, but it is the last one.  No model is
\* called, nothing pushed and nothing tested for a later round.
NoRoundBeyondCap ==
  overran # 0 => /\ executor \in Working => round = overran
                 /\ Len(exits) <= overran

\* Every round's tests run on the latest edit, those of earlier rounds included,
\* unless agents spelled the path in two ways: then the name that was inserted
\* first is the one edited last, and its edit is overwritten in the sandbox.
TestsSeeEdits ==
  executor \in {"test", "finish", "report"} =>
    fresh \/ (Len(names) = 2 /\ newest = names[1])

\* How far a run has come, for those who asked for it.
Outcome ==
  CASE request # "accepted"                        -> "waiting"
    [] request = "accepted" /\ executor = "killed" -> "lost"
    [] request = "accepted" /\ executor = "report" -> "running"
    [] OTHER                                       -> entry

Rounds == INSTANCE FixRounds WITH outcome <- Outcome

\* The run is an implementation of FixRounds from the moment it is accepted:
\* it settles once, with the verdict of its last tests, and every accepted run
\* ends unless its process does.
ImplementsFixRounds == Rounds!RoundsSpec
==============================================================================
