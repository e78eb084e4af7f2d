# A verification project for the AI software company simulator

This directory holds TLA+ models of the code in this repository, the
configurations TLC checks them with, and theorems about them that TLAPS checks.
`ai_company/` is the library, `webapp.py` with `static/index.html` the local web
application, `webapp_cloud.py` with `templates/cloud.html` the multi-tenant one.
Line numbers refer to the sources; `PROJECT.json` maps every definition to its
lines and lists the runs, the mutants, the findings, the hazards and the theorems.

To run a model: `tlc -config MCScheduler.cfg MCScheduler.tla`. To check the
proofs of a module: `tlapm RepoRunProofs.tla`.

## The system

An *issue* is turned into a DAG of *tasks*, each for a role (product manager, tech
lead, backend, frontend, QA, security, DevOps). A scheduler runs the tasks on a
thread pool; an agent is an LLM call with a context made of the issue, the results
of the tasks it depends on, and recent decisions. In repo mode the agents' file
blocks are committed to a versioned store, written to a sandbox and tested, and
the failing output starts another round.

| Component | State | Operations | Talks to |
|---|---|---|---|
| `task_graph.py` | tasks, their dependencies, status, attempts, result | `add_task`, `validate`, `ready_tasks`, `is_finished`, `mark_failed` | called by planner, company and scheduler; the web applications serialise its statuses from the scheduler's own thread (`on_progress`) |
| `scheduler.py` | `in_flight`, the pool's threads, a lock, the timeline | `run`, `_execute`, `_handle_completion`, `_retry_or_fail` | graph, agents, memory; calls back `on_task_done` and the patched `_log` |
| `conflict.py` | file, version, history | `checkout`, `commit`, `three_way_merge` | called by workspace and cloud run |
| `memory.py` | blackboard entries, private notes | `post`, `recent`, `build_context` | scheduler writes, workers read |
| `planner.py`, `company.py` | none of their own | `parse_plan`, `plan_dynamically`, `solve_issue`, `solve_repo_issue` | two LLM calls, then graph, scheduler and workspace |
| `repo.py` | the file store, the sandbox directory | `_load`, `apply_agent_output`, `materialize`, `run` | store, disk, subprocess |
| `llm_free.py` | attempt, last error | `complete` | an HTTP server |
| `ratelimit.py` | times of accepted attempts per user, a lock | `check_and_record` | request threads of the cloud application |
| `auth.py` | the signing-key client and its time stamp, without a lock | `require_auth`, `verify_token`, `_get_jwks_client` | in front of every route of the cloud application |
| `sandbox_exec.py`, `webapp_cloud.py` | `RUNS`, a remote sandbox per run, start time | `start_repo_run`, `_execute_sandboxed_run`, `_finish`, `_fail`, `close`, status | E2B, planner, scheduler; dies with the server process |
| `templates/cloud.html` | its timer, a count of failed polls | start, poll, verdict or message | HTTP: lost, refused, overlapping |
| `webapp.py`, `static/index.html` | `RUNS`, the page, its timer, `result.zip` | start, execute, status, download; poll, render | HTTP, overlapping |
| `evals.py`, `agents.py` | none, or counters | baseline loop, LLM backends | |

What is hard here: worker threads interleave with the main loop, whose retries reuse
task objects; failures cascade while completions are being handled; stale
versions are merged or refused; time is read before a lock is taken, globals are replaced
without one; the clock runs out in the middle of a round that nothing stops; shared dicts are
serialised while they are written; the server restarts in the middle of a run;
responses are lost and overtake each other. `PROJECT.json` "hazards"
names each of these with its line and the properties that cover it.

What makes each component correct:

- Task graph: `validate` accepts exactly the DAGs over known ids; a permanent
  failure blocks exactly what is downstream of it.
- Scheduler: tasks start over finished dependencies with current results; the three
  records of what is running agree; outcomes are final; `run` ends and leaves nothing
  undecided.
- File store: no accepted edit is lost by a merge; a refusal has a reason.
- Planner: a plan is taken verbatim or not at all, for known roles only; bad plans fall back.
- A repo run, local or cloud: tests of round after round until they pass or the rounds
  are used up, and a report of exactly that; what is delivered is what was tested.
- Cloud run: no sandbox is left behind; no round begins once the time is over; its page
  ends up with a verdict or a message, and "passed" is never wrong.
- Client, limiter, authentication, download, dashboard: bounded waits, the window per user,
  a signing key that is not stale, an archive that is whole, a page that shows what happened.

## The modules

| Module | Models | Runs |
|---|---|---|
| `TaskGraph` | graphs, readiness, doom, the cascade as a least set: operators only | through the others |
| `TaskFlow` | abstract: what a scheduler promises, without threads or loops | property of `scheduler` |
| `Scheduler` | `scheduler.py` with its threads and lock | `scheduler` (`MCScheduler`) |
| `CycleCheck` | the depth-first search of `validate` | `task_graph` |
| `FailureCascade` | the sweeps of `mark_failed`, on a graph `validate` has accepted; extends `CycleCheck` | `task_graph` (`MCTaskGraph`) |
| `ThreeWayMerge`, `MergeCases` | `three_way_merge` and the `difflib` calls it rests on | `merge` |
| `FileStore` | checkout, commit, merge, refusal among clients | `file_store` |
| `FixRounds` | abstract: what a repo run promises, wherever it executes | property of `repo_run` and `cloud_run` |
| `RepoRun` | `solve_repo_issue` with the workspace, extends `Scheduler` | `repo_run`, `repo_run_checked` |
| `LLMClient` | `OpenAICompatibleLLM.complete`: its state and steps | `planner` |
| `Planner` | `plan_dynamically` (two calls of `LLMClient`), `parse_plan`, the standard workflow; extends `LLMClient` | `planner`, `planner_anyplan` |
| `RateLimit` | `check_and_record` among request threads | through `Auth` |
| `Auth` | `require_auth` in front of the limiter; extends `RateLimit` | `cloud_requests` (`MCCloudRequests`) |
| `CloudRun` | a cloud repo run from request to closed sandbox, and the end of the server process | through `CloudPage` |
| `CloudPage` | the cloud page and the status route, over one run; extends `CloudRun` | `cloud_run` |
| `Download` | the download route, several times at once | `download` |
| `WebRun` | local runs as the page's two tabs and one poller see them | `web_run` |
| `TaskGraphProofs` | theorems about the operators of `TaskGraph` | |
| `FailureCascadeProofs` | theorems about `CycleCheck` and `FailureCascade` | |
| `RepoRunProofs` | theorems about `Scheduler` and `RepoRun` | |
| `FileStoreProofs` | theorems about `ThreeWayMerge`, `MergeCases` and `FileStore` | |
| `PlannerProofs` | theorems about `LLMClient` and `Planner` | |
| `CloudPageProofs` | theorems about `CloudRun` and `CloudPage` | |
| `AuthProofs` | theorems about `RateLimit` and `Auth` | |
| `WebAppProofs` | theorems about `WebRun` and `Download` | |

Operators introduced by a comment `Bug:` are mutations: each is a mistake one could
make in the definition that follows it. No specification uses them; replacing the
definition by one of them makes the property it is listed with fail, which is
how we know the property depends on the code.

### How the models correspond to the code

**Scheduler.** `pc` is the main thread: `launch` is the locked block of lines 48-56
(one `Launch` per iteration, `LaunchDone` at its end), `check` lines 58-62, `wait`
the `as_completed` of line 64, `settle` between the pop and the end of
`_handle_completion`. `worker[t]` is the thread that runs `_execute`: `queued`,
`working` once it has copied `dep_results` under the lock (`ReadDeps`), then
`returned` or `raised`. `on_task_done` may raise too, so a returned future may be
completed, retried or failed. A result is the number of the attempt that
produced it, which lets `ContextFresh` tell a current copy from an old one. `decisions` is
the blackboard. The dict order of tasks is left open: every order is explored.

**The search.** `path` in `CycleCheck` is both the recursion stack and the list the
error prints. `Scheduler!Validate` takes the verdict in one step; `VerdictCorrect` is why it may.

**The cascade.** `TaskGraph!MarkFailed` uses the least closed set. `FailureCascade`
runs the sweeps of the source over every graph the search has accepted: `Call` is the
call from `_retry_or_fail`, with any consistent statuses, and `CascadeCorrect` says that
the sweeps compute the least set, so `Scheduler` may use one step for `mark_failed`. Nobody sees
the middle of a sweep: it runs under the scheduler's lock, which keeps the workers out, and the
web applications serialise statuses in `on_progress` and after `run`, on the scheduler's own thread.

**Planner.** `Spec` runs the two model calls step by step (`CallModel`), then decodes, adds
the items one by one, validates and accepts, falls back or lets an exception escape. An answer
whose content is null makes `Agent.work` raise after a call that returned, so
`ModelFails` may follow either end of a call. An answer is a body with something before and
after it: a fence is stripped (`Stripped`), and in prose or in an object the array is found from the
first bracket to the last, unless the prose has brackets too (`ReadsList`). `roles` has the role of
every task, out of the keys of `ROLE_PROMPTS` (`Roles`). The graph after `FallBack` is `StandardPlan`,
the fixed workflow of seven tasks, with `StandardRoles`. In `LLMClient` seconds count what
`complete()` sleeps; a request may take any time, because the timeout given to `requests` bounds
connecting and each read separately and not the whole.

**Merge.** A text is a sequence of lines and whether it ends with a newline; `Texts(S)` are
those that are the `splitlines()` of some string. `Windows`, `Runs`, `Best` and `Matched` are
`SequenceMatcher`'s longest-match recursion, a library, modelled from how it is called (no junk,
no autojunk); `Edits` are its opcodes that are not "equal", read off the matched pairs
(`Anchors`). `Splice` applies the edits as the source does, from the back. The source sorts a
list; here the edits are a set, looked up by their first line (`EditAt`): two edits that start
together touch the same line, which is a conflict, so the order of the sort decides nothing.
`MergedLines` is the reference: the union of both sides' edits position by position. All
recursion is in functions over windows and positions.

**Limiter.** An entry of `_history` is the request that appended it, with `now[r]` as its stamp.
The code filters and counts the list and appends to it, and never uses its order, so a user's
history is a set of requests; two requests of one instant remain two entries.

**Rounds.** `FixRounds` knows the number of rounds asked for, the results of the tests so far, how
the run stands and what it reports. `RepoRun` and `CloudRun` each say what these are in
their own state (`Outcome`, `Reported`; `Tested`, `Rounds`) and implement it: one settlement, with
the verdict of the last tests, and no run that is running for ever.

**Repo run.** Files are version numbers: 0 is no file. `disk` is the sandbox, `exits` the
test results; bringing the sandbox up to date (`Materialize`) and testing (`TestRound`) are steps of
their own. `overtaken` is a history variable for one property. A failed task's first blocks may
stay in the store, as in the code. `materialize` may raise (a path such as `.` passes
`_safe_rel_path` and is a directory), and so may the test command (output that is no text); then
the exception leaves `solve_repo_issue`. `limit` is `max_fix_rounds` + 1, and 0 stands for a
negative number: the loop is skipped, and the return after it names a variable no round has
bound. The listing in the prompt is text that is cut after 6000 characters; no property speaks of it.

**Cloud run.** Of the clock the model keeps the moment at which `MAX_RUN_SECONDS` are over
(`TimeIsUp`, which notes the round in `overran`): it may come in any step, and nothing says how long a
step takes. The sandbox is external: it is created on the first push, may expire at any moment, and any
call to it may raise. A sandbox that was created may refuse the files; `kill()` may fail, which the
code ignores (`unkilled`). The entry is registered before the upload is unpacked; when that
raises, the entry stays "running", under an id no client ever gets. `limit` 0 stands for a
negative `max_fix_rounds`: the loop is skipped and the `_finish` after it names a variable
no round has bound, so the run ends as an error. `_finish` is two steps, because the
status route copies the entry without the lock. The store's keys are the agents' spellings
of a path: `names` has those of one file in the order of insertion, in which every push
writes them. `Restart` is the end of the server process: `RUNS` is gone, the daemon thread
dies without its `finally`, and a sandbox that was alive is left to its lifetime at E2B.

**Cloud page.** A poll is sent, looked up and answered, refused (401, 500, or 404 after a
restart) or lost; polls overlap. The status route copies field by field, without the lock:
`LookUp` reads the status and `CopyVerdict`, later, the result, so a copy may be one the entry never
was, such as "running" with a result. The count of failed polls is not reset by a new run, so it starts anywhere.

**Authentication.** `_get_jwks_client` reads the clock, compares, builds and stores two globals with
other threads in between. A client is the time it was stored at: making one fetches no key, so what it
serves is fetched later, for a request that was given it. Without `SUPABASE_URL` every request
is answered with a 500 (`auth.py` 28-29); the model has it set. `Verify` is the library's
answer: yes, no, or an error that becomes a 500. Only then does the request reach
`check_and_record`, which reads the clock before it takes its lock.

**Download.** A file is a number that lives on without a name for those who have it open:
`unlink` takes the name away, opening for writing truncates what the name stands for, a member is
begun with a placeholder for its header and patched in place (`BeginMember`, `EndMember`), which undoes
it for a while if another writer of the same file had finished it; the directory comes last;
sending announces a length first and reads afterwards. `torn` and `disturbed` are history variables.

**Web run.** A run is started from one of two tabs; the server answers with an id or an
error, and the page sets its one timer to the new run. The executor of a repo run writes
`status`, `resolved` and the files in that order, under the lock; `status()` fetches the entry
under the lock and serialises it after releasing it. The page renders every response
when it arrives, and clears the timer on the first one that is not "running", whatever run
the timer asks for by then. An exception ends in the error message and an "idle" badge,
as `fail()` sets it, and so does a start that is refused, although the timer may still ask for an
earlier run. The verdict is its headline: `showVerdict` adds the class `pass` or `fail` and never
takes the other one away. `latest`, `spurned`, `told` and `dropped` are history variables: the run
announced last, whether a start was refused since, the runs whose end was rendered, and those that
lost the timer to another run.

## What the runs show

Passing runs; every property has a mutant that breaks it.

| Run | Bounds | Shows |
|---|---|---|
| `scheduler` | all DAGs over 4 tasks (one labelling of each), graphs with self-loops, two-cycles and an unknown id; one task without an agent; 2 workers; 3 attempts | `SchedulerInv` (types, threads against statuses and futures, slots, attempts, the blackboard's order), `ContextFresh`, `BlockedExactly`, `FinishedSettled`, `Termination`, and that `Scheduler` implements `TaskFlow` with its liveness |
| `task_graph` | the same kinds of graphs over 4 tasks, all orders of search and sweep, every consistent status at the call of `mark_failed` | `SearchInv`, the right verdict, a real cycle; the sweeps compute the least set; both loops end |
| `merge` | bases of up to 3 lines, drafts of up to 3 lines, with repeated and blank lines | the merge of difflib's edits is the union of both sides and accounts for every line that is not blank |
| `file_store` | 2 clients, texts of up to 2 lines, 4 versions | no lost edit, faithful history, justified refusals |
| `cloud_requests` | 3 requests of one user, 1 of another, 2 per window of 3, time to 3, a key client that expires after 1 | the window holds for users whose requests were not reordered; no user is charged for another; no stale or missing key client |
| `repo_run` | 2 tasks, 2 files (one new), up to 2 rounds (none included), 2 workers, 2 attempts | what is delivered was tested, rounds do not overlap, and the run implements `FixRounds` with its liveness |
| `planner` | the code's 2 retries and 15 s cap, retry-after up to 120 s; then every answer of up to 2 items with every defect, 3 items, and items in fences, in prose and in an object | a graph is runnable and staffed by known roles; an accepted plan is the answer verbatim; the waits of a call are bounded, and its error is the last one |
| `cloud_run` | up to 2 rounds (none included), the time over in any step of either or never; 2 overlapping polls, 1 failed poll tolerated | no leaked sandbox unless `kill()` failed or the process ended, no round begun or tested once the time is over but the one in progress, tests that see all edits, no false pass on the page, a verdict or a message in the end, and the run implements `FixRounds` with its liveness |
| `download` | 3 requests, archives of 2 members and a directory, with and without an earlier archive | who opened the archive last is served, and a whole archive is left on disk; a download is torn only by one that took the archive away or opened it meanwhile |
| `web_run` | 2 runs from either tab, 2 overlapping polls, 2 rounds | no false pass, a badge that is about the run announced last (unless a later start was refused, or the timer was lost), and the end of every run is shown unless another run took its timer |

Why the bounds are enough to be interesting: three attempts are the code's own; four
tasks give chains, diamonds, forks and joins, with two workers a task that is ready and
has no slot; two polls and two runs allow a torn response, a late one, and one about a run
the page has left. In `cloud_run` the time may be over in the first round, so that the second is
cut off, in the second, which runs on, or not at all; two rounds are what the page asks for. In
`download` the third request meets what two that overlapped have left. `MaxVersion`, `MaxTime` and `MaxRuns` are the only bounds that cut a
behaviour short; `Polls` bounds what is under way at once, and every other model is finite by
itself. Texts of three lines allow an insertion, a deletion and a replacement to be adjacent,
at the start, and at the end.

Every module with state also states its `TypeOK`; those of `Scheduler` and `CycleCheck` are
conjuncts of invariants that are checked and proved, those of `CloudRun`, `CloudPage` and `WebRun` of
invariants that are proved, and the others document the range of each variable.

### What the code does otherwise than it says

Two runs are expected to find a violation; each checks what a text of the repository says.

1. `repo_run_checked`. PROJECT_SUMMARY: a "write only succeeds if nobody else has committed
   since" the checkout. Both `apply_agent_output` and the cloud's `apply_edits` check
   out at the moment of the commit, so a commit never finds a newer version: neither the
   merge nor `WriteConflict` is ever reached from a run, and of two concurrent
   edits of a file the later one wins.
2. `planner_anyplan`. README: "automatic fallback to the standard workflow on any bad plan". A
   `depends_on` of `null` or a number raises `TypeError`, which is not caught.

Three more disagreements are states these models reach, with the property that does hold
stated instead:

- README: "rate limiter correctly enforces per-user windows". The clock is read before the
  lock. A request that read it late but got the lock first purges entries that the next
  one, which read it earlier, is still within the window of, so that one may be admitted
  above the limit. `WindowRespectedInOrder` leaves out the users this happens to.
- The comment at `webapp_cloud.py` 141-144 speaks of a "hard wall-clock cap" against a stalled call. It
  is only looked at when a round starts: the round in which the time runs out goes on for as long as
  its calls take, a stalled one included. `NoRoundBeyondCap` is what the cap does.
- README: "When it finishes you get: a pass/fail verdict". A response serialised between the first and
  the last assignment of the outcome says finished with no result; either page then shows a
  failing verdict and asks no more. `PassIsTrue` and `ShownPassIsReal` are one-sided for this reason.

Seen while modelling, and contradicted by no text:

- A `commit` to a file that does not exist ignores its base version.
- The cloud's agents are not shown the repository's files (`current_issue` is the issue only).
- The last wait of a model call serves no further attempt.
- On an error the dashboard's badge is set to "error" and at once to "idle"; a late response draws
  an older board over the final one.
- The dashboard's tabs share one timer: starting a second run, or a late response about an
  earlier one, ends the polling of the run in progress, whose outcome is then never shown and
  whose button stays disabled (`dropped` in `WebRun`).
- Both web applications read `max_fix_rounds` without a lower bound (`webapp.py` 95, `webapp_cloud.py`
  78): a negative number ends the run with an `UnboundLocalError`, reported as an error.
- A start that is refused sets the dashboard's badge to "idle" while an earlier run is still
  polled, until that run's end is shown (`spurned` in `WebRun`).
- A second repo verdict of an overlapping poll adds its class to the first one's: `showVerdict`
  (`index.html` 380) removes neither `pass` nor `fail`; the headline is replaced.
- The timeout of a model request is for connecting and for each read: a server that trickles its
  answer holds the worker for as long as it likes.
- Of two spellings of a path in a cloud run, the one that was inserted later overwrites the
  other on every push, also when the other was edited last.
- A restart of the cloud server leaves a live sandbox to its lifetime at E2B.
- Two downloads of one run at once can fail with a 500 or deliver a damaged archive, also to the one
  that began last, if a slower one goes on writing the same file; asking again repairs it.
- The stamp of the shared key client is the time some thread read before it built one: under
  contention a client is replaced early, never late.

## Fairness

`Scheduler`: weak fairness of the main thread and of each worker. Threads of the pool are
scheduled by the operating system, and the lock is held for a few statements. That an agent's
call ends is an assumption: retries are counted and waits are bounded (`GivesUpHonestly`,
`WaitsBounded`), but the timeout of a request bounds connecting and each read, not the whole of it.
`RepoRun`: the same, and the test command has a timeout of 120 s. `CloudRun`: weak fairness of the
request and the executor, under the same assumption for model calls and E2B's; none for `TimeIsUp`,
`Expire`, `Restart` or `Edit`. `CloudPage`: of the answer to the page's request
and of each poll, which a browser answers or fails; none is promised a good answer.
`WebRun`: of each start request, each executor and each poll, not of the user: the timer
fires while it is set and the browser's requests are answered; without that nobody can be
told anything. `CycleCheck` and `FailureCascade` are sequential code that is run to its end, with
no promise that it is ever called. The other modules state no liveness and assume no fairness.

## The proofs

`TaskGraphProofs` has the lemmas about graphs, for every finite or infinite set of tasks:
statuses stay `Consistent` when a task starts, settles or fails
(`StartKeepsConsistent`, `SettleKeepsConsistent`, `MarkFailedKeepsConsistent`), a failure blocks
exactly the pending tasks downstream (`MarkFailedIsDownstream`), blocked tasks are exactly those
downstream of a failed one (`BlockedIsDownstream`), and a valid consistent graph in
which nothing runs and nothing is ready has nothing left pending (`IdleIsSettled`).

`RepoRunProofs` proves about the scheduler, for every finite set of tasks, set of graphs, number of
workers and of attempts:

- `Invariance`: `SchedulerInv` is an invariant. The properties are not inductive: that a copied
  dependency result is current needs that dependencies of a running task are done and that done
  is final (`Consistent`), that in turn needs the agreement of statuses, futures and threads
  (`ThreadInv`), and that `run` returns with everything settled needs what the launch loop left
  behind (`IdleInv`). Each conjunct has a lemma with one step per action.
- `TypeCorrect`, `FreshContexts`, `ThreadsAccounted`, `BlackboardOrdered`,
  `BlockedIsDownstreamOfFailed`, `ReturnsSettled` from it, and `OutcomesAreFinal` as an action property.
- `Refinement`: `Scheduler` implements `TaskFlow!FlowSafety`; `StepSimulation` maps every step to
  one of `TaskFlow` or to a stutter. This is where `mark_failed`'s least set is shown to be
  `TaskFlow`'s "downstream".

`FailureCascadeProofs` first proves that `SearchInv` is inductive (grey is the stack, examined
dependencies are black or the next call, the black part is closed and acyclic) and from it
`VerdictIsCorrect` and `ReportIsReal`, for every set of tasks and graphs, and goes on from there
(`SearchGoesOn`: the cascade leaves the search's invariant alone). The cascade's own invariant
says that during the sweeps every task that has become blocked is in the least set, and that in
the sweep under way the tasks already visited are not doomed unless something has changed since; a
sweep without a change is therefore a closed set, and the least one. `SweepsAreLeast` holds for every
graph `validate` accepts and every order of the dict.

For the repo run `RepoRunProofs` builds on the scheduler's part: a round starts a scheduler from its
initial state and takes no other steps of it, so `SchedulerInv` holds in all rounds
(`RoundsKeepScheduler`). With it `FinishedIsSettled` tells that no thread is left when tests run,
which is what `NoOverlap` and `DeliveredIsTested` rest on. `RepoRefinement`:
`RepoRun` implements `FixRounds!RoundsSafety`.

`CloudPageProofs` has one invariant for the run and its page: where each thread is tells what the
entry may say, how many tests there were and what the sandbox is, and that a round later than the one in
which the time was over is never worked on; a copy under way may say "finished" only when the tests
have decided, and "resolved" only when they passed. From it `NoLeak`, `CapHolds`, `EditsAreTested` and
`PassesAreReal`, for every number of rounds, set of polls and tolerance, and `CloudRefinement`: the run implements
`FixRounds!RoundsSafety` too, restarts included.

`FileStoreProofs` goes from `difflib` to the store, for every set of texts, number of clients
and number of versions; nothing is assumed about the matching, which is proved from its
definition:

- `get_matching_blocks` recurs on smaller windows only (`MatchedIsRecursive`), so what it returns
  can be reasoned about by the size of the window: matched lines are equal, and of two matched
  pairs one precedes the other on both sides (`MatchedIsValid`). Hence the edits lie in the base
  and no two of them meet (`EditsDoNotMeet`), none of them is there if nothing was changed
  (`NoChangeNoEdits`), and splicing them into the base gives the other text (`Replay`: after the
  splices from a matched pair on, the list is the base before it and the new text behind it).
- Where `_touched_ranges` do not overlap, the edits of both sides do not meet either
  (`NoConflictNoMeeting`). An edit that is spliced from the back finds everything before the edits
  already made as it was in the base (`Untouched`), so it changes the number of occurrences of a line
  as much as it does alone (`SharedEdit`); `Accounting` adds that up from the back, and with
  `Replay` the merge accounts for every line that is not blank (`MergeLosesNothing`). That it is the union of the edits
  (`MergeIsTheUnion`) needs to know how far each intermediate list reaches, also in the middle of an
  edit (`Reaches`, `SpliceIsMergedLines`).
- The store's invariant is that the newest version in the history is the content, that nobody holds a
  version newer than it, and that counts agree with what the accepted commits say (`StoreInv`).
  `NoLostEdit` is not inductive without the first two: a commit against the current version takes its
  base from the history, and a stale one is merged with it. From it `StoreLosesNothing`,
  `StoreTypeCorrect`, and as action properties `HistoryIsFaithful` and `RefusalIsJustified`; the latter
  is where `NoChangeNoEdits` is needed.

`PlannerProofs` proves `WaitsAreBounded` and `GivesUpOnlyThen` from what each phase of `complete()` has
counted so far (the attempts are the replies, or one more), for every limit, number of retries and
retry-after; and `PlansAreRunnable`, `PlansAreVerbatim` for every set of answers: while items are added
the graph is the prefix of the answer that was read, `validate` accepts it only if it is closed and
acyclic, every task added has passed the test of its role, and what replaces it is the standard
workflow, whose seven tasks are ranked and staffed.

`AuthProofs`: `FreshKeys`: the stamp is never newer than the client it belongs to, because a thread stores
the client of this moment first and the time it had read before that afterwards, and a client gives way
only to a newer one (`StampIsOlder`); a thread that finds the stamp fresh, or has just built a
client, may therefore return whatever client there is then. `LimiterBehindAuth` is a refinement: the
steps of authentication are stutters of the limiter. So `WindowIsRespected` and `RefusalsAreOwn` are
proved of the limiter and hold behind the token check. Their invariant says that what was purged from
the history of a user whose requests came in order is a whole window older than a request of that
user that has been answered (`PrunedIsOld`); so the history holds all that a new request must count.

`WebAppProofs`: `ShownRunsPassed` and `BadgeFollowsRun`: an entry only gains information (`EntriesGrow`),
so a response that was true when it was serialised is true when it is rendered, however late, and so
is what it left on the page (`TrueOf`, `GoodText`); the run announced last has the timer unless its
end was shown or the timer was lost (`ToldInv`). `LastDownloadIsWhole` and `TornIsOverlap`, for every
number of requests and parts: for a request that nobody has disturbed, and for the one that opened
`result.zip` last, the name stands for the file that request has open, and each part it has written is
complete, or in the hands of another writer of the file, who will complete it (`Safe`, with `Due`); an
undisturbed request is the only writer of its file (`Sole`), so that what it sends is whole.

The assumptions are those on constants, named in the modules (`NamesAssumption`,
`SchedulerAssumption`, `CycleCheckAssumption`, `RepoAssumption`, `CloudAssumption`, `PageAssumption`,
`LimitAssumption`, `AuthAssumption`, `WebAssumption`, `DownloadAssumption`, `ClientAssumption`,
`PlannerAssumption`, `AnswersAssumption`, `CasesAssumption`, `DraftsAssumption`, `BoundAssumption`,
`NoneAssumption`): numbers are naturals, sets whose elements are counted are finite, texts are those of strings, and a name for
"nothing" is none of the values it stands beside. TLC evaluates them in the runs.

Induction: the library's induction theorems take a predicate as a parameter, which the
provers here cannot instantiate. What needs induction goes through three lemmas that speak of sets
instead (`LeastElement`, `Downward`, `Upward` in `FileStoreProofs`): the set of positions, or sizes of
windows, at which the claim holds.

Only model-checked: everything about liveness (`Termination`, `GraphWorkEnds`, `PageLearns`,
`OutcomeIsShown`, the fair halves of `ImplementsTaskFlow` and `ImplementsFixRounds`), because fairness is
out of the provers' reach. Every invariant and every action property that a passing run checks is
stated by a theorem. That `difflib` chooses the longest match is used nowhere: the theorems about the merge
would hold of any matching in order, and how good its edits are is not a question of this project.

## Not modelled

- The regular expressions of `extract_file_blocks`, the prompts, the Anthropic and mock backends:
  text. An agent's answer is what its blocks do to the store.
- `memory.py` beyond the decisions: what is cut from a prompt changes what an agent is told and no
  state of the program.
- `evals.py` runs one case after the other in one thread and adds up numbers.
- What a test command leaves running when its timeout kills the shell (`repo.py` 118): those processes are
  outside the code.
- A callback that would take `webapp_cloud._lock` and the scheduler's lock in the other order: there is
  none; progress takes the web application's lock within the scheduler's, and nothing the reverse.
- Demos, scripts, the keep-alive workflow, sign-in and form checks of the cloud page carry no state
  of their own. E2B, Supabase, `requests`, `difflib` and `shutil` are external and appear by what the
  code sees of them.

## The plan

Done: the core (`TaskGraph`, `Scheduler`, `TaskFlow` and their proofs), the search and the cascade with
theirs, the merge and the store, the planner, the repo run and the cloud run as implementations of
one abstract run, with proofs, the cloud page with restarts and lost polls, the client, the limiter
behind the token check, the download, the dashboard with its two tabs; theorems for every safety
property that a passing run checks.

Next, in this order:

1. An abstract store (a bag of lines and a log of commits) that `FileStore` implements, so that the
   repo run's file versions could be shown to be those of the store.
2. An abstract rate limiter (a log of accepted times) that `RateLimit` implements for requests in order.
3. `Memory`: the cut of the blackboard to five entries and the private notes, read without the lock while the
   scheduler posts.
4. Two cloud runs of one page, and the form's user as the owner of an entry.
