-------------------------------- MODULE WebRun --------------------------------
(***************************************************************************)
(* Runs of webapp.py as its dashboard (static/index.html) sees them: the   *)
(* executor threads that write the RUNS entries, status requests that      *)
(* fetch an entry under the lock and serialise it without, and the page    *)
(* with its two tabs, one start button each, and one poller for both,      *)
(* which renders responses in the order in which they come back.           *)
(*                                                                         *)
(* Abstracted: what a run does (Scheduler, RepoRun), the log and the task  *)
(* list.  Serialising an entry is one step: jsonify sorts the dict's       *)
(* items, which copies them at one instant (external).  Requests to the    *)
(* local server are answered.                                              *)
(***************************************************************************)
EXTENDS Integers

CONSTANTS Polls,       \* status requests that may be under way at once
          MaxRuns,     \* bound: how often a start button is clicked
          MaxRounds    \* max_fix_rounds + 1

ASSUME WebAssumption == MaxRuns \in Nat \ {0} /\ MaxRounds \in Nat \ {0}

Runs == 1..MaxRuns     \* in the order of the clicks
NoRun == 0
Tabs == {"issue", "repo"}

VARIABLES tab,        \* the tab each run is started from
          request,    \* where its start request is
          executor,   \* where its _execute_..._run is
          entry,      \* the fields of RUNS[run_id]
          button,     \* whether a tab's start button is enabled
          poller,     \* the run the page's timer asks for
          poll,       \* where each status request is, and for which run
          answer,     \* what it carries back
          page,       \* what the page shows
          latest,     \* not in the code: the run the page announced last
          spurned,    \* not in the code: whether a start was refused since then
          told,       \* not in the code: runs whose end the page has rendered
          dropped     \* not in the code: runs whose timer was cleared or replaced
                      \* on account of another run

serverVars == <<executor, entry>>
pageVars == <<tab, button, poller, page, latest, spurned, told, dropped>>
vars == <<request, serverVars, poll, answer, pageVars>>

\* resolved and files_after are unset until a repo run finishes.
Entries == [status : {"none", "running", "finished", "error"}, round : 0..MaxRounds,
            resolved : {"unset", "yes", "no"}, files : BOOLEAN]

NoEntry == [status |-> "none", round |-> 0, resolved |-> "unset", files |-> FALSE]
Idle == [at |-> "idle", run |-> NoRun]
Fresh == [NoEntry EXCEPT !.status = "running"]

\* The text of the round banner or of the verdict, and the run it is about.
Texts == {"none", "working", "passed", "failing"} \X (Runs \union {NoRun})
NoText == <<"none", NoRun>>

TypeOK ==
  /\ tab \in [Runs -> Tabs]
  /\ request \in [Runs -> {"none", "posted", "created", "started", "refused"}]
  /\ executor \in [Runs -> {"none", "working", "status", "resolved", "files", "done"}]
  /\ entry \in [Runs -> Entries]
  /\ button \in [Tabs -> BOOLEAN]
  /\ poller \in Runs \union {NoRun}
  /\ poll \in [Polls -> [at : {"idle", "sent", "holding", "answered"},
                       run : Runs \union {NoRun}]]
  /\ answer \in [Polls -> Entries]
  /\ page \in [badge : {"idle", "running", "finished"}, banner : Texts, verdict : Texts,
               diff : Runs \union {NoRun}]
  /\ latest \in Runs \union {NoRun}
  /\ spurned \in BOOLEAN
  /\ told \subseteq Runs
  /\ dropped \subseteq Runs

Init ==
  /\ tab = [r \in Runs |-> "issue"]
  /\ request = [r \in Runs |-> "none"]
  /\ executor = [r \in Runs |-> "none"]
  /\ entry = [r \in Runs |-> NoEntry]
  /\ button = [k \in Tabs |-> TRUE]
  /\ poller = NoRun
  /\ poll = [p \in Polls |-> Idle]
  /\ answer = [p \in Polls |-> NoEntry]
  /\ page = [badge |-> "idle", banner |-> NoText, verdict |-> NoText, diff |-> NoRun]
  /\ latest = NoRun
  /\ spurned = FALSE
  /\ told = {}
  /\ dropped = {}

------------------------------------------------------------------------------
(* Starting a run. *)

\* resetBoard.
Blank(p) == [p EXCEPT !.banner = NoText, !.verdict = NoText, !.diff = NoRun]

\* The user changes the tab.
SwitchTab ==
  /\ page' = Blank(page)
  /\ UNCHANGED <<request, serverVars, poll, answer, tab, button, poller, latest, spurned, told,
                 dropped>>

\* A start button is clicked with a complete form.
Click(r, k) ==
  /\ request[r] = "none"
  /\ \A q \in Runs : q < r => request[q] # "none"
  /\ button[k]
  /\ button' = [button EXCEPT ![k] = FALSE]
  /\ tab' = [tab EXCEPT ![r] = k]
  /\ request' = [request EXCEPT ![r] = "posted"]
  /\ page' = Blank(page)
  /\ UNCHANGED <<serverVars, poll, answer, poller, latest, spurned, told, dropped>>

\* The statements of a locked block that other threads may see apart are steps
\* of their own; _lock is held from the first of them to the last.
LockFree == \A r \in Runs : executor[r] \notin {"resolved", "files"}

\* The server registers the run and starts its thread.
Register(r) ==
  /\ request[r] = "posted"
  /\ LockFree
  /\ request' = [request EXCEPT ![r] = "created"]
  /\ entry' = [entry EXCEPT ![r] = Fresh]
  /\ executor' = [executor EXCEPT ![r] = "working"]
  /\ UNCHANGED <<poll, answer, pageVars>>

\* An unknown provider, a missing key or a bad zip: an error, and fail(), which
\* sets the badge to idle although the timer may still ask for an earlier run.
Refuse(r) ==
  /\ request[r] = "posted"
  /\ request' = [request EXCEPT ![r] = "refused"]
  /\ button' = [button EXCEPT ![tab[r]] = TRUE]
  /\ page' = [page EXCEPT !.badge = "idle"]
  /\ spurned' = TRUE
  /\ UNCHANGED <<serverVars, poll, answer, tab, poller, latest, told, dropped>>

\* The page gets the run_id; the timer is set anew, whatever run it asked for.
Started(r) ==
  /\ request[r] = "created"
  /\ request' = [request EXCEPT ![r] = "started"]
  /\ poller' = r
  /\ page' = [page EXCEPT !.badge = "running"]
  /\ latest' = r
  /\ spurned' = FALSE
  /\ dropped' = dropped \union ({poller} \ {NoRun})
  /\ UNCHANGED <<serverVars, poll, answer, tab, button, told>>

------------------------------------------------------------------------------
(* The executor of run r. *)

Write(r, e) == /\ entry' = [entry EXCEPT ![r] = e]
               /\ UNCHANGED <<request, poll, answer, pageVars>>

At(r, here) == executor[r] = here
Goto(r, there) == executor' = [executor EXCEPT ![r] = there]

\* The first on_progress of a round; the others write the same number.
Progress(r) ==
  /\ At(r, "working") /\ LockFree
  /\ tab[r] = "repo"
  /\ entry[r].round < MaxRounds
  /\ Write(r, [entry[r] EXCEPT !.round = @ + 1])
  /\ UNCHANGED executor

\* The scheduler is done, or solve_repo_issue is, after a round at least.
Return(r) ==
  /\ At(r, "working")
  /\ tab[r] = "repo" => entry[r].round > 0
  /\ Goto(r, "status")
  /\ UNCHANGED <<request, entry, poll, answer, pageVars>>

\* The first assignment of the last locked block.  What an issue run assigns
\* after it is its tasks and its log.
SetStatus(r) ==
  /\ At(r, "status") /\ LockFree
  /\ Goto(r, IF tab[r] = "repo" THEN "resolved" ELSE "done")
  /\ Write(r, [entry[r] EXCEPT !.status = "finished"])

SetResolved(r) ==
  /\ At(r, "resolved")
  /\ Goto(r, "files")
  /\ \E resolved \in {"yes", "no"} : Write(r, [entry[r] EXCEPT !.resolved = resolved])

SetFiles(r) ==
  /\ At(r, "files")
  /\ Goto(r, "done")
  /\ Write(r, [entry[r] EXCEPT !.files = TRUE])

\* Anything the thread does raises: _fail.
Fail(r) ==
  /\ At(r, "working") /\ LockFree
  /\ Goto(r, "done")
  /\ Write(r, [entry[r] EXCEPT !.status = "error"])

------------------------------------------------------------------------------
(* A status request, from the page's timer to its response. *)

Move(p, at) == poll' = [poll EXCEPT ![p].at = at]

SendPoll(p) ==
  /\ poller # NoRun
  /\ poll[p].at = "idle"
  /\ poll' = [poll EXCEPT ![p] = [at |-> "sent", run |-> poller]]
  /\ UNCHANGED <<request, serverVars, answer, pageVars>>

\* with _lock: state = RUNS.get(run_id), a reference to the live dict.
Fetch(p) ==
  /\ poll[p].at = "sent"
  /\ LockFree
  /\ Move(p, "holding")
  /\ UNCHANGED <<request, serverVars, answer, pageVars>>

\* jsonify(state), after the lock is gone.
Serialize(p) ==
  /\ poll[p].at = "holding"
  /\ answer' = [answer EXCEPT ![p] = entry[poll[p].run]]
  /\ Move(p, "answered")
  /\ UNCHANGED <<request, serverVars, pageVars>>

\* Bug: a finished run is a successful one.
VerdictFinished(data) == IF data.status = "finished" THEN "passed" ELSE "failing"

\* data.resolved ? ... : ...: null is as false as false.
Verdict(data) == IF data.resolved = "yes" THEN "passed" ELSE "failing"

\* The banner, redrawn by every response about a repo run in a round.
Banner(r, data) ==
  IF tab[r] = "issue" \/ data.round = 0 THEN page.banner
  ELSE <<IF data.status = "finished" THEN Verdict(data) ELSE "working", r>>

\* What a response about r leaves on the page: the verdict (its headline: the
\* classes pass and fail are added and not taken away before the next reset) and
\* the diff come with the end of a repo run; an error is a message and an idle
\* badge.
Shown(r, data) ==
  CASE data.status = "error" -> [page EXCEPT !.badge = "idle"]
    [] data.status = "running" -> [page EXCEPT !.banner = Banner(r, data)]
    [] data.status = "finished" /\ tab[r] = "issue" -> [page EXCEPT !.badge = "finished"]
    [] data.status = "finished" /\ tab[r] = "repo" ->
         [badge |-> "finished", banner |-> Banner(r, data), verdict |-> <<Verdict(data), r>>,
          diff |-> IF data.files THEN r ELSE NoRun]

\* A response that says that its run is over clears the timer, whatever run
\* the timer asks for, and enables the button of its tab.
Conclude(r) ==
  /\ poller' = NoRun
  /\ button' = [button EXCEPT ![tab[r]] = TRUE]
  /\ told' = told \union {r}
  /\ dropped' = dropped \union ({poller} \ {r, NoRun})

Arrive(p) ==
  /\ poll[p].at = "answered"
  /\ poll' = [poll EXCEPT ![p] = Idle]
  /\ answer' = [answer EXCEPT ![p] = NoEntry]
  /\ UNCHANGED <<request, serverVars, tab, latest, spurned>>

\* Bug: the badge follows every response.
RenderBadge(p) ==
  LET r == poll[p].run
      data == answer[p]
  IN /\ Arrive(p)
     /\ page' = [Shown(r, data) EXCEPT !.badge = IF data.status = "error" THEN "idle"
                                                 ELSE data.status]
     /\ IF data.status = "running" THEN UNCHANGED <<poller, button, told, dropped>>
        ELSE Conclude(r)

\* Bug: the timer is cleared by the first response.
RenderOnce(p) ==
  LET r == poll[p].run
      data == answer[p]
  IN /\ Arrive(p)
     /\ page' = Shown(r, data)
     /\ IF data.status = "running" THEN poller' = NoRun /\ UNCHANGED <<button, told, dropped>>
        ELSE Conclude(r)

\* pollStatus with its response; responses that are still on their way when the
\* timer is cleared are rendered when they arrive.
Render(p) ==
  LET r == poll[p].run
      data == answer[p]
  IN /\ Arrive(p)
     /\ page' = Shown(r, data)
     /\ IF data.status = "running" THEN UNCHANGED <<poller, button, told, dropped>>
        ELSE Conclude(r)

------------------------------------------------------------------------------
User == SwitchTab \/ \E r \in Runs, k \in Tabs : Click(r, k)

Start(r) == Register(r) \/ Refuse(r) \/ Started(r)

Execute(r) ==
  Progress(r) \/ Return(r) \/ SetStatus(r) \/ SetResolved(r) \/ SetFiles(r) \/ Fail(r)

Request(p) == SendPoll(p) \/ Fetch(p) \/ Serialize(p) \/ Render(p)

Next == User \/ (\E r \in Runs : Start(r) \/ Execute(r)) \/ \E p \in Polls : Request(p)

\* Runs end (Scheduler, RepoRun), the timer fires while it is set, requests are
\* answered; the user need not do anything.
Spec == /\ Init /\ [][Next]_vars
        /\ \A r \in Runs : WF_vars(Start(r)) /\ WF_vars(Execute(r))
        /\ \A p \in Polls : WF_vars(Request(p))

------------------------------------------------------------------------------
(* Properties. *)

\* A run shown as passed has passed, whatever was read half-written or about
\* another run; a diff is drawn from final files, of the run the verdict is of.
PassIsTrue ==
  /\ \A text \in {page.banner, page.verdict} :
       text[1] = "passed" => entry[text[2]].resolved = "yes"
  /\ page.diff # NoRun => entry[page.diff].files /\ page.diff = page.verdict[2]

\* The badge is about the run that was announced last: it says "running" until
\* the page learns that this run is over and never again afterwards, with two
\* exceptions: a late response about another run has cleared the timer of this
\* one, or a later start was refused, which sets the badge to idle while this
\* run is still asked for and leaves it so until its end is shown.
BadgeIsHonest ==
  latest # NoRun =>
    /\ page.badge = "running" => latest \notin told /\ ~ spurned
    /\ page.badge # "running" => latest \in told \union dropped \/ spurned
    /\ latest \in told => entry[latest].status \in {"finished", "error"}

\* The page learns how every run ended, except in the two ways in which one
\* poller for all runs loses one: another run was announced meanwhile, or a
\* late response about another run cleared the timer.
OutcomeIsShown ==
  \A r \in Runs : request[r] = "started" ~> r \in told \union dropped
==============================================================================
