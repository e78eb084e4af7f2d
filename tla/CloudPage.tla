------------------------------- MODULE CloudPage -------------------------------
(***************************************************************************)
(* The browser's side of a cloud run (startRun, pollStatus and fail of     *)
(* templates/cloud.html) and the status route it asks, over one run of     *)
(* CloudRun.  The page has sent its request; the answer may be lost.  Then *)
(* a timer polls; polls overlap, are lost, or are refused by the token     *)
(* check, and the route copies an entry that the executor is writing.      *)
(*                                                                         *)
(* Abstracted: what is rendered besides the verdict and the message, and   *)
(* polls beyond the ones in Polls.                                         *)
(***************************************************************************)
EXTENDS CloudRun

CONSTANTS Polls,       \* bound: the polls that are under way at once
          Tolerance    \* the polls that may fail in a row: 5 in pollStatus

ASSUME PageAssumption == Tolerance \in Nat

VARIABLES answered,    \* the page has dealt with the answer to its request
          timer,       \* poller is set
          shown,       \* the verdict on the page: "none", "passed", "failing"
          message,     \* an error message is shown
          failures,    \* pollFailCount, up to the number that matters
          poll         \* each poll: its stage and what was copied for it

pageVars == <<answered, timer, shown, message, failures, poll>>
allVars == <<vars, pageVars>>

NoPoll == [stage |-> "idle", status |-> "none", resolved |-> FALSE]

PageTypeOK ==
  /\ TypeOK
  /\ answered \in BOOLEAN /\ timer \in BOOLEAN /\ message \in BOOLEAN
  /\ shown \in {"none", "passed", "failing"}
  /\ failures \in 0..(Tolerance + 1)
  /\ poll \in [Polls -> [stage : {"idle", "sent", "copying", "replied"},
                         status : {"none", "refused", "running", "finished", "error"},
                         resolved : BOOLEAN]]

\* startRun does not reset the count that polls for an earlier run have left.
PageInit ==
  /\ Init
  /\ answered = FALSE
  /\ timer = FALSE
  /\ shown = "none"
  /\ message = FALSE
  /\ failures \in 0..(Tolerance + 1)
  /\ poll = [p \in Polls |-> NoPoll]

------------------------------------------------------------------------------
\* startRun gets a run id and sets the timer, or it gets an error, or its
\* connection breaks, wherever the server is by then.
Answer ==
  /\ ~ answered
  /\ answered' = TRUE
  /\ \/ request = "accepted" /\ timer' = TRUE /\ UNCHANGED message
     \/ message' = TRUE /\ UNCHANGED timer
  /\ UNCHANGED <<vars, shown, failures, poll>>

SendPoll(p) ==
  /\ timer
  /\ poll[p].stage = "idle"
  /\ poll' = [poll EXCEPT ![p].stage = "sent"]
  /\ UNCHANGED <<vars, answered, timer, shown, message, failures>>

\* The token check or the look-up refuses (401, 500, 404 after a restart), or
\* RUNS.get finds the entry, and the copy begins: its first field is the status.
LookUp(p) ==
  /\ poll[p].stage = "sent"
  /\ \/ poll' = [poll EXCEPT ![p].stage = "replied", ![p].status = "refused"]
     \/ /\ entry # "absent"
        /\ poll' = [poll EXCEPT ![p].stage = "copying", ![p].status = entry]
  /\ UNCHANGED <<vars, answered, timer, shown, message, failures>>

\* The copy goes on, without the lock: the executor may have written any number
\* of fields since, and what is sent need not be what the entry ever was.
CopyVerdict(p) ==
  /\ poll[p].stage = "copying"
  /\ entry # "absent"
  /\ poll' = [poll EXCEPT ![p].stage = "replied", ![p].resolved = verdict.resolved]
  /\ UNCHANGED <<vars, answered, timer, shown, message, failures>>

\* Bug: a finished run is taken for a resolved one.
VerdictFinished(reply) == "passed"

Verdict(reply) == IF reply.resolved THEN "passed" ELSE "failing"

\* pollStatus with a response: data.error, "finished", "running", "error".
Arrive(p) ==
  /\ poll[p].stage = "replied"
  /\ failures' = 0
  /\ shown' = IF poll[p].status = "finished" THEN Verdict(poll[p]) ELSE shown
  /\ message' = (message \/ poll[p].status \in {"refused", "error"})
  /\ timer' = (timer /\ poll[p].status = "running")
  /\ poll' = [poll EXCEPT ![p] = NoPoll]
  /\ UNCHANGED <<vars, answered>>

\* pollStatus without one: the connection broke, or what came is not JSON.
LosePoll(p) ==
  /\ poll[p].stage \in {"sent", "copying", "replied"}
  /\ IF failures >= Tolerance
     THEN timer' = FALSE /\ message' = TRUE /\ failures' = Tolerance + 1
     ELSE failures' = failures + 1 /\ UNCHANGED <<timer, message>>
  /\ poll' = [poll EXCEPT ![p] = NoPoll]
  /\ UNCHANGED <<vars, answered, shown>>

PollStep(p) ==
  SendPoll(p) \/ LookUp(p) \/ CopyVerdict(p) \/ Arrive(p) \/ LosePoll(p)

PageStep == Answer \/ \E p \in Polls : PollStep(p)

Over ==
  /\ answered
  /\ ~ timer
  /\ \A p \in Polls : poll[p].stage = "idle"
  /\ request \in {"refused", "error500", "dropped"} \/ executor \in {"done", "killed"}

Terminating == Over /\ UNCHANGED allVars

PageNext == (RunStep /\ UNCHANGED pageVars) \/ PageStep \/ Terminating

\* Every request of a browser is answered or fails; the timer goes on.
PageFairness ==
  /\ RunFairness
  /\ WF_allVars(Answer)
  /\ \A p \in Polls : WF_allVars(PollStep(p))

PageSpec == PageInit /\ [][PageNext]_allVars /\ PageFairness

------------------------------------------------------------------------------
(* Properties. *)

\* A verdict is never shown before the tests have decided, and "passed" only if
\* the last tests passed, whichever moments a reply was copied at and whichever
\* reply comes last.  ("failing" may be wrong: a copy whose result was read
\* between the two halves of _finish has the status of a finished run without it.)
ShownPassIsReal ==
  shown # "none" =>
    /\ exits # <<>>
    /\ exits[Len(exits)] \/ Len(exits) = limit
    /\ shown = "passed" => exits[Len(exits)]

\* "guarantees every /api/* response is parseable JSON, so the frontend's
\* existing error-display path always fires instead of hanging silently"
\* (webapp_cloud.py): whatever fails, restarts or is lost, the user of the page
\* ends up with a verdict or a message.
PageLearns == <>(shown # "none" \/ message)
===============================================================================
