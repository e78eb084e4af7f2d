----------------------------- MODULE WebAppProofs -----------------------------
(***************************************************************************)
(* The local web application, for every number of runs, polls, rounds,     *)
(* requests and parts.                                                     *)
(*                                                                         *)
(* What the dashboard shows is true: an entry only gains information and   *)
(* takes back nothing it said of an outcome.  A response therefore stays   *)
(* true however late it is rendered, and so does what it left on the page. *)
(*                                                                         *)
(* Downloads that share one result.zip: as long as nobody is between its   *)
(* unlink and its own archive, the name stands for the file of the request *)
(* that opened it last, which nobody has emptied since: what that request  *)
(* has written is there, or a slower writer is about to put it back.  A    *)
(* request that nobody has disturbed is in that position, too, and is the  *)
(* only one to write that file.                                            *)
(***************************************************************************)
EXTENDS WebRun, Download, FiniteSetTheorems, TLAPS

------------------------------------------------------------------------------
(* The runs and the dashboard. *)

Ended == {"finished", "error"}

\* Where the executor of r is tells what it has written, and r's start request
\* whether there is an executor.
Written(r) ==
  /\ executor[r] = "none" <=> request[r] \in {"none", "posted", "refused"}
  /\ executor[r] = "none" => entry[r] = NoEntry
  /\ executor[r] \in {"working", "status"} => entry[r].status = "running"
  /\ executor[r] \in {"resolved", "files"} => entry[r].status = "finished"
  /\ executor[r] = "done" => entry[r].status \in Ended
  /\ executor[r] \notin {"files", "done"} => entry[r].resolved = "unset"
  /\ executor[r] # "done" => ~ entry[r].files

\* The timer and the status requests are about runs the page was told of.
PollInv ==
  /\ poller # NoRun => request[poller] = "started"
  /\ \A p \in Polls : poll[p].at # "idle" =>
       poll[p].run \in Runs /\ request[poll[p].run] = "started"

\* What a response says of run r is true, now and later.
TrueOf(data, r) ==
  /\ data.status # "none"
  /\ data.status \in Ended => entry[r].status = data.status
  /\ data.resolved = "yes" => entry[r].resolved = "yes"
  /\ data.files => entry[r].files

AnswerInv == \A p \in Polls : poll[p].at = "answered" => TrueOf(answer[p], poll[p].run)

\* Texts are about a run, and what they say of it is true.
PageInv ==
  /\ \A text \in {page.banner, page.verdict} : text[1] # "none" => text[2] \in Runs
  /\ PassIsTrue

\* The page was told of the ends of started runs only, and the run announced last
\* has the timer unless its end was shown or its timer was lost.
ToldInv ==
  /\ \A r \in told : request[r] = "started" /\ entry[r].status \in Ended
  /\ latest # NoRun => latest \in told \union dropped \union {poller}
  /\ BadgeIsHonest

WebInv ==
  /\ TypeOK
  /\ \A r \in Runs : Written(r)
  /\ PollInv /\ AnswerInv /\ PageInv /\ ToldInv

LEMMA WebInvInit == Init => WebInv
<1> SUFFICES ASSUME Init PROVE WebInv
  OBVIOUS
<1>1. TypeOK
  <2>1. entry \in [Runs -> Entries] /\ answer \in [Polls -> Entries]
    <3>1. 0 \in 0..MaxRounds
      BY WebAssumption
    <3>2. NoEntry \in Entries
      BY <3>1 DEF NoEntry, Entries
    <3> QED
      BY <3>2 DEF Init
  <2>2. page \in [badge : {"idle", "running", "finished"}, banner : Texts, verdict : Texts,
                  diff : Runs \union {NoRun}]
    <3>1. NoText \in Texts
      BY DEF NoText, Texts
    <3> QED
      BY <3>1 DEF Init
  <2>3. poll \in [Polls -> [at : {"idle", "sent", "holding", "answered"},
                           run : Runs \union {NoRun}]]
    BY DEF Init, Idle
  <2> QED
    BY <2>1, <2>2, <2>3 DEF Init, TypeOK, Tabs
<1>2. \A r \in Runs : Written(r)
  BY DEF Init, Written, NoEntry
<1>3. PollInv /\ AnswerInv
  BY DEF Init, PollInv, AnswerInv, Idle
<1>4. PageInv /\ ToldInv
  BY DEF Init, PageInv, PassIsTrue, ToldInv, BadgeIsHonest, NoText
<1> QED
  BY <1>1, <1>2, <1>3, <1>4 DEF WebInv

------------------------------------------------------------------------------
(* Steps that do not render. *)

UserStep == SwitchTab \/ \E r \in Runs, k \in Tabs : Click(r, k)
StartStep == \E r \in Runs : Start(r)
ExecuteStep == \E r \in Runs : Execute(r)
PollStep == \E p \in Polls : SendPoll(p) \/ Fetch(p) \/ Serialize(p)
RenderStep == \E p \in Polls : Render(p)

LEMMA WebSteps ==
  Next => UserStep \/ StartStep \/ ExecuteStep \/ PollStep \/ RenderStep
  BY DEF Next, User, Request, UserStep, StartStep, ExecuteStep, PollStep, RenderStep

\* An entry only gains information.
Kept(r) ==
  /\ request[r] = "started" => request'[r] = "started"
  /\ entry[r].status \in Ended => entry'[r].status = entry[r].status
  /\ entry[r].resolved = "yes" => entry'[r].resolved = "yes"
  /\ entry[r].files => entry'[r].files

LEMMA StartKeeps ==
  ASSUME WebInv, StartStep
  PROVE  \A q \in Runs : Written(q)' /\ Kept(q)
<1> USE DEF WebInv, TypeOK, Written, Kept, Ended
<1>1. PICK r \in Runs : Start(r)
  BY DEF StartStep
<1>2. CASE Register(r)
  BY <1>2 DEF Register, NoEntry, Fresh, pageVars, Entries
<1>3. CASE Refuse(r)
  BY <1>3 DEF Refuse, serverVars
<1>4. CASE Started(r)
  BY <1>4 DEF Started, serverVars
<1> QED
  BY <1>1, <1>2, <1>3, <1>4 DEF Start

LEMMA ExecuteKeeps ==
  ASSUME WebInv, ExecuteStep
  PROVE  \A q \in Runs : Written(q)' /\ Kept(q)
<1> USE DEF WebInv, TypeOK, Written, Kept, Ended, Entries
<1>1. PICK r \in Runs : Execute(r)
  BY DEF ExecuteStep
<1>2. CASE Progress(r)
  <2>1. /\ executor[r] = "working" /\ executor' = executor /\ request' = request
        /\ \A q \in Runs : q # r => entry'[q] = entry[q]
        /\ entry'[r] = [entry[r] EXCEPT !.round = @ + 1]
    BY <1>2 DEF Progress, Write, At
  <2>2. /\ entry'[r].status = entry[r].status /\ entry'[r].files = entry[r].files
        /\ entry'[r].resolved = entry[r].resolved
    BY <2>1
  <2> QED
    BY <2>1, <2>2
<1>3. CASE Return(r)
  BY <1>3 DEF Return, At, Goto, NoEntry, pageVars
<1>4. CASE SetStatus(r)
  BY <1>4 DEF SetStatus, Write, At, Goto, NoEntry, pageVars
<1>5. CASE SetResolved(r)
  BY <1>5 DEF SetResolved, Write, At, Goto, NoEntry, pageVars
<1>6. CASE SetFiles(r)
  BY <1>6 DEF SetFiles, Write, At, Goto, NoEntry, pageVars
<1>7. CASE Fail(r)
  BY <1>7 DEF Fail, Write, At, Goto, NoEntry, pageVars
<1> QED
  BY <1>1, <1>2, <1>3, <1>4, <1>5, <1>6, <1>7 DEF Execute

LEMMA UserKeeps ==
  ASSUME WebInv, UserStep
  PROVE  \A q \in Runs : Written(q)' /\ Kept(q)
<1> USE DEF WebInv, TypeOK, Written, Kept, Ended
<1>1. CASE SwitchTab
  BY <1>1 DEF SwitchTab, serverVars
<1>2. ASSUME NEW r \in Runs, NEW k \in Tabs, Click(r, k)
      PROVE  \A q \in Runs : Written(q)' /\ Kept(q)
  BY <1>2 DEF Click, serverVars
<1> QED
  BY <1>1, <1>2 DEF UserStep

\* Whatever step is taken.
LEMMA EntriesGrow ==
  ASSUME WebInv, [Next]_vars
  PROVE  \A q \in Runs : Written(q)' /\ Kept(q)
<1> USE DEF WebInv, Written, Kept
<1>1. CASE PollStep
  BY <1>1 DEF PollStep, SendPoll, Fetch, Serialize, serverVars
<1>2. CASE RenderStep
  BY <1>2 DEF RenderStep, Render, Arrive, serverVars
<1>3. CASE UNCHANGED vars
  BY <1>3 DEF vars, serverVars
<1> QED
  BY <1>1, <1>2, <1>3, StartKeeps, ExecuteKeeps, UserKeeps, WebSteps

------------------------------------------------------------------------------
(* Types. *)

LEMMA WriteKeepsType ==
  ASSUME TypeOK, NEW r \in Runs, NEW e \in Entries, Write(r, e),
         executor' \in [Runs -> {"none", "working", "status", "resolved", "files", "done"}]
  PROVE  TypeOK'
  BY DEF TypeOK, Write, pageVars

LEMMA ExecuteKeepsType ==
  ASSUME TypeOK, NEW r \in Runs, Execute(r)
  PROVE  TypeOK'
<1> USE DEF At, Goto
<1>0. entry[r] \in Entries /\ executor \in [Runs -> {"none", "working", "status", "resolved",
                                                       "files", "done"}]
  BY DEF TypeOK
<1>1. CASE Progress(r)
  <2>1. entry[r].round \in 0..MaxRounds /\ entry[r].round < MaxRounds
    BY <1>0, <1>1 DEF Progress, Entries
  <2>2. entry[r].round + 1 \in 0..MaxRounds
    BY <2>1, WebAssumption
  <2>3. [entry[r] EXCEPT !.round = @ + 1] \in Entries
    BY <1>0, <2>2 DEF Entries
  <2> QED
    BY <1>0, <1>1, <2>3, WriteKeepsType DEF Progress
<1>2. CASE Return(r)
  BY <1>2 DEF Return, TypeOK, pageVars
<1>3. CASE SetStatus(r)
  <2>1. [entry[r] EXCEPT !.status = "finished"] \in Entries
    BY <1>0 DEF Entries
  <2> QED
    BY <1>0, <1>3, <2>1, WriteKeepsType DEF SetStatus
<1>4. CASE SetResolved(r)
  <2>1. PICK resolved \in {"yes", "no"} :
          Write(r, [entry[r] EXCEPT !.resolved = resolved])
    BY <1>4 DEF SetResolved
  <2>2. [entry[r] EXCEPT !.resolved = resolved] \in Entries
    BY <1>0 DEF Entries
  <2> QED
    BY <1>0, <1>4, <2>1, <2>2, WriteKeepsType DEF SetResolved
<1>5. CASE SetFiles(r)
  <2>1. [entry[r] EXCEPT !.files = TRUE] \in Entries
    BY <1>0 DEF Entries
  <2> QED
    BY <1>0, <1>5, <2>1, WriteKeepsType DEF SetFiles
<1>6. CASE Fail(r)
  <2>1. [entry[r] EXCEPT !.status = "error"] \in Entries
    BY <1>0 DEF Entries
  <2> QED
    BY <1>0, <1>6, <2>1, WriteKeepsType DEF Fail
<1> QED
  BY <1>1, <1>2, <1>3, <1>4, <1>5, <1>6 DEF Execute

LEMMA BlankKeepsType ==
  ASSUME TypeOK
  PROVE  Blank(page) \in [badge : {"idle", "running", "finished"}, banner : Texts,
                          verdict : Texts, diff : Runs \union {NoRun}]
  BY DEF TypeOK, Blank, NoText, Texts

LEMMA UserKeepsType ==
  ASSUME TypeOK, UserStep
  PROVE  TypeOK'
<1>1. CASE SwitchTab
  BY <1>1, BlankKeepsType DEF SwitchTab, serverVars, TypeOK
<1>2. ASSUME NEW r \in Runs, NEW k \in Tabs, Click(r, k) PROVE TypeOK'
  BY <1>2, BlankKeepsType DEF Click, serverVars, TypeOK
<1> QED
  BY <1>1, <1>2 DEF UserStep

LEMMA NoEntryIsEntry == NoEntry \in Entries
<1>1. 0 \in 0..MaxRounds
  BY WebAssumption
<1> QED
  BY <1>1 DEF NoEntry, Entries

LEMMA StartKeepsType ==
  ASSUME TypeOK, NEW r \in Runs, Start(r)
  PROVE  TypeOK'
<1>1. CASE Register(r)
  <2>1. [NoEntry EXCEPT !.status = "running"] \in Entries
    BY NoEntryIsEntry DEF Entries
  <2>2. Fresh \in Entries
    BY <2>1 DEF Fresh
  <2> QED
    BY <1>1, <2>2 DEF Register, pageVars, TypeOK
<1>2. CASE Refuse(r)
  <2>1. NoRun \in Runs \union {NoRun}
    OBVIOUS
  <2> QED
    BY <1>2, <2>1 DEF Refuse, serverVars, TypeOK
<1>3. CASE Started(r)
  BY <1>3 DEF Started, serverVars, TypeOK
<1> QED
  BY <1>1, <1>2, <1>3 DEF Start

LEMMA PollKeepsType ==
  ASSUME TypeOK, NEW p \in Polls, SendPoll(p) \/ Fetch(p) \/ Serialize(p), PollInv
  PROVE  TypeOK'
<1>1. CASE SendPoll(p)
  BY <1>1 DEF SendPoll, serverVars, pageVars, TypeOK
<1>2. CASE Fetch(p)
  BY <1>2 DEF Fetch, Move, serverVars, pageVars, TypeOK
<1>3. CASE Serialize(p)
  <2>1. poll[p].run \in Runs
    BY <1>3 DEF Serialize, PollInv
  <2>2. entry[poll[p].run] \in Entries
    BY <2>1 DEF TypeOK
  <2>3. answer' \in [Polls -> Entries]
    BY <1>3, <2>2 DEF Serialize, TypeOK
  <2>4. poll' \in [Polls -> [at : {"idle", "sent", "holding", "answered"},
                           run : Runs \union {NoRun}]]
    BY <1>3 DEF Serialize, Move, TypeOK
  <2> QED
    BY <1>3, <2>3, <2>4 DEF Serialize, serverVars, pageVars, TypeOK
<1> QED
  BY <1>1, <1>2, <1>3

------------------------------------------------------------------------------
(* What a response leaves on the page. *)

\* Responses keep the page's texts about runs and the page of its type; a pass is
\* shown on a "yes", a diff together with its verdict, and the badge of a run that
\* is over is not "running".
LEMMA ShownFacts ==
  ASSUME TypeOK, NEW r \in Runs, NEW data \in Entries, data.status # "none",
         tab[r] \in Tabs
  PROVE  /\ Shown(r, data) \in [badge : {"idle", "running", "finished"}, banner : Texts,
                                verdict : Texts, diff : Runs \union {NoRun}]
         /\ Shown(r, data).banner \in {page.banner, <<"working", r>>, <<Verdict(data), r>>}
         /\ Shown(r, data).verdict \in {page.verdict, <<Verdict(data), r>>}
         /\ \/ Shown(r, data).diff = page.diff /\ Shown(r, data).verdict = page.verdict
            \/ Shown(r, data).diff = NoRun
            \/ /\ data.files /\ Shown(r, data).diff = r
               /\ Shown(r, data).verdict = <<Verdict(data), r>>
         /\ data.status = "running" => Shown(r, data).badge = page.badge
         /\ data.status # "running" => Shown(r, data).badge # "running"
<1> DEFINE Pages == [badge : {"idle", "running", "finished"}, banner : Texts,
                     verdict : Texts, diff : Runs \union {NoRun}]
<1>1. page \in Pages
  BY DEF TypeOK
<1>2. Verdict(data) \in {"passed", "failing"}
  BY DEF Verdict
<1>3. <<Verdict(data), r>> \in Texts /\ <<"working", r>> \in Texts
  BY <1>2 DEF Texts
<1>4. /\ Banner(r, data) \in {page.banner, <<"working", r>>, <<Verdict(data), r>>}
      /\ Banner(r, data) \in Texts
  BY <1>1, <1>3 DEF Banner
<1>5. CASE data.status = "error"
  <2>1. Shown(r, data) = [page EXCEPT !.badge = "idle"]
    BY <1>5 DEF Shown
  <2> QED
    BY <1>1, <1>5, <2>1
<1>6. CASE data.status = "running"
  <2>1. Shown(r, data) = [page EXCEPT !.banner = Banner(r, data)]
    BY <1>6 DEF Shown
  <2> QED
    BY <1>1, <1>4, <1>6, <2>1
<1>7. CASE data.status = "finished" /\ tab[r] = "issue"
  <2>1. Shown(r, data) = [page EXCEPT !.badge = "finished"]
    BY <1>7 DEF Shown
  <2> QED
    BY <1>1, <1>7, <2>1
<1>8. CASE data.status = "finished" /\ tab[r] = "repo"
  <2>1. Shown(r, data) = [badge |-> "finished", banner |-> Banner(r, data),
                          verdict |-> <<Verdict(data), r>>,
                          diff |-> IF data.files THEN r ELSE NoRun]
    BY <1>8 DEF Shown
  <2> QED
    BY <1>3, <1>4, <1>8, <2>1
<1> QED
  BY <1>5, <1>6, <1>7, <1>8 DEF Entries, Tabs

\* What is true of a response that is about to be rendered.
LEMMA RenderFacts ==
  ASSUME WebInv, NEW p \in Polls, Render(p)
  PROVE  /\ poll[p].run \in Runs /\ request[poll[p].run] = "started"
         /\ tab[poll[p].run] \in Tabs
         /\ answer[p] \in Entries
         /\ TrueOf(answer[p], poll[p].run)
         /\ page' = Shown(poll[p].run, answer[p])
         /\ UNCHANGED <<request, executor, entry, tab, latest, spurned>>
         /\ poll' = [poll EXCEPT ![p] = Idle]
         /\ answer' = [answer EXCEPT ![p] = NoEntry]
         /\ \/ /\ answer[p].status = "running"
               /\ UNCHANGED <<poller, button, told, dropped>>
            \/ /\ answer[p].status \in Ended
               /\ Conclude(poll[p].run)
<1>1. poll[p].at = "answered"
  BY DEF Render, Arrive
<1>2. poll[p].run \in Runs /\ request[poll[p].run] = "started"
  BY <1>1 DEF WebInv, PollInv
<1>3. tab[poll[p].run] \in Tabs /\ answer[p] \in Entries
  BY <1>2 DEF WebInv, TypeOK
<1>4. TrueOf(answer[p], poll[p].run)
  BY <1>1 DEF WebInv, AnswerInv
<1>5. answer[p].status \in {"running", "finished", "error"}
  BY <1>3, <1>4 DEF TrueOf, Entries
<1> QED
  BY <1>2, <1>3, <1>4, <1>5 DEF Render, Arrive, serverVars, Ended

LEMMA RenderKeepsType ==
  ASSUME WebInv, NEW p \in Polls, Render(p)
  PROVE  TypeOK'
<1>0. TypeOK
  BY DEF WebInv
<1>1. page' \in [badge : {"idle", "running", "finished"}, banner : Texts,
                 verdict : Texts, diff : Runs \union {NoRun}]
  BY <1>0, RenderFacts, ShownFacts DEF TrueOf
<1>2. NoEntry \in Entries
  BY NoEntryIsEntry
<1>3. /\ poller' \in Runs \union {NoRun} /\ button' \in [Tabs -> BOOLEAN]
      /\ told' \subseteq Runs /\ dropped' \subseteq Runs
  <2>1. CASE UNCHANGED <<poller, button, told, dropped>>
    BY <1>0, <2>1 DEF TypeOK
  <2>2. CASE Conclude(poll[p].run)
    <3>1. button' = [button EXCEPT ![tab[poll[p].run]] = TRUE]
      BY <2>2 DEF Conclude
    <3>2. button' \in [Tabs -> BOOLEAN]
      BY <1>0, <3>1, RenderFacts DEF TypeOK
    <3>3. /\ poller \in Runs \union {NoRun} /\ told \subseteq Runs
          /\ dropped \subseteq Runs /\ poll[p].run \in Runs
      BY <1>0, RenderFacts DEF TypeOK
    <3> QED
      BY <2>2, <3>2, <3>3 DEF Conclude
  <2> QED
    BY <2>1, <2>2, RenderFacts
<1>4. poll' \in [Polls -> [at : {"idle", "sent", "holding", "answered"},
                         run : Runs \union {NoRun}]]
  BY <1>0, RenderFacts DEF Idle, TypeOK
<1>5. answer' \in [Polls -> Entries]
  BY <1>0, <1>2, RenderFacts DEF TypeOK
<1> QED
  BY <1>0, <1>1, <1>3, <1>4, <1>5, RenderFacts DEF TypeOK

LEMMA TypeStep ==
  ASSUME WebInv, [Next]_vars
  PROVE  TypeOK'
<1>1. CASE UNCHANGED vars
  BY <1>1 DEF vars, serverVars, pageVars, WebInv, TypeOK
<1> QED
  BY <1>1, WebSteps, UserKeepsType, StartKeepsType, ExecuteKeepsType, PollKeepsType,
     RenderKeepsType
     DEF StartStep, ExecuteStep, PollStep, RenderStep, WebInv

------------------------------------------------------------------------------
(* The other conjuncts, step by step. *)

\* Requests are started once, and a poll starts from the timer's run.
LEMMA PollInvStep ==
  ASSUME WebInv, [Next]_vars
  PROVE  PollInv'
<1> USE DEF WebInv, PollInv
<1>0. /\ \A r \in Runs : request[r] = "started" => request'[r] = "started"
      /\ poller \in Runs \union {NoRun} /\ TypeOK
  BY EntriesGrow DEF Kept, TypeOK
<1>1. CASE UserStep
  BY <1>0, <1>1 DEF UserStep, SwitchTab, Click
<1>2. CASE StartStep
  <2>1. PICK r \in Runs : Start(r)
    BY <1>2 DEF StartStep
  <2>2. poll' = poll /\ (poller' = poller \/ (poller' = r /\ request'[r] = "started"))
    BY <2>1 DEF Start, Register, Refuse, Started, pageVars, TypeOK
  <2> QED
    BY <1>0, <2>2
<1>3. CASE ExecuteStep
  <2>1. poll' = poll /\ poller' = poller
    BY <1>3 DEF ExecuteStep, Execute, Progress, Return, SetStatus, SetResolved, SetFiles, Fail,
                Write, pageVars
  <2> QED
    BY <1>0, <2>1
<1>4. ASSUME NEW p \in Polls, SendPoll(p) \/ Fetch(p) \/ Serialize(p)
      PROVE  PollInv'
  <2>1. poller' = poller /\ \A q \in Polls \ {p} : poll'[q] = poll[q]
    BY <1>4, <1>0 DEF SendPoll, Fetch, Serialize, Move, pageVars, TypeOK
  <2>2. poll'[p].run \in Runs /\ request[poll'[p].run] = "started"
    BY <1>4, <1>0 DEF SendPoll, Fetch, Serialize, Move, TypeOK
  <2> QED
    BY <1>0, <2>1, <2>2
<1>5. ASSUME NEW p \in Polls, Render(p)
      PROVE  PollInv'
  <2>1. (poller' = poller \/ poller' = NoRun) /\ poll' = [poll EXCEPT ![p] = Idle]
    BY <1>5, RenderFacts DEF Conclude
  <2>2. \A q \in Polls : poll'[q].at # "idle" => poll'[q] = poll[q]
    BY <1>0, <2>1 DEF Idle, TypeOK
  <2> QED
    BY <1>0, <2>1, <2>2
<1>6. CASE UNCHANGED vars
  BY <1>6 DEF vars, pageVars
<1> QED
  BY <1>1, <1>2, <1>3, <1>4, <1>5, <1>6, WebSteps DEF PollStep, RenderStep

\* A response is true when it is serialised and stays so.
LEMMA AnswerInvStep ==
  ASSUME WebInv, [Next]_vars
  PROVE  AnswerInv'
<1>0. /\ TypeOK /\ PollInv /\ AnswerInv
      /\ \A r \in Runs : Written(r) /\ Written(r)' /\ Kept(r)
  BY EntriesGrow DEF WebInv
<1>1. ASSUME NEW data, NEW r \in Runs, TrueOf(data, r)
      PROVE  TrueOf(data, r)'
  BY <1>0, <1>1 DEF TrueOf, Kept
<1>2. ASSUME NEW q \in Polls, poll'[q].at = "answered", poll'[q] = poll[q],
             answer'[q] = answer[q]
      PROVE  TrueOf(answer[q], poll[q].run)'
  BY <1>0, <1>1, <1>2 DEF PollInv, AnswerInv
<1>3. ASSUME NEW p \in Polls, Serialize(p)
      PROVE  AnswerInv'
  <2>1. /\ \A q \in Polls \ {p} : poll'[q] = poll[q] /\ answer'[q] = answer[q]
        /\ poll'[p].run = poll[p].run
        /\ answer'[p] = entry[poll[p].run] /\ entry' = entry
        /\ poll[p].run \in Runs /\ request[poll[p].run] = "started"
    BY <1>0, <1>3 DEF Serialize, Move, TypeOK, PollInv, serverVars
  <2>2. executor[poll[p].run] \in {"working", "status", "resolved", "files", "done"}
    BY <1>0, <2>1 DEF Written, TypeOK
  <2>3. entry[poll[p].run].status # "none"
    BY <1>0, <2>1, <2>2 DEF Written, Ended
  <2>4. TrueOf(answer[p], poll[p].run)'
    BY <2>1, <2>3 DEF TrueOf
  <2> QED
    BY <1>2, <2>1, <2>4 DEF AnswerInv, TrueOf
<1>4. CASE \A q \in Polls : poll'[q].at = "answered" =>
             poll'[q] = poll[q] /\ answer'[q] = answer[q]
  BY <1>2, <1>4 DEF AnswerInv, TrueOf
<1>5. ASSUME NEW p \in Polls, SendPoll(p) \/ Fetch(p)
      PROVE  AnswerInv'
  BY <1>0, <1>4, <1>5 DEF SendPoll, Fetch, Move, TypeOK
<1>6. ASSUME NEW p \in Polls, Render(p)
      PROVE  AnswerInv'
  BY <1>0, <1>4, <1>6, RenderFacts DEF Idle, TypeOK
<1>7. CASE UserStep \/ StartStep \/ ExecuteStep \/ UNCHANGED vars
  BY <1>4, <1>7
     DEF UserStep, SwitchTab, Click, StartStep, Start, Register, Refuse, Started, ExecuteStep,
         Execute, Progress, Return, SetStatus, SetResolved, SetFiles, Fail, Write, vars
<1> QED
  BY <1>3, <1>5, <1>6, <1>7, WebSteps DEF PollStep, RenderStep

\* A text about a run, a pass only of a run that has passed.
GoodText(text) ==
  /\ text[1] # "none" => text[2] \in Runs
  /\ text[1] = "passed" => entry[text[2]].resolved = "yes"

LEMMA PageInvByTexts ==
  PageInv <=> /\ GoodText(page.banner) /\ GoodText(page.verdict)
              /\ page.diff # NoRun =>
                   entry[page.diff].files /\ page.diff = page.verdict[2]
  BY DEF PageInv, PassIsTrue, GoodText

\* Texts stay good, and the page is kept, blanked or told of a response.
LEMMA PageInvStep ==
  ASSUME WebInv, [Next]_vars
  PROVE  PageInv'
<1>0. /\ TypeOK /\ GoodText(page.banner) /\ GoodText(page.verdict)
      /\ page.diff # NoRun => entry[page.diff].files /\ page.diff = page.verdict[2]
      /\ \A r \in Runs : Kept(r)
  BY EntriesGrow, PageInvByTexts DEF WebInv
<1>1. ASSUME NEW text, GoodText(text)
      PROVE  GoodText(text)'
  BY <1>0, <1>1 DEF GoodText, Kept
<1>2. page.diff \in Runs \union {NoRun} /\ NoRun \notin Runs
  BY <1>0 DEF TypeOK, Runs, NoRun
<1>3. page.diff # NoRun => entry'[page.diff].files
  BY <1>0, <1>2 DEF Kept
<1>4. CASE page' = Blank(page)
  <2>1. page'.banner = NoText /\ page'.verdict = NoText /\ page'.diff = NoRun
    BY <1>0, <1>4 DEF Blank, TypeOK
  <2>2. GoodText(page.banner)' /\ GoodText(page.verdict)'
    BY <2>1 DEF GoodText, NoText
  <2> QED
    BY <2>1, <2>2 DEF PageInv, PassIsTrue, GoodText
<1>5. CASE page'.banner = page.banner /\ page'.verdict = page.verdict /\ page'.diff = page.diff
  <2>1. GoodText(page.banner)' /\ GoodText(page.verdict)'
    BY <1>0, <1>1, <1>5 DEF GoodText
  <2> QED
    BY <1>0, <1>3, <1>5, <2>1 DEF PageInv, PassIsTrue, GoodText
<1>6. CASE \E p \in Polls : Render(p)
  <2>1. PICK p \in Polls : Render(p)
    BY <1>6
  <2> DEFINE r == poll[p].run
             data == answer[p]
  <2>2. /\ r \in Runs /\ tab[r] \in Tabs /\ data \in Entries /\ TrueOf(data, r)
        /\ page' = Shown(r, data) /\ entry' = entry
    BY <2>1, RenderFacts
  <2>3. data.status # "none"
    BY <2>2 DEF TrueOf
  <2> HIDE DEF r, data
  <2>4. GoodText(<<"working", r>>) /\ GoodText(<<Verdict(data), r>>)
    BY <2>2 DEF GoodText, Verdict, TrueOf
  <2>5. /\ page'.banner \in {page.banner, <<"working", r>>, <<Verdict(data), r>>}
        /\ page'.verdict \in {page.verdict, <<Verdict(data), r>>}
        /\ \/ page'.diff = page.diff /\ page'.verdict = page.verdict
           \/ page'.diff = NoRun
           \/ data.files /\ page'.diff = r /\ page'.verdict = <<Verdict(data), r>>
    BY <1>0, <2>2, <2>3, ShownFacts
  <2>6. GoodText(page.banner)' /\ GoodText(page.verdict)'
    <3>1. GoodText(page'.banner) /\ GoodText(page'.verdict)
      BY <1>0, <2>4, <2>5
    <3> QED
      BY <2>2, <3>1 DEF GoodText
  <2>7. page'.diff # NoRun => entry'[page'.diff].files /\ page'.diff = page'.verdict[2]
    BY <1>0, <2>2, <2>5 DEF TrueOf
  <2> QED
    BY <2>6, <2>7 DEF PageInv, PassIsTrue, GoodText
<1>7. CASE UserStep
  BY <1>4, <1>7 DEF UserStep, SwitchTab, Click
<1>8. CASE StartStep
  <2>1. page'.banner = page.banner /\ page'.verdict = page.verdict /\ page'.diff = page.diff
    BY <1>0, <1>8 DEF StartStep, Start, Register, Refuse, Started, pageVars, TypeOK
  <2> QED
    BY <1>5, <2>1
<1>9. CASE ExecuteStep \/ PollStep \/ UNCHANGED vars
  <2>1. page' = page
    BY <1>9 DEF ExecuteStep, Execute, Progress, Return, SetStatus, SetResolved, SetFiles, Fail,
                Write, PollStep, SendPoll, Fetch, Serialize, vars, pageVars
  <2> QED
    BY <1>5, <2>1
<1> QED
  BY <1>6, <1>7, <1>8, <1>9, WebSteps DEF RenderStep

\* The badge and the timer go together, and a run is announced once.
LEMMA ToldInvStep ==
  ASSUME WebInv, [Next]_vars
  PROVE  ToldInv'
<1>0. /\ TypeOK /\ ToldInv /\ PollInv
      /\ \A r \in Runs : Kept(r)
      /\ told \subseteq Runs /\ latest \in Runs \union {NoRun} /\ NoRun \notin Runs
  BY EntriesGrow DEF WebInv, TypeOK, Runs, NoRun
<1>1. CASE UNCHANGED <<latest, spurned, told, dropped, poller>> /\ page'.badge = page.badge
  BY <1>0, <1>1 DEF ToldInv, BadgeIsHonest, Kept, Ended
<1>2. ASSUME NEW r \in Runs, Start(r)
      PROVE  ToldInv'
  <2>1. CASE Register(r)
    BY <1>1, <2>1 DEF Register, pageVars
  <2>2. CASE Refuse(r)
    <3>1. /\ UNCHANGED <<latest, told, dropped, poller, entry>> /\ spurned' = TRUE
          /\ page'.badge = "idle"
      BY <1>0, <2>2 DEF Refuse, serverVars, TypeOK
    <3> QED
      BY <1>0, <3>1 DEF ToldInv, BadgeIsHonest, Kept
  <2>3. CASE Started(r)
    <3>1. /\ request[r] = "created" /\ told' = told /\ entry' = entry /\ latest' = r
          /\ spurned' = FALSE /\ poller' = r /\ page'.badge = "running" /\ r \notin told
      BY <1>0, <2>3 DEF Started, serverVars, ToldInv, TypeOK
    <3> QED
      BY <1>0, <3>1 DEF ToldInv, BadgeIsHonest, Kept
  <2> QED
    BY <1>2, <2>1, <2>2, <2>3 DEF Start
<1>3. ASSUME NEW p \in Polls, Render(p)
      PROVE  ToldInv'
  <2> DEFINE r == poll[p].run
             data == answer[p]
  <2>1. /\ r \in Runs /\ request[r] = "started" /\ tab[r] \in Tabs /\ data \in Entries
        /\ TrueOf(data, r) /\ page' = Shown(r, data)
        /\ entry' = entry /\ request' = request /\ latest' = latest /\ spurned' = spurned
    BY <1>3, RenderFacts
  <2>2. \/ data.status = "running" /\ UNCHANGED <<poller, button, told, dropped>>
        \/ data.status \in Ended /\ Conclude(r)
    BY <1>3, RenderFacts
  <2>3. data.status # "none"
    BY <2>1 DEF TrueOf
  <2> HIDE DEF r, data
  <2>4. /\ data.status = "running" => page'.badge = page.badge
        /\ data.status # "running" => page'.badge # "running"
    BY <1>0, <2>1, <2>3, ShownFacts
  <2>5. CASE data.status = "running"
    BY <1>1, <2>1, <2>2, <2>4, <2>5 DEF Ended
  <2>6. CASE data.status \in Ended /\ Conclude(r)
    <3>1. /\ told' = told \union {r} /\ poller' = NoRun
          /\ dropped' = dropped \union ({poller} \ {r, NoRun})
          /\ entry[r].status \in Ended /\ page'.badge # "running"
      BY <2>1, <2>4, <2>6 DEF Conclude, TrueOf, Ended
    <3>2. \A q \in told' : request'[q] = "started" /\ entry'[q].status \in Ended
      BY <1>0, <2>1, <3>1 DEF ToldInv
    <3>3. latest' # NoRun => latest' \in told' \union dropped'
      BY <1>0, <2>1, <3>1 DEF ToldInv
    <3> QED
      BY <3>1, <3>2, <3>3 DEF ToldInv, BadgeIsHonest, Ended
  <2> QED
    BY <2>2, <2>5, <2>6
<1>4. CASE UserStep
  <2>1. UNCHANGED <<latest, spurned, told, dropped, poller>> /\ page'.badge = page.badge
    BY <1>0, <1>4 DEF UserStep, SwitchTab, Click, Blank, TypeOK
  <2> QED
    BY <1>1, <2>1
<1>5. CASE ExecuteStep \/ PollStep \/ UNCHANGED vars
  <2>1. UNCHANGED <<latest, spurned, told, dropped, poller, page>>
    BY <1>5 DEF ExecuteStep, Execute, Progress, Return, SetStatus, SetResolved, SetFiles, Fail,
                Write, PollStep, SendPoll, Fetch, Serialize, vars, pageVars
  <2> QED
    BY <1>1, <2>1
<1> QED
  BY <1>2, <1>3, <1>4, <1>5, WebSteps DEF StartStep, RenderStep

------------------------------------------------------------------------------
(* Theorems. *)

LEMMA WebInvStep == WebInv /\ [Next]_vars => WebInv'
<1> SUFFICES ASSUME WebInv, [Next]_vars PROVE WebInv'
  OBVIOUS
<1>1. \A r \in Runs : Written(r)'
  BY EntriesGrow
<1>2. TypeOK' /\ PollInv' /\ AnswerInv' /\ PageInv' /\ ToldInv'
  BY TypeStep, PollInvStep, AnswerInvStep, PageInvStep, ToldInvStep
<1> QED
  BY <1>1, <1>2 DEF WebInv, Runs

LEMMA WebInvariance == Spec => []WebInv
<1>1. Init => WebInv
  BY WebInvInit
<1>2. WebInv /\ [Next]_vars => WebInv'
  BY WebInvStep
<1> QED
  BY <1>1, <1>2, PTL DEF Spec

\* A run the dashboard shows as passed has passed, and a diff is that of the final
\* files of the run it is shown with (index.html:349-403), however the status
\* route's reads fall between the executor's writes (webapp.py:151-158, 229-234).
THEOREM ShownRunsPassed == Spec => []PassIsTrue
<1>1. WebInv => PassIsTrue
  BY DEF WebInv, PageInv
<1> QED
  BY <1>1, WebInvariance, PTL

\* The badge says "running" of the run announced last until its end is shown, and
\* never again, unless a response about another run cleared its timer or a start
\* that was refused later set the badge to idle (index.html:307-376).
THEOREM BadgeFollowsRun == Spec => []BadgeIsHonest
<1>1. WebInv => BadgeIsHonest
  BY DEF WebInv, ToldInv
<1> QED
  BY <1>1, WebInvariance, PTL

------------------------------------------------------------------------------
(* The downloads. *)

Writing == {"write", "patch"}

\* A request that writes or streams has a file, and goes no further than its end;
\* only what is being sent or has been sent can be torn.
RequestInv(r) ==
  /\ step[r] \in Writing \union {"stream"} => open[r] \in Files /\ pos[r] < Parts
  /\ step[r] = "patch" => pos[r] + 1 < Parts
  /\ r \in torn => step[r] \in {"stream", "served"}

\* Part k of file f is complete, or is being completed by one of its writers.
Due(f, k) == k \in holds[f] \/ \E q \in Requests : /\ step[q] = "patch" /\ open[q] = f
                                                   /\ k = pos[q] + 1

\* result.zip is the file of r, as far as r has come.
Safe(r) ==
  /\ archive # NoFile
  /\ step[r] \in Writing \union {"stream"} => open[r] = archive
  /\ \A k \in Whole : step[r] \in Writing /\ k <= pos[r] => Due(archive, k)
  /\ \A k \in Whole : step[r] \notin Writing => Due(archive, k)

\* Nobody but r writes what is result.zip.
Sole(r) == \A q \in Requests \ {r} : step[q] \in Writing => open[q] # archive

LastInv ==
  \/ \E q \in Requests : step[q] = "archive"
  \/ \A r \in last : step[r] \in Writing \union {"send", "stream", "served"} /\ Safe(r)

Calm(r) ==
  /\ step[r] # "error500" /\ r \notin torn
  /\ step[r] = "unlink" => archive # NoFile
  /\ step[r] = "archive" => archive = NoFile
  /\ step[r] \in Writing \union {"send", "stream"} => Safe(r) /\ Sole(r)

CalmInv == \A r \in Requests \ disturbed : Calm(r)

DownloadInv == DownloadTypeOK /\ (\A r \in Requests : RequestInv(r)) /\ LastInv /\ CalmInv

Steps == Answered \union {"asked", "unlink", "archive", "write", "patch", "send", "stream"}

LEMMA FileFacts ==
  /\ Files \subseteq Nat \ {0} /\ Earlier \in Files /\ NoFile \notin Files
  /\ Parts \in Nat \ {0} /\ Parts \in Whole
<1>1. Cardinality(Requests) \in Nat
  BY DownloadAssumption, FS_CardinalityType
<1> QED
  BY <1>1, DownloadAssumption DEF Files, Earlier, NoFile, Whole

LEMMA DownloadInvInit == DownloadInit => DownloadInv
<1> SUFFICES ASSUME DownloadInit PROVE DownloadInv
  OBVIOUS
<1>1. DownloadTypeOK
  BY FileFacts DEF DownloadInit, DownloadTypeOK, Answered
<1>2. \A r \in Requests : step[r] = "asked"
  BY DEF DownloadInit
<1> QED
  BY <1>1, <1>2 DEF DownloadInit, DownloadInv, RequestInv, LastInv, CalmInv, Calm, Writing

\* A step of request a that leaves the name alone, completes or announces parts,
\* and makes a no writer of another file than before.
Quiet(a) ==
  /\ archive' = archive
  /\ UNCHANGED <<last, disturbed>>
  /\ \A r \in Requests \ {a} : /\ step'[r] = step[r] /\ open'[r] = open[r]
                               /\ pos'[r] = pos[r] /\ (r \in torn' <=> r \in torn)
  /\ \A f \in Files, k \in Whole : Due(f, k) => Due(f, k)'
  /\ step'[a] \in Writing => step[a] \in Writing /\ open'[a] = open[a]

\* It leaves the others where they are.
LEMMA OthersStay ==
  ASSUME DownloadTypeOK, NEW a \in Requests, Quiet(a), NEW r \in Requests, r # a
  PROVE  /\ Safe(r) => Safe(r)'
         /\ Sole(r) => Sole(r)'
<1>1. step'[r] = step[r] /\ open'[r] = open[r] /\ pos'[r] = pos[r] /\ archive' = archive
  BY DEF Quiet
<1>2. Safe(r) => Safe(r)'
  <2> SUFFICES ASSUME Safe(r) PROVE Safe(r)'
    OBVIOUS
  <2>1. archive \in Files
    BY DEF DownloadTypeOK, Safe
  <2>2. \A k \in Whole : Due(archive, k) => Due(archive, k)'
    BY <2>1, <1>1 DEF Quiet
  <2> QED
    BY <1>1, <2>2 DEF Safe
<1>3. Sole(r) => Sole(r)'
  BY <1>1 DEF Quiet, Sole
<1> QED
  BY <1>2, <1>3

\* It keeps what a itself relies on, too.
LEMMA SoleStays ==
  ASSUME NEW a \in Requests, Quiet(a), Sole(a)
  PROVE  Sole(a)'
  BY DEF Quiet, Sole

LEMMA QuietStep ==
  ASSUME DownloadInv, DownloadTypeOK', NEW a \in Requests, Quiet(a), RequestInv(a)',
         step[a] = "archive" => step'[a] = "archive",
         step[a] \in Writing \union {"send", "stream", "served"} /\ Safe(a) =>
           step'[a] \in Writing \union {"send", "stream", "served"} /\ Safe(a)',
         Calm(a) => Calm(a)'
  PROVE  DownloadInv'
<1>1. DownloadTypeOK /\ last \subseteq Requests /\ last' = last /\ disturbed' = disturbed
      /\ archive' = archive
  BY DEF DownloadInv, DownloadTypeOK, Quiet
<1>2. \A r \in Requests \ {a} : /\ step'[r] = step[r] /\ open'[r] = open[r]
                                /\ pos'[r] = pos[r] /\ (r \in torn' <=> r \in torn)
  BY DEF Quiet
<1>3. \A r \in Requests : RequestInv(r)'
  BY <1>2 DEF DownloadInv, RequestInv
<1>4. LastInv'
  <2>1. CASE \E q \in Requests : step[q] = "archive"
    BY <1>2, <2>1 DEF LastInv
  <2>2. CASE \A r \in last : step[r] \in Writing \union {"send", "stream", "served"} /\ Safe(r)
    <3>1. ASSUME NEW r \in last
          PROVE  step'[r] \in Writing \union {"send", "stream", "served"} /\ Safe(r)'
      <4>1. CASE r = a
        BY <2>2, <3>1, <4>1
      <4>2. CASE r # a
        BY <1>1, <1>2, <2>2, <3>1, <4>2, OthersStay
      <4> QED
        BY <4>1, <4>2
    <3> QED
      BY <1>1, <3>1 DEF LastInv
  <2> QED
    BY <2>1, <2>2 DEF DownloadInv, LastInv
<1>5. CalmInv'
  <2>1. ASSUME NEW r \in Requests, r \notin disturbed, r # a
        PROVE  Calm(r)'
    <3>1. Calm(r)
      BY <2>1 DEF DownloadInv, CalmInv
    <3> QED
      BY <1>1, <1>2, <2>1, <3>1, OthersStay DEF Calm
  <2>2. a \notin disturbed => Calm(a)'
    BY DEF DownloadInv, CalmInv
  <2> QED
    BY <1>1, <2>1, <2>2 DEF CalmInv
<1> QED
  BY <1>3, <1>4, <1>5 DEF DownloadInv

\* What nobody else writes is there as soon as r has written it.
LEMMA SoleHolds ==
  ASSUME NEW r \in Requests, Safe(r), Sole(r), step[r] \notin Writing
  PROVE  \A k \in Whole : k \in holds[archive]
<1> SUFFICES ASSUME NEW k \in Whole PROVE k \in holds[archive]
  OBVIOUS
<1>1. Due(archive, k)
  BY DEF Safe
<1> QED
  BY <1>1 DEF Due, Sole, Writing

\* A step that writes nothing.
LEMMA DueStays ==
  ASSUME NEW a \in Requests, holds' = holds, step[a] # "patch",
         \A r \in Requests \ {a} : step'[r] = step[r] /\ open'[r] = open[r] /\ pos'[r] = pos[r]
  PROVE  \A f \in Files, k \in Whole : Due(f, k) => Due(f, k)'
  BY DEF Due

\* What a request has to know of itself.
LEMMA TypeFacts ==
  ASSUME DownloadTypeOK, NEW r \in Requests
  PROVE  /\ DOMAIN step = Requests /\ DOMAIN open = Requests /\ DOMAIN pos = Requests
         /\ step[r] \in Steps /\ pos[r] \in 0..Parts /\ pos[r] \in Int
         /\ DOMAIN holds = Files
         /\ \A f \in Files : holds[f] \subseteq Whole
         /\ archive # NoFile => archive \in Files
  BY DEF DownloadTypeOK, Steps

LEMMA CheckKeepsInv ==
  ASSUME DownloadInv, NEW r \in Requests, Check(r)
  PROVE  DownloadInv'
<1>1. DownloadTypeOK
  BY DEF DownloadInv
<1>2. /\ step' = [step EXCEPT ![r] = IF archive = NoFile THEN "archive" ELSE "unlink"]
      /\ step[r] = "asked" /\ UNCHANGED <<archive, holds, open, pos, torn, last, disturbed>>
  BY DEF Check, Proceed
<1>3. step'[r] = IF archive = NoFile THEN "archive" ELSE "unlink"
  BY <1>1, <1>2 DEF DownloadTypeOK
<1>4. DownloadTypeOK'
  BY <1>1, <1>2 DEF DownloadTypeOK, Answered
<1>5. r \notin torn
  BY <1>2 DEF DownloadInv, RequestInv
<1>6. RequestInv(r)' /\ Calm(r)'
  BY <1>2, <1>3, <1>5 DEF RequestInv, Calm, Writing
<1>7. \A q \in Requests \ {r} : step'[q] = step[q]
  BY <1>1, <1>2 DEF DownloadTypeOK
<1>8. Quiet(r)
  <2>1. \A f \in Files, k \in Whole : Due(f, k) => Due(f, k)'
    BY <1>2, <1>7, DueStays
  <2> QED
    BY <1>2, <1>3, <1>7, <2>1 DEF Quiet, Writing
<1> QED
  BY <1>2, <1>4, <1>6, <1>8, QuietStep DEF Writing

\* The three steps that write.
LEMMA BeginKeepsInv ==
  ASSUME DownloadInv, NEW r \in Requests, BeginMember(r)
  PROVE  DownloadInv'
<1>1. /\ DownloadTypeOK /\ step[r] = "write" /\ open[r] \in Files /\ pos[r] < Parts /\ r \notin torn
      /\ pos[r] + 1 < Parts
  BY DEF DownloadInv, RequestInv, BeginMember, Writing
<1>2. /\ UNCHANGED <<archive, open, pos, torn, last, disturbed>>
      /\ holds' = [holds EXCEPT ![open[r]] = @ \ {pos[r] + 1}]
      /\ step' = [step EXCEPT ![r] = "patch"]
  BY DEF BeginMember, Proceed
<1>3. DownloadTypeOK'
  BY <1>1, <1>2 DEF DownloadTypeOK
<1>4. /\ step'[r] = "patch" /\ \A q \in Requests \ {r} : step'[q] = step[q]
      /\ holds'[open[r]] = holds[open[r]] \ {pos[r] + 1}
      /\ \A f \in Files : f # open[r] => holds'[f] = holds[f]
  BY <1>1, <1>2 DEF DownloadTypeOK
<1>5. \A f \in Files, k \in Whole : Due(f, k) => Due(f, k)'
  <2> SUFFICES ASSUME NEW f \in Files, NEW k \in Whole, Due(f, k) PROVE Due(f, k)'
    OBVIOUS
  <2>1. CASE f = open[r] /\ k = pos[r] + 1
    BY <1>2, <1>4, <2>1 DEF Due
  <2>2. CASE ~ (f = open[r] /\ k = pos[r] + 1)
    BY <1>1, <1>2, <1>4, <2>2 DEF Due
  <2> QED
    BY <2>1, <2>2
<1>6. Quiet(r)
  BY <1>1, <1>2, <1>4, <1>5 DEF Quiet, Writing
<1>7. Safe(r) => Safe(r)'
  <2> SUFFICES ASSUME Safe(r) PROVE Safe(r)'
    OBVIOUS
  <2>1. archive \in Files /\ archive' = archive
    BY <1>1, <1>2 DEF DownloadTypeOK, Safe
  <2>2. \A k \in Whole : Due(archive, k) => Due(archive, k)'
    BY <1>5, <2>1
  <2> QED
    BY <1>1, <1>2, <1>4, <2>1, <2>2 DEF Safe, Writing
<1>8. Calm(r) => Calm(r)'
  BY <1>1, <1>2, <1>4, <1>6, <1>7, SoleStays DEF Calm, Writing
<1> QED
  BY <1>1, <1>2, <1>3, <1>4, <1>6, <1>7, <1>8, QuietStep DEF RequestInv, Writing

\* r has completed its next part, which is one of the archive.
LEMMA Completes ==
  ASSUME DownloadInv, DownloadTypeOK', NEW r \in Requests, step[r] \in Writing,
         pos[r] + 1 \in Whole,
         holds' = [holds EXCEPT ![open[r]] = @ \union {pos[r] + 1}],
         pos' = [pos EXCEPT ![r] = pos[r] + 1],
         UNCHANGED <<archive, open, torn, last, disturbed>>,
         \/ step' = [step EXCEPT ![r] = "write"] /\ pos[r] + 1 < Parts
         \/ step' = [step EXCEPT ![r] = "send"] /\ pos[r] + 1 = Parts
  PROVE  DownloadInv'
<1>1. DownloadTypeOK /\ open[r] \in Files /\ r \notin torn
  BY DEF DownloadInv, RequestInv, Writing
<1>2. /\ \/ step'[r] = "write" /\ pos[r] + 1 < Parts
         \/ step'[r] = "send" /\ pos[r] + 1 = Parts
      /\ pos'[r] = pos[r] + 1
      /\ \A q \in Requests \ {r} : step'[q] = step[q] /\ pos'[q] = pos[q]
      /\ holds'[open[r]] = holds[open[r]] \union {pos[r] + 1}
      /\ \A f \in Files : f # open[r] => holds'[f] = holds[f]
  <2>1. \/ step'[r] = "write" /\ pos[r] + 1 < Parts
        \/ step'[r] = "send" /\ pos[r] + 1 = Parts
    BY <1>1 DEF DownloadTypeOK
  <2>2. \A q \in Requests \ {r} : step'[q] = step[q] /\ pos'[q] = pos[q]
    BY <1>1 DEF DownloadTypeOK
  <2>3. pos'[r] = pos[r] + 1
    BY <1>1 DEF DownloadTypeOK
  <2>4. /\ holds'[open[r]] = holds[open[r]] \union {pos[r] + 1}
        /\ \A f \in Files : f # open[r] => holds'[f] = holds[f]
    BY <1>1 DEF DownloadTypeOK
  <2> QED
    BY <2>1, <2>2, <2>3, <2>4
<1>3. \A f \in Files, k \in Whole : Due(f, k) => Due(f, k)'
  <2> SUFFICES ASSUME NEW f \in Files, NEW k \in Whole, Due(f, k) PROVE Due(f, k)'
    OBVIOUS
  <2>1. CASE f = open[r] /\ k = pos[r] + 1
    BY <1>2, <2>1 DEF Due
  <2>2. CASE ~ (f = open[r] /\ k = pos[r] + 1)
    BY <1>1, <1>2, <2>2 DEF Due
  <2> QED
    BY <2>1, <2>2
<1>4. Quiet(r)
  BY <1>2, <1>3 DEF Quiet, Writing
<1>5. Safe(r) => Safe(r)'
  <2> SUFFICES ASSUME Safe(r) PROVE Safe(r)'
    OBVIOUS
  <2>1. archive \in Files /\ archive' = archive /\ open[r] = archive
    BY <1>1 DEF DownloadTypeOK, Safe
  <2>2. ASSUME NEW k \in Whole, k <= pos[r] + 1 PROVE Due(archive, k)'
    <3>1. CASE k <= pos[r]
      BY <1>3, <2>1, <2>2, <3>1 DEF Safe
    <3>2. CASE k = pos[r] + 1
      BY <1>2, <2>1, <3>2 DEF Due
    <3>3. k \in Int /\ pos[r] \in Int
      BY <1>1, FileFacts DEF DownloadTypeOK, Whole
    <3> QED
      BY <2>2, <3>1, <3>2, <3>3
  <2>3. \A k \in Whole : k <= Parts
    BY FileFacts DEF Whole
  <2> QED
    BY <1>1, <1>2, <2>1, <2>2, <2>3 DEF Safe, Writing
<1>6. Calm(r) => Calm(r)'
  BY <1>1, <1>2, <1>4, <1>5, SoleStays DEF Calm, Writing
<1>7. RequestInv(r)'
  BY <1>1, <1>2 DEF RequestInv, Writing
<1> QED
  BY <1>2, <1>4, <1>5, <1>6, <1>7, QuietStep DEF Writing

LEMMA EndKeepsInv ==
  ASSUME DownloadInv, NEW r \in Requests, EndMember(r)
  PROVE  DownloadInv'
<1>1. /\ DownloadTypeOK /\ step[r] = "patch" /\ pos[r] \in 0..Parts
      /\ step[r] \in Writing
  BY DEF DownloadInv, DownloadTypeOK, EndMember, Writing
<1>2. /\ UNCHANGED <<archive, open, torn, last, disturbed>>
      /\ holds' = [holds EXCEPT ![open[r]] = @ \union {pos[r] + 1}]
      /\ pos' = [pos EXCEPT ![r] = pos[r] + 1]
      /\ step' = [step EXCEPT ![r] = "write"]
  BY DEF EndMember, Proceed
<1>3. pos[r] + 1 \in Whole /\ pos[r] + 1 < Parts /\ pos[r] + 1 \in 0..Parts
  <2>1. pos[r] + 1 < Parts
    BY <1>1 DEF DownloadInv, RequestInv
  <2> QED
    BY <1>1, <2>1, FileFacts DEF Whole
<1>4. DownloadTypeOK'
  BY <1>1, <1>2, <1>3 DEF DownloadTypeOK
<1> QED
  BY <1>1, <1>2, <1>3, <1>4, Completes

LEMMA DirectoryKeepsInv ==
  ASSUME DownloadInv, NEW r \in Requests, WriteDirectory(r)
  PROVE  DownloadInv'
<1>1. /\ DownloadTypeOK /\ step[r] = "write" /\ pos[r] + 1 = Parts
      /\ step[r] \in Writing
  BY DEF DownloadInv, WriteDirectory, Writing
<1>2. /\ UNCHANGED <<archive, open, torn, last, disturbed>>
      /\ holds' = [holds EXCEPT ![open[r]] = @ \union {pos[r] + 1}]
      /\ pos' = [pos EXCEPT ![r] = pos[r] + 1]
      /\ step' = [step EXCEPT ![r] = "send"]
  BY <1>1 DEF WriteDirectory, Proceed
<1>3. pos[r] + 1 \in Whole /\ pos[r] + 1 \in 0..Parts
  BY <1>1, FileFacts DEF Whole
<1>4. DownloadTypeOK'
  BY <1>1, <1>2, <1>3 DEF DownloadTypeOK
<1> QED
  BY <1>1, <1>2, <1>3, <1>4, Completes

\* The two steps that send.
LEMMA SendKeepsInv ==
  ASSUME DownloadInv, NEW r \in Requests, Send(r)
  PROVE  DownloadInv'
<1>1. /\ DownloadTypeOK /\ RequestInv(r) /\ step[r] = "send" /\ r \notin torn
  BY DEF DownloadInv, RequestInv, Send, Writing
<1>2. UNCHANGED <<archive, holds, last, disturbed>>
  BY DEF Send
<1>3. CASE archive = NoFile
  <2>1. step' = [step EXCEPT ![r] = "error500"] /\ UNCHANGED <<open, pos, torn>>
    BY <1>3 DEF Send, Proceed
  <2>2. DownloadTypeOK'
    BY <1>1, <1>2, <2>1 DEF DownloadTypeOK, Answered
  <2>3. step'[r] = "error500" /\ \A q \in Requests \ {r} : step'[q] = step[q]
    BY <1>1, <2>1 DEF DownloadTypeOK
  <2>4. ~ Safe(r) /\ ~ Calm(r)
    BY <1>1, <1>3 DEF Safe, Calm
  <2>5. Quiet(r)
    <3>1. \A f \in Files, k \in Whole : Due(f, k) => Due(f, k)'
      BY <1>1, <1>2, <2>1, <2>3, DueStays
    <3> QED
      BY <1>2, <2>1, <2>3, <3>1 DEF Quiet, Writing
  <2>6. RequestInv(r)'
    BY <1>1, <2>1, <2>3 DEF RequestInv, Writing
  <2> QED
    BY <1>1, <2>2, <2>4, <2>5, <2>6, QuietStep
<1>4. CASE archive # NoFile
  <2>1. /\ step' = [step EXCEPT ![r] = "stream"]
        /\ open' = [open EXCEPT ![r] = archive]
        /\ pos' = [pos EXCEPT ![r] = 0]
        /\ torn' = IF Parts \in holds[archive] THEN torn ELSE torn \union {r}
    BY <1>4 DEF Send, Proceed
  <2>2. archive \in Files
    BY <1>1, <1>4, TypeFacts
  <2>3. 0 \in 0..Parts /\ 0 < Parts /\ Parts \in Whole
    BY FileFacts
  <2>4. DownloadTypeOK'
    BY <1>1, <1>2, <2>1, <2>2, <2>3 DEF DownloadTypeOK
  <2>5. /\ step'[r] = "stream" /\ open'[r] = archive /\ pos'[r] = 0
        /\ \A q \in Requests \ {r} : /\ step'[q] = step[q] /\ open'[q] = open[q]
                                     /\ pos'[q] = pos[q] /\ (q \in torn' <=> q \in torn)
    BY <1>1, <2>1 DEF DownloadTypeOK
  <2>6. RequestInv(r)'
    BY <2>2, <2>3, <2>5 DEF RequestInv, Writing
  <2>7. Quiet(r)
    <3>1. \A f \in Files, k \in Whole : Due(f, k) => Due(f, k)'
      BY <1>1, <1>2, <2>5, DueStays
    <3> QED
      BY <1>2, <2>5, <3>1 DEF Quiet, Writing
  <2>8. Safe(r) => Safe(r)'
    <3>1. \A k \in Whole : Due(archive, k) => Due(archive, k)'
      BY <1>2, <2>2, <2>7 DEF Quiet
    <3> QED
      BY <1>1, <1>2, <2>5, <3>1 DEF Safe, Writing
  <2>9. Calm(r) => Calm(r)'
    <3> SUFFICES ASSUME Calm(r) PROVE Calm(r)'
      OBVIOUS
    <3>1. Safe(r) /\ Sole(r)
      BY <1>1 DEF Calm
    <3>2. Parts \in holds[archive]
      BY <1>1, <2>3, <3>1, SoleHolds DEF Writing
    <3>3. r \notin torn'
      BY <1>1, <2>1, <3>2
    <3> QED
      BY <2>5, <2>7, <2>8, <3>1, <3>3, SoleStays DEF Calm
  <2> QED
    BY <1>1, <2>4, <2>5, <2>6, <2>7, <2>8, <2>9, QuietStep
<1> QED
  BY <1>3, <1>4

LEMMA StreamKeepsInv ==
  ASSUME DownloadInv, NEW r \in Requests, Stream(r)
  PROVE  DownloadInv'
<1>1. /\ DownloadTypeOK /\ RequestInv(r) /\ step[r] = "stream"
      /\ open[r] \in Files /\ pos[r] < Parts /\ pos[r] \in 0..Parts /\ Parts \in Nat
  BY TypeFacts, FileFacts DEF DownloadInv, RequestInv, Stream
<1>2. /\ UNCHANGED <<archive, holds, open, last, disturbed>>
      /\ pos' = [pos EXCEPT ![r] = @ + 1]
      /\ torn' = IF pos'[r] \in holds[open[r]] THEN torn ELSE torn \union {r}
      /\ \/ step' = [step EXCEPT ![r] = "served"] /\ pos'[r] = Parts
         \/ step' = step /\ pos'[r] # Parts
  BY DEF Stream, Proceed
<1>3. /\ pos'[r] = pos[r] + 1
      /\ \/ step'[r] = "served"
         \/ step'[r] = "stream" /\ pos'[r] < Parts
      /\ \A q \in Requests \ {r} : /\ step'[q] = step[q] /\ open'[q] = open[q]
                                   /\ pos'[q] = pos[q] /\ (q \in torn' <=> q \in torn)
  <2>1. pos'[r] = pos[r] + 1 /\ \A q \in Requests \ {r} : pos'[q] = pos[q]
    BY <1>1, <1>2 DEF DownloadTypeOK
  <2>2. \/ step'[r] = "served"
        \/ step'[r] = "stream" /\ pos'[r] < Parts
    BY <1>1, <1>2, <2>1 DEF DownloadTypeOK
  <2>3. \A q \in Requests \ {r} : step'[q] = step[q] /\ (q \in torn' <=> q \in torn)
    BY <1>1, <1>2 DEF DownloadTypeOK
  <2> QED
    BY <1>2, <2>1, <2>2, <2>3
<1>4. DownloadTypeOK'
  BY <1>1, <1>2 DEF DownloadTypeOK, Answered
<1>5. RequestInv(r)'
  BY <1>1, <1>2, <1>3 DEF RequestInv, Writing
<1>6. Quiet(r)
  <2>1. \A f \in Files, k \in Whole : Due(f, k) => Due(f, k)'
    BY <1>1, <1>2, <1>3, DueStays
  <2> QED
    BY <1>2, <1>3, <2>1 DEF Quiet, Writing
<1>7. Safe(r) => Safe(r)'
  <2> SUFFICES ASSUME Safe(r) PROVE Safe(r)'
    OBVIOUS
  <2>1. archive \in Files
    BY <1>1 DEF DownloadTypeOK, Safe
  <2>2. \A k \in Whole : Due(archive, k) => Due(archive, k)'
    BY <1>2, <1>6, <2>1 DEF Quiet
  <2> QED
    BY <1>1, <1>2, <1>3, <2>2 DEF Safe, Writing
<1>8. Calm(r) => Calm(r)'
  <2> SUFFICES ASSUME Calm(r) PROVE Calm(r)'
    OBVIOUS
  <2>1. Safe(r) /\ Sole(r) /\ r \notin torn /\ open[r] = archive
    BY <1>1 DEF Calm, Safe
  <2>2. pos'[r] \in Whole
    BY <1>1, <1>3 DEF Whole
  <2>3. pos'[r] \in holds[open[r]]
    BY <1>1, <2>1, <2>2, SoleHolds DEF Writing
  <2>4. r \notin torn'
    BY <1>2, <2>1, <2>3
  <2> QED
    BY <1>2, <1>3, <1>6, <1>7, <2>1, <2>4, SoleStays DEF Calm, Writing
<1> QED
  BY <1>1, <1>3, <1>4, <1>5, <1>6, <1>7, <1>8, QuietStep

\* The two steps that take the name away from the others.
LEMMA UnlinkKeepsInv ==
  ASSUME DownloadInv, NEW r \in Requests, Unlink(r)
  PROVE  DownloadInv'
<1>1. DownloadTypeOK /\ step[r] = "unlink" /\ r \notin torn
  BY DEF DownloadInv, RequestInv, Unlink, Writing
<1>2. UNCHANGED <<holds, open, pos, torn, last>>
  BY DEF Unlink
<1>3. CASE archive = NoFile
  <2>1. step' = [step EXCEPT ![r] = "error500"] /\ UNCHANGED <<archive, disturbed>>
    BY <1>3 DEF Unlink, Proceed
  <2>2. DownloadTypeOK'
    BY <1>1, <1>2, <2>1 DEF DownloadTypeOK, Answered
  <2>3. step'[r] = "error500" /\ \A q \in Requests \ {r} : step'[q] = step[q]
    BY <1>1, <2>1 DEF DownloadTypeOK
  <2>4. ~ Calm(r)
    BY <1>1, <1>3 DEF Calm
  <2>5. Quiet(r)
    <3>1. \A f \in Files, k \in Whole : Due(f, k) => Due(f, k)'
      BY <1>1, <1>2, <2>3, DueStays
    <3> QED
      BY <1>2, <2>1, <2>3, <3>1 DEF Quiet, Writing
  <2>6. RequestInv(r)'
    BY <1>1, <1>2, <2>3 DEF RequestInv, Writing
  <2> QED
    BY <1>1, <2>2, <2>4, <2>5, <2>6, QuietStep DEF Writing
<1>4. CASE archive # NoFile
  <2>1. step' = [step EXCEPT ![r] = "archive"] /\ archive' = NoFile /\ Disturb(r)
    BY <1>4 DEF Unlink, Proceed
  <2>2. DownloadTypeOK'
    BY <1>1, <1>2, <2>1 DEF DownloadTypeOK, Disturb
  <2>3. step'[r] = "archive" /\ \A q \in Requests \ {r} : step'[q] = step[q]
    BY <1>1, <2>1 DEF DownloadTypeOK
  <2>4. \A q \in Requests : RequestInv(q)'
    BY <1>1, <1>2, <2>3 DEF DownloadInv, RequestInv, Writing
  <2>5. LastInv'
    BY <2>3 DEF LastInv
  <2>6. CalmInv'
    <3> SUFFICES ASSUME NEW q \in Requests, q \notin disturbed' PROVE Calm(q)'
      BY DEF CalmInv
    <3>1. CASE q = r
      BY <1>1, <1>2, <2>1, <2>3, <3>1 DEF Calm, Writing
    <3>2. CASE q # r
      <4>1. q \notin disturbed /\ step[q] \in Answered \union {"asked"}
        BY <2>1, <3>2 DEF Disturb
      <4>2. Calm(q) /\ step'[q] = step[q] /\ torn' = torn
        BY <1>2, <2>3, <3>2, <4>1 DEF DownloadInv, CalmInv
      <4> QED
        BY <4>1, <4>2 DEF Calm, Writing, Answered
    <3> QED
      BY <3>1, <3>2
  <2> QED
    BY <2>2, <2>4, <2>5, <2>6 DEF DownloadInv
<1> QED
  BY <1>3, <1>4

LEMMA OpenKeepsInv ==
  ASSUME DownloadInv, NEW r \in Requests, OpenArchive(r)
  PROVE  DownloadInv'
<1>1. DownloadTypeOK /\ step[r] = "archive" /\ r \notin torn
  BY DEF DownloadInv, RequestInv, OpenArchive, Writing
<1>2. PICK f \in Files : /\ f = archive \/ (archive = NoFile /\ \A q \in Requests : open[q] # f)
                         /\ archive' = f
                         /\ holds' = [holds EXCEPT ![f] = {}]
                         /\ open' = [open EXCEPT ![r] = f]
  BY DEF OpenArchive
<1>3. /\ pos' = [pos EXCEPT ![r] = 0] /\ step' = [step EXCEPT ![r] = "write"]
      /\ last' = {r} /\ Disturb(r) /\ torn' = torn
  BY DEF OpenArchive, Proceed
<1>4. DownloadTypeOK'
  <2>1. 0 \in 0..Parts
    BY FileFacts
  <2> QED
    BY <1>1, <1>2, <1>3, <2>1 DEF DownloadTypeOK, Disturb
<1>5. /\ step'[r] = "write" /\ open'[r] = f /\ pos'[r] = 0
      /\ \A q \in Requests \ {r} : /\ step'[q] = step[q] /\ open'[q] = open[q]
                                   /\ pos'[q] = pos[q]
  BY <1>1, <1>2, <1>3 DEF DownloadTypeOK
<1>6. \A q \in Requests : RequestInv(q)'
  BY <1>1, <1>2, <1>3, <1>5, FileFacts DEF DownloadInv, RequestInv, Writing
<1>7. Safe(r)'
  <2>1. f # NoFile
    BY FileFacts
  <2>2. \A k \in Whole : ~ (k <= 0)
    BY FileFacts DEF Whole
  <2> QED
    BY <1>1, <1>2, <1>3, <1>5, <2>1, <2>2 DEF Safe, Writing
<1>8. LastInv'
  BY <1>3, <1>5, <1>7 DEF LastInv, Writing
<1>9. CalmInv'
  <2> SUFFICES ASSUME NEW q \in Requests, q \notin disturbed' PROVE Calm(q)'
    BY DEF CalmInv
  <2>1. q \notin disturbed
    BY <1>3 DEF Disturb
  <2>2. Calm(q)
    BY <2>1 DEF DownloadInv, CalmInv
  <2>3. CASE q = r
    <3>1. archive = NoFile
      BY <1>1, <2>2, <2>3 DEF Calm
    <3>2. \A p \in Requests : open[p] # f
      BY <1>2, <3>1, FileFacts
    <3>3. Sole(r)'
      BY <1>2, <1>5, <3>2 DEF Sole
    <3> QED
      BY <1>1, <1>3, <1>5, <1>7, <2>3, <3>3 DEF Calm, Writing
  <2>4. CASE q # r
    <3>1. step[q] \in Answered \union {"asked"} /\ step'[q] = step[q] /\ torn' = torn
      BY <1>3, <1>5, <2>4 DEF Disturb
    <3> QED
      BY <2>2, <3>1 DEF Calm, Writing, Answered
  <2> QED
    BY <2>3, <2>4
<1> QED
  BY <1>4, <1>6, <1>8, <1>9 DEF DownloadInv

LEMMA DownloadInvStep == DownloadInv /\ [DownloadNext]_downloadVars => DownloadInv'
<1> SUFFICES ASSUME DownloadInv, [DownloadNext]_downloadVars PROVE DownloadInv'
  OBVIOUS
<1>1. CASE Terminating \/ UNCHANGED downloadVars
  BY <1>1 DEF Terminating, downloadVars, DownloadInv, DownloadTypeOK, RequestInv, LastInv, CalmInv,
              Calm, Safe, Sole, Due
<1> QED
  BY <1>1, CheckKeepsInv, UnlinkKeepsInv, OpenKeepsInv, BeginKeepsInv, EndKeepsInv,
     DirectoryKeepsInv, SendKeepsInv, StreamKeepsInv DEF DownloadNext

LEMMA DownloadInvariance == DownloadSpec => []DownloadInv
  BY DownloadInvInit, DownloadInvStep, PTL DEF DownloadSpec

\* When all downloads of a run are answered, the one that opened result.zip last
\* has been served, and a whole archive is left on disk, whoever wrote it.
THEOREM LastDownloadIsWhole == DownloadSpec => []LastIsWhole
<1>1. DownloadInv => LastIsWhole
  <2> SUFFICES ASSUME DownloadInv, Over, NEW r \in last
               PROVE  step[r] = "served" /\ archive # NoFile /\ holds[archive] = Whole
    BY DEF LastIsWhole
  <2>1. r \in Requests /\ \A q \in Requests : step[q] \in Answered
    BY DEF DownloadInv, DownloadTypeOK, Over
  <2>2. step[r] = "served" /\ Safe(r)
    BY <2>1 DEF DownloadInv, LastInv, Answered, Writing
  <2>3. \A k \in Whole : k \in holds[archive]
    BY <2>1, <2>2 DEF Safe, Due, Answered, Writing
  <2>4. archive # NoFile /\ holds[archive] \subseteq Whole
    BY <2>2 DEF DownloadInv, DownloadTypeOK, Safe
  <2> QED
    BY <2>2, <2>3, <2>4
<1> QED
  BY DownloadInvariance, <1>1, PTL

\* A download breaks or is torn only if another request unlinked or opened
\* result.zip while it was under way.
THEOREM TornIsOverlap == DownloadSpec => []TornOnlyByOverlap
<1>1. DownloadInv => TornOnlyByOverlap
  BY DEF DownloadInv, CalmInv, Calm, TornOnlyByOverlap
<1> QED
  BY DownloadInvariance, <1>1, PTL
===============================================================================
