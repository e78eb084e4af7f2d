------------------------------- MODULE Download -------------------------------
(***************************************************************************)
(* The download route of webapp.py, asked several times for one finished   *)
(* run.  Every request makes the archive anew, under one name and without  *)
(* a lock: it unlinks the last one, writes its own part by part, and sends *)
(* what the name then stands for.                                          *)
(*                                                                         *)
(* Abstracted: an archive is a number of parts, its members and at the end *)
(* its directory, the same whoever writes it (the sandbox of a finished run*)
(* does not change).  A file is a number and lives on, without a name, for *)
(* those who have it open.  The refusals that come before the archive is   *)
(* touched are left out.                                                   *)
(***************************************************************************)
EXTENDS Integers, FiniteSets

CONSTANTS Requests,
          Parts        \* the members of an archive and its directory

ASSUME DownloadAssumption == IsFiniteSet(Requests) /\ Parts \in Nat \ {0}

VARIABLES step,      \* where each request is
          archive,   \* the file that result.zip names, or NoFile
          holds,     \* the parts in each file that are complete
          open,      \* the file each request writes or sends
          pos,       \* the parts it has written or sent
          torn,      \* not in the code: the requests that sent something else
                     \* than an archive
          last,      \* not in the code: who opened result.zip for writing last
          disturbed  \* not in the code: the requests during which another one
                     \* unlinked result.zip or opened it for writing

downloadVars == <<step, archive, holds, open, pos, torn, last, disturbed>>

NoFile == 0
Earlier == 1      \* the archive an earlier download has left
Files == 1..(Cardinality(Requests) + 1)
Whole == 1..Parts
Answered == {"served", "error500"}

DownloadTypeOK ==
  /\ step \in [Requests -> Answered \union
                 {"asked", "unlink", "archive", "write", "patch", "send", "stream"}]
  /\ archive \in Files \union {NoFile}
  /\ holds \in [Files -> SUBSET Whole]
  /\ open \in [Requests -> Files \union {NoFile}]
  /\ pos \in [Requests -> 0..Parts]
  /\ torn \subseteq Requests
  /\ last \subseteq Requests
  /\ disturbed \subseteq Requests

DownloadInit ==
  /\ step = [r \in Requests |-> "asked"]
  /\ archive \in {NoFile, Earlier}
  /\ holds = [f \in Files |-> IF f = archive THEN Whole ELSE {}]
  /\ open = [r \in Requests |-> NoFile]
  /\ pos = [r \in Requests |-> 0]
  /\ torn = {}
  /\ last = {}
  /\ disturbed = {}

Proceed(r, s) == step' = [step EXCEPT ![r] = s]

Disturb(r) ==
  disturbed' = disturbed \union {q \in Requests \ {r} : step[q] \notin Answered \union {"asked"}}

\* Bug: an archive that is there already is sent as it is.
CheckReuse(r) ==
  /\ step[r] = "asked"
  /\ Proceed(r, IF archive = NoFile THEN "archive" ELSE "send")
  /\ UNCHANGED <<archive, holds, open, pos, torn, last, disturbed>>

\* if zip_path.exists().
Check(r) ==
  /\ step[r] = "asked"
  /\ Proceed(r, IF archive = NoFile THEN "archive" ELSE "unlink")
  /\ UNCHANGED <<archive, holds, open, pos, torn, last, disturbed>>

\* zip_path.unlink() raises if another request was faster.
Unlink(r) ==
  /\ step[r] = "unlink"
  /\ IF archive = NoFile
     THEN Proceed(r, "error500") /\ UNCHANGED <<archive, disturbed>>
     ELSE Proceed(r, "archive") /\ archive' = NoFile /\ Disturb(r)
  /\ UNCHANGED <<holds, open, pos, torn, last>>

\* make_archive opens result.zip: a new file, or the one of a request that came
\* in between, which is truncated under its writer and its readers.
OpenArchive(r) ==
  /\ step[r] = "archive"
  /\ \E f \in Files :
       /\ f = archive \/ (archive = NoFile /\ f # Earlier /\ \A q \in Requests : open[q] # f)
       /\ archive' = f
       /\ holds' = [holds EXCEPT ![f] = {}]
       /\ open' = [open EXCEPT ![r] = f]
  /\ pos' = [pos EXCEPT ![r] = 0]
  /\ last' = {r}
  /\ Disturb(r)
  /\ Proceed(r, "write")
  /\ UNCHANGED torn

\* zipfile (external) writes a member with a placeholder for its header, which
\* undoes the member if another writer of the file has completed it already ...
BeginMember(r) ==
  /\ step[r] = "write"
  /\ pos[r] + 1 < Parts
  /\ holds' = [holds EXCEPT ![open[r]] = @ \ {pos[r] + 1}]
  /\ Proceed(r, "patch")
  /\ UNCHANGED <<archive, open, pos, torn, last, disturbed>>

\* ... and goes back to put the header in its place.
EndMember(r) ==
  /\ step[r] = "patch"
  /\ holds' = [holds EXCEPT ![open[r]] = @ \union {pos[r] + 1}]
  /\ pos' = [pos EXCEPT ![r] = @ + 1]
  /\ Proceed(r, "write")
  /\ UNCHANGED <<archive, open, torn, last, disturbed>>

\* The directory comes last, and needs no header.
WriteDirectory(r) ==
  /\ step[r] = "write"
  /\ pos[r] + 1 = Parts
  /\ holds' = [holds EXCEPT ![open[r]] = @ \union {Parts}]
  /\ pos' = [pos EXCEPT ![r] = Parts]
  /\ Proceed(r, "send")
  /\ UNCHANGED <<archive, open, torn, last, disturbed>>

\* Bug: result.zip is cleaned up as soon as it is open.
SendUnlinks(r) ==
  /\ step[r] = "send"
  /\ IF archive = NoFile
     THEN Proceed(r, "error500") /\ UNCHANGED <<archive, open, pos, torn, disturbed>>
     ELSE /\ Proceed(r, "stream")
          /\ open' = [open EXCEPT ![r] = archive]
          /\ pos' = [pos EXCEPT ![r] = 0]
          /\ torn' = IF Parts \in holds[archive] THEN torn ELSE torn \union {r}
          /\ archive' = NoFile
          /\ Disturb(r)
  /\ UNCHANGED <<holds, last>>

\* send_file announces the length the file has now and opens it; it raises if
\* the name is gone.
Send(r) ==
  /\ step[r] = "send"
  /\ IF archive = NoFile
     THEN Proceed(r, "error500") /\ UNCHANGED <<open, pos, torn>>
     ELSE /\ Proceed(r, "stream")
          /\ open' = [open EXCEPT ![r] = archive]
          /\ pos' = [pos EXCEPT ![r] = 0]
          /\ torn' = IF Parts \in holds[archive] THEN torn ELSE torn \union {r}
  /\ UNCHANGED <<archive, holds, last, disturbed>>

\* The server reads and sends the next part, or zeros, or half a member, or
\* nothing at all.
Stream(r) ==
  /\ step[r] = "stream"
  /\ pos' = [pos EXCEPT ![r] = @ + 1]
  /\ torn' = IF pos'[r] \in holds[open[r]] THEN torn ELSE torn \union {r}
  /\ IF pos'[r] = Parts THEN Proceed(r, "served") ELSE UNCHANGED step
  /\ UNCHANGED <<archive, holds, open, last, disturbed>>

Over == \A r \in Requests : step[r] \in Answered
Terminating == Over /\ UNCHANGED downloadVars

DownloadNext ==
  \/ \E r \in Requests :
       \/ Check(r) \/ Unlink(r) \/ OpenArchive(r)
       \/ BeginMember(r) \/ EndMember(r) \/ WriteDirectory(r)
       \/ Send(r) \/ Stream(r)
  \/ Terminating

DownloadSpec == DownloadInit /\ [][DownloadNext]_downloadVars

------------------------------------------------------------------------------
(* Properties. *)

\* However the requests meet, the one that opened the archive last is answered
\* with a file, and what they leave on disk in the end is a whole archive, even if
\* several of them wrote it: a download can always be repeated.  (What that
\* request has sent may be torn: a slower writer of the same file puts
\* placeholders into what is complete already.)
LastIsWhole ==
  Over =>
    \A r \in last :
      /\ step[r] = "served"
      /\ archive # NoFile /\ holds[archive] = Whole

\* A download breaks, or sends a torn archive, only if another request took the
\* archive away or opened it in the meantime: one that was writing when it began
\* does no harm by what it goes on to write.
TornOnlyByOverlap ==
  \A r \in Requests : step[r] = "error500" \/ r \in torn => r \in disturbed
===============================================================================
