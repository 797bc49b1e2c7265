--------------------------- MODULE PrintDispatcher ---------------------------
(***************************************************************************)
(* The server's print dispatcher: one HTTP request enqueues a dispatch,    *)
(* the dispatches of a printer run one at a time, and a run uploads the    *)
(* file to the printer's SD card, crosses the durable start boundary and   *)
(* publishes the start command.                                            *)
(*                                                                         *)
(* An action is the code between two awaits.  Whatever the awaited call    *)
(* did and how it ended is part of the action that resumes after it.       *)
(*                                                                         *)
(* This module describes one life of the server process, its graceful      *)
(* shutdown included; DispatchRecovery adds crashes and restarts.          *)
(***************************************************************************)
EXTENDS DispatchJournal, FiniteSets

CONSTANTS
    Printers,
    Files,              \* remote names on a printer's SD card
    PrinterOf,          \* PrinterOf[j]: the printer dispatch j targets
    FileOf,             \* FileOf[j]: the remote name dispatch j uploads to
    NoJob,
    MaxUploadAttempts,  \* MAX_UPLOAD_ATTEMPTS
    KeptFinished,       \* how many finished dispatches the job list keeps
    MaxRetries,         \* bound on how often a user retries one dispatch
    MaxCancels,         \* bound on concurrent cancel requests for one idle dispatch
    MaxShutdowns        \* bound on shutdown signals: 0 or 1

ASSUME ConstantsAssumption ==
    /\ PrinterOf \in [Jobs -> Printers]
    /\ FileOf \in [Jobs -> Files]
    /\ NoJob \notin Jobs
    /\ MaxUploadAttempts \in Nat \ {0}
    /\ KeptFinished \in Nat
    /\ MaxRetries \in Nat
    /\ MaxCancels \in Nat
    /\ MaxShutdowns \in {0, 1}

VARIABLES
    phase,        \* "up", "draining" after a shutdown signal, "down"
    managed,      \* printers the manager was given in this life
    jobs,         \* the dispatcher's job list
    status,       \* status[j]: "none" before j exists, "lost" after a crash
    cancelReq,    \* cancelReq[j]: a cancellation was requested
    idleCancels,  \* idleCancels[j]: cancel requests awaiting the history row
    retries,      \* retries[j]: how often j was retried
    reserved,     \* printers reserved for a dispatch under preparation
    queue,        \* queue[p]: the runs chained on printer p, oldest first
    pc,           \* pc[j]: where the run (or the preparation) of j awaits
    attempt,      \* attempt[j]: the upload attempt of the run
    visited,      \* dispatches the shutdown loop is done with
    stopWait,     \* the dispatch whose cancellation that loop awaits
    sd,           \* sd[p][f]: whose bytes the SD card holds under name f
    published,    \* dispatches whose start command was published
    lossy         \* dispatches a journal write of which was lost

userVars == <<jobs, status, cancelReq, idleCancels, retries>>
runVars == <<reserved, queue, pc, attempt>>
serverVars == <<phase, managed, visited, stopWait>>
printerVars == <<sd, published>>
dispatcherVars == <<userVars, runVars, serverVars, printerVars, journalVars, lossy>>

-----------------------------------------------------------------------------

Active == {"queued", "uploading"}
Finished == {"sent", "failed", "cancelled"}
Statuses == Active \cup Finished \cup {"none", "lost"}

\* "preparing" is enqueueSnapshotPrint; the others are the awaits of runJob.
Awaits == {"idle", "preparing", "artifact", "transfer", "backoff", "cleanup", "record",
           "cleanupCaught", "recordCaught", "marking", "reserving", "failRecord"}

Running(j) == pc[j] \notin {"idle", "preparing"}

\* The printer manager forgets its printers when a shutdown begins.
getPrinter(p) == p \in managed /\ phase = "up"

hasActiveDispatchForPrinter(p) ==
    \/ p \in reserved
    \/ \E j \in jobs : PrinterOf[j] = p /\ status[j] \in Active

TypeOK ==
    /\ JournalTypeOK
    /\ phase \in {"up", "draining", "down"}
    /\ managed \subseteq Printers
    /\ jobs \subseteq Jobs
    /\ status \in [Jobs -> Statuses]
    /\ cancelReq \in [Jobs -> BOOLEAN]
    /\ idleCancels \in [Jobs -> Nat]
    /\ retries \in [Jobs -> Nat]
    /\ reserved \subseteq Printers
    /\ queue \in [Printers -> Seq(Jobs)]
    /\ pc \in [Jobs -> Awaits]
    /\ attempt \in [Jobs -> Nat]
    /\ visited \subseteq Jobs
    /\ stopWait \in Jobs \cup {NoJob}
    /\ sd \in [Printers -> [Files -> Jobs \cup {NoJob}]]
    /\ published \subseteq Jobs
    /\ lossy \subseteq Jobs

DispatcherInit ==
    /\ JournalInit
    /\ phase = "up"
    /\ managed = {}
    /\ jobs = {}
    /\ status = [j \in Jobs |-> "none"]
    /\ cancelReq = [j \in Jobs |-> FALSE]
    /\ idleCancels = [j \in Jobs |-> 0]
    /\ retries = [j \in Jobs |-> 0]
    /\ reserved = {}
    /\ queue = [p \in Printers |-> <<>>]
    /\ pc = [j \in Jobs |-> "idle"]
    /\ attempt = [j \in Jobs |-> 0]
    /\ visited = {}
    /\ stopWait = NoJob
    /\ sd = [p \in Printers |-> [f \in Files |-> NoJob]]
    /\ published = {}
    /\ lossy = {}

-----------------------------------------------------------------------------
(* Building blocks *)

\* finish(): the status changes whatever it was, and the journal is told.
Finish(j, s) ==
    /\ status' = [status EXCEPT ![j] = s]
    /\ chain' = Chained(j, StatusWrite(s))

\* enqueueForPrinter: chain a run of j behind the printer's other runs.
Enqueued(j) == [queue EXCEPT ![PrinterOf[j]] = Append(@, j)]

\* Mutant of EndRun: the ended run is not taken off its printer's chain.
EndRunHolding(j) ==
    /\ pc' = [pc EXCEPT ![j] = "idle"]
    /\ attempt' = [attempt EXCEPT ![j] = 0]
    /\ UNCHANGED <<reserved, queue>>

\* runJob returns and the printer's next run may begin.
EndRun(j) ==
    /\ pc' = [pc EXCEPT ![j] = "idle"]
    /\ attempt' = [attempt EXCEPT ![j] = 0]
    /\ queue' = [queue EXCEPT ![PrinterOf[j]] = Tail(@)]
    /\ UNCHANGED reserved

\* The run goes on to its next await.
Goto(j, where) ==
    /\ pc' = [pc EXCEPT ![j] = where]
    /\ UNCHANGED <<reserved, queue, attempt>>

\* runJob's catch branch: clean up after a cancellation, else fail.
Caught(j) ==
    IF cancelReq[j]
    THEN /\ Goto(j, "cleanupCaught")
         /\ UNCHANGED <<status, chain>>
    ELSE /\ Finish(j, "failed")
         /\ EndRun(j)

Stored(j) == [sd EXCEPT ![PrinterOf[j]][FileOf[j]] = j]
Erased(p, f) == [sd EXCEPT ![p][f] = NoJob]

-----------------------------------------------------------------------------
(* Enqueueing *)

\* The printer manager starts managing printer p.
Register(p) ==
    /\ phase = "up"
    /\ p \notin managed
    /\ managed' = managed \cup {p}
    /\ UNCHANGED <<userVars, runVars, phase, visited, stopWait, printerVars, journalVars, lossy>>

\* Mutant of Submit: the printer is not reserved.
SubmitUnreserved(j) ==
    LET p == PrinterOf[j] IN
    /\ status[j] = "none" /\ pc[j] = "idle"
    /\ p \in managed
    /\ ~hasActiveDispatchForPrinter(p)
    /\ pc' = [pc EXCEPT ![j] = "preparing"]
    /\ UNCHANGED <<userVars, reserved, queue, attempt, serverVars, printerVars, journalVars, lossy>>

\* enqueueSnapshotPrint up to its first await after the checks: the printer
\* is reserved in the same step that found it free. The printer was looked up
\* before an await, so a shutdown may have begun since.
Submit(j) ==
    LET p == PrinterOf[j] IN
    /\ status[j] = "none" /\ pc[j] = "idle"
    /\ p \in managed
    /\ ~hasActiveDispatchForPrinter(p)
    /\ reserved' = reserved \cup {p}
    /\ pc' = [pc EXCEPT ![j] = "preparing"]
    /\ UNCHANGED <<userVars, queue, attempt, serverVars, printerVars, journalVars, lossy>>

\* The replica copy or the parse failed: the request is refused.
PrepareFails(j) ==
    /\ pc[j] = "preparing"
    /\ reserved' = reserved \ {PrinterOf[j]}
    /\ pc' = [pc EXCEPT ![j] = "idle"]
    /\ UNCHANGED <<userVars, queue, attempt, serverVars, printerVars, journalVars, lossy>>

\* The job is listed, journalled and chained, the finished jobs beyond the
\* kept ones are dropped (which of them is left open), and the reservation
\* ends.
PrepareDone(j) ==
    LET finished == {k \in jobs : status[k] \in Finished} IN
    /\ pc[j] = "preparing"
    /\ \E gone \in SUBSET finished :
        /\ \/ gone = {} /\ Cardinality(finished) <= KeptFinished
           \/ Cardinality(finished) - Cardinality(gone) = KeptFinished
        /\ jobs' = (jobs \ gone) \cup {j}
    /\ status' = [status EXCEPT ![j] = "queued"]
    /\ chain' = Chained(j, InsertWrite)
    /\ queue' = Enqueued(j)
    /\ reserved' = reserved \ {PrinterOf[j]}
    /\ pc' = [pc EXCEPT ![j] = "idle"]
    /\ UNCHANGED <<cancelReq, idleCancels, retries, attempt, serverVars, printerVars, row, lossy>>

-----------------------------------------------------------------------------
(* The run of a dispatch *)

\* Mutant of AtHead: a run does not wait for the printer's other runs.
AnywhereInQueue(j) == \E i \in DOMAIN queue[PrinterOf[j]] : queue[PrinterOf[j]][i] = j

AtHead(j) == queue[PrinterOf[j]] # <<>> /\ Head(queue[PrinterOf[j]]) = j

\* Mutant of StartRun: a run does not look whether it was cancelled.
StartRunUnchecked(j) ==
    /\ AtHead(j) /\ pc[j] = "idle"
    /\ IF ~getPrinter(PrinterOf[j])
       THEN EndRun(j) /\ Finish(j, "failed")
       ELSE /\ Goto(j, "artifact")
            /\ status' = [status EXCEPT ![j] = "uploading"]
            /\ chain' = Chained(j, StatusWrite("uploading"))
    /\ UNCHANGED <<jobs, cancelReq, idleCancels, retries, serverVars, printerVars, row, lossy>>

\* runJob up to its first await.
StartRun(j) ==
    /\ AtHead(j) /\ pc[j] = "idle"
    /\ IF cancelReq[j] \/ status[j] = "cancelled"
       THEN EndRun(j) /\ UNCHANGED <<status, chain>>
       ELSE IF ~getPrinter(PrinterOf[j])
       THEN EndRun(j) /\ Finish(j, "failed")
       ELSE /\ Goto(j, "artifact")
            /\ status' = [status EXCEPT ![j] = "uploading"]
            /\ chain' = Chained(j, StatusWrite("uploading"))
    /\ UNCHANGED <<jobs, cancelReq, idleCancels, retries, serverVars, printerVars, row, lossy>>

\* The top of the upload loop: give up when cancelled, else transfer.
TryUpload(j) ==
    IF cancelReq[j]
    THEN Goto(j, "cleanupCaught")
    ELSE /\ pc' = [pc EXCEPT ![j] = "transfer"]
         /\ attempt' = [attempt EXCEPT ![j] = @ + 1]
         /\ UNCHANGED <<reserved, queue>>

ArtifactReady(j) ==
    /\ pc[j] = "artifact"
    /\ TryUpload(j)
    /\ UNCHANGED <<userVars, serverVars, printerVars, journalVars, lossy>>

ArtifactFails(j) ==
    /\ pc[j] = "artifact"
    /\ Caught(j)
    /\ UNCHANGED <<jobs, cancelReq, idleCancels, retries, serverVars, printerVars, row, lossy>>

\* Mutant of UploadDone: the write of the boundary is not awaited.
UploadDoneUnawaited(j) ==
    /\ pc[j] = "transfer"
    /\ sd' = Stored(j)
    /\ IF cancelReq[j]
       THEN Goto(j, "cleanup") /\ UNCHANGED chain
       ELSE Goto(j, "reserving") /\ chain' = Chained(j, MarkWrite)
    /\ UNCHANGED <<userVars, serverVars, published, row, lossy>>

\* The bytes are on the SD card. A cancellation is looked at here for the
\* last time; otherwise the start boundary is written to the journal.
UploadDone(j) ==
    /\ pc[j] = "transfer"
    /\ sd' = Stored(j)
    /\ IF cancelReq[j]
       THEN Goto(j, "cleanup") /\ UNCHANGED chain
       ELSE Goto(j, "marking") /\ chain' = Chained(j, MarkWrite)
    /\ UNCHANGED <<userVars, serverVars, published, row, lossy>>

\* Mutant of UploadFails: out of attempts, the run goes on to the start.
UploadFailsUnnoticed(j) ==
    /\ pc[j] = "transfer"
    /\ sd' \in {sd, Stored(j)}
    /\ IF attempt[j] < MaxUploadAttempts /\ ~cancelReq[j]
       THEN Goto(j, "backoff") /\ UNCHANGED chain
       ELSE Goto(j, "marking") /\ chain' = Chained(j, MarkWrite)
    /\ UNCHANGED <<userVars, serverVars, published, row, lossy>>

\* The transfer failed or was aborted; some of its bytes may have landed.
UploadFails(j) ==
    /\ pc[j] = "transfer"
    /\ sd' \in {sd, Stored(j)}
    /\ IF attempt[j] < MaxUploadAttempts /\ ~cancelReq[j]
       THEN Goto(j, "backoff") /\ UNCHANGED <<status, chain>>
       ELSE Caught(j)
    /\ UNCHANGED <<jobs, cancelReq, idleCancels, retries, serverVars, published, row, lossy>>

BackoffEnds(j) ==
    /\ pc[j] = "backoff"
    /\ TryUpload(j)
    /\ UNCHANGED <<userVars, serverVars, printerVars, journalVars, lossy>>

\* cleanupUploadedArtifact: delete the remote name, ignoring a failure.
CleanUp(j) ==
    /\ pc[j] \in {"cleanup", "cleanupCaught"}
    /\ sd' \in {sd, Erased(PrinterOf[j], FileOf[j])}
    /\ Goto(j, IF pc[j] = "cleanup" THEN "record" ELSE "recordCaught")
    /\ UNCHANGED <<userVars, serverVars, published, journalVars, lossy>>

\* cancelTrackedPrintJobRecord returned; the dispatch is cancelled.
RecordCancelled(j) ==
    /\ pc[j] \in {"record", "recordCaught"}
    /\ Finish(j, "cancelled")
    /\ EndRun(j)
    /\ UNCHANGED <<jobs, cancelReq, idleCancels, retries, serverVars, printerVars, row, lossy>>

\* It threw after a completed upload: the catch branch cleans up again.
RecordFails(j) ==
    /\ pc[j] = "record"
    /\ Caught(j)
    /\ UNCHANGED <<jobs, cancelReq, idleCancels, retries, serverVars, printerVars, row, lossy>>

\* markDispatchStartAttempted resolved: the boundary is durable.
MarkCommits(j) ==
    /\ pc[j] = "marking"
    /\ chain[j] # <<>> /\ Head(chain[j]).op = "mark"
    /\ row[j] # NoRow
    /\ CommitHead(j)
    /\ Goto(j, "reserving")
    /\ UNCHANGED <<userVars, serverVars, printerVars, lossy>>

\* It rejected, whether or not the database had applied it: no start is
\* attempted.
MarkRejects(j) ==
    /\ pc[j] = "marking"
    /\ chain[j] # <<>> /\ Head(chain[j]).op = "mark"
    /\ row' \in {row, [row EXCEPT ![j] = Applied(@, MarkWrite)]}
    /\ chain' = [chain EXCEPT ![j] = Append(Tail(@), StatusWrite("failed"))]
    /\ status' = [status EXCEPT ![j] = "failed"]
    /\ EndRun(j)
    /\ UNCHANGED <<jobs, cancelReq, idleCancels, retries, serverVars, printerVars, lossy>>

\* Reserving the history row (or registering the print source) threw.
ReserveFails(j) ==
    /\ pc[j] = "reserving"
    /\ Caught(j)
    /\ UNCHANGED <<jobs, cancelReq, idleCancels, retries, serverVars, printerVars, row, lossy>>

\* The history row is reserved and, with no await in between, the start is
\* published and the dispatch is done.
Publish(j) ==
    /\ pc[j] = "reserving"
    /\ getPrinter(PrinterOf[j])
    /\ published' = published \cup {j}
    /\ Finish(j, "sent")
    /\ EndRun(j)
    /\ UNCHANGED <<jobs, cancelReq, idleCancels, retries, serverVars, sd, row, lossy>>

\* publishCommand returned false: the printer or its bridge is not connected.
PublishRefused(j) ==
    /\ pc[j] = "reserving"
    /\ Goto(j, "failRecord")
    /\ UNCHANGED <<userVars, serverVars, printerVars, journalVars, lossy>>

\* failTrackedPrintJobStart returned, or threw into the catch branch.
StartFailed(j) ==
    /\ pc[j] = "failRecord"
    /\ \/ Finish(j, "failed") /\ EndRun(j)
       \/ Caught(j)
    /\ UNCHANGED <<jobs, cancelReq, idleCancels, retries, serverVars, printerVars, row, lossy>>

RunStep(j) ==
    \/ StartRun(j) \/ ArtifactReady(j) \/ ArtifactFails(j)
    \/ UploadDone(j) \/ UploadFails(j) \/ BackoffEnds(j)
    \/ CleanUp(j) \/ RecordCancelled(j) \/ RecordFails(j)
    \/ MarkCommits(j) \/ MarkRejects(j) \/ ReserveFails(j)
    \/ Publish(j) \/ PublishRefused(j) \/ StartFailed(j)

-----------------------------------------------------------------------------
(* Requests about a listed dispatch *)

\* Mutant of Cancel: a dispatch is only flagged, whatever its status.
CancelFlagged(j) ==
    /\ j \in jobs
    /\ status[j] \in {"queued", "failed", "uploading"}
    /\ cancelReq' = [cancelReq EXCEPT ![j] = TRUE]
    /\ UNCHANGED <<jobs, status, idleCancels, retries, runVars, serverVars, printerVars, journalVars, lossy>>

\* cancel() up to its await. An uploading dispatch is only flagged (and its
\* transfer aborted); an idle one is cancelled after its history row.
Cancel(j) ==
    /\ j \in jobs
    /\ status[j] \in {"queued", "failed", "uploading"}
    /\ cancelReq' = [cancelReq EXCEPT ![j] = TRUE]
    /\ IF status[j] = "uploading"
       THEN UNCHANGED idleCancels
       ELSE /\ idleCancels[j] < MaxCancels
            /\ idleCancels' = [idleCancels EXCEPT ![j] = @ + 1]
    /\ UNCHANGED <<jobs, status, retries, runVars, serverVars, printerVars, journalVars, lossy>>

\* cancelIdleJob after its await: cancelled, whatever the status is by now.
IdleCancelDone(j) ==
    /\ idleCancels[j] > 0
    /\ idleCancels' = [idleCancels EXCEPT ![j] = @ - 1]
    /\ Finish(j, "cancelled")
    /\ UNCHANGED <<jobs, cancelReq, retries, runVars, serverVars, printerVars, row, lossy>>

\* Mutant of Retry: any finished dispatch can be retried.
RetryFinished(j) ==
    /\ j \in jobs
    /\ status[j] \in Finished
    /\ retries[j] < MaxRetries
    /\ status' = [status EXCEPT ![j] = "queued"]
    /\ cancelReq' = [cancelReq EXCEPT ![j] = FALSE]
    /\ retries' = [retries EXCEPT ![j] = @ + 1]
    /\ chain' = Chained(j, RearmWrite)
    /\ queue' = Enqueued(j)
    /\ UNCHANGED <<jobs, idleCancels, reserved, pc, attempt, serverVars, printerVars, row, lossy>>

\* retry(): no reservation, no active-dispatch check, no print guard.
Retry(j) ==
    /\ j \in jobs
    /\ status[j] = "failed"
    /\ retries[j] < MaxRetries
    /\ status' = [status EXCEPT ![j] = "queued"]
    /\ cancelReq' = [cancelReq EXCEPT ![j] = FALSE]
    /\ retries' = [retries EXCEPT ![j] = @ + 1]
    /\ chain' = Chained(j, RearmWrite)
    /\ queue' = Enqueued(j)
    /\ UNCHANGED <<jobs, idleCancels, reserved, pc, attempt, serverVars, printerVars, row, lossy>>

-----------------------------------------------------------------------------
(* Graceful shutdown *)

\* The signal handler: the dispatcher's stop() begins and the printer
\* manager forgets its printers.
Shutdown ==
    /\ phase = "up"
    /\ MaxShutdowns = 1
    /\ phase' = "draining"
    /\ UNCHANGED <<userVars, runVars, managed, visited, stopWait, printerVars, journalVars, lossy>>

\* The loop of stop() looks at one more listed dispatch (in any order).
StopVisit(j) ==
    /\ phase = "draining" /\ stopWait = NoJob
    /\ j \in jobs \ visited
    /\ visited' = visited \cup {j}
    /\ cancelReq' = [cancelReq EXCEPT ![j] = @ \/ status[j] \in Active]
    /\ stopWait' = IF status[j] = "queued" THEN j ELSE NoJob
    /\ UNCHANGED <<jobs, status, idleCancels, retries, runVars, phase, managed,
                   printerVars, journalVars, lossy>>

StopCancelDone(j) ==
    /\ stopWait = j
    /\ stopWait' = NoJob
    /\ Finish(j, "cancelled")
    /\ UNCHANGED <<jobs, cancelReq, idleCancels, retries, runVars, phase, managed, visited,
                   printerVars, row, lossy>>

-----------------------------------------------------------------------------
(* The database *)

\* A best-effort journal write settles: committed, or lost with a warning.
JournalSettles(j) ==
    /\ chain[j] # <<>> /\ Head(chain[j]).op # "mark"
    /\ \/ CommitHead(j) /\ UNCHANGED lossy
       \/ DropHead(j) /\ lossy' = lossy \cup {j}
    /\ UNCHANGED <<userVars, runVars, serverVars, printerVars>>

DispatcherNext ==
    \/ \E j \in Jobs :
        \/ Submit(j) \/ PrepareFails(j) \/ PrepareDone(j)
        \/ RunStep(j)
        \/ Cancel(j) \/ IdleCancelDone(j) \/ Retry(j)
        \/ StopVisit(j) \/ StopCancelDone(j)
        \/ JournalSettles(j)
    \/ \E p \in Printers : Register(p)
    \/ Shutdown

DispatcherSpec == DispatcherInit /\ [][DispatcherNext]_dispatcherVars

\* Every await of the server ends: RPCs time out, the database answers or
\* its client rejects, backoffs are timers.  No user request, shutdown or
\* printer is assumed to act.
DispatcherFairness ==
    /\ \A j \in Jobs :
        /\ WF_dispatcherVars(PrepareFails(j) \/ PrepareDone(j))
        /\ WF_dispatcherVars(RunStep(j))
        /\ WF_dispatcherVars(IdleCancelDone(j))
        /\ WF_dispatcherVars(StopCancelDone(j))
        /\ WF_dispatcherVars(JournalSettles(j))

FairDispatcherSpec == DispatcherSpec /\ DispatcherFairness

-----------------------------------------------------------------------------
(* Properties *)

\* The start boundary is write-ahead: when a start command has been
\* published, the dispatch's journal row, if it has one, already says so, and
\* no pending write takes it back (dispatch-journal.ts, the rob-1 contract).
StartIsMarked == \A j \in published : row[j] = NoRow \/ row[j].attempted

\* Two dispatches of one printer are never active together, a dispatch under
\* preparation included, unless a user retried one of them: the reservation
\* covers the awaits between the check and the listing.
OneActiveUnlessRetried ==
    \A j, k \in Jobs :
        /\ j # k /\ PrinterOf[j] = PrinterOf[k]
        /\ retries[j] = 0 /\ retries[k] = 0
        => ~(/\ pc[j] = "preparing" \/ (j \in jobs /\ status[j] \in Active)
             /\ pc[k] = "preparing" \/ (k \in jobs /\ status[k] \in Active))

\* The runs of one printer are serialized, retries and cancellations included.
RunsSerialized ==
    \A j, k \in Jobs :
        Running(j) /\ Running(k) /\ PrinterOf[j] = PrinterOf[k] => j = k

\* Once all its writes have settled and none was lost, the journal row of a
\* listed dispatch carries the status the dispatcher reports: the per-id
\* chain keeps the writes in call order.
JournalAgrees ==
    \A j \in jobs \ lossy :
        chain[j] = <<>> => row[j] # NoRow /\ row[j].status = status[j]

\* What a dispatch that was never retried is reported to have come to stays
\* so: a late cancellation or a shutdown never turns a sent dispatch into a
\* cancelled one, and a cancelled one is never sent.
OutcomeIsFinal ==
    [][\A j \in jobs :
        status[j] \in {"sent", "cancelled"} /\ retries'[j] = 0 /\ j \in jobs'
            => status'[j] = status[j] /\ (j \in published' => j \in published)]_dispatcherVars

\* The start command of a dispatch goes out at most once, retries included: a
\* dispatch that was published never becomes sent a second time.
StartedOnce ==
    [][\A j \in published : status'[j] = "sent" => status[j] = "sent"]_dispatcherVars

\* A start command is published only while the SD card holds the bytes this
\* very dispatch uploaded, although names are shared between dispatches.
StartUsesOwnUpload ==
    [][\A j \in published' \ published : sd[PrinterOf[j]][FileOf[j]] = j]_dispatcherVars

\* A run of j is chained on its printer.
InQueue(j) == \E i \in 1..Len(queue[PrinterOf[j]]) : queue[PrinterOf[j]][i] = j

\* Nothing is stranded: a dispatch reported as unfinished is listed, so that
\* the checks of other requests and the shutdown see it; one reported as
\* uploading is being run; a queued one has a run chained or a cancellation
\* under way; and a run that waits for the journal's mark waits for a write
\* that is still in its chain.
NothingStranded ==
    \A j \in Jobs :
        /\ status[j] \in Active => j \in jobs
        /\ status[j] = "uploading" => Running(j)
        /\ status[j] = "queued" => InQueue(j) \/ idleCancels[j] > 0 \/ stopWait = j
        /\ pc[j] = "marking" => \E i \in 1..Len(chain[j]) : chain[j][i].op = "mark"

\* Every listed dispatch is eventually finished, whatever fails or is
\* cancelled or retried on the way, and lets the printer's next one run.
DispatchesFinish ==
    \A j \in Jobs : (j \in jobs /\ status[j] \in Active) ~> (status[j] \in Finished)

\* What the dispatcher tells a second submitter and its comment on the
\* reservation: one dispatch per printer at a time.
OneActivePerPrinter ==
    \A j, k \in jobs :
        /\ j # k /\ PrinterOf[j] = PrinterOf[k]
        => ~(status[j] \in Active /\ status[k] \in Active)
=============================================================================
