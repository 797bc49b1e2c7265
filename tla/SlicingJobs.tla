------------------------------ MODULE SlicingJobs ------------------------------
(***************************************************************************)
(* The slicing jobs of the workspaces: queued for a slot of the slicer     *)
(* unless the result cache has their output, run, cancelled, retried,      *)
(* deleted, and hydrated from their state file after a restart.            *)
(*                                                                         *)
(* An action is the synchronous code between two awaits.  The start        *)
(* callback of a job never calls the scheduler back, so all claims of a    *)
(* call to it belong to the step; which of the waiting tickets it claims   *)
(* first is the matter of SlicingScheduler and left open here.             *)
(***************************************************************************)
EXTENDS Naturals, FiniteSets

CONSTANTS
    Jobs,
    MaxConcurrentJobs,  \* slots of the slicer
    MaxQueuedJobs,      \* SLICING_MAX_QUEUED_JOBS
    MaxRetries,         \* bound on the retries of a job
    MaxRestarts         \* bound on the restarts of the server

ASSUME SlicingAssumption ==
    /\ IsFiniteSet(Jobs)
    /\ MaxConcurrentJobs \in Nat \ {0} /\ MaxQueuedJobs \in Nat
    /\ MaxRetries \in Nat /\ MaxRestarts \in Nat

VARIABLES
    status,     \* status[j]; "none" before it exists, "gone" when it is in the map no more
    cancelReq,  \* cancelRequested
    lost,       \* lostReason is set
    aborted,    \* the run's controller is aborted
    lookup,     \* where resolveCachedResult is: "none", "probing" or "covering" (thumbnail)
    run,        \* where run() is, see Awaits
    output,     \* outputFileId is set
    stored,     \* the file made for the job: "none", "kept", "discarded" or, after a restart
                \* that forgot it, "stray"
    retries,
    waiting, active,    \* the tickets of the scheduler
    disk,       \* the state file: per job its status and whether outputFileId is set
    restarts

jobVars == <<status, cancelReq, lost, aborted, retries>>
workVars == <<lookup, run, output, stored>>
slotVars == <<waiting, active>>
lifeVars == <<disk, restarts>>
slicingVars == <<jobVars, workVars, slotVars, lifeVars>>

Busy == {"preparing", "slicing", "saving"}
Terminal == {"ready", "failed", "cancelled"}
Statuses == Busy \cup Terminal \cup {"none", "queued", "gone"}

\* "preparing", "slicing": in runSlicerJob; "staging": the slicer has answered and
\* the result is copied; "collecting", "embedding": up to the last look at a
\* cancellation; "persisting", "preserving": saving the artifact, and what follows;
\* "failing": the catch branch, "failingSave" when the live output is no longer
\* watched; "leaving": the finally branch.
Awaits == {"none", "preparing", "slicing", "staging", "collecting", "embedding", "persisting",
           "preserving", "failing", "failingSave", "leaving"}

\* The live output is polled and the watchdog may give up.
Watched(j) == run[j] \in {"preparing", "slicing", "staging", "failing"}

SlicingTypeOK ==
    /\ status \in [Jobs -> Statuses]
    /\ cancelReq \in [Jobs -> BOOLEAN] /\ lost \in [Jobs -> BOOLEAN] /\ aborted \in [Jobs -> BOOLEAN]
    /\ lookup \in [Jobs -> {"none", "probing", "covering"}]
    /\ run \in [Jobs -> Awaits]
    /\ output \in [Jobs -> BOOLEAN]
    /\ stored \in [Jobs -> {"none", "kept", "discarded", "stray"}]
    /\ retries \in [Jobs -> 0..MaxRetries]
    /\ waiting \subseteq Jobs /\ active \subseteq Jobs /\ waiting \cap active = {}
    /\ disk \in [Jobs -> [status : Statuses, output : BOOLEAN]]
    /\ restarts \in 0..MaxRestarts

SlicingInit ==
    /\ status = [j \in Jobs |-> "none"]
    /\ cancelReq = [j \in Jobs |-> FALSE]
    /\ lost = [j \in Jobs |-> FALSE]
    /\ aborted = [j \in Jobs |-> FALSE]
    /\ lookup = [j \in Jobs |-> "none"]
    /\ run = [j \in Jobs |-> "none"]
    /\ output = [j \in Jobs |-> FALSE]
    /\ stored = [j \in Jobs |-> "none"]
    /\ retries = [j \in Jobs |-> 0]
    /\ waiting = {} /\ active = {}
    /\ disk = [j \in Jobs |-> [status |-> "none", output |-> FALSE]]
    /\ restarts = 0

-----------------------------------------------------------------------------
(* Slots *)

\* What the scheduler may claim of the tickets w while a hold slots: as many
\* as there are slots left.
Claims(w, a) ==
    {c \in SUBSET w :
        /\ Cardinality(c) <= MaxConcurrentJobs - Cardinality(a)
        /\ c = w \/ Cardinality(c) = MaxConcurrentJobs - Cardinality(a)}

\* A start callback marks its job and enters run().
Begun(f, c) == [j \in Jobs |-> IF j \in c THEN "preparing" ELSE f[j]]

\* Mutant of PumpQueue: a retried job gets a ticket although it has one, that
\* of the run it failed in.
PumpQueueTwice(s, r, w, a) ==
    LET queued == {j \in Jobs : s[j] = "queued" /\ ~cancelReq'[j] /\ lookup'[j] # "probing"} IN
    \E c \in Claims(w \cup queued, a) :
        /\ status' = Begun(s, c)
        /\ run' = Begun(r, c)
        /\ waiting' = (w \cup queued) \ c
        /\ active' = a \cup c

\* pumpQueue, after the rest of its step has left status s, runs r and tickets
\* w and a: every queued job not probing the cache is enqueued if it is not.
PumpQueue(s, r, w, a) ==
    LET queued == {j \in Jobs \ a : s[j] = "queued" /\ ~cancelReq'[j] /\ lookup'[j] # "probing"} IN
    \E c \in Claims(w \cup queued, a) :
        /\ status' = Begun(s, c)
        /\ run' = Begun(r, c)
        /\ waiting' = (w \cup queued) \ c
        /\ active' = a \cup c

-----------------------------------------------------------------------------
(* Requests *)

QueueHasRoom == Cardinality({j \in Jobs : status[j] = "queued"}) < MaxQueuedJobs

\* A hidden output for a known bridge is looked up in the cache first.
Enqueue(j) ==
    /\ status[j] = "none"
    /\ QueueHasRoom
    /\ \E probes \in BOOLEAN : lookup' = [lookup EXCEPT ![j] = IF probes THEN "probing" ELSE "none"]
    /\ UNCHANGED cancelReq
    /\ IF lookup'[j] = "probing"
       THEN status' = [status EXCEPT ![j] = "queued"] /\ UNCHANGED <<run, slotVars>>
       ELSE PumpQueue([status EXCEPT ![j] = "queued"], run, waiting, active)
    /\ UNCHANGED <<lost, aborted, retries, output, stored, lifeVars>>

\* Mutant of Cancel: the scheduler keeps the ticket of a cancelled job.
CancelKeepsTicket(j) ==
    /\ status[j] \in Busy \cup {"queued"}
    /\ cancelReq' = [cancelReq EXCEPT ![j] = TRUE]
    /\ UNCHANGED lookup
    /\ IF status[j] = "queued"
       THEN /\ PumpQueue([status EXCEPT ![j] = "cancelled"], run, waiting, active)
            /\ UNCHANGED aborted
       ELSE /\ aborted' = [aborted EXCEPT ![j] = run[j] # "none"]
            /\ UNCHANGED <<status, run, slotVars>>
    /\ UNCHANGED <<lost, retries, output, stored, lifeVars>>

\* A queued job is cancelled at once; a run is told, and a cached result may
\* be on its way without one.
Cancel(j) ==
    /\ status[j] \in Busy \cup {"queued"}
    /\ cancelReq' = [cancelReq EXCEPT ![j] = TRUE]
    /\ UNCHANGED lookup
    /\ IF status[j] = "queued"
       THEN /\ PumpQueue([status EXCEPT ![j] = "cancelled"], run, waiting \ {j}, active)
            /\ UNCHANGED aborted
       ELSE /\ aborted' = [aborted EXCEPT ![j] = run[j] # "none"]
            /\ UNCHANGED <<status, run, slotVars>>
    /\ UNCHANGED <<lost, retries, output, stored, lifeVars>>

\* Mutant of Retry: a retry does not count against the queue.
RetryUnlimited(j) ==
    /\ status[j] = "failed" /\ retries[j] < MaxRetries
    /\ cancelReq' = [cancelReq EXCEPT ![j] = FALSE]
    /\ lost' = [lost EXCEPT ![j] = FALSE]
    /\ aborted' = [aborted EXCEPT ![j] = FALSE]
    /\ output' = [output EXCEPT ![j] = FALSE]
    /\ retries' = [retries EXCEPT ![j] = @ + 1]
    /\ UNCHANGED lookup
    /\ PumpQueue([status EXCEPT ![j] = "queued"], run, waiting, active)
    /\ UNCHANGED <<stored, lifeVars>>

\* The run that failed may not have released its slot yet.
Retry(j) ==
    /\ status[j] = "failed" /\ retries[j] < MaxRetries
    /\ QueueHasRoom
    /\ cancelReq' = [cancelReq EXCEPT ![j] = FALSE]
    /\ lost' = [lost EXCEPT ![j] = FALSE]
    /\ aborted' = [aborted EXCEPT ![j] = FALSE]
    /\ output' = [output EXCEPT ![j] = FALSE]
    /\ retries' = [retries EXCEPT ![j] = @ + 1]
    /\ UNCHANGED lookup
    /\ PumpQueue([status EXCEPT ![j] = "queued"], run, waiting, active)
    /\ UNCHANGED <<stored, lifeVars>>

\* The library keeps the file of a ready job.
Delete(j) ==
    /\ status[j] \in Terminal
    /\ status' = [status EXCEPT ![j] = "gone"]
    /\ UNCHANGED <<cancelReq, lost, aborted, retries, workVars, slotVars, lifeVars>>

-----------------------------------------------------------------------------
(* The cache lookup *)

\* Mutant of LookupMisses: a job without a hit is not queued.
LookupMissesUnpumped(j) ==
    /\ lookup[j] = "probing"
    /\ lookup' = [lookup EXCEPT ![j] = "none"]
    /\ UNCHANGED <<jobVars, run, slotVars, output, stored, lifeVars>>

\* No hit, or no cache, target or answer: the job is queued like any other.
LookupMisses(j) ==
    /\ lookup[j] = "probing"
    /\ lookup' = [lookup EXCEPT ![j] = "none"]
    /\ UNCHANGED cancelReq
    /\ IF status[j] = "queued"
       THEN PumpQueue(status, run, waiting, active)
       ELSE UNCHANGED <<status, run, slotVars>>
    /\ UNCHANGED <<lost, aborted, retries, output, stored, lifeVars>>

\* Mutant of LookupHits: the copy made for a job cancelled meanwhile is forgotten.
LookupHitsLate(j) ==
    /\ lookup[j] = "probing"
    /\ IF status[j] = "queued"
       THEN /\ status' = [status EXCEPT ![j] = "saving"]
            /\ output' = [output EXCEPT ![j] = TRUE]
            /\ lookup' = [lookup EXCEPT ![j] = "covering"]
       ELSE lookup' = [lookup EXCEPT ![j] = "none"] /\ UNCHANGED <<status, output>>
    /\ stored' = [stored EXCEPT ![j] = "kept"]
    /\ UNCHANGED <<cancelReq, lost, aborted, retries, run, slotVars, lifeVars>>

\* A copy of the cached output was made for the job, which may have been
\* cancelled, and deleted, meanwhile.
LookupHits(j) ==
    /\ lookup[j] = "probing"
    /\ IF status[j] = "queued"
       THEN /\ status' = [status EXCEPT ![j] = "saving"]
            /\ output' = [output EXCEPT ![j] = TRUE]
            /\ stored' = [stored EXCEPT ![j] = "kept"]
            /\ lookup' = [lookup EXCEPT ![j] = "covering"]
       ELSE /\ stored' = [stored EXCEPT ![j] = "discarded"]
            /\ lookup' = [lookup EXCEPT ![j] = "none"]
            /\ UNCHANGED <<status, output>>
    /\ UNCHANGED <<cancelReq, lost, aborted, retries, run, slotVars, lifeVars>>

\* The cover is there; a job cancelled meanwhile keeps only the id of the copy.
CoverDone(j) ==
    /\ lookup[j] = "covering"
    /\ lookup' = [lookup EXCEPT ![j] = "none"]
    /\ IF cancelReq[j]
       THEN /\ status' = [status EXCEPT ![j] = "cancelled"]
            /\ stored' = [stored EXCEPT ![j] = "discarded"]
       ELSE status' = [status EXCEPT ![j] = "ready"] /\ UNCHANGED stored
    /\ UNCHANGED <<cancelReq, lost, aborted, retries, run, output, slotVars, lifeVars>>

-----------------------------------------------------------------------------
(* A run *)

\* The run goes on to await a, its job having status s.
Goto(j, a, s) ==
    /\ run' = [run EXCEPT ![j] = a]
    /\ status' = [status EXCEPT ![j] = s]
    /\ UNCHANGED <<cancelReq, lost, aborted, retries, lookup, slotVars, lifeVars>>

\* The project is prepared, whatever was cancelled meanwhile.
Prepared(j) == run[j] = "preparing" /\ Goto(j, "slicing", "slicing") /\ UNCHANGED <<output, stored>>

\* The slicer answered; an aborted request does not.
Sliced(j) ==
    /\ run[j] = "slicing" /\ ~aborted[j]
    /\ Goto(j, "staging", status[j])
    /\ UNCHANGED <<output, stored>>

SliceFails(j) ==
    /\ run[j] \in {"preparing", "slicing"}
    /\ Goto(j, "failing", status[j])
    /\ UNCHANGED <<output, stored>>

\* The result is staged and the watchdog switched off.
Staged(j) == run[j] = "staging" /\ Goto(j, "collecting", status[j]) /\ UNCHANGED <<output, stored>>

Collected(j) == run[j] = "collecting" /\ Goto(j, "embedding", "saving") /\ UNCHANGED <<output, stored>>

\* Mutant of Embedded: the last look at a cancellation is missing.
EmbeddedUnchecked(j) == run[j] = "embedding" /\ Goto(j, "persisting", status[j]) /\ UNCHANGED <<output, stored>>

\* The last look at a cancellation.
Embedded(j) ==
    /\ run[j] = "embedding"
    /\ IF cancelReq[j] \/ aborted[j] THEN Goto(j, "leaving", "cancelled") ELSE Goto(j, "persisting", status[j])
    /\ UNCHANGED <<output, stored>>

Persisted(j) ==
    /\ run[j] = "persisting"
    /\ Goto(j, "preserving", status[j])
    /\ output' = [output EXCEPT ![j] = TRUE]
    /\ stored' = [stored EXCEPT ![j] = "kept"]

PersistFails(j) == run[j] = "persisting" /\ Goto(j, "failingSave", status[j]) /\ UNCHANGED <<output, stored>>

\* Keeping the project, the cache entry and the cover are best effort.
Preserved(j) == run[j] = "preserving" /\ Goto(j, "leaving", "ready") /\ UNCHANGED <<output, stored>>

Failed(j) ==
    /\ run[j] \in {"failing", "failingSave"}
    /\ Goto(j, "leaving",
            IF lost[j] /\ ~cancelReq[j] THEN "failed"
            ELSE IF cancelReq[j] \/ aborted[j] THEN "cancelled" ELSE "failed")
    /\ UNCHANGED <<output, stored>>

\* Mutant of Leave: the queue is not pumped when a run ends.
LeaveUnpumped(j) ==
    /\ run[j] = "leaving"
    /\ aborted' = [aborted EXCEPT ![j] = FALSE]
    /\ \E c \in Claims(waiting, active \ {j}) :
        /\ status' = Begun(status, c)
        /\ run' = Begun([run EXCEPT ![j] = "none"], c)
        /\ waiting' = waiting \ c
        /\ active' = (active \ {j}) \cup c
    /\ UNCHANGED <<cancelReq, lookup, lost, retries, output, stored, lifeVars>>

\* The temporary files are gone: the slot is released and, for a job retried
\* since, the queue pumped.
Leave(j) ==
    /\ run[j] = "leaving"
    /\ aborted' = [aborted EXCEPT ![j] = FALSE]
    /\ UNCHANGED <<cancelReq, lookup>>
    /\ \E c \in Claims(waiting, active \ {j}) :
        PumpQueue(Begun(status, c), Begun([run EXCEPT ![j] = "none"], c),
                  waiting \ c, (active \ {j}) \cup c)
    /\ UNCHANGED <<lost, retries, output, stored, lifeVars>>

\* The slicer has not acknowledged the job for too long.
WatchdogGivesUp(j) ==
    /\ Watched(j) /\ ~lost[j]
    /\ lost' = [lost EXCEPT ![j] = TRUE]
    /\ aborted' = [aborted EXCEPT ![j] = TRUE]
    /\ UNCHANGED <<status, cancelReq, retries, workVars, slotVars, lifeVars>>

-----------------------------------------------------------------------------
(* The state file *)

\* persistToDisk, some time after any change; jobs are in it while in the map.
\* What no restart within the bound would read again is not written.
Persist ==
    /\ restarts < MaxRestarts
    /\ disk' = [j \in Jobs |-> [status |-> IF status[j] = "gone" THEN "none" ELSE status[j],
                                output |-> output[j]]]
    /\ disk' # disk
    /\ UNCHANGED <<jobVars, workVars, slotVars, restarts>>

\* Mutant of Hydrated: a job that was being saved is taken over as it was.
HydratedSaving(j) ==
    IF disk[j].status \in {"preparing", "slicing"} THEN "failed"
    ELSE IF disk[j].status = "none" /\ status[j] # "none" THEN "gone"
    ELSE disk[j].status

\* hydratePersistedJob: what was going on is failed, what was queued is queued
\* again, and what the file does not know is gone.
Hydrated(j) ==
    IF disk[j].status \in Busy THEN "failed"
    ELSE IF disk[j].status = "none" /\ status[j] # "none" THEN "gone"
    ELSE disk[j].status

\* The process dies and another one starts.
Restart ==
    /\ restarts < MaxRestarts
    /\ restarts' = restarts + 1
    /\ cancelReq' = [j \in Jobs |-> FALSE]
    /\ lost' = [j \in Jobs |-> FALSE]
    /\ aborted' = [j \in Jobs |-> FALSE]
    /\ lookup' = [j \in Jobs |-> "none"]
    /\ output' = [j \in Jobs |-> disk[j].output]
    /\ stored' = [j \in Jobs |-> IF stored[j] = "kept" /\ Hydrated(j) \notin {"ready", "gone"}
                                 THEN "stray" ELSE stored[j]]
    /\ PumpQueue([j \in Jobs |-> Hydrated(j)], [j \in Jobs |-> "none"], {}, {})
    /\ UNCHANGED <<retries, disk>>

-----------------------------------------------------------------------------

RunStep(j) ==
    \/ Prepared(j) \/ Sliced(j) \/ SliceFails(j) \/ Staged(j) \/ Collected(j) \/ Embedded(j)
    \/ Persisted(j) \/ PersistFails(j) \/ Preserved(j) \/ Failed(j) \/ Leave(j)

LookupStep(j) == LookupMisses(j) \/ LookupHits(j) \/ CoverDone(j)

SlicingNext ==
    \/ \E j \in Jobs : \/ Enqueue(j) \/ Cancel(j) \/ Retry(j) \/ Delete(j)
                       \/ LookupStep(j) \/ RunStep(j) \/ WatchdogGivesUp(j)
    \/ Persist \/ Restart

SlicingSpec == SlicingInit /\ [][SlicingNext]_slicingVars

\* Every await ends: the slicer's requests are bounded by their timeouts and
\* the watchdog, the rest is local or bounded by the bridge's.
SlicingFairSpec ==
    SlicingSpec /\ \A j \in Jobs : WF_slicingVars(RunStep(j)) /\ WF_slicingVars(LookupStep(j))

-----------------------------------------------------------------------------
(* The pool of slots, whose order of service is open here *)

Fits(a) == Cardinality(a) <= MaxConcurrentJobs

Pool == INSTANCE SlotPool WITH Tickets <- Jobs, Rank <- [j \in Jobs |-> 0]

\* The jobs use the scheduler as it is meant to be used: each step is one call
\* to it, about a job's own ticket, and never asks for a ticket that waits or
\* holds a slot already; a restart brings the queued jobs back at once.
ImplementsPool == Pool!PoolSpec

-----------------------------------------------------------------------------
(* Properties *)

\* A queued job is never stranded: it looks for a cached result, or waits for
\* a slot, or the run of its failed attempt is about to queue it.
QueuedHasPlace ==
    \A j \in Jobs : status[j] = "queued" =>
        ~cancelReq[j] /\ (lookup[j] = "probing" \/ j \in waiting \/ run[j] = "leaving")

\* No more jobs are queued than the limit allows, by enqueues and retries
\* together ("a retry occupies a queue slot exactly like a new slice does").
QueueBounded == Cardinality({j \in Jobs : status[j] = "queued"}) <= MaxQueuedJobs

\* Slots are held by runs and by nothing else, within their number and none of
\* them free while a job waits, and what is shown as busy has something working
\* on it, after a restart too.
WorkHoldsSlots ==
    /\ active = {j \in Jobs : run[j] # "none"}
    /\ Cardinality(active) <= MaxConcurrentJobs
    /\ waiting # {} => Cardinality(active) = MaxConcurrentJobs
    /\ \A j \in Jobs : status[j] \in Busy <=> run[j] \notin {"none", "leaving"} \/ lookup[j] = "covering"

\* A file made for a job is the output of a ready job, or discarded, or
\* something still works on it ("discard it ... a cancel may arrive while the
\* bridge is copying").
OutputsAccounted ==
    \A j \in Jobs :
        /\ status[j] = "ready" => output[j] /\ stored[j] = "kept"
        /\ stored[j] = "kept" => status[j] \in {"ready", "gone"} \/ status[j] \in Busy

\* Once a user has cancelled, and while the server lives, no artifact of the job
\* begins to be saved, and it becomes ready only if one was being saved already:
\* no run and no cached result slips through.
CancelHonoured ==
    [][restarts' = restarts =>
        \A j \in Jobs : cancelReq[j] /\ status[j] # "ready" /\ run[j] \notin {"persisting", "preserving"}
                           => status'[j] # "ready" /\ run'[j] # "persisting"]_slicingVars

\* Within a life of the server what is ready or cancelled stays so until it is
\* deleted: no late claim, hit or end of a run revives it.
OutcomeStays ==
    [][restarts' = restarts =>
        \A j \in Jobs : /\ status[j] \in {"ready", "cancelled"} => status'[j] \in {status[j], "gone"}
                        /\ status[j] = "gone" => status'[j] = "gone"]_slicingVars

\* Every job comes to an end.
JobsFinish == \A j \in Jobs : status[j] \in Busy \cup {"queued"} ~> status[j] \in Terminal \cup {"gone"}

\* "Reporting a lost slice as 'Slicing cancelled' would blame the user for the
\* slicer going away" (run()): in a life without restarts, what is cancelled
\* was cancelled by a user.
LossNotBlamedOnUser == \A j \in Jobs : status[j] = "cancelled" /\ restarts = 0 => cancelReq[j]
=============================================================================
