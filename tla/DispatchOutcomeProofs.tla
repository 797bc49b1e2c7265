------------------------ MODULE DispatchOutcomeProofs ------------------------
(***************************************************************************)
(* Proofs of what a user of the dispatcher relies on within one life of    *)
(* the server: one active dispatch per printer, final outcomes, starts     *)
(* that print what the dispatch itself uploaded, and a journal that says   *)
(* what the dispatcher reports.  They build on the invariant of            *)
(* PrintDispatcherProofs.                                                  *)
(***************************************************************************)
EXTENDS PrintDispatcherProofs

-----------------------------------------------------------------------------
(* What a step of a run does to statuses and run positions *)

RunFrame(j) ==
    /\ UNCHANGED <<jobs, cancelReq, idleCancels, retries, stopWait, reserved>>
    /\ \A k \in Jobs \ {j} : status'[k] = status[k] /\ pc'[k] = pc[k]
    /\ pc'[j] # "preparing" /\ pc[j] # "preparing"

\* A running dispatch goes on with the same status or ends with an outcome.
GoesOn(j) ==
    /\ Running(j) /\ published' \in {published, published \cup {j}}
    /\ \/ pc'[j] # "idle" /\ status'[j] = status[j]
       \/ pc'[j] = "idle" /\ status'[j] \in Finished

\* A run begins, or is over at once.
Begins(j) ==
    /\ AtHead(j) /\ ~Running(j) /\ published' = published
    /\ \/ pc'[j] = "idle" /\ status'[j] = status[j]
       \/ status[j] # "cancelled" /\ pc'[j] = "idle" /\ status'[j] = "failed"
       \/ status[j] # "cancelled" /\ ~cancelReq[j] /\ pc'[j] = "artifact" /\ status'[j] = "uploading"

LEMMA GotoEffect ==
    ASSUME IInv, NEW j \in Jobs, Running(j), NEW w \in Awaits \ {"idle", "preparing"},
           pc' = [pc EXCEPT ![j] = w],
           UNCHANGED <<jobs, status, cancelReq, idleCancels, retries, stopWait, reserved, published>>
    PROVE  RunFrame(j) /\ GoesOn(j)
  BY DEF RunFrame, GoesOn, Running, IInv, TypeOK

LEMMA EndEffect ==
    ASSUME IInv, NEW j \in Jobs, Running(j), NEW s \in Finished, EndRun(j),
           status' = [status EXCEPT ![j] = s],
           UNCHANGED <<jobs, cancelReq, idleCancels, retries, stopWait>>,
           published' \in {published, published \cup {j}}
    PROVE  RunFrame(j) /\ GoesOn(j)
  BY DEF RunFrame, GoesOn, Running, EndRun, IInv, TypeOK

LEMMA CaughtEffect ==
    ASSUME IInv, NEW j \in Jobs, Running(j), Caught(j),
           UNCHANGED <<jobs, cancelReq, idleCancels, retries, stopWait, published>>
    PROVE  RunFrame(j) /\ GoesOn(j)
  <1>1. CASE cancelReq[j]
    BY <1>1, GotoEffect DEF Caught, Goto, Awaits
  <1>2. CASE ~cancelReq[j]
    BY <1>2, EndEffect DEF Caught, Finish, Finished
  <1> QED BY <1>1, <1>2

LEMMA StartRunEffect == ASSUME IInv, NEW j \in Jobs, StartRun(j) PROVE RunFrame(j) /\ Begins(j)
  <1>0. /\ pc \in [Jobs -> Awaits] /\ status \in [Jobs -> Statuses] /\ AtHead(j) /\ pc[j] = "idle"
        /\ UNCHANGED <<jobs, cancelReq, idleCancels, retries, stopWait, published>>
    BY DEF IInv, TypeOK, StartRun, serverVars, printerVars
  <1>1. CASE EndRun(j) /\ status' = status
    BY <1>0, <1>1 DEF EndRun, RunFrame, Begins, Running
  <1>2. CASE EndRun(j) /\ Finish(j, "failed") /\ status[j] # "cancelled"
    BY <1>0, <1>2 DEF EndRun, Finish, RunFrame, Begins, Running
  <1>3. CASE /\ Goto(j, "artifact") /\ status' = [status EXCEPT ![j] = "uploading"]
             /\ status[j] # "cancelled" /\ ~cancelReq[j]
    BY <1>0, <1>3 DEF Goto, RunFrame, Begins, Running
  <1> QED BY <1>1, <1>2, <1>3 DEF StartRun

LEMMA RunStepEffects ==
    ASSUME IInv, NEW j \in Jobs, RunStep(j)
    PROVE  RunFrame(j) /\ (GoesOn(j) \/ Begins(j))
  <1>1. CASE ArtifactReady(j) \/ BackoffEnds(j)
    <2>1. /\ Running(j) /\ TryUpload(j)
          /\ UNCHANGED <<userVars, serverVars, printerVars>>
      BY <1>1 DEF ArtifactReady, BackoffEnds, Running
    <2>2. /\ UNCHANGED <<jobs, status, cancelReq, idleCancels, retries, stopWait, reserved, published>>
          /\ \E w \in {"cleanupCaught", "transfer"} : pc' = [pc EXCEPT ![j] = w]
      BY <2>1 DEF TryUpload, Goto, userVars, serverVars, printerVars
    <2> QED BY <2>1, <2>2, GotoEffect DEF Awaits
  <1>2. CASE ArtifactFails(j) \/ RecordFails(j) \/ ReserveFails(j)
    BY <1>2, CaughtEffect DEF ArtifactFails, RecordFails, ReserveFails, Running, serverVars, printerVars
  <1>3. CASE UploadDone(j)
    <2>1. /\ Running(j) /\ \E w \in {"cleanup", "marking"} : pc' = [pc EXCEPT ![j] = w]
          /\ UNCHANGED <<jobs, status, cancelReq, idleCancels, retries, stopWait, reserved, published>>
      BY <1>3 DEF UploadDone, Running, Goto, userVars, serverVars
    <2> QED BY <2>1, GotoEffect DEF Awaits
  <1>4. CASE UploadFails(j)
    <2>1. Running(j) /\ UNCHANGED <<jobs, cancelReq, idleCancels, retries, stopWait, published>>
      BY <1>4 DEF UploadFails, Running, serverVars
    <2>2. CASE Caught(j)
      BY <2>1, <2>2, CaughtEffect
    <2>3. CASE ~Caught(j)
      BY <1>4, <2>1, <2>3, GotoEffect DEF UploadFails, Goto, Awaits
    <2> QED BY <2>2, <2>3
  <1>5. CASE CleanUp(j)
    <2>1. /\ Running(j) /\ \E w \in {"record", "recordCaught"} : pc' = [pc EXCEPT ![j] = w]
          /\ UNCHANGED <<jobs, status, cancelReq, idleCancels, retries, stopWait, reserved, published>>
      BY <1>5 DEF CleanUp, Running, Goto, userVars, serverVars
    <2> QED BY <2>1, GotoEffect DEF Awaits
  <1>6. CASE RecordCancelled(j) \/ MarkRejects(j) \/ Publish(j)
    <2>1. /\ Running(j) /\ EndRun(j) /\ published' \in {published, published \cup {j}}
          /\ \E s \in Finished : status' = [status EXCEPT ![j] = s]
          /\ UNCHANGED <<jobs, cancelReq, idleCancels, retries, stopWait>>
      BY <1>6 DEF RecordCancelled, MarkRejects, Publish, Finish, Finished, Running, serverVars, printerVars
    <2> QED BY <2>1, EndEffect
  <1>7. CASE MarkCommits(j) \/ PublishRefused(j)
    <2>1. /\ Running(j) /\ \E w \in {"reserving", "failRecord"} : pc' = [pc EXCEPT ![j] = w]
          /\ UNCHANGED <<jobs, status, cancelReq, idleCancels, retries, stopWait, reserved, published>>
      BY <1>7 DEF MarkCommits, PublishRefused, Running, Goto, userVars, serverVars, printerVars
    <2> QED BY <2>1, GotoEffect DEF Awaits
  <1>8. CASE StartFailed(j)
    <2>1. Running(j) /\ UNCHANGED <<jobs, cancelReq, idleCancels, retries, stopWait, published>>
      BY <1>8 DEF StartFailed, Running, serverVars, printerVars
    <2>2. CASE Caught(j)
      BY <2>1, <2>2, CaughtEffect
    <2>3. CASE Finish(j, "failed") /\ EndRun(j)
      BY <2>1, <2>3, EndEffect DEF Finish, Finished
    <2> QED BY <1>8, <2>2, <2>3 DEF StartFailed
  <1> QED BY <1>1, <1>2, <1>3, <1>4, <1>5, <1>6, <1>7, <1>8, StartRunEffect DEF RunStep

-----------------------------------------------------------------------------
(* One active dispatch per printer *)

\* The printer counts as busy because of j.
Occupies(j) == pc[j] = "preparing" \/ (j \in jobs /\ status[j] \in Active)

\* Only the reservation keeps a second request out while the first prepares.
ReservedOK == \A j \in Jobs : pc[j] = "preparing" => PrinterOf[j] \in reserved

OneInv == OneActiveUnlessRetried /\ ReservedOK

\* A step that occupies no printer anew.
LEMMA NoNewOccupant ==
    ASSUME OneInv,
           \A k \in Jobs : Occupies(k)' /\ retries'[k] = 0 => Occupies(k) /\ retries[k] = 0,
           ReservedOK'
    PROVE  OneInv'
  <1>1. \A j, k \in Jobs :
          /\ j # k /\ PrinterOf[j] = PrinterOf[k] /\ retries'[j] = 0 /\ retries'[k] = 0
          => ~(Occupies(j)' /\ Occupies(k)')
    BY DEF OneInv, OneActiveUnlessRetried, Occupies
  <1> QED BY <1>1 DEF OneInv, OneActiveUnlessRetried, Occupies

\* One that also leaves the reservations and the preparations alone.
LEMMA NoNewOccupantFrame ==
    ASSUME OneInv, reserved' = reserved,
           \A k \in Jobs : pc'[k] = "preparing" => pc[k] = "preparing",
           \A k \in Jobs : Occupies(k)' /\ retries'[k] = 0 => Occupies(k) /\ retries[k] = 0
    PROVE  OneInv'
  <1>1. ReservedOK'
    BY DEF OneInv, ReservedOK
  <1> QED BY <1>1, NoNewOccupant

LEMMA RunStepOne == ASSUME IInv, OneInv, NEW j \in Jobs, RunStep(j) PROVE OneInv'
  <1>1. RunFrame(j) /\ (GoesOn(j) \/ Begins(j))
    BY RunStepEffects
  <1>2. AtHead(j) => status[j] \in Active \cup {"cancelled"}
    BY HeadInQueue DEF IInv, TypeOK, RunOK, Statuses, Active, Finished
  <1>3. status'[j] \in Active => status[j] \in Active
    BY <1>1, <1>2 DEF GoesOn, Begins, Active, Finished
  <1> QED BY <1>1, <1>3, NoNewOccupantFrame DEF RunFrame, Occupies

LEMMA SubmitOne == ASSUME IInv, OneInv, NEW j \in Jobs, Submit(j) PROVE OneInv'
  <1>1. /\ ~hasActiveDispatchForPrinter(PrinterOf[j])
        /\ reserved' = reserved \cup {PrinterOf[j]}
        /\ UNCHANGED <<jobs, status, retries>>
        /\ \A k \in Jobs \ {j} : pc'[k] = pc[k]
    BY DEF Submit, userVars, IInv, TypeOK
  <1>2. \A k \in Jobs : PrinterOf[k] = PrinterOf[j] => ~Occupies(k)
    BY <1>1 DEF hasActiveDispatchForPrinter, Occupies, OneInv, ReservedOK
  <1>3. \A k \in Jobs \ {j} : Occupies(k)' <=> Occupies(k)
    BY <1>1 DEF Occupies
  <1>4. ReservedOK'
    BY <1>1 DEF OneInv, ReservedOK
  <1>5. \A i, k \in Jobs :
          /\ i # k /\ PrinterOf[i] = PrinterOf[k] /\ retries'[i] = 0 /\ retries'[k] = 0
          => ~(Occupies(i)' /\ Occupies(k)')
    BY <1>1, <1>2, <1>3 DEF OneInv, OneActiveUnlessRetried, Occupies
  <1> QED BY <1>4, <1>5 DEF OneInv, OneActiveUnlessRetried, Occupies

\* The end of a preparation ends the printer's only reservation.
LEMMA PrepareOne ==
    ASSUME IInv, OneInv, NEW j \in Jobs, PrepareFails(j) \/ PrepareDone(j)
    PROVE  OneInv'
  <1>1. /\ pc[j] = "preparing" /\ pc' = [pc EXCEPT ![j] = "idle"]
        /\ reserved' = reserved \ {PrinterOf[j]}
        /\ retries' = retries /\ jobs' \subseteq jobs \cup {j}
        /\ \A k \in Jobs \ {j} : status'[k] = status[k]
    BY DEF PrepareFails, PrepareDone, userVars, IInv, TypeOK
  <1>2. /\ pc'[j] = "idle" /\ \A k \in Jobs \ {j} : pc'[k] = pc[k]
    BY <1>1 DEF IInv, TypeOK
  <1>3. \A k \in Jobs : pc[k] = "preparing" => retries[k] = 0
    BY DEF IInv, UnknownOK
  <1>4. \A k \in Jobs \ {j} : PrinterOf[k] = PrinterOf[j] => pc[k] # "preparing"
    BY <1>1, <1>3 DEF OneInv, OneActiveUnlessRetried
  <1>5. ReservedOK'
    BY <1>1, <1>2, <1>4 DEF OneInv, ReservedOK
  <1>6. \A k \in Jobs : Occupies(k)' => Occupies(k)
    BY <1>1, <1>2 DEF Occupies
  <1> QED BY <1>1, <1>5, <1>6, NoNewOccupant

LEMMA OneStep == ASSUME IInv, OneInv, [DispatcherNext]_dispatcherVars PROVE OneInv'
  <1>1. ASSUME NEW j \in Jobs, Cancel(j) \/ StopVisit(j) \/ JournalSettles(j) PROVE OneInv'
    <2>1. UNCHANGED <<jobs, status, retries, pc, reserved>>
      BY <1>1 DEF Cancel, StopVisit, JournalSettles, userVars, runVars
    <2> QED BY <2>1, NoNewOccupantFrame DEF Occupies
  <1>2. ASSUME NEW j \in Jobs, IdleCancelDone(j) \/ StopCancelDone(j) PROVE OneInv'
    <2>1. /\ UNCHANGED <<jobs, retries, pc, reserved>>
          /\ \A k \in Jobs : status'[k] \in {status[k], "cancelled"}
      BY <1>2 DEF IdleCancelDone, StopCancelDone, Finish, runVars, IInv, TypeOK
    <2> QED BY <2>1, NoNewOccupantFrame DEF Occupies, Active
  <1>3. ASSUME NEW j \in Jobs, Retry(j) PROVE OneInv'
    <2>1. /\ UNCHANGED <<jobs, pc, reserved>> /\ retries'[j] # 0
          /\ \A k \in Jobs \ {j} : status'[k] = status[k] /\ retries'[k] = retries[k]
      BY <1>3 DEF Retry, IInv, TypeOK
    <2> QED BY <2>1, NoNewOccupantFrame DEF Occupies
  <1>4. CASE (\E p \in Printers : Register(p)) \/ Shutdown \/ UNCHANGED dispatcherVars
    <2>1. UNCHANGED <<jobs, status, retries, pc, reserved>>
      BY <1>4 DEF Register, Shutdown, dispatcherVars, userVars, runVars
    <2> QED BY <2>1, NoNewOccupantFrame DEF Occupies
  <1> QED BY <1>1, <1>2, <1>3, <1>4, RunStepOne, SubmitOne, PrepareOne DEF DispatcherNext

\* Two requests never get two dispatches of one printer going, whatever
\* happens between the check and the listing; only retry() can.
THEOREM DispatcherOneActiveUnlessRetried == DispatcherSpec => []OneActiveUnlessRetried
  <1>1. DispatcherInit => OneInv
    BY DEF DispatcherInit, OneInv, OneActiveUnlessRetried, ReservedOK
  <1>2. OneInv => OneActiveUnlessRetried
    BY DEF OneInv
  <1> QED BY <1>1, <1>2, OneStep, DispatcherInvariant, PTL DEF DispatcherSpec

-----------------------------------------------------------------------------
(* Final outcomes *)

\* As long as a dispatch is not retried, a cancellation in flight found it
\* idle and it does not run again.
FinalInv ==
    \A j \in Jobs : retries[j] = 0 =>
        /\ Running(j) => status[j] = "uploading"
        /\ idleCancels[j] > 0 \/ stopWait = j =>
             cancelReq[j] /\ ~Running(j) /\ status[j] \in {"queued", "failed", "cancelled"}

\* What a step may not do to a dispatch with an outcome.
Keeps(j) ==
    status[j] \in {"sent", "cancelled"} /\ retries'[j] = 0 /\ j \in jobs'
        => status'[j] = status[j] /\ (j \in published' => j \in published)

KeepsAll == \A j \in jobs : Keeps(j)

LEMMA RunStepFinal == ASSUME IInv, FinalInv, NEW j \in Jobs, RunStep(j) PROVE FinalInv' /\ KeepsAll
  <1>1. RunFrame(j) /\ (GoesOn(j) \/ Begins(j))
    BY RunStepEffects
  <1>2. pc'[j] # "preparing" /\ pc[j] # "preparing" /\ (Running(j) <=> pc[j] # "idle")
        /\ (Running(j)' <=> pc'[j] # "idle")
    BY <1>1 DEF RunFrame, Running
  <1>3. AtHead(j) => status[j] # "sent" /\ InQueue(j)
    BY HeadInQueue DEF IInv, RunOK
  <1>4. \A k \in Jobs \ {j} : Keeps(k) /\ (Running(k)' <=> Running(k))
    BY <1>1 DEF RunFrame, GoesOn, Begins, Running, Keeps
  <1>5. Keeps(j)
    BY <1>1, <1>3 DEF RunFrame, GoesOn, Begins, FinalInv, Keeps
  <1>6. retries'[j] = 0 =>
          /\ Running(j)' => status'[j] = "uploading"
          /\ idleCancels'[j] > 0 \/ stopWait' = j =>
               cancelReq'[j] /\ ~Running(j)' /\ status'[j] \in {"queued", "failed", "cancelled"}
    BY <1>1, <1>2 DEF RunFrame, GoesOn, Begins, FinalInv
  <1>7. FinalInv'
    BY <1>1, <1>4, <1>6 DEF FinalInv, RunFrame
  <1> QED BY <1>4, <1>5, <1>7 DEF KeepsAll, IInv, TypeOK

\* The steps of the user, the shutdown and the journal.
LEMMA OtherStepFinal ==
    ASSUME IInv, FinalInv, NEW j \in Jobs,
           \/ Submit(j) \/ PrepareFails(j) \/ PrepareDone(j)
           \/ Cancel(j) \/ IdleCancelDone(j) \/ Retry(j)
           \/ StopVisit(j) \/ StopCancelDone(j) \/ JournalSettles(j)
    PROVE  FinalInv' /\ KeepsAll
  <1>0. jobs \subseteq Jobs
    BY DEF IInv, TypeOK
  <1>1. CASE Submit(j) \/ PrepareFails(j)
    <2>1. /\ UNCHANGED <<jobs, status, cancelReq, idleCancels, retries, stopWait, published>>
          /\ \A k \in Jobs : Running(k)' <=> Running(k)
      BY <1>1 DEF Submit, PrepareFails, Running, userVars, serverVars, printerVars, IInv, TypeOK
    <2> QED BY <2>1 DEF FinalInv, KeepsAll, Keeps
  <1>2. CASE PrepareDone(j)
    <2>1. /\ UNCHANGED <<cancelReq, idleCancels, retries, stopWait, published>>
          /\ \A k \in Jobs \ {j} : status'[k] = status[k] /\ pc'[k] = pc[k]
          /\ status[j] = "none" /\ pc'[j] = "idle"
          /\ j \notin jobs /\ idleCancels[j] = 0 /\ stopWait # j
      BY <1>2 DEF PrepareDone, serverVars, printerVars, IInv, TypeOK, UnknownOK
    <2> QED BY <1>0, <2>1 DEF FinalInv, KeepsAll, Keeps, Running
  <1>3. CASE Cancel(j)
    <2>1. /\ UNCHANGED <<jobs, status, retries, pc, stopWait, published>> /\ cancelReq'[j]
          /\ status[j] # "uploading" => status[j] \in {"queued", "failed"}
          /\ status[j] = "uploading" => idleCancels' = idleCancels
          /\ \A k \in Jobs : cancelReq[k] => cancelReq'[k]
          /\ \A k \in Jobs \ {j} : idleCancels'[k] = idleCancels[k]
      BY <1>3 DEF Cancel, runVars, serverVars, printerVars, IInv, TypeOK
    <2>2. \A k \in Jobs : Running(k)' <=> Running(k)
      BY <2>1 DEF Running
    <2>3. KeepsAll
      BY <2>1 DEF KeepsAll, Keeps
    <2> QED BY <2>1, <2>2, <2>3 DEF FinalInv
  <1>4. CASE IdleCancelDone(j)
    <2>1. /\ UNCHANGED <<jobs, cancelReq, retries, pc, stopWait, published>>
          /\ idleCancels[j] > 0 /\ status'[j] = "cancelled"
          /\ \A k \in Jobs \ {j} : status'[k] = status[k] /\ idleCancels'[k] = idleCancels[k]
      BY <1>4 DEF IdleCancelDone, Finish, runVars, serverVars, printerVars, IInv, TypeOK
    <2> QED BY <1>0, <2>1 DEF FinalInv, KeepsAll, Keeps, Running
  <1>5. CASE Retry(j)
    <2>1. /\ UNCHANGED <<jobs, idleCancels, pc, stopWait, published>> /\ retries'[j] # 0
          /\ \A k \in Jobs \ {j} : /\ status'[k] = status[k] /\ cancelReq'[k] = cancelReq[k]
                                   /\ retries'[k] = retries[k]
      BY <1>5 DEF Retry, serverVars, printerVars, IInv, TypeOK
    <2> QED BY <1>0, <2>1 DEF FinalInv, KeepsAll, Keeps, Running
  <1>6. CASE StopVisit(j)
    <2>1. /\ UNCHANGED <<jobs, status, idleCancels, retries, pc, published>>
          /\ \A k \in Jobs : cancelReq[k] => cancelReq'[k]
          /\ \A k \in Jobs : stopWait' = k => k = j /\ status[j] = "queued" /\ cancelReq'[j]
      BY <1>6, ConstantsAssumption DEF StopVisit, Active, runVars, printerVars, IInv, TypeOK
    <2>2. \A k \in Jobs : Running(k)' <=> Running(k)
      BY <2>1 DEF Running
    <2>3. KeepsAll
      BY <2>1 DEF KeepsAll, Keeps
    <2> QED BY <2>1, <2>2, <2>3 DEF FinalInv
  <1>7. CASE StopCancelDone(j)
    <2>1. /\ UNCHANGED <<jobs, cancelReq, idleCancels, retries, pc, published>>
          /\ stopWait = j /\ stopWait' = NoJob /\ status'[j] = "cancelled"
          /\ \A k \in Jobs \ {j} : status'[k] = status[k]
      BY <1>7 DEF StopCancelDone, Finish, runVars, printerVars, IInv, TypeOK
    <2> QED BY <1>0, <2>1, ConstantsAssumption DEF FinalInv, KeepsAll, Keeps, Running
  <1>8. CASE JournalSettles(j)
    <2>1. UNCHANGED <<jobs, status, cancelReq, idleCancels, retries, pc, stopWait, published>>
      BY <1>8 DEF JournalSettles, userVars, runVars, serverVars, printerVars
    <2> QED BY <2>1 DEF FinalInv, KeepsAll, Keeps, Running
  <1> QED BY <1>1, <1>2, <1>3, <1>4, <1>5, <1>6, <1>7, <1>8

LEMMA FinalStep ==
    ASSUME IInv, FinalInv, [DispatcherNext]_dispatcherVars
    PROVE  FinalInv' /\ KeepsAll
  <1>1. CASE (\E p \in Printers : Register(p)) \/ Shutdown \/ UNCHANGED dispatcherVars
    <2>1. UNCHANGED <<jobs, status, cancelReq, idleCancels, retries, pc, stopWait, published>>
      BY <1>1 DEF Register, Shutdown, dispatcherVars, userVars, runVars, serverVars, printerVars
    <2> QED BY <2>1 DEF FinalInv, KeepsAll, Keeps, Running
  <1> QED BY <1>1, RunStepFinal, OtherStepFinal DEF DispatcherNext

\* An outcome reported to the user stands until the user retries: neither a
\* late cancellation nor a shutdown nor a queued run changes it.
THEOREM DispatcherOutcomeIsFinal == DispatcherSpec => OutcomeIsFinal
  <1>1. DispatcherInit => FinalInv
    BY ConstantsAssumption DEF DispatcherInit, FinalInv, Running
  <1>2. IInv /\ FinalInv /\ [DispatcherNext]_dispatcherVars => FinalInv'
    BY FinalStep
  <1>3. IInv /\ FinalInv /\ [DispatcherNext]_dispatcherVars
          => [\A j \in jobs : Keeps(j)]_dispatcherVars
    BY FinalStep DEF KeepsAll
  <1>4. DispatcherSpec => [][\A j \in jobs : Keeps(j)]_dispatcherVars
    BY <1>1, <1>2, <1>3, DispatcherInvariant, PTL DEF DispatcherSpec
  <1> QED BY <1>4 DEF OutcomeIsFinal, Keeps

-----------------------------------------------------------------------------
(* A start prints what its dispatch uploaded *)

\* Between the end of its upload and its start, the remote name holds the
\* bytes of the dispatch itself.
OwnUpload(j) == pc[j] \in {"marking", "reserving"} => sd[PrinterOf[j]][FileOf[j]] = j

OwnInv == \A j \in Jobs : OwnUpload(j)

\* Only a running dispatch writes to the card, and only to its printer's.
LEMMA CardSteps ==
    ASSUME IInv, NEW j \in Jobs, UploadDone(j) \/ UploadFails(j) \/ CleanUp(j)
    PROVE  /\ Running(j) /\ \A p \in Printers \ {PrinterOf[j]} : sd'[p] = sd[p]
           /\ pc'[j] \in {"marking", "reserving"} => sd'[PrinterOf[j]][FileOf[j]] = j
  <1>0. /\ sd \in [Printers -> [Files -> Jobs \cup {NoJob}]] /\ pc \in [Jobs -> Awaits]
        /\ PrinterOf[j] \in Printers /\ FileOf[j] \in Files
    BY ConstantsAssumption DEF IInv, TypeOK
  <1>1. Running(j) /\ sd' \in {sd, Stored(j), Erased(PrinterOf[j], FileOf[j])}
    BY DEF UploadDone, UploadFails, CleanUp, Running
  <1>2. \A p \in Printers \ {PrinterOf[j]} : sd'[p] = sd[p]
    BY <1>0, <1>1 DEF Stored, Erased
  <1>3. CASE UploadDone(j)
    BY <1>0, <1>1, <1>2, <1>3 DEF UploadDone, Stored
  <1>4. CASE UploadFails(j) \/ CleanUp(j)
    <2>1. pc'[j] \notin {"marking", "reserving"}
      BY <1>0, <1>4 DEF UploadFails, CleanUp, Caught, Goto, EndRun
    <2> QED BY <1>1, <1>2, <2>1
  <1> QED BY <1>3, <1>4

LEMMA OwnRunStep == ASSUME IInv, OwnInv, NEW j \in Jobs, RunStep(j) PROVE OwnInv'
  <1>1. RunFrame(j) /\ (GoesOn(j) \/ Begins(j))
    BY RunStepEffects
  <1>2. CASE UploadDone(j) \/ UploadFails(j) \/ CleanUp(j)
    <2>1. \A k \in Jobs \ {j} : Running(k) => PrinterOf[k] # PrinterOf[j]
      BY <1>2, CardSteps DEF IInv, RunOK, AtHead
    <2>2. \A k \in Jobs \ {j} : OwnUpload(k)'
      BY <1>1, <1>2, <2>1, CardSteps, ConstantsAssumption DEF OwnInv, OwnUpload, RunFrame, Running
    <2>3. OwnUpload(j)'
      BY <1>2, CardSteps DEF OwnUpload
    <2> QED BY <2>2, <2>3 DEF OwnInv
  <1>3. CASE ~(UploadDone(j) \/ UploadFails(j) \/ CleanUp(j))
    <2>1. sd' = sd
      BY <1>3 DEF RunStep, StartRun, ArtifactReady, ArtifactFails, BackoffEnds, RecordCancelled,
                  RecordFails, MarkCommits, MarkRejects, ReserveFails, Publish, PublishRefused,
                  StartFailed, printerVars
    <2>2. pc'[j] \in {"marking", "reserving"} => pc[j] = "marking"
      BY <1>3 DEF RunStep, StartRun, ArtifactReady, ArtifactFails, BackoffEnds, RecordCancelled,
                  RecordFails, MarkCommits, MarkRejects, ReserveFails, Publish, PublishRefused,
                  StartFailed, TryUpload, Caught, Goto, EndRun, IInv, TypeOK
    <2> QED BY <1>1, <2>1, <2>2 DEF OwnInv, OwnUpload, RunFrame
  <1> QED BY <1>2, <1>3

LEMMA OwnStep == ASSUME IInv, OwnInv, [DispatcherNext]_dispatcherVars PROVE OwnInv'
  <1>1. ASSUME NEW j \in Jobs, Submit(j) \/ PrepareFails(j) \/ PrepareDone(j) PROVE OwnInv'
    <2>1. sd' = sd /\ \A k \in Jobs : pc'[k] \in {"marking", "reserving"} => pc[k] = pc'[k]
      BY <1>1 DEF Submit, PrepareFails, PrepareDone, printerVars, IInv, TypeOK
    <2> QED BY <2>1 DEF OwnInv, OwnUpload
  <1>2. CASE UNCHANGED <<pc, sd>>
    BY <1>2 DEF OwnInv, OwnUpload
  <1>3. ASSUME NEW j \in Jobs,
               \/ Cancel(j) \/ IdleCancelDone(j) \/ Retry(j) \/ StopVisit(j)
               \/ StopCancelDone(j) \/ JournalSettles(j)
        PROVE  UNCHANGED <<pc, sd>>
    BY <1>3 DEF Cancel, IdleCancelDone, Retry, StopVisit, StopCancelDone, JournalSettles, runVars, printerVars
  <1>4. CASE (\E p \in Printers : Register(p)) \/ Shutdown \/ UNCHANGED dispatcherVars
    BY <1>2, <1>4 DEF Register, Shutdown, dispatcherVars, runVars, printerVars
  <1> QED BY <1>1, <1>2, <1>3, <1>4, OwnRunStep DEF DispatcherNext

\* Only Publish starts a print.
LEMMA StartsAreOwn ==
    ASSUME IInv, OwnInv, [DispatcherNext]_dispatcherVars, NEW j \in published' \ published
    PROVE  sd[PrinterOf[j]][FileOf[j]] = j
  <1>1. PICK k \in Jobs : Publish(k)
    BY DEF DispatcherNext, RunStep, Submit, PrepareFails, PrepareDone, StartRun, ArtifactReady,
           ArtifactFails, UploadDone, UploadFails, BackoffEnds, CleanUp, RecordCancelled,
           RecordFails, MarkCommits, MarkRejects, ReserveFails, PublishRefused, StartFailed,
           Cancel, IdleCancelDone, Retry, StopVisit, StopCancelDone, JournalSettles, Register,
           Shutdown, printerVars, dispatcherVars
  <1> QED BY <1>1 DEF Publish, OwnInv, OwnUpload

\* A start never prints the bytes of another dispatch that uses the same
\* remote name, nor a file that a cleanup took away.
THEOREM DispatcherStartUsesOwnUpload == DispatcherSpec => StartUsesOwnUpload
  <1>1. DispatcherInit => OwnInv
    BY DEF DispatcherInit, OwnInv, OwnUpload
  <1>2. IInv /\ OwnInv /\ [DispatcherNext]_dispatcherVars => OwnInv'
    BY OwnStep
  <1>3. IInv /\ OwnInv /\ [DispatcherNext]_dispatcherVars
          => [\A j \in published' \ published : sd[PrinterOf[j]][FileOf[j]] = j]_dispatcherVars
    BY StartsAreOwn
  <1> QED BY <1>1, <1>2, <1>3, DispatcherInvariant, PTL DEF DispatcherSpec, StartUsesOwnUpload
-----------------------------------------------------------------------------
(* The journal says what the dispatcher reports *)

\* The writes of c about the status end with s.
LastWord(c, s) ==
    \E i \in 1..Len(c) :
        /\ c[i].op # "mark" /\ c[i].status = s
        /\ \A k \in 1..Len(c) : i < k => c[k].op = "mark"

OnlyMarks(c) == \A i \in 1..Len(c) : c[i].op = "mark"

\* A row is there, or its INSERT is the chain's first write, and there is no
\* other INSERT.
HasOrigin(r, c) ==
    /\ r = NoRow <=> c # <<>> /\ c[1].op = "insert"
    /\ \A i \in 1..Len(c) : c[i].op = "insert" => i = 1 /\ c[i].status = "queued"

\* When row r and the pending writes c are through, the row says s.
Says(r, c, s) ==
    /\ HasOrigin(r, c)
    /\ LastWord(c, s) \/ (OnlyMarks(c) /\ r # NoRow /\ r.status = s)

\* Nothing was written about a dispatch that nobody knows yet.
Agrees(j) ==
    /\ j \in jobs => Says(row[j], chain[j], status[j])
    /\ status[j] = "none" => row[j] = NoRow /\ chain[j] = <<>>

AgreeInv == \A j \in Jobs \ lossy : Agrees(j)

LEMMA FirstWord == Says(NoRow, <<InsertWrite>>, "queued")
  <1> DEFINE c == <<InsertWrite>>
  <1>1. Len(c) = 1 /\ c[1] = InsertWrite /\ c # <<>>
    OBVIOUS
  <1> HIDE DEF c
  <1>2. HasOrigin(NoRow, c)
    BY <1>1 DEF HasOrigin, InsertWrite
  <1>3. LastWord(c, "queued")
    BY <1>1 DEF LastWord, InsertWrite
  <1>4. Says(NoRow, c, "queued")
    BY <1>2, <1>3 DEF Says
  <1> QED BY <1>4 DEF c

LEMMA AppendKeepsOrigin ==
    ASSUME NEW r, NEW c \in Seq(Write), NEW w \in Write, HasOrigin(r, c), w.op # "insert"
    PROVE  HasOrigin(r, Append(c, w))
  <1>1. /\ Len(Append(c, w)) = Len(c) + 1 /\ Append(c, w) # <<>> /\ Len(c) \in Nat
        /\ \A i \in 1..Len(c) : Append(c, w)[i] = c[i]
        /\ Append(c, w)[Len(c) + 1] = w
        /\ c = <<>> <=> Len(c) = 0
    OBVIOUS
  <1> QED BY <1>1 DEF HasOrigin

\* A new status is the last word, a mark is none.
LEMMA AppendWord ==
    ASSUME NEW r, NEW c \in Seq(Write), NEW w \in Write, NEW s, Says(r, c, s), w.op # "insert"
    PROVE  /\ w.op = "status" => Says(r, Append(c, w), w.status)
           /\ w.op = "mark" => Says(r, Append(c, w), s)
  <1>1. HasOrigin(r, Append(c, w))
    BY AppendKeepsOrigin DEF Says
  <1>2. w.op = "status" => LastWord(Append(c, w), w.status)
    <2>1. /\ Len(Append(c, w)) = Len(c) + 1 /\ Len(c) \in Nat
          /\ Append(c, w)[Len(c) + 1] = w
      OBVIOUS
    <2> QED BY <2>1 DEF LastWord
  <1>3. w.op = "mark" /\ LastWord(c, s) => LastWord(Append(c, w), s)
    BY DEF LastWord
  <1>4. w.op = "mark" /\ OnlyMarks(c) => OnlyMarks(Append(c, w))
    BY DEF OnlyMarks
  <1> QED BY <1>1, <1>2, <1>3, <1>4 DEF Says

\* What the commit of the first write does to a row.
LEMMA CommitOrigin ==
    ASSUME NEW r \in Row \cup {NoRow}, NEW c \in Seq(Write), c # <<>>, HasOrigin(r, c)
    PROVE  /\ HasOrigin(Applied(r, c[1]), Tail(c)) /\ Applied(r, c[1]) # NoRow
           /\ c[1].op = "mark" => Applied(r, c[1]).status = r.status
           /\ c[1].op # "mark" => Applied(r, c[1]).status = c[1].status
  <1>1. /\ Len(c) \in Nat /\ Len(c) > 0 /\ c[1] \in Write
        /\ Tail(c) \in Seq(Write) /\ Len(Tail(c)) = Len(c) - 1
        /\ \A i \in 1..Len(Tail(c)) : Tail(c)[i] = c[i + 1]
        /\ Tail(c) # <<>> => Len(Tail(c)) > 0
    OBVIOUS
  <1>2. \A i \in 1..Len(Tail(c)) : Tail(c)[i].op # "insert"
    BY <1>1 DEF HasOrigin
  <1>3. Applied(r, c[1]) # NoRow => HasOrigin(Applied(r, c[1]), Tail(c))
    BY <1>1, <1>2 DEF HasOrigin
  <1>4. CASE c[1].op = "insert"
    <2>1. r = NoRow /\ Applied(r, c[1]) = [status |-> "queued", attempted |-> FALSE]
      BY <1>4 DEF HasOrigin, Applied
    <2>2. [status |-> "queued", attempted |-> FALSE] \in Row
      BY DEF Row, JournalStatus
    <2>3. c[1].status = "queued"
      BY <1>1, <1>4 DEF HasOrigin
    <2>4. Applied(r, c[1]) # NoRow
      BY <2>1, <2>2, NoRowAssumption
    <2>5. Applied(r, c[1]).status = "queued"
      BY <2>1
    <2> QED BY <1>3, <1>4, <2>3, <2>4, <2>5
  <1>5. CASE c[1].op = "mark"
    <2>1. r \in Row /\ Applied(r, c[1]) = [r EXCEPT !.attempted = TRUE]
      BY <1>5 DEF HasOrigin, Applied
    <2>2. Applied(r, c[1]) \in Row /\ Applied(r, c[1]).status = r.status
      BY <2>1 DEF Row
    <2> QED BY <1>3, <1>5, <2>2, NoRowAssumption
  <1>6. CASE c[1].op = "status"
    <2>1. r \in Row /\ Applied(r, c[1]) = [status |-> c[1].status, attempted |-> r.attempted /\ ~c[1].clear]
      BY <1>6 DEF HasOrigin, Applied
    <2>2. Applied(r, c[1]).status = c[1].status
      BY <2>1
    <2>3. Applied(r, c[1]) \in Row
      BY <1>1, <2>1 DEF Row, Write
    <2> QED BY <1>3, <1>6, <2>2, <2>3, NoRowAssumption
  <1> QED BY <1>1, <1>4, <1>5, <1>6 DEF Write

LEMMA CommitSays ==
    ASSUME NEW r \in Row \cup {NoRow}, NEW c \in Seq(Write), NEW s, c # <<>>, Says(r, c, s)
    PROVE  Says(Applied(r, Head(c)), Tail(c), s)
  <1>1. /\ Len(c) \in Nat /\ Len(c) > 0 /\ Head(c) = c[1]
        /\ Tail(c) \in Seq(Write) /\ Len(Tail(c)) = Len(c) - 1
        /\ \A i \in 1..Len(Tail(c)) : Tail(c)[i] = c[i + 1]
    OBVIOUS
  <1>2. /\ HasOrigin(Applied(r, c[1]), Tail(c)) /\ Applied(r, c[1]) # NoRow
        /\ c[1].op = "mark" => Applied(r, c[1]).status = r.status
        /\ c[1].op # "mark" => Applied(r, c[1]).status = c[1].status
    BY CommitOrigin DEF Says
  <1>3. CASE LastWord(c, s)
    <2>1. PICK i \in 1..Len(c) : /\ c[i].op # "mark" /\ c[i].status = s
                                 /\ \A k \in 1..Len(c) : i < k => c[k].op = "mark"
      BY <1>3 DEF LastWord
    <2>2. CASE i = 1
      <3>1. OnlyMarks(Tail(c))
        BY <1>1, <2>1, <2>2 DEF OnlyMarks
      <3> QED BY <1>1, <1>2, <2>1, <2>2, <3>1 DEF Says
    <2>3. CASE i > 1
      <3>1. i - 1 \in 1..Len(Tail(c)) /\ Tail(c)[i - 1] = c[i]
        BY <1>1, <2>1, <2>3
      <3>2. \A k \in 1..Len(Tail(c)) : i - 1 < k => Tail(c)[k].op = "mark"
        BY <1>1, <2>1, <2>3
      <3>3. LastWord(Tail(c), s)
        BY <2>1, <3>1, <3>2 DEF LastWord
      <3> QED BY <1>1, <1>2, <3>3 DEF Says
    <2> QED BY <2>1, <2>2, <2>3
  <1>4. CASE OnlyMarks(c) /\ r # NoRow /\ r.status = s
    <2>1. c[1].op = "mark" /\ OnlyMarks(Tail(c))
      BY <1>1, <1>4 DEF OnlyMarks
    <2> QED BY <1>1, <1>2, <1>4, <2>1 DEF Says
  <1> QED BY <1>3, <1>4 DEF Says

\* A mark that is given up, committed or not, leaves the last word as it was.
LEMMA MarkLeavesWord ==
    ASSUME NEW r \in Row \cup {NoRow}, NEW c \in Seq(Write), NEW s, c # <<>>, Says(r, c, s),
           Head(c).op = "mark"
    PROVE  Says(r, Tail(c), s) /\ Says(Applied(r, MarkWrite), Tail(c), s)
  <1>1. /\ Len(c) \in Nat /\ Len(c) > 0 /\ Head(c) = c[1]
        /\ Tail(c) \in Seq(Write) /\ Len(Tail(c)) = Len(c) - 1
        /\ \A i \in 1..Len(Tail(c)) : Tail(c)[i] = c[i + 1]
    OBVIOUS
  <1>2. Applied(r, MarkWrite) = Applied(r, Head(c))
    BY DEF Applied, MarkWrite
  <1>3. r # NoRow
    BY <1>1 DEF Says, HasOrigin
  <1>4. Says(Applied(r, Head(c)), Tail(c), s)
    BY CommitSays
  <1>5. r \in Row /\ Applied(r, Head(c)) = [r EXCEPT !.attempted = TRUE]
    BY <1>3 DEF Applied
  <1>6. Applied(r, Head(c)) \in Row /\ Applied(r, Head(c)).status = r.status
    BY <1>5 DEF Row
  <1>7. Applied(r, Head(c)) # NoRow
    BY <1>6, NoRowAssumption
  <1>8. Says(r, Tail(c), s)
    BY <1>3, <1>4, <1>6, <1>7 DEF Says, HasOrigin
  <1> QED BY <1>2, <1>4, <1>8

\* What a step does to what is written about j.
Told(j) == /\ chain' = Chained(j, StatusWrite(status'[j])) /\ status'[j] \in Finished \cup {"uploading"}
           /\ row' = row
Silent == UNCHANGED <<chain, status, row>>

LEMMA FinishTells ==
    ASSUME IInv, NEW j \in Jobs, NEW s \in Finished, Finish(j, s), row' = row
    PROVE  Told(j) /\ \A k \in Jobs \ {j} : status'[k] = status[k]
  BY DEF Finish, Told, IInv, TypeOK

LEMMA CaughtTells ==
    ASSUME IInv, NEW j \in Jobs, Caught(j), row' = row
    PROVE  Silent \/ (Told(j) /\ \A k \in Jobs \ {j} : status'[k] = status[k])
  BY FinishTells DEF Caught, Silent, Finished

LEMMA RunStepTells ==
    ASSUME IInv, NEW j \in Jobs, RunStep(j), ~MarkCommits(j), ~MarkRejects(j)
    PROVE  \/ Silent \/ (UploadDone(j) /\ chain' = Chained(j, MarkWrite) /\ UNCHANGED <<status, row>>)
           \/ Told(j) /\ \A k \in Jobs \ {j} : status'[k] = status[k]
  <1>1. CASE StartRun(j)
    <2>1. CASE EndRun(j) /\ UNCHANGED <<status, chain>>
      BY <1>1, <2>1 DEF StartRun, Silent
    <2>2. CASE Finish(j, "failed")
      BY <1>1, <2>2, FinishTells DEF StartRun, Finished
    <2>3. CASE status' = [status EXCEPT ![j] = "uploading"] /\ chain' = Chained(j, StatusWrite("uploading"))
      BY <1>1, <2>3 DEF StartRun, Told, IInv, TypeOK
    <2> QED BY <1>1, <2>1, <2>2, <2>3 DEF StartRun
  <1>2. CASE ArtifactReady(j) \/ BackoffEnds(j) \/ CleanUp(j) \/ PublishRefused(j)
    BY <1>2 DEF ArtifactReady, BackoffEnds, CleanUp, PublishRefused, Silent, userVars, journalVars
  <1>3. CASE ArtifactFails(j) \/ RecordFails(j) \/ ReserveFails(j)
    BY <1>3, CaughtTells DEF ArtifactFails, RecordFails, ReserveFails
  <1>4. CASE UploadDone(j)
    BY <1>4 DEF UploadDone, Silent, userVars
  <1>5. CASE UploadFails(j)
    BY <1>5, CaughtTells DEF UploadFails, Silent
  <1>6. CASE RecordCancelled(j) \/ Publish(j)
    BY <1>6, FinishTells DEF RecordCancelled, Publish, Finished
  <1>7. CASE StartFailed(j)
    BY <1>7, CaughtTells, FinishTells DEF StartFailed, Finished
  <1> QED BY <1>1, <1>2, <1>3, <1>4, <1>5, <1>6, <1>7 DEF RunStep

\* A step leaves what is written and reported about other dispatches alone.
About(j) ==
    \A k \in Jobs \ {j} : /\ row'[k] = row[k] /\ chain'[k] = chain[k] /\ status'[k] = status[k]
                          /\ k \in jobs' => k \in jobs

\* It is enough to look at the dispatch a step is about.
LEMMA OthersAgree ==
    ASSUME NEW i \in Jobs, Agrees(i), NEW j \in Jobs, About(j),
           i = j => /\ j \in jobs' => Says(row'[j], chain'[j], status'[j])
                    /\ status'[j] = "none" => row'[j] = NoRow /\ chain'[j] = <<>>
    PROVE  Agrees(i)'
  BY DEF Agrees, About

\* The steps that report a new status and write it.
LEMMA ToldAgree ==
    ASSUME IInv, NEW i \in Jobs, Agrees(i), NEW j \in Jobs, NEW w \in Write, w.op = "status",
           w.status = status'[j],
           chain' = Chained(j, w), UNCHANGED <<row, jobs>>, status'[j] # "none",
           \A k \in Jobs \ {j} : status'[k] = status[k]
    PROVE  Agrees(i)'
  <1>1. chain \in [Jobs -> Seq(Write)]
    BY DEF IInv, TypeOK, JournalTypeOK
  <1>2. chain'[j] = Append(chain[j], w) /\ \A k \in Jobs \ {j} : chain'[k] = chain[k]
    BY <1>1 DEF Chained
  <1>3. ASSUME i = j, j \in jobs' PROVE Says(row'[j], chain'[j], status'[j])
    <2>1. Says(row[j], chain[j], status[j])
      BY <1>3 DEF Agrees
    <2>2. Says(row[j], Append(chain[j], w), w.status)
      BY <1>1, <2>1, AppendWord
    <2> QED BY <1>2, <2>2
  <1>4. About(j)
    BY <1>2 DEF About
  <1> QED BY <1>3, <1>4, OthersAgree

LEMMA RunningIsKnown == ASSUME IInv, NEW j \in Jobs, Running(j) PROVE status[j] # "none"
  BY DEF IInv, RunOK

LEMMA RunStepAgrees ==
    ASSUME IInv, NEW i \in Jobs, Agrees(i), NEW j \in Jobs, RunStep(j)
    PROVE  Agrees(i)'
  <1>0. /\ row \in [Jobs -> Row \cup {NoRow}] /\ chain \in [Jobs -> Seq(Write)]
        /\ status \in [Jobs -> Statuses]
    BY DEF IInv, TypeOK, JournalTypeOK
  <1>1. jobs' = jobs
    BY DEF RunStep, StartRun, ArtifactReady, ArtifactFails, UploadDone, UploadFails, BackoffEnds, CleanUp,
           RecordCancelled, RecordFails, MarkCommits, MarkRejects, ReserveFails, Publish, PublishRefused,
           StartFailed, userVars
  <1>2. CASE Silent
    BY <1>1, <1>2 DEF Silent, Agrees
  <1>3. CASE Told(j) /\ \A k \in Jobs \ {j} : status'[k] = status[k]
    <2>1. StatusWrite(status'[j]) \in Write /\ status'[j] # "none"
      BY <1>3, WriteTypes DEF Told, Finished
    <2> QED BY <1>1, <1>3, <2>1, ToldAgree DEF Told, StatusWrite
  <1>4. CASE chain' = Chained(j, MarkWrite) /\ UNCHANGED <<status, row>> /\ UploadDone(j)
    <2>1. chain'[j] = Append(chain[j], MarkWrite) /\ \A k \in Jobs \ {j} : chain'[k] = chain[k]
      BY <1>0, <1>4 DEF Chained
    <2>2. ASSUME i = j, j \in jobs' PROVE Says(row'[j], chain'[j], status'[j])
      <3>1. Says(row[j], chain[j], status[j])
        BY <1>1, <2>2 DEF Agrees
      <3>2. MarkWrite \in Write /\ MarkWrite.op = "mark"
        BY WriteTypes DEF MarkWrite
      <3>3. Says(row[j], Append(chain[j], MarkWrite), status[j])
        BY <1>0, <3>1, <3>2, AppendWord
      <3> QED BY <1>4, <2>1, <3>3
    <2>3. status'[j] # "none"
      BY <1>4, RunningIsKnown DEF UploadDone, Running
    <2>4. About(j)
      BY <1>1, <1>4, <2>1 DEF About
    <2> QED BY <2>2, <2>3, <2>4, OthersAgree
  <1>5. CASE MarkCommits(j)
    <2>1. /\ row'[j] = Applied(row[j], Head(chain[j])) /\ chain'[j] = Tail(chain[j]) /\ chain[j] # <<>>
          /\ \A k \in Jobs \ {j} : row'[k] = row[k] /\ chain'[k] = chain[k]
          /\ UNCHANGED status /\ Running(j)
      BY <1>0, <1>5 DEF MarkCommits, CommitHead, Running, userVars
    <2>2. ASSUME i = j, j \in jobs' PROVE Says(row'[j], chain'[j], status'[j])
      <3>1. Says(row[j], chain[j], status[j])
        BY <1>1, <2>2 DEF Agrees
      <3>2. Says(Applied(row[j], Head(chain[j])), Tail(chain[j]), status[j])
        BY <1>0, <2>1, <3>1, CommitSays
      <3> QED BY <2>1, <3>2
    <2>3. About(j)
      BY <1>1, <2>1 DEF About
    <2>4. status'[j] # "none"
      BY <2>1, RunningIsKnown
    <2> QED BY <2>2, <2>3, <2>4, OthersAgree
  <1>6. CASE MarkRejects(j)
    <2>1. /\ row'[j] \in {row[j], Applied(row[j], MarkWrite)}
          /\ chain'[j] = Append(Tail(chain[j]), StatusWrite("failed"))
          /\ chain[j] # <<>> /\ Head(chain[j]).op = "mark" /\ status'[j] = "failed"
          /\ \A k \in Jobs \ {j} : row'[k] = row[k] /\ chain'[k] = chain[k] /\ status'[k] = status[k]
      BY <1>0, <1>6 DEF MarkRejects
    <2>2. /\ StatusWrite("failed") \in Write /\ StatusWrite("failed").op = "status"
          /\ StatusWrite("failed").status = "failed" /\ Tail(chain[j]) \in Seq(Write)
      BY <1>0, <2>1, WriteTypes, TailOfChain DEF StatusWrite, Finished
    <2>3. ASSUME i = j, j \in jobs' PROVE Says(row'[j], chain'[j], status'[j])
      <3>0. Says(row[j], chain[j], status[j])
        BY <1>1, <2>3 DEF Agrees
      <3>1. Says(row'[j], Tail(chain[j]), status[j])
        <4>1. /\ Says(row[j], Tail(chain[j]), status[j])
              /\ Says(Applied(row[j], MarkWrite), Tail(chain[j]), status[j])
          BY <1>0, <2>1, <3>0, MarkLeavesWord
        <4> QED BY <2>1, <4>1
      <3>2. Says(row'[j], Append(Tail(chain[j]), StatusWrite("failed")), "failed")
        BY <2>2, <3>1, AppendWord
      <3> QED BY <2>1, <3>2
    <2>4. About(j)
      BY <1>1, <2>1 DEF About
    <2> QED BY <2>1, <2>3, <2>4, OthersAgree
  <1> QED BY <1>2, <1>3, <1>4, <1>5, <1>6, RunStepTells

LEMMA PrepareDoneAgrees ==
    ASSUME IInv, NEW i \in Jobs, Agrees(i), NEW j \in Jobs, PrepareDone(j)
    PROVE  Agrees(i)'
  <1>0. /\ chain \in [Jobs -> Seq(Write)] /\ status \in [Jobs -> Statuses]
        /\ i = j => row[j] = NoRow /\ chain[j] = <<>>
    BY DEF IInv, TypeOK, JournalTypeOK, UnknownOK, Agrees, PrepareDone
  <1>1. /\ chain'[j] = Append(chain[j], InsertWrite) /\ \A k \in Jobs \ {j} : chain'[k] = chain[k]
        /\ status'[j] = "queued" /\ \A k \in Jobs \ {j} : status'[k] = status[k]
        /\ row' = row /\ jobs' \subseteq jobs \cup {j}
    BY <1>0 DEF PrepareDone, Chained
  <1>2. i = j => chain'[j] = <<InsertWrite>>
    BY <1>0, <1>1
  <1>3. i = j => Says(row'[j], chain'[j], status'[j])
    BY <1>0, <1>1, <1>2, FirstWord
  <1>4. About(j)
    BY <1>1 DEF About
  <1> QED BY <1>1, <1>3, <1>4, OthersAgree

LEMMA JournalSettlesAgrees ==
    ASSUME IInv, NEW i \in Jobs, Agrees(i), NEW j \in Jobs, JournalSettles(j), i \notin lossy'
    PROVE  Agrees(i)'
  <1>0. row \in [Jobs -> Row \cup {NoRow}] /\ chain \in [Jobs -> Seq(Write)]
    BY DEF IInv, TypeOK, JournalTypeOK
  <1>1. /\ chain[j] # <<>> /\ chain'[j] = Tail(chain[j])
        /\ \A k \in Jobs \ {j} : row'[k] = row[k] /\ chain'[k] = chain[k]
        /\ row'[j] = Applied(row[j], Head(chain[j])) \/ lossy' = lossy \cup {j}
        /\ UNCHANGED <<jobs, status>>
    BY <1>0 DEF JournalSettles, CommitHead, DropHead, userVars
  <1>2. ASSUME i = j, j \in jobs' PROVE Says(row'[j], chain'[j], status'[j])
    <2>1. /\ Says(row[j], chain[j], status[j])
          /\ row'[j] = Applied(row[j], Head(chain[j]))
      BY <1>1, <1>2 DEF Agrees
    <2>2. Says(Applied(row[j], Head(chain[j])), Tail(chain[j]), status[j])
      BY <1>0, <1>1, <2>1, CommitSays
    <2> QED BY <1>1, <2>1, <2>2
  <1>3. About(j) /\ (i = j => status'[j] # "none")
    BY <1>1 DEF About, Agrees
  <1> QED BY <1>2, <1>3, OthersAgree

LEMMA AgreesStep ==
    ASSUME IInv, NEW i \in Jobs, Agrees(i), [DispatcherNext]_dispatcherVars, i \notin lossy'
    PROVE  Agrees(i)'
  <1>1. CASE UNCHANGED <<jobs, row, chain, status>>
    BY <1>1 DEF Agrees
  <1>2. ASSUME NEW j \in Jobs, Submit(j) \/ PrepareFails(j) \/ Cancel(j) \/ StopVisit(j)
        PROVE  UNCHANGED <<jobs, row, chain, status>>
    BY <1>2 DEF Submit, PrepareFails, Cancel, StopVisit, userVars, journalVars
  <1>3. CASE (\E p \in Printers : Register(p)) \/ Shutdown \/ UNCHANGED dispatcherVars
    BY <1>1, <1>3 DEF Register, Shutdown, dispatcherVars, userVars, journalVars
  <1>4. ASSUME NEW j \in Jobs, IdleCancelDone(j) \/ StopCancelDone(j) PROVE Agrees(i)'
    <2>1. /\ chain' = Chained(j, StatusWrite("cancelled")) /\ status'[j] = "cancelled"
          /\ \A k \in Jobs \ {j} : status'[k] = status[k]
          /\ UNCHANGED <<row, jobs>>
      BY <1>4 DEF IdleCancelDone, StopCancelDone, Finish, IInv, TypeOK
    <2>2. StatusWrite("cancelled") \in Write
      BY WriteTypes DEF Finished
    <2> QED BY <2>1, <2>2, ToldAgree DEF StatusWrite
  <1>5. ASSUME NEW j \in Jobs, Retry(j) PROVE Agrees(i)'
    <2>1. /\ chain' = Chained(j, RearmWrite) /\ status'[j] = "queued"
          /\ \A k \in Jobs \ {j} : status'[k] = status[k]
          /\ UNCHANGED <<row, jobs>>
      BY <1>5 DEF Retry, IInv, TypeOK
    <2> QED BY <2>1, WriteTypes, ToldAgree DEF RearmWrite
  <1> QED BY <1>1, <1>2, <1>3, <1>4, <1>5, RunStepAgrees, PrepareDoneAgrees, JournalSettlesAgrees
          DEF DispatcherNext

LEMMA LossyStays == ASSUME IInv, [DispatcherNext]_dispatcherVars PROVE lossy \subseteq lossy'
  BY DEF DispatcherNext, RunStep, Submit, PrepareFails, PrepareDone, StartRun, ArtifactReady,
         ArtifactFails, UploadDone, UploadFails, BackoffEnds, CleanUp, RecordCancelled,
         RecordFails, MarkCommits, MarkRejects, ReserveFails, Publish, PublishRefused, StartFailed,
         Cancel, IdleCancelDone, Retry, StopVisit, StopCancelDone, JournalSettles, Register,
         Shutdown, dispatcherVars

\* What an empty chain amounts to.
LEMMA AgreedRow ==
    ASSUME NEW j \in Jobs, Agrees(j), j \in jobs, chain[j] = <<>>
    PROVE  row[j] # NoRow /\ row[j].status = status[j]
  <1>1. Says(row[j], chain[j], status[j]) /\ Len(chain[j]) = 0
    BY DEF Agrees
  <1> QED BY <1>1 DEF Says, LastWord

\* A journal without pending and lost writes never contradicts what the
\* dispatcher reports of a listed dispatch: writes reach the table in the
\* order in which the dispatcher changed its mind, and every change is written.
THEOREM DispatcherJournalAgrees == DispatcherSpec => []JournalAgrees
  <1>1. DispatcherInit => AgreeInv
    BY DEF DispatcherInit, JournalInit, AgreeInv, Agrees
  <1>2. IInv /\ AgreeInv => JournalAgrees
    BY AgreedRow DEF JournalAgrees, AgreeInv, IInv, TypeOK
  <1>3. IInv /\ AgreeInv /\ [DispatcherNext]_dispatcherVars => AgreeInv'
    BY AgreesStep, LossyStays DEF AgreeInv
  <1> QED BY <1>1, <1>2, <1>3, DispatcherInvariant, PTL DEF DispatcherSpec

-----------------------------------------------------------------------------
(* Nothing is stranded *)

\* A cancellation of an idle dispatch waits for its history row.
Withdrawn(j) == idleCancels[j] > 0 \/ stopWait = j

HasRunOK ==
    \A j \in Jobs :
        /\ status[j] \in Active => j \in jobs
        /\ status[j] = "uploading" => Running(j)
        /\ status[j] = "queued" => InQueue(j) \/ Withdrawn(j)

\* A queued dispatch is flagged only by a cancellation that will come to it.
FlagOK == \A j \in Jobs : status[j] = "queued" /\ cancelReq[j] => Withdrawn(j)

HasMark(c) == \E i \in 1..Len(c) : c[i].op = "mark"

MarkPendingOK == \A j \in Jobs : pc[j] = "marking" => HasMark(chain[j])

StrandInv == HasRunOK /\ FlagOK /\ MarkPendingOK

\* The end of one run leaves the others in their queues.
LEMMA PopLeavesOthers ==
    ASSUME TypeOK, QueueOK, NEW j \in Jobs, AtHead(j), NEW k \in Jobs \ {j}, InQueue(k),
           queue' = [queue EXCEPT ![PrinterOf[j]] = Tail(@)]
    PROVE  InQueue(k)'
  <1> DEFINE p == PrinterOf[j]
  <1>1. p \in Printers /\ PrinterOf[k] \in Printers /\ queue[p] \in Seq(Jobs) /\ queue[p] # <<>>
    BY ConstantsAssumption DEF TypeOK, AtHead
  <1>2. PICK i \in 1..Len(queue[PrinterOf[k]]) : queue[PrinterOf[k]][i] = k
    BY DEF InQueue
  <1>3. CASE PrinterOf[k] # p
    <2>1. queue'[PrinterOf[k]] = queue[PrinterOf[k]]
      BY <1>1, <1>3 DEF TypeOK
    <2> QED BY <1>2, <2>1 DEF InQueue
  <1>4. CASE PrinterOf[k] = p
    <2>1. queue'[p] = Tail(queue[p]) /\ queue[p][1] = j
      BY <1>1 DEF TypeOK, AtHead
    <2>2. /\ Len(Tail(queue[p])) = Len(queue[p]) - 1 /\ Len(queue[p]) \in Nat
          /\ \A n \in 1..Len(Tail(queue[p])) : Tail(queue[p])[n] = queue[p][n + 1]
      BY <1>1
    <2>3. i \in 1..Len(queue[p]) /\ queue[p][i] = k /\ i # 1
      BY <1>2, <1>4, <2>1
    <2>4. i - 1 \in 1..Len(Tail(queue[p])) /\ Tail(queue[p])[i - 1] = k
      BY <2>2, <2>3
    <2> QED BY <1>4, <2>1, <2>4 DEF InQueue
  <1> QED BY <1>3, <1>4

\* A chained run is in its queue, and so are those before it.
LEMMA PushAdds ==
    ASSUME TypeOK, NEW j \in Jobs, queue' = Enqueued(j), NEW k \in Jobs, InQueue(k) \/ k = j
    PROVE  InQueue(k)'
  <1> DEFINE p == PrinterOf[j]
  <1>1. p \in Printers /\ PrinterOf[k] \in Printers /\ queue[p] \in Seq(Jobs)
    BY ConstantsAssumption DEF TypeOK
  <1>2. queue'[p] = Append(queue[p], j) /\ \A q \in Printers \ {p} : queue'[q] = queue[q]
    BY <1>1 DEF TypeOK, Enqueued
  <1>3. /\ Len(queue'[p]) = Len(queue[p]) + 1 /\ Len(queue[p]) \in Nat
        /\ queue'[p][Len(queue[p]) + 1] = j
        /\ \A i \in 1..Len(queue[p]) : queue'[p][i] = queue[p][i]
    BY <1>1, <1>2
  <1>4. CASE k = j
    <2>1. Len(queue[p]) + 1 \in 1..Len(queue'[p])
      BY <1>3
    <2> QED BY <1>3, <1>4, <2>1 DEF InQueue
  <1>5. CASE InQueue(k)
    <2>1. PICK i \in 1..Len(queue[PrinterOf[k]]) : queue[PrinterOf[k]][i] = k
      BY <1>5 DEF InQueue
    <2>2. CASE PrinterOf[k] = p
      <3>1. i \in 1..Len(queue'[p]) /\ queue'[p][i] = k
        BY <1>3, <2>1, <2>2
      <3> QED BY <2>2, <3>1 DEF InQueue
    <2>3. CASE PrinterOf[k] # p
      BY <1>1, <1>2, <2>1, <2>3 DEF InQueue
    <2> QED BY <2>2, <2>3
  <1> QED BY <1>4, <1>5

LEMMA MarkStays ==
    ASSUME NEW c \in Seq(Write), NEW w \in Write
    PROVE  /\ HasMark(c) \/ w.op = "mark" => HasMark(Append(c, w))
           /\ HasMark(c) /\ c # <<>> /\ Head(c).op # "mark" => HasMark(Tail(c))
  <1>1. HasMark(c) \/ w.op = "mark" => HasMark(Append(c, w))
    <2>1. /\ Len(Append(c, w)) = Len(c) + 1 /\ Len(c) \in Nat /\ Append(c, w)[Len(c) + 1] = w
          /\ \A i \in 1..Len(c) : Append(c, w)[i] = c[i]
      OBVIOUS
    <2>2. \A i \in 1..Len(c) : i \in 1..Len(Append(c, w))
      BY <2>1
    <2>3. Len(c) + 1 \in 1..Len(Append(c, w))
      BY <2>1
    <2> QED BY <2>1, <2>2, <2>3 DEF HasMark
  <1>2. ASSUME HasMark(c), c # <<>>, Head(c).op # "mark" PROVE HasMark(Tail(c))
    <2>1. /\ Head(c) = c[1] /\ Len(c) \in Nat /\ Len(Tail(c)) = Len(c) - 1
          /\ \A i \in 1..Len(Tail(c)) : Tail(c)[i] = c[i + 1]
      BY <1>2
    <2>2. PICK i \in 1..Len(c) : c[i].op = "mark"
      BY <1>2 DEF HasMark
    <2>3. i - 1 \in 1..Len(Tail(c)) /\ Tail(c)[i - 1] = c[i]
      BY <1>2, <2>1, <2>2
    <2> QED BY <2>2, <2>3 DEF HasMark
  <1> QED BY <1>1, <1>2

\* A run is popped from its queue in the step in which it ends.
LEMMA RunLeavesQueue ==
    ASSUME IInv, NEW j \in Jobs, RunStep(j)
    PROVE  \/ queue' = queue /\ pc'[j] # "idle"
           \/ queue' = [queue EXCEPT ![PrinterOf[j]] = Tail(@)] /\ pc'[j] = "idle"
  <1>1. pc \in [Jobs -> Awaits]
    BY DEF IInv, TypeOK
  <1>2. ASSUME EndRun(j)
        PROVE  queue' = [queue EXCEPT ![PrinterOf[j]] = Tail(@)] /\ pc'[j] = "idle"
    BY <1>1, <1>2 DEF EndRun
  <1>3. ASSUME NEW w \in Awaits \ {"idle"}, Goto(j, w) PROVE queue' = queue /\ pc'[j] # "idle"
    BY <1>1, <1>3 DEF Goto
  <1>4. ASSUME TryUpload(j) PROVE queue' = queue /\ pc'[j] # "idle"
    BY <1>1, <1>4 DEF TryUpload, Goto
  <1>5. ASSUME Caught(j)
        PROVE  \/ queue' = queue /\ pc'[j] # "idle"
               \/ queue' = [queue EXCEPT ![PrinterOf[j]] = Tail(@)] /\ pc'[j] = "idle"
    BY <1>2, <1>3, <1>5 DEF Caught, Awaits
  <1> QED BY <1>2, <1>3, <1>4, <1>5
          DEF RunStep, StartRun, ArtifactReady, ArtifactFails, UploadDone, UploadFails, BackoffEnds,
              CleanUp, RecordCancelled, RecordFails, MarkCommits, MarkRejects, ReserveFails, Publish,
              PublishRefused, StartFailed, Awaits

\* A step of a run that is popped reports an outcome, or was cancelled before.
LEMMA RunEndsKnown ==
    ASSUME IInv, NEW j \in Jobs, RunStep(j), pc'[j] = "idle"
    PROVE  status'[j] \in Finished \/ (status'[j] = status[j] /\ cancelReq[j])
  <1>1. /\ pc \in [Jobs -> Awaits] /\ status \in [Jobs -> Statuses]
        /\ RunFrame(j) /\ (GoesOn(j) \/ Begins(j))
    BY RunStepEffects DEF IInv, TypeOK
  <1>2. CASE StartRun(j)
    BY <1>1, <1>2 DEF StartRun, EndRun, Finish, Finished, Goto
  <1>3. CASE ~StartRun(j)
    <2>1. pc[j] # "idle"
      BY <1>3 DEF RunStep, ArtifactReady, ArtifactFails, UploadDone, UploadFails, BackoffEnds,
                  CleanUp, RecordCancelled, RecordFails, MarkCommits, MarkRejects, ReserveFails, Publish,
                  PublishRefused, StartFailed
    <2>2. Running(j)
      BY <1>1, <2>1 DEF Running, RunFrame
    <2> QED BY <1>1, <2>2 DEF GoesOn, Begins
  <1> QED BY <1>2, <1>3

LEMMA RunStepStrands == ASSUME IInv, StrandInv, NEW j \in Jobs, RunStep(j) PROVE HasRunOK' /\ FlagOK'
  <1>0. /\ TypeOK /\ QueueOK /\ RunFrame(j) /\ (GoesOn(j) \/ Begins(j))
        /\ UNCHANGED <<jobs, cancelReq, idleCancels, stopWait>>
    BY RunStepEffects DEF IInv, RunFrame
  <1>1. AtHead(j) /\ InQueue(j)
    BY <1>0, RunningAtHead, HeadInQueue DEF GoesOn, Begins
  <1>2. ASSUME NEW k \in Jobs \ {j}, InQueue(k) PROVE InQueue(k)'
    BY <1>0, <1>1, <1>2, RunLeavesQueue, PopLeavesOthers DEF InQueue
  <1>3. status'[j] \in Active => status[j] \in Active
    <2>1. status[j] \in Active \cup {"cancelled"}
      BY <1>0, <1>1 DEF IInv, TypeOK, RunOK, Statuses, Active, Finished
    <2> QED BY <1>0, <2>1 DEF GoesOn, Begins, Active, Finished
  <1>4. status'[j] = "queued" => status[j] = "queued"
    BY <1>0 DEF GoesOn, Begins, Finished
  <1>5. FlagOK'
    BY <1>0, <1>4 DEF StrandInv, FlagOK, Withdrawn, RunFrame
  <1>6. status'[j] = "queued" => InQueue(j)' \/ Withdrawn(j)'
    <2>1. CASE queue' = queue
      BY <1>1, <2>1 DEF InQueue
    <2>2. CASE pc'[j] = "idle" /\ status'[j] = "queued"
      <3>1. status[j] = "queued" /\ cancelReq[j]
        BY <2>2, RunEndsKnown DEF Finished
      <3> QED BY <1>0, <3>1 DEF StrandInv, FlagOK, Withdrawn
    <2> QED BY <2>1, <2>2, RunLeavesQueue
  <1>7. status'[j] = "uploading" => Running(j)'
    <2>1. CASE pc'[j] = "idle" /\ status'[j] = "uploading"
      <3>1. status[j] = "uploading" /\ Running(j)
        BY <2>1, RunEndsKnown DEF Finished, StrandInv, HasRunOK
      <3> QED BY <1>0, <2>1, <3>1 DEF GoesOn, Begins, Finished
    <2> QED BY <1>0, <2>1 DEF Running, RunFrame
  <1>8. HasRunOK'
    BY <1>0, <1>2, <1>3, <1>6, <1>7 DEF StrandInv, HasRunOK, Withdrawn, RunFrame, Running
  <1> QED BY <1>5, <1>8

\* Only a completed upload makes a run wait for the mark, and chains it.
LEMMA WaitsForOwnMark ==
    ASSUME IInv, NEW j \in Jobs, RunStep(j), pc'[j] = "marking"
    PROVE  chain' = Chained(j, MarkWrite)
  <1>0. pc \in [Jobs -> Awaits]
    BY DEF IInv, TypeOK
  <1>1. ASSUME NEW w \in Awaits \ {"marking"}, Goto(j, w) PROVE FALSE
    BY <1>0, <1>1 DEF Goto
  <1>2. ASSUME EndRun(j) PROVE FALSE
    BY <1>0, <1>2 DEF EndRun
  <1>3. ASSUME TryUpload(j) PROVE FALSE
    BY <1>0, <1>1, <1>3 DEF TryUpload, Awaits
  <1>4. ASSUME Caught(j) PROVE FALSE
    BY <1>1, <1>2, <1>4 DEF Caught, Awaits
  <1> QED BY <1>1, <1>2, <1>3, <1>4
          DEF RunStep, StartRun, ArtifactReady, ArtifactFails, UploadDone, UploadFails, BackoffEnds,
              CleanUp, RecordCancelled, RecordFails, MarkCommits, MarkRejects, ReserveFails, Publish,
              PublishRefused, StartFailed, Awaits

\* One dispatch's chain grows by a write; the marks that are waited for stay.
LEMMA ChainedKeepsMarks ==
    ASSUME IInv, MarkPendingOK, NEW j \in Jobs, NEW w \in Write, chain' = Chained(j, w),
           \A k \in Jobs : pc'[k] = "marking" => pc[k] = "marking" \/ (k = j /\ w.op = "mark")
    PROVE  MarkPendingOK'
  <1>1. chain \in [Jobs -> Seq(Write)]
    BY DEF IInv, TypeOK, JournalTypeOK
  <1>2. chain'[j] = Append(chain[j], w) /\ \A k \in Jobs \ {j} : chain'[k] = chain[k]
    BY <1>1 DEF Chained
  <1>3. pc'[j] = "marking" => HasMark(chain'[j])
    BY <1>1, <1>2, MarkStays DEF MarkPendingOK
  <1> QED BY <1>2, <1>3 DEF MarkPendingOK

LEMMA RunStepMarks == ASSUME IInv, MarkPendingOK, NEW j \in Jobs, RunStep(j) PROVE MarkPendingOK'
  <1>0. /\ chain \in [Jobs -> Seq(Write)] /\ pc \in [Jobs -> Awaits]
        /\ \A k \in Jobs \ {j} : pc'[k] = pc[k]
    BY RunStepEffects DEF IInv, TypeOK, JournalTypeOK, RunFrame
  <1>1. CASE MarkCommits(j) \/ MarkRejects(j)
    <2>1. pc'[j] # "marking" /\ \A k \in Jobs \ {j} : chain'[k] = chain[k]
      BY <1>0, <1>1 DEF MarkCommits, MarkRejects, CommitHead, Goto, EndRun
    <2> QED BY <1>0, <2>1 DEF MarkPendingOK
  <1>2. CASE pc'[j] = "marking"
    <2>1. MarkWrite \in Write /\ MarkWrite.op = "mark"
      BY WriteTypes DEF MarkWrite
    <2> QED BY <1>0, <1>2, <2>1, WaitsForOwnMark, ChainedKeepsMarks
  <1>3. CASE pc'[j] # "marking" /\ Silent
    BY <1>0, <1>3 DEF MarkPendingOK, Silent
  <1>4. CASE pc'[j] # "marking" /\ Told(j)
    <2>1. StatusWrite(status'[j]) \in Write
      BY <1>4, WriteTypes DEF Told
    <2> QED BY <1>0, <1>4, <2>1, ChainedKeepsMarks DEF Told
  <1>5. CASE pc'[j] # "marking" /\ UploadDone(j) /\ chain' = Chained(j, MarkWrite)
    BY <1>0, <1>5, WriteTypes, ChainedKeepsMarks
  <1> QED BY <1>1, <1>2, <1>3, <1>4, <1>5, RunStepTells

\* The steps that report a status of j or chain a run of it, and write that.
LEMMA ReportedStrands ==
    ASSUME IInv, StrandInv, NEW j \in Jobs, NEW w \in Write, chain' = Chained(j, w),
           \A k \in Jobs : pc'[k] = "marking" => pc[k] = "marking",
           \A k \in Jobs : Running(k)' <=> Running(k),
           \A k \in Jobs \ {j} : /\ status'[k] = status[k] /\ cancelReq'[k] = cancelReq[k]
                                 /\ Withdrawn(k) => Withdrawn(k)'
                                 /\ InQueue(k) => InQueue(k)'
                                 /\ k \in jobs => k \in jobs' \/ status[k] \in Finished,
           \/ status'[j] \notin Active
           \/ status'[j] = "queued" /\ j \in jobs' /\ ~cancelReq'[j] /\ InQueue(j)'
    PROVE  StrandInv'
  <1>1. MarkPendingOK'
    BY ChainedKeepsMarks DEF StrandInv
  <1>2. HasRunOK'
    <2>1. ASSUME NEW k \in Jobs \ {j}
          PROVE  /\ status'[k] \in Active => k \in jobs'
                 /\ status'[k] = "uploading" => Running(k)'
                 /\ status'[k] = "queued" => InQueue(k)' \/ Withdrawn(k)'
      <3>1. \A s \in Active : s \notin Finished
        BY DEF Active, Finished
      <3> QED BY <2>1, <3>1 DEF StrandInv, HasRunOK
    <2>2. /\ status'[j] \in Active => j \in jobs'
          /\ status'[j] = "uploading" => Running(j)'
          /\ status'[j] = "queued" => InQueue(j)' \/ Withdrawn(j)'
      BY DEF Active
    <2> QED BY <2>1, <2>2 DEF HasRunOK
  <1>3. FlagOK'
    BY DEF StrandInv, FlagOK, Active
  <1> QED BY <1>1, <1>2, <1>3 DEF StrandInv

LEMMA RequestsStrand ==
    ASSUME IInv, StrandInv, NEW j \in Jobs,
           PrepareDone(j) \/ Retry(j) \/ IdleCancelDone(j) \/ StopCancelDone(j)
    PROVE  StrandInv'
  <1>0. /\ TypeOK /\ status \in [Jobs -> Statuses] /\ pc \in [Jobs -> Awaits]
        /\ cancelReq \in [Jobs -> BOOLEAN] /\ idleCancels \in [Jobs -> Nat]
    BY DEF IInv, TypeOK
  <1>1. CASE PrepareDone(j)
    <2>1. /\ chain' = Chained(j, InsertWrite) /\ queue' = Enqueued(j)
          /\ status' = [status EXCEPT ![j] = "queued"] /\ pc' = [pc EXCEPT ![j] = "idle"]
          /\ j \in jobs' /\ UNCHANGED <<cancelReq, idleCancels, stopWait>>
          /\ pc[j] = "preparing"
      BY <1>1 DEF PrepareDone, serverVars
    <2>2. \A k \in jobs : k \in jobs' \/ status[k] \in Finished
      BY <1>1 DEF PrepareDone
    <2>3. ~cancelReq'[j]
      BY <2>1 DEF IInv, UnknownOK
    <2>4. \A k \in Jobs : (Running(k)' <=> Running(k)) /\ (pc'[k] = "marking" => pc[k] = "marking")
      BY <1>0, <2>1 DEF Running
    <2>5. \A k \in Jobs : InQueue(k) \/ k = j => InQueue(k)'
      BY <1>0, <2>1, PushAdds
    <2> QED BY <1>0, <2>1, <2>2, <2>3, <2>4, <2>5, WriteTypes, ReportedStrands DEF Withdrawn
  <1>2. CASE Retry(j)
    <2>1. /\ chain' = Chained(j, RearmWrite) /\ queue' = Enqueued(j)
          /\ status' = [status EXCEPT ![j] = "queued"] /\ cancelReq' = [cancelReq EXCEPT ![j] = FALSE]
          /\ j \in jobs' /\ UNCHANGED <<jobs, idleCancels, stopWait, pc>>
      BY <1>2 DEF Retry, serverVars
    <2>2. \A k \in Jobs : InQueue(k) \/ k = j => InQueue(k)'
      BY <1>0, <2>1, PushAdds
    <2> QED BY <1>0, <2>1, <2>2, WriteTypes, ReportedStrands DEF Withdrawn, Running
  <1>3. CASE IdleCancelDone(j) \/ StopCancelDone(j)
    <2>1. /\ chain' = Chained(j, StatusWrite("cancelled"))
          /\ status' = [status EXCEPT ![j] = "cancelled"]
          /\ UNCHANGED <<jobs, cancelReq, pc, queue>>
          /\ \A k \in Jobs \ {j} : Withdrawn(k) => Withdrawn(k)'
      BY <1>0, <1>3 DEF IdleCancelDone, StopCancelDone, Finish, runVars, serverVars, Withdrawn
    <2>2. StatusWrite("cancelled") \in Write
      BY WriteTypes DEF Finished
    <2> QED BY <1>0, <2>1, <2>2, ReportedStrands DEF Running, InQueue, Active
  <1> QED BY <1>1, <1>2, <1>3

\* The steps that leave statuses and queues alone and withdraw no cancellation.
LEMMA QuietStrands ==
    ASSUME IInv, StrandInv, UNCHANGED <<jobs, status, queue>>,
           \A k \in Jobs : pc'[k] # pc[k] => pc[k] \in {"idle", "preparing"} /\ pc'[k] \in {"idle", "preparing"},
           \A k \in Jobs : Withdrawn(k) => Withdrawn(k)',
           \A k \in Jobs : cancelReq'[k] /\ status[k] = "queued" => cancelReq[k] \/ Withdrawn(k)',
           MarkPendingOK'
    PROVE  StrandInv'
  <1>1. HasRunOK'
    BY DEF StrandInv, HasRunOK, Running, InQueue
  <1>2. FlagOK'
    BY DEF StrandInv, FlagOK
  <1> QED BY <1>1, <1>2 DEF StrandInv

LEMMA OtherStepStrands ==
    ASSUME IInv, StrandInv, NEW j \in Jobs,
           Submit(j) \/ PrepareFails(j) \/ Cancel(j) \/ StopVisit(j) \/ JournalSettles(j)
    PROVE  StrandInv'
  <1>0. /\ TypeOK /\ pc \in [Jobs -> Awaits] /\ idleCancels \in [Jobs -> Nat]
        /\ chain \in [Jobs -> Seq(Write)] /\ cancelReq \in [Jobs -> BOOLEAN]
    BY DEF IInv, TypeOK, JournalTypeOK
  <1>1. CASE Submit(j) \/ PrepareFails(j)
    <2>1. /\ UNCHANGED <<jobs, status, queue, cancelReq, idleCancels, stopWait, chain>>
          /\ \A k \in Jobs \ {j} : pc'[k] = pc[k]
          /\ pc[j] \in {"idle", "preparing"} /\ pc'[j] \in {"idle", "preparing"}
      BY <1>0, <1>1 DEF Submit, PrepareFails, userVars, serverVars, journalVars
    <2> QED BY <2>1, QuietStrands DEF Withdrawn, StrandInv, MarkPendingOK
  <1>2. CASE Cancel(j)
    <2>1. /\ UNCHANGED <<jobs, status, queue, pc, stopWait, chain>>
          /\ cancelReq' = [cancelReq EXCEPT ![j] = TRUE]
          /\ status[j] = "queued" => idleCancels'[j] > 0
          /\ \A k \in Jobs : idleCancels'[k] >= idleCancels[k] /\ idleCancels'[k] \in Nat
      BY <1>0, <1>2 DEF Cancel, runVars, serverVars, journalVars
    <2>2. \A k \in Jobs : Withdrawn(k) => Withdrawn(k)'
      BY <1>0, <2>1 DEF Withdrawn
    <2> QED BY <1>0, <2>1, <2>2, QuietStrands DEF Withdrawn, StrandInv, MarkPendingOK
  <1>3. CASE StopVisit(j)
    <2>1. /\ UNCHANGED <<jobs, status, queue, pc, idleCancels, chain>>
          /\ cancelReq' = [cancelReq EXCEPT ![j] = @ \/ status[j] \in Active]
          /\ stopWait = NoJob /\ (status[j] = "queued" => stopWait' = j)
      BY <1>3 DEF StopVisit, runVars, journalVars
    <2>2. \A k \in Jobs : Withdrawn(k) => Withdrawn(k)'
      BY <2>1, ConstantsAssumption DEF Withdrawn
    <2>3. \A k \in Jobs \ {j} : cancelReq'[k] = cancelReq[k]
      BY <1>0, <2>1
    <2> QED BY <2>1, <2>2, <2>3, QuietStrands DEF Withdrawn, StrandInv, MarkPendingOK
  <1>4. CASE JournalSettles(j)
    <2>1. /\ UNCHANGED <<jobs, status, queue, pc, cancelReq, idleCancels, stopWait>>
          /\ chain[j] # <<>> /\ Head(chain[j]).op # "mark" /\ chain'[j] = Tail(chain[j])
          /\ \A k \in Jobs \ {j} : chain'[k] = chain[k]
      BY <1>0, <1>4 DEF JournalSettles, CommitHead, DropHead, userVars, runVars, serverVars
    <2>2. HasMark(chain[j]) => HasMark(chain'[j])
      BY <1>0, <2>1, MarkStays, WriteTypes
    <2>3. MarkPendingOK'
      BY <2>1, <2>2 DEF StrandInv, MarkPendingOK
    <2> QED BY <2>1, <2>3, QuietStrands DEF Withdrawn
  <1> QED BY <1>1, <1>2, <1>3, <1>4

LEMMA StrandStep == ASSUME IInv, StrandInv, [DispatcherNext]_dispatcherVars PROVE StrandInv'
  <1>1. CASE (\E p \in Printers : Register(p)) \/ Shutdown \/ UNCHANGED dispatcherVars
    <2>1. UNCHANGED <<jobs, status, queue, pc, cancelReq, idleCancels, stopWait, chain>>
      BY <1>1 DEF Register, Shutdown, dispatcherVars, userVars, runVars, serverVars, journalVars
    <2> QED BY <2>1, QuietStrands DEF Withdrawn, StrandInv, MarkPendingOK
  <1>2. ASSUME NEW j \in Jobs, RunStep(j) PROVE StrandInv'
    BY <1>2, RunStepStrands, RunStepMarks DEF StrandInv
  <1> QED BY <1>1, <1>2, RequestsStrand, OtherStepStrands DEF DispatcherNext

LEMMA StrandFacts ==
    /\ DispatcherInit => StrandInv
    /\ StrandInv => NothingStranded
  <1>1. DispatcherInit => StrandInv
    BY DEF DispatcherInit, StrandInv, HasRunOK, FlagOK, MarkPendingOK, Active
  <1>2. StrandInv => NothingStranded
    BY DEF StrandInv, HasRunOK, MarkPendingOK, HasMark, Withdrawn, NothingStranded
  <1> QED BY <1>1, <1>2

\* However requests, cancellations, retries, failures and a shutdown fall
\* together, no dispatch is left unfinished with nothing that would finish it:
\* what DispatchesFinish needs of every reachable state.
THEOREM DispatcherNothingStranded == DispatcherSpec => []NothingStranded
  BY StrandFacts, StrandStep, DispatcherInvariant, PTL DEF DispatcherSpec
=============================================================================
