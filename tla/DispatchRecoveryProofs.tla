------------------------ MODULE DispatchRecoveryProofs ------------------------
(***************************************************************************)
(* Proofs about print dispatch across crashes and restarts                 *)
(* (DispatchRecovery), for any number of dispatches, printers, names,      *)
(* retries and crashes: the invariant of one server life survives, no      *)
(* started dispatch is written off, the file of a running print stays, and *)
(* the dispatcher implements StartBoundary.                                *)
(***************************************************************************)
EXTENDS DispatchRecovery, DispatchOutcomeProofs

RecoveryInv == RecoveryTypeOK /\ IInv

LEMMA StepInServe == ASSUME IInv, Serve PROVE IInv'
  BY NextIInv DEF Serve

\* A crash empties every queue and chain; what it leaves are the rows.
LEMMA CrashKeepsIInv == ASSUME IInv, Crash PROVE IInv'
  <1>1. TypeOK'
    <2>1. sd' \in [Printers -> [Files -> Jobs \cup {NoJob}]]
      <3>1. PICK landed \in SUBSET {j \in Jobs : pc[j] = "transfer"} :
              sd' = [p \in Printers |-> [f \in Files |->
                       IF \E j \in landed : PrinterOf[j] = p /\ FileOf[j] = f
                       THEN CHOOSE j \in landed : PrinterOf[j] = p /\ FileOf[j] = f
                       ELSE sd[p][f]]]
        BY DEF Crash
      <3>2. ASSUME NEW p \in Printers, NEW f \in Files, \E j \in landed : PrinterOf[j] = p /\ FileOf[j] = f
            PROVE  (CHOOSE j \in landed : PrinterOf[j] = p /\ FileOf[j] = f) \in Jobs
        BY <3>1, <3>2
      <3> QED BY <3>1, <3>2 DEF IInv, TypeOK
    <2>2. /\ status' \in [Jobs -> Statuses] /\ pc' \in [Jobs -> Awaits]
          /\ cancelReq' \in [Jobs -> BOOLEAN] /\ queue' \in [Printers -> Seq(Jobs)]
          /\ idleCancels' \in [Jobs -> Nat] /\ attempt' \in [Jobs -> Nat]
      BY DEF Crash, Statuses, Awaits
    <2>3. row' \in [Jobs -> Row \cup {NoRow}] /\ chain' \in [Jobs -> Seq(Write)]
      BY DEF Crash, IInv, TypeOK, JournalTypeOK
    <2> QED BY <2>1, <2>2, <2>3 DEF Crash, IInv, TypeOK, JournalTypeOK
  <1>2. \A j \in Jobs : /\ queue'[PrinterOf[j]] = <<>> /\ pc'[j] = "idle" /\ chain'[j] = <<>>
                        /\ status'[j] \in {"none", "lost"}
                        /\ status'[j] = "none" => status[j] = "none"
    BY ConstantsAssumption DEF Crash
  <1>3. \A j \in Jobs : ~InQueue(j)' /\ ~Running(j)'
    <2>1. ASSUME NEW j \in Jobs, InQueue(j)' PROVE FALSE
      <3>1. Len(queue'[PrinterOf[j]]) = 0
        BY <1>2
      <3> QED BY <2>1, <3>1 DEF InQueue
    <2> QED BY <1>2, <2>1 DEF Running
  <1>4. QueueOK'
    BY DEF Crash, QueueOK
  <1>5. RunOK'
    BY <1>3 DEF RunOK
  <1>6. UnknownOK'
    BY <1>2, ConstantsAssumption DEF Crash, UnknownOK, IInv
  <1>7. MarkOK'
    BY <1>2 DEF MarkOK, NoMark, HarmlessAfterMark
  <1>8. BoundaryOK'
    BY <1>2, <1>3 DEF Crash, BoundaryOK, PastBoundary, Harmless, IInv, UnknownOK
  <1> QED BY <1>1, <1>4, <1>5, <1>6, <1>7, <1>8 DEF IInv

\* The steps that touch nothing of the dispatcher but the rows, the SD card
\* or the phase.
LEMMA OutsideStep ==
    ASSUME IInv, UNCHANGED <<userVars, runVars, managed, visited, stopWait, published, chain, lossy>>,
           phase' \in {"up", "draining", "down"},
           sd' \in [Printers -> [Files -> Jobs \cup {NoJob}]],
           row' \in [Jobs -> Row \cup {NoRow}],
           \A j \in Jobs : row[j] = NoRow \/ row[j].attempted => row'[j] = NoRow \/ row'[j].attempted
    PROVE  IInv'
  <1>1. TypeOK'
    BY DEF IInv, TypeOK, JournalTypeOK, userVars, runVars
  <1>2. \A k \in Jobs : (InQueue(k)' <=> InQueue(k)) /\ (AtHead(k)' <=> AtHead(k))
    BY DEF InQueue, AtHead, runVars
  <1>3. QueueOK' /\ RunOK' /\ UnknownOK' /\ MarkOK'
    BY <1>2 DEF IInv, QueueOK, RunOK, Running, UnknownOK, MarkOK, userVars, runVars
  <1>4. BoundaryOK'
    BY <1>2 DEF IInv, BoundaryOK, PastBoundary, userVars, runVars
  <1> QED BY <1>1, <1>3, <1>4 DEF IInv

LEMMA ReconciledFacts ==
    ASSUME TypeOK
    PROVE  /\ ReconciledRows \in [Jobs -> Row \cup {NoRow}]
           /\ \A j \in Jobs : row[j] = NoRow \/ row[j].attempted => ReconciledRows[j] = row[j]
           /\ \A j \in Jobs : Reconcilable(row[j]) =>
                 ReconciledRows[j] = [status |-> "interrupted", attempted |-> FALSE]
           /\ \A j \in Jobs : ~Reconcilable(row[j]) => ReconciledRows[j] = row[j]
  BY DEF ReconciledRows, Reconcilable, TypeOK, JournalTypeOK, Row, JournalStatus

LEMMA RowsWithoutFacts ==
    ASSUME TypeOK, NEW ids \in SUBSET Jobs
    PROVE  /\ RowsWithout(ids) \in [Jobs -> Row \cup {NoRow}]
           /\ \A j \in Jobs : RowsWithout(ids)[j] = IF j \in ids THEN NoRow ELSE row[j]
  BY DEF RowsWithout, TypeOK, JournalTypeOK

LEMMA RecoveryNextIInv == ASSUME RecoveryInv, [Next]_vars PROVE IInv'
  <1>1. /\ TypeOK /\ JournalTypeOK /\ IInv
        /\ sd \in [Printers -> [Files -> Jobs \cup {NoJob}]] /\ row \in [Jobs -> Row \cup {NoRow}]
        /\ phase \in {"up", "draining", "down"}
    BY DEF RecoveryInv, IInv, TypeOK, JournalTypeOK
  <1>2. CASE Serve
    BY <1>1, <1>2, StepInServe
  <1>3. CASE Crash
    BY <1>1, <1>3, CrashKeepsIInv
  <1>4. CASE Boot
    BY <1>1, <1>4, OutsideStep DEF Boot, serverVars, printerVars, journalVars
  <1>5. CASE BootReconcile
    BY <1>1, <1>5, OutsideStep, ReconciledFacts DEF BootReconcile, serverVars, printerVars
  <1>6. CASE UNCHANGED vars
    BY <1>1, <1>6, OutsideStep DEF vars, dispatcherVars, serverVars, printerVars, journalVars
  <1>7. ASSUME NEW p \in Printers, PrintEnds(p) \/ SweepStart(p) \/ SweepList(p) PROVE IInv'
    BY <1>1, <1>7, OutsideStep
       DEF PrintEnds, SweepStart, SweepList, dispatcherVars, serverVars, printerVars, journalVars
  <1>8. ASSUME NEW p \in Printers, SweepDelete(p) PROVE IInv'
    <2>1. PICK j \in todo[p] : sd' \in {sd, Erased(p, FileOf[j])}
      BY <1>8 DEF SweepDelete
    <2>2. FileOf[j] \in Files
      BY <2>1, ConstantsAssumption DEF RecoveryInv, RecoveryTypeOK
    <2>3. sd' \in [Printers -> [Files -> Jobs \cup {NoJob}]]
      <3>1. Erased(p, FileOf[j]) \in [Printers -> [Files -> Jobs \cup {NoJob}]]
        BY <1>1, <2>2 DEF Erased
      <3> QED BY <1>1, <2>1, <3>1
    <2> QED BY <1>1, <1>8, <2>3, OutsideStep DEF SweepDelete, serverVars, journalVars
  <1>9. ASSUME NEW p \in Printers, SweepDrop(p) PROVE IInv'
    <2>1. orphans[p] \in SUBSET Jobs
      BY DEF RecoveryInv, RecoveryTypeOK
    <2>2. /\ row' \in [Jobs -> Row \cup {NoRow}]
          /\ \A j \in Jobs : row[j] = NoRow \/ row[j].attempted => row'[j] = NoRow \/ row'[j].attempted
      BY <1>1, <1>9, <2>1, RowsWithoutFacts DEF SweepDrop
    <2> QED BY <1>1, <1>9, <2>2, OutsideStep DEF SweepDrop, serverVars, printerVars
  <1> QED BY <1>2, <1>3, <1>4, <1>5, <1>6, <1>7, <1>8, <1>9 DEF Next, SweepStep

LEMMA RecoveryNextTypes == ASSUME RecoveryInv, [Next]_vars PROVE RecoveryTypeOK'
  <1>0. TypeOK'
    BY RecoveryNextIInv DEF IInv
  <1>1. /\ crashes \in Nat /\ reconciled \in BOOLEAN /\ swept \subseteq Printers
        /\ sweepAt \in [Printers -> {"idle", "list", "delete", "drop"}]
        /\ orphans \in [Printers -> SUBSET Jobs] /\ todo \in [Printers -> SUBSET Jobs]
        /\ live \in [Printers -> Jobs \cup {NoJob}] /\ raced \subseteq Jobs
    BY DEF RecoveryInv, RecoveryTypeOK
  <1> USE DEF RecoveryTypeOK, sweepVars, recoveryVars
  <1>2. CASE Serve
    <2>1. published' \subseteq Jobs
      BY <1>0 DEF TypeOK
    <2>2. live' \in [Printers -> Jobs \cup {NoJob}]
      BY <1>1, <1>2, <2>1 DEF Serve
    <2> QED BY <1>0, <1>1, <1>2, <2>2 DEF Serve
  <1>3. CASE Crash
    <2>1. /\ crashes' \in Nat /\ reconciled' = FALSE /\ swept' = {} /\ live' = live /\ raced' = raced
          /\ sweepAt' \in [Printers -> {"idle", "list", "delete", "drop"}]
          /\ orphans' \in [Printers -> SUBSET Jobs] /\ todo' \in [Printers -> SUBSET Jobs]
      BY <1>1, <1>3 DEF Crash
    <2> QED BY <1>0, <1>1, <2>1
  <1>4. CASE Boot \/ UNCHANGED vars
    BY <1>0, <1>1, <1>4 DEF Boot, vars
  <1>5. CASE BootReconcile
    BY <1>0, <1>1, <1>5 DEF BootReconcile
  <1>6. ASSUME NEW p \in Printers, PrintEnds(p) \/ SweepStart(p) \/ SweepDrop(p) PROVE RecoveryTypeOK'
    BY <1>0, <1>1, <1>6 DEF PrintEnds, SweepStart, SweepDrop
  <1>7. ASSUME NEW p \in Printers, SweepList(p) PROVE RecoveryTypeOK'
    <2>1. PICK found \in SUBSET Jobs :
            /\ orphans' = [orphans EXCEPT ![p] = found]
            /\ todo' = [todo EXCEPT ![p] = found]
            /\ sweepAt' = [sweepAt EXCEPT ![p] = IF found = {} THEN "idle" ELSE "delete"]
      BY <1>7 DEF SweepList, InterruptedAmong
    <2> QED BY <1>0, <1>1, <1>7, <2>1 DEF SweepList
  <1>8. ASSUME NEW p \in Printers, SweepDelete(p) PROVE RecoveryTypeOK'
    BY <1>0, <1>1, <1>8 DEF SweepDelete
  <1> QED BY <1>2, <1>3, <1>4, <1>5, <1>6, <1>7, <1>8 DEF Next, SweepStep

THEOREM RecoveryInvariant == Spec => []RecoveryInv
  <1>1. Init => RecoveryInv
    <2>1. Init => IInv /\ TypeOK
      BY InitIInv DEF Init, IInv
    <2>2. ASSUME Init
          PROVE  /\ crashes \in Nat /\ reconciled \in BOOLEAN
                 /\ swept \subseteq Printers /\ raced \subseteq Jobs
      BY <2>2 DEF Init
    <2>3. ASSUME Init
          PROVE  /\ sweepAt \in [Printers -> {"idle", "list", "delete", "drop"}]
                 /\ live \in [Printers -> Jobs \cup {NoJob}]
      BY <2>3 DEF Init
    <2>4. ASSUME Init
          PROVE  orphans \in [Printers -> SUBSET Jobs] /\ todo \in [Printers -> SUBSET Jobs]
      BY <2>4 DEF Init
    <2> QED BY <2>1, <2>2, <2>3, <2>4 DEF RecoveryInv, RecoveryTypeOK
  <1>2. RecoveryInv /\ [Next]_vars => RecoveryInv'
    BY RecoveryNextIInv, RecoveryNextTypes DEF RecoveryInv
  <1> QED BY <1>1, <1>2, PTL DEF Spec

\* Type correctness over all lives of the server.
THEOREM RecoveryTypes == Spec => []RecoveryTypeOK
  <1>1. RecoveryInv => RecoveryTypeOK
    BY DEF RecoveryInv
  <1> QED BY <1>1, RecoveryInvariant, PTL

\* The start boundary stays write-ahead through crashes, boot reconciles and
\* sweeps.
THEOREM RecoveryStartIsMarked == Spec => []StartIsMarked
  <1>1. RecoveryInv => StartIsMarked
    BY DEF RecoveryInv, IInv, TypeOK, BoundaryOK, PastBoundary, StartIsMarked
  <1> QED BY <1>1, RecoveryInvariant, PTL

-----------------------------------------------------------------------------
(* What a restart writes off *)

WrittenOff(r) == r # NoRow /\ r.status = "interrupted"

\* No journal write says "interrupted".
LEMMA AppliedWritesNothingOff ==
    ASSUME NEW r \in Row \cup {NoRow}, NEW w \in Write, WrittenOff(Applied(r, w))
    PROVE  WrittenOff(r)
  <1>1. w.op \in {"insert", "status", "mark"} /\ w.status # "interrupted"
    BY DEF Write
  <1>2. CASE r = NoRow
    BY <1>1, <1>2 DEF Applied, WrittenOff
  <1>3. CASE r # NoRow /\ w.op = "mark"
    BY <1>3 DEF Applied, WrittenOff, Row
  <1>4. CASE r # NoRow /\ w.op # "mark"
    BY <1>1, <1>4 DEF Applied, WrittenOff
  <1> QED BY <1>2, <1>3, <1>4

LEMMA ServeWritesNothingOff ==
    ASSUME RecoveryInv, Serve, NEW j \in Jobs, WrittenOff(row'[j])
    PROVE  WrittenOff(row[j])
  <1>0. row \in [Jobs -> Row \cup {NoRow}] /\ chain \in [Jobs -> Seq(Write)]
    BY DEF RecoveryInv, IInv, TypeOK, JournalTypeOK
  <1>1. \/ row' = row
        \/ \E k \in Jobs, w \in Write : row' = [row EXCEPT ![k] = Applied(@, w)]
    <2>1. CASE \E k \in Jobs : JournalSettles(k) \/ MarkCommits(k)
      BY <1>0, <2>1, TailOfChain DEF JournalSettles, MarkCommits, CommitHead, DropHead
    <2>2. CASE \E k \in Jobs : MarkRejects(k)
      BY <2>2, WriteTypes DEF MarkRejects
    <2>3. CASE ~\E k \in Jobs : JournalSettles(k) \/ MarkCommits(k) \/ MarkRejects(k)
      BY <2>3
         DEF Serve, DispatcherNext, RunStep, Submit, PrepareFails, PrepareDone, StartRun, ArtifactReady,
             ArtifactFails, UploadDone, UploadFails, BackoffEnds, CleanUp, RecordCancelled,
             RecordFails, ReserveFails, Publish, PublishRefused, StartFailed,
             Cancel, IdleCancelDone, Retry, StopVisit, StopCancelDone, Register, Shutdown, journalVars
    <2> QED BY <2>1, <2>2, <2>3
  <1>2. CASE row' = row
    BY <1>2
  <1>3. ASSUME NEW k \in Jobs, NEW w \in Write, row' = [row EXCEPT ![k] = Applied(@, w)]
        PROVE  WrittenOff(row[j])
    <2>1. row'[j] = row[j] \/ (j = k /\ row'[j] = Applied(row[j], w))
      BY <1>0, <1>3
    <2> QED BY <1>0, <1>3, <2>1, AppliedWritesNothingOff
  <1> QED BY <1>1, <1>2, <1>3

LEMMA StepSparesStarted ==
    ASSUME RecoveryInv, [Next]_vars, NEW j \in published, WrittenOff(row'[j])
    PROVE  WrittenOff(row[j])
  <1>0. /\ TypeOK /\ j \in Jobs
        /\ row[j] = NoRow \/ row[j].attempted
    BY DEF RecoveryInv, IInv, TypeOK, BoundaryOK, PastBoundary
  <1>1. CASE Serve
    BY <1>0, <1>1, ServeWritesNothingOff
  <1>2. CASE BootReconcile
    BY <1>0, <1>2, ReconciledFacts DEF BootReconcile
  <1>3. ASSUME NEW p \in Printers, SweepDrop(p) PROVE WrittenOff(row[j])
    <2>1. orphans[p] \in SUBSET Jobs
      BY DEF RecoveryInv, RecoveryTypeOK
    <2> QED BY <1>0, <1>3, <2>1, RowsWithoutFacts DEF SweepDrop, WrittenOff
  <1>4. CASE row' = row
    BY <1>4
  <1> QED BY <1>1, <1>2, <1>3, <1>4
          DEF Next, SweepStep, Crash, Boot, PrintEnds, SweepStart, SweepList, SweepDelete, vars,
              dispatcherVars, journalVars

\* Whatever a crash left of its row, a dispatch whose start command was
\* published is never written off as one that never started.
THEOREM RecoverySparesStarted == Spec => ReconcileSparesStarted
  <1>1. RecoveryInv /\ [Next]_vars
          => [\A j \in published : WrittenOff(row'[j]) => WrittenOff(row[j])]_vars
    BY StepSparesStarted
  <1>2. Spec => [][\A j \in published : WrittenOff(row'[j]) => WrittenOff(row[j])]_vars
    BY <1>1, RecoveryInvariant, PTL DEF Spec
  <1> QED BY <1>2 DEF ReconcileSparesStarted, WrittenOff

-----------------------------------------------------------------------------
(* The file a printer prints *)

\* No other dispatch ever used the remote name of j.
Unshared(j) ==
    \A k \in Jobs \ {j} : PrinterOf[k] = PrinterOf[j] /\ FileOf[k] = FileOf[j] => status[k] = "none"

\* Nothing is listed, pending or written of a dispatch the running life does
\* not know, but for the row of an earlier life.
KnownOK ==
    \A j \in Jobs :
        /\ status[j] \in {"none", "lost"} =>
             j \notin jobs /\ idleCancels[j] = 0 /\ stopWait # j /\ chain[j] = <<>>
        /\ status[j] = "none" => row[j] = NoRow /\ j \notin raced

\* j was written off before it started, unless its own life did it.
OverOrRaced(j) == j \in raced \/ (status[j] = "lost" /\ j \notin published)

OffOK == \A j \in Jobs : WrittenOff(row[j]) => OverOrRaced(j)

\* What a sweep is about to delete.
TodoOK == \A p \in Printers : \A j \in todo[p] : PrinterOf[j] = p /\ status[j] # "none" /\ OverOrRaced(j)

LiveOK == \A p \in Printers : live[p] # NoJob => live[p] \in published /\ PrinterOf[live[p]] = p

\* From the end of its upload to the end of its print the card holds the
\* file of j.
Needed(j) == live[PrinterOf[j]] = j \/ pc[j] \in {"marking", "reserving"}

KeptOK ==
    \A j \in Jobs : j \notin raced /\ Unshared(j) /\ Needed(j) => sd[PrinterOf[j]][FileOf[j]] = j

FileInv == KnownOK /\ OffOK /\ TodoOK /\ LiveOK /\ KeptOK

\* A step of the dispatcher concerns a dispatch of the running life only.
Touches(j) ==
    /\ \A k \in Jobs \ {j} :
        /\ row'[k] = row[k] /\ chain'[k] = chain[k] /\ status'[k] = status[k]
        /\ idleCancels'[k] = idleCancels[k]
        /\ stopWait' = k => stopWait = k
        /\ k \in jobs' => k \in jobs
    /\ status[j] # "lost" /\ status'[j] \notin {"none", "lost"}

LEMMA RunStepTouches ==
    ASSUME IInv, NEW j \in Jobs, RunStep(j)
    PROVE  Touches(j) /\ status[j] # "none" /\ j \notin published
  <1>0. /\ row \in [Jobs -> Row \cup {NoRow}] /\ chain \in [Jobs -> Seq(Write)]
        /\ status \in [Jobs -> Statuses]
    BY DEF IInv, TypeOK, JournalTypeOK
  <1>1. RunFrame(j) /\ (GoesOn(j) \/ Begins(j))
    BY RunStepEffects
  <1>2. InQueue(j)
    BY <1>1, RunningAtHead, HeadInQueue DEF GoesOn, Begins, IInv
  <1>3. status[j] \notin {"none", "lost"} /\ j \notin published
    BY <1>2 DEF IInv, RunOK, BoundaryOK
  <1>4. status'[j] \notin {"none", "lost"}
    BY <1>1, <1>3 DEF GoesOn, Begins, Finished
  <1>5. \A k \in Jobs \ {j} : row'[k] = row[k] /\ chain'[k] = chain[k]
    <2>1. CASE MarkCommits(j) \/ MarkRejects(j)
      BY <1>0, <2>1 DEF MarkCommits, MarkRejects, CommitHead
    <2>2. CASE ~MarkCommits(j) /\ ~MarkRejects(j)
      BY <1>0, <2>2, RunStepTells DEF Silent, Told, Chained
    <2> QED BY <2>1, <2>2
  <1> QED BY <1>1, <1>3, <1>4, <1>5 DEF RunFrame, Touches

LEMMA NextTouches ==
    ASSUME IInv, KnownOK, DispatcherNext
    PROVE  \/ UNCHANGED <<row, chain, status, idleCancels, stopWait, jobs>>
           \/ \E j \in Jobs : Touches(j)
  <1>0. /\ row \in [Jobs -> Row \cup {NoRow}] /\ chain \in [Jobs -> Seq(Write)]
        /\ status \in [Jobs -> Statuses] /\ idleCancels \in [Jobs -> Nat] /\ jobs \subseteq Jobs
    BY DEF IInv, TypeOK, JournalTypeOK
  <1>1. ASSUME NEW j \in Jobs, Submit(j) \/ PrepareFails(j)
        PROVE  UNCHANGED <<row, chain, status, idleCancels, stopWait, jobs>>
    BY <1>1 DEF Submit, PrepareFails, userVars, serverVars, journalVars
  <1>2. CASE (\E p \in Printers : Register(p)) \/ Shutdown
    BY <1>2 DEF Register, Shutdown, userVars, journalVars
  <1>3. ASSUME NEW j \in Jobs, PrepareDone(j) PROVE Touches(j)
    <2>1. /\ status[j] = "none" /\ status' = [status EXCEPT ![j] = "queued"]
          /\ jobs' \subseteq jobs \cup {j}
          /\ chain' = Chained(j, InsertWrite) /\ UNCHANGED <<row, idleCancels, stopWait>>
      BY <1>3 DEF PrepareDone, serverVars, IInv, UnknownOK
    <2> QED BY <1>0, <2>1 DEF Touches, Chained
  <1>4. ASSUME NEW j \in Jobs, Cancel(j) \/ StopVisit(j) PROVE Touches(j)
    <2>1. /\ j \in jobs /\ UNCHANGED <<row, chain, status, jobs>>
          /\ stopWait' \in {stopWait, j, NoJob}
          /\ \A k \in Jobs \ {j} : idleCancels'[k] = idleCancels[k]
      BY <1>0, <1>4 DEF Cancel, StopVisit, journalVars, serverVars
    <2>2. status[j] \notin {"none", "lost"}
      BY <2>1 DEF KnownOK
    <2> QED BY <2>1, <2>2, ConstantsAssumption DEF Touches
  <1>5. ASSUME NEW j \in Jobs, IdleCancelDone(j) \/ StopCancelDone(j) PROVE Touches(j)
    <2>1. /\ status[j] # "lost" /\ status' = [status EXCEPT ![j] = "cancelled"]
          /\ chain' = Chained(j, StatusWrite("cancelled")) /\ UNCHANGED <<row, jobs>>
          /\ stopWait' \in {stopWait, NoJob}
          /\ \A k \in Jobs \ {j} : idleCancels'[k] = idleCancels[k]
      BY <1>0, <1>5 DEF IdleCancelDone, StopCancelDone, Finish, KnownOK, serverVars
    <2> QED BY <1>0, <2>1, ConstantsAssumption DEF Touches, Chained
  <1>6. ASSUME NEW j \in Jobs, Retry(j) PROVE Touches(j)
    BY <1>0, <1>6 DEF Retry, Touches, Chained, serverVars
  <1>7. ASSUME NEW j \in Jobs, JournalSettles(j) PROVE Touches(j)
    <2>1. chain[j] # <<>> /\ UNCHANGED <<status, idleCancels, stopWait, jobs>>
      BY <1>7 DEF JournalSettles, userVars, serverVars
    <2>2. status[j] \notin {"none", "lost"}
      BY <2>1 DEF KnownOK
    <2>3. \A k \in Jobs \ {j} : row'[k] = row[k] /\ chain'[k] = chain[k]
      BY <1>0, <1>7 DEF JournalSettles, CommitHead, DropHead
    <2> QED BY <2>1, <2>2, <2>3 DEF Touches
  <1> QED BY <1>1, <1>2, <1>3, <1>4, <1>5, <1>6, <1>7, RunStepTouches DEF DispatcherNext

\* What follows for what the running life knows.
LEMMA ServeKnown ==
    ASSUME RecoveryInv, KnownOK, Serve
    PROVE  /\ KnownOK'
           /\ \A k \in Jobs : /\ status[k] = "lost" => status'[k] = "lost"
                              /\ status'[k] = "none" => status[k] = "none"
  <1>1. IInv /\ raced' = raced /\ DispatcherNext
    BY DEF RecoveryInv, Serve
  <1>2. CASE UNCHANGED <<row, chain, status, idleCancels, stopWait, jobs>>
    BY <1>1, <1>2 DEF KnownOK
  <1>3. ASSUME NEW j \in Jobs, Touches(j)
        PROVE  /\ KnownOK'
               /\ \A k \in Jobs : /\ status[k] = "lost" => status'[k] = "lost"
                                  /\ status'[k] = "none" => status[k] = "none"
    <2>1. \A k \in Jobs : status'[k] \in {"none", "lost"} =>
            /\ k # j /\ status'[k] = status[k] /\ row'[k] = row[k] /\ chain'[k] = chain[k]
            /\ idleCancels'[k] = idleCancels[k] /\ (stopWait' = k => stopWait = k)
            /\ (k \in jobs' => k \in jobs)
      BY <1>3 DEF Touches
    <2>2. \A k \in Jobs : status[k] = "lost" => status'[k] = "lost"
      BY <1>3 DEF Touches
    <2> QED BY <1>1, <2>1, <2>2 DEF KnownOK
  <1> QED BY <1>1, <1>2, <1>3, NextTouches

\* Only a run starts a print.
LEMMA NewStart ==
    ASSUME RecoveryInv, Serve, NEW j \in published' \ published
    PROVE  j \in Jobs /\ Publish(j) /\ status[j] # "lost"
  <1>1. PICK k \in Jobs : Publish(k)
    BY DEF Serve, DispatcherNext, RunStep, Submit, PrepareFails, PrepareDone, StartRun, ArtifactReady,
           ArtifactFails, UploadDone, UploadFails, BackoffEnds, CleanUp, RecordCancelled,
           RecordFails, MarkCommits, MarkRejects, ReserveFails, PublishRefused, StartFailed,
           Cancel, IdleCancelDone, Retry, StopVisit, StopCancelDone, JournalSettles, Register,
           Shutdown, printerVars
  <1>2. k = j
    BY <1>1 DEF Publish
  <1> QED BY <1>1, <1>2, RunStepTouches DEF RunStep, Touches, RecoveryInv

LEMMA ServeKeepsOver ==
    ASSUME RecoveryInv, KnownOK, Serve, NEW j \in Jobs, OverOrRaced(j)
    PROVE  OverOrRaced(j)'
  <1>1. raced' = raced /\ (status[j] = "lost" => status'[j] = "lost")
    BY ServeKnown DEF Serve
  <1> QED BY <1>1, NewStart DEF OverOrRaced

LEMMA ServeOff ==
    ASSUME RecoveryInv, FileInv, Serve
    PROVE  OffOK' /\ TodoOK' /\ LiveOK'
  <1>1. OffOK'
    BY ServeWritesNothingOff, ServeKeepsOver DEF FileInv, OffOK
  <1>2. TodoOK'
    <2>1. todo' = todo /\ \A p \in Printers : todo[p] \subseteq Jobs
      BY DEF Serve, sweepVars, RecoveryInv, RecoveryTypeOK
    <2> QED BY <2>1, ServeKnown, ServeKeepsOver DEF FileInv, TodoOK
  <1>3. LiveOK'
    <2>1. published \subseteq published'
      <3>1. CASE published' = published
        BY <3>1
      <3>2. CASE \E j \in Jobs : Publish(j)
        BY <3>2 DEF Publish
      <3>3. CASE ~(\E j \in Jobs : Publish(j))
        BY <3>3
           DEF Serve, DispatcherNext, RunStep, Submit, PrepareFails, PrepareDone, StartRun, ArtifactReady,
               ArtifactFails, UploadDone, UploadFails, BackoffEnds, CleanUp, RecordCancelled,
               RecordFails, MarkCommits, MarkRejects, ReserveFails, PublishRefused, StartFailed,
               Cancel, IdleCancelDone, Retry, StopVisit, StopCancelDone, JournalSettles, Register,
               Shutdown, printerVars
      <3> QED BY <3>2, <3>3
    <2>2. live \in [Printers -> Jobs \cup {NoJob}]
      BY DEF RecoveryInv, RecoveryTypeOK
    <2>3. CASE live' = live
      BY <2>1, <2>3 DEF FileInv, LiveOK
    <2>4. CASE \E j \in published' \ published : live' = [live EXCEPT ![PrinterOf[j]] = j]
      BY <2>1, <2>2, <2>4, NewStart, ConstantsAssumption DEF FileInv, LiveOK
    <2> QED BY <2>3, <2>4 DEF Serve
  <1> QED BY <1>1, <1>2, <1>3

\* The dispatches that need their file need it already, but for the one the
\* step is about.
LEMMA ServeNeeds ==
    ASSUME RecoveryInv, FileInv, Serve, NEW j \in Jobs, Needed(j)', ~Needed(j)
    PROVE  UploadDone(j)
  <1>0. /\ live \in [Printers -> Jobs \cup {NoJob}] /\ pc \in [Jobs -> Awaits]
        /\ PrinterOf[j] \in Printers /\ IInv
    BY ConstantsAssumption DEF RecoveryInv, RecoveryTypeOK, IInv, TypeOK
  <1>1. CASE live'[PrinterOf[j]] = j
    <2>1. PICK k \in published' \ published : live' = [live EXCEPT ![PrinterOf[k]] = k]
      BY <1>1 DEF Serve, Needed
    <2>2. k \in Jobs /\ Publish(k)
      BY <2>1, NewStart
    <2>3. k = j
      <3>1. CASE PrinterOf[k] = PrinterOf[j]
        BY <1>0, <1>1, <2>1, <3>1
      <3>2. CASE PrinterOf[k] # PrinterOf[j]
        BY <1>0, <1>1, <2>1, <3>2 DEF Needed
      <3> QED BY <3>1, <3>2
    <2> QED BY <2>2, <2>3 DEF Publish, Needed
  <1>2. CASE pc'[j] \in {"marking", "reserving"}
    <2>1. pc[j] \notin {"marking", "reserving"}
      BY DEF Needed
    <2>2. ASSUME NEW k \in Jobs, RunStep(k) PROVE UploadDone(j)
      <3>1. k = j
        BY <1>2, <2>1, <2>2, <1>0, RunStepEffects DEF RunFrame
      <3> QED BY <1>0, <1>2, <2>1, <2>2, <3>1
              DEF RunStep, StartRun, ArtifactReady, ArtifactFails, UploadFails, BackoffEnds, CleanUp,
                  RecordCancelled, RecordFails, MarkCommits, MarkRejects, ReserveFails, Publish,
                  PublishRefused, StartFailed, TryUpload, Caught, Goto, EndRun
    <2>3. ASSUME NEW k \in Jobs, Submit(k) \/ PrepareFails(k) \/ PrepareDone(k) PROVE FALSE
      BY <1>0, <1>2, <2>1, <2>3 DEF Submit, PrepareFails, PrepareDone
    <2>4. pc' # pc
      BY <1>2, <2>1
    <2> QED BY <2>2, <2>3, <2>4
            DEF Serve, DispatcherNext, Cancel, IdleCancelDone, Retry, StopVisit, StopCancelDone,
                JournalSettles, Register, Shutdown, runVars
  <1> QED BY <1>1, <1>2 DEF Needed

\* Only a run writes to the card, under its own name.
LEMMA CardWrites ==
    ASSUME IInv, NEW j \in Jobs, RunStep(j), NEW k \in Jobs,
           PrinterOf[k] # PrinterOf[j] \/ FileOf[k] # FileOf[j]
    PROVE  sd'[PrinterOf[k]][FileOf[k]] = sd[PrinterOf[k]][FileOf[k]]
  <1>0. /\ sd \in [Printers -> [Files -> Jobs \cup {NoJob}]]
        /\ PrinterOf[j] \in Printers /\ FileOf[j] \in Files
        /\ PrinterOf[k] \in Printers /\ FileOf[k] \in Files
    BY ConstantsAssumption DEF IInv, TypeOK
  <1>1. sd' \in {sd, Stored(j), Erased(PrinterOf[j], FileOf[j])}
    BY DEF RunStep, StartRun, ArtifactReady, ArtifactFails, UploadDone, UploadFails, BackoffEnds, CleanUp,
           RecordCancelled, RecordFails, MarkCommits, MarkRejects, ReserveFails, Publish, PublishRefused,
           StartFailed, printerVars
  <1> QED BY <1>0, <1>1 DEF Stored, Erased

LEMMA ServeKept == ASSUME RecoveryInv, FileInv, Serve PROVE KeptOK'
  <1>0. /\ IInv /\ raced' = raced /\ sd \in [Printers -> [Files -> Jobs \cup {NoJob}]]
        /\ pc \in [Jobs -> Awaits]
    BY DEF RecoveryInv, IInv, TypeOK, Serve
  <1> SUFFICES ASSUME NEW i \in Jobs, i \notin raced, Unshared(i)', Needed(i)'
               PROVE  sd'[PrinterOf[i]][FileOf[i]] = i
    BY <1>0 DEF KeptOK
  <1>1. Unshared(i) /\ PrinterOf[i] \in Printers /\ FileOf[i] \in Files
    BY ServeKnown, ConstantsAssumption DEF Unshared, FileInv
  <1>2. CASE UploadDone(i)
    BY <1>0, <1>1, <1>2 DEF UploadDone, Stored
  <1>3. CASE ~UploadDone(i)
    <2>1. Needed(i) /\ sd[PrinterOf[i]][FileOf[i]] = i
      BY <1>1, <1>3, ServeNeeds DEF FileInv, KeptOK
    <2>2. ASSUME NEW j \in Jobs, RunStep(j), j # i PROVE sd'[PrinterOf[i]][FileOf[i]] = i
      <3>1. PrinterOf[i] # PrinterOf[j] \/ FileOf[i] # FileOf[j]
        BY <1>0, <1>1, <2>2, RunStepTouches DEF Unshared
      <3> QED BY <1>0, <2>1, <2>2, <3>1, CardWrites
    <2>3. ASSUME RunStep(i) PROVE sd' = sd
      <3>1. i \notin published
        BY <1>0, <2>3, RunStepTouches
      <3>2. pc[i] \in {"marking", "reserving"}
        BY <1>1, <2>1, <3>1, ConstantsAssumption DEF Needed, FileInv, LiveOK
      <3> QED BY <2>3, <3>2
              DEF RunStep, StartRun, ArtifactReady, ArtifactFails, UploadDone, UploadFails, BackoffEnds,
                  CleanUp, RecordCancelled, RecordFails, MarkCommits, MarkRejects, ReserveFails,
                  Publish, PublishRefused, StartFailed, printerVars
    <2>4. CASE ~\E j \in Jobs : RunStep(j)
      <3>1. sd' = sd
        BY <2>4 DEF Serve, DispatcherNext, Submit, PrepareFails, PrepareDone, Cancel, IdleCancelDone, Retry,
                    StopVisit, StopCancelDone, JournalSettles, Register, Shutdown, printerVars
      <3> QED BY <2>1, <3>1
    <2> QED BY <2>1, <2>2, <2>3, <2>4
  <1> QED BY <1>2, <1>3

LEMMA CrashKeepsFiles == ASSUME RecoveryInv, FileInv, Crash PROVE FileInv'
  <1>0. /\ IInv /\ sd \in [Printers -> [Files -> Jobs \cup {NoJob}]]
        /\ PrinterOf \in [Jobs -> Printers] /\ FileOf \in [Jobs -> Files] /\ NoJob \notin Jobs
    BY ConstantsAssumption DEF RecoveryInv, IInv, TypeOK
  <1>1. /\ \A j \in Jobs : /\ status'[j] = IF status[j] = "none" THEN "none" ELSE "lost"
                           /\ idleCancels'[j] = 0 /\ chain'[j] = <<>> /\ pc'[j] = "idle"
        /\ jobs' = {} /\ stopWait' = NoJob /\ \A p \in Printers : todo'[p] = {}
        /\ UNCHANGED <<row, published, live, raced>>
    BY DEF Crash
  <1>2. KnownOK'
    BY <1>0, <1>1 DEF FileInv, KnownOK
  <1>3. OffOK' /\ TodoOK' /\ LiveOK'
    BY <1>1 DEF FileInv, OffOK, OverOrRaced, TodoOK, LiveOK
  <1>4. KeptOK'
    <2> SUFFICES ASSUME NEW i \in Jobs, i \notin raced, Unshared(i)', Needed(i)'
                 PROVE  sd'[PrinterOf[i]][FileOf[i]] = i
      BY <1>1 DEF KeptOK
    <2>1. Unshared(i) /\ Needed(i)
      BY <1>1 DEF Unshared, Needed
    <2>2. sd[PrinterOf[i]][FileOf[i]] = i
      BY <2>1 DEF FileInv, KeptOK
    <2>3. PICK landed \in SUBSET {j \in Jobs : pc[j] = "transfer"} :
            sd' = [p \in Printers |-> [f \in Files |->
                     IF \E j \in landed : PrinterOf[j] = p /\ FileOf[j] = f
                     THEN CHOOSE j \in landed : PrinterOf[j] = p /\ FileOf[j] = f
                     ELSE sd[p][f]]]
      BY DEF Crash
    <2>4. \A j \in landed : PrinterOf[j] = PrinterOf[i] /\ FileOf[j] = FileOf[i] => j = i
      <3> SUFFICES ASSUME NEW j \in landed, PrinterOf[j] = PrinterOf[i], FileOf[j] = FileOf[i], j # i
                   PROVE  FALSE
        OBVIOUS
      <3>1. Running(j) /\ j \in Jobs
        BY <2>3 DEF Running
      <3> QED BY <1>0, <2>1, <3>1, RunningIsKnown DEF Unshared
    <2>5. sd'[PrinterOf[i]][FileOf[i]] =
            IF \E j \in landed : PrinterOf[j] = PrinterOf[i] /\ FileOf[j] = FileOf[i]
            THEN CHOOSE j \in landed : PrinterOf[j] = PrinterOf[i] /\ FileOf[j] = FileOf[i]
            ELSE sd[PrinterOf[i]][FileOf[i]]
      BY <1>0, <2>3
    <2> QED BY <2>2, <2>4, <2>5
  <1> QED BY <1>2, <1>3, <1>4 DEF FileInv

\* A boot reconcile that comes late adds to the dispatches it raced with.
LEMMA ReconcileKeepsFiles == ASSUME RecoveryInv, FileInv, BootReconcile PROVE FileInv'
  <1>0. /\ TypeOK
        /\ \A j \in Jobs : PastBoundary(j) => row[j] = NoRow \/ row[j].attempted
    BY DEF RecoveryInv, IInv, BoundaryOK
  <1>1. UNCHANGED <<userVars, runVars, stopWait, sd, published, chain, todo, live>>
    BY DEF BootReconcile, serverVars, printerVars
  <1>2. \/ UNCHANGED <<row, raced>>
        \/ /\ \A j \in Jobs : row'[j] # row[j] => Reconcilable(row[j])
           /\ raced' = raced \cup {j \in Jobs : Reconcilable(row[j]) /\ status[j] # "lost"}
    BY <1>0, ReconciledFacts DEF BootReconcile
  <1>3. raced \subseteq raced' /\ \A j \in Jobs : row[j] = NoRow => row'[j] = row[j] /\ (j \in raced' => j \in raced)
    BY <1>2 DEF Reconcilable
  <1>4. KnownOK'
    BY <1>1, <1>3 DEF FileInv, KnownOK, userVars
  <1>5. \A j \in Jobs : OverOrRaced(j) => OverOrRaced(j)'
    BY <1>1, <1>3 DEF OverOrRaced, userVars
  <1>6. OffOK'
    <2> SUFFICES ASSUME NEW j \in Jobs, WrittenOff(row'[j]) PROVE OverOrRaced(j)'
      BY DEF OffOK
    <2>1. CASE row'[j] = row[j]
      BY <1>5, <2>1 DEF FileInv, OffOK
    <2>2. CASE row'[j] # row[j]
      <3>1. Reconcilable(row[j]) /\ (status[j] # "lost" => j \in raced')
        BY <1>2, <2>2
      <3>2. j \notin published
        BY <1>0, <3>1 DEF Reconcilable, PastBoundary
      <3> QED BY <1>1, <3>1, <3>2 DEF OverOrRaced, userVars
    <2> QED BY <2>1, <2>2
  <1>7. TodoOK' /\ LiveOK' /\ KeptOK'
    <2>1. \A p \in Printers : todo[p] \subseteq Jobs
      BY DEF RecoveryInv, RecoveryTypeOK
    <2>2. TodoOK'
      BY <1>1, <1>5, <2>1 DEF FileInv, TodoOK, userVars
    <2>3. LiveOK'
      BY <1>1 DEF FileInv, LiveOK
    <2>4. KeptOK'
      BY <1>1, <1>3 DEF FileInv, KeptOK, Unshared, Needed, userVars, runVars
    <2> QED BY <2>2, <2>3, <2>4
  <1> QED BY <1>4, <1>6, <1>7 DEF FileInv

\* A sweep deletes nobody's file but that of a dispatch written off for good.
LEMMA SweepKeepsFiles ==
    ASSUME RecoveryInv, FileInv, NEW p \in Printers, SweepStep(p)
    PROVE  FileInv'
  <1>0. /\ TypeOK /\ IInv /\ sd \in [Printers -> [Files -> Jobs \cup {NoJob}]]
        /\ todo \in [Printers -> SUBSET Jobs] /\ orphans[p] \in SUBSET Jobs
        /\ PrinterOf \in [Jobs -> Printers] /\ FileOf \in [Jobs -> Files]
    BY ConstantsAssumption DEF RecoveryInv, RecoveryTypeOK, IInv, TypeOK
  <1>1. UNCHANGED <<jobs, status, idleCancels, stopWait, chain, pc, published, live, raced>>
    BY DEF SweepStep, SweepList, SweepDelete, SweepDrop, dispatcherVars, userVars, runVars, serverVars,
           printerVars, journalVars
  <1>2. \A j \in Jobs : row'[j] \in {row[j], NoRow}
    BY <1>0, RowsWithoutFacts
       DEF SweepStep, SweepList, SweepDelete, SweepDrop, dispatcherVars, journalVars
  <1>3. KnownOK' /\ OffOK' /\ LiveOK'
    <2>1. \A j \in Jobs : WrittenOff(row'[j]) => WrittenOff(row[j])
      BY <1>2 DEF WrittenOff
    <2> QED BY <1>1, <1>2, <2>1 DEF FileInv, KnownOK, OffOK, OverOrRaced, LiveOK
  <1>4. TodoOK'
    <2>1. \A q \in Printers : \A j \in todo'[q] :
            j \in todo[q] \/ (j \in Jobs /\ PrinterOf[j] = q /\ WrittenOff(row[j]))
      <3>1. CASE SweepList(p)
        <4>1. PICK found \in {{}, InterruptedAmong({j \in Jobs : PrinterOf[j] = p})} :
                todo' = [todo EXCEPT ![p] = found]
          BY <3>1 DEF SweepList
        <4> QED BY <1>0, <4>1 DEF InterruptedAmong, WrittenOff
      <3>2. CASE SweepDelete(p)
        BY <1>0, <3>2 DEF SweepDelete
      <3>3. CASE SweepDrop(p)
        BY <3>3 DEF SweepDrop
      <3> QED BY <3>1, <3>2, <3>3 DEF SweepStep
    <2>2. \A j \in Jobs : WrittenOff(row[j]) => status[j] # "none" /\ OverOrRaced(j)
      BY DEF FileInv, KnownOK, OffOK, WrittenOff
    <2> QED BY <1>0, <1>1, <2>1, <2>2 DEF FileInv, TodoOK, OverOrRaced
  <1>5. KeptOK'
    <2>1. CASE sd' = sd
      BY <1>1, <2>1 DEF FileInv, KeptOK, Unshared, Needed
    <2>2. CASE sd' # sd
      <3>1. PICK k \in todo[p] : sd' = Erased(p, FileOf[k])
        BY <2>2 DEF SweepStep, SweepList, SweepDelete, SweepDrop, dispatcherVars, printerVars
      <3>2. k \in Jobs /\ PrinterOf[k] = p /\ status[k] # "none" /\ OverOrRaced(k)
        BY <1>0, <3>1 DEF FileInv, TodoOK
      <3> SUFFICES ASSUME NEW i \in Jobs, i \notin raced, Unshared(i), Needed(i)
                   PROVE  sd'[PrinterOf[i]][FileOf[i]] = i
        BY <1>1 DEF KeptOK, Unshared, Needed
      <3>3. i # k
        <4>1. CASE live[PrinterOf[i]] = i
          BY <1>0, <3>2, <4>1, ConstantsAssumption DEF OverOrRaced, FileInv, LiveOK
        <4>2. CASE pc[i] \in {"marking", "reserving"}
          BY <1>0, <3>2, <4>2 DEF OverOrRaced, IInv, RunOK, Running
        <4> QED BY <4>1, <4>2 DEF Needed
      <3>4. PrinterOf[i] # p \/ FileOf[i] # FileOf[k]
        BY <3>2, <3>3 DEF Unshared
      <3>5. sd[PrinterOf[i]][FileOf[i]] = i
        BY DEF FileInv, KeptOK
      <3> QED BY <1>0, <3>1, <3>2, <3>4, <3>5 DEF Erased
    <2> QED BY <2>1, <2>2
  <1> QED BY <1>3, <1>4, <1>5 DEF FileInv

LEMMA FileStep == ASSUME RecoveryInv, FileInv, [Next]_vars PROVE FileInv'
  <1>1. CASE Serve
    BY <1>1, ServeKnown, ServeOff, ServeKept DEF FileInv
  <1>2. ASSUME Boot \/ UNCHANGED vars \/ \E p \in Printers : PrintEnds(p) \/ SweepStart(p)
        PROVE  FileInv'
    <2>1. /\ UNCHANGED <<jobs, status, idleCancels, stopWait, chain, row, pc, published, raced, sd, todo>>
      BY <1>2 DEF Boot, PrintEnds, SweepStart, vars, recoveryVars, sweepVars, dispatcherVars, userVars,
                  runVars, serverVars, printerVars, journalVars
    <2>2. \A p \in Printers : live'[p] \in {live[p], NoJob}
      BY <1>2 DEF Boot, PrintEnds, SweepStart, vars, recoveryVars, RecoveryInv, RecoveryTypeOK
    <2>3. \A j \in Jobs : Needed(j)' => Needed(j)
      BY <2>1, <2>2, ConstantsAssumption DEF Needed
    <2>4. KnownOK' /\ OffOK' /\ TodoOK'
      BY <2>1 DEF FileInv, KnownOK, OffOK, TodoOK, OverOrRaced
    <2>5. LiveOK'
      BY <2>1, <2>2 DEF FileInv, LiveOK
    <2>6. KeptOK'
      BY <2>1, <2>3 DEF FileInv, KeptOK, Unshared
    <2> QED BY <2>4, <2>5, <2>6 DEF FileInv
  <1> QED BY <1>1, <1>2, CrashKeepsFiles, ReconcileKeepsFiles, SweepKeepsFiles DEF Next

LEMMA RecoveryFiles == Spec => []FileInv
  <1>1. Init => FileInv
    <2> SUFFICES ASSUME Init PROVE FileInv
      OBVIOUS
    <2>1. KnownOK
      BY ConstantsAssumption DEF Init, DispatcherInit, JournalInit, KnownOK
    <2>2. OffOK /\ TodoOK /\ LiveOK
      BY DEF Init, DispatcherInit, JournalInit, OffOK, WrittenOff, TodoOK, LiveOK
    <2>3. KeptOK
      BY ConstantsAssumption DEF Init, DispatcherInit, KeptOK, Needed
    <2> QED BY <2>1, <2>2, <2>3 DEF FileInv
  <1> QED BY <1>1, FileStep, RecoveryInvariant, PTL DEF Spec

\* Nothing the dispatcher, its crashes or its sweeps do takes the file of a
\* running print away, unless the file's name was used by another dispatch or
\* the boot reconcile came so late that it wrote the dispatch itself off.
THEOREM RecoveryKeepsUnsharedFile == Spec => []UnsharedLiveFileKept
  <1>1. RecoveryInv /\ FileInv => UnsharedLiveFileKept
    <2> SUFFICES ASSUME RecoveryInv, FileInv, NEW p \in Printers, live[p] # NoJob, live[p] \notin raced,
                        \A k \in Jobs \ {live[p]} :
                          PrinterOf[k] = p /\ FileOf[k] = FileOf[live[p]] => status[k] = "none"
                 PROVE  sd[p][FileOf[live[p]]] = live[p]
      BY DEF UnsharedLiveFileKept
    <2>1. live[p] \in Jobs /\ PrinterOf[live[p]] = p
      BY DEF FileInv, LiveOK, RecoveryInv, RecoveryTypeOK
    <2> QED BY <2>1 DEF FileInv, KeptOK, Unshared, Needed
  <1> QED BY <1>1, RecoveryFiles, RecoveryInvariant, PTL

-----------------------------------------------------------------------------
(* What one life promises, across restarts *)

LifeInv == OneInv /\ FinalInv /\ StrandInv

\* A crash leaves nothing running and nobody waiting.
LEMMA CrashKeepsLife == ASSUME Crash PROVE LifeInv'
  <1>1. /\ jobs' = {} /\ stopWait' = NoJob /\ NoJob \notin Jobs
        /\ \A j \in Jobs : /\ pc'[j] = "idle" /\ idleCancels'[j] = 0 /\ ~cancelReq'[j]
                           /\ status'[j] \in {"none", "lost"}
    BY ConstantsAssumption DEF Crash
  <1>2. OneInv'
    BY <1>1 DEF OneInv, OneActiveUnlessRetried, ReservedOK
  <1>3. FinalInv'
    BY <1>1 DEF FinalInv, Running
  <1>4. StrandInv'
    BY <1>1 DEF StrandInv, HasRunOK, FlagOK, MarkPendingOK, Active
  <1> QED BY <1>2, <1>3, <1>4 DEF LifeInv

\* Reconcile and sweeps reach into rows and cards only.
LEMMA OutsideFrame ==
    ASSUME [Next]_vars, ~Serve, ~Crash
    PROVE  UNCHANGED <<userVars, runVars, managed, visited, stopWait, published, chain, lossy>>
  BY DEF Next, Boot, BootReconcile, PrintEnds, SweepStart, SweepStep, SweepList, SweepDelete, SweepDrop,
         vars, dispatcherVars, serverVars, printerVars, journalVars

LEMMA LifeStep == ASSUME RecoveryInv, LifeInv, [Next]_vars PROVE LifeInv'
  <1>1. CASE Serve
    BY <1>1, OneStep, FinalStep, StrandStep DEF Serve, RecoveryInv, LifeInv
  <1>2. CASE ~Serve /\ ~Crash
    <2>1. UNCHANGED <<jobs, status, cancelReq, idleCancels, retries, reserved, queue, pc, stopWait, chain>>
      BY <1>2, OutsideFrame DEF userVars, runVars
    <2>2. OneInv'
      BY <2>1 DEF LifeInv, OneInv, OneActiveUnlessRetried, ReservedOK
    <2>3. FinalInv'
      BY <2>1 DEF LifeInv, FinalInv, Running
    <2>4. StrandInv'
      BY <2>1 DEF LifeInv, StrandInv, HasRunOK, FlagOK, MarkPendingOK, Running, InQueue, Withdrawn
    <2> QED BY <2>2, <2>3, <2>4 DEF LifeInv
  <1> QED BY <1>1, <1>2, CrashKeepsLife

LEMMA RecoveryLife == Spec => []LifeInv
  <1>1. Init => LifeInv
    <2> SUFFICES ASSUME Init PROVE LifeInv
      OBVIOUS
    <2>1. OneInv
      BY DEF Init, DispatcherInit, OneInv, OneActiveUnlessRetried, ReservedOK
    <2>2. FinalInv
      BY ConstantsAssumption DEF Init, DispatcherInit, FinalInv, Running
    <2> QED BY <2>1, <2>2, StrandFacts DEF Init, LifeInv
  <1> QED BY <1>1, LifeStep, RecoveryInvariant, PTL DEF Spec

\* The runs of one printer never overlap, in any life of the server.
THEOREM RecoveryRunsSerialized == Spec => []RunsSerialized
  <1>1. RecoveryInv => RunsSerialized
    BY DEF RecoveryInv, IInv, RunOK, RunsSerialized, AtHead
  <1> QED BY <1>1, RecoveryInvariant, PTL

\* Two dispatches of a printer that were never retried are never active
\* together: reservations and active dispatches die with the server together.
THEOREM RecoveryOneActiveUnlessRetried == Spec => []OneActiveUnlessRetried
  <1>1. LifeInv => OneActiveUnlessRetried
    BY DEF LifeInv, OneInv
  <1> QED BY <1>1, RecoveryLife, PTL

\* No dispatch is left unfinished with nothing that would finish it; what a
\* crash interrupts is no longer reported as unfinished.
THEOREM RecoveryNothingStranded == Spec => []NothingStranded
  <1>1. LifeInv => NothingStranded
    BY StrandFacts DEF LifeInv
  <1> QED BY <1>1, RecoveryLife, PTL

\* A start command goes out at most once per dispatch in all lives of the
\* server together: none takes a dispatch of an earlier one up again.
THEOREM RecoveryStartedOnce == Spec => StartedOnce
  <1>1. ASSUME RecoveryInv, [Next]_vars, NEW j \in published, status'[j] = "sent"
        PROVE  status[j] = "sent"
    <2>1. j \in Jobs
      BY <1>1 DEF RecoveryInv, IInv, TypeOK
    <2>2. CASE Serve
      BY <1>1, <2>2, SentOnce DEF Serve, RecoveryInv
    <2>3. CASE ~Serve
      BY <1>1, <2>1, <2>3, OutsideFrame DEF Crash, userVars
    <2> QED BY <2>2, <2>3
  <1>2. RecoveryInv /\ [Next]_vars
          => [\A j \in published : status'[j] = "sent" => status[j] = "sent"]_dispatcherVars
    BY <1>1
  <1> QED BY <1>2, RecoveryInvariant, PTL DEF Spec, StartedOnce

\* An outcome reported to the user stands until the user retries, as long as
\* the server knows of the dispatch: no reconcile or sweep changes it.
THEOREM RecoveryOutcomeIsFinal == Spec => OutcomeIsFinal
  <1>1. ASSUME RecoveryInv, LifeInv, [Next]_vars, NEW j \in jobs PROVE Keeps(j)
    <2>1. CASE Serve
      BY <1>1, <2>1, FinalStep DEF Serve, RecoveryInv, LifeInv, KeepsAll
    <2>2. CASE ~Serve
      BY <1>1, <2>2, OutsideFrame DEF Crash, Keeps, userVars
    <2> QED BY <2>1, <2>2
  <1>2. RecoveryInv /\ LifeInv /\ [Next]_vars => [\A j \in jobs : Keeps(j)]_dispatcherVars
    BY <1>1
  <1>3. Spec => [][\A j \in jobs : Keeps(j)]_dispatcherVars
    BY <1>2, RecoveryInvariant, RecoveryLife, PTL DEF Spec
  <1> QED BY <1>3 DEF OutcomeIsFinal, Keeps

\* What a printer is told to print is on its card, uploaded by the dispatch
\* itself, whatever crashes cut and sweeps delete; the exceptions are those of
\* UnsharedLiveFileKept.
THEOREM RecoveryStartUsesOwnUpload ==
    Spec => [][\A j \in published' \ published :
                  j \notin raced /\ Unshared(j) => sd[PrinterOf[j]][FileOf[j]] = j]_vars
  <1>1. ASSUME RecoveryInv, FileInv, [Next]_vars,
               NEW j \in published' \ published, j \notin raced, Unshared(j)
        PROVE  sd[PrinterOf[j]][FileOf[j]] = j
    <2>1. Serve
      BY <1>1, OutsideFrame DEF Crash
    <2>2. j \in Jobs /\ pc[j] = "reserving"
      BY <1>1, <2>1, NewStart DEF Publish
    <2> QED BY <1>1, <2>2 DEF FileInv, KeptOK, Needed
  <1>2. RecoveryInv /\ FileInv /\ [Next]_vars
          => [\A j \in published' \ published :
                 j \notin raced /\ Unshared(j) => sd[PrinterOf[j]][FileOf[j]] = j]_vars
    BY <1>1
  <1> QED BY <1>2, RecoveryInvariant, RecoveryFiles, PTL DEF Spec

-----------------------------------------------------------------------------
(* The journal across restarts *)

\* The rows a sweep will delete are no business of the running life.
OrphansOK ==
    \A p \in Printers : \A j \in orphans[p] : j \in Jobs /\ status[j] # "none" /\ OverOrRaced(j)

RowsAgree == \A j \in Jobs \ (lossy \cup raced) : Agrees(j)

LEMMA OrphansStep == ASSUME RecoveryInv, FileInv, OrphansOK, [Next]_vars PROVE OrphansOK'
  <1>0. orphans \in [Printers -> SUBSET Jobs]
    BY DEF RecoveryInv, RecoveryTypeOK
  <1>1. CASE Serve
    BY <1>0, <1>1, ServeKnown, ServeKeepsOver DEF OrphansOK, Serve, sweepVars, FileInv
  <1>2. CASE Crash
    BY <1>2 DEF Crash, OrphansOK
  <1>3. CASE ~Serve /\ ~Crash
    <2>1. UNCHANGED <<status, published>> /\ raced \subseteq raced'
      BY <1>3, OutsideFrame DEF userVars, Next, Boot, BootReconcile, PrintEnds, SweepStart, SweepStep,
                                SweepList, SweepDelete, SweepDrop, vars, recoveryVars
    <2>2. \A p \in Printers : \A j \in orphans'[p] : j \in orphans[p] \/ (j \in Jobs /\ WrittenOff(row[j]))
      <3>1. ASSUME NEW q \in Printers, SweepList(q)
            PROVE  \A p \in Printers : \A j \in orphans'[p] :
                     j \in orphans[p] \/ (j \in Jobs /\ WrittenOff(row[j]))
        <4>1. PICK found \in {{}, InterruptedAmong({j \in Jobs : PrinterOf[j] = q})} :
                orphans' = [orphans EXCEPT ![q] = found]
          BY <3>1 DEF SweepList
        <4> QED BY <1>0, <4>1 DEF InterruptedAmong, WrittenOff
      <3>2. ASSUME NEW q \in Printers, SweepDrop(q)
            PROVE  \A p \in Printers : orphans'[p] \subseteq orphans[p]
        BY <1>0, <3>2 DEF SweepDrop
      <3>3. CASE ~\E q \in Printers : SweepList(q) \/ SweepDrop(q)
        BY <1>3, <3>3 DEF Next, Boot, BootReconcile, PrintEnds, SweepStart, SweepStep, SweepDelete,
                          vars, recoveryVars, sweepVars
      <3> QED BY <3>1, <3>2, <3>3
    <2>3. \A j \in Jobs : WrittenOff(row[j]) => status[j] # "none" /\ OverOrRaced(j)
      BY DEF FileInv, KnownOK, OffOK, WrittenOff
    <2> QED BY <2>1, <2>2, <2>3 DEF OrphansOK, OverOrRaced
  <1> QED BY <1>1, <1>2, <1>3

LEMMA RowsAgreeStep ==
    ASSUME RecoveryInv, FileInv, OrphansOK, RowsAgree, [Next]_vars
    PROVE  RowsAgree'
  <1>0. /\ TypeOK /\ orphans \in [Printers -> SUBSET Jobs]
    BY DEF RecoveryInv, RecoveryTypeOK
  <1>1. CASE Serve
    BY <1>1, LossyStays, AgreesStep DEF Serve, RecoveryInv, RowsAgree
  <1>2. CASE Crash
    BY <1>2 DEF Crash, RowsAgree, Agrees
  <1>3. CASE ~Serve /\ ~Crash
    <2>1. UNCHANGED <<jobs, status, chain, lossy>>
      BY <1>3, OutsideFrame DEF userVars
    <2>2. raced \subseteq raced'
      BY <1>3 DEF Next, Boot, BootReconcile, PrintEnds, SweepStart, SweepStep,
                  SweepList, SweepDelete, SweepDrop, vars, recoveryVars
    <2>3. ASSUME NEW j \in Jobs, j \notin raced', row'[j] # row[j] PROVE status[j] = "lost"
      <3>1. CASE BootReconcile
        BY <1>0, <2>3, <3>1, ReconciledFacts DEF BootReconcile
      <3>2. ASSUME NEW p \in Printers, SweepDrop(p) PROVE status[j] = "lost"
        <4>1. j \in orphans[p]
          BY <1>0, <2>3, <3>2, RowsWithoutFacts DEF SweepDrop
        <4> QED BY <2>2, <2>3, <4>1 DEF OrphansOK, OverOrRaced
      <3> QED BY <1>3, <2>3, <3>1, <3>2 DEF Next, Boot, PrintEnds, SweepStart, SweepStep, SweepList,
                  SweepDelete, vars, dispatcherVars, journalVars
    <2>4. \A j \in Jobs : status[j] = "lost" => j \notin jobs
      BY DEF FileInv, KnownOK
    <2>5. ASSUME NEW j \in Jobs \ (lossy' \cup raced') PROVE Agrees(j)'
      <3>1. Agrees(j)
        BY <2>1, <2>2, <2>5 DEF RowsAgree
      <3> QED BY <2>1, <2>3, <2>4, <2>5, <3>1 DEF Agrees
    <2> QED BY <2>5 DEF RowsAgree
  <1> QED BY <1>1, <1>2, <1>3

\* The rows of the running life follow what its dispatcher reports, although
\* a reconcile and sweeps for earlier lives work on the same table; only a
\* dispatch the boot reconcile raced with can be contradicted.
THEOREM RecoveryJournalAgrees ==
    Spec => [](\A j \in jobs \ (lossy \cup raced) :
                  chain[j] = <<>> => row[j] # NoRow /\ row[j].status = status[j])
  <1> DEFINE Agreed == \A j \in jobs \ (lossy \cup raced) :
                          chain[j] = <<>> => row[j] # NoRow /\ row[j].status = status[j]
  <1>1. Init => OrphansOK /\ RowsAgree
    BY DEF Init, DispatcherInit, JournalInit, OrphansOK, RowsAgree, Agrees
  <1>2. RecoveryInv /\ RowsAgree => Agreed
    BY AgreedRow DEF RowsAgree, RecoveryInv, IInv, TypeOK
  <1>3. RecoveryInv /\ FileInv /\ OrphansOK /\ RowsAgree /\ [Next]_vars => OrphansOK' /\ RowsAgree'
    BY OrphansStep, RowsAgreeStep
  <1> HIDE DEF Agreed
  <1>4. Spec => []Agreed
    BY <1>1, <1>2, <1>3, RecoveryInvariant, RecoveryFiles, PTL DEF Spec
  <1> QED BY <1>4 DEF Agreed

-----------------------------------------------------------------------------
(* The refinement of StartBoundary *)

Stage == [j \in Jobs |-> StageOf(row[j])]

LEMMA ARowIsNotNoRow ==
    ASSUME NEW s \in JournalStatus, NEW b \in BOOLEAN
    PROVE  [status |-> s, attempted |-> b] # NoRow
  <1>1. [status |-> s, attempted |-> b] \in Row
    BY DEF Row
  <1> QED BY <1>1, NoRowAssumption

\* What one write makes of the stage of a row.
LEMMA StageOfApplied ==
    ASSUME NEW r \in Row \cup {NoRow}, NEW w \in Write
    PROVE  /\ w.op = "mark" => StageOf(Applied(r, w)) = IF r = NoRow THEN "none" ELSE "crossed"
           /\ w.op # "mark" => StageOf(Applied(r, w)) \in {StageOf(r), "open"}
           /\ w.op = "status" /\ ~w.clear /\ (r = NoRow \/ r.attempted)
                => StageOf(Applied(r, w)) = StageOf(r)
  <1>1. /\ w.op \in {"insert", "status", "mark"} /\ w.clear \in BOOLEAN
        /\ w.status \in JournalStatus /\ w.status # "interrupted"
    BY DEF Write
  <1>2. CASE w.op = "mark"
    BY <1>2, NoRowAssumption DEF Applied, StageOf, Row
  <1>3. CASE w.op = "insert"
    BY <1>3, NoRowAssumption DEF Applied, StageOf, Row, JournalStatus
  <1>4. CASE w.op = "status" /\ r = NoRow
    BY <1>4 DEF Applied
  <1>5. CASE w.op = "status" /\ r # NoRow
    <2>1. Applied(r, w) = [status |-> w.status, attempted |-> r.attempted /\ ~w.clear]
      BY <1>5 DEF Applied
    <2>2. [status |-> w.status, attempted |-> TRUE] # NoRow
      BY <1>1, ARowIsNotNoRow
    <2>3. [status |-> w.status, attempted |-> FALSE] # NoRow
      BY <1>1, ARowIsNotNoRow
    <2>4. CASE r.attempted /\ ~w.clear
      <3>1. Applied(r, w) = [status |-> w.status, attempted |-> TRUE]
        BY <2>1, <2>4
      <3>2. Applied(r, w) # NoRow /\ Applied(r, w).attempted
        BY <2>2, <3>1
      <3>3. StageOf(Applied(r, w)) = "crossed" /\ StageOf(r) = "crossed"
        BY <1>5, <2>4, <3>2 DEF StageOf
      <3> QED BY <1>5, <3>3
    <2>5. CASE ~(r.attempted /\ ~w.clear)
      <3>1. Applied(r, w) = [status |-> w.status, attempted |-> FALSE]
        BY <2>1, <2>5
      <3>2. Applied(r, w) # NoRow /\ ~Applied(r, w).attempted /\ Applied(r, w).status # "interrupted"
        BY <1>1, <2>3, <3>1
      <3>3. StageOf(Applied(r, w)) = "open"
        BY <3>2 DEF StageOf
      <3> QED BY <1>5, <2>5, <3>3
    <2> QED BY <2>4, <2>5
  <1> QED BY <1>1, <1>2, <1>3, <1>4, <1>5

\* One write reaches the row of one dispatch.
LEMMA RowStep ==
    ASSUME IInv, NEW j \in Jobs, NEW w \in Write, published' = published,
           row' = [row EXCEPT ![j] = Applied(@, w)],
           j \in published => w.op = "mark" \/ (w.op = "status" /\ ~w.clear)
    PROVE  [Boundary!BoundaryNext]_(Boundary!boundaryVars)
  <1> DEFINE r == row[j]
             t == Applied(row[j], w)
  <1>1. /\ r \in Row \cup {NoRow} /\ t \in Row \cup {NoRow} /\ row'[j] = t
        /\ \A k \in Jobs \ {j} : row'[k] = row[k]
    BY AppliedType DEF IInv, TypeOK, JournalTypeOK
  <1>2. Stage' = [Stage EXCEPT ![j] = StageOf(t)] /\ Stage[j] = StageOf(r)
    <2>1. \A k \in Jobs : Stage'[k] = IF k = j THEN StageOf(t) ELSE Stage[k]
      BY <1>1 DEF Stage, StageOf
    <2> QED BY <2>1 DEF Stage
  <1>3. CASE StageOf(t) = StageOf(r)
    <2>1. Stage' = Stage
      BY <1>2, <1>3 DEF Stage
    <2> QED BY <2>1 DEF Stage, Boundary!boundaryVars
  <1>4. CASE w.op = "mark" /\ r # NoRow
    <2>1. StageOf(t) = "crossed" /\ StageOf(r) # "none"
      BY <1>1, <1>4, StageOfApplied DEF StageOf
    <2> QED BY <1>2, <2>1 DEF Stage, Boundary!BoundaryNext, Boundary!Cross
  <1>5. CASE w.op = "mark" /\ r = NoRow
    BY <1>3, <1>5 DEF Applied
  <1>6. CASE w.op # "mark" /\ j \in published
    BY <1>1, <1>3, <1>6, StageOfApplied DEF IInv, BoundaryOK, PastBoundary
  <1>7. CASE w.op # "mark" /\ j \notin published
    <2>1. StageOf(t) \in {StageOf(r), "open"}
      BY <1>1, <1>7, StageOfApplied
    <2> QED BY <1>2, <1>3, <1>7, <2>1 DEF Stage, Boundary!BoundaryNext, Boundary!Reopen
  <1> QED BY <1>4, <1>5, <1>6, <1>7

LEMMA ServeRefines ==
    ASSUME RecoveryInv, Serve
    PROVE  [Boundary!BoundaryNext]_(Boundary!boundaryVars)
  <1>0. IInv /\ TypeOK /\ JournalTypeOK
    BY DEF RecoveryInv, IInv, TypeOK
  <1>1. CASE UNCHANGED <<row, published>>
    BY <1>1 DEF Boundary!boundaryVars
  <1>2. ASSUME NEW j \in Jobs, JournalSettles(j) PROVE [Boundary!BoundaryNext]_(Boundary!boundaryVars)
    <2>1. /\ chain[j] # <<>> /\ chain[j] \in Seq(Write) /\ Head(chain[j]) \in Write
          /\ Harmless(chain[j]) => Head(chain[j]).op = "status" /\ ~Head(chain[j]).clear
      BY <1>0, <1>2, TailOfChain DEF JournalSettles, JournalTypeOK
    <2>2. CASE row' = [row EXCEPT ![j] = Applied(@, Head(chain[j]))]
      BY <1>0, <1>2, <2>1, <2>2, RowStep DEF JournalSettles, printerVars, IInv, BoundaryOK, PastBoundary
    <2>3. CASE row' = row
      BY <1>1, <1>2, <2>3 DEF JournalSettles, printerVars
    <2> QED BY <1>2, <2>2, <2>3 DEF JournalSettles, CommitHead, DropHead
  <1>3. ASSUME NEW j \in Jobs, MarkCommits(j) PROVE [Boundary!BoundaryNext]_(Boundary!boundaryVars)
    <2>1. Head(chain[j]) \in Write
      BY <1>0, <1>3, TailOfChain DEF MarkCommits, JournalTypeOK
    <2> QED BY <1>0, <1>3, <2>1, RowStep DEF MarkCommits, CommitHead, printerVars
  <1>4. ASSUME NEW j \in Jobs, MarkRejects(j) PROVE [Boundary!BoundaryNext]_(Boundary!boundaryVars)
    BY <1>0, <1>1, <1>4, WriteTypes, RowStep DEF MarkRejects, MarkWrite, printerVars
  <1>5. ASSUME NEW j \in Jobs, Publish(j) PROVE [Boundary!BoundaryNext]_(Boundary!boundaryVars)
    <2>1. j \notin published
      BY <1>0, <1>5, RunningAtHead, HeadInQueue DEF Publish, Running, IInv, BoundaryOK
    <2>2. StageOf(row[j]) \in {"none", "crossed"}
      BY <1>0, <1>5 DEF Publish, IInv, BoundaryOK, PastBoundary, StageOf
    <2>3. Boundary!Start(j)
      BY <1>5, <2>1, <2>2 DEF Publish, Boundary!Start
    <2> QED BY <2>3 DEF Boundary!BoundaryNext
  <1>6. CASE ~(\E j \in Jobs : JournalSettles(j) \/ MarkCommits(j) \/ MarkRejects(j) \/ Publish(j))
    <2>1. UNCHANGED <<row, published>>
      BY <1>6
         DEF Serve, DispatcherNext, RunStep, Submit, PrepareFails, PrepareDone, StartRun, ArtifactReady,
             ArtifactFails, UploadDone, UploadFails, BackoffEnds, CleanUp, RecordCancelled,
             RecordFails, ReserveFails, PublishRefused, StartFailed,
             Cancel, IdleCancelDone, Retry, StopVisit, StopCancelDone, Register,
             Shutdown, printerVars, journalVars
    <2> QED BY <1>1, <2>1
  <1> QED BY <1>2, <1>3, <1>4, <1>5, <1>6

LEMMA StepRefines ==
    ASSUME RecoveryInv, [Next]_vars
    PROVE  [Boundary!BoundaryNext]_(Boundary!boundaryVars)
  <1>0. TypeOK
    BY DEF RecoveryInv, IInv
  <1>1. CASE UNCHANGED <<row, published>>
    BY <1>1 DEF Boundary!boundaryVars
  <1>2. CASE BootReconcile
    <2>1. CASE row' = ReconciledRows
      <3> DEFINE ids == {j \in Jobs : Reconcilable(row[j])}
      <3>1. \A j \in Jobs : StageOf(ReconciledRows[j]) = IF j \in ids THEN "off" ELSE StageOf(row[j])
        <4> SUFFICES ASSUME NEW j \in Jobs
                     PROVE  StageOf(ReconciledRows[j]) = IF j \in ids THEN "off" ELSE StageOf(row[j])
          OBVIOUS
        <4>1. CASE Reconcilable(row[j])
          <5>1. ReconciledRows[j] = [status |-> "interrupted", attempted |-> FALSE]
            BY <1>0, <4>1, ReconciledFacts
          <5>2. [status |-> "interrupted", attempted |-> FALSE] # NoRow
            BY ARowIsNotNoRow DEF JournalStatus
          <5> QED BY <4>1, <5>1, <5>2 DEF StageOf
        <4>2. CASE ~Reconcilable(row[j])
          BY <1>0, <4>2, ReconciledFacts
        <4> QED BY <4>1, <4>2
      <3>2. \A j \in ids : StageOf(row[j]) = "open"
        BY DEF Reconcilable, StageOf
      <3>3. Boundary!WriteOff(ids)
        BY <1>2, <2>1, <3>1, <3>2 DEF BootReconcile, printerVars, Boundary!WriteOff, StageOf
      <3> QED BY <3>3 DEF Boundary!BoundaryNext
    <2> QED BY <1>1, <1>2, <2>1 DEF BootReconcile, printerVars
  <1>3. ASSUME NEW p \in Printers, SweepDrop(p) PROVE [Boundary!BoundaryNext]_(Boundary!boundaryVars)
    <2>1. CASE row' = RowsWithout(orphans[p])
      <3>1. orphans[p] \in SUBSET Jobs
        BY DEF RecoveryInv, RecoveryTypeOK
      <3>2. \A j \in Jobs : StageOf(RowsWithout(orphans[p])[j]) =
                              IF j \in orphans[p] THEN "none" ELSE StageOf(row[j])
        BY <1>0, <3>1, RowsWithoutFacts DEF StageOf
      <3>3. Boundary!Forget(orphans[p])
        BY <1>3, <2>1, <3>2 DEF SweepDrop, printerVars, Boundary!Forget, StageOf
      <3> QED BY <3>1, <3>3 DEF Boundary!BoundaryNext
    <2> QED BY <1>1, <1>3, <2>1 DEF SweepDrop, printerVars
  <1>4. CASE Crash \/ Boot \/ UNCHANGED vars
    BY <1>1, <1>4 DEF Crash, Boot, vars, dispatcherVars, printerVars, journalVars
  <1>5. ASSUME NEW p \in Printers, PrintEnds(p) \/ SweepStart(p) \/ SweepList(p) \/ SweepDelete(p)
        PROVE  [Boundary!BoundaryNext]_(Boundary!boundaryVars)
    BY <1>1, <1>5 DEF PrintEnds, SweepStart, SweepList, SweepDelete, dispatcherVars, printerVars, journalVars
  <1> QED BY <1>2, <1>3, <1>4, <1>5, ServeRefines DEF Next, SweepStep

\* Whatever crashes, the dispatcher with its journal, boot reconcile and
\* sweeps implements the start-boundary contract.
THEOREM RecoveryImplementsBoundary == Spec => ImplementsBoundary
  <1>1. Init => Boundary!BoundaryInit
    BY DEF Init, DispatcherInit, JournalInit, Boundary!BoundaryInit, StageOf
  <1>2. RecoveryInv /\ [Next]_vars => [Boundary!BoundaryNext]_(Boundary!boundaryVars)
    BY StepRefines
  <1> QED BY <1>1, <1>2, RecoveryInvariant, PTL DEF Spec, ImplementsBoundary, Boundary!BoundarySpec
=============================================================================
