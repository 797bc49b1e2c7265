-------------------------- MODULE DispatchRecovery --------------------------
(***************************************************************************)
(* Print dispatch across crashes and restarts of the server.               *)
(*                                                                         *)
(* PrintDispatcher runs while the server is up.  A crash loses all of its  *)
(* memory and the journal writes in flight.  The next life writes off, in  *)
(* the journal, what it finds unfinished and not past the start boundary,  *)
(* and later sweeps the bytes of those dispatches from each printer's SD   *)
(* card, concurrently with the new dispatches.                             *)
(***************************************************************************)
EXTENDS PrintDispatcher

CONSTANT MaxCrashes     \* bound on the ends of a server life

ASSUME MaxCrashesAssumption == MaxCrashes \in Nat

VARIABLES
    crashes,     \* how many server lives have ended
    reconciled,  \* this life's boot reconcile is over and the sweeps are armed
    swept,       \* sweptPrinters
    sweepAt,     \* sweepAt[p]: where the sweep of p awaits
    orphans,     \* orphans[p]: the interrupted dispatches the sweep listed
    todo,        \* todo[p]: those whose bytes it has yet to delete
    live,        \* live[p]: the dispatch whose file printer p is printing
    raced        \* dispatches of the running life that its own boot reconcile wrote off

sweepVars == <<reconciled, swept, sweepAt, orphans, todo>>
recoveryVars == <<crashes, sweepVars, live, raced>>
vars == <<dispatcherVars, recoveryVars>>

RecoveryTypeOK ==
    /\ TypeOK
    /\ crashes \in Nat
    /\ reconciled \in BOOLEAN
    /\ swept \subseteq Printers
    /\ sweepAt \in [Printers -> {"idle", "list", "delete", "drop"}]
    /\ orphans \in [Printers -> SUBSET Jobs]
    /\ todo \in [Printers -> SUBSET Jobs]
    /\ live \in [Printers -> Jobs \cup {NoJob}]
    /\ raced \subseteq Jobs

Init ==
    /\ DispatcherInit
    /\ crashes = 0
    /\ reconciled = FALSE
    /\ swept = {}
    /\ sweepAt = [p \in Printers |-> "idle"]
    /\ orphans = [p \in Printers |-> {}]
    /\ todo = [p \in Printers |-> {}]
    /\ live = [p \in Printers |-> NoJob]
    /\ raced = {}

-----------------------------------------------------------------------------

\* A step of the running server. A start command it publishes makes an idle
\* printer print, unless the command is lost on the way.
Serve ==
    /\ DispatcherNext
    /\ live' = live \/ \E j \in published' \ published :
                          /\ live[PrinterOf[j]] = NoJob
                          /\ live' = [live EXCEPT ![PrinterOf[j]] = j]
    /\ UNCHANGED <<crashes, sweepVars, raced>>

PrintEnds(p) ==
    /\ live[p] # NoJob
    /\ live' = [live EXCEPT ![p] = NoJob]
    /\ UNCHANGED <<dispatcherVars, crashes, sweepVars, raced>>

\* The process dies, killed or at the end of a shutdown. Transfers are cut;
\* any of them may have left bytes.
Crash ==
    /\ phase \in {"up", "draining"}
    /\ crashes < MaxCrashes
    /\ crashes' = crashes + 1
    /\ \E landed \in SUBSET {j \in Jobs : pc[j] = "transfer"} :
        sd' = [p \in Printers |-> [f \in Files |->
                 IF \E j \in landed : PrinterOf[j] = p /\ FileOf[j] = f
                 THEN CHOOSE j \in landed : PrinterOf[j] = p /\ FileOf[j] = f
                 ELSE sd[p][f]]]
    /\ phase' = "down"
    /\ managed' = {}
    /\ jobs' = {}
    /\ status' = [j \in Jobs |-> IF status[j] = "none" THEN "none" ELSE "lost"]
    /\ cancelReq' = [j \in Jobs |-> FALSE]
    /\ idleCancels' = [j \in Jobs |-> 0]
    /\ reserved' = {}
    /\ queue' = [p \in Printers |-> <<>>]
    /\ pc' = [j \in Jobs |-> "idle"]
    /\ attempt' = [j \in Jobs |-> 0]
    /\ visited' = {}
    /\ stopWait' = NoJob
    /\ chain' = [j \in Jobs |-> <<>>]
    /\ reconciled' = FALSE
    /\ swept' = {}
    /\ sweepAt' = [p \in Printers |-> "idle"]
    /\ orphans' = [p \in Printers |-> {}]
    /\ todo' = [p \in Printers |-> {}]
    /\ UNCHANGED <<retries, published, row, lossy, live, raced>>

Boot ==
    /\ phase = "down"
    /\ phase' = "up"
    /\ UNCHANGED <<userVars, runVars, managed, visited, stopWait, printerVars, journalVars,
                   lossy, recoveryVars>>

\* startDispatchReconcile, which the boot does not wait for: the UPDATE
\* commits (or fails), then the sweeps are armed.
BootReconcile ==
    /\ phase # "down" /\ ~reconciled
    /\ reconciled' = TRUE
    /\ \/ /\ row' = ReconciledRows
          /\ raced' = raced \cup {j \in Jobs : Reconcilable(row[j]) /\ status[j] # "lost"}
       \/ UNCHANGED <<row, raced>>
    /\ UNCHANGED <<userVars, runVars, serverVars, printerVars, chain, lossy, crashes,
                   swept, sweepAt, orphans, todo, live>>

\* A status report of an online printer that was not swept yet.
SweepStart(p) ==
    /\ reconciled
    /\ getPrinter(p) /\ p \notin swept
    /\ ~hasActiveDispatchForPrinter(p)
    /\ swept' = swept \cup {p}
    /\ sweepAt' = [sweepAt EXCEPT ![p] = "list"]
    /\ UNCHANGED <<dispatcherVars, crashes, reconciled, orphans, todo, live, raced>>

\* The query for interrupted rows answers, or fails and counts as empty.
SweepList(p) ==
    /\ sweepAt[p] = "list"
    /\ \E found \in {{}, InterruptedAmong({j \in Jobs : PrinterOf[j] = p})} :
        /\ orphans' = [orphans EXCEPT ![p] = found]
        /\ todo' = [todo EXCEPT ![p] = found]
        /\ sweepAt' = [sweepAt EXCEPT ![p] = IF found = {} THEN "idle" ELSE "delete"]
    /\ UNCHANGED <<dispatcherVars, crashes, reconciled, swept, live, raced>>

\* The next orphan's file is deleted, or could not be.
SweepDelete(p) ==
    /\ sweepAt[p] = "delete"
    /\ \E j \in todo[p] :
        /\ sd' \in {sd, Erased(p, FileOf[j])}
        /\ todo' = [todo EXCEPT ![p] = @ \ {j}]
        /\ sweepAt' = [sweepAt EXCEPT ![p] = IF todo[p] = {j} THEN "drop" ELSE "delete"]
    /\ UNCHANGED <<userVars, runVars, serverVars, published, journalVars, lossy, crashes,
                   reconciled, swept, orphans, live, raced>>

\* The handled rows are deleted, or could not be.
SweepDrop(p) ==
    /\ sweepAt[p] = "drop"
    /\ row' \in {row, RowsWithout(orphans[p])}
    /\ orphans' = [orphans EXCEPT ![p] = {}]
    /\ sweepAt' = [sweepAt EXCEPT ![p] = "idle"]
    /\ UNCHANGED <<userVars, runVars, serverVars, printerVars, chain, lossy, crashes,
                   reconciled, swept, todo, live, raced>>

SweepStep(p) == SweepList(p) \/ SweepDelete(p) \/ SweepDrop(p)

Next ==
    \/ Serve
    \/ Crash
    \/ Boot
    \/ BootReconcile
    \/ \E p \in Printers : PrintEnds(p) \/ SweepStart(p) \/ SweepStep(p)

Spec == Init /\ [][Next]_vars

-----------------------------------------------------------------------------
(* Properties *)

\* The boot reconcile never writes off a dispatch whose start command was
\* published, in whatever state a crash left its journal row.
ReconcileSparesStarted ==
    [][\A j \in published :
        row'[j] # NoRow /\ row'[j].status = "interrupted"
            => row[j] # NoRow /\ row[j].status = "interrupted"]_vars

\* What the rows amount to for the start boundary.
StageOf(r) ==
    IF r = NoRow THEN "none"
    ELSE IF r.attempted THEN "crossed"
    ELSE IF r.status = "interrupted" THEN "off" ELSE "open"

Boundary == INSTANCE StartBoundary
                WITH stage <- [j \in Jobs |-> StageOf(row[j])], started <- published

\* Through crashes, lost journal writes, retries and sweeps, the dispatcher
\* and its journal keep the rob-1 contract of dispatch-journal.ts: a start is
\* published only past the durable boundary and, from then on, no restart can
\* take the dispatch for one that never started.
ImplementsBoundary == Boundary!BoundarySpec

\* As long as no other dispatch ever used its remote name, the file a printer
\* prints stays as its dispatch uploaded it: no late cancellation, crash or
\* sweep takes it away. The exception is a dispatch of the running life that
\* this life's own boot reconcile, which nothing waits for, wrote off.
UnsharedLiveFileKept ==
    \A p \in Printers :
        LET j == live[p] IN
        j # NoJob /\ j \notin raced
        /\ (\A k \in Jobs \ {j} : PrinterOf[k] = p /\ FileOf[k] = FileOf[j] => status[k] = "none")
        => sd[p][FileOf[j]] = j

\* What the header of dispatch-reconcile.ts says of the sweep: deleting the
\* file of an interrupted dispatch "can never remove a file a real print is
\* using". Dispatches the running life wrote off itself are left out.
SweepSparesLivePrint ==
    [][\A p \in Printers :
        raced = {} /\ live[p] # NoJob /\ sweepAt[p] = "delete" /\ todo'[p] # todo[p] /\ phase' = phase
            => sd'[p][FileOf[live[p]]] = sd[p][FileOf[live[p]]]]_vars
=============================================================================
