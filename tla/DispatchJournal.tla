--------------------------- MODULE DispatchJournal ---------------------------
(***************************************************************************)
(* The durable journal of print dispatches: the DispatchJob table and the  *)
(* per-dispatch chain of writes in front of it.                            *)
(*                                                                         *)
(* A write is appended to its dispatch's chain when the dispatcher calls   *)
(* the journal and reaches the table later, in chain order, or is lost.    *)
(* The table survives a crash of the server; the chains do not.            *)
(***************************************************************************)
EXTENDS Naturals, Sequences

CONSTANTS Jobs,   \* dispatch ids; each is used by at most one dispatch
          NoRow   \* stands for a dispatch without a DispatchJob row

VARIABLES row,    \* row[j]: the committed DispatchJob row of j, or NoRow
          chain   \* chain[j]: the writes of j that have not settled, in call order

journalVars == <<row, chain>>

-----------------------------------------------------------------------------

JournalStatus == {"queued", "uploading", "sent", "failed", "cancelled", "interrupted"}

\* `attempted' stands for startCommandAttemptedAt # null.
Row == [status : JournalStatus, attempted : BOOLEAN]

Write == [op : {"insert", "status", "mark"}, status : JournalStatus \ {"interrupted"}, clear : BOOLEAN]

ASSUME NoRowAssumption == NoRow \notin Row

\* The INSERT of recordDispatchEnqueued.
InsertWrite == [op |-> "insert", status |-> "queued", clear |-> FALSE]

\* The UPDATE of recordDispatchStatus.
StatusWrite(s) == [op |-> "status", status |-> s, clear |-> FALSE]

\* The UPDATE of recordDispatchStatus with clearStartAttempt, issued by retry.
RearmWrite == [op |-> "status", status |-> "queued", clear |-> TRUE]

\* The UPDATE of markDispatchStartAttempted; it leaves the status column alone.
MarkWrite == [op |-> "mark", status |-> "uploading", clear |-> FALSE]

-----------------------------------------------------------------------------

\* The chain with w at its end (enqueueJournalWrite).
Chained(j, w) == [chain EXCEPT ![j] = Append(@, w)]

\* The row after w commits. An UPDATE of a missing row and an INSERT of an
\* existing one fail and leave the table as it was.
Applied(r, w) ==
    IF w.op = "insert"
    THEN IF r = NoRow THEN [status |-> "queued", attempted |-> FALSE] ELSE r
    ELSE IF r = NoRow THEN NoRow
         ELSE IF w.op = "mark" THEN [r EXCEPT !.attempted = TRUE]
         ELSE [status |-> w.status, attempted |-> r.attempted /\ ~w.clear]

\* Mutant of CommitHead: writes commit in any order, as without a chain.
CommitLast(j) ==
    /\ row' = [row EXCEPT ![j] = Applied(@, chain[j][Len(chain[j])])]
    /\ chain' = [chain EXCEPT ![j] = SubSeq(@, 1, Len(@) - 1)]

\* The chain's next write reaches the table.
CommitHead(j) ==
    /\ row' = [row EXCEPT ![j] = Applied(@, Head(chain[j]))]
    /\ chain' = [chain EXCEPT ![j] = Tail(@)]

\* The chain's next write is lost; the following ones are not held up.
DropHead(j) ==
    /\ chain' = [chain EXCEPT ![j] = Tail(@)]
    /\ UNCHANGED row

\* Mutant of Reconcilable: the start boundary is not looked at.
ReconcilableByStatus(r) == r # NoRow /\ r.status \in {"queued", "uploading"}

\* isReconcilableDispatch: not finished, and no start command was attempted.
Reconcilable(r) ==
    /\ r # NoRow
    /\ r.status \in {"queued", "uploading"}
    /\ ~r.attempted

\* reconcileInterruptedDispatches: one UPDATE over the whole table.
ReconciledRows ==
    [j \in Jobs |-> IF Reconcilable(row[j])
                    THEN [row[j] EXCEPT !.status = "interrupted"]
                    ELSE row[j]]

\* Mutant of InterruptedAmong: every unfinished row counts as interrupted.
UnfinishedAmong(ids) ==
    {j \in ids : row[j] # NoRow /\ row[j].status \in {"queued", "uploading", "interrupted"}}

\* listInterruptedDispatchUploads, over the dispatches of one printer.
InterruptedAmong(ids) == {j \in ids : row[j] # NoRow /\ row[j].status = "interrupted"}

\* deleteDispatchJournalRows: by id, whatever the row says by now.
RowsWithout(ids) == [j \in Jobs |-> IF j \in ids THEN NoRow ELSE row[j]]

JournalInit ==
    /\ row = [j \in Jobs |-> NoRow]
    /\ chain = [j \in Jobs |-> <<>>]

JournalTypeOK ==
    /\ row \in [Jobs -> Row \cup {NoRow}]
    /\ chain \in [Jobs -> Seq(Write)]
=============================================================================
