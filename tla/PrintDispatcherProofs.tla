------------------------ MODULE PrintDispatcherProofs ------------------------
(***************************************************************************)
(* Proofs about one life of the server (PrintDispatcher), for any number   *)
(* of dispatches, printers and remote names and any values of the bounds.  *)
(***************************************************************************)
EXTENDS PrintDispatcher, TLAPS

-----------------------------------------------------------------------------
(* The inductive invariant *)

\* A queue holds runs of its own printer, each dispatch at most once.
QueueOK ==
    \A p \in Printers : \A i, k \in 1..Len(queue[p]) :
        /\ PrinterOf[queue[p][i]] = p
        /\ queue[p][i] = queue[p][k] => i = k

\* A dispatch runs only at the head of its queue, and what a late
\* cancellation may have made of its status meanwhile is "cancelled". One
\* with an outcome it can leave has no run ahead of it.
RunOK ==
    \A j \in Jobs :
        /\ Running(j) => AtHead(j) /\ status[j] \in {"uploading", "cancelled"}
        /\ status[j] \in {"none", "lost", "sent", "failed"} => ~InQueue(j)

\* Before its request is prepared a dispatch is known to nobody.
UnknownOK ==
    \A j \in Jobs :
        /\ pc[j] = "preparing" => status[j] = "none"
        /\ status[j] = "none" =>
             j \notin jobs /\ idleCancels[j] = 0 /\ stopWait # j /\ retries[j] = 0 /\ ~cancelReq[j]

\* Writes that leave the start boundary of a row as it is.
Harmless(c) == \A i \in 1..Len(c) : c[i].op = "status" /\ ~c[i].clear

NoMark(c) == \A i \in 1..Len(c) : c[i].op # "mark"

HarmlessAfterMark(c) ==
    \A i, k \in 1..Len(c) : c[i].op = "mark" /\ i < k => c[k].op = "status" /\ ~c[k].clear

\* The write of the start boundary is pending only while the run waits for
\* it, and nothing that would undo it comes behind it.
MarkOK ==
    \A j \in Jobs :
        /\ HarmlessAfterMark(chain[j])
        /\ pc[j] # "marking" => NoMark(chain[j])

\* Past the boundary the row says so, and no pending write takes it back.
PastBoundary(j) == pc[j] \in {"reserving", "failRecord"} \/ j \in published

BoundaryOK ==
    \A j \in Jobs :
        /\ PastBoundary(j) => (row[j] = NoRow \/ row[j].attempted) /\ Harmless(chain[j])
        /\ j \in published => status[j] \in {"sent", "cancelled", "lost"} /\ ~InQueue(j)

IInv == TypeOK /\ QueueOK /\ RunOK /\ UnknownOK /\ MarkOK /\ BoundaryOK

-----------------------------------------------------------------------------
(* Sequences of writes *)

LEMMA WriteTypes ==
    /\ InsertWrite \in Write /\ RearmWrite \in Write /\ MarkWrite \in Write
    /\ \A s \in Finished \cup {"uploading"} : StatusWrite(s) \in Write
  BY DEF InsertWrite, RearmWrite, MarkWrite, StatusWrite, Write, JournalStatus, Finished

LEMMA AppliedType ==
    ASSUME NEW r \in Row \cup {NoRow}, NEW w \in Write
    PROVE  Applied(r, w) \in Row \cup {NoRow}
  BY NoRowAssumption DEF Applied, Row, Write, JournalStatus

\* A write without effect on the boundary may be appended at any time.
LEMMA AppendHarmless ==
    ASSUME NEW c \in Seq(Write), NEW w \in Write, w.op = "status", ~w.clear
    PROVE  /\ NoMark(c) => NoMark(Append(c, w))
           /\ Harmless(c) => Harmless(Append(c, w))
           /\ HarmlessAfterMark(c) => HarmlessAfterMark(Append(c, w))
  BY DEF NoMark, Harmless, HarmlessAfterMark

\* Any write but the mark itself may be appended while no mark is pending,
\* and then the mark.
LEMMA AppendToUnmarked ==
    ASSUME NEW c \in Seq(Write), NEW w \in Write, NoMark(c)
    PROVE  /\ w.op # "mark" => NoMark(Append(c, w))
           /\ HarmlessAfterMark(Append(c, w))
  BY DEF NoMark, HarmlessAfterMark

\* What is left behind the head.
LEMMA TailOfChain ==
    ASSUME NEW c \in Seq(Write), c # <<>>
    PROVE  /\ Head(c) \in Write /\ Tail(c) \in Seq(Write)
           /\ NoMark(c) => NoMark(Tail(c))
           /\ Harmless(c) => Head(c).op = "status" /\ ~Head(c).clear /\ Harmless(Tail(c))
           /\ HarmlessAfterMark(c) => HarmlessAfterMark(Tail(c))
           /\ HarmlessAfterMark(c) /\ Head(c).op = "mark" => Harmless(Tail(c))
  <1>1. Head(c) = c[1] /\ Len(c) \in Nat /\ Len(c) > 0
    OBVIOUS
  <1>2. /\ Tail(c) \in Seq(Write) /\ Len(Tail(c)) = Len(c) - 1
        /\ \A i \in 1..Len(Tail(c)) : Tail(c)[i] = c[i + 1]
    OBVIOUS
  <1> QED BY <1>1, <1>2 DEF NoMark, Harmless, HarmlessAfterMark

LEMMA HarmlessHasNoMark == ASSUME NEW c, Harmless(c) PROVE NoMark(c) /\ HarmlessAfterMark(c)
  BY DEF Harmless, NoMark, HarmlessAfterMark

-----------------------------------------------------------------------------
(* The queue of a printer *)

\* When the run at the head of a queue ends it leaves the queue, every other
\* run stays in its queue, and those at a head stay there.
LEMMA QueuePop ==
    ASSUME TypeOK, QueueOK, NEW j \in Jobs, AtHead(j),
           queue' = [queue EXCEPT ![PrinterOf[j]] = Tail(@)]
    PROVE  /\ queue' \in [Printers -> Seq(Jobs)]
           /\ QueueOK'
           /\ ~InQueue(j)'
           /\ \A k \in Jobs : InQueue(k)' => InQueue(k)
           /\ \A k \in Jobs : AtHead(k) /\ PrinterOf[k] # PrinterOf[j] => AtHead(k)'
  <1> DEFINE p == PrinterOf[j]
  <1>1. p \in Printers /\ queue[p] \in Seq(Jobs) /\ queue[p] # <<>>
    BY ConstantsAssumption DEF TypeOK, AtHead
  <1>2. queue[p][1] = j
    BY <1>1 DEF AtHead
  <1>3. /\ Tail(queue[p]) \in Seq(Jobs) /\ Len(Tail(queue[p])) = Len(queue[p]) - 1
        /\ \A i \in 1..Len(Tail(queue[p])) : Tail(queue[p])[i] = queue[p][i + 1]
        /\ Len(queue[p]) \in Nat \ {0}
    BY <1>1
  <1>4. queue'[p] = Tail(queue[p]) /\ \A q \in Printers \ {p} : queue'[q] = queue[q]
    BY <1>1 DEF TypeOK
  <1>5. queue' \in [Printers -> Seq(Jobs)]
    BY <1>1, <1>3 DEF TypeOK
  <1>6. QueueOK'
    <2>1. \A i, k \in 1..Len(queue'[p]) :
            PrinterOf[queue'[p][i]] = p /\ (queue'[p][i] = queue'[p][k] => i = k)
      <3>1. \A i \in 1..Len(queue'[p]) : i + 1 \in 1..Len(queue[p]) /\ queue'[p][i] = queue[p][i + 1]
        <4>1. \A i \in 1..Len(Tail(queue[p])) : i + 1 \in 1..Len(queue[p])
          BY <1>3
        <4> QED BY <1>3, <1>4, <4>1
      <3>2. \A i, k \in 1..Len(queue[p]) :
              PrinterOf[queue[p][i]] = p /\ (queue[p][i] = queue[p][k] => i = k)
        BY <1>1 DEF QueueOK
      <3> HIDE DEF p
      <3> SUFFICES ASSUME NEW i \in 1..Len(queue'[p]), NEW k \in 1..Len(queue'[p])
                   PROVE  PrinterOf[queue'[p][i]] = p /\ (queue'[p][i] = queue'[p][k] => i = k)
        OBVIOUS
      <3>3. PrinterOf[queue[p][i + 1]] = p /\ (queue[p][i + 1] = queue[p][k + 1] => i + 1 = k + 1)
        BY <3>1, <3>2
      <3>4. queue'[p][i] = queue[p][i + 1] /\ queue'[p][k] = queue[p][k + 1]
        BY <3>1
      <3>5. i \in Nat /\ k \in Nat
        OBVIOUS
      <3>6. i + 1 = k + 1 => i = k
        BY <3>5
      <3> QED BY <3>3, <3>4, <3>6
    <2> QED BY <1>4, <2>1 DEF QueueOK
  <1>7. ~InQueue(j)'
    <2> SUFFICES ASSUME NEW i \in 1..Len(queue'[p]), queue'[p][i] = j PROVE FALSE
      BY DEF InQueue
    <2>1. i \in 1..Len(Tail(queue[p])) /\ Tail(queue[p])[i] = j
      BY <1>4
    <2>2. i + 1 \in 1..Len(queue[p]) /\ 1 \in 1..Len(queue[p]) /\ queue[p][i + 1] = j
      BY <1>3, <2>1
    <2>3. i + 1 = 1
      BY <1>1, <1>2, <2>2 DEF QueueOK
    <2> QED BY <2>2, <2>3
  <1>8. \A k \in Jobs : InQueue(k)' => InQueue(k)
    BY <1>1, <1>3, <1>4, ConstantsAssumption DEF InQueue
  <1>9. \A k \in Jobs : AtHead(k) /\ PrinterOf[k] # p => AtHead(k)'
    BY <1>4, ConstantsAssumption DEF AtHead
  <1> QED BY <1>5, <1>6, <1>7, <1>8, <1>9

\* A run enters at the end; those at a head stay there.
LEMMA QueuePush ==
    ASSUME TypeOK, QueueOK, NEW j \in Jobs, ~InQueue(j), queue' = Enqueued(j)
    PROVE  /\ queue' \in [Printers -> Seq(Jobs)]
           /\ QueueOK'
           /\ \A k \in Jobs \ {j} : InQueue(k)' => InQueue(k)
           /\ \A k \in Jobs : AtHead(k) => AtHead(k)'
  <1> DEFINE p == PrinterOf[j]
  <1>1. p \in Printers /\ queue[p] \in Seq(Jobs)
    BY ConstantsAssumption DEF TypeOK
  <1>2. queue'[p] = Append(queue[p], j) /\ \A q \in Printers \ {p} : queue'[q] = queue[q]
    BY <1>1 DEF TypeOK, Enqueued
  <1>3. queue' \in [Printers -> Seq(Jobs)]
    BY <1>1 DEF TypeOK, Enqueued
  <1>4. QueueOK'
    <2>1. \A i, k \in 1..Len(queue'[p]) :
            PrinterOf[queue'[p][i]] = p /\ (queue'[p][i] = queue'[p][k] => i = k)
      <3>1. /\ Len(queue[p]) \in Nat /\ Len(queue'[p]) = Len(queue[p]) + 1
            /\ queue'[p][Len(queue[p]) + 1] = j
            /\ \A i \in 1..Len(queue[p]) : queue'[p][i] = queue[p][i]
        BY <1>1, <1>2
      <3>2. \A i \in 1..Len(queue[p]) : queue[p][i] # j /\ PrinterOf[queue[p][i]] = p
        BY <1>1 DEF QueueOK, InQueue
      <3>3. \A i, k \in 1..Len(queue[p]) : queue[p][i] = queue[p][k] => i = k
        BY <1>1 DEF QueueOK
      <3> SUFFICES ASSUME NEW i \in 1..(Len(queue[p]) + 1), NEW k \in 1..(Len(queue[p]) + 1)
                   PROVE  PrinterOf[queue'[p][i]] = p /\ (queue'[p][i] = queue'[p][k] => i = k)
        BY <3>1
      <3>4. \A n \in 1..(Len(queue[p]) + 1) : n \in 1..Len(queue[p]) \/ n = Len(queue[p]) + 1
        BY <3>1
      <3> HIDE DEF p
      <3>5. PrinterOf[queue'[p][i]] = p
        <4>1. CASE i \in 1..Len(queue[p])
          BY <3>1, <3>2, <4>1
        <4>2. CASE i = Len(queue[p]) + 1
          BY <3>1, <4>2 DEF p
        <4> QED BY <3>4, <4>1, <4>2
      <3>6. queue'[p][i] = queue'[p][k] => i = k
        BY <3>1, <3>2, <3>3, <3>4
      <3> QED BY <3>5, <3>6
    <2>2. \A q \in Printers \ {p} : \A i, k \in 1..Len(queue'[q]) :
            PrinterOf[queue'[q][i]] = q /\ (queue'[q][i] = queue'[q][k] => i = k)
      BY <1>2 DEF QueueOK
    <2> QED BY <2>1, <2>2 DEF QueueOK
  <1>5. \A k \in Jobs \ {j} : InQueue(k)' => InQueue(k)
    <2> SUFFICES ASSUME NEW k \in Jobs \ {j}, InQueue(k)' PROVE InQueue(k)
      OBVIOUS
    <2>1. CASE PrinterOf[k] = p
      <3>1. PICK i \in 1..Len(queue'[p]) : queue'[p][i] = k
        BY <2>1 DEF InQueue
      <3>2. i \in 1..Len(queue[p]) /\ queue[p][i] = k
        BY <1>1, <1>2, <3>1
      <3> QED BY <2>1, <3>2 DEF InQueue
    <2>2. CASE PrinterOf[k] # p
      <3>1. queue'[PrinterOf[k]] = queue[PrinterOf[k]]
        BY <1>2, <2>2, ConstantsAssumption
      <3> QED BY <3>1 DEF InQueue
    <2> QED BY <2>1, <2>2
  <1>6. \A k \in Jobs : AtHead(k) => AtHead(k)'
    <2> SUFFICES ASSUME NEW k \in Jobs, AtHead(k) PROVE AtHead(k)'
      OBVIOUS
    <2>1. CASE PrinterOf[k] = p
      BY <1>1, <1>2, <2>1 DEF AtHead
    <2>2. CASE PrinterOf[k] # p
      BY <1>2, <2>2, ConstantsAssumption DEF AtHead
    <2> QED BY <2>1, <2>2
  <1> QED BY <1>3, <1>4, <1>5, <1>6

\* The run at the head of a queue is in it.
LEMMA HeadInQueue == ASSUME TypeOK, NEW j \in Jobs, AtHead(j) PROVE InQueue(j)
  <1>1. queue[PrinterOf[j]] \in Seq(Jobs) /\ queue[PrinterOf[j]] # <<>>
    BY ConstantsAssumption DEF TypeOK, AtHead
  <1> QED BY <1>1 DEF AtHead, InQueue

-----------------------------------------------------------------------------
(* What the shared building blocks of the actions preserve *)

Sound == QueueOK /\ RunOK /\ UnknownOK /\ MarkOK /\ BoundaryOK

\* Appending a harmless write to one chain spoils no chain.
LEMMA ChainedHarmless ==
    ASSUME TypeOK, NEW j \in Jobs, NEW w \in Write, w.op = "status", ~w.clear,
           chain' = Chained(j, w)
    PROVE  /\ chain' \in [Jobs -> Seq(Write)]
           /\ \A k \in Jobs : /\ NoMark(chain[k]) => NoMark(chain'[k])
                              /\ Harmless(chain[k]) => Harmless(chain'[k])
                              /\ HarmlessAfterMark(chain[k]) => HarmlessAfterMark(chain'[k])
  <1>1. chain \in [Jobs -> Seq(Write)]
    BY DEF TypeOK, JournalTypeOK
  <1>2. chain'[j] = Append(chain[j], w) /\ \A k \in Jobs \ {j} : chain'[k] = chain[k]
    BY <1>1 DEF Chained
  <1>3. chain' \in [Jobs -> Seq(Write)]
    BY <1>1 DEF Chained
  <1> QED BY <1>1, <1>2, <1>3, AppendHarmless

LEMMA FinishKeepsChains ==
    ASSUME TypeOK, NEW j \in Jobs, NEW s \in Finished, Finish(j, s)
    PROVE  /\ status' \in [Jobs -> Statuses] /\ chain' \in [Jobs -> Seq(Write)]
           /\ status'[j] = s /\ \A k \in Jobs \ {j} : status'[k] = status[k]
           /\ \A k \in Jobs : /\ NoMark(chain[k]) => NoMark(chain'[k])
                              /\ Harmless(chain[k]) => Harmless(chain'[k])
                              /\ HarmlessAfterMark(chain[k]) => HarmlessAfterMark(chain'[k])
  <1>1. StatusWrite(s) \in Write /\ StatusWrite(s).op = "status" /\ ~StatusWrite(s).clear
    BY WriteTypes DEF StatusWrite
  <1>2. chain' = Chained(j, StatusWrite(s))
    BY DEF Finish
  <1>3. /\ status' \in [Jobs -> Statuses]
        /\ status'[j] = s /\ \A k \in Jobs \ {j} : status'[k] = status[k]
    BY DEF Finish, TypeOK, Statuses
  <1> QED BY <1>1, <1>2, <1>3, ChainedHarmless

\* A run that ends leaves the queue and sets no one else back.
LEMMA EndRunFacts ==
    ASSUME IInv, NEW j \in Jobs, AtHead(j), EndRun(j)
    PROVE  /\ queue' \in [Printers -> Seq(Jobs)] /\ QueueOK' /\ ~InQueue(j)'
           /\ pc' \in [Jobs -> Awaits] /\ attempt' \in [Jobs -> Nat]
           /\ pc'[j] = "idle" /\ \A k \in Jobs \ {j} : pc'[k] = pc[k]
           /\ \A k \in Jobs : InQueue(k)' => InQueue(k)
           /\ \A k \in Jobs \ {j} : Running(k) => AtHead(k)'
  <1>1. queue' = [queue EXCEPT ![PrinterOf[j]] = Tail(@)]
    BY DEF EndRun
  <1>2. /\ pc' \in [Jobs -> Awaits] /\ attempt' \in [Jobs -> Nat]
        /\ pc'[j] = "idle" /\ \A k \in Jobs \ {j} : pc'[k] = pc[k]
    BY DEF EndRun, IInv, TypeOK, Awaits
  <1>3. ASSUME NEW k \in Jobs \ {j}, Running(k) PROVE AtHead(k) /\ PrinterOf[k] # PrinterOf[j]
    BY <1>3 DEF IInv, RunOK, AtHead
  <1> QED BY <1>1, <1>2, <1>3, QueuePop DEF IInv

\* The run of j ends with an outcome before it waits for the start boundary.
LEMMA RunEnds ==
    ASSUME IInv, NEW j \in Jobs, NEW s \in Finished, AtHead(j), pc[j] # "marking",
           Finish(j, s), EndRun(j),
           UNCHANGED <<jobs, cancelReq, idleCancels, retries, stopWait, row, published>>
    PROVE  Sound'
  <1>1. j \notin published
    BY HeadInQueue DEF IInv, BoundaryOK
  <1>2. RunOK'
    <2>1. status'[j] = s /\ \A k \in Jobs \ {j} : status'[k] = status[k]
      BY FinishKeepsChains DEF IInv
    <2> QED BY <2>1, EndRunFacts DEF IInv, RunOK, Running
  <1>3. UnknownOK'
    <2>1. s # "none" /\ status'[j] = s /\ \A k \in Jobs \ {j} : status'[k] = status[k]
      BY FinishKeepsChains DEF IInv, Finished
    <2>2. pc'[j] = "idle" /\ \A k \in Jobs \ {j} : pc'[k] = pc[k]
      BY EndRunFacts
    <2> QED BY <2>1, <2>2 DEF IInv, UnknownOK
  <1>4. MarkOK'
    <2>1. \A k \in Jobs : /\ NoMark(chain[k]) => NoMark(chain'[k])
                          /\ HarmlessAfterMark(chain[k]) => HarmlessAfterMark(chain'[k])
      BY FinishKeepsChains DEF IInv
    <2>2. \A k \in Jobs : pc'[k] # "marking" => pc[k] # "marking"
      BY EndRunFacts
    <2> QED BY <2>1, <2>2 DEF IInv, MarkOK
  <1>5. BoundaryOK'
    <2>1. \A k \in Jobs : /\ Harmless(chain[k]) => Harmless(chain'[k])
                          /\ InQueue(k)' => InQueue(k)
      BY FinishKeepsChains, EndRunFacts DEF IInv
    <2>2. \A k \in Jobs : PastBoundary(k)' => PastBoundary(k)
      BY EndRunFacts DEF PastBoundary
    <2>3. \A k \in published : k \in Jobs => status'[k] = status[k]
      BY <1>1, FinishKeepsChains DEF IInv
    <2> QED BY <2>1, <2>2, <2>3 DEF IInv, BoundaryOK
  <1> QED BY <1>2, <1>3, <1>4, <1>5, EndRunFacts DEF Sound

\* The run of j moves on short of the start boundary.
LEMMA RunMoves ==
    ASSUME IInv, NEW j \in Jobs, AtHead(j), Running(j), pc[j] # "marking",
           NEW w \in Awaits \ {"idle", "preparing", "marking", "reserving", "failRecord"},
           pc' = [pc EXCEPT ![j] = w],
           UNCHANGED <<jobs, status, cancelReq, idleCancels, retries, stopWait, queue,
                       chain, row, published>>
    PROVE  Sound'
  <1>1. pc'[j] = w /\ \A k \in Jobs \ {j} : pc'[k] = pc[k]
    BY DEF IInv, TypeOK
  <1>2. \A k \in Jobs : (InQueue(k)' <=> InQueue(k)) /\ (AtHead(k)' <=> AtHead(k))
    BY DEF InQueue, AtHead
  <1>3. QueueOK' /\ RunOK'
    BY <1>1, <1>2 DEF IInv, QueueOK, RunOK, Running
  <1>4. UnknownOK' /\ MarkOK' /\ BoundaryOK'
    BY <1>1, <1>2 DEF IInv, UnknownOK, MarkOK, BoundaryOK, PastBoundary
  <1> QED BY <1>3, <1>4 DEF Sound

\* The catch branch of runJob.
LEMMA CaughtSound ==
    ASSUME IInv, NEW j \in Jobs, Running(j), pc[j] # "marking", Caught(j),
           UNCHANGED <<jobs, cancelReq, idleCancels, retries, stopWait, row, published>>
    PROVE  Sound'
  <1>1. AtHead(j)
    BY DEF IInv, RunOK
  <1>2. CASE cancelReq[j]
    BY <1>1, <1>2, RunMoves DEF Caught, Goto, Awaits
  <1>3. CASE ~cancelReq[j]
    BY <1>1, <1>3, RunEnds DEF Caught, Finished
  <1> QED BY <1>2, <1>3

\* A step that leaves all of this alone.
LEMMA QuietStep ==
    ASSUME IInv, UNCHANGED <<status, jobs, retries, pc, queue, chain, row, published>>,
           \A k \in Jobs : status[k] = "none" =>
               idleCancels'[k] = idleCancels[k] /\ stopWait' # k /\ (cancelReq'[k] <=> cancelReq[k])
    PROVE  Sound'
  <1>1. \A k \in Jobs : (InQueue(k)' <=> InQueue(k)) /\ (AtHead(k)' <=> AtHead(k))
    BY DEF InQueue, AtHead
  <1>2. QueueOK' /\ RunOK' /\ MarkOK' /\ BoundaryOK'
    BY <1>1 DEF IInv, QueueOK, RunOK, Running, MarkOK, BoundaryOK, PastBoundary
  <1>3. UnknownOK'
    BY DEF IInv, UnknownOK
  <1> QED BY <1>2, <1>3 DEF Sound

-----------------------------------------------------------------------------
(* The steps of a run *)

\* Every step of a run but its first two is a step of a running dispatch.
LEMMA RunningAtHead == ASSUME IInv, NEW j \in Jobs, Running(j) PROVE AtHead(j)
  BY DEF IInv, RunOK

LEMMA StartRunSound == ASSUME IInv, NEW j \in Jobs, StartRun(j) PROVE Sound'
  <1> USE DEF StartRun
  <1>1. CASE cancelReq[j] \/ status[j] = "cancelled"
    <2>1. EndRun(j) /\ UNCHANGED <<status, chain, jobs, row, published, idleCancels, retries, stopWait, cancelReq>>
      BY <1>1 DEF serverVars, printerVars
    <2>2. RunOK' /\ UnknownOK'
      <3>1. RunOK'
        BY <2>1, EndRunFacts DEF IInv, RunOK, Running
      <3>2. UnknownOK'
        BY <2>1, EndRunFacts DEF IInv, UnknownOK
      <3> QED BY <3>1, <3>2
    <2>3. MarkOK' /\ BoundaryOK'
      BY <2>1, EndRunFacts DEF IInv, MarkOK, BoundaryOK, PastBoundary
    <2> QED BY <2>1, <2>2, <2>3, EndRunFacts DEF Sound
  <1>2. CASE ~(cancelReq[j] \/ status[j] = "cancelled") /\ ~getPrinter(PrinterOf[j])
    BY <1>2, RunEnds DEF serverVars, printerVars, Finished
  <1>3. CASE ~(cancelReq[j] \/ status[j] = "cancelled") /\ getPrinter(PrinterOf[j])
    <2>1. /\ Goto(j, "artifact") /\ status' = [status EXCEPT ![j] = "uploading"]
          /\ chain' = Chained(j, StatusWrite("uploading"))
          /\ UNCHANGED <<jobs, row, published, idleCancels, retries, stopWait, cancelReq, queue>>
      BY <1>3 DEF serverVars, printerVars, Goto
    <2>2. /\ pc'[j] = "artifact" /\ \A k \in Jobs \ {j} : pc'[k] = pc[k]
          /\ status'[j] = "uploading" /\ \A k \in Jobs \ {j} : status'[k] = status[k]
      BY <2>1 DEF Goto, IInv, TypeOK
    <2>3. \A k \in Jobs : (InQueue(k)' <=> InQueue(k)) /\ (AtHead(k)' <=> AtHead(k))
      BY <2>1 DEF InQueue, AtHead
    <2>4. \A k \in Jobs : /\ NoMark(chain[k]) => NoMark(chain'[k])
                          /\ Harmless(chain[k]) => Harmless(chain'[k])
                          /\ HarmlessAfterMark(chain[k]) => HarmlessAfterMark(chain'[k])
      BY <2>1, WriteTypes, ChainedHarmless DEF IInv, StatusWrite
    <2>5. j \notin published /\ status[j] # "none"
      BY HeadInQueue DEF IInv, BoundaryOK, RunOK
    <2>6. QueueOK' /\ RunOK' /\ UnknownOK'
      BY <2>1, <2>2, <2>3, <2>5 DEF IInv, QueueOK, RunOK, UnknownOK, Running
    <2>7. MarkOK' /\ BoundaryOK'
      BY <2>1, <2>2, <2>3, <2>4, <2>5 DEF IInv, MarkOK, BoundaryOK, PastBoundary
    <2> QED BY <2>6, <2>7 DEF Sound
  <1> QED BY <1>1, <1>2, <1>3

LEMMA TryUploadSound ==
    ASSUME IInv, NEW j \in Jobs, pc[j] \in {"artifact", "backoff"}, TryUpload(j),
           UNCHANGED <<userVars, serverVars, printerVars, journalVars>>
    PROVE  Sound'
  <1>1. AtHead(j) /\ Running(j) /\ pc[j] # "marking"
    BY RunningAtHead DEF Running
  <1>2. \E w \in {"cleanupCaught", "transfer"} : pc' = [pc EXCEPT ![j] = w]
    BY DEF TryUpload, Goto
  <1>3. UNCHANGED <<jobs, status, cancelReq, idleCancels, retries, stopWait, queue, chain, row, published>>
    BY DEF TryUpload, Goto, userVars, serverVars, printerVars, journalVars
  <1> QED BY <1>1, <1>2, <1>3, RunMoves DEF Awaits

LEMMA CaughtStepsSound ==
    ASSUME IInv, NEW j \in Jobs,
           ArtifactFails(j) \/ UploadFails(j) \/ RecordFails(j) \/ ReserveFails(j)
             \/ RecordCancelled(j) \/ StartFailed(j)
    PROVE  Sound'
  <1>1. /\ Running(j) /\ pc[j] # "marking"
        /\ UNCHANGED <<jobs, cancelReq, idleCancels, retries, stopWait, row, published>>
    BY DEF ArtifactFails, UploadFails, RecordFails, ReserveFails, RecordCancelled, StartFailed,
           Running, serverVars, printerVars
  <1>2. AtHead(j)
    BY <1>1, RunningAtHead
  <1>3. CASE Caught(j)
    BY <1>1, <1>3, CaughtSound
  <1>4. CASE UploadFails(j) /\ ~Caught(j)
    BY <1>1, <1>2, <1>4, RunMoves DEF UploadFails, Goto, Awaits
  <1>5. CASE RecordCancelled(j) \/ (StartFailed(j) /\ ~Caught(j))
    BY <1>1, <1>2, <1>5, RunEnds DEF RecordCancelled, StartFailed, Finished
  <1> QED BY <1>3, <1>4, <1>5 DEF ArtifactFails, RecordFails, ReserveFails

LEMMA CleanUpSound == ASSUME IInv, NEW j \in Jobs, CleanUp(j) PROVE Sound'
  <1>1. AtHead(j) /\ Running(j) /\ pc[j] # "marking"
    BY RunningAtHead DEF Running, CleanUp
  <1>2. /\ \E w \in {"record", "recordCaught"} : pc' = [pc EXCEPT ![j] = w]
        /\ UNCHANGED <<jobs, status, cancelReq, idleCancels, retries, stopWait, queue, chain, row, published>>
    BY DEF CleanUp, Goto, userVars, serverVars, journalVars
  <1> QED BY <1>1, <1>2, RunMoves DEF Awaits

\* The mark enters the chain behind writes that may be anything but a mark.
LEMMA UploadDoneSound == ASSUME IInv, NEW j \in Jobs, UploadDone(j) PROVE Sound'
  <1>1. AtHead(j) /\ Running(j) /\ pc[j] = "transfer"
    BY RunningAtHead DEF Running, UploadDone
  <1>2. UNCHANGED <<jobs, status, cancelReq, idleCancels, retries, stopWait, queue, row, published>>
    BY DEF UploadDone, Goto, userVars, serverVars
  <1>3. CASE cancelReq[j]
    BY <1>1, <1>2, <1>3, RunMoves DEF UploadDone, Goto, Awaits
  <1>4. CASE ~cancelReq[j]
    <2>1. pc' = [pc EXCEPT ![j] = "marking"] /\ chain' = Chained(j, MarkWrite)
      BY <1>4 DEF UploadDone, Goto
    <2>2. /\ pc'[j] = "marking" /\ \A k \in Jobs \ {j} : pc'[k] = pc[k]
          /\ chain'[j] = Append(chain[j], MarkWrite) /\ \A k \in Jobs \ {j} : chain'[k] = chain[k]
      BY <2>1 DEF Chained, IInv, TypeOK, JournalTypeOK
    <2>3. \A k \in Jobs : (InQueue(k)' <=> InQueue(k)) /\ (AtHead(k)' <=> AtHead(k))
      BY <1>2 DEF InQueue, AtHead
    <2>4. QueueOK' /\ RunOK' /\ UnknownOK'
      BY <1>1, <1>2, <2>2, <2>3 DEF IInv, QueueOK, RunOK, UnknownOK, Running
    <2>5. HarmlessAfterMark(chain'[j])
      BY <1>1, <2>2, WriteTypes, AppendToUnmarked DEF IInv, MarkOK, TypeOK, JournalTypeOK
    <2>6. MarkOK'
      BY <2>2, <2>5 DEF IInv, MarkOK
    <2>7. j \notin published
      BY <1>1, HeadInQueue DEF IInv, BoundaryOK
    <2>8. BoundaryOK'
      BY <1>2, <2>2, <2>3, <2>7 DEF IInv, BoundaryOK, PastBoundary
    <2> QED BY <2>4, <2>6, <2>8 DEF Sound
  <1> QED BY <1>3, <1>4

\* The boundary write commits: everything pending behind it is harmless.
LEMMA MarkCommitsSound == ASSUME IInv, NEW j \in Jobs, MarkCommits(j) PROVE Sound'
  <1>1. /\ pc[j] = "marking" /\ pc' = [pc EXCEPT ![j] = "reserving"]
        /\ chain[j] # <<>> /\ Head(chain[j]).op = "mark" /\ row[j] # NoRow
        /\ row' = [row EXCEPT ![j] = Applied(@, Head(chain[j]))]
        /\ chain' = [chain EXCEPT ![j] = Tail(@)]
        /\ UNCHANGED <<jobs, status, cancelReq, idleCancels, retries, stopWait, queue, published>>
    BY DEF MarkCommits, CommitHead, Goto, userVars, serverVars, printerVars
  <1>2. /\ pc'[j] = "reserving" /\ \A k \in Jobs \ {j} : pc'[k] = pc[k]
        /\ chain'[j] = Tail(chain[j]) /\ \A k \in Jobs \ {j} : chain'[k] = chain[k]
        /\ row'[j] = Applied(row[j], Head(chain[j])) /\ \A k \in Jobs \ {j} : row'[k] = row[k]
    BY <1>1 DEF IInv, TypeOK, JournalTypeOK
  <1>3. row'[j].attempted
    BY <1>1, <1>2 DEF IInv, TypeOK, JournalTypeOK, Applied, Row
  <1>4. Harmless(chain'[j])
    BY <1>1, <1>2, TailOfChain DEF IInv, MarkOK, TypeOK, JournalTypeOK
  <1>5. \A k \in Jobs : (InQueue(k)' <=> InQueue(k)) /\ (AtHead(k)' <=> AtHead(k))
    BY <1>1 DEF InQueue, AtHead
  <1>6. QueueOK' /\ RunOK' /\ UnknownOK'
    BY <1>1, <1>2, <1>5 DEF IInv, QueueOK, RunOK, UnknownOK, Running
  <1>7. MarkOK'
    BY <1>2, <1>4, HarmlessHasNoMark DEF IInv, MarkOK
  <1>8. BoundaryOK'
    BY <1>1, <1>2, <1>3, <1>4, <1>5 DEF IInv, BoundaryOK, PastBoundary
  <1> QED BY <1>6, <1>7, <1>8 DEF Sound

\* It is rejected: the run ends, and whatever the row says nothing is started.
LEMMA MarkRejectsSound == ASSUME IInv, NEW j \in Jobs, MarkRejects(j) PROVE Sound'
  <1>1. /\ pc[j] = "marking" /\ chain[j] # <<>> /\ Head(chain[j]).op = "mark" /\ EndRun(j)
        /\ status' = [status EXCEPT ![j] = "failed"]
        /\ chain' = [chain EXCEPT ![j] = Append(Tail(@), StatusWrite("failed"))]
        /\ row' \in {row, [row EXCEPT ![j] = Applied(@, MarkWrite)]}
        /\ UNCHANGED <<jobs, cancelReq, idleCancels, retries, stopWait, published>>
    BY DEF MarkRejects, serverVars, printerVars
  <1>2. Running(j) /\ AtHead(j)
    BY <1>1, RunningAtHead DEF Running
  <1>3. j \notin published /\ status[j] # "none"
    BY <1>2, HeadInQueue DEF IInv, BoundaryOK, RunOK
  <1>4. /\ status'[j] = "failed" /\ \A k \in Jobs \ {j} : status'[k] = status[k]
        /\ chain'[j] = Append(Tail(chain[j]), StatusWrite("failed"))
        /\ \A k \in Jobs \ {j} : chain'[k] = chain[k] /\ row'[k] = row[k]
    BY <1>1 DEF IInv, TypeOK, JournalTypeOK
  <1>5. Harmless(chain'[j])
    <2>1. Tail(chain[j]) \in Seq(Write) /\ Harmless(Tail(chain[j]))
      BY <1>1, TailOfChain DEF IInv, MarkOK, TypeOK, JournalTypeOK
    <2>2. /\ StatusWrite("failed") \in Write
          /\ StatusWrite("failed").op = "status" /\ ~StatusWrite("failed").clear
      BY WriteTypes DEF StatusWrite, Finished
    <2> QED BY <1>4, <2>1, <2>2, AppendHarmless
  <1>6. /\ ~InQueue(j)' /\ pc'[j] = "idle" /\ \A k \in Jobs \ {j} : pc'[k] = pc[k]
        /\ \A k \in Jobs : InQueue(k)' => InQueue(k)
        /\ \A k \in Jobs \ {j} : Running(k) => AtHead(k)'
    BY <1>1, <1>2, EndRunFacts
  <1>7. RunOK'
    BY <1>4, <1>6 DEF IInv, RunOK, Running
  <1>8. UnknownOK'
    BY <1>1, <1>4, <1>6 DEF IInv, UnknownOK
  <1>9. MarkOK'
    BY <1>4, <1>5, <1>6, HarmlessHasNoMark DEF IInv, MarkOK
  <1>10. BoundaryOK'
    BY <1>1, <1>3, <1>4, <1>6 DEF IInv, BoundaryOK, PastBoundary
  <1> QED BY <1>1, <1>2, <1>7, <1>8, <1>9, <1>10, EndRunFacts DEF Sound

\* The start goes out past the boundary, and with it the run ends.
LEMMA PublishSound == ASSUME IInv, NEW j \in Jobs, Publish(j) PROVE Sound'
  <1>1. /\ pc[j] = "reserving" /\ EndRun(j) /\ Finish(j, "sent")
        /\ published' = published \cup {j}
        /\ UNCHANGED <<jobs, cancelReq, idleCancels, retries, stopWait, row>>
    BY DEF Publish, serverVars
  <1>2. Running(j) /\ AtHead(j)
    BY <1>1, RunningAtHead DEF Running
  <1>3. /\ status'[j] = "sent" /\ \A k \in Jobs \ {j} : status'[k] = status[k]
        /\ \A k \in Jobs : /\ NoMark(chain[k]) => NoMark(chain'[k])
                           /\ Harmless(chain[k]) => Harmless(chain'[k])
                           /\ HarmlessAfterMark(chain[k]) => HarmlessAfterMark(chain'[k])
    BY <1>1, FinishKeepsChains DEF IInv, Finished
  <1>4. RunOK' /\ UnknownOK'
    <2>1. /\ ~InQueue(j)' /\ pc'[j] = "idle" /\ \A k \in Jobs \ {j} : pc'[k] = pc[k]
          /\ \A k \in Jobs : InQueue(k)' => InQueue(k)
          /\ \A k \in Jobs \ {j} : Running(k) => AtHead(k)'
      BY <1>1, <1>2, EndRunFacts
    <2>2. RunOK'
      BY <1>3, <2>1 DEF IInv, RunOK, Running
    <2>3. UnknownOK'
      BY <1>1, <1>3, <2>1 DEF IInv, UnknownOK
    <2> QED BY <2>2, <2>3
  <1>5. MarkOK'
    BY <1>1, <1>2, <1>3, EndRunFacts DEF IInv, MarkOK
  <1>6. BoundaryOK'
    BY <1>1, <1>2, <1>3, EndRunFacts DEF IInv, BoundaryOK, PastBoundary
  <1> QED BY <1>1, <1>2, <1>4, <1>5, <1>6, EndRunFacts DEF Sound

LEMMA PublishRefusedSound == ASSUME IInv, NEW j \in Jobs, PublishRefused(j) PROVE Sound'
  <1>1. /\ pc[j] = "reserving" /\ pc' = [pc EXCEPT ![j] = "failRecord"]
        /\ UNCHANGED <<jobs, status, cancelReq, idleCancels, retries, stopWait, queue, chain, row, published>>
    BY DEF PublishRefused, Goto, userVars, serverVars, printerVars, journalVars
  <1>2. pc'[j] = "failRecord" /\ \A k \in Jobs \ {j} : pc'[k] = pc[k]
    BY <1>1 DEF IInv, TypeOK
  <1>3. \A k \in Jobs : (InQueue(k)' <=> InQueue(k)) /\ (AtHead(k)' <=> AtHead(k))
    BY <1>1 DEF InQueue, AtHead
  <1>4. QueueOK' /\ RunOK' /\ UnknownOK'
    BY <1>1, <1>2, <1>3 DEF IInv, QueueOK, RunOK, UnknownOK, Running
  <1>5. MarkOK' /\ BoundaryOK'
    BY <1>1, <1>2, <1>3 DEF IInv, MarkOK, BoundaryOK, PastBoundary
  <1> QED BY <1>4, <1>5 DEF Sound

LEMMA RunStepSound == ASSUME IInv, NEW j \in Jobs, RunStep(j) PROVE Sound'
  <1>1. CASE ArtifactReady(j) \/ BackoffEnds(j)
    BY <1>1, TryUploadSound DEF ArtifactReady, BackoffEnds
  <1> QED BY <1>1, StartRunSound, CaughtStepsSound, CleanUpSound, UploadDoneSound, MarkCommitsSound,
             MarkRejectsSound, PublishSound, PublishRefusedSound DEF RunStep

-----------------------------------------------------------------------------
(* The other steps *)

LEMMA SubmitSound ==
    ASSUME IInv, NEW j \in Jobs, Submit(j) \/ PrepareFails(j)
    PROVE  Sound'
  <1>1. /\ status[j] = "none" /\ pc[j] \in {"idle", "preparing"} /\ pc'[j] \in {"idle", "preparing"}
        /\ UNCHANGED <<jobs, status, cancelReq, idleCancels, retries, stopWait, queue, chain, row, published>>
        /\ \A k \in Jobs \ {j} : pc'[k] = pc[k]
    BY DEF Submit, PrepareFails, userVars, serverVars, printerVars, journalVars, IInv, UnknownOK, TypeOK
  <1>2. \A k \in Jobs : (InQueue(k)' <=> InQueue(k)) /\ (AtHead(k)' <=> AtHead(k))
    BY <1>1 DEF InQueue, AtHead
  <1>3. QueueOK' /\ RunOK' /\ UnknownOK'
    BY <1>1, <1>2 DEF IInv, QueueOK, RunOK, UnknownOK, Running
  <1>4. MarkOK' /\ BoundaryOK'
    BY <1>1, <1>2 DEF IInv, MarkOK, BoundaryOK, PastBoundary
  <1> QED BY <1>3, <1>4 DEF Sound

\* An unlisted dispatch is enqueued, or a failed one again: neither is in a
\* queue or past the boundary.
LEMMA EnqueuedSound ==
    ASSUME IInv, NEW j \in Jobs, NEW w \in Write, w.op # "mark",
           \/ PrepareDone(j) /\ w = InsertWrite
           \/ Retry(j) /\ w = RearmWrite
    PROVE  Sound'
  <1>1. /\ status[j] \in {"none", "failed"} /\ ~InQueue(j) /\ ~Running(j) /\ j \notin published
        /\ pc[j] # "marking" /\ NoMark(chain[j]) /\ pc'[j] # "preparing"
    <2>1. status[j] \in {"none", "failed"} /\ pc'[j] # "preparing"
      BY DEF PrepareDone, Retry, IInv, UnknownOK, TypeOK
    <2>2. ~InQueue(j) /\ ~Running(j)
      BY <2>1 DEF IInv, RunOK
    <2> QED BY <2>1, <2>2 DEF IInv, BoundaryOK, MarkOK, Running
  <1>2. /\ status' = [status EXCEPT ![j] = "queued"] /\ chain' = Chained(j, w) /\ queue' = Enqueued(j)
        /\ jobs' \subseteq jobs \cup {j}
        /\ UNCHANGED <<stopWait, idleCancels, row, published>>
        /\ \A k \in Jobs \ {j} : pc'[k] = pc[k] /\ retries'[k] = retries[k] /\ (cancelReq'[k] <=> cancelReq[k])
        /\ pc'[j] \in {pc[j], "idle"}
    BY DEF PrepareDone, Retry, serverVars, printerVars, IInv, TypeOK
  <1>3. /\ status'[j] = "queued" /\ \A k \in Jobs \ {j} : status'[k] = status[k]
        /\ chain'[j] = Append(chain[j], w) /\ \A k \in Jobs \ {j} : chain'[k] = chain[k]
    BY <1>2 DEF IInv, TypeOK, JournalTypeOK, Chained
  <1>4. ~Running(j)'
    BY <1>1, <1>2 DEF Running
  <1>5. /\ QueueOK' /\ \A k \in Jobs \ {j} : InQueue(k)' => InQueue(k)
        /\ \A k \in Jobs : AtHead(k) => AtHead(k)'
    BY <1>1, <1>2, QueuePush DEF IInv
  <1>6. RunOK' /\ UnknownOK'
    BY <1>1, <1>2, <1>3, <1>4, <1>5 DEF IInv, RunOK, UnknownOK, Running
  <1>7. NoMark(chain'[j]) /\ HarmlessAfterMark(chain'[j])
    BY <1>1, <1>3, AppendToUnmarked DEF IInv, TypeOK, JournalTypeOK
  <1>8. MarkOK'
    BY <1>1, <1>2, <1>3, <1>7 DEF IInv, MarkOK
  <1>9. BoundaryOK'
    BY <1>1, <1>2, <1>3, <1>4, <1>5 DEF IInv, BoundaryOK, PastBoundary, Running
  <1> QED BY <1>5, <1>6, <1>8, <1>9 DEF Sound

\* A late cancellation may hit a dispatch in any state but "none".
LEMMA LateCancelSound ==
    ASSUME IInv, NEW j \in Jobs, IdleCancelDone(j) \/ StopCancelDone(j)
    PROVE  Sound'
  <1>1. /\ status[j] # "none" /\ Finish(j, "cancelled")
        /\ UNCHANGED <<jobs, cancelReq, retries, pc, queue, row, published>>
        /\ \A k \in Jobs \ {j} : idleCancels'[k] = idleCancels[k] /\ (stopWait' = k => stopWait = k)
    BY ConstantsAssumption DEF IdleCancelDone, StopCancelDone, IInv, UnknownOK, TypeOK, runVars, serverVars, printerVars
  <1>2. /\ status'[j] = "cancelled" /\ \A k \in Jobs \ {j} : status'[k] = status[k]
        /\ \A k \in Jobs : /\ NoMark(chain[k]) => NoMark(chain'[k])
                           /\ Harmless(chain[k]) => Harmless(chain'[k])
                           /\ HarmlessAfterMark(chain[k]) => HarmlessAfterMark(chain'[k])
    BY <1>1, FinishKeepsChains DEF IInv, Finished
  <1>3. \A k \in Jobs : (InQueue(k)' <=> InQueue(k)) /\ (AtHead(k)' <=> AtHead(k))
    BY <1>1 DEF InQueue, AtHead
  <1>4. QueueOK' /\ RunOK' /\ UnknownOK'
    BY <1>1, <1>2, <1>3 DEF IInv, QueueOK, RunOK, UnknownOK, Running
  <1>5. MarkOK' /\ BoundaryOK'
    BY <1>1, <1>2, <1>3 DEF IInv, MarkOK, BoundaryOK, PastBoundary
  <1> QED BY <1>4, <1>5 DEF Sound

LEMMA CancelSound ==
    ASSUME IInv, NEW j \in Jobs, Cancel(j) \/ StopVisit(j)
    PROVE  Sound'
  <1>1. /\ status[j] # "none"
        /\ UNCHANGED <<status, jobs, retries, pc, queue, chain, row, published>>
        /\ stopWait' \in {stopWait, j, NoJob}
        /\ \A k \in Jobs \ {j} : idleCancels'[k] = idleCancels[k] /\ (cancelReq'[k] <=> cancelReq[k])
    BY DEF Cancel, StopVisit, IInv, UnknownOK, TypeOK, runVars, serverVars, printerVars, journalVars
  <1>2. \A k \in Jobs : status[k] = "none" => stopWait' # k
    BY <1>1, ConstantsAssumption DEF IInv, UnknownOK
  <1> QED BY <1>1, <1>2, QuietStep

LEMMA JournalSettlesSound == ASSUME IInv, NEW j \in Jobs, JournalSettles(j) PROVE Sound'
  <1>1. /\ chain[j] # <<>> /\ Head(chain[j]).op # "mark" /\ chain' = [chain EXCEPT ![j] = Tail(@)]
        /\ row' \in {row, [row EXCEPT ![j] = Applied(@, Head(chain[j]))]}
        /\ UNCHANGED <<jobs, status, cancelReq, idleCancels, retries, stopWait, pc, queue, published>>
    BY DEF JournalSettles, CommitHead, DropHead, userVars, runVars, serverVars, printerVars
  <1>2. /\ chain'[j] = Tail(chain[j]) /\ \A k \in Jobs \ {j} : chain'[k] = chain[k] /\ row'[k] = row[k]
        /\ row'[j] \in {row[j], Applied(row[j], Head(chain[j]))}
    BY <1>1 DEF IInv, TypeOK, JournalTypeOK
  <1>3. \A k \in Jobs : (InQueue(k)' <=> InQueue(k)) /\ (AtHead(k)' <=> AtHead(k))
    BY <1>1 DEF InQueue, AtHead
  <1>4. QueueOK' /\ RunOK' /\ UnknownOK'
    BY <1>1, <1>3 DEF IInv, QueueOK, RunOK, UnknownOK, Running
  <1>5. /\ NoMark(chain[j]) => NoMark(chain'[j])
        /\ HarmlessAfterMark(chain[j]) => HarmlessAfterMark(chain'[j])
        /\ Harmless(chain[j]) => /\ Head(chain[j]).op = "status" /\ ~Head(chain[j]).clear
                                 /\ Harmless(chain'[j])
    BY <1>1, <1>2, TailOfChain DEF IInv, TypeOK, JournalTypeOK
  <1>6. MarkOK'
    BY <1>1, <1>2, <1>5 DEF IInv, MarkOK
  <1>7. Harmless(chain[j]) /\ (row[j] = NoRow \/ row[j].attempted) => row'[j] = NoRow \/ row'[j].attempted
    <2> SUFFICES ASSUME Harmless(chain[j]), row[j] = NoRow \/ row[j].attempted, row'[j] # row[j]
                 PROVE  row'[j] = NoRow \/ row'[j].attempted
      OBVIOUS
    <2>1. /\ row'[j] = Applied(row[j], Head(chain[j]))
          /\ Head(chain[j]).op = "status" /\ ~Head(chain[j]).clear
      BY <1>2, <1>5
    <2>2. CASE row[j] = NoRow
      BY <2>1, <2>2 DEF Applied
    <2>3. CASE row[j] # NoRow
      <3>1. row'[j] = [status |-> Head(chain[j]).status,
                       attempted |-> row[j].attempted /\ ~Head(chain[j]).clear]
        BY <2>1, <2>3 DEF Applied
      <3>2. row'[j].attempted = (row[j].attempted /\ ~Head(chain[j]).clear)
        BY <3>1
      <3> QED BY <2>1, <2>3, <3>2, Zenon
    <2> QED BY <2>2, <2>3
  <1>8. BoundaryOK'
    BY <1>1, <1>2, <1>3, <1>5, <1>7 DEF IInv, BoundaryOK, PastBoundary
  <1> QED BY <1>4, <1>6, <1>8 DEF Sound

LEMMA SoundStep == ASSUME IInv, [DispatcherNext]_dispatcherVars PROVE Sound'
  <1>1. CASE \E p \in Printers : Register(p)
    BY <1>1, QuietStep DEF Register, userVars, runVars, printerVars, journalVars, IInv, UnknownOK
  <1>2. CASE Shutdown
    BY <1>2, QuietStep DEF Shutdown, userVars, runVars, printerVars, journalVars, IInv, UnknownOK
  <1>3. CASE UNCHANGED dispatcherVars
    BY <1>3, QuietStep DEF dispatcherVars, userVars, runVars, serverVars, printerVars, journalVars, IInv, UnknownOK
  <1>4. ASSUME NEW j \in Jobs, PrepareDone(j) \/ Retry(j) PROVE Sound'
    BY <1>4, WriteTypes, EnqueuedSound DEF InsertWrite, RearmWrite
  <1> QED BY <1>1, <1>2, <1>3, <1>4, RunStepSound, SubmitSound, LateCancelSound, CancelSound,
             JournalSettlesSound DEF DispatcherNext

-----------------------------------------------------------------------------
(* Type correctness, which needs the rest: a run that ends must be in a queue *)

LEMMA GotoTypes ==
    ASSUME TypeOK, NEW j \in Jobs, NEW w \in Awaits, Goto(j, w)
    PROVE  /\ pc' \in [Jobs -> Awaits] /\ attempt' \in [Jobs -> Nat]
           /\ queue' \in [Printers -> Seq(Jobs)] /\ reserved' \subseteq Printers
  BY DEF Goto, TypeOK

LEMMA EndRunTypes ==
    ASSUME IInv, NEW j \in Jobs, AtHead(j), EndRun(j)
    PROVE  /\ pc' \in [Jobs -> Awaits] /\ attempt' \in [Jobs -> Nat]
           /\ queue' \in [Printers -> Seq(Jobs)] /\ reserved' \subseteq Printers
  BY EndRunFacts DEF EndRun, IInv, TypeOK

LEMMA CaughtTypes ==
    ASSUME IInv, NEW j \in Jobs, Running(j), Caught(j)
    PROVE  /\ pc' \in [Jobs -> Awaits] /\ attempt' \in [Jobs -> Nat]
           /\ queue' \in [Printers -> Seq(Jobs)] /\ reserved' \subseteq Printers
           /\ status' \in [Jobs -> Statuses] /\ chain' \in [Jobs -> Seq(Write)]
  <1>1. CASE cancelReq[j]
    <2>1. Goto(j, "cleanupCaught") /\ status' = status /\ chain' = chain /\ "cleanupCaught" \in Awaits
      BY <1>1 DEF Caught, Awaits
    <2> QED BY <2>1, GotoTypes DEF IInv, TypeOK, JournalTypeOK
  <1>2. CASE ~cancelReq[j]
    BY <1>2, RunningAtHead, EndRunTypes, FinishKeepsChains DEF Caught, IInv, Finished
  <1> QED BY <1>1, <1>2

LEMMA StoredTypes ==
    ASSUME TypeOK, NEW j \in Jobs
    PROVE  /\ Stored(j) \in [Printers -> [Files -> Jobs \cup {NoJob}]]
           /\ Erased(PrinterOf[j], FileOf[j]) \in [Printers -> [Files -> Jobs \cup {NoJob}]]
  BY ConstantsAssumption DEF TypeOK, Stored, Erased

LEMMA ChainTailType ==
    ASSUME TypeOK, NEW j \in Jobs, chain[j] # <<>>
    PROVE  /\ [chain EXCEPT ![j] = Tail(@)] \in [Jobs -> Seq(Write)]
           /\ [row EXCEPT ![j] = Applied(@, Head(chain[j]))] \in [Jobs -> Row \cup {NoRow}]
  <1>1. chain[j] \in Seq(Write) /\ row[j] \in Row \cup {NoRow}
    BY DEF TypeOK, JournalTypeOK
  <1> QED BY <1>1, TailOfChain, AppliedType DEF TypeOK, JournalTypeOK

LEMMA RunStepTypes == ASSUME IInv, NEW j \in Jobs, RunStep(j) PROVE TypeOK'
  <1> DEFINE Run == /\ pc' \in [Jobs -> Awaits] /\ attempt' \in [Jobs -> Nat]
                    /\ queue' \in [Printers -> Seq(Jobs)] /\ reserved' \subseteq Printers
             Told == status' \in [Jobs -> Statuses] /\ chain' \in [Jobs -> Seq(Write)]
  <1>1. ASSUME Run, Told, row' \in [Jobs -> Row \cup {NoRow}],
               sd' \in [Printers -> [Files -> Jobs \cup {NoJob}]], published' \subseteq Jobs,
               UNCHANGED <<jobs, cancelReq, idleCancels, retries, serverVars, lossy>>
        PROVE  TypeOK'
    BY <1>1 DEF IInv, TypeOK, JournalTypeOK, serverVars
  <1>2. ASSUME UNCHANGED <<status, chain>> PROVE Told
    BY <1>2 DEF IInv, TypeOK, JournalTypeOK
  <1>3. ASSUME UNCHANGED printerVars
        PROVE  sd' \in [Printers -> [Files -> Jobs \cup {NoJob}]] /\ published' \subseteq Jobs
    BY <1>3 DEF printerVars, IInv, TypeOK
  <1>4. /\ row \in [Jobs -> Row \cup {NoRow}] /\ published \subseteq Jobs
        /\ sd \in [Printers -> [Files -> Jobs \cup {NoJob}]]
        /\ chain \in [Jobs -> Seq(Write)]
    BY DEF IInv, TypeOK, JournalTypeOK
  <1>5. ASSUME NEW w \in Awaits, Goto(j, w) PROVE Run
    BY <1>5, GotoTypes DEF IInv
  <1>6. CASE StartRun(j)
    <2>1. CASE EndRun(j) /\ UNCHANGED <<status, chain>>
      BY <1>6, <2>1, <1>1, <1>2, <1>3, <1>4, EndRunTypes DEF StartRun
    <2>2. CASE EndRun(j) /\ Finish(j, "failed")
      BY <1>6, <2>2, <1>1, <1>3, <1>4, EndRunTypes, FinishKeepsChains DEF StartRun, IInv, Finished
    <2>3. CASE /\ Goto(j, "artifact")
               /\ status' = [status EXCEPT ![j] = "uploading"]
               /\ chain' = Chained(j, StatusWrite("uploading"))
      <3>1. Run
        BY <2>3, <1>5 DEF Awaits
      <3>2. chain' \in [Jobs -> Seq(Write)]
        BY <2>3, WriteTypes, ChainedHarmless DEF IInv, StatusWrite
      <3>3. status' \in [Jobs -> Statuses]
        BY <2>3 DEF IInv, TypeOK, Statuses, Active
      <3> QED BY <1>6, <3>1, <3>2, <3>3, <1>1, <1>3, <1>4 DEF StartRun
    <2> QED BY <1>6, <2>1, <2>2, <2>3 DEF StartRun
  <1>7. CASE ArtifactReady(j) \/ BackoffEnds(j)
    <2>1. TryUpload(j) /\ UNCHANGED <<userVars, serverVars, printerVars, journalVars, lossy>>
      BY <1>7 DEF ArtifactReady, BackoffEnds
    <2>2. Run
      <3>1. CASE cancelReq[j]
        BY <2>1, <3>1, <1>5 DEF TryUpload, Awaits
      <3>2. CASE ~cancelReq[j]
        <4>1. /\ pc' = [pc EXCEPT ![j] = "transfer"] /\ attempt' = [attempt EXCEPT ![j] = @ + 1]
              /\ UNCHANGED <<reserved, queue>>
          BY <2>1, <3>2 DEF TryUpload
        <4> QED BY <4>1 DEF IInv, TypeOK, Awaits
      <3> QED BY <3>1, <3>2
    <2> QED BY <2>1, <2>2, <1>1, <1>2, <1>3, <1>4 DEF userVars, journalVars
  <1>8. CASE Caught(j) /\ (ArtifactFails(j) \/ UploadFails(j) \/ RecordFails(j) \/ ReserveFails(j) \/ StartFailed(j))
    <2>1. Running(j) /\ UNCHANGED <<jobs, cancelReq, idleCancels, retries, serverVars, row, lossy, published>>
      BY <1>8 DEF ArtifactFails, UploadFails, RecordFails, ReserveFails, StartFailed, Running, printerVars
    <2>2. sd' \in {sd, Stored(j)}
      BY <1>8 DEF ArtifactFails, UploadFails, RecordFails, ReserveFails, StartFailed, printerVars
    <2>3. Run /\ Told
      BY <1>8, <2>1, CaughtTypes
    <2> QED BY <2>1, <2>2, <2>3, <1>1, <1>4, StoredTypes DEF IInv
  <1>9. CASE UploadFails(j) /\ ~Caught(j)
    <2>1. /\ Goto(j, "backoff") /\ sd' \in {sd, Stored(j)}
          /\ UNCHANGED <<status, chain, jobs, cancelReq, idleCancels, retries, serverVars, row, lossy, published>>
      BY <1>9 DEF UploadFails
    <2>2. Run
      BY <2>1, <1>5 DEF Awaits
    <2> QED BY <2>1, <2>2, <1>1, <1>2, <1>4, StoredTypes DEF IInv
  <1>10. CASE UploadDone(j)
    <2>1. Run
      BY <1>10, <1>5 DEF UploadDone, Awaits
    <2>2. status' = status /\ chain' \in {chain, Chained(j, MarkWrite)} /\ sd' = Stored(j)
      BY <1>10 DEF UploadDone, userVars
    <2>3. Chained(j, MarkWrite) \in [Jobs -> Seq(Write)]
      BY <1>4, WriteTypes DEF Chained
    <2>4. Told
      BY <2>2, <2>3, <1>4 DEF IInv, TypeOK
    <2> QED BY <1>10, <2>1, <2>2, <2>4, <1>1, <1>4, StoredTypes DEF UploadDone, IInv, userVars
  <1>11. CASE CleanUp(j)
    <2>1. Run
      BY <1>11, <1>5 DEF CleanUp, Awaits
    <2> QED BY <1>11, <2>1, <1>1, <1>2, <1>4, StoredTypes DEF CleanUp, IInv, userVars, journalVars
  <1>12. CASE EndRun(j) /\ (RecordCancelled(j) \/ Publish(j) \/ StartFailed(j))
    <2>1. Running(j)
      BY <1>12 DEF RecordCancelled, Publish, StartFailed, Running
    <2>2. \E s \in Finished : Finish(j, s)
      <3>1. CASE StartFailed(j) /\ ~Finish(j, "failed")
        <4>1. Goto(j, "cleanupCaught")
          BY <3>1 DEF StartFailed, Caught
        <4> QED BY <1>12, <4>1 DEF Goto, EndRun, IInv, TypeOK
      <3> QED BY <1>12, <3>1 DEF RecordCancelled, Publish, StartFailed, Finished
    <2>3. Run /\ Told
      BY <1>12, <2>1, <2>2, RunningAtHead, EndRunTypes, FinishKeepsChains DEF IInv
    <2>4. sd' = sd /\ published' \in {published, published \cup {j}} /\ row' = row
          /\ UNCHANGED <<jobs, cancelReq, idleCancels, retries, serverVars, lossy>>
      BY <1>12 DEF RecordCancelled, Publish, StartFailed, printerVars
    <2> QED BY <2>3, <2>4, <1>1, <1>4
  <1>13. CASE MarkCommits(j)
    <2>1. Run
      BY <1>13, <1>5 DEF MarkCommits, Awaits
    <2>2. Told /\ row' \in [Jobs -> Row \cup {NoRow}]
      BY <1>13, ChainTailType DEF MarkCommits, CommitHead, IInv, TypeOK, userVars
    <2> QED BY <1>13, <2>1, <2>2, <1>1, <1>3, <1>4 DEF MarkCommits, userVars
  <1>14. CASE MarkRejects(j)
    <2>1. Run
      BY <1>14, RunningAtHead, EndRunTypes DEF MarkRejects, Running
    <2>2. chain[j] # <<>> /\ Tail(chain[j]) \in Seq(Write) /\ StatusWrite("failed") \in Write
      BY <1>14, <1>4, TailOfChain, WriteTypes DEF MarkRejects, Finished
    <2>3. Told
      BY <1>14, <2>2, <1>4 DEF MarkRejects, IInv, TypeOK, Statuses, Finished
    <2>4. row' \in [Jobs -> Row \cup {NoRow}]
      BY <1>14, <1>4, WriteTypes, AppliedType DEF MarkRejects
    <2> QED BY <1>14, <2>1, <2>3, <2>4, <1>1, <1>3, <1>4 DEF MarkRejects
  <1>15. CASE PublishRefused(j)
    <2>1. Run
      BY <1>15, <1>5 DEF PublishRefused, Awaits
    <2> QED BY <1>15, <2>1, <1>1, <1>2, <1>3, <1>4 DEF PublishRefused, userVars, journalVars
  <1> QED BY <1>6, <1>7, <1>8, <1>9, <1>10, <1>11, <1>12, <1>13, <1>14, <1>15
          DEF RunStep, ArtifactFails, RecordFails, ReserveFails, RecordCancelled, Publish, StartFailed

LEMMA EnqueuedTypes ==
    ASSUME TypeOK, NEW j \in Jobs, NEW w \in Write
    PROVE  /\ Enqueued(j) \in [Printers -> Seq(Jobs)]
           /\ Chained(j, w) \in [Jobs -> Seq(Write)]
           /\ [status EXCEPT ![j] = "queued"] \in [Jobs -> Statuses]
  <1>1. PrinterOf[j] \in Printers /\ queue[PrinterOf[j]] \in Seq(Jobs) /\ chain[j] \in Seq(Write)
    BY ConstantsAssumption DEF TypeOK, JournalTypeOK
  <1>2. Append(queue[PrinterOf[j]], j) \in Seq(Jobs) /\ Append(chain[j], w) \in Seq(Write)
    BY <1>1
  <1>3. Enqueued(j) \in [Printers -> Seq(Jobs)]
    BY <1>1, <1>2 DEF Enqueued, TypeOK
  <1>4. Chained(j, w) \in [Jobs -> Seq(Write)]
    BY <1>1, <1>2 DEF Chained, TypeOK, JournalTypeOK
  <1> QED BY <1>3, <1>4 DEF TypeOK, Statuses, Active

LEMMA TypeStep == ASSUME IInv, [DispatcherNext]_dispatcherVars PROVE TypeOK'
  <1>0. TypeOK /\ JournalTypeOK
    BY DEF IInv, TypeOK
  <1>1. ASSUME NEW j \in Jobs, Submit(j) \/ PrepareFails(j) PROVE TypeOK'
    <2>1. reserved' \subseteq Printers /\ pc' \in [Jobs -> Awaits]
      BY <1>0, <1>1, ConstantsAssumption DEF Submit, PrepareFails, TypeOK, Awaits
    <2> QED BY <1>0, <1>1, <2>1 DEF Submit, PrepareFails, TypeOK, JournalTypeOK, userVars, serverVars,
                                   printerVars, journalVars
  <1>2. ASSUME NEW j \in Jobs, PrepareDone(j) PROVE TypeOK'
    <2>1. queue' \in [Printers -> Seq(Jobs)] /\ chain' \in [Jobs -> Seq(Write)] /\ status' \in [Jobs -> Statuses]
      BY <1>0, <1>2, WriteTypes, EnqueuedTypes DEF PrepareDone
    <2>2. pc' \in [Jobs -> Awaits] /\ jobs' \subseteq Jobs /\ reserved' \subseteq Printers
      BY <1>0, <1>2 DEF PrepareDone, Awaits, TypeOK
    <2> QED BY <1>0, <1>2, <2>1, <2>2 DEF PrepareDone, TypeOK, JournalTypeOK, serverVars, printerVars
  <1>3. ASSUME NEW j \in Jobs, Retry(j) PROVE TypeOK'
    <2>1. queue' \in [Printers -> Seq(Jobs)] /\ chain' \in [Jobs -> Seq(Write)] /\ status' \in [Jobs -> Statuses]
      BY <1>0, <1>3, WriteTypes, EnqueuedTypes DEF Retry
    <2>2. cancelReq' \in [Jobs -> BOOLEAN] /\ retries' \in [Jobs -> Nat]
      BY <1>0, <1>3 DEF Retry, TypeOK
    <2> QED BY <1>0, <1>3, <2>1, <2>2 DEF Retry, TypeOK, JournalTypeOK, serverVars, printerVars
  <1>4. ASSUME NEW j \in Jobs, Cancel(j) PROVE TypeOK'
    <2>1. /\ cancelReq' = [cancelReq EXCEPT ![j] = TRUE]
          /\ idleCancels' \in {idleCancels, [idleCancels EXCEPT ![j] = @ + 1]}
      BY <1>4 DEF Cancel
    <2>2. cancelReq' \in [Jobs -> BOOLEAN] /\ idleCancels' \in [Jobs -> Nat]
      BY <1>0, <2>1 DEF TypeOK
    <2> QED BY <1>0, <1>4, <2>2 DEF Cancel, TypeOK, JournalTypeOK, runVars, serverVars, printerVars, journalVars
  <1>5. ASSUME NEW j \in Jobs, IdleCancelDone(j) PROVE TypeOK'
    <2>1. idleCancels' \in [Jobs -> Nat]
      BY <1>0, <1>5 DEF IdleCancelDone, TypeOK
    <2>2. status' \in [Jobs -> Statuses] /\ chain' \in [Jobs -> Seq(Write)]
      BY <1>0, <1>5, FinishKeepsChains DEF IdleCancelDone, Finished
    <2> QED BY <1>0, <1>5, <2>1, <2>2 DEF IdleCancelDone, TypeOK, JournalTypeOK, runVars, serverVars, printerVars
  <1>6. ASSUME NEW j \in Jobs, StopVisit(j) PROVE TypeOK'
    <2>1. cancelReq' \in [Jobs -> BOOLEAN] /\ stopWait' \in Jobs \cup {NoJob} /\ visited' \subseteq Jobs
      BY <1>0, <1>6 DEF StopVisit, TypeOK
    <2> QED BY <1>0, <1>6, <2>1 DEF StopVisit, TypeOK, JournalTypeOK, runVars, printerVars, journalVars
  <1>7. ASSUME NEW j \in Jobs, StopCancelDone(j) PROVE TypeOK'
    <2>1. status' \in [Jobs -> Statuses] /\ chain' \in [Jobs -> Seq(Write)]
      BY <1>0, <1>7, FinishKeepsChains DEF StopCancelDone, Finished
    <2> QED BY <1>0, <1>7, <2>1 DEF StopCancelDone, TypeOK, JournalTypeOK, runVars, printerVars
  <1>8. ASSUME NEW j \in Jobs, JournalSettles(j) PROVE TypeOK'
    <2>1. chain' \in [Jobs -> Seq(Write)] /\ row' \in [Jobs -> Row \cup {NoRow}]
      <3>1. chain[j] # <<>> /\ chain' = [chain EXCEPT ![j] = Tail(@)]
            /\ row' \in {row, [row EXCEPT ![j] = Applied(@, Head(chain[j]))]}
        BY <1>8 DEF JournalSettles, CommitHead, DropHead
      <3> QED BY <1>0, <3>1, ChainTailType DEF JournalTypeOK
    <2>2. lossy' \subseteq Jobs
      BY <1>0, <1>8 DEF JournalSettles, TypeOK
    <2> QED BY <1>0, <1>8, <2>1, <2>2 DEF JournalSettles, TypeOK, JournalTypeOK, userVars, runVars, serverVars, printerVars
  <1>9. CASE (\E p \in Printers : Register(p)) \/ Shutdown \/ UNCHANGED dispatcherVars
    BY <1>0, <1>9 DEF Register, Shutdown, TypeOK, JournalTypeOK, dispatcherVars, userVars, runVars,
                      serverVars, printerVars, journalVars
  <1> QED BY <1>1, <1>2, <1>3, <1>4, <1>5, <1>6, <1>7, <1>8, <1>9, RunStepTypes DEF DispatcherNext

-----------------------------------------------------------------------------
(* Theorems *)

LEMMA InitIInv == ASSUME DispatcherInit PROVE IInv
  <1>1. TypeOK
    BY DEF DispatcherInit, JournalInit, TypeOK, JournalTypeOK, Statuses, Awaits
  <1>2. \A j \in Jobs : ~AtHead(j) /\ ~InQueue(j) /\ ~Running(j)
    <2>1. \A j \in Jobs : queue[PrinterOf[j]] = <<>> /\ pc[j] = "idle"
      BY ConstantsAssumption DEF DispatcherInit
    <2>2. ASSUME NEW j \in Jobs, InQueue(j) PROVE FALSE
      <3>1. Len(queue[PrinterOf[j]]) = 0
        BY <2>1
      <3> QED BY <2>2, <3>1 DEF InQueue
    <2> QED BY <2>1, <2>2 DEF AtHead, Running
  <1>3. QueueOK
    BY DEF DispatcherInit, QueueOK
  <1>4. RunOK /\ UnknownOK
    BY <1>2, ConstantsAssumption DEF DispatcherInit, RunOK, UnknownOK
  <1>5. MarkOK /\ BoundaryOK
    BY DEF DispatcherInit, JournalInit, MarkOK, BoundaryOK, PastBoundary, NoMark, HarmlessAfterMark
  <1> QED BY <1>1, <1>3, <1>4, <1>5 DEF IInv

LEMMA NextIInv == ASSUME IInv, [DispatcherNext]_dispatcherVars PROVE IInv'
  BY TypeStep, SoundStep DEF IInv, Sound

THEOREM DispatcherInvariant == DispatcherSpec => []IInv
  BY InitIInv, NextIInv, PTL DEF DispatcherSpec

\* Type correctness. It rests on the serialization of the runs: only the run
\* at the head of a queue ends.
THEOREM DispatcherTypes == DispatcherSpec => []TypeOK
  <1>1. IInv => TypeOK
    BY DEF IInv
  <1> QED BY <1>1, DispatcherInvariant, PTL

\* The start boundary is write-ahead, for any number of dispatches and
\* retries and in whatever order journal writes settle or are lost.
THEOREM DispatcherStartIsMarked == DispatcherSpec => []StartIsMarked
  <1>1. IInv => StartIsMarked
    BY DEF IInv, TypeOK, BoundaryOK, PastBoundary, StartIsMarked
  <1> QED BY <1>1, DispatcherInvariant, PTL

\* The runs of one printer never overlap (enqueueForPrinter's promise chain).
THEOREM DispatcherRunsSerialized == DispatcherSpec => []RunsSerialized
  <1>1. IInv => RunsSerialized
    BY DEF IInv, RunOK, RunsSerialized, AtHead
  <1> QED BY <1>1, DispatcherInvariant, PTL

LEMMA SentOnce ==
    ASSUME IInv, [DispatcherNext]_dispatcherVars, NEW j \in published, status'[j] = "sent"
    PROVE  status[j] = "sent"
  <1>1. j \in Jobs /\ ~Running(j) /\ status[j] # "none"
    BY HeadInQueue DEF IInv, TypeOK, RunOK, BoundaryOK
  <1>2. ASSUME status[j] # "sent", NEW k \in Jobs, NEW s \in {"failed", "cancelled", "queued", "uploading"},
               status' = [status EXCEPT ![k] = s]
        PROVE  FALSE
    BY <1>1, <1>2 DEF IInv, TypeOK
  <1>3. CASE UNCHANGED status
    BY <1>3
  <1>4. CASE \E k \in Jobs : Publish(k)
    <2>1. PICK k \in Jobs : Publish(k)
      BY <1>4
    <2>2. Running(k) /\ status' = [status EXCEPT ![k] = "sent"]
      BY <2>1 DEF Publish, Finish, Running
    <2> QED BY <1>1, <2>2 DEF IInv, TypeOK
  <1>5. CASE ~(\E k \in Jobs : Publish(k)) /\ status' # status
    <2>1. \E k \in Jobs, s \in {"failed", "cancelled", "queued", "uploading"} :
            status' = [status EXCEPT ![k] = s]
      BY <1>5
         DEF DispatcherNext, RunStep, Submit, PrepareFails, PrepareDone, StartRun, ArtifactReady,
             ArtifactFails, UploadDone, UploadFails, BackoffEnds, CleanUp, RecordCancelled,
             RecordFails, MarkCommits, MarkRejects, ReserveFails, PublishRefused, StartFailed,
             Cancel, IdleCancelDone, Retry, StopVisit, StopCancelDone, JournalSettles, Register,
             Shutdown, Caught, Finish, userVars, dispatcherVars
    <2> QED BY <1>2, <2>1
  <1> QED BY <1>3, <1>4, <1>5

\* A start command goes out at most once per dispatch, however often the
\* dispatch fails, is retried or cancelled.
THEOREM DispatcherStartedOnce == DispatcherSpec => StartedOnce
  <1>1. IInv /\ [DispatcherNext]_dispatcherVars
          => [\A j \in published : status'[j] = "sent" => status[j] = "sent"]_dispatcherVars
    BY SentOnce
  <1> QED BY <1>1, DispatcherInvariant, PTL DEF DispatcherSpec, StartedOnce

=============================================================================
