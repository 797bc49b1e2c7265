---------------------------- MODULE PrinterProofs ----------------------------
(***************************************************************************)
(* Proofs about PrinterManager and PrinterCommands, for any number of      *)
(* bridges, operations, prints, requests and messages under way.           *)
(***************************************************************************)
EXTENDS PrinterManager, PrinterCommands, TLAPS

-----------------------------------------------------------------------------
(* Types *)

LEMMA PresenceSteps ==
    ASSUME PresenceTypeOK, NEW b \in Assignments, NEW p \in Progress, NEW f \in BOOLEAN, NEW up \in BOOLEAN,
           \/ UNCHANGED presenceVars \/ Connect(b) \/ Update(b, f) \/ Remove \/ Forget
           \/ TakeReport(b, p, up) \/ TakeFrame(b, up) \/ TakeOffline(b) \/ Hint(b, up)
           \/ Defer(b) \/ Expire
    PROVE  PresenceTypeOK'
<1>. USE DEF PresenceTypeOK, presenceVars, entryVars, heardVars, Assignments
<1>1. CASE UNCHANGED presenceVars
  BY <1>1
<1>2. CASE Connect(b) \/ Update(b, f)
  BY <1>2 DEF Update, Connect
<1>3. CASE Remove \/ Forget
  BY <1>3 DEF Remove, Forget
<1>4. CASE TakeReport(b, p, up)
  <2>1. /\ disordered' \in BOOLEAN /\ unbacked' \in BOOLEAN
        /\ managed' \in BOOLEAN /\ online' \in BOOLEAN
    BY <1>4 DEF TakeReport, Earlier, Ends, Own, Progress
  <2>2. bridgeId' \in Assignments /\ timer' \in BOOLEAN /\ read' \in Progress
    BY <1>4 DEF TakeReport
  <2>3. stage' \in {"unknown", "idle", "printing"} /\ finished' \in Nat
    BY <1>4 DEF TakeReport
  <2> QED
    BY <2>1, <2>2, <2>3
<1>5. CASE TakeFrame(b, up) \/ TakeOffline(b) \/ Hint(b, up)
  BY <1>5 DEF TakeFrame, TakeOffline, Hint
<1>6. CASE Defer(b) \/ Expire
  BY <1>6 DEF Defer, Expire
<1> QED
  BY <1>1, <1>2, <1>3, <1>4, <1>5, <1>6

\* What the steps make of the other variables.
RestOK ==
    /\ row \in Rows
    /\ op \in [Ops -> Steps]
    /\ overlapped \in BOOLEAN /\ adrift \in BOOLEAN /\ cutShort \in BOOLEAN

WiresOK ==
    /\ session \in [Bridges -> {"none", "live", "hollow"}]
    /\ wire \in [Bridges -> Seq(Messages)] /\ left \in [Bridges -> Seq(Messages)]
    /\ known \subseteq Bridges /\ recalls \subseteq Bridges
    /\ printer \in Progress

LEMMA StepsTyped ==
    /\ Unused \in Steps /\ Done \in Steps
    /\ Bridges \subseteq Assignments /\ NoBridge \in Assignments /\ Assignments \subseteq Rows
    /\ Absent \in Rows /\ Deleted \in Rows
    /\ \A k \in {"start", "edit", "delete", "detach", "recover", "refresh"}, b \in Assignments, s \in Rows,
          a \in {"begun", "read", "written"} : Step(k, b, s, a) \in Steps
BY DEF Unused, Done, Steps, Step, Rows, Assignments

LEMMA TypesBegin == ManagerInit => ManagerTypeOK
<1>. SUFFICES ASSUME ManagerInit PROVE ManagerTypeOK
  OBVIOUS
<1>. USE DEF ManagerInit
<1>1. PresenceTypeOK
  <2>1. read \in Progress
    BY DEF PresenceInit, Progress
  <2> QED
    BY <2>1 DEF PresenceInit, PresenceTypeOK, Assignments
<1>2. RestOK
  <2>1. row \in Rows
    BY StepsTyped DEF Rows
  <2>2. PICK o \in Ops : op = [x \in Ops |-> IF x = o THEN Step("start", NoBridge, NoBridge, "begun") ELSE Unused]
    OBVIOUS
  <2> QED
    BY <2>1, <2>2, StepsTyped DEF RestOK
<1>3. WiresOK
  <2>1. <<>> \in Seq(Messages)
    OBVIOUS
  <2>2. printer \in Progress
    BY DEF Progress
  <2> QED
    BY <2>1, <2>2 DEF WiresOK
<1> QED
  BY <1>1, <1>2, <1>3 DEF RestOK, WiresOK, ManagerTypeOK

\* The operations leave the sessions alone.
LEMMA OpsLeaveWires ==
    ASSUME NEW o \in Ops, Begins(o) \/ Goes(o), ManagerTypeOK
    PROVE  WiresOK'
<1>. USE DEF ManagerTypeOK, WiresOK, sessionVars
<1>1. CASE Goes(o)
  BY <1>1 DEF Goes, EditApply, DeleteApply, StartRead, StartApply, DetachWrite, DetachApply, RecoverCheck, RecoverWrite, RecoverApply,
              RefreshWrite, RefreshApply, Fail
<1>2. ASSUME NEW b, EditWrite(o, b) \/ DeleteWrite(o) \/ DetachRead(o, b) PROVE WiresOK'
  BY <1>2 DEF EditWrite, DeleteWrite, DetachRead
<1>3. ASSUME NEW b \in Bridges, RecoverRead(o, b) PROVE WiresOK'
  BY <1>3 DEF RecoverRead
<1>4. CASE Restart(o)
  <2>1. <<>> \in Seq(Messages)
    OBVIOUS
  <2> QED
    BY <1>4, <2>1 DEF Restart
<1> QED
  BY <1>1, <1>2, <1>3, <1>4 DEF Begins

LEMMA OpsKeepRows ==
    ASSUME NEW o \in Ops, Begins(o) \/ Goes(o), ManagerTypeOK
    PROVE  RestOK'
<1>. USE StepsTyped DEF ManagerTypeOK, RestOK
<1>1. ASSUME NEW b \in Assignments, EditWrite(o, b) PROVE RestOK'
  BY <1>1 DEF EditWrite, Begin, Busy
<1>2. CASE DeleteWrite(o)
  BY <1>2 DEF DeleteWrite, Begin, Busy
<1>3. CASE Restart(o)
  BY <1>3 DEF Restart
<1>4. ASSUME NEW b \in Bridges, DetachRead(o, b) PROVE RestOK'
  BY <1>4 DEF DetachRead, Begin, Busy
<1>5. ASSUME NEW b \in Bridges, RecoverRead(o, b) PROVE RestOK'
  <2>1. CASE Exists(row) /\ row # b
    <3>1. Step("recover", b, row, "read") \in Steps
      OBVIOUS
    <3>2. op' = [op EXCEPT ![o] = Step("recover", b, row, "read")] /\ overlapped' = (overlapped \/ Busy)
      BY <1>5, <2>1 DEF RecoverRead, Begin
    <3>3. row' = row /\ adrift' = adrift /\ cutShort' = cutShort
      BY <1>5 DEF RecoverRead
    <3> QED
      BY <3>1, <3>2, <3>3 DEF Busy
  <2>2. CASE ~(Exists(row) /\ row # b)
    BY <1>5, <2>2 DEF RecoverRead
  <2> QED
    BY <2>1, <2>2
<1>6. CASE EditApply(o) \/ DeleteApply(o) \/ StartApply(o) \/ DetachApply(o) \/ RecoverApply(o) \/ RefreshApply(o)
  BY <1>6 DEF EditApply, DeleteApply, StartApply, DetachApply, RecoverApply, RefreshApply, Over
<1>7. CASE DetachWrite(o) \/ RecoverCheck(o) \/ RecoverWrite(o) \/ RefreshWrite(o)
  <2>1. row' \in Rows
    BY <1>7 DEF DetachWrite, RecoverCheck, RecoverWrite, RefreshWrite, Steps
  <2>2. Reaches(o, "written") \/ Reaches(o, "checked") \/ Over(o)
    BY <1>7 DEF DetachWrite, RecoverCheck, RecoverWrite, RefreshWrite
  <2>3. overlapped' = overlapped /\ adrift' = adrift /\ cutShort' = cutShort
    BY <1>7 DEF DetachWrite, RecoverCheck, RecoverWrite, RefreshWrite
  <2>4. [op[o] EXCEPT !.at = "written"] \in Steps /\ [op[o] EXCEPT !.at = "checked"] \in Steps
    <3>1. op[o] \in Steps
      OBVIOUS
    <3>2. [op[o] EXCEPT !.at = "written"] \in Steps
      BY <3>1 DEF Steps
    <3>3. [op[o] EXCEPT !.at = "checked"] \in Steps
      BY <3>1 DEF Steps
    <3> QED
      BY <3>2, <3>3
  <2> QED
    BY <2>1, <2>2, <2>3, <2>4 DEF Reaches, Over
<1>8. CASE StartRead(o)
  <2>1. Step("start", NoBridge, row, "read") \in Steps
    OBVIOUS
  <2> QED
    BY <1>8, <2>1 DEF StartRead
<1>9. CASE Fail(o)
  BY <1>9 DEF Fail, Over
<1> QED
  BY <1>1, <1>2, <1>3, <1>4, <1>5, <1>6, <1>7, <1>8, <1>9 DEF Begins, Goes

\* What the manager is told by them.
LEMMA OpsTellManager ==
    ASSUME NEW o \in Ops, Begins(o) \/ Goes(o), ManagerTypeOK
    PROVE  \/ UNCHANGED presenceVars \/ Remove \/ Forget
           \/ \E b \in Assignments, f \in BOOLEAN : Update(b, f) \/ Connect(b)
<1>. USE DEF ManagerTypeOK
<1>1. op[o].bridge \in Assignments /\ NoBridge \in Assignments /\ overlapped \in BOOLEAN
      /\ (Exists(op[o].saw) => op[o].saw \in Assignments)
  BY DEF Exists, Assignments, Steps
<1>2. CASE Begins(o)
  BY <1>2 DEF Begins, EditWrite, DeleteWrite, Restart, DetachRead, RecoverRead
<1>3. CASE EditApply(o) \/ RecoverApply(o) \/ RefreshApply(o) \/ DetachApply(o)
  BY <1>1, <1>3 DEF EditApply, RecoverApply, RefreshApply, DetachApply
<1>4. CASE \/ DeleteApply(o) \/ StartRead(o) \/ StartApply(o) \/ DetachWrite(o)
           \/ RecoverCheck(o) \/ RecoverWrite(o) \/ RefreshWrite(o) \/ Fail(o)
  BY <1>1, <1>4 DEF DeleteApply, StartRead, StartApply, DetachWrite, RecoverCheck, RecoverWrite, RefreshWrite, Fail
<1> QED
  BY <1>2, <1>3, <1>4 DEF Goes

LEMMA OpsKeepPresence ==
    ASSUME NEW o \in Ops, Begins(o) \/ Goes(o), ManagerTypeOK
    PROVE  PresenceTypeOK'
<1>. USE DEF ManagerTypeOK
<1>1. CASE UNCHANGED presenceVars
  BY <1>1, PresenceSteps DEF PresenceTypeOK, presenceVars, entryVars, heardVars
<1>2. CASE Remove \/ Forget
  BY <1>2 DEF Remove, Forget, PresenceTypeOK, presenceVars, entryVars, heardVars, Assignments
<1>3. ASSUME NEW b \in Assignments, NEW f \in BOOLEAN, Update(b, f) \/ Connect(b) PROVE PresenceTypeOK'
  BY <1>3 DEF Update, Connect, PresenceTypeOK, presenceVars, entryVars, heardVars
<1> QED
  BY <1>1, <1>2, <1>3, OpsTellManager

\* A message that is read, and what is left to read.
LEMMA HeadAndTail ==
    ASSUME NEW S, NEW q \in Seq(S), q # <<>>
    PROVE  /\ Head(q) \in S /\ Tail(q) \in Seq(S)
           /\ 1 \in 1..Len(q) /\ q[1] = Head(q)
           /\ \A n \in 1..Len(Tail(q)) : n + 1 \in 1..Len(q) /\ Tail(q)[n] = q[n + 1]
OBVIOUS

LEMMA MessageKeepsTypes ==
    ASSUME ManagerTypeOK, NEW b \in Bridges, Receive(b) \/ ReceiveLeft(b)
    PROVE  ManagerTypeOK'
<1>. USE DEF ManagerTypeOK
<1>1. PICK m \in Messages : Handle(b, m)
  <2>1. CASE Receive(b)
    BY <2>1, HeadAndTail DEF Receive
  <2>2. CASE ReceiveLeft(b)
    BY <2>2, HeadAndTail DEF ReceiveLeft
  <2> QED
    BY <2>1, <2>2
<1>2. wire' \in [Bridges -> Seq(Messages)] /\ left' \in [Bridges -> Seq(Messages)]
  <2>1. CASE Receive(b)
    <3>1. wire[b] \in Seq(Messages) /\ wire[b] # <<>>
      BY <2>1 DEF Receive
    <3>2. Tail(wire[b]) \in Seq(Messages)
      BY <3>1, HeadAndTail
    <3> QED
      BY <2>1, <3>2 DEF Receive
  <2>2. CASE ReceiveLeft(b)
    <3>1. left[b] \in Seq(Messages) /\ left[b] # <<>>
      BY <2>2 DEF ReceiveLeft
    <3>2. Tail(left[b]) \in Seq(Messages)
      BY <3>1, HeadAndTail
    <3> QED
      BY <2>2, <3>2 DEF ReceiveLeft
  <2> QED
    BY <2>1, <2>2
<1>3. b \in Assignments /\ Up(b) \in BOOLEAN /\ m.says \in Progress
  BY DEF Assignments, Up, Messages
<1>4. PresenceTypeOK'
  <2>1. CASE Sight(b)
    BY <1>3, <2>1, PresenceSteps DEF Sight
  <2> QED
    BY <1>1, <1>3, <2>1, PresenceSteps DEF Handle
<1>5. RestOK' /\ known' \subseteq Bridges /\ recalls' \subseteq Bridges
  <2>1. CASE Sight(b)
    <3>1. row' = row /\ adrift' = adrift /\ cutShort' = cutShort
      BY <1>1 DEF Handle
    <3>2. (overlapped \/ Busy) \in BOOLEAN
      BY DEF Busy
    <3>3. Step("refresh", b, NoBridge, "read") \in Steps
      BY <1>3, StepsTyped
    <3>4. \/ op' = op /\ overlapped' = overlapped
          \/ /\ \E o \in Ops : op' = [op EXCEPT ![o] = Step("refresh", b, NoBridge, "read")]
             /\ overlapped' = (overlapped \/ Busy)
      BY <2>1 DEF Sight, Begin
    <3>5. known' \subseteq Bridges /\ recalls' \subseteq Bridges
      BY <2>1 DEF Sight
    <3> QED
      BY <3>1, <3>2, <3>3, <3>4, <3>5 DEF RestOK
  <2> QED
    BY <1>1, <2>1 DEF Handle, RestOK
<1> QED
  BY <1>1, <1>2, <1>4, <1>5 DEF Handle, RestOK

LEMMA TypesKept ==
    ASSUME ManagerTypeOK, [ManagerNext]_vars
    PROVE  ManagerTypeOK'
<1>1. ASSUME NEW o \in Ops, Begins(o) \/ Goes(o) PROVE ManagerTypeOK'
  BY <1>1, OpsLeaveWires, OpsKeepRows, OpsKeepPresence DEF ManagerTypeOK, WiresOK, RestOK
<1>2. ASSUME NEW b \in Bridges, Receive(b) \/ ReceiveLeft(b) PROVE ManagerTypeOK'
  BY <1>2, MessageKeepsTypes
<1>3. ASSUME NEW b \in Bridges, SessionBegins(b) \/ LeftEnds(b) PROVE ManagerTypeOK'
  <2>1. PresenceTypeOK'
    BY <1>3 DEF SessionBegins, LeftEnds, ManagerTypeOK, PresenceTypeOK, presenceVars, entryVars, heardVars
  <2>2. <<>> \in Seq(Messages)
    OBVIOUS
  <2>3. CASE SessionBegins(b)
    BY <2>1, <2>2, <2>3 DEF SessionBegins, ManagerTypeOK, rowVars
  <2>4. CASE LeftEnds(b)
    BY <2>1, <2>2, <2>4 DEF LeftEnds, ManagerTypeOK, rowVars
  <2> QED
    BY <1>3, <2>3, <2>4
<1>4. ASSUME NEW b \in Bridges, SessionEnds(b) PROVE ManagerTypeOK'
  <2>1. PresenceTypeOK'
    BY <1>4 DEF SessionEnds, Defer, ManagerTypeOK, PresenceTypeOK, presenceVars, entryVars, heardVars, Assignments
  <2> QED
    BY <1>4, <2>1 DEF SessionEnds, ManagerTypeOK, rowVars
<1>5. ASSUME NEW b \in Bridges, Send(b) PROVE ManagerTypeOK'
  <2>1. \A kind \in Kinds : Sent(kind) \in Messages
    BY DEF Sent, Messages, ManagerTypeOK, Progress
  <2> QED
    BY <1>5, <2>1 DEF Send, ManagerTypeOK, PresenceTypeOK, presenceVars, entryVars, heardVars, rowVars
<1>6. CASE PrinterGoes
  <2>1. printer' \in Progress
    <3>1. printer \in Progress
      BY DEF ManagerTypeOK
    <3>2. CASE printer' = [printer EXCEPT !.printing = TRUE]
      BY <3>1, <3>2 DEF Progress
    <3>3. CASE printer' = [ended |-> printer.ended + 1, printing |-> FALSE]
      BY <3>1, <3>3 DEF Progress
    <3> QED
      BY <1>6, <3>2, <3>3 DEF PrinterGoes
  <2> QED
    BY <1>6, <2>1 DEF PrinterGoes, ManagerTypeOK, PresenceTypeOK, presenceVars, entryVars, heardVars, rowVars,
                      sessionVars
<1>7. CASE OfflineTimer
  BY <1>7 DEF OfflineTimer, Expire, ManagerTypeOK, PresenceTypeOK, heardVars, rowVars, sessionVars, Assignments
<1>8. CASE UNCHANGED vars
  BY <1>8 DEF vars, ManagerTypeOK, PresenceTypeOK, presenceVars, entryVars, heardVars, rowVars, sessionVars
<1> QED
  BY <1>1, <1>2, <1>3, <1>4, <1>5, <1>6, <1>7, <1>8 DEF ManagerNext

\* ManagerTypeOK for every number of bridges and operations: what the manager, the
\* row and the sessions hold stays what the code keeps there.
THEOREM ManagerTypes == ManagerSpec => []ManagerTypeOK
<1>1. ManagerInit => ManagerTypeOK
  BY TypesBegin
<1>2. ManagerTypeOK /\ [ManagerNext]_vars => ManagerTypeOK'
  BY TypesKept
<1> QED
  BY <1>1, <1>2, PTL DEF ManagerSpec

-----------------------------------------------------------------------------
(* What reaches the manager on the sessions *)

LEMMA MessagesTaken ==
    ASSUME ManagerTypeOK, NEW b \in Bridges, Receive(b) \/ ReceiveLeft(b)
    PROVE  \E m \in Messages :
             /\ Handle(b, m)
             /\ \/ wire[b] # <<>> /\ m = wire[b][1] /\ 1 \in 1..Len(wire[b])
                \/ left[b] # <<>> /\ m = left[b][1] /\ 1 \in 1..Len(left[b])
             /\ \/ UNCHANGED presenceVars
                \/ TakeReport(b, m.says, Up(b)) \/ TakeFrame(b, Up(b)) \/ TakeOffline(b) \/ Hint(b, Up(b))
<1>. USE DEF ManagerTypeOK
<1>1. CASE Receive(b)
  <2>1. wire[b] \in Seq(Messages) /\ wire[b] # <<>>
    BY <1>1 DEF Receive
  <2>2. Handle(b, Head(wire[b]))
    BY <1>1 DEF Receive
  <2> QED
    BY <2>1, <2>2, HeadAndTail DEF Handle, Sight
<1>2. CASE ReceiveLeft(b)
  <2>1. left[b] \in Seq(Messages) /\ left[b] # <<>>
    BY <1>2 DEF ReceiveLeft
  <2>2. Handle(b, Head(left[b]))
    BY <1>2 DEF ReceiveLeft
  <2> QED
    BY <2>1, <2>2, HeadAndTail DEF Handle, Sight
<1> QED
  BY <1>1, <1>2

-----------------------------------------------------------------------------
(* Outages *)

LEMMA OutageKept ==
    ASSUME ManagerTypeOK, OutageNoticed, [ManagerNext]_vars
    PROVE  OutageNoticed'
<1>. USE DEF OutageNoticed, Up
<1>1. CASE UNCHANGED <<presenceVars, session>>
  BY <1>1 DEF presenceVars, entryVars, heardVars
<1>2. ASSUME NEW o \in Ops, Begins(o) \/ Goes(o) PROVE OutageNoticed'
  <2>1. CASE Restart(o)
    BY <2>1 DEF Restart, Forget
  <2>2. CASE ~Restart(o)
    <3>1. session' = session
      BY <1>2, <2>2 DEF Begins, Goes, EditWrite, EditApply, DeleteWrite, DeleteApply, DetachRead, DetachWrite,
            DetachApply, RecoverRead, RecoverCheck, RecoverWrite, RecoverApply, RefreshWrite, RefreshApply, StartRead, StartApply,
            Fail, sessionVars
    <3>2. CASE Remove \/ Forget
      BY <3>1, <3>2 DEF Remove, Forget, presenceVars, entryVars, heardVars
    <3>3. ASSUME NEW b \in Assignments, NEW f \in BOOLEAN, Update(b, f) \/ Connect(b) PROVE OutageNoticed'
      BY <3>1, <3>3 DEF Update, Connect, presenceVars, entryVars, heardVars
    <3> QED
      BY <1>1, <1>2, <3>1, <3>2, <3>3, OpsTellManager
  <2> QED
    BY <2>1, <2>2
<1>3. ASSUME NEW b \in Bridges, SessionBegins(b) PROVE OutageNoticed'
  BY <1>3 DEF SessionBegins, ManagerTypeOK, presenceVars, entryVars, heardVars
<1>4. ASSUME NEW b \in Bridges, SessionEnds(b) PROVE OutageNoticed'
  BY <1>4, BridgesAssumption DEF SessionEnds, Defer, Own, ManagerTypeOK, presenceVars, entryVars, heardVars
<1>5. ASSUME NEW b \in Bridges, LeftEnds(b) \/ Send(b) PROVE OutageNoticed'
  BY <1>1, <1>5 DEF LeftEnds, Send
<1>6. ASSUME NEW b \in Bridges, Receive(b) \/ ReceiveLeft(b) PROVE OutageNoticed'
  <2>1. session' = session
    BY <1>6 DEF Receive, ReceiveLeft, Handle
  <2>2. PICK m \in Messages :
            \/ UNCHANGED presenceVars
            \/ TakeReport(b, m.says, Up(b)) \/ TakeFrame(b, Up(b)) \/ TakeOffline(b) \/ Hint(b, Up(b))
    BY <1>6, MessagesTaken
  <2> QED
    BY <2>1, <2>2 DEF TakeReport, TakeFrame, TakeOffline, Hint, Own, presenceVars, entryVars, heardVars
<1>7. CASE PrinterGoes
  BY <1>1, <1>7 DEF PrinterGoes, sessionVars
<1>8. CASE OfflineTimer
  BY <1>8 DEF OfflineTimer, Expire
<1>9. CASE UNCHANGED vars
  BY <1>1, <1>9 DEF vars, sessionVars
<1> QED
  BY <1>2, <1>3, <1>4, <1>5, <1>6, <1>7, <1>8, <1>9 DEF ManagerNext

\* OutageNoticed for every number of bridges, operations and messages: a printer
\* is not left online, with nothing armed, when its bridge's session has ended.
THEOREM OutagesNoticed == ManagerSpec => []OutageNoticed
<1>1. ManagerInit => OutageNoticed
  BY DEF ManagerInit, PresenceInit, OutageNoticed
<1>2. ManagerTypeOK /\ OutageNoticed /\ [ManagerNext]_vars => OutageNoticed'
  BY OutageKept
<1> QED
  BY <1>1, <1>2, ManagerTypes, PTL DEF ManagerSpec

-----------------------------------------------------------------------------
(* The row and the manager's entry *)

Agrees ==
    /\ managed <=> Exists(row)
    /\ managed /\ ~adrift => bridgeId = row

\* Unless it was not told of what was written last.
Settled == cutShort \/ Agrees

\* What the only operation that is under way knows.
Knows(o) ==
    \/ At(o, "start", "begun") /\ ~managed
    \/ At(o, "start", "read") /\ op[o].saw = row /\ ~managed
    \/ At(o, "edit", "written") /\ op[o].bridge = row
    \/ At(o, "delete", "written") /\ row = Deleted
    \/ At(o, "detach", "read") /\ Settled /\ (op[o].saw = op[o].bridge <=> row = op[o].bridge)
    \/ At(o, "detach", "written") /\ IF op[o].saw = op[o].bridge THEN row = NoBridge ELSE Settled
    \/ (At(o, "recover", "read") \/ At(o, "recover", "checked")) /\ Settled /\ op[o].saw = row /\ Exists(row)
    \/ At(o, "recover", "written") /\ op[o].bridge = row
    \/ At(o, "refresh", "read") /\ Settled
    \/ At(o, "refresh", "written") /\ Settled /\ op[o].bridge = row

Sole(o) == Knows(o) /\ \A x \in Ops : Pending(x) => x = o

RowInv == ~overlapped => (~Busy /\ Settled) \/ \E o \in Ops : Sole(o)

\* An operation begins when none is under way, and ends the only one.
LEMMA Beginning ==
    ASSUME ManagerTypeOK, NEW o \in Ops, NEW s \in Steps, ~Busy, op' = [op EXCEPT ![o] = s]
    PROVE  op'[o] = s /\ \A x \in Ops : Pending(x)' => x = o
BY DEF Busy, Pending, ManagerTypeOK

LEMMA Ending ==
    ASSUME ManagerTypeOK, NEW o \in Ops, Sole(o), Over(o)
    PROVE  ~Busy'
BY DEF Sole, Over, Busy, Pending, ManagerTypeOK, Done, Unused

LEMMA Reaching ==
    ASSUME ManagerTypeOK, NEW o \in Ops, Sole(o), NEW a, Reaches(o, a)
    PROVE  /\ op'[o].kind = op[o].kind /\ op'[o].bridge = op[o].bridge /\ op'[o].saw = op[o].saw
           /\ op'[o].at = a
           /\ \A x \in Ops : Pending(x)' => x = o
<1>1. op[o] \in Steps /\ op' = [op EXCEPT ![o] = [op[o] EXCEPT !.at = a]]
  BY DEF Reaches, ManagerTypeOK
<1>2. op'[o] = [op[o] EXCEPT !.at = a] /\ \A x \in Ops : x # o => op'[x] = op[x]
  BY <1>1 DEF ManagerTypeOK
<1> QED
  BY <1>1, <1>2 DEF Sole, Pending, Steps

\* What leaves the row, the entry and the operations as they are.
LEMMA RowStands ==
    ASSUME RowInv, UNCHANGED <<rowVars, managed, bridgeId>>
    PROVE  RowInv'
BY DEF RowInv, rowVars, Busy, Pending, Settled, Agrees, Sole, Knows, At

\* The manager agrees with the row it has just been given.
LEMMA Updated ==
    ASSUME NEW b, NEW f, b \in Assignments, row' = b, Update(b, f), adrift' = FALSE
    PROVE  Agrees'
BY DEF Agrees, Update, Connect, Exists, presenceVars, entryVars

LEMMA OpsBeginKnowing ==
    ASSUME ManagerTypeOK, RowInv, NEW o \in Ops, Begins(o)
    PROVE  RowInv'
<1>. USE StepsTyped
<1>1. ASSUME NEW b \in Assignments, EditWrite(o, b) PROVE RowInv'
  <2>1. SUFFICES ASSUME ~overlapped' PROVE Sole(o)'
    BY DEF RowInv
  <2>2. ~Busy /\ op' = [op EXCEPT ![o] = Step("edit", b, NoBridge, "written")]
    BY <1>1, <2>1 DEF EditWrite, Begin
  <2>3. op'[o] = Step("edit", b, NoBridge, "written") /\ \A x \in Ops : Pending(x)' => x = o
    BY <2>2, Beginning
  <2> QED
    BY <1>1, <2>3 DEF Sole, Knows, At, Step, EditWrite
<1>2. CASE DeleteWrite(o)
  <2>1. SUFFICES ASSUME ~overlapped' PROVE Sole(o)'
    BY DEF RowInv
  <2>2. ~Busy /\ op' = [op EXCEPT ![o] = Step("delete", NoBridge, NoBridge, "written")]
    BY <1>2, <2>1 DEF DeleteWrite, Begin
  <2>3. op'[o] = Step("delete", NoBridge, NoBridge, "written") /\ \A x \in Ops : Pending(x)' => x = o
    BY <2>2, Beginning
  <2> QED
    BY <1>2, <2>3 DEF Sole, Knows, At, Step, DeleteWrite
<1>3. CASE Restart(o)
  <2>1. op'[o] = Step("start", NoBridge, NoBridge, "begun") /\ managed' = FALSE
    BY <1>3 DEF Restart, Forget
  <2>2. \A x \in Ops : Pending(x)' => x = o
    BY <1>3 DEF Restart, Pending, Unused, Done
  <2> QED
    BY <2>1, <2>2 DEF RowInv, Sole, Knows, At, Step
<1>4. ASSUME NEW b \in Bridges, DetachRead(o, b) PROVE RowInv'
  <2>. DEFINE saw == IF row = b THEN b ELSE NoBridge
  <2>1. SUFFICES ASSUME ~overlapped' PROVE Sole(o)'
    BY DEF RowInv
  <2>2. ~Busy /\ ~overlapped /\ op' = [op EXCEPT ![o] = Step("detach", b, saw, "read")]
    BY <1>4, <2>1 DEF DetachRead, Begin
  <2>3. Settled
    BY <2>2 DEF RowInv, Sole, Knows, At, Busy, Pending
  <2>4. saw \in Rows
    OBVIOUS
  <2>5. op'[o] = Step("detach", b, saw, "read") /\ \A x \in Ops : Pending(x)' => x = o
    BY <2>2, <2>4, Beginning
  <2>6. Settled' /\ row' = row
    BY <1>4, <2>3 DEF DetachRead, Settled, Agrees, presenceVars, entryVars
  <2>7. saw = b <=> row = b
    BY BridgesAssumption
  <2> QED
    BY <2>5, <2>6, <2>7 DEF Sole, Knows, At, Step
<1>5. ASSUME NEW b \in Bridges, RecoverRead(o, b) PROVE RowInv'
  <2>1. CASE ~(Exists(row) /\ row # b)
    BY <1>5, <2>1, RowStands DEF RecoverRead, rowVars, presenceVars, entryVars
  <2>2. CASE Exists(row) /\ row # b
    <3>1. SUFFICES ASSUME ~overlapped' PROVE Sole(o)'
      BY DEF RowInv
    <3>2. ~Busy /\ ~overlapped /\ op' = [op EXCEPT ![o] = Step("recover", b, row, "read")]
      BY <1>5, <2>2, <3>1 DEF RecoverRead, Begin
    <3>3. Settled
      BY <3>2 DEF RowInv, Sole, Knows, At, Busy, Pending
    <3>4. row \in Rows
      BY DEF ManagerTypeOK
    <3>5. op'[o] = Step("recover", b, row, "read") /\ \A x \in Ops : Pending(x)' => x = o
      BY <3>2, <3>4, Beginning
    <3>6. Settled' /\ row' = row
      BY <1>5, <3>3 DEF RecoverRead, Settled, Agrees, presenceVars, entryVars
    <3> QED
      BY <2>2, <3>5, <3>6 DEF Sole, Knows, At, Step, Exists
  <2> QED
    BY <2>1, <2>2
<1> QED
  BY <1>1, <1>2, <1>3, <1>4, <1>5 DEF Begins

LEMMA OpsGoOnKnowing ==
    ASSUME ManagerTypeOK, RowInv, NEW o \in Ops, Goes(o)
    PROVE  RowInv'
<1>1. SUFFICES ASSUME ~overlapped' PROVE (~Busy /\ Settled)' \/ Sole(o)'
  BY DEF RowInv
<1>2. ~overlapped /\ Pending(o)
  <2>1. CASE EditApply(o) \/ DeleteApply(o) \/ StartRead(o) \/ StartApply(o)
    <3>1. overlapped' = overlapped
      BY <2>1 DEF EditApply, DeleteApply, StartRead, StartApply
    <3> QED
      BY <1>1, <2>1, <3>1 DEF EditApply, DeleteApply, StartRead, StartApply, At, Pending
  <2>2. CASE DetachApply(o)
    <3>1. overlapped' = overlapped /\ op[o].at = "written"
      BY <2>2 DEF DetachApply, At
    <3> QED
      BY <1>1, <3>1 DEF Pending
  <2>3. CASE RecoverApply(o) \/ RefreshApply(o)
    <3>1. overlapped' = overlapped /\ op[o].at = "written"
      BY <2>3 DEF RecoverApply, RefreshApply, At
    <3> QED
      BY <1>1, <3>1 DEF Pending
  <2>4. CASE DetachWrite(o) \/ RecoverCheck(o) \/ RecoverWrite(o) \/ RefreshWrite(o)
    BY <1>1, <2>4 DEF DetachWrite, RecoverCheck, RecoverWrite, RefreshWrite, At, Pending
  <2>5. CASE Fail(o)
    BY <1>1, <2>5 DEF Fail
  <2> QED
    BY <2>1, <2>2, <2>3, <2>4, <2>5 DEF Goes
<1>3. Sole(o)
  BY <1>2 DEF RowInv, Sole, Busy
<1>4. Knows(o) /\ op[o].bridge \in Assignments /\ NoBridge \in Assignments
  BY <1>3, StepsTyped DEF Sole, ManagerTypeOK, Steps
<1>5. CASE EditApply(o)
  <2>1. op[o].bridge = row
    BY <1>4, <1>5 DEF EditApply, Knows, At
  <2> QED
    BY <1>3, <1>4, <1>5, <2>1, Ending, Updated DEF EditApply, Settled
<1>6. CASE DeleteApply(o)
  <2>1. row = Deleted
    BY <1>4, <1>6 DEF DeleteApply, Knows, At
  <2>2. ~managed' /\ row' = row
    BY <1>6 DEF DeleteApply, Remove, presenceVars, entryVars
  <2> QED
    BY <1>3, <1>6, <2>1, <2>2, Ending, ManagerAssumption DEF DeleteApply, Settled, Agrees, Exists
<1>7. CASE StartApply(o)
  <2>1. op[o].saw = row /\ ~managed
    BY <1>4, <1>7 DEF StartApply, Knows, At
  <2>2. Agrees'
    BY <1>7, <2>1 DEF StartApply, Agrees, Exists, Connect, presenceVars, entryVars
  <2> QED
    BY <1>3, <1>7, <2>2, Ending DEF StartApply, Settled
<1>8. CASE DetachWrite(o)
  <2>1. Settled /\ (op[o].saw = op[o].bridge <=> row = op[o].bridge)
    BY <1>4, <1>8 DEF DetachWrite, Knows, At
  <2>2. row # op[o].bridge => row' = row /\ Settled'
    BY <1>8, <2>1 DEF DetachWrite, Settled, Agrees, presenceVars, entryVars
  <2>3. row = op[o].bridge => row' = NoBridge
    BY <1>8 DEF DetachWrite
  <2>4. op[o].kind = "detach" /\ Reaches(o, "written")
    BY <1>8 DEF DetachWrite, At
  <2> QED
    BY <1>3, <2>1, <2>2, <2>3, <2>4, Reaching DEF Sole, Knows, At
<1>9. CASE DetachApply(o)
  <2>1. IF op[o].saw = op[o].bridge THEN row = NoBridge ELSE Settled
    BY <1>4, <1>9 DEF DetachApply, Knows, At
  <2>2. CASE op[o].saw = op[o].bridge
    BY <1>3, <1>4, <1>9, <2>1, <2>2, Ending, Updated DEF DetachApply, Settled
  <2>3. CASE op[o].saw # op[o].bridge
    BY <1>3, <1>9, <2>1, <2>3, Ending DEF DetachApply, Settled, Agrees, presenceVars, entryVars
  <2> QED
    BY <2>2, <2>3
<1>10. CASE RecoverCheck(o)
  <2>1. Settled /\ op[o].saw = row /\ Exists(row)
    BY <1>4, <1>10 DEF RecoverCheck, Knows, At
  <2>2. Settled' /\ row' = row
    BY <1>10, <2>1 DEF RecoverCheck, Settled, Agrees, presenceVars, entryVars
  <2>3. CASE Reaches(o, "checked")
    <3>1. op[o].kind = "recover"
      BY <1>10 DEF RecoverCheck, At
    <3> QED
      BY <1>3, <2>1, <2>2, <2>3, <3>1, Reaching DEF Sole, Knows, At, Exists
  <2>4. CASE Over(o)
    BY <1>3, <2>2, <2>4, Ending
  <2> QED
    BY <1>10, <2>3, <2>4 DEF RecoverCheck
<1>11. CASE RecoverWrite(o)
  <2>1. Reaches(o, "written") /\ row' = op[o].bridge /\ op[o].kind = "recover"
    BY <1>4, <1>11 DEF RecoverWrite, Knows, At
  <2> QED
    BY <1>3, <2>1, Reaching DEF Sole, Knows, At
<1>12. CASE StartRead(o)
  <2>1. ~managed' /\ row' = row
    BY <1>4, <1>12 DEF StartRead, Knows, At, presenceVars, entryVars
  <2>2. op'[o] = Step("start", NoBridge, row, "read") /\ \A x \in Ops : Pending(x)' => x = o
    BY <1>3, <1>12 DEF StartRead, Sole, Pending, ManagerTypeOK
  <2> QED
    BY <2>1, <2>2 DEF Sole, Knows, At, Step
<1>13. CASE RecoverApply(o)
  <2>1. op[o].bridge = row
    BY <1>4, <1>13 DEF RecoverApply, Knows, At
  <2> QED
    BY <1>3, <1>4, <1>13, <2>1, Ending, Updated DEF RecoverApply, Settled
<1>14. CASE RefreshWrite(o)
  <2>1. Settled
    BY <1>4, <1>14 DEF RefreshWrite, Knows, At
  <2>2. Settled' /\ row' = row
    BY <1>14, <2>1 DEF RefreshWrite, Settled, Agrees, presenceVars, entryVars
  <2>3. CASE row = op[o].bridge
    <3>1. Reaches(o, "written") /\ op[o].kind = "refresh"
      BY <1>14, <2>3 DEF RefreshWrite, At
    <3> QED
      BY <1>3, <2>2, <2>3, <3>1, Reaching DEF Sole, Knows, At
  <2>4. CASE row # op[o].bridge
    BY <1>3, <1>14, <2>2, <2>4, Ending DEF RefreshWrite
  <2> QED
    BY <2>3, <2>4
<1>15. CASE RefreshApply(o)
  <2>1. op[o].bridge = row
    BY <1>4, <1>15 DEF RefreshApply, Knows, At
  <2>2. managed' /\ adrift' /\ row' \in Assignments
    BY <1>4, <1>15, <2>1 DEF RefreshApply, Update, Connect
  <2> QED
    BY <1>3, <1>15, <2>2, Ending DEF RefreshApply, Settled, Agrees, Exists
<1>16. CASE Fail(o)
  <2>1. Settled \/ cutShort'
    BY <1>4, <1>16 DEF Knows, At, Fail
  <2>2. Settled'
    BY <1>16, <2>1 DEF Fail, Settled, Agrees, presenceVars, entryVars
  <2> QED
    BY <1>3, <1>16, <2>2, Ending DEF Fail
<1> QED
  BY <1>5, <1>6, <1>7, <1>8, <1>9, <1>10, <1>11, <1>12, <1>13, <1>14, <1>15, <1>16 DEF Goes

LEMMA RowKept ==
    ASSUME ManagerTypeOK, RowInv, [ManagerNext]_vars
    PROVE  RowInv'
<1>1. ASSUME NEW o \in Ops, Begins(o) \/ Goes(o) PROVE RowInv'
  BY <1>1, OpsBeginKnowing, OpsGoOnKnowing
<1>2. ASSUME NEW b \in Bridges, Receive(b) \/ ReceiveLeft(b) PROVE RowInv'
  <2>1. PICK m \in Messages :
            /\ Handle(b, m)
            /\ \/ UNCHANGED presenceVars
               \/ TakeReport(b, m.says, Up(b)) \/ TakeFrame(b, Up(b)) \/ TakeOffline(b) \/ Hint(b, Up(b))
    BY <1>2, MessagesTaken
  <2>2. UNCHANGED <<row, adrift, cutShort, managed, bridgeId>>
    BY <2>1 DEF Handle, TakeReport, TakeFrame, TakeOffline, Hint, presenceVars, entryVars
  <2>3. CASE UNCHANGED <<op, overlapped>>
    BY <2>2, <2>3, RowStands DEF rowVars
  <2>4. ASSUME NEW o \in Ops, Begin(o, Step("refresh", b, NoBridge, "read")), overlapped' = (overlapped \/ Busy)
        PROVE  RowInv'
    <3>1. SUFFICES ASSUME ~overlapped' PROVE Sole(o)'
      BY DEF RowInv
    <3>2. ~Busy /\ ~overlapped /\ op' = [op EXCEPT ![o] = Step("refresh", b, NoBridge, "read")]
      BY <2>4, <3>1 DEF Begin
    <3>3. Settled'
      BY <2>2, <3>2 DEF RowInv, Sole, Knows, At, Busy, Pending, Settled, Agrees
    <3>4. op'[o] = Step("refresh", b, NoBridge, "read") /\ \A x \in Ops : Pending(x)' => x = o
      BY <3>2, Beginning, StepsTyped
    <3> QED
      BY <3>3, <3>4 DEF Sole, Knows, At, Step
  <2> QED
    BY <2>1, <2>3, <2>4 DEF Handle, Sight
<1>3. ASSUME NEW b \in Bridges, SessionBegins(b) \/ SessionEnds(b) \/ LeftEnds(b) \/ Send(b) PROVE RowInv'
  BY <1>3, RowStands DEF SessionBegins, SessionEnds, Defer, LeftEnds, Send, presenceVars, entryVars, heardVars
<1>4. CASE PrinterGoes \/ OfflineTimer \/ UNCHANGED vars
  BY <1>4, RowStands DEF PrinterGoes, OfflineTimer, Expire, vars, presenceVars, entryVars, heardVars
<1> QED
  BY <1>1, <1>2, <1>3, <1>4 DEF ManagerNext

LEMMA RowBegins == ManagerInit => RowInv
<1>. SUFFICES ASSUME ManagerInit PROVE RowInv
  OBVIOUS
<1>1. PICK o \in Ops : op = [x \in Ops |-> IF x = o THEN Step("start", NoBridge, NoBridge, "begun") ELSE Unused]
  BY DEF ManagerInit
<1>2. \A x \in Ops : Pending(x) => x = o
  BY <1>1 DEF Pending, Unused
<1>3. Knows(o)
  BY <1>1 DEF Knows, At, Step, ManagerInit, PresenceInit
<1> QED
  BY <1>2, <1>3 DEF RowInv, Sole

\* RowFollowed for every number of bridges and operations: when operations have
\* taken their turns, and none has failed before it told the manager, which no other
\* has done since, the manager has the printers that have rows, for their bridges.
THEOREM RowsFollowed == ManagerSpec => []RowFollowed
<1>1. ManagerInit => RowInv
  BY RowBegins
<1>2. ManagerTypeOK /\ RowInv /\ [ManagerNext]_vars => RowInv'
  BY RowKept
<1>3. RowInv => RowFollowed
  BY DEF RowInv, RowFollowed, Settled, Agrees, Sole, Knows, At, Busy, Pending
<1> QED
  BY <1>1, <1>2, <1>3, ManagerTypes, PTL DEF ManagerSpec

\* RecoveryTakesOrphans for every number of bridges and operations: a recovery does
\* not decide to take what another connected bridge has.
THEOREM RecoveriesTakeOrphans == ManagerSpec => RecoveryTakesOrphans
<1>1. ManagerInit => RowInv
  BY RowBegins
<1>2. ManagerTypeOK /\ RowInv /\ [ManagerNext]_vars => RowInv'
  BY RowKept
<1>3. ManagerTypeOK /\ RowInv /\ [ManagerNext]_vars =>
        [\A o \in Ops : RecoverCheck(o) /\ op'[o].at = "checked" /\ ~overlapped =>
            row = NoBridge \/ (row \in Bridges /\ session[row] = "none")]_vars
  <2>1. SUFFICES ASSUME ManagerTypeOK, RowInv, NEW o \in Ops, RecoverCheck(o), op'[o].at = "checked", ~overlapped
                 PROVE  row = NoBridge \/ (row \in Bridges /\ session[row] = "none")
    OBVIOUS
  <2>2. Sole(o)
    BY <2>1 DEF RowInv, Sole, Busy, Pending, At, RecoverCheck
  <2>3. op[o].saw = row
    BY <2>1, <2>2 DEF Sole, Knows, At, RecoverCheck
  <2>4. Orphan(op[o].saw, op[o].bridge)
    BY <2>1 DEF RecoverCheck, Over, Done, Unused, ManagerTypeOK
  <2> QED
    BY <2>3, <2>4 DEF Orphan
<1> QED
  BY <1>1, <1>2, <1>3, ManagerTypes, PTL DEF ManagerSpec, RecoveryTakesOrphans

-----------------------------------------------------------------------------
(* What has been heard of the printer *)

\* It is not of the future.
Past(p) == ~Earlier(printer, p)
WirePast(b) ==
    /\ \A n \in 1..Len(wire[b]) : Past(wire[b][n].says)
    /\ \A n \in 1..Len(left[b]) : Past(left[b][n].says)

ReadInv ==
    /\ stage = "printing" => read.printing
    /\ ~disordered => finished <= read.ended
    /\ Past(read)

HeardInv == ReadInv /\ \A b \in Bridges : WirePast(b)

LEMMA Onward ==
    ASSUME ManagerTypeOK, HeardInv, PrinterGoes
    PROVE  HeardInv'
<1>1. ASSUME NEW q \in Progress, Past(q) PROVE ~Earlier(printer', q)
  <2>1. printer \in Progress
    BY DEF ManagerTypeOK
  <2>2. CASE ~printer.printing /\ printer' = [printer EXCEPT !.printing = TRUE]
    BY <1>1, <2>1, <2>2 DEF Past, Earlier, Progress
  <2>3. CASE printer.printing /\ printer' = [ended |-> printer.ended + 1, printing |-> FALSE]
    BY <1>1, <2>1, <2>3 DEF Past, Earlier, Progress
  <2> QED
    BY <2>2, <2>3 DEF PrinterGoes
<1>2. UNCHANGED <<presenceVars, wire, left>>
  BY DEF PrinterGoes, sessionVars
<1>3. ReadInv'
  BY <1>1, <1>2 DEF HeardInv, ReadInv, Past, presenceVars, entryVars, heardVars, ManagerTypeOK, PresenceTypeOK
<1>4. ASSUME NEW b \in Bridges PROVE WirePast(b)'
  <2>1. wire[b] \in Seq(Messages) /\ left[b] \in Seq(Messages)
    BY DEF ManagerTypeOK
  <2>2. \A n \in 1..Len(wire[b]) : wire[b][n].says \in Progress
    <3>1. \A n \in 1..Len(wire[b]) : wire[b][n] \in Messages
      BY <2>1
    <3> QED
      BY <3>1 DEF Messages
  <2>3. \A n \in 1..Len(left[b]) : left[b][n].says \in Progress
    <3>1. \A n \in 1..Len(left[b]) : left[b][n] \in Messages
      BY <2>1
    <3> QED
      BY <3>1 DEF Messages
  <2> QED
    BY <1>1, <1>2, <2>2, <2>3 DEF HeardInv, WirePast, Past
<1> QED
  BY <1>3, <1>4 DEF HeardInv

\* A report that is not read after a later one ends at most one print.
LEMMA ReadKept ==
    ASSUME ManagerTypeOK, ReadInv, printer' = printer, NEW b \in Bridges, NEW p \in Progress, NEW up \in BOOLEAN,
           Past(p),
           \/ UNCHANGED presenceVars
           \/ TakeReport(b, p, up) \/ TakeFrame(b, up) \/ TakeOffline(b) \/ Hint(b, up)
    PROVE  ReadInv'
<1>1. CASE Own(b) /\ TakeReport(b, p, up)
  <2>1. read' = p /\ disordered' = (disordered \/ Earlier(p, read))
        /\ stage' = (IF p.printing THEN "printing" ELSE "idle")
        /\ finished' = IF Ends(p) THEN finished + 1 ELSE finished
    BY <1>1 DEF TakeReport
  <2>2. ASSUME ~disordered' PROVE finished' <= p.ended
    <3>1. ~disordered /\ ~Earlier(p, read) /\ finished <= read.ended
      BY <2>1, <2>2 DEF ReadInv
    <3>2. finished \in Nat /\ read \in Progress /\ read.ended \in Nat /\ p.ended \in Nat
      BY DEF ManagerTypeOK, PresenceTypeOK, Progress
    <3>3. read.ended <= p.ended /\ (read.ended = p.ended /\ read.printing => p.printing)
      BY <3>1, <3>2 DEF Earlier
    <3>4. Ends(p) => read.ended < p.ended
      BY <3>2, <3>3 DEF Ends, ReadInv
    <3> QED
      BY <2>1, <3>1, <3>2, <3>3, <3>4
  <2> QED
    BY <2>1, <2>2 DEF ReadInv, Past
<1>2. CASE UNCHANGED <<stage, read, finished, disordered>>
  BY <1>2 DEF ReadInv, Past
<1> QED
  BY <1>1, <1>2 DEF TakeReport, TakeFrame, TakeOffline, Hint, presenceVars, entryVars, heardVars

LEMMA HeardByMessage ==
    ASSUME ManagerTypeOK, HeardInv, NEW b \in Bridges, Receive(b) \/ ReceiveLeft(b)
    PROVE  HeardInv'
<1>1. PICK m \in Messages :
        /\ Handle(b, m)
        /\ \/ wire[b] # <<>> /\ m = wire[b][1] /\ 1 \in 1..Len(wire[b])
           \/ left[b] # <<>> /\ m = left[b][1] /\ 1 \in 1..Len(left[b])
        /\ \/ UNCHANGED presenceVars
           \/ TakeReport(b, m.says, Up(b)) \/ TakeFrame(b, Up(b)) \/ TakeOffline(b) \/ Hint(b, Up(b))
  BY MessagesTaken
<1>2. printer' = printer
  BY <1>1 DEF Handle
<1>3. Past(m.says) /\ m.says \in Progress /\ Up(b) \in BOOLEAN
  BY <1>1 DEF HeardInv, WirePast, Messages, Up
<1>4. ReadInv'
  BY <1>1, <1>2, <1>3, ReadKept DEF HeardInv
<1>5. ASSUME NEW c \in Bridges PROVE WirePast(c)'
  <2>1. WirePast(c) /\ wire[b] \in Seq(Messages) /\ left[b] \in Seq(Messages)
    BY DEF HeardInv, ManagerTypeOK
  <2>2. CASE Receive(b)
    <3>1. wire' = [wire EXCEPT ![b] = Tail(@)] /\ left' = left /\ wire[b] # <<>>
      BY <2>2 DEF Receive
    <3>2. CASE c = b
      <4>1. wire'[c] = Tail(wire[c])
        BY <3>1, <3>2 DEF ManagerTypeOK
      <4> QED
        BY <1>2, <2>1, <3>1, <3>2, <4>1, HeadAndTail DEF WirePast, Past
    <3>3. CASE c # b
      BY <1>2, <2>1, <3>1, <3>3 DEF WirePast, Past, ManagerTypeOK
    <3> QED
      BY <3>2, <3>3
  <2>3. CASE ReceiveLeft(b)
    <3>1. left' = [left EXCEPT ![b] = Tail(@)] /\ wire' = wire /\ left[b] # <<>>
      BY <2>3 DEF ReceiveLeft
    <3>2. CASE c = b
      <4>1. left'[c] = Tail(left[c])
        BY <3>1, <3>2 DEF ManagerTypeOK
      <4> QED
        BY <1>2, <2>1, <3>1, <3>2, <4>1, HeadAndTail DEF WirePast, Past
    <3>3. CASE c # b
      BY <1>2, <2>1, <3>1, <3>3 DEF WirePast, Past, ManagerTypeOK
    <3> QED
      BY <3>2, <3>3
  <2> QED
    BY <2>2, <2>3
<1> QED
  BY <1>4, <1>5 DEF HeardInv

LEMMA HeardByOps ==
    ASSUME ManagerTypeOK, HeardInv, NEW o \in Ops, Begins(o) \/ Goes(o)
    PROVE  HeardInv'
<1>1. printer' = printer
  <2>1. CASE Begins(o)
    BY <2>1 DEF Begins, EditWrite, DeleteWrite, DetachRead, RecoverRead, Restart
  <2>2. CASE Goes(o)
    BY <2>2 DEF Goes, EditApply, DeleteApply, DetachWrite, DetachApply, RecoverCheck, RecoverWrite, RecoverApply,
            RefreshWrite, RefreshApply, StartRead, StartApply, Fail
  <2> QED
    BY <2>1, <2>2
<1>2. ReadInv'
  <2>1. UNCHANGED <<read, finished, disordered>> /\ (stage' = stage \/ stage' = "unknown")
    BY OpsTellManager DEF Remove, Forget, Update, Connect, presenceVars, entryVars, heardVars
  <2> QED
    BY <1>1, <2>1 DEF HeardInv, ReadInv, Past
<1>3. ASSUME NEW b \in Bridges PROVE WirePast(b)'
  <2>1. WirePast(b)
    BY DEF HeardInv
  <2>2. CASE Restart(o)
    <3>1. wire'[b] = <<>> /\ left'[b] = <<>>
      BY <2>2 DEF Restart
    <3> QED
      BY <3>1 DEF WirePast
  <2>3. CASE ~Restart(o)
    <3>1. wire' = wire /\ left' = left
      <4>1. CASE Begins(o)
        BY <2>3, <4>1 DEF Begins, EditWrite, DeleteWrite, DetachRead, RecoverRead, sessionVars
      <4>2. CASE Goes(o)
        BY <4>2 DEF Goes, EditApply, DeleteApply, DetachWrite, DetachApply, RecoverCheck, RecoverWrite, RecoverApply,
                RefreshWrite, RefreshApply, StartRead, StartApply, Fail, sessionVars
      <4> QED
        BY <4>1, <4>2
    <3> QED
      BY <1>1, <2>1, <3>1 DEF WirePast, Past
  <2> QED
    BY <2>2, <2>3
<1> QED
  BY <1>2, <1>3 DEF HeardInv

LEMMA HeardBySessions ==
    ASSUME ManagerTypeOK, HeardInv, NEW b \in Bridges,
           SessionBegins(b) \/ SessionEnds(b) \/ LeftEnds(b) \/ Send(b)
    PROVE  HeardInv'
<1>1. printer' = printer /\ UNCHANGED <<stage, read, finished, disordered>>
  BY DEF SessionBegins, SessionEnds, Defer, LeftEnds, Send, presenceVars, entryVars, heardVars
<1>2. ReadInv'
  BY <1>1 DEF HeardInv, ReadInv, Past
<1>3. ASSUME NEW c \in Bridges PROVE WirePast(c)'
  <2>1. WirePast(c)
    BY DEF HeardInv
  <2>2. CASE Send(b)
    <3>1. PICK kind \in Kinds : wire' = [wire EXCEPT ![b] = Append(@, Sent(kind))]
      BY <2>2 DEF Send
    <3>2. left' = left
      BY <2>2 DEF Send
    <3>3. printer \in Progress
      BY DEF ManagerTypeOK
    <3>4. Past(Sent(kind).says)
      BY <3>3 DEF Past, Sent, Earlier, Progress
    <3>5. CASE c = b
      <4>1. wire'[c] = Append(wire[c], Sent(kind)) /\ wire[c] \in Seq(Messages)
        BY <3>1, <3>5 DEF ManagerTypeOK
      <4>2. \A n \in 1..Len(wire'[c]) : wire'[c][n] = Sent(kind) \/ (n \in 1..Len(wire[c]) /\ wire'[c][n] = wire[c][n])
        BY <4>1
      <4> QED
        BY <1>1, <2>1, <3>2, <3>4, <4>2 DEF WirePast, Past
    <3>6. CASE c # b
      BY <1>1, <2>1, <3>1, <3>2, <3>6 DEF WirePast, Past, ManagerTypeOK
    <3> QED
      BY <3>5, <3>6
  <2>3. CASE SessionBegins(b) \/ SessionEnds(b) \/ LeftEnds(b)
    <3>1. /\ wire'[c] = wire[c] \/ wire'[c] = <<>>
          /\ left'[c] = left[c] \/ left'[c] = <<>> \/ left'[c] = wire[c]
      BY <2>3 DEF SessionBegins, SessionEnds, LeftEnds, ManagerTypeOK
    <3> QED
      BY <1>1, <2>1, <3>1 DEF WirePast, Past
  <2> QED
    BY <2>2, <2>3
<1> QED
  BY <1>2, <1>3 DEF HeardInv

LEMMA HeardKept ==
    ASSUME ManagerTypeOK, HeardInv, [ManagerNext]_vars
    PROVE  HeardInv'
<1>1. CASE OfflineTimer \/ UNCHANGED vars
  BY <1>1 DEF OfflineTimer, Expire, vars, presenceVars, entryVars, heardVars, sessionVars, HeardInv, ReadInv,
              WirePast, Past
<1> QED
  BY <1>1, Onward, HeardByMessage, HeardByOps, HeardBySessions DEF ManagerNext

\* FinishesReal for every number of bridges, operations, prints and messages: what
\* is announced as finished has ended, if the reports came in their order.
THEOREM FinishesAreReal == ManagerSpec => []FinishesReal
<1>1. ManagerInit => HeardInv
  <2>1. SUFFICES ASSUME ManagerInit PROVE HeardInv
    OBVIOUS
  <2>2. ReadInv
    BY <2>1 DEF ManagerInit, PresenceInit, ReadInv, Past, Earlier
  <2>3. \A b \in Bridges : wire[b] = <<>> /\ left[b] = <<>>
    BY <2>1 DEF ManagerInit
  <2> QED
    BY <2>2, <2>3 DEF HeardInv, WirePast
<1>2. ManagerTypeOK /\ HeardInv /\ [ManagerNext]_vars => HeardInv'
  BY HeardKept
<1>3. ManagerTypeOK /\ HeardInv => FinishesReal
  BY DEF HeardInv, ReadInv, FinishesReal, Past, Earlier, ManagerTypeOK, PresenceTypeOK, Progress
<1> QED
  BY <1>1, <1>2, <1>3, ManagerTypes, PTL DEF ManagerSpec

-----------------------------------------------------------------------------
(* The commands whose replies are waited for *)

LEMMA CommandTypesKept ==
    ASSUME CommandTypeOK, [CommandNext]_commandVars
    PROVE  CommandTypeOK'
<1>. USE DEF CommandTypeOK
<1>1. \A R : Rejected(R) \in [Requests -> {"none", "waiting", "answered", "failed"}]
  BY DEF Rejected
<1>2. ASSUME NEW r \in Requests, Ask(r) PROVE CommandTypeOK'
  <2>1. sequenceId' \in Nat
    BY <1>2 DEF Ask
  <2>2. request' \in [Requests -> {"none", "waiting", "answered", "failed"}]
    BY <1>1, <1>2 DEF Ask
  <2> QED
    BY <1>2, <2>1, <2>2 DEF Ask
<1>3. ASSUME NEW r \in Requests, RequestTimeout(r) PROVE CommandTypeOK'
  BY <1>3 DEF RequestTimeout
<1>4. ASSUME NEW x \in replies, Hear(x) PROVE CommandTypeOK'
  BY <1>4 DEF Hear
<1>5. ASSUME NEW x \in replies, Lose(x) PROVE CommandTypeOK'
  BY <1>5 DEF Lose
<1>6. CASE PublishCommand \/ SessionTurns
  <2>1. sequenceId' \in Nat
    BY <1>6 DEF PublishCommand, SessionTurns
  <2>2. connected' \in BOOLEAN
    BY <1>6 DEF PublishCommand, SessionTurns
  <2>3. UNCHANGED <<request, number, replies, answer, restarted>>
    BY <1>6 DEF PublishCommand, SessionTurns
  <2> QED
    BY <2>1, <2>2, <2>3
<1>7. CASE Offline \/ Renew
  <2>1. request' \in [Requests -> {"none", "waiting", "answered", "failed"}]
    BY <1>1, <1>7 DEF Offline, Renew
  <2>2. sequenceId' \in Nat
    BY <1>7 DEF Offline, Renew
  <2>3. restarted' \in BOOLEAN
    BY <1>7 DEF Offline, Renew
  <2>4. UNCHANGED <<connected, number, replies, answer>>
    BY <1>7 DEF Offline, Renew
  <2> QED
    BY <2>1, <2>2, <2>3, <2>4
<1>8. CASE UNCHANGED commandVars
  BY <1>8 DEF commandVars
<1> QED
  BY <1>2, <1>3, <1>4, <1>5, <1>6, <1>7, <1>8 DEF CommandNext

\* CommandTypeOK for every number of requests.
THEOREM CommandTypes == CommandSpec => []CommandTypeOK
<1>1. CommandInit => CommandTypeOK
  <2>1. SUFFICES ASSUME CommandInit PROVE CommandTypeOK
    OBVIOUS
  <2>2. sequenceId \in Nat /\ number \in [Requests -> Nat]
    BY <2>1 DEF CommandInit
  <2>3. /\ request \in [Requests -> {"none", "waiting", "answered", "failed"}]
        /\ answer \in [Requests -> Requests]
    BY <2>1 DEF CommandInit
  <2> QED
    BY <2>1, <2>2, <2>3 DEF CommandInit, CommandTypeOK
<1>2. CommandTypeOK /\ [CommandNext]_commandVars => CommandTypeOK'
  BY CommandTypesKept
<1> QED
  BY <1>1, <1>2, PTL DEF CommandSpec

\* Until the numbers begin again, a number is used once, and a reply with it is
\* for whoever waits for it.
Numbered ==
    /\ \A x \in replies : x.seq <= sequenceId
    /\ \A r \in Requests : request[r] = "waiting" =>
        number[r] <= sequenceId /\ \A x \in replies : x.seq = number[r] => x.to = r
    /\ \A r \in Requests : request[r] = "answered" => answer[r] = r

LEMMA NumberedKept ==
    ASSUME CommandTypeOK, ~restarted => Numbered, [CommandNext]_commandVars, ~restarted'
    PROVE  Numbered'
<1>. USE DEF CommandTypeOK
<1>1. Numbered
  BY DEF CommandNext, Ask, RequestTimeout, Hear, Lose, PublishCommand, Offline, Renew, SessionTurns, commandVars
<1>2. ASSUME NEW r \in Requests, Ask(r) PROVE Numbered'
  <2>1. CASE connected
    <3>1. /\ sequenceId' = sequenceId + 1 /\ answer' = answer
          /\ request' = [request EXCEPT ![r] = "waiting"]
          /\ number' = [number EXCEPT ![r] = sequenceId']
          /\ replies' = replies \cup {[to |-> r, seq |-> sequenceId']}
      BY <1>2, <2>1 DEF Ask
    <3>2. \A x \in replies : x.seq < sequenceId' /\ x.seq \in Nat
      BY <1>1, <3>1 DEF Numbered
    <3>3. \A x \in replies' : x.seq <= sequenceId'
      BY <3>1, <3>2
    <3>4. ASSUME NEW s \in Requests, request'[s] = "waiting"
          PROVE  number'[s] <= sequenceId' /\ \A x \in replies' : x.seq = number'[s] => x.to = s
      <4>1. CASE s = r
        BY <3>1, <3>2, <4>1
      <4>2. CASE s # r
        <5>1. number'[s] = number[s] /\ request[s] = "waiting"
          BY <3>1, <3>4, <4>2
        <5>2. number[s] <= sequenceId /\ \A x \in replies : x.seq = number[s] => x.to = s
          BY <1>1, <5>1 DEF Numbered
        <5>3. number[s] < sequenceId'
          BY <3>1, <5>2
        <5> QED
          BY <3>1, <5>1, <5>2, <5>3
      <4> QED
        BY <4>1, <4>2
    <3>5. \A s \in Requests : request'[s] = "answered" => answer'[s] = s
      BY <1>1, <3>1 DEF Numbered
    <3> QED
      BY <3>3, <3>4, <3>5 DEF Numbered
  <2>2. CASE ~connected
    <3>1. /\ sequenceId' = sequenceId + 1 /\ UNCHANGED <<number, replies, answer>>
          /\ \A s \in Requests : request'[s] = request[s] \/ request'[s] = "failed"
      BY <1>2, <2>2 DEF Ask, Rejected
    <3> QED
      BY <1>1, <3>1 DEF Numbered
  <2> QED
    BY <2>1, <2>2
<1>3. ASSUME NEW r \in Requests, RequestTimeout(r) PROVE Numbered'
  BY <1>1, <1>3 DEF RequestTimeout, Numbered
<1>4. ASSUME NEW x \in replies, Hear(x) PROVE Numbered'
  <2>1. ASSUME NEW r \in Requests
        PROVE  \/ request'[r] = request[r] /\ answer'[r] = answer[r]
               \/ request'[r] = "answered" /\ answer'[r] = x.to /\ request[r] = "waiting" /\ number[r] = x.seq
    BY <1>4 DEF Hear
  <2>2. \A r \in Requests : request'[r] = "answered" => answer'[r] = r
    BY <1>1, <2>1 DEF Numbered
  <2>3. UNCHANGED <<sequenceId, number>> /\ replies' \subseteq replies
    BY <1>4 DEF Hear
  <2> QED
    BY <1>1, <2>1, <2>2, <2>3 DEF Numbered
<1>5. ASSUME NEW x \in replies, Lose(x) PROVE Numbered'
  BY <1>1, <1>5 DEF Lose, Numbered
<1>6. CASE PublishCommand \/ SessionTurns
  BY <1>1, <1>6 DEF PublishCommand, SessionTurns, Numbered
<1>7. CASE Offline
  BY <1>1, <1>7 DEF Offline, Rejected, Numbered
<1>8. CASE Renew
  BY <1>1, <1>8 DEF Renew, Rejected, Numbered
<1>9. CASE UNCHANGED commandVars
  BY <1>1, <1>9 DEF commandVars, Numbered
<1> QED
  BY <1>2, <1>3, <1>4, <1>5, <1>6, <1>7, <1>8, <1>9 DEF CommandNext

\* AnswersAreOwn for every number of requests: nobody takes another's profiles,
\* until the numbers begin again with replies still to come.
THEOREM AnswersOwn == CommandSpec => []AnswersAreOwn
<1>1. CommandInit => (~restarted => Numbered)
  BY DEF CommandInit, Numbered
<1>2. CommandTypeOK /\ (~restarted => Numbered) /\ [CommandNext]_commandVars => (~restarted => Numbered)'
  <2>1. SUFFICES ASSUME CommandTypeOK, ~restarted => Numbered, [CommandNext]_commandVars, ~restarted'
                 PROVE  Numbered'
    OBVIOUS
  <2> QED
    BY <2>1, NumberedKept
<1>3. (~restarted => Numbered) => AnswersAreOwn
  BY DEF Numbered, AnswersAreOwn
<1> QED
  BY <1>1, <1>2, <1>3, CommandTypes, PTL DEF CommandSpec
=============================================================================
