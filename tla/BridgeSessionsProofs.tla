-------------------------- MODULE BridgeSessionsProofs --------------------------
(***************************************************************************)
(* Proofs about BridgeSessions and CameraTransport, for any number of      *)
(* sockets, messages under way, viewers, calls and pumps.                  *)
(***************************************************************************)
EXTENDS BridgeSessions, TLAPS

-----------------------------------------------------------------------------
(* The camera *)

CameraInv == CameraTypeOK /\ CameraArbitrated

LEMMA CameraInitSound == CameraInit => CameraInv
BY PumpAssumption
DEF CameraInit, CameraInv, CameraTypeOK, CameraArbitrated, CameraYields, OneLivePump, PumpStates, PumpAssumption

LEMMA TransferSound ==
    ASSUME CameraInv, BeginTransfer \/ EndTransfer, UNCHANGED <<stopped, controller>>
    PROVE  CameraInv'
<1>. USE DEF CameraInv, CameraTypeOK, CameraArbitrated, PumpStates
<1>1. CASE BeginTransfer
  <2>1. \A k \in Pumps : /\ pump'[k] = Paused(pump[k])
                         /\ pump'[k] \in PumpStates \ {"connecting", "reading"}
                         /\ (pump'[k] = "off" <=> pump[k] = "off")
                         /\ (pump[k] = "holding" => pump'[k] = "holding")
    BY <1>1 DEF BeginTransfer, Paused
  <2> QED
    BY <1>1, <2>1 DEF BeginTransfer, CameraYields, OneLivePump
<1>2. CASE EndTransfer
  <2>1. \A k \in Pumps : /\ pump'[k] \in PumpStates
                         /\ (pump'[k] = "off" <=> pump[k] = "off")
                         /\ (pump[k] = "holding" => pump'[k] = "holding")
    BY <1>2 DEF EndTransfer, Woken
  <2> QED
    BY <1>2, <2>1 DEF EndTransfer, CameraYields, OneLivePump
<1> QED
  BY <1>1, <1>2

\* What is left when the entry of the printer is stopped.
LEMMA PumpsStoppedSound ==
    ASSUME CameraInv
    PROVE  /\ PumpsStopped \in [Pumps -> PumpStates] /\ NowStopped \subseteq Pumps
           /\ ftpActive => \A k \in Pumps : PumpsStopped[k] \notin {"connecting", "reading"}
           /\ \A k \in Pumps : PumpsStopped[k] # "off" <=> k \in NowStopped
           /\ \A k \in NowStopped : PumpsStopped[k] = "holding"
BY PumpAssumption
DEF CameraInv, CameraTypeOK, CameraArbitrated, CameraYields, OneLivePump, PumpStates, PumpAssumption,
    PumpsStopped, NowStopped, Stopped

LEMMA StopPumpSound ==
    ASSUME CameraInv, StopPump, ftpActive' = ftpActive
    PROVE  CameraInv'
BY PumpsStoppedSound, PumpAssumption
DEF StopPump, CameraInv, CameraTypeOK, CameraArbitrated, CameraYields, OneLivePump, PumpAssumption

LEMMA StartPumpSound ==
    ASSUME CameraInv, StartPump(controller, pump), UNCHANGED <<stopped, ftpActive>>
    PROVE  CameraInv'
<1>1. CASE controller # NoPump
  BY <1>1 DEF StartPump, CameraInv, CameraTypeOK, CameraArbitrated, CameraYields, OneLivePump
<1>2. CASE controller = NoPump
  BY <1>2, PumpAssumption
  DEF StartPump, Entry, CameraInv, CameraTypeOK, CameraArbitrated, CameraYields, OneLivePump, PumpStates, PumpAssumption
<1> QED
  BY <1>1, <1>2

LEMMA RestartPumpSound ==
    ASSUME CameraInv, stopped' = NowStopped, ftpActive' = ftpActive,
           StartPump(NoPump, PumpsStopped) \/ (controller' = NoPump /\ pump' = PumpsStopped)
    PROVE  CameraInv'
<1>1. CASE controller' = NoPump /\ pump' = PumpsStopped
  BY <1>1, PumpsStoppedSound, PumpAssumption
  DEF CameraInv, CameraTypeOK, CameraArbitrated, CameraYields, OneLivePump, PumpAssumption
<1>2. CASE StartPump(NoPump, PumpsStopped)
  <2>1. PICK k \in Pumps : PumpsStopped[k] = "off" /\ controller' = k /\ pump' = [PumpsStopped EXCEPT ![k] = Entry]
    BY <1>2 DEF StartPump
  <2>2. Entry \in PumpStates \ {"off", "connecting", "reading"}
    BY DEF Entry, PumpStates
  <2> QED
    BY <2>1, <2>2, PumpsStoppedSound DEF CameraInv, CameraTypeOK, CameraArbitrated, CameraYields, OneLivePump
<1> QED
  BY <1>1, <1>2

LEMMA PumpStepSound ==
    ASSUME CameraInv, NEW k \in Pumps, PumpStep(k)
    PROVE  CameraInv'
<1>. USE PumpAssumption DEF CameraInv, CameraTypeOK, CameraArbitrated, PumpStates, PumpAssumption, PumpStep
<1>1. CASE Resume(k)
  BY <1>1 DEF Resume, Move, CameraYields, OneLivePump
<1>2. CASE OpenCamera(k)
  BY <1>2 DEF OpenCamera, Move, CameraYields, OneLivePump
<1>3. CASE Frame(k)
  BY <1>3 DEF Frame, Ended, Move, CameraYields, OneLivePump
<1>4. CASE Break(k)
  BY <1>4 DEF Break, Ended, Move, Entry, CameraYields, OneLivePump
<1>5. CASE Again(k)
  BY <1>5 DEF Again, Move, Entry, CameraYields, OneLivePump
<1> QED
  BY <1>1, <1>2, <1>3, <1>4, <1>5

LEMMA CameraKept ==
    ASSUME CameraInv, [BridgeNext]_vars
    PROVE  CameraInv'
<1>1. CASE UNCHANGED <<ftpActive, cameraVars>>
  BY <1>1 DEF cameraVars, CameraInv, CameraTypeOK, CameraArbitrated, CameraYields, OneLivePump
<1>2. ASSUME NEW s \in Sockets, BridgeClose(s) PROVE CameraInv'
  BY <1>2, StopPumpSound DEF BridgeClose
<1>3. ASSUME NEW s \in Sockets, ReceiveConfig(s) PROVE CameraInv'
  BY <1>3, RestartPumpSound DEF ReceiveConfig
<1>4. ASSUME NEW s \in Sockets, ReceiveWatch(s) PROVE CameraInv'
  BY <1>1, <1>4, StartPumpSound DEF ReceiveWatch
<1>5. ASSUME NEW s \in Sockets, ReceiveUnwatch(s) PROVE CameraInv'
  BY <1>5, StopPumpSound DEF ReceiveUnwatch
<1>6. ASSUME Transfer PROVE CameraInv'
  BY <1>6, TransferSound DEF Transfer
<1>7. ASSUME NEW k \in Pumps, Pump(k) PROVE CameraInv'
  BY <1>7, PumpStepSound DEF Pump
<1>8. \/ UNCHANGED <<ftpActive, cameraVars>> \/ Transfer
      \/ \E s \in Sockets : BridgeClose(s) \/ ReceiveConfig(s) \/ ReceiveWatch(s) \/ ReceiveUnwatch(s)
      \/ \E k \in Pumps : Pump(k)
  BY DEF BridgeNext, vars, SocketStep, Connect, ServerClose, HelloTimeout, AuthFails, AuthDone, ServerReceives,
         ReceiveHello, ReceiveFtp, ReceiveAnswer, BridgeReceives, ReceiveRequest, ReceiveCancel, SyncPrinters,
         Subscribe, Unsubscribe, StartRpc, Withdraw, Answer
<1> QED
  BY <1>1, <1>2, <1>3, <1>4, <1>5, <1>6, <1>7, <1>8
-----------------------------------------------------------------------------
(* Types *)

LEMMA MessagesTyped ==
    /\ \A k \in {"watch", "unwatch"} \cup Configs : Message(k) \in DownMessages
    /\ \A k \in {"request", "cancel"}, r \in Rpcs : About(k, r) \in DownMessages
    /\ \A k \in {"hello", "active", "idle"} : Message(k) \in UpMessages
    /\ \A r \in Rpcs : About("answer", r) \in UpMessages
BY DEF Message, About, DownMessages, UpMessages, Configs

LEMMA SendDownTyped ==
    ASSUME ServerOK, WiresOK, NEW m \in DownMessages, SendDown(m)
    PROVE  down' \in [Sockets -> Seq(DownMessages)] /\ \A s \in Sockets : Len(down'[s]) <= MaxDown
<1>1. CASE Reaches(current)
  <2>1. current \in Sockets /\ Len(down[current]) < MaxDown /\ down' = [down EXCEPT ![current] = Append(@, m)]
    BY <1>1 DEF SendDown, Reaches, ServerOK
  <2>2. Append(down[current], m) \in Seq(DownMessages) /\ Len(Append(down[current], m)) = Len(down[current]) + 1
    BY <2>1 DEF WiresOK
  <2>3. Len(down[current]) \in Nat
    BY <2>1 DEF WiresOK
  <2> QED
    BY <2>1, <2>2, <2>3, SessionAssumption DEF WiresOK, SessionAssumption
<1>2. CASE ~Reaches(current)
  BY <1>2 DEF SendDown, WiresOK
<1> QED
  BY <1>1, <1>2

LEMMA SendUpTyped ==
    ASSUME WiresOK, NEW t \in Sockets, NEW m \in UpMessages, NEW bound \in {MaxUp, MaxUp + 1}, SendUp(t, m, bound)
    PROVE  up' \in [Sockets -> Seq(UpMessages)] /\ \A s \in Sockets : Len(up'[s]) <= MaxUp + 1
<1>1. CASE client[t] = "open" /\ sock[t] # "closed"
  <2>1. t \in Sockets /\ Len(up[t]) < bound /\ up' = [up EXCEPT ![t] = Append(@, m)]
    BY <1>1 DEF SendUp
  <2>2. Append(up[t], m) \in Seq(UpMessages) /\ Len(Append(up[t], m)) = Len(up[t]) + 1
    BY <2>1 DEF WiresOK
  <2>3. Len(up[t]) \in Nat
    BY <2>1 DEF WiresOK
  <2> QED
    BY <2>1, <2>2, <2>3, SessionAssumption DEF WiresOK, SessionAssumption
<1>2. CASE ~(client[t] = "open" /\ sock[t] # "closed")
  BY <1>2 DEF SendUp, WiresOK
<1> QED
  BY <1>1, <1>2
\* The head of a queue is a message, and so are the others.
LEMMA TakenTyped ==
    ASSUME NEW M, NEW q \in Seq(M), q # <<>>
    PROVE  Head(q) \in M /\ Tail(q) \in Seq(M) /\ Len(Tail(q)) = Len(q) - 1 /\ Len(q) \in Nat \ {0}
OBVIOUS

LEMMA TakeDownTyped ==
    ASSUME WiresOK, NEW s \in Sockets, down[s] # <<>>, down' = [down EXCEPT ![s] = Tail(@)]
    PROVE  down' \in [Sockets -> Seq(DownMessages)] /\ \A t \in Sockets : Len(down'[t]) <= MaxDown
<1>1. down[s] \in Seq(DownMessages)
  BY DEF WiresOK
<1>2. /\ Tail(down[s]) \in Seq(DownMessages) /\ Len(Tail(down[s])) = Len(down[s]) - 1
      /\ Len(down[s]) \in Nat \ {0}
  BY <1>1, TakenTyped
<1> QED
  BY <1>2, SessionAssumption DEF WiresOK, SessionAssumption

LEMMA TakeUpTyped ==
    ASSUME WiresOK, NEW s \in Sockets, up[s] # <<>>, up' = [up EXCEPT ![s] = Tail(@)]
    PROVE  up' \in [Sockets -> Seq(UpMessages)] /\ \A t \in Sockets : Len(up'[t]) <= MaxUp + 1
<1>1. up[s] \in Seq(UpMessages)
  BY DEF WiresOK
<1>2. /\ Tail(up[s]) \in Seq(UpMessages) /\ Len(Tail(up[s])) = Len(up[s]) - 1
      /\ Len(up[s]) \in Nat \ {0}
  BY <1>1, TakenTyped
<1> QED
  BY <1>2, SessionAssumption DEF WiresOK, SessionAssumption

LEMMA TypesBegin == BridgeInit => BridgeTypeOK
<1>. SUFFICES ASSUME BridgeInit PROVE BridgeTypeOK
  OBVIOUS
<1>. USE SessionAssumption DEF BridgeInit, SessionAssumption
<1>1. CameraTypeOK
  BY CameraInitSound DEF CameraInv
<1>2. ServerOK
  <2>1. current = NoSocket /\ ftpFlag = FALSE
    OBVIOUS
  <2>2. sock \in [Sockets -> {"none", "open", "closing", "closed"}] /\ auth \in [Sockets -> {"none", "pending", "done"}]
    OBVIOUS
  <2>3. rpc \in [Rpcs -> {"none", "pending", "settled", "withdrawn", "dropped"}]
    OBVIOUS
  <2> QED
    BY <2>1, <2>2, <2>3 DEF ServerOK
<1>3. BridgeOK
  BY DEF BridgeOK, NoSocket, NoWork
<1>4. WiresOK
  BY DEF WiresOK
<1> QED
  BY <1>1, <1>2, <1>3, <1>4 DEF BridgeTypeOK, TracesOK

\* The steps of sockets and of their authentication.
LEMMA TypesOfSockets ==
    ASSUME BridgeTypeOK, NEW s \in Sockets, SocketStep(s) \/ AuthDone(s) \/ ReceiveHello(s)
    PROVE  ServerOK' /\ BridgeOK' /\ WiresOK' /\ TracesOK'
<1>. USE SessionAssumption DEF BridgeTypeOK, SessionAssumption, serverVars, bridgeVars, wires, traceVars
<1>1. CASE Connect(s)
  <2>1. ServerOK' /\ TracesOK'
    BY <1>1 DEF Connect, ServerOK, TracesOK
  <2>4. BridgeOK'
    BY <1>1 DEF Connect, BridgeOK, Sockets
  <2>2. <<Message("hello")>> \in Seq(UpMessages) /\ Len(<<Message("hello")>>) = 1
    BY MessagesTyped
  <2>3. WiresOK'
    BY <1>1, <2>2 DEF Connect, WiresOK
  <2> QED
    BY <2>1, <2>3, <2>4
<1>2. CASE BridgeClose(s)
  <2>1. <<>> \in Seq(DownMessages) /\ Len(<<>>) = 0
    OBVIOUS
  <2>2. WiresOK'
    BY <1>2, <2>1 DEF BridgeClose, WiresOK
  <2> QED
    BY <1>2, <2>2 DEF BridgeClose, ServerOK, BridgeOK, TracesOK
<1>3. CASE ServerClose(s)
  <2>1. <<>> \in Seq(UpMessages) /\ Len(<<>>) = 0
    OBVIOUS
  <2>2. WiresOK'
    BY <1>3, <2>1 DEF ServerClose, WiresOK
  <2>3. rpc' \in [Rpcs -> {"none", "pending", "settled", "withdrawn", "dropped"}]
    BY <1>3 DEF ServerClose, Unregister, Dropped, ServerOK
  <2>4. sock' \in [Sockets -> {"none", "open", "closing", "closed"}]
    BY <1>3 DEF ServerClose, ServerOK
  <2>5. BridgeOK'
    BY <1>3 DEF ServerClose, BridgeOK
  <2>6. TracesOK'
    BY <1>3 DEF ServerClose, Unregister, TracesOK
  <2>7. ServerOK'
    BY <1>3, <2>3, <2>4 DEF ServerClose, Unregister, ServerOK
  <2> QED
    BY <2>2, <2>5, <2>6, <2>7
<1>4. CASE HelloTimeout(s) \/ AuthFails(s)
  <2>1. WiresOK' /\ BridgeOK' /\ TracesOK'
    BY <1>4 DEF HelloTimeout, AuthFails, WiresOK, BridgeOK, TracesOK
  <2>2. ServerOK'
    BY <1>4 DEF HelloTimeout, AuthFails, Closing, ServerOK
  <2> QED
    BY <2>1, <2>2
<1>5. CASE AuthDone(s)
  <2>1. WiresOK' /\ BridgeOK' /\ TracesOK'
    BY <1>5 DEF AuthDone, WiresOK, BridgeOK, TracesOK, ServerOK
  <2>2. ServerOK'
    BY <1>5 DEF AuthDone, Closing, ServerOK, NoSocket
  <2> QED
    BY <2>1, <2>2
<1>6. CASE ReceiveHello(s)
  <2>1. WiresOK'
    BY <1>6, TakeUpTyped DEF ReceiveHello, Arriving, WiresOK
  <2>2. BridgeOK' /\ TracesOK'
    BY <1>6 DEF ReceiveHello, BridgeOK, TracesOK
  <2>3. ServerOK'
    BY <1>6 DEF ReceiveHello, ServerOK
  <2> QED
    BY <2>1, <2>2, <2>3
<1> QED
  BY <1>1, <1>2, <1>3, <1>4, <1>5, <1>6 DEF SocketStep

\* What the server does of its own accord.
LEMMA TypesOfServer ==
    ASSUME BridgeTypeOK,
           \/ SyncPrinters
           \/ \E v \in Viewers : Subscribe(v) \/ Unsubscribe(v)
           \/ \E r \in Rpcs : StartRpc(r) \/ Withdraw(r)
    PROVE  ServerOK' /\ BridgeOK' /\ WiresOK' /\ TracesOK'
<1>. USE SessionAssumption DEF BridgeTypeOK, SessionAssumption, serverVars, bridgeVars, wires, traceVars
<1>0. BridgeOK'
  BY DEF SyncPrinters, Subscribe, Unsubscribe, StartRpc, Withdraw, BridgeOK
<1>2. CASE SyncPrinters
  BY <1>0, <1>2, MessagesTyped, SendDownTyped DEF SyncPrinters, ServerOK, WiresOK, TracesOK
<1>3. ASSUME NEW v \in Viewers, Subscribe(v) PROVE ServerOK' /\ WiresOK' /\ TracesOK'
  BY <1>3, MessagesTyped, SendDownTyped DEF Subscribe, ServerOK, WiresOK, TracesOK
<1>4. ASSUME NEW v \in Viewers, Unsubscribe(v) PROVE ServerOK' /\ WiresOK' /\ TracesOK'
  BY <1>4, MessagesTyped, SendDownTyped DEF Unsubscribe, ServerOK, WiresOK, TracesOK
<1>5. ASSUME NEW r \in Rpcs, StartRpc(r) PROVE ServerOK' /\ WiresOK' /\ TracesOK'
  BY <1>5, MessagesTyped, SendDownTyped DEF StartRpc, ServerOK, WiresOK, TracesOK
<1>6. ASSUME NEW r \in Rpcs, Withdraw(r) PROVE ServerOK' /\ WiresOK' /\ TracesOK'
  BY <1>6, MessagesTyped, SendDownTyped DEF Withdraw, ServerOK, WiresOK, TracesOK
<1> QED
  BY <1>0, <1>2, <1>3, <1>4, <1>5, <1>6

\* What the two ends do with what they receive, and what the bridge tells.
LEMMA TypesOfMessages ==
    ASSUME BridgeTypeOK,
           \/ \E s \in Sockets : ReceiveFtp(s) \/ ReceiveAnswer(s) \/ BridgeReceives(s)
           \/ \E r \in Rpcs : Answer(r)
           \/ Transfer
    PROVE  ServerOK' /\ BridgeOK' /\ WiresOK' /\ TracesOK'
<1>. USE SessionAssumption DEF BridgeTypeOK, SessionAssumption, serverVars, bridgeVars, wires, traceVars
<1>1. ASSUME NEW s \in Sockets, ReceiveFtp(s) PROVE ServerOK' /\ BridgeOK' /\ WiresOK' /\ TracesOK'
  <2>1. WiresOK'
    BY <1>1, TakeUpTyped DEF ReceiveFtp, Arriving, WiresOK
  <2> QED
    BY <1>1, <2>1 DEF ReceiveFtp, ServerOK, BridgeOK, TracesOK
<1>2. ASSUME NEW s \in Sockets, ReceiveAnswer(s) PROVE ServerOK' /\ BridgeOK' /\ WiresOK' /\ TracesOK'
  <2>1. WiresOK'
    BY <1>2, TakeUpTyped DEF ReceiveAnswer, Arriving, WiresOK
  <2>2. rpc' \in [Rpcs -> {"none", "pending", "settled", "withdrawn", "dropped"}]
    BY <1>2 DEF ReceiveAnswer, ServerOK
  <2> QED
    BY <1>2, <2>1, <2>2 DEF ReceiveAnswer, ServerOK, BridgeOK, TracesOK
<1>3. ASSUME NEW s \in Sockets, BridgeReceives(s) PROVE ServerOK' /\ BridgeOK' /\ WiresOK' /\ TracesOK'
  <2>1. ServerOK' /\ TracesOK'
    BY <1>3 DEF BridgeReceives, ReceiveWatch, ReceiveUnwatch, ReceiveConfig, ReceiveRequest, ReceiveCancel,
                ServerOK, TracesOK
  <2>2. down[s] # <<>> /\ down' = [down EXCEPT ![s] = Tail(@)]
    BY <1>3 DEF BridgeReceives, ReceiveWatch, ReceiveUnwatch, ReceiveConfig, ReceiveRequest, ReceiveCancel, Delivered
  <2>3. up' \in [Sockets -> Seq(UpMessages)] /\ \A t \in Sockets : Len(up'[t]) <= MaxUp + 1
    <3>1. CASE UNCHANGED up
      BY <3>1 DEF WiresOK
    <3>2. CASE ~UNCHANGED up
      <4>1. SendUp(s, Message("active"), MaxUp + 1)
        BY <1>3, <3>2 DEF BridgeReceives, ReceiveWatch, ReceiveUnwatch, ReceiveConfig, ReceiveRequest, ReceiveCancel
      <4> QED
        BY <4>1, MessagesTyped, SendUpTyped
    <3> QED
      BY <3>1, <3>2
  <2>4. WiresOK'
    BY <2>2, <2>3, TakeDownTyped DEF WiresOK
  <2>5. BridgeOK'
    <3>0. Head(down[s]).rpc \subseteq Rpcs
      <4>1. Head(down[s]) \in DownMessages
        BY <2>2, TakenTyped DEF WiresOK
      <4> QED
        BY <4>1 DEF DownMessages
    <3>1. CASE ReceiveRequest(s)
      BY <3>0, <3>1 DEF ReceiveRequest, BridgeOK
    <3>2. CASE ReceiveCancel(s)
      BY <3>0, <3>2 DEF ReceiveCancel, BridgeOK
    <3> QED
      BY <1>3, <3>1, <3>2 DEF BridgeReceives, ReceiveWatch, ReceiveUnwatch, ReceiveConfig, BridgeOK
  <2> QED
    BY <2>1, <2>4, <2>5
<1>4. ASSUME NEW r \in Rpcs, Answer(r) PROVE ServerOK' /\ BridgeOK' /\ WiresOK' /\ TracesOK'
  <2>1. WiresOK'
    <3>1. work[r].on \in Sockets /\ SendUp(work[r].on, About("answer", r), MaxUp) /\ down' = down
      BY <1>4 DEF Answer, BridgeOK
    <3> QED
      BY <3>1, MessagesTyped, SendUpTyped DEF WiresOK
  <2> QED
    BY <1>4, <2>1 DEF Answer, ServerOK, BridgeOK, TracesOK, NoWork
<1>5. ASSUME Transfer PROVE ServerOK' /\ BridgeOK' /\ WiresOK' /\ TracesOK'
  <2>1. PICK k \in {"active", "idle"} : Announce(k) /\ down' = down
    BY <1>5 DEF Transfer
  <2>2. WiresOK'
    <3>1. CASE UNCHANGED up
      BY <2>1, <3>1 DEF WiresOK
    <3>2. CASE \E t \in Sockets : SendUp(t, Message(k), MaxUp)
      BY <2>1, <3>2, MessagesTyped, SendUpTyped DEF WiresOK
    <3> QED
      BY <2>1, <3>1, <3>2 DEF Announce
  <2> QED
    BY <1>5, <2>2 DEF Transfer, ServerOK, BridgeOK, TracesOK
<1> QED
  BY <1>1, <1>2, <1>3, <1>4, <1>5

LEMMA TypesKept ==
    ASSUME BridgeTypeOK, CameraInv, [BridgeNext]_vars
    PROVE  BridgeTypeOK'
<1>1. CameraTypeOK'
  BY CameraKept DEF CameraInv
<1>2. CASE UNCHANGED <<serverVars, bridgeVars, wires, traceVars>>
  BY <1>1, <1>2 DEF serverVars, bridgeVars, wires, traceVars, BridgeTypeOK, ServerOK, BridgeOK, WiresOK, TracesOK
<1>3. \/ UNCHANGED <<serverVars, bridgeVars, wires, traceVars>>
      \/ \E s \in Sockets : SocketStep(s) \/ AuthDone(s) \/ ReceiveHello(s)
      \/ \/ SyncPrinters
         \/ \E v \in Viewers : Subscribe(v) \/ Unsubscribe(v)
         \/ \E r \in Rpcs : StartRpc(r) \/ Withdraw(r)
      \/ \/ \E s \in Sockets : ReceiveFtp(s) \/ ReceiveAnswer(s) \/ BridgeReceives(s)
         \/ \E r \in Rpcs : Answer(r)
         \/ Transfer
  BY DEF BridgeNext, vars, ServerReceives, Pump
<1> QED
  BY <1>1, <1>2, <1>3, TypesOfSockets, TypesOfServer, TypesOfMessages DEF BridgeTypeOK
-----------------------------------------------------------------------------
(* Sessions *)

LEMMA SocketsReal == /\ \A s \in Sockets : s # NoSocket
                     /\ NoSocket \notin Sockets
BY SessionAssumption DEF Sockets, NoSocket, SessionAssumption

LEMMA AccountedBegin == BridgeInit => SessionAccounted
BY DEF BridgeInit, SessionAccounted

LEMMA AccountedKept ==
    ASSUME BridgeTypeOK, SessionAccounted, [BridgeNext]_vars
    PROVE  SessionAccounted'
<1>. USE DEF BridgeTypeOK, SessionAccounted
<1>1. CASE UNCHANGED <<sock, current, rpc, listeners, ftpFlag, late, staleFlag>>
  BY <1>1
<1>2. ASSUME NEW s \in Sockets, Connect(s) PROVE SessionAccounted'
  BY <1>2 DEF Connect, ServerOK, traceVars
<1>3. ASSUME NEW s \in Sockets, ServerClose(s) PROVE SessionAccounted'
  <2>1. CASE current = s
    <3>1. auth[s] = "done"
      BY <2>1, SocketsReal DEF ServerOK
    <3>2. Unregister
      BY <1>3, <2>1, <3>1 DEF ServerClose
    <3>3. current' = NoSocket /\ listeners' = {} /\ ~ftpFlag' /\ \A r \in Rpcs : rpc'[r] # "pending"
      BY <3>2 DEF Unregister, Dropped
    <3> QED
      BY <3>3
  <2>2. CASE current # s
    <3>1. UNCHANGED <<current, rpc, listeners, ftpFlag, late, staleFlag>>
          /\ \A t \in Sockets : t # s => sock'[t] = sock[t]
      BY <1>3, <2>2 DEF ServerClose, ServerOK
    <3> QED
      BY <2>2, <3>1 DEF ServerOK
  <2> QED
    BY <2>1, <2>2
<1>4. ASSUME NEW s \in Sockets, HelloTimeout(s) \/ AuthFails(s) PROVE SessionAccounted'
  BY <1>4 DEF HelloTimeout, AuthFails, Closing, ServerOK, traceVars
<1>5. ASSUME NEW s \in Sockets, AuthDone(s) PROVE SessionAccounted'
  <2>1. current' = s /\ s # NoSocket
    BY <1>5, SocketsReal DEF AuthDone
  <2>2. s # current
    BY <1>5, SocketsReal DEF AuthDone, ServerOK
  <2>3. sock'[s] = sock[s]
    BY <1>5, <2>2 DEF AuthDone, Closing, ServerOK
  <2> QED
    BY <1>5, <2>1, <2>3 DEF AuthDone
<1>6. ASSUME NEW v \in Viewers, Subscribe(v) \/ Unsubscribe(v) PROVE SessionAccounted'
  BY <1>6 DEF Subscribe, Unsubscribe, traceVars
<1>7. ASSUME NEW s \in Sockets, ReceiveFtp(s) PROVE SessionAccounted'
  <2>1. current = NoSocket => staleFlag'
    BY <1>7, SocketsReal DEF ReceiveFtp
  <2> QED
    BY <1>7, <2>1 DEF ReceiveFtp
<1>8. ASSUME NEW s \in Sockets, ReceiveAnswer(s) PROVE SessionAccounted'
  BY <1>8 DEF ReceiveAnswer, ServerOK, traceVars
<1>9. ASSUME NEW r \in Rpcs, StartRpc(r) \/ Withdraw(r) PROVE SessionAccounted'
  BY <1>9 DEF StartRpc, Withdraw, ServerOK, traceVars
<1>10. \/ UNCHANGED <<sock, current, rpc, listeners, ftpFlag, late, staleFlag>>
       \/ \E s \in Sockets : \/ Connect(s) \/ ServerClose(s) \/ HelloTimeout(s) \/ AuthFails(s) \/ AuthDone(s)
                             \/ ReceiveFtp(s) \/ ReceiveAnswer(s)
       \/ \E v \in Viewers : Subscribe(v) \/ Unsubscribe(v)
       \/ \E r \in Rpcs : StartRpc(r) \/ Withdraw(r)
  BY DEF BridgeNext, vars, serverVars, traceVars, SocketStep, BridgeClose, ServerReceives, ReceiveHello, BridgeReceives,
         ReceiveWatch, ReceiveUnwatch, ReceiveConfig, ReceiveRequest, ReceiveCancel, SyncPrinters, Answer,
         Transfer, Pump
<1> QED
  BY <1>1, <1>2, <1>3, <1>4, <1>5, <1>6, <1>7, <1>8, <1>9, <1>10

-----------------------------------------------------------------------------
(* What a queue of messages will have said once it has been read *)

\* Of the messages of the kinds K the last one counts: whether it is of the kind
\* yes; without one, w.
Told(q, K, yes, w) ==
    LET asks == {n \in 1..Len(q) : q[n].kind \in K} IN
    IF asks = {} THEN w
    ELSE \E n \in asks : (\A m \in asks : m <= n) /\ q[n].kind = yes

LEMMA ToldAppend ==
    ASSUME NEW M, NEW q \in Seq(M), NEW m \in M, NEW K, NEW yes, NEW w \in BOOLEAN
    PROVE  Told(Append(q, m), K, yes, w) <=> IF m.kind \in K THEN m.kind = yes ELSE Told(q, K, yes, w)
<1>. DEFINE a == Append(q, m)
            asks == {n \in 1..Len(q) : q[n].kind \in K}
            more == {n \in 1..Len(a) : a[n].kind \in K}
<1>1. /\ Len(q) \in Nat /\ Len(a) = Len(q) + 1 /\ a[Len(q) + 1] = m
      /\ \A n \in 1..Len(q) : a[n] = q[n]
  OBVIOUS
<1>. HIDE DEF a
<1>2. CASE m.kind \in K
  <2>1. Len(q) + 1 \in more /\ \A n \in more : n <= Len(q) + 1
    BY <1>1, <1>2
  <2>2. \A n \in more : (\A k \in more : k <= n) => n = Len(q) + 1
    BY <1>1, <2>1
  <2>3. Told(a, K, yes, w) <=> m.kind = yes
    BY <1>1, <2>1, <2>2 DEF Told
  <2> QED
    BY <1>2, <2>3 DEF a
<1>3. CASE m.kind \notin K
  <2>1. more = asks
    BY <1>1, <1>3
  <2>2. \A n \in asks : a[n] = q[n]
    BY <1>1
  <2>. HIDE DEF asks, more
  <2>3. Told(a, K, yes, w) <=> IF more = {} THEN w ELSE \E n \in more : (\A k \in more : k <= n) /\ a[n].kind = yes
    BY DEF Told, more
  <2>4. Told(q, K, yes, w) <=> IF asks = {} THEN w ELSE \E n \in asks : (\A k \in asks : k <= n) /\ q[n].kind = yes
    BY DEF Told, asks
  <2>5. Told(a, K, yes, w) <=> Told(q, K, yes, w)
    BY <2>1, <2>2, <2>3, <2>4
  <2> QED
    BY <1>3, <2>5 DEF a
<1> QED
  BY <1>2, <1>3

LEMMA ToldTail ==
    ASSUME NEW M, NEW q \in Seq(M), q # <<>>, NEW K, NEW yes, NEW w \in BOOLEAN
    PROVE  Told(q, K, yes, w) <=> Told(Tail(q), K, yes, IF Head(q).kind \in K THEN Head(q).kind = yes ELSE w)
<1>. DEFINE t == Tail(q)
            h == Head(q)
            v == IF h.kind \in K THEN h.kind = yes ELSE w
            asks == {n \in 1..Len(q) : q[n].kind \in K}
            rest == {n \in 1..Len(t) : t[n].kind \in K}
<1>1. /\ Len(q) \in Nat /\ Len(q) >= 1 /\ Len(t) = Len(q) - 1 /\ q[1] = h
      /\ \A n \in 1..Len(t) : t[n] = q[n + 1]
  OBVIOUS
<1>. HIDE DEF t, h
<1>2. /\ \A n \in Nat : n \in rest <=> (n >= 1 /\ n + 1 \in asks)
      /\ 1 \in asks <=> h.kind \in K
      /\ asks \subseteq Nat \ {0} /\ rest \subseteq Nat \ {0}
  BY <1>1
<1>3. \A n \in rest : t[n] = q[n + 1]
  BY <1>1
<1>. HIDE DEF asks, rest
<1>4. Told(q, K, yes, w) <=> IF asks = {} THEN w ELSE \E n \in asks : (\A k \in asks : k <= n) /\ q[n].kind = yes
  BY DEF Told, asks
<1>5. Told(t, K, yes, v) <=> IF rest = {} THEN v ELSE \E n \in rest : (\A k \in rest : k <= n) /\ t[n].kind = yes
  BY DEF Told, rest
<1>. HIDE DEF v
<1>6. CASE rest = {}
  <2>1. \A n \in asks : n = 1
    <3>1. ASSUME NEW n \in asks, n # 1 PROVE FALSE
      <4>1. n - 1 \in Nat /\ n - 1 >= 1 /\ (n - 1) + 1 = n
        BY <1>2, <3>1
      <4>2. n - 1 \in rest
        BY <1>2, <3>1, <4>1
      <4> QED
        BY <1>6, <4>2
    <3> QED
      BY <3>1
  <2>2. CASE h.kind \in K
    <3>1. asks = {1} /\ v = (h.kind = yes)
      BY <1>2, <2>1, <2>2 DEF v
    <3>2. Told(q, K, yes, w) <=> h.kind = yes
      BY <1>1, <1>4, <3>1
    <3> QED
      BY <1>5, <1>6, <3>1, <3>2 DEF t, h, v
  <2>3. CASE h.kind \notin K
    <3>1. asks = {}
      BY <1>2, <2>1, <2>3
    <3> QED
      BY <1>4, <1>5, <1>6, <2>3, <3>1 DEF t, h, v
  <2> QED
    BY <2>2, <2>3
<1>7. CASE rest # {}
  <2>0. asks # {}
    BY <1>2, <1>7
  <2>1. ASSUME NEW n \in rest, \A k \in rest : k <= n, t[n].kind = yes
        PROVE  n + 1 \in asks /\ (\A k \in asks : k <= n + 1) /\ q[n + 1].kind = yes
    <3>1. ASSUME NEW k \in asks PROVE k <= n + 1
      <4>1. CASE k = 1
        BY <1>2, <4>1
      <4>2. CASE k # 1
        <5>1. k - 1 \in Nat /\ k - 1 >= 1 /\ (k - 1) + 1 = k
          BY <1>2, <4>2
        <5>2. k - 1 \in rest
          BY <1>2, <5>1
        <5> QED
          BY <1>2, <2>1, <5>1, <5>2
      <4> QED
        BY <4>1, <4>2
    <3> QED
      BY <1>2, <1>3, <2>1, <3>1
  <2>2. ASSUME NEW n \in asks, \A k \in asks : k <= n, q[n].kind = yes
        PROVE  n - 1 \in rest /\ (\A k \in rest : k <= n - 1) /\ t[n - 1].kind = yes
    <3>1. \A k \in rest : k <= n - 1
      BY <1>2, <2>2
    <3>2. n - 1 \in Nat /\ n - 1 >= 1 /\ (n - 1) + 1 = n
      <4>1. PICK k \in rest : TRUE
        BY <1>7
      <4> QED
        BY <1>2, <3>1, <4>1
    <3>3. n - 1 \in rest
      BY <1>2, <3>2
    <3> QED
      BY <1>3, <2>2, <3>1, <3>2, <3>3
  <2>3. Told(q, K, yes, w) <=> Told(t, K, yes, v)
    BY <1>4, <1>5, <1>7, <2>0, <2>1, <2>2
  <2> QED
    BY <2>3 DEF t, h, v
<1> QED
  BY <1>6, <1>7

\* What is told may be taken for true where nothing is told.
LEMMA ToldSettled ==
    ASSUME NEW q, NEW K, NEW yes, NEW w \in BOOLEAN, NEW v \in BOOLEAN, Told(q, K, yes, w) <=> v
    PROVE  Told(q, K, yes, v) <=> v
BY DEF Told

\* Nothing is told by messages of other kinds.
Silent(q, K) == \A n \in 1..Len(q) : q[n].kind \notin K

LEMMA SilentTold ==
    ASSUME NEW q, NEW K, NEW yes, NEW w \in BOOLEAN, Silent(q, K)
    PROVE  Told(q, K, yes, w) <=> w
BY DEF Told, Silent

LEMMA SilentAppend ==
    ASSUME NEW M, NEW q \in Seq(M), NEW m \in M, NEW K, Silent(q, K), m.kind \notin K
    PROVE  Silent(Append(q, m), K)
BY DEF Silent

LEMMA SilentTail ==
    ASSUME NEW M, NEW q \in Seq(M), q # <<>>, NEW K, Silent(q, K)
    PROVE  Silent(Tail(q), K) /\ Head(q).kind \notin K
BY DEF Silent
-----------------------------------------------------------------------------
(* The two ends *)

WatchKinds == {"watch", "unwatch"}
FtpKinds == {"active", "idle"}

\* A socket is sent nothing before its session is registered, and the bridge
\* neither streams nor announces transfers on it before it was told to.
EndsInv ==
    /\ \A s \in Sockets :
        /\ client[s] = "unopened" => sock[s] = "none" /\ auth[s] = "none"
        /\ auth[s] # "done" => down[s] = <<>>
        /\ client[s] = "open" /\ auth[s] # "done" => ~watched /\ ~configured /\ Silent(up[s], FtpKinds)
    /\ (\A s \in Sockets : client[s] # "open") => ~watched /\ ~configured

LEMMA OneOpenEnd ==
    ASSUME BridgeOK, NEW s \in Sockets, NEW t \in Sockets, client[s] = "open", client[t] = "open"
    PROVE  s = t
BY DEF BridgeOK, Sockets

LEMMA EndsBegin == BridgeInit => EndsInv
BY DEF BridgeInit, EndsInv

\* A step that neither opens a socket nor tells the bridge something.
LEMMA EndsKept ==
    ASSUME EndsInv, UNCHANGED <<client, watched, configured>>,
           \A s \in Sockets :
               /\ client[s] = "unopened" => sock'[s] = sock[s] /\ auth'[s] = auth[s]
               /\ auth[s] = "done" => auth'[s] = "done"
               /\ auth'[s] # "done" => down'[s] = down[s]
               /\ Silent(up[s], FtpKinds) /\ ~configured => Silent(up'[s], FtpKinds)
    PROVE  EndsInv'
BY DEF EndsInv

LEMMA EndsOfSockets ==
    ASSUME BridgeTypeOK, EndsInv, NEW s \in Sockets, SocketStep(s) \/ AuthDone(s) \/ ReceiveHello(s)
    PROVE  EndsInv'
<1>. USE DEF BridgeTypeOK, serverVars, bridgeVars, wires, traceVars
<1>1. CASE Connect(s)
  <2>1. \A t \in Sockets : client[t] # "open"
    BY <1>1 DEF Connect, BridgeOK, Sockets
  <2>2. ~watched /\ ~configured
    BY <2>1 DEF EndsInv
  <2>3. Silent(<<Message("hello")>>, FtpKinds)
    BY DEF Silent, Message, FtpKinds
  <2>4. /\ up'[s] = <<Message("hello")>> /\ client'[s] = "open"
        /\ \A t \in Sockets : t # s => client'[t] = client[t] /\ sock'[t] = sock[t] /\ up'[t] = up[t]
        /\ UNCHANGED <<auth, down, watched, configured>>
    BY <1>1 DEF Connect, ServerOK, BridgeOK, WiresOK
  <2> QED
    BY <2>1, <2>2, <2>3, <2>4 DEF EndsInv
<1>2. CASE BridgeClose(s)
  <2>1. \A t \in Sockets : client'[t] # "open"
    BY <1>2, OneOpenEnd DEF BridgeClose, BridgeOK
  <2>2. /\ \A t \in Sockets : client'[t] = "unopened" => client[t] = "unopened"
        /\ \A t \in Sockets : down'[t] \in {down[t], <<>>}
        /\ ~watched' /\ ~configured' /\ UNCHANGED <<sock, auth>>
    BY <1>2 DEF BridgeClose, BridgeOK, WiresOK
  <2> QED
    BY <2>1, <2>2 DEF EndsInv
<1>3. CASE ServerClose(s)
  <2>1. \A t \in Sockets : up'[t] \in {up[t], <<>>}
    BY <1>3 DEF ServerClose, WiresOK
  <2>2. /\ UNCHANGED <<client, watched, configured, auth, down>> /\ sock[s] # "none"
        /\ \A t \in Sockets : t # s => sock'[t] = sock[t]
    BY <1>3 DEF ServerClose, ServerOK
  <2>3. Silent(<<>>, FtpKinds)
    BY DEF Silent
  <2> QED
    BY <2>1, <2>2, <2>3, EndsKept DEF EndsInv
<1>4. CASE HelloTimeout(s) \/ AuthFails(s) \/ AuthDone(s)
  <2>1. /\ UNCHANGED <<client, watched, configured, down, up>>
        /\ \A t \in Sockets : sock[t] = "none" => sock'[t] = "none"
        /\ \A t \in Sockets : auth'[t] = auth[t] \/ (t = s /\ auth[t] = "pending")
    BY <1>4 DEF HelloTimeout, AuthFails, AuthDone, Closing, ServerOK
  <2> QED
    BY <2>1, EndsKept DEF EndsInv
<1>6. CASE ReceiveHello(s)
  <2>1. /\ UNCHANGED <<client, watched, configured, down, sock>> /\ sock[s] # "none"
        /\ \A t \in Sockets : auth'[t] = auth[t] \/ (t = s /\ auth[t] = "none")
    BY <1>6 DEF ReceiveHello, Arriving, ServerOK
  <2>2. up[s] \in Seq(UpMessages) /\ up[s] # <<>> /\ \A t \in Sockets : up'[t] = IF t = s THEN Tail(up[s]) ELSE up[t]
    BY <1>6 DEF ReceiveHello, Arriving, WiresOK
  <2>3. \A t \in Sockets : Silent(up[t], FtpKinds) => Silent(up'[t], FtpKinds)
    BY <2>2, SilentTail
  <2> QED
    BY <2>1, <2>3, EndsKept DEF EndsInv
<1> QED
  BY <1>1, <1>2, <1>3, <1>4, <1>6 DEF SocketStep

\* Only the registered session is sent messages.
LEMMA SendDownRegistered ==
    ASSUME ServerOK, WiresOK, NEW m, SendDown(m)
    PROVE  /\ \A s \in Sockets : auth[s] # "done" => down'[s] = down[s]
           /\ \A s \in Sockets : s # current => down'[s] = down[s]
           /\ Reaches(current) => current \in Sockets /\ down'[current] = Append(down[current], m)
           /\ ~Reaches(current) => down' = down
BY DEF SendDown, ServerOK, WiresOK, Reaches

LEMMA SendUpElsewhere ==
    ASSUME WiresOK, NEW t \in Sockets, NEW m, NEW bound, SendUp(t, m, bound)
    PROVE  /\ \A s \in Sockets : s # t => up'[s] = up[s]
           /\ up'[t] = IF client[t] = "open" /\ sock[t] # "closed" THEN Append(up[t], m) ELSE up[t]
BY DEF SendUp, WiresOK

LEMMA EndsOfServer ==
    ASSUME BridgeTypeOK, EndsInv,
           \/ SyncPrinters
           \/ \E v \in Viewers : Subscribe(v) \/ Unsubscribe(v)
           \/ \E r \in Rpcs : StartRpc(r) \/ Withdraw(r)
    PROVE  EndsInv'
<1>1. UNCHANGED <<client, watched, configured, sock, auth, up>>
  BY DEF SyncPrinters, Subscribe, Unsubscribe, StartRpc, Withdraw, serverVars, bridgeVars, wires
<1>2. down' = down \/ \E m \in DownMessages : SendDown(m)
  BY MessagesTyped DEF SyncPrinters, Subscribe, Unsubscribe, StartRpc, Withdraw, wires
<1>3. \A s \in Sockets : auth[s] # "done" => down'[s] = down[s]
  BY <1>2, SendDownRegistered DEF BridgeTypeOK
<1> QED
  BY <1>1, <1>3, EndsKept

LEMMA EndsOfMessages ==
    ASSUME BridgeTypeOK, EndsInv,
           \/ \E s \in Sockets : ReceiveFtp(s) \/ ReceiveAnswer(s) \/ BridgeReceives(s)
           \/ \E r \in Rpcs : Answer(r)
           \/ Transfer
    PROVE  EndsInv'
<1>. USE DEF BridgeTypeOK, serverVars, bridgeVars, wires, traceVars
<1>1. ASSUME NEW s \in Sockets, ReceiveFtp(s) \/ ReceiveAnswer(s) PROVE EndsInv'
  <2>1. UNCHANGED <<client, watched, configured, down, sock, auth>>
    BY <1>1 DEF ReceiveFtp, ReceiveAnswer
  <2>2. up[s] \in Seq(UpMessages) /\ up[s] # <<>> /\ \A t \in Sockets : up'[t] = IF t = s THEN Tail(up[s]) ELSE up[t]
    BY <1>1 DEF ReceiveFtp, ReceiveAnswer, Arriving, WiresOK
  <2>3. \A t \in Sockets : Silent(up[t], FtpKinds) => Silent(up'[t], FtpKinds)
    BY <2>2, SilentTail
  <2> QED
    BY <2>1, <2>3, EndsKept
<1>2. ASSUME NEW s \in Sockets, BridgeReceives(s) PROVE EndsInv'
  <2>1. /\ client[s] = "open" /\ down[s] # <<>> /\ UNCHANGED <<client, sock, auth>>
        /\ \A t \in Sockets : t # s => down'[t] = down[t]
    BY <1>2 DEF BridgeReceives, ReceiveWatch, ReceiveUnwatch, ReceiveConfig, ReceiveRequest, ReceiveCancel,
                Delivered, WiresOK
  <2>2. auth[s] = "done"
    BY <2>1 DEF EndsInv
  <2>3. \A t \in Sockets : client[t] = "open" => t = s
    BY <2>1, OneOpenEnd
  <2> QED
    BY <2>1, <2>2, <2>3 DEF EndsInv
<1>3. ASSUME NEW r \in Rpcs, Answer(r) PROVE EndsInv'
  <2>1. UNCHANGED <<client, watched, configured, down, sock, auth>>
    BY <1>3 DEF Answer
  <2>2. work[r].on \in Sockets /\ SendUp(work[r].on, About("answer", r), MaxUp)
    BY <1>3 DEF Answer, BridgeOK
  <2>3. About("answer", r) \in UpMessages /\ About("answer", r).kind \notin FtpKinds
    BY MessagesTyped DEF About, FtpKinds
  <2>4. \A t \in Sockets : Silent(up[t], FtpKinds) => Silent(up'[t], FtpKinds)
    BY <2>2, <2>3, SendUpElsewhere, SilentAppend DEF WiresOK
  <2> QED
    BY <2>1, <2>4, EndsKept
<1>4. ASSUME Transfer PROVE EndsInv'
  <2>1. UNCHANGED <<client, watched, configured, down, sock, auth>> /\ (~configured => up' = up)
    BY <1>4 DEF Transfer, Announce
  <2> QED
    BY <2>1, EndsKept
<1> QED
  BY <1>1, <1>2, <1>3, <1>4

LEMMA StepsOfBridge ==
    ASSUME [BridgeNext]_vars
    PROVE  \/ UNCHANGED <<serverVars, bridgeVars, wires, traceVars>> /\ (ftpActive' = ftpActive)
           \/ \E s \in Sockets : SocketStep(s) \/ AuthDone(s) \/ ReceiveHello(s)
           \/ \/ SyncPrinters
              \/ \E v \in Viewers : Subscribe(v) \/ Unsubscribe(v)
              \/ \E r \in Rpcs : StartRpc(r) \/ Withdraw(r)
           \/ \/ \E s \in Sockets : ReceiveFtp(s) \/ ReceiveAnswer(s) \/ BridgeReceives(s)
              \/ \E r \in Rpcs : Answer(r)
              \/ Transfer
BY DEF BridgeNext, vars, ServerReceives, Pump, PumpStep

LEMMA EndsStep ==
    ASSUME BridgeTypeOK, EndsInv, [BridgeNext]_vars
    PROVE  EndsInv'
<1>1. CASE UNCHANGED <<serverVars, bridgeVars, wires, traceVars>>
  BY <1>1 DEF serverVars, bridgeVars, wires, EndsInv, Silent
<1> QED
  BY <1>1, StepsOfBridge, EndsOfSockets, EndsOfServer, EndsOfMessages
-----------------------------------------------------------------------------
(* Listeners *)

WatchInv == Reaches(current) /\ ~carried => (Told(down[current], WatchKinds, "watch", watched) <=> listeners # {})

LEMMA WatchInvIs == BridgeTypeOK => (WatchInv <=> WatchFollowsListeners)
BY DEF WatchInv, WatchFollowsListeners, Asked, Told, WatchKinds

LEMMA WatchBegins == BridgeInit => WatchInv
BY DEF BridgeInit, WatchInv, Reaches

\* A step that leaves the session and its listeners as they were.
LEMMA WatchKept ==
    ASSUME WatchInv, UNCHANGED <<current, carried, listeners>>,
           Reaches(current)' => /\ Reaches(current)
                                /\ Told(down'[current], WatchKinds, "watch", watched')
                                     <=> Told(down[current], WatchKinds, "watch", watched)
    PROVE  WatchInv'
BY DEF WatchInv

LEMMA WatchOfSockets ==
    ASSUME BridgeTypeOK, EndsInv, WatchInv, NEW s \in Sockets, SocketStep(s) \/ AuthDone(s) \/ ReceiveHello(s)
    PROVE  WatchInv'
<1>. USE DEF BridgeTypeOK, serverVars, bridgeVars, wires, traceVars
<1>1. CASE Connect(s)
  <2>1. current # s
    BY <1>1, SocketsReal DEF Connect, EndsInv, ServerOK
  <2>2. /\ UNCHANGED <<current, carried, listeners, down, watched>>
        /\ \A t \in Sockets : t # s => client'[t] = client[t] /\ sock'[t] = sock[t]
    BY <1>1 DEF Connect, ServerOK, BridgeOK
  <2> QED
    BY <2>1, <2>2, WatchKept DEF Reaches, ServerOK
<1>2. CASE BridgeClose(s)
  <2>1. UNCHANGED <<current, carried, listeners>> /\ \A t \in Sockets : client'[t] # "open"
    BY <1>2, OneOpenEnd DEF BridgeClose, BridgeOK
  <2> QED
    BY <2>1 DEF WatchInv, Reaches, ServerOK
<1>3. CASE ServerClose(s)
  <2>1. CASE current = s
    BY <1>3, <2>1, SocketsReal DEF ServerClose, ServerOK, Unregister, WatchInv, Reaches
  <2>2. CASE current # s
    BY <1>3, <2>2, WatchKept DEF ServerClose, ServerOK, Reaches
  <2> QED
    BY <2>1, <2>2
<1>4. CASE HelloTimeout(s) \/ AuthFails(s)
  BY <1>4, WatchKept DEF HelloTimeout, AuthFails, Closing, ServerOK, Reaches
<1>5. CASE AuthDone(s)
  <2>1. /\ current' = s /\ (carried' <=> listeners # {}) /\ UNCHANGED <<listeners, client, down, watched>>
        /\ auth[s] = "pending"
    BY <1>5 DEF AuthDone
  <2>2. down[s] = <<>> /\ (client[s] = "open" => ~watched)
    BY <2>1 DEF EndsInv
  <2>3. Told(<<>>, WatchKinds, "watch", FALSE) <=> FALSE
    BY DEF Told
  <2> QED
    BY <2>1, <2>2, <2>3 DEF WatchInv, Reaches, BridgeOK
<1>6. CASE ReceiveHello(s)
  BY <1>6, WatchKept DEF ReceiveHello, Reaches
<1> QED
  BY <1>1, <1>2, <1>3, <1>4, <1>5, <1>6 DEF SocketStep

\* What a message of the server adds to what the bridge will have been told.
LEMMA ToldBySend ==
    ASSUME BridgeTypeOK, NEW m \in DownMessages, SendDown(m), Reaches(current)
    PROVE  Told(down'[current], WatchKinds, "watch", watched)
             <=> IF m.kind \in WatchKinds THEN m.kind = "watch" ELSE Told(down[current], WatchKinds, "watch", watched)
<1>1. current \in Sockets /\ down'[current] = Append(down[current], m)
  BY SendDownRegistered DEF BridgeTypeOK
<1>2. down[current] \in Seq(DownMessages) /\ watched \in BOOLEAN
  BY <1>1 DEF BridgeTypeOK, WiresOK, BridgeOK
<1>3. Told(Append(down[current], m), WatchKinds, "watch", watched)
        <=> IF m.kind \in WatchKinds THEN m.kind = "watch" ELSE Told(down[current], WatchKinds, "watch", watched)
  BY <1>2, ToldAppend
<1> QED
  BY <1>1, <1>3

LEMMA WatchOfServer ==
    ASSUME BridgeTypeOK, WatchInv,
           \/ SyncPrinters
           \/ \E v \in Viewers : Subscribe(v) \/ Unsubscribe(v)
           \/ \E r \in Rpcs : StartRpc(r) \/ Withdraw(r)
    PROVE  WatchInv'
<1>. USE DEF bridgeVars, wires, traceVars
<1>0. UNCHANGED <<current, sock, client, watched>> /\ (Reaches(current)' <=> Reaches(current))
  BY DEF SyncPrinters, Subscribe, Unsubscribe, StartRpc, Withdraw, Reaches, serverVars
<1>1. ASSUME UNCHANGED <<carried, listeners>>,
             down' = down \/ \E m \in DownMessages : SendDown(m) /\ m.kind \notin WatchKinds
      PROVE  WatchInv'
  <2>1. Reaches(current) => (Told(down'[current], WatchKinds, "watch", watched)
                              <=> Told(down[current], WatchKinds, "watch", watched))
    BY <1>1, ToldBySend
  <2> QED
    BY <1>0, <1>1, <2>1, WatchKept
<1>3. CASE SyncPrinters
  <2>1. PICK kind \in Configs : SendDown(Message(kind))
    BY <1>3 DEF SyncPrinters
  <2>2. Message(kind) \in DownMessages /\ Message(kind).kind \notin WatchKinds
    BY MessagesTyped DEF Message, WatchKinds, Configs
  <2> QED
    BY <1>1, <1>3, <2>1, <2>2 DEF SyncPrinters, serverVars, traceVars
<1>4. ASSUME NEW r \in Rpcs, StartRpc(r) PROVE WatchInv'
  BY <1>1, <1>4, MessagesTyped DEF StartRpc, About, WatchKinds
<1>5. ASSUME NEW r \in Rpcs, Withdraw(r) PROVE WatchInv'
  BY <1>1, <1>5, MessagesTyped DEF Withdraw, About, WatchKinds
<1>6. ASSUME NEW v \in Viewers, Subscribe(v) PROVE WatchInv'
  <2>1. listeners' # {} /\ carried' = carried
    BY <1>6 DEF Subscribe
  <2>2. CASE listeners = {}
    <3>1. SendDown(Message("watch")) /\ Message("watch") \in DownMessages
      BY <1>6, <2>2, MessagesTyped DEF Subscribe
    <3>2. Reaches(current) => Told(down'[current], WatchKinds, "watch", watched)
      BY <3>1, ToldBySend DEF Message, WatchKinds
    <3> QED
      BY <1>0, <2>1, <3>2 DEF WatchInv
  <2>3. CASE listeners # {}
    BY <1>0, <1>6, <2>1, <2>3 DEF Subscribe, WatchInv
  <2> QED
    BY <2>2, <2>3
<1>7. ASSUME NEW v \in Viewers, Unsubscribe(v) PROVE WatchInv'
  <2>1. CASE listeners' = {}
    <3>1. SendDown(Message("unwatch")) /\ Message("unwatch") \in DownMessages
      BY <1>7, <2>1, MessagesTyped DEF Unsubscribe
    <3>2. Reaches(current) => ~Told(down'[current], WatchKinds, "watch", watched)
      BY <3>1, ToldBySend DEF Message, WatchKinds
    <3> QED
      BY <1>0, <2>1, <3>2 DEF WatchInv
  <2>2. CASE listeners' # {}
    <3>1. down' = down /\ listeners # {} /\ (carried' <=> carried)
      BY <1>7, <2>2 DEF Unsubscribe
    <3> QED
      BY <1>0, <2>2, <3>1 DEF WatchInv
  <2> QED
    BY <2>1, <2>2
<1> QED
  BY <1>3, <1>4, <1>5, <1>6, <1>7

LEMMA WatchOfMessages ==
    ASSUME BridgeTypeOK, WatchInv,
           \/ \E s \in Sockets : ReceiveFtp(s) \/ ReceiveAnswer(s) \/ BridgeReceives(s)
           \/ \E r \in Rpcs : Answer(r)
           \/ Transfer
    PROVE  WatchInv'
<1>. USE DEF BridgeTypeOK, serverVars, bridgeVars, wires, traceVars
<1>1. ASSUME NEW s \in Sockets, ReceiveFtp(s) \/ ReceiveAnswer(s) PROVE WatchInv'
  BY <1>1, WatchKept DEF ReceiveFtp, ReceiveAnswer, Reaches
<1>2. ASSUME NEW s \in Sockets, BridgeReceives(s) PROVE WatchInv'
  <2>1. /\ UNCHANGED <<current, carried, listeners, sock, client>>
        /\ client[s] = "open" /\ down[s] \in Seq(DownMessages) /\ down[s] # <<>> /\ down'[s] = Tail(down[s])
        /\ \A t \in Sockets : t # s => down'[t] = down[t]
    BY <1>2 DEF BridgeReceives, ReceiveWatch, ReceiveUnwatch, ReceiveConfig, ReceiveRequest, ReceiveCancel,
                Delivered, WiresOK
  <2>2. watched' <=> IF Head(down[s]).kind \in WatchKinds THEN Head(down[s]).kind = "watch" ELSE watched
    <3>1. CASE ReceiveConfig(s)
      <4>1. Head(down[s]).kind \in Configs /\ watched' = watched
        BY <3>1 DEF ReceiveConfig, Delivered
      <4> QED
        BY <4>1 DEF Configs, WatchKinds
    <3>2. CASE ReceiveWatch(s) \/ ReceiveUnwatch(s) \/ ReceiveRequest(s) \/ ReceiveCancel(s)
      BY <3>2 DEF ReceiveWatch, ReceiveUnwatch, ReceiveRequest, ReceiveCancel, Delivered, WatchKinds
    <3> QED
      BY <1>2, <3>1, <3>2 DEF BridgeReceives
  <2>3. CASE Reaches(current)
    <3>1. current = s
      BY <2>1, <2>3, OneOpenEnd DEF Reaches, ServerOK
    <3>2. watched \in BOOLEAN /\ watched' \in BOOLEAN
      BY <1>2, TypesOfMessages DEF BridgeOK
    <3>3. watched' = IF Head(down[s]).kind \in WatchKinds THEN Head(down[s]).kind = "watch" ELSE watched
      BY <2>2, <3>2
    <3>4. Told(down'[current], WatchKinds, "watch", watched') <=> Told(down[current], WatchKinds, "watch", watched)
      BY <2>1, <3>1, <3>2, <3>3, ToldTail
    <3> QED
      BY <2>1, <2>3, <3>4, WatchKept
  <2>4. CASE ~Reaches(current)
    BY <2>1, <2>4, WatchKept DEF Reaches
  <2> QED
    BY <2>3, <2>4
<1>3. ASSUME NEW r \in Rpcs, Answer(r) PROVE WatchInv'
  BY <1>3, WatchKept DEF Answer, Reaches
<1>4. ASSUME Transfer PROVE WatchInv'
  BY <1>4, WatchKept DEF Transfer, Reaches
<1> QED
  BY <1>1, <1>2, <1>3, <1>4

LEMMA WatchStep ==
    ASSUME BridgeTypeOK, EndsInv, WatchInv, [BridgeNext]_vars
    PROVE  WatchInv'
<1>1. CASE UNCHANGED <<serverVars, bridgeVars, wires, traceVars>>
  BY <1>1, WatchKept DEF serverVars, bridgeVars, wires, traceVars, Reaches
<1> QED
  BY <1>1, StepsOfBridge, WatchOfSockets, WatchOfServer, WatchOfMessages

-----------------------------------------------------------------------------
(* FTPS activity *)

\* What the bridge has to announce: a transfer of a printer it looks after.
Announceable == configured /\ ftpActive

\* What the server will take for true of the printer's transfers once it has read
\* what is under way, unless another session told it otherwise.
Announced == Told(up[current], FtpKinds, "active", IF staleFlag THEN Announceable ELSE ftpFlag)

FtpInv == Reaches(current) /\ ~lapsed => (Announced <=> Announceable)

LEMMA FtpBegins == BridgeInit => FtpInv
BY DEF BridgeInit, FtpInv, Reaches

LEMMA FtpSuffices ==
    ASSUME BridgeTypeOK, FtpInv
    PROVE  FtpFlagFollows
BY DEF FtpInv, Announced, Announceable, Told, FtpFlagFollows, BridgeTypeOK, ServerOK, CameraTypeOK

\* A step that tells the server nothing of transfers.
LEMMA FtpKept ==
    ASSUME FtpInv, UNCHANGED <<current, ftpFlag, staleFlag, lapsed, configured, ftpActive>>,
           Reaches(current)' => /\ Reaches(current)
                                /\ Announced' <=> Announced
    PROVE  FtpInv'
BY DEF FtpInv, Announceable

LEMMA FtpOfSockets ==
    ASSUME BridgeTypeOK, SessionAccounted, EndsInv, FtpInv,
           NEW s \in Sockets, SocketStep(s) \/ AuthDone(s) \/ ReceiveHello(s)
    PROVE  FtpInv'
<1>. USE DEF BridgeTypeOK, serverVars, bridgeVars, wires, traceVars
<1>1. CASE Connect(s)
  <2>1. current # s
    BY <1>1, SocketsReal DEF Connect, EndsInv, ServerOK
  <2>2. /\ UNCHANGED <<current, ftpFlag, staleFlag, lapsed, configured, ftpActive>>
        /\ \A t \in Sockets : t # s => client'[t] = client[t] /\ sock'[t] = sock[t] /\ up'[t] = up[t]
    BY <1>1 DEF Connect, ServerOK, BridgeOK, WiresOK
  <2> QED
    BY <2>1, <2>2, FtpKept DEF Reaches, ServerOK, Announced, Announceable
<1>2. CASE BridgeClose(s)
  <2>1. UNCHANGED current /\ \A t \in Sockets : client'[t] # "open"
    BY <1>2, OneOpenEnd DEF BridgeClose, BridgeOK
  <2> QED
    BY <2>1 DEF FtpInv, Reaches, ServerOK
<1>3. CASE ServerClose(s)
  <2>1. CASE current = s
    BY <1>3, <2>1, SocketsReal DEF ServerClose, ServerOK, Unregister, FtpInv, Reaches
  <2>2. CASE current # s
    BY <1>3, <2>2, FtpKept DEF ServerClose, ServerOK, Reaches, WiresOK, Announced, Announceable
  <2> QED
    BY <2>1, <2>2
<1>4. CASE HelloTimeout(s) \/ AuthFails(s)
  BY <1>4, FtpKept DEF HelloTimeout, AuthFails, Closing, ServerOK, Reaches, Announced, Announceable
<1>5. CASE AuthDone(s)
  <2>1. /\ current' = s /\ UNCHANGED <<client, up, configured, ftpActive, ftpFlag>> /\ auth[s] = "pending"
        /\ staleFlag' = (staleFlag \/ (current # NoSocket /\ ftpFlag))
    BY <1>5 DEF AuthDone
  <2>2. client[s] = "open" => ~configured /\ Silent(up[s], FtpKinds)
    BY <2>1 DEF EndsInv
  <2>3. ftpFlag => staleFlag'
    BY <2>1 DEF SessionAccounted
  <2>4. ASSUME client[s] = "open" PROVE ~Announced' /\ ~Announceable'
    <3>1. Told(up[s], FtpKinds, "active", FALSE) <=> FALSE
      BY <2>2, <2>4, SilentTold
    <3>2. ~Announceable'
      BY <2>1, <2>2, <2>4 DEF Announceable
    <3>3. (IF staleFlag' THEN Announceable' ELSE ftpFlag') = FALSE
      BY <2>1, <2>3, <3>2 DEF ServerOK, Announceable, CameraTypeOK
    <3> QED
      BY <2>1, <3>1, <3>2, <3>3 DEF Announced
  <2> QED
    BY <2>1, <2>4 DEF FtpInv, Reaches
<1>6. CASE ReceiveHello(s)
  <2>1. /\ UNCHANGED <<current, ftpFlag, staleFlag, lapsed, configured, ftpActive, client, sock>>
        /\ up[s] \in Seq(UpMessages) /\ up[s] # <<>> /\ Head(up[s]).kind \notin FtpKinds
        /\ \A t \in Sockets : up'[t] = IF t = s THEN Tail(up[s]) ELSE up[t]
    BY <1>6 DEF ReceiveHello, Arriving, WiresOK, FtpKinds
  <2>2. \A w \in BOOLEAN : Told(Tail(up[s]), FtpKinds, "active", w) <=> Told(up[s], FtpKinds, "active", w)
    BY <2>1, ToldTail
  <2> QED
    BY <2>1, <2>2, FtpKept DEF Reaches, Announced, Announceable, ServerOK, CameraTypeOK
<1> QED
  BY <1>1, <1>2, <1>3, <1>4, <1>5, <1>6 DEF SocketStep

LEMMA FtpOfServer ==
    ASSUME BridgeTypeOK, FtpInv,
           \/ SyncPrinters
           \/ \E v \in Viewers : Subscribe(v) \/ Unsubscribe(v)
           \/ \E r \in Rpcs : StartRpc(r) \/ Withdraw(r)
    PROVE  FtpInv'
<1>1. UNCHANGED <<current, sock, client, configured, up, ftpFlag, staleFlag, lapsed, ftpActive>>
  BY DEF SyncPrinters, Subscribe, Unsubscribe, StartRpc, Withdraw, serverVars, bridgeVars, wires, traceVars
<1> QED
  BY <1>1, FtpKept DEF Reaches, Announced, Announceable

LEMMA FtpOfMessages ==
    ASSUME BridgeTypeOK, EndsInv, FtpInv,
           \/ \E s \in Sockets : ReceiveFtp(s) \/ ReceiveAnswer(s) \/ BridgeReceives(s)
           \/ \E r \in Rpcs : Answer(r)
           \/ Transfer
    PROVE  FtpInv'
<1>. USE DEF BridgeTypeOK, serverVars, bridgeVars, wires, traceVars
<1>. DEFINE w == IF staleFlag THEN Announceable ELSE ftpFlag
<1>0. w \in BOOLEAN /\ Announceable \in BOOLEAN
  BY DEF Announceable, ServerOK, CameraTypeOK
<1>1. ASSUME NEW s \in Sockets, ReceiveAnswer(s) PROVE FtpInv'
  <2>1. /\ UNCHANGED <<current, ftpFlag, staleFlag, lapsed, configured, ftpActive, client, sock>>
        /\ up[s] \in Seq(UpMessages) /\ up[s] # <<>> /\ Head(up[s]).kind \notin FtpKinds
        /\ \A t \in Sockets : up'[t] = IF t = s THEN Tail(up[s]) ELSE up[t]
    BY <1>1 DEF ReceiveAnswer, Arriving, WiresOK, FtpKinds
  <2>2. \A v \in BOOLEAN : Told(Tail(up[s]), FtpKinds, "active", v) <=> Told(up[s], FtpKinds, "active", v)
    BY <2>1, ToldTail
  <2> QED
    BY <1>0, <2>1, <2>2, FtpKept DEF Reaches, Announced, Announceable, ServerOK
<1>2. ASSUME NEW s \in Sockets, ReceiveFtp(s) PROVE FtpInv'
  <2>1. /\ UNCHANGED <<current, configured, ftpActive, lapsed, client, sock>>
        /\ up[s] \in Seq(UpMessages) /\ up[s] # <<>> /\ Head(up[s]).kind \in FtpKinds
        /\ \A t \in Sockets : up'[t] = IF t = s THEN Tail(up[s]) ELSE up[t]
        /\ (staleFlag' <=> s # current) /\ (ftpFlag' <=> Head(up[s]).kind = "active")
    BY <1>2 DEF ReceiveFtp, Arriving, WiresOK, FtpKinds
  <2>2. Reaches(current)' <=> Reaches(current)
    BY <2>1 DEF Reaches
  <2>3. CASE s = current /\ Reaches(current)
    <3>2. Told(Tail(up[s]), FtpKinds, "active", Head(up[s]).kind = "active") <=> Told(up[s], FtpKinds, "active", w)
      BY <1>0, <2>1, ToldTail
    <3>3. Announced <=> Told(up[s], FtpKinds, "active", w)
      BY <2>3 DEF Announced
    <3>4. (ftpFlag' = (Head(up[s]).kind = "active")) /\ ~staleFlag'
      BY <1>2, <2>1, <2>3, TypesOfMessages DEF ServerOK
    <3>5. Announced' <=> Told(Tail(up[s]), FtpKinds, "active", Head(up[s]).kind = "active")
      BY <2>1, <2>3, <3>4 DEF Announced
    <3> QED
      BY <2>1, <2>2, <2>3, <3>2, <3>3, <3>5 DEF FtpInv, Announceable
  <2>4. CASE s # current /\ Reaches(current)
    <3>1. staleFlag' /\ up'[current] = up[current]
      BY <2>1, <2>4 DEF ServerOK, Reaches
    <3>2. Announceable' = Announceable
      BY <2>1 DEF Announceable
    <3>3. Announced' <=> Told(up[current], FtpKinds, "active", Announceable)
      BY <2>1, <3>1, <3>2 DEF Announced
    <3>4. ~lapsed => (Told(up[current], FtpKinds, "active", w) <=> Announceable)
      BY <2>4 DEF FtpInv, Announced
    <3>5. ~lapsed => (Told(up[current], FtpKinds, "active", Announceable) <=> Announceable)
      BY <1>0, <3>4, ToldSettled
    <3> QED
      BY <2>1, <3>2, <3>3, <3>5 DEF FtpInv
  <2> QED
    BY <2>2, <2>3, <2>4 DEF FtpInv
<1>3. ASSUME NEW s \in Sockets, BridgeReceives(s) PROVE FtpInv'
  <2>1. UNCHANGED <<current, sock, client, ftpFlag, staleFlag, ftpActive>> /\ client[s] = "open"
    BY <1>3 DEF BridgeReceives, ReceiveWatch, ReceiveUnwatch, ReceiveConfig, ReceiveRequest, ReceiveCancel, Delivered
  <2>2. CASE ~ReceiveConfig(s)
    <3>1. UNCHANGED <<configured, up, lapsed>>
      BY <1>3, <2>2 DEF BridgeReceives, ReceiveWatch, ReceiveUnwatch, ReceiveRequest, ReceiveCancel
    <3> QED
      BY <2>1, <3>1, FtpKept DEF Reaches, Announced, Announceable
  <2>3. CASE ReceiveConfig(s) /\ Reaches(current)
    <3>1. current = s /\ up[s] \in Seq(UpMessages) /\ sock[s] = "open"
      BY <2>1, <2>3, OneOpenEnd DEF Reaches, ServerOK, WiresOK
    <3>2. configured' \in BOOLEAN
      BY <2>3 DEF ReceiveConfig
    <3>3. CASE configured' /\ ftpActive
      <4>1. up'[s] = Append(up[s], Message("active"))
        BY <2>1, <2>3, <3>1, <3>3, SendUpElsewhere DEF ReceiveConfig
      <4>2. \A v \in BOOLEAN : Told(up'[s], FtpKinds, "active", v)
        BY <3>1, <4>1, MessagesTyped, ToldAppend DEF Message, FtpKinds
      <4>3. (IF staleFlag' THEN Announceable' ELSE ftpFlag') \in BOOLEAN
        BY <2>1 DEF Announceable, ServerOK
      <4>4. Announced'
        BY <2>1, <3>1, <4>2, <4>3 DEF Announced
      <4> QED
        BY <2>1, <3>3, <4>4 DEF FtpInv, Announceable
    <3>4. CASE ~(configured' /\ ftpActive) /\ ~lapsed'
      <4>1. up' = up /\ ~lapsed /\ ~(configured /\ ftpActive)
        BY <2>3, <3>4 DEF ReceiveConfig, CameraTypeOK
      <4>2. ~Announceable /\ ~Announceable'
        BY <2>1, <3>4, <4>1 DEF Announceable
      <4>3. Announceable' = Announceable
        BY <3>2, <4>2, <1>0 DEF Announceable
      <4>4. Announced' <=> Announced
        BY <2>1, <4>1, <4>3 DEF Announced
      <4> QED
        BY <2>3, <4>1, <4>2, <4>4 DEF FtpInv
    <3> QED
      BY <3>3, <3>4 DEF FtpInv
  <2>4. CASE ~Reaches(current)
    BY <2>1, <2>4 DEF FtpInv, Reaches
  <2> QED
    BY <2>2, <2>3, <2>4
<1>4. ASSUME NEW r \in Rpcs, Answer(r) PROVE FtpInv'
  <2>1. UNCHANGED <<current, sock, client, ftpFlag, staleFlag, lapsed, ftpActive, configured>>
    BY <1>4 DEF Answer
  <2>2. work[r].on \in Sockets /\ SendUp(work[r].on, About("answer", r), MaxUp)
    BY <1>4 DEF Answer, BridgeOK
  <2>3. About("answer", r) \in UpMessages /\ About("answer", r).kind \notin FtpKinds
    BY MessagesTyped DEF About, FtpKinds
  <2>4. \A t \in Sockets : \/ up'[t] = up[t]
                           \/ up'[t] = Append(up[t], About("answer", r)) /\ up[t] \in Seq(UpMessages)
    BY <2>2, SendUpElsewhere DEF WiresOK
  <2>5. ASSUME NEW t \in Sockets
        PROVE  Told(up'[t], FtpKinds, "active", w) <=> Told(up[t], FtpKinds, "active", w)
    <3>1. CASE up'[t] = up[t]
      BY <3>1
    <3>2. CASE up'[t] = Append(up[t], About("answer", r)) /\ up[t] \in Seq(UpMessages)
      <4>1. Told(Append(up[t], About("answer", r)), FtpKinds, "active", w) <=> Told(up[t], FtpKinds, "active", w)
        BY <1>0, <2>3, <3>2, ToldAppend
      <4> QED
        BY <3>2, <4>1
    <3> QED
      BY <2>4, <3>1, <3>2
  <2> QED
    BY <2>1, <2>5, FtpKept DEF Reaches, Announced, Announceable, ServerOK
<1>5. ASSUME Transfer PROVE FtpInv'
  <2>1. UNCHANGED <<current, sock, client, ftpFlag, staleFlag, configured>>
    BY <1>5 DEF Transfer
  <2>2. CASE configured /\ Reaches(current)
    <3>1. PICK k \in FtpKinds : Announce(k) /\ (ftpActive' <=> k = "active") /\ ftpActive' \in BOOLEAN
      BY <1>5 DEF Transfer, BeginTransfer, EndTransfer, FtpKinds
    <3>2. PICK t \in Sockets : client[t] = "open" /\ SendUp(t, Message(k), MaxUp)
      BY <2>2, <3>1 DEF Announce
    <3>3. t = current /\ sock[t] = "open"
      BY <2>2, <3>2, OneOpenEnd DEF Reaches, ServerOK
    <3>4. up'[t] = Append(up[t], Message(k)) /\ up[t] \in Seq(UpMessages)
      BY <3>2, <3>3, SendUpElsewhere DEF WiresOK
    <3>5. Message(k) \in UpMessages /\ Message(k).kind = k
      BY MessagesTyped DEF Message, FtpKinds
    <3>6. \A v \in BOOLEAN : Told(up'[t], FtpKinds, "active", v) <=> k = "active"
      BY <3>4, <3>5, ToldAppend
    <3>7. (IF staleFlag' THEN Announceable' ELSE ftpFlag') \in BOOLEAN
      BY <2>1, <3>1 DEF Announceable, ServerOK
    <3>8. Announced' <=> ftpActive'
      BY <2>1, <3>1, <3>3, <3>6, <3>7 DEF Announced
    <3> QED
      BY <2>1, <2>2, <3>8 DEF FtpInv, Announceable
  <2>3. CASE ~configured /\ Reaches(current)
    <3>1. up' = up /\ lapsed' = (lapsed /\ ~configured)
      BY <1>5, <2>3 DEF Transfer, Announce
    <3>2. Announceable = FALSE /\ Announceable' = FALSE
      BY <2>1, <2>3, <1>0 DEF Announceable
    <3>3. Announced' <=> Announced
      BY <2>1, <3>1, <3>2 DEF Announced
    <3> QED
      BY <2>3, <3>1, <3>2, <3>3 DEF FtpInv
  <2>4. CASE ~Reaches(current)
    BY <2>1, <2>4 DEF FtpInv, Reaches
  <2> QED
    BY <2>2, <2>3, <2>4
<1> QED
  BY <1>1, <1>2, <1>3, <1>4, <1>5

LEMMA FtpStep ==
    ASSUME BridgeTypeOK, SessionAccounted, EndsInv, FtpInv, [BridgeNext]_vars
    PROVE  FtpInv'
<1>1. CASE UNCHANGED <<serverVars, bridgeVars, wires, traceVars>> /\ ftpActive' = ftpActive
  BY <1>1, FtpKept DEF serverVars, bridgeVars, wires, traceVars, Reaches, Announced, Announceable
<1> QED
  BY <1>1, StepsOfBridge, FtpOfSockets, FtpOfServer, FtpOfMessages
-----------------------------------------------------------------------------
(* Calls that were given up *)

Cancels(q, r) == \E m \in 1..Len(q) : q[m] = About("cancel", r)

\* After a request for r its cancel is under way.
Covered(q, r) ==
    \A n \in 1..Len(q) : q[n].kind = "request" /\ r \in q[n].rpc =>
        \E m \in 1..Len(q) : m > n /\ q[m] = About("cancel", r)

LEMMA CoveredTail ==
    ASSUME NEW M, NEW q \in Seq(M), q # <<>>, NEW r, Covered(q, r)
    PROVE  /\ Covered(Tail(q), r)
           /\ Cancels(q, r) /\ Head(q) # About("cancel", r) => Cancels(Tail(q), r)
           /\ Head(q).kind = "request" /\ r \in Head(q).rpc => Cancels(Tail(q), r)
<1>. DEFINE t == Tail(q)
<1>1. /\ Len(q) \in Nat /\ Len(q) >= 1 /\ Len(t) = Len(q) - 1 /\ Head(q) = q[1]
      /\ \A n \in 1..Len(t) : n + 1 \in 1..Len(q) /\ t[n] = q[n + 1]
      /\ \A n \in 1..Len(q) : n > 1 => n - 1 \in 1..Len(t) /\ t[n - 1] = q[n]
  OBVIOUS
<1>. HIDE DEF t
<1>2. ASSUME NEW n \in 1..Len(t), t[n].kind = "request", r \in t[n].rpc
      PROVE  \E m \in 1..Len(t) : m > n /\ t[m] = About("cancel", r)
  <2>1. PICK m \in 1..Len(q) : m > n + 1 /\ q[m] = About("cancel", r)
    BY <1>1, <1>2 DEF Covered
  <2>2. m - 1 \in 1..Len(t) /\ m - 1 > n /\ t[m - 1] = About("cancel", r)
    BY <1>1, <2>1
  <2> QED
    BY <2>2
<1>3. ASSUME NEW m \in 1..Len(q), m > 1, q[m] = About("cancel", r) PROVE Cancels(t, r)
  <2>1. m - 1 \in 1..Len(t) /\ t[m - 1] = About("cancel", r)
    BY <1>1, <1>3
  <2> QED
    BY <2>1 DEF Cancels
<1>4. Cancels(q, r) /\ Head(q) # About("cancel", r) => Cancels(t, r)
  BY <1>1, <1>3 DEF Cancels
<1>5. Head(q).kind = "request" /\ r \in Head(q).rpc => Cancels(t, r)
  <2>1. 1 \in 1..Len(q)
    BY <1>1
  <2>2. Head(q).kind = "request" /\ r \in Head(q).rpc => \E m \in 1..Len(q) : m > 1 /\ q[m] = About("cancel", r)
    BY <1>1, <2>1 DEF Covered
  <2> QED
    BY <1>3, <2>2
<1>6. Covered(t, r)
  BY <1>2 DEF Covered
<1> QED
  BY <1>4, <1>5, <1>6 DEF t

LEMMA CoveredAppend ==
    ASSUME NEW M, NEW q \in Seq(M), NEW m \in M, NEW r
    PROVE  /\ Cancels(q, r) => Cancels(Append(q, m), r)
           /\ Covered(q, r) /\ ~(m.kind = "request" /\ r \in m.rpc) => Covered(Append(q, m), r)
           /\ m = About("cancel", r) => Covered(Append(q, m), r) /\ Cancels(Append(q, m), r)
<1>. DEFINE a == Append(q, m)
<1>1. /\ Len(q) \in Nat /\ Len(a) = Len(q) + 1 /\ a[Len(q) + 1] = m /\ Len(q) + 1 \in 1..Len(a)
      /\ \A n \in 1..Len(q) : n \in 1..Len(a) /\ a[n] = q[n]
      /\ \A n \in 1..Len(a) : n = Len(q) + 1 \/ n \in 1..Len(q)
      /\ \A n \in 1..Len(q) : Len(q) + 1 > n
  OBVIOUS
<1>. HIDE DEF a
<1>2. Cancels(q, r) => Cancels(a, r)
  BY <1>1 DEF Cancels
<1>3. ASSUME Covered(q, r), ~(m.kind = "request" /\ r \in m.rpc) PROVE Covered(a, r)
  BY <1>1, <1>3 DEF Covered
<1>4. ASSUME m = About("cancel", r) PROVE Covered(a, r) /\ Cancels(a, r)
  <2>1. m.kind # "request"
    BY <1>4 DEF About
  <2>2. Cancels(a, r)
    BY <1>1, <1>4 DEF Cancels
  <2>3. Covered(a, r)
    BY <1>1, <1>4, <2>1 DEF Covered
  <2> QED
    BY <2>2, <2>3
<1> QED
  BY <1>2, <1>3, <1>4 DEF a

AbortInv ==
    /\ \A s \in Sockets : client[s] # "open" => down[s] = <<>>
    /\ \A r \in Rpcs : work[r].at # "none" => client[work[r].on] # "unopened"
    /\ \A r \in Rpcs \ cut : rpc[r] = "withdrawn" =>
        /\ \A s \in Sockets : Covered(down[s], r)
        /\ work[r].at = "running" => client[work[r].on] = "closed" \/ Cancels(down[work[r].on], r)

LEMMA AbortBegins == BridgeInit => AbortInv
BY DEF BridgeInit, AbortInv, NoWork

LEMMA AbortSuffices ==
    ASSUME BridgeTypeOK, AbortInv
    PROVE  WithdrawnWorkAborted
<1>. SUFFICES ASSUME NEW r \in Rpcs \ cut, rpc[r] = "withdrawn", work[r].at = "running", client[work[r].on] # "closed"
              PROVE  \E s \in Sockets, n \in 1..MaxDown : n <= Len(down[s]) /\ down[s][n] = About("cancel", r)
  BY DEF WithdrawnWorkAborted
<1>1. work[r].on \in Sockets
  BY DEF BridgeTypeOK, BridgeOK
<1>2. PICK n \in 1..Len(down[work[r].on]) : down[work[r].on][n] = About("cancel", r)
  BY DEF AbortInv, Cancels
<1>3. Len(down[work[r].on]) \in Nat /\ Len(down[work[r].on]) <= MaxDown
  BY <1>1 DEF BridgeTypeOK, WiresOK
<1>4. n \in 1..MaxDown /\ n <= Len(down[work[r].on])
  BY <1>2, <1>3, SessionAssumption DEF SessionAssumption
<1> QED
  BY <1>1, <1>2, <1>4

\* A step that takes nothing from the bridge's queues, closes no end of it and
\* begins no work.
LEMMA AbortKept ==
    ASSUME AbortInv, BridgeOK, UNCHANGED <<client, cut>>,
           \A s \in Sockets : client[s] # "open" => down'[s] = down[s],
           \A r \in Rpcs : /\ rpc'[r] = "withdrawn" => rpc[r] = "withdrawn"
                           /\ work'[r] = work[r] \/ work'[r] = NoWork,
           \A r \in Rpcs, s \in Sockets : rpc[r] = "withdrawn" =>
               /\ Covered(down[s], r) => Covered(down'[s], r)
               /\ Cancels(down[s], r) => Cancels(down'[s], r)
    PROVE  AbortInv'
<1>1. \A s \in Sockets : client'[s] # "open" => down'[s] = <<>>
  BY DEF AbortInv
<1>2. \A r \in Rpcs : work'[r].at # "none" => work'[r] = work[r]
  BY DEF NoWork
<1>3. \A r \in Rpcs : work'[r].at # "none" => client'[work'[r].on] # "unopened"
  BY <1>2 DEF AbortInv
<1>4. ASSUME NEW r \in Rpcs \ cut', rpc'[r] = "withdrawn"
      PROVE  /\ \A s \in Sockets : Covered(down'[s], r)
             /\ work'[r].at = "running" => client'[work'[r].on] = "closed" \/ Cancels(down'[work'[r].on], r)
  <2>1. rpc[r] = "withdrawn" /\ r \in Rpcs \ cut
    BY <1>4
  <2>2. \A s \in Sockets : Covered(down'[s], r)
    BY <2>1 DEF AbortInv
  <2>3. ASSUME work'[r].at = "running" PROVE client'[work'[r].on] = "closed" \/ Cancels(down'[work'[r].on], r)
    <3>1. work'[r] = work[r] /\ work[r].on \in Sockets /\ work[r].at = "running"
      BY <1>2, <2>1, <2>3 DEF BridgeOK
    <3> QED
      BY <2>1, <3>1 DEF AbortInv
  <2> QED
    BY <2>2, <2>3
<1> QED
  BY <1>1, <1>3, <1>4 DEF AbortInv

LEMMA AbortOfSockets ==
    ASSUME BridgeTypeOK, AbortInv, NEW s \in Sockets, SocketStep(s) \/ AuthDone(s) \/ ReceiveHello(s)
    PROVE  AbortInv'
<1>. USE DEF BridgeTypeOK, bridgeVars, wires, traceVars
<1>1. CASE Connect(s)
  <2>1. \A t \in Sockets : client'[t] = client[t] \/ (t = s /\ client[t] = "unopened" /\ client'[t] = "open")
    BY <1>1 DEF Connect, BridgeOK
  <2>2. \A r \in Rpcs : work[r].at # "none" => client'[work[r].on] = client[work[r].on]
    BY <2>1 DEF AbortInv, BridgeOK
  <2>3. UNCHANGED <<work, rpc, cut, down>>
    BY <1>1 DEF Connect
  <2>4. \A t \in Sockets : client'[t] # "open" => client[t] # "open"
    BY <2>1
  <2> QED
    BY <2>2, <2>3, <2>4 DEF AbortInv
<1>2. CASE BridgeClose(s)
  <2>1. \A t \in Sockets : IF t = s THEN client'[t] = "closed" /\ down'[t] = <<>>
                           ELSE client'[t] = client[t] /\ down'[t] = down[t]
    BY <1>2 DEF BridgeClose, BridgeOK, WiresOK
  <2>2. UNCHANGED <<work, rpc, cut>> /\ \A r \in Rpcs : work[r].at # "none" => work[r].on \in Sockets
    BY <1>2 DEF BridgeClose, serverVars, BridgeOK
  <2>3. \A r : Covered(<<>>, r)
    BY DEF Covered
  <2> QED
    BY <2>1, <2>2, <2>3 DEF AbortInv
<1>3. CASE ~Connect(s) /\ ~BridgeClose(s)
  <2>1. UNCHANGED <<client, down, work, cut>>
    BY <1>3 DEF SocketStep, ServerClose, HelloTimeout, AuthFails, AuthDone, ReceiveHello
  <2>2. \A r \in Rpcs : rpc'[r] = "withdrawn" => rpc[r] = "withdrawn"
    BY <1>3 DEF SocketStep, ServerClose, Unregister, Dropped, HelloTimeout, AuthFails, AuthDone, ReceiveHello
  <2> QED
    BY <2>1, <2>2, AbortKept
<1> QED
  BY <1>1, <1>2, <1>3

\* A message to the bridge that is not a request of a call given up.
LEMMA AbortSent ==
    ASSUME BridgeTypeOK, AbortInv, NEW m \in DownMessages, SendDown(m), UNCHANGED <<client, cut, work>>,
           \A r \in Rpcs : /\ rpc'[r] = "withdrawn" => rpc[r] = "withdrawn"
                           /\ rpc[r] = "withdrawn" => ~(m.kind = "request" /\ r \in m.rpc)
    PROVE  AbortInv'
<1>1. \A s \in Sockets : down'[s] = down[s] \/ (client[s] = "open" /\ down'[s] = Append(down[s], m))
  BY SendDownRegistered DEF BridgeTypeOK, Reaches
<1>2. ASSUME NEW r \in Rpcs, NEW s \in Sockets, rpc[r] = "withdrawn"
      PROVE  /\ Covered(down[s], r) => Covered(down'[s], r)
             /\ Cancels(down[s], r) => Cancels(down'[s], r)
  <2>1. down[s] \in Seq(DownMessages) /\ ~(m.kind = "request" /\ r \in m.rpc)
    BY <1>2 DEF BridgeTypeOK, WiresOK
  <2>2. /\ Covered(down[s], r) => Covered(Append(down[s], m), r)
        /\ Cancels(down[s], r) => Cancels(Append(down[s], m), r)
    BY <2>1, CoveredAppend
  <2> QED
    BY <1>1, <2>2
<1> QED
  BY <1>1, <1>2, AbortKept DEF BridgeTypeOK

LEMMA AbortOfServer ==
    ASSUME BridgeTypeOK, AbortInv,
           \/ SyncPrinters
           \/ \E v \in Viewers : Subscribe(v) \/ Unsubscribe(v)
           \/ \E r \in Rpcs : StartRpc(r) \/ Withdraw(r)
    PROVE  AbortInv'
<1>. USE DEF bridgeVars, wires, traceVars
<1>1. CASE UNCHANGED <<client, cut, work, rpc, down>>
  BY <1>1, AbortKept DEF BridgeTypeOK
<1>2. ASSUME NEW m \in DownMessages, SendDown(m), m.kind # "request", UNCHANGED <<client, cut, work, rpc>>
      PROVE  AbortInv'
  BY <1>2, AbortSent
<1>3. ASSUME NEW r \in Rpcs, StartRpc(r) PROVE AbortInv'
  <2>1. About("request", r) \in DownMessages /\ SendDown(About("request", r)) /\ UNCHANGED <<client, cut, work>>
    BY <1>3, MessagesTyped DEF StartRpc
  <2>2. \A q \in Rpcs : /\ rpc'[q] = "withdrawn" => rpc[q] = "withdrawn"
                        /\ rpc[q] = "withdrawn" => q \notin About("request", r).rpc
    BY <1>3 DEF StartRpc, BridgeTypeOK, ServerOK, About
  <2> QED
    BY <2>1, <2>2, AbortSent
<1>4. ASSUME NEW r \in Rpcs, Withdraw(r) PROVE AbortInv'
  <2>. DEFINE m == About("cancel", r)
  <2>1. /\ m \in DownMessages /\ m.kind = "cancel" /\ SendDown(m) /\ UNCHANGED <<client, work>>
        /\ cut' = IF Reaches(current) THEN cut ELSE cut \cup {r}
        /\ \A q \in Rpcs : q # r => rpc'[q] = rpc[q]
    BY <1>4, MessagesTyped DEF Withdraw, About, BridgeTypeOK, ServerOK
  <2>. HIDE DEF m
  <2>2. \A s \in Sockets : down'[s] = down[s] \/ (client[s] = "open" /\ down'[s] = Append(down[s], m))
    BY <2>1, SendDownRegistered DEF BridgeTypeOK, Reaches
  <2>3. ASSUME NEW q \in Rpcs, NEW s \in Sockets
        PROVE  /\ Covered(down[s], q) => Covered(down'[s], q)
               /\ Cancels(down[s], q) => Cancels(down'[s], q)
    <3>1. down[s] \in Seq(DownMessages)
      BY DEF BridgeTypeOK, WiresOK
    <3>2. /\ Covered(down[s], q) => Covered(Append(down[s], m), q)
          /\ Cancels(down[s], q) => Cancels(Append(down[s], m), q)
      BY <2>1, <3>1, CoveredAppend
    <3> QED
      BY <2>2, <3>2
  <2>4. ASSUME Reaches(current)
        PROVE  /\ \A s \in Sockets : Covered(down'[s], r)
               /\ work[r].at = "running" => client[work[r].on] = "closed" \/ Cancels(down'[work[r].on], r)
    <3>1. current \in Sockets /\ down'[current] = Append(down[current], m) /\ client[current] = "open"
      BY <2>1, <2>4, SendDownRegistered DEF BridgeTypeOK, Reaches
    <3>2. down[current] \in Seq(DownMessages)
      BY <3>1 DEF BridgeTypeOK, WiresOK
    <3>3. Covered(down'[current], r) /\ Cancels(down'[current], r)
      BY <2>1, <3>1, <3>2, CoveredAppend DEF m
    <3>4. \A s \in Sockets : s # current => down'[s] = <<>>
      BY <2>1, <2>4, <3>1, SendDownRegistered, OneOpenEnd DEF AbortInv, BridgeTypeOK
    <3>5. Covered(<<>>, r)
      BY DEF Covered
    <3>6. ASSUME work[r].at = "running", client[work[r].on] # "closed" PROVE work[r].on = current
      <4>1. work[r].on \in Sockets /\ client[work[r].on] = "open"
        BY <3>6 DEF AbortInv, BridgeTypeOK, BridgeOK
      <4> QED
        BY <3>1, <4>1, OneOpenEnd DEF BridgeTypeOK
    <3> QED
      BY <3>3, <3>4, <3>5, <3>6
  <2>5. \A s \in Sockets : client'[s] # "open" => down'[s] = <<>>
    BY <2>1, <2>2 DEF AbortInv
  <2>6. ASSUME NEW q \in Rpcs \ cut', rpc'[q] = "withdrawn"
        PROVE  /\ \A s \in Sockets : Covered(down'[s], q)
               /\ work'[q].at = "running" => client'[work'[q].on] = "closed" \/ Cancels(down'[work'[q].on], q)
    <3>1. CASE q = r
      BY <2>1, <2>4, <2>6, <3>1
    <3>2. CASE q # r
      <4>1. rpc[q] = "withdrawn" /\ q \in Rpcs \ cut
        BY <2>1, <2>6, <3>2
      <4>2. work[q].at = "running" => work[q].on \in Sockets
        BY <4>1 DEF BridgeTypeOK, BridgeOK
      <4> QED
        BY <2>1, <2>3, <4>1, <4>2 DEF AbortInv
    <3> QED
      BY <3>1, <3>2
  <2>7. \A q \in Rpcs : work'[q].at # "none" => client'[work'[q].on] # "unopened"
    BY <2>1 DEF AbortInv
  <2> QED
    BY <2>5, <2>6, <2>7 DEF AbortInv
<1>5. \/ UNCHANGED <<client, cut, work, rpc, down>>
      \/ \E m \in DownMessages : SendDown(m) /\ m.kind # "request" /\ UNCHANGED <<client, cut, work, rpc>>
      \/ \E r \in Rpcs : StartRpc(r) \/ Withdraw(r)
  <2>1. \A k \in {"watch", "unwatch"} \cup Configs :
            Message(k) \in DownMessages /\ Message(k).kind = k /\ k # "request"
    BY MessagesTyped DEF Message, Configs
  <2> QED
    BY <2>1 DEF SyncPrinters, Subscribe, Unsubscribe, serverVars
<1> QED
  BY <1>1, <1>2, <1>3, <1>4, <1>5

LEMMA AbortOfMessages ==
    ASSUME BridgeTypeOK, AbortInv,
           \/ \E s \in Sockets : ReceiveFtp(s) \/ ReceiveAnswer(s) \/ BridgeReceives(s)
           \/ \E r \in Rpcs : Answer(r)
           \/ Transfer
    PROVE  AbortInv'
<1>. USE DEF bridgeVars, wires, traceVars, serverVars
<1>1. CASE /\ UNCHANGED <<client, cut, down>>
           /\ \A r \in Rpcs : /\ rpc'[r] = "withdrawn" => rpc[r] = "withdrawn"
                              /\ work'[r] = work[r] \/ work'[r] = NoWork
  BY <1>1, AbortKept DEF BridgeTypeOK
<1>2. ASSUME NEW s \in Sockets, BridgeReceives(s) PROVE AbortInv'
  <2>1. /\ client[s] = "open" /\ down[s] # <<>> /\ down[s] \in Seq(DownMessages)
        /\ UNCHANGED <<client, rpc, cut>>
        /\ \A t \in Sockets : down'[t] = IF t = s THEN Tail(down[s]) ELSE down[t]
    BY <1>2 DEF BridgeReceives, ReceiveWatch, ReceiveUnwatch, ReceiveConfig, ReceiveRequest, ReceiveCancel,
                Delivered, BridgeTypeOK, WiresOK
  <2>2. ASSUME NEW r \in Rpcs
        PROVE  \/ work'[r] = work[r] /\ Head(down[s]) # About("cancel", r)
               \/ work'[r] = [at |-> "running", on |-> s] /\ Head(down[s]).kind = "request" /\ r \in Head(down[s]).rpc
               \/ work'[r].at # "running" /\ work'[r].on = work[r].on /\ (work'[r].at = "none" <=> work[r].at = "none")
    <3>. USE DEF Delivered, About
    <3>1. CASE ReceiveWatch(s) \/ ReceiveUnwatch(s) \/ ReceiveConfig(s)
      <4>1. Head(down[s]).kind \in {"watch", "unwatch"} \cup Configs /\ work' = work
        BY <3>1 DEF ReceiveWatch, ReceiveUnwatch, ReceiveConfig
      <4>2. Head(down[s]).kind # "cancel"
        BY <4>1 DEF Configs
      <4> QED
        BY <4>1, <4>2
    <3>2. CASE ReceiveRequest(s)
      BY <3>2 DEF ReceiveRequest, BridgeTypeOK, BridgeOK
    <3>3. CASE ReceiveCancel(s)
      <4>1. PICK q \in Head(down[s]).rpc :
              work' = [work EXCEPT ![q].at = IF work[q].at = "running" THEN "aborted" ELSE work[q].at]
        BY <3>3 DEF ReceiveCancel
      <4>2. CASE r = q
        BY <4>1, <4>2 DEF BridgeTypeOK, BridgeOK
      <4>3. CASE r # q
        BY <4>1, <4>3 DEF BridgeTypeOK, BridgeOK
      <4> QED
        BY <4>2, <4>3
    <3> QED
      BY <1>2, <3>1, <3>2, <3>3 DEF BridgeReceives
  <2>3. \A t \in Sockets : client'[t] # "open" => down'[t] = <<>>
    BY <2>1 DEF AbortInv
  <2>4. \A r \in Rpcs : work'[r].at # "none" => client'[work'[r].on] # "unopened"
    BY <2>1, <2>2 DEF AbortInv
  <2>5. ASSUME NEW r \in Rpcs \ cut', rpc'[r] = "withdrawn"
        PROVE  /\ \A t \in Sockets : Covered(down'[t], r)
               /\ work'[r].at = "running" => client'[work'[r].on] = "closed" \/ Cancels(down'[work'[r].on], r)
    <3>1. rpc[r] = "withdrawn" /\ r \in Rpcs \ cut
      BY <2>1, <2>5
    <3>2. Covered(down[s], r)
      BY <3>1 DEF AbortInv
    <3>3. /\ Covered(Tail(down[s]), r)
          /\ Cancels(down[s], r) /\ Head(down[s]) # About("cancel", r) => Cancels(Tail(down[s]), r)
          /\ Head(down[s]).kind = "request" /\ r \in Head(down[s]).rpc => Cancels(Tail(down[s]), r)
      BY <2>1, <3>2, CoveredTail
    <3>4. \A t \in Sockets : Covered(down'[t], r)
      BY <2>1, <3>1, <3>3 DEF AbortInv
    <3>5. ASSUME work'[r].at = "running" PROVE client'[work'[r].on] = "closed" \/ Cancels(down'[work'[r].on], r)
      <4>1. CASE work'[r] = work[r] /\ Head(down[s]) # About("cancel", r)
        <5>1. work[r].at = "running" /\ work[r].on \in Sockets
          BY <3>5, <4>1 DEF BridgeTypeOK, BridgeOK
        <5>2. client[work[r].on] = "closed" \/ Cancels(down[work[r].on], r)
          BY <3>1, <5>1 DEF AbortInv
        <5> QED
          BY <2>1, <3>3, <4>1, <5>1, <5>2
      <4>2. CASE work'[r] = [at |-> "running", on |-> s] /\ Head(down[s]).kind = "request" /\ r \in Head(down[s]).rpc
        BY <2>1, <3>3, <4>2
      <4> QED
        BY <2>2, <3>5, <4>1, <4>2
    <3> QED
      BY <3>4, <3>5
  <2> QED
    BY <2>3, <2>4, <2>5 DEF AbortInv
<1>3. ASSUME NEW s \in Sockets, ReceiveFtp(s) \/ ReceiveAnswer(s)
      PROVE  /\ UNCHANGED <<client, cut, down, work>>
             /\ \A r \in Rpcs : rpc'[r] = "withdrawn" => rpc[r] = "withdrawn"
  BY <1>3 DEF ReceiveFtp, ReceiveAnswer
<1>4. ASSUME NEW r \in Rpcs, Answer(r)
      PROVE  /\ UNCHANGED <<client, cut, down, rpc>>
             /\ \A q \in Rpcs : work'[q] = work[q] \/ work'[q] = NoWork
  BY <1>4 DEF Answer, BridgeTypeOK, BridgeOK
<1>5. Transfer => UNCHANGED <<client, cut, down, rpc, work>>
  BY DEF Transfer
<1> QED
  BY <1>1, <1>2, <1>3, <1>4, <1>5

LEMMA AbortStep ==
    ASSUME BridgeTypeOK, AbortInv, [BridgeNext]_vars
    PROVE  AbortInv'
<1>1. CASE UNCHANGED <<serverVars, bridgeVars, wires, traceVars>>
  BY <1>1, AbortKept DEF serverVars, bridgeVars, wires, traceVars, BridgeTypeOK
<1> QED
  BY <1>1, StepsOfBridge, AbortOfSockets, AbortOfServer, AbortOfMessages

-----------------------------------------------------------------------------
(* Theorems *)

Undisturbed ==
    current # NoSocket /\ sock'[current] # "closed" =>
        /\ current' # NoSocket
        /\ \A r \in Rpcs : rpc[r] = "pending" => rpc'[r] # "dropped"
        /\ told' \subseteq told

LEMMA OthersLeaveAlone ==
    ASSUME BridgeTypeOK, [BridgeNext]_vars
    PROVE  Undisturbed
<1>. USE DEF BridgeTypeOK, Undisturbed
<1>1. CASE UNCHANGED <<current, rpc, told>>
  BY <1>1
<1>2. ASSUME NEW s \in Sockets, ServerClose(s) PROVE Undisturbed
  <2>1. CASE current = s
    BY <1>2, <2>1 DEF ServerClose, ServerOK
  <2>2. CASE current # s
    BY <1>2, <2>2 DEF ServerClose
  <2> QED
    BY <2>1, <2>2
<1>3. ASSUME NEW s \in Sockets, AuthDone(s) PROVE Undisturbed
  BY <1>3, SocketsReal DEF AuthDone
<1>4. ASSUME NEW v \in Viewers, Subscribe(v) PROVE Undisturbed
  BY <1>4 DEF Subscribe
<1>5. ASSUME NEW r \in Rpcs, StartRpc(r) \/ Withdraw(r) PROVE Undisturbed
  BY <1>5 DEF StartRpc, Withdraw, ServerOK
<1>6. ASSUME NEW s \in Sockets, ReceiveAnswer(s) PROVE Undisturbed
  BY <1>6 DEF ReceiveAnswer, ServerOK
<1>7. \/ UNCHANGED <<current, rpc, told>>
      \/ \E s \in Sockets : ServerClose(s) \/ AuthDone(s) \/ ReceiveAnswer(s)
      \/ \E v \in Viewers : Subscribe(v)
      \/ \E r \in Rpcs : StartRpc(r) \/ Withdraw(r)
  BY DEF BridgeNext, vars, serverVars, SocketStep, Connect, BridgeClose, HelloTimeout, AuthFails, ServerReceives,
         ReceiveHello, ReceiveFtp, BridgeReceives, ReceiveWatch, ReceiveUnwatch, ReceiveConfig, ReceiveRequest,
         ReceiveCancel, SyncPrinters, Unsubscribe, Answer, Transfer, Pump
<1> QED
  BY <1>1, <1>2, <1>3, <1>4, <1>5, <1>6, <1>7

\* What the sessions keep: the types, the arbitration of the camera, and what the
\* ends know of each other.
BridgeInv ==
    BridgeTypeOK /\ CameraInv /\ SessionAccounted /\ EndsInv /\ WatchInv /\ FtpInv /\ AbortInv

LEMMA BridgeInvHolds == BridgeSpec => []BridgeInv
<1>1. BridgeInit => BridgeInv
  BY TypesBegin, CameraInitSound, AccountedBegin, EndsBegin, WatchBegins, FtpBegins, AbortBegins DEF BridgeInit, BridgeInv
<1>2. BridgeInv /\ [BridgeNext]_vars => BridgeInv'
  BY TypesKept, CameraKept, AccountedKept, EndsStep, WatchStep, FtpStep, AbortStep DEF BridgeInv
<1> QED
  BY <1>1, <1>2, PTL DEF BridgeSpec

\* The state of the two ends is of the types the handlers take it to be of, and
\* the registered session is an authenticated one.
THEOREM BridgeTypes == BridgeSpec => []BridgeTypeOK
<1>1. BridgeInv => BridgeTypeOK
  BY DEF BridgeInv
<1> QED
  BY <1>1, BridgeInvHolds, PTL

\* However viewers, configs, sessions and transfers come and go, no pump opens a
\* camera connection or begins a read during an FTPS transfer, one at most is not
\* stopped, and that is the one which can be stopped (transport-arbiter.ts).  A
\* read that had begun before the transfer keeps its connection (camera.ts).
THEOREM CamerasAreArbitrated == BridgeSpec => []CameraArbitrated
<1>1. BridgeInv => CameraArbitrated
  BY DEF BridgeInv, CameraInv
<1> QED
  BY <1>1, BridgeInvHolds, PTL

\* With the session of a bridge go the calls and the listeners that wait for it,
\* and it goes with its socket, unless that had closed before it was registered.
THEOREM SessionsAreAccounted == BridgeSpec => []SessionAccounted
<1>1. BridgeInv => SessionAccounted
  BY DEF BridgeInv
<1> QED
  BY <1>1, BridgeInvHolds, PTL

\* The end of another socket than the registered one's leaves the session, its
\* calls and its listeners alone (bridge-session-manager.ts, unregisterConnection).
THEOREM LiveSessionIsUndisturbed == BridgeSpec => LiveSessionUndisturbed
<1>1. BridgeInv /\ [BridgeNext]_vars => [Undisturbed]_vars
  BY OthersLeaveAlone DEF BridgeInv
<1>2. BridgeSpec => [][Undisturbed]_vars
  BY <1>1, BridgeInvHolds, PTL DEF BridgeSpec
<1> QED
  BY <1>2 DEF LiveSessionUndisturbed, Undisturbed

\* On a session alive at both ends the bridge streams, or will once it has read
\* what is under way, exactly when a listener of that session is left.
THEOREM FramesFollowListeners == BridgeSpec => []WatchFollowsListeners
<1>1. BridgeInv => WatchFollowsListeners
  BY WatchInvIs DEF BridgeInv
<1> QED
  BY <1>1, BridgeInvHolds, PTL

\* The server's flag for an FTPS transfer is the bridge's own once the bridge has
\* the printer and nothing is under way, unless another session set it or a config
\* took the printer from the bridge during a transfer (runtime.ts,
\* reconcileConfiguredPrinters, ends the announcements without a last one).
THEOREM FlagFollowsTransfers == BridgeSpec => []FtpFlagFollows
<1>1. BridgeInv => FtpFlagFollows
  BY FtpSuffices DEF BridgeInv
<1> QED
  BY <1>1, BridgeInvHolds, PTL

\* What the bridge does for a call that was cancelled or timed out is aborted,
\* or a cancel is under way, or the socket it came on is closed: a cancel does not
\* pass its request, and reaches the socket the bridge is on.
THEOREM GivenUpWorkIsAborted == BridgeSpec => []WithdrawnWorkAborted
<1>1. BridgeInv => WithdrawnWorkAborted
  BY AbortSuffices DEF BridgeInv
<1> QED
  BY <1>1, BridgeInvHolds, PTL
=============================================================================
