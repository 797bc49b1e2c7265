----------------------------- MODULE BridgeSessions -----------------------------
(***************************************************************************)
(* The session of one bridge with the server, as both ends see it, for one *)
(* printer with a camera.  The bridge opens a web socket and says hello;   *)
(* the server authenticates it, which takes a while, and registers it in   *)
(* place of the session it had.  The bridge opens another socket as soon   *)
(* as it has seen the last one closed, which the server may not have seen. *)
(*                                                                         *)
(* On a session travel calls and their cancels, answers, the printers the  *)
(* bridge is to look after, who wants camera frames, and whether an FTPS   *)
(* transfer is active.  Sockets deliver in order what they deliver; what   *)
(* is on its way when an end closes is lost.                               *)
(***************************************************************************)
EXTENDS CameraTransport, Sequences

CONSTANTS
    MaxSockets,     \* bound on the sockets the bridge opens
    MaxDown, MaxUp, \* bounds on the messages under way on a socket to the bridge, and to the
                    \* server but for one with which a config is answered
    Viewers,        \* who may listen to camera frames
    Rpcs            \* the calls to the bridge

ASSUME SessionAssumption ==
    /\ MaxSockets \in Nat \ {0} /\ MaxDown \in Nat \ {0} /\ MaxUp \in Nat \ {0}

VARIABLES
    sock,       \* sock[s]: the server's end of socket s
    auth,       \* auth[s]: "pending" while its hello is being authenticated
    current,    \* the registered session
    rpc,        \* rpc[r]: what the server knows of a call
    listeners,  \* the viewers that are registered, told: those called back because
    told,       \* their session was dropped
    ftpFlag,    \* the server takes an FTPS transfer to be active
    client,     \* client[s]: the bridge's end of socket s
    watched, configured,    \* whether the bridge knows the printer as such
    work,       \* work[r]: what the bridge does for a call
    down, up,   \* down[s], up[s]: what is under way to the bridge, to the server
    carried,    \* ghost: the listeners were there before the session was
    late,       \* ghost: sockets that had closed when they were registered
    staleFlag,  \* ghost: ftpFlag comes from another session
    lapsed,     \* ghost: the printer was taken from the bridge during a transfer, and
                \* the bridge has announced nothing since
    cut         \* ghost: calls given up when no cancel could reach the bridge

serverVars == <<sock, auth, current, rpc, listeners, told, ftpFlag>>
bridgeVars == <<client, watched, configured, work>>
traceVars == <<carried, late, staleFlag, lapsed, cut>>
wires == <<down, up>>
vars == <<serverVars, bridgeVars, wires, traceVars, ftpActive, cameraVars>>

Sockets == 1..MaxSockets
NoSocket == 0
Message(kind) == [kind |-> kind, rpc |-> {}]
About(kind, r) == [kind |-> kind, rpc |-> {r}]
NoWork == [at |-> "none", on |-> NoSocket]

\* A config names the printers the bridge is to look after: the one at hand is
\* among them, or is not, having been moved, deleted or detached.
Configs == {"config", "config without"}

DownMessages == [kind : Configs \cup {"watch", "unwatch", "request", "cancel"}, rpc : SUBSET Rpcs]
UpMessages == [kind : {"hello", "active", "idle", "answer"}, rpc : SUBSET Rpcs]

\* Beyond the sets: only a registered socket is current.
ServerOK ==
    /\ sock \in [Sockets -> {"none", "open", "closing", "closed"}]
    /\ auth \in [Sockets -> {"none", "pending", "done"}]
    /\ current \in Sockets \cup {NoSocket}
    /\ current # NoSocket => auth[current] = "done"
    /\ rpc \in [Rpcs -> {"none", "pending", "settled", "withdrawn", "dropped"}]
    /\ listeners \subseteq Viewers /\ told \subseteq Viewers
    /\ ftpFlag \in BOOLEAN

\* The bridge opens its sockets one after the other, and works on sockets.
BridgeOK ==
    /\ client \in [Sockets -> {"unopened", "open", "closed"}]
    /\ \A s, t \in Sockets : s < t /\ client[t] # "unopened" => client[s] = "closed"
    /\ work \in [Rpcs -> [at : {"none", "running", "aborted"}, on : Sockets \cup {NoSocket}]]
    /\ \A r \in Rpcs : work[r].at # "none" => work[r].on \in Sockets
    /\ watched \in BOOLEAN /\ configured \in BOOLEAN

WiresOK ==
    /\ down \in [Sockets -> Seq(DownMessages)] /\ up \in [Sockets -> Seq(UpMessages)]
    /\ \A s \in Sockets : Len(down[s]) <= MaxDown /\ Len(up[s]) <= MaxUp + 1

TracesOK ==
    /\ carried \in BOOLEAN /\ staleFlag \in BOOLEAN /\ lapsed \in BOOLEAN
    /\ late \subseteq Sockets /\ cut \subseteq Rpcs

BridgeTypeOK == CameraTypeOK /\ ServerOK /\ BridgeOK /\ WiresOK /\ TracesOK

BridgeInit ==
    /\ CameraInit
    /\ sock = [s \in Sockets |-> "none"] /\ auth = [s \in Sockets |-> "none"]
    /\ current = NoSocket
    /\ rpc = [r \in Rpcs |-> "none"]
    /\ listeners = {} /\ told = {} /\ ftpFlag = FALSE
    /\ client = [s \in Sockets |-> "unopened"]
    /\ watched = FALSE /\ configured = FALSE
    /\ work = [r \in Rpcs |-> NoWork]
    /\ down = [s \in Sockets |-> <<>>] /\ up = [s \in Sockets |-> <<>>]
    /\ carried = FALSE /\ late = {} /\ staleFlag = FALSE /\ lapsed = FALSE /\ cut = {}

-----------------------------------------------------------------------------
(* Messages *)

\* A send on a socket that is not open, or whose other end has gone, is lost
\* without a word.
Reaches(s) == s # NoSocket /\ sock[s] = "open" /\ client[s] = "open"

\* sendMessage, to the registered session.
SendDown(m) ==
    IF Reaches(current)
    THEN Len(down[current]) < MaxDown /\ down' = [down EXCEPT ![current] = Append(@, m)]
    ELSE UNCHANGED down

\* A message of the bridge on its end of socket s, of which there may be bound
\* under way.
SendUp(s, m, bound) ==
    IF client[s] = "open" /\ sock[s] # "closed"
    THEN Len(up[s]) < bound /\ up' = [up EXCEPT ![s] = Append(@, m)]
    ELSE UNCHANGED up

\* The next message on socket s is of kind k.
Arriving(s, k) == sock[s] \in {"open", "closing"} /\ up[s] # <<>> /\ Head(up[s]).kind = k
Delivered(s, k) == client[s] = "open" /\ down[s] # <<>> /\ Head(down[s]).kind = k

-----------------------------------------------------------------------------
(* The sockets *)

\* The bridge reconnects some time after its last socket was closed.
Connect(s) ==
    /\ client[s] = "unopened" /\ \A t \in Sockets : t < s => client[t] = "closed"
    /\ client' = [client EXCEPT ![s] = "open"]
    /\ sock' = [sock EXCEPT ![s] = "open"]
    /\ up' = [up EXCEPT ![s] = <<Message("hello")>>]
    /\ UNCHANGED <<auth, current, rpc, listeners, told, ftpFlag, watched, configured, work,
                   down, traceVars, ftpActive, cameraVars>>

\* The bridge's end closes or fails; what it did for the session stops, but not
\* the calls it is working on.
BridgeClose(s) ==
    /\ client[s] = "open"
    /\ client' = [client EXCEPT ![s] = "closed"]
    /\ watched' = FALSE /\ configured' = FALSE
    /\ StopPump
    /\ down' = [down EXCEPT ![s] = <<>>]
    /\ lapsed' = FALSE
    /\ UNCHANGED <<serverVars, work, up, carried, late, staleFlag, cut, ftpActive>>

\* Every call that waits is rejected.
Dropped == [r \in Rpcs |-> IF rpc[r] = "pending" THEN "dropped" ELSE rpc[r]]

\* Mutant of Unregister: an FTPS transfer of the session is not forgotten.
UnregisterKeepingFlag ==
    /\ current' = NoSocket
    /\ rpc' = Dropped
    /\ told' = told \cup listeners /\ listeners' = {} /\ carried' = FALSE
    /\ staleFlag' = FALSE /\ UNCHANGED ftpFlag

\* Mutant of Unregister: the listeners stay.
UnregisterKeepingListeners ==
    /\ current' = NoSocket
    /\ rpc' = Dropped
    /\ ftpFlag' = FALSE /\ staleFlag' = FALSE
    /\ UNCHANGED <<told, listeners, carried>>

\* unregisterConnection of the registered session.
Unregister ==
    /\ current' = NoSocket
    /\ rpc' = Dropped
    /\ told' = told \cup listeners /\ listeners' = {} /\ carried' = FALSE
    /\ ftpFlag' = FALSE /\ staleFlag' = FALSE

\* Mutant of ServerClose: whoever's socket it is, the bridge is disconnected.
ServerCloseAny(s) ==
    /\ sock[s] \in {"open", "closing"}
    /\ sock' = [sock EXCEPT ![s] = "closed"]
    /\ up' = [up EXCEPT ![s] = <<>>]
    /\ IF auth[s] = "done" THEN Unregister
       ELSE UNCHANGED <<current, rpc, told, listeners, ftpFlag, carried, staleFlag>>
    /\ UNCHANGED <<auth, bridgeVars, down, late, lapsed, cut, ftpActive, cameraVars>>

\* The server's end is closed: the socket failed, the bridge left, no pong came.
\* Only the registered session takes the bridge's affairs with it, and a socket
\* that is not authenticated yet does not know whose it is.
ServerClose(s) ==
    /\ sock[s] \in {"open", "closing"}
    /\ sock' = [sock EXCEPT ![s] = "closed"]
    /\ up' = [up EXCEPT ![s] = <<>>]
    /\ IF auth[s] = "done" /\ current = s THEN Unregister
       ELSE UNCHANGED <<current, rpc, told, listeners, ftpFlag, carried, staleFlag>>
    /\ UNCHANGED <<auth, bridgeVars, down, late, lapsed, cut, ftpActive, cameraVars>>

Closing(s) == [sock EXCEPT ![s] = IF sock[s] = "open" THEN "closing" ELSE sock[s]]

\* The hello timer runs until the authentication is done.
HelloTimeout(s) ==
    /\ sock[s] = "open" /\ auth[s] # "done"
    /\ sock' = Closing(s)
    /\ UNCHANGED <<auth, current, rpc, listeners, told, ftpFlag, bridgeVars, wires,
                   traceVars, ftpActive, cameraVars>>

ReceiveHello(s) ==
    /\ Arriving(s, "hello") /\ auth[s] = "none"
    /\ up' = [up EXCEPT ![s] = Tail(@)]
    /\ auth' = [auth EXCEPT ![s] = "pending"]
    /\ UNCHANGED <<sock, current, rpc, listeners, told, ftpFlag, bridgeVars, down,
                   traceVars, ftpActive, cameraVars>>

AuthFails(s) ==
    /\ auth[s] = "pending"
    /\ auth' = [auth EXCEPT ![s] = "none"]
    /\ sock' = Closing(s)
    /\ UNCHANGED <<current, rpc, listeners, told, ftpFlag, bridgeVars, wires,
                   traceVars, ftpActive, cameraVars>>

\* registerConnection.  Whether the socket still lives is not asked; the replaced
\* session's calls and listeners stay.
AuthDone(s) ==
    /\ auth[s] = "pending"
    /\ auth' = [auth EXCEPT ![s] = "done"]
    /\ sock' = IF current = NoSocket THEN sock ELSE Closing(current)
    /\ current' = s
    /\ carried' = (listeners # {})
    /\ late' = IF sock[s] = "closed" THEN late \cup {s} ELSE late
    /\ staleFlag' = (staleFlag \/ (current # NoSocket /\ ftpFlag))
    /\ UNCHANGED <<rpc, listeners, told, ftpFlag, bridgeVars, wires, lapsed, cut, ftpActive,
                   cameraVars>>

-----------------------------------------------------------------------------
(* The printers of the bridge *)

\* syncBridgePrinterConfig, of a new session and whenever a printer was edited or
\* others were discovered: the printers are read, and whatever session there then
\* is gets them.  The printer is among them or not, whenever that was decided.
SyncPrinters ==
    /\ current # NoSocket
    /\ \E kind \in Configs : SendDown(Message(kind))
    /\ UNCHANGED <<serverVars, bridgeVars, up, traceVars, ftpActive, cameraVars>>

\* reconcileConfiguredPrinters: what the bridge had is forgotten.  If the printer
\* is there, its transfers are announced from now on, an active one at once, and
\* its camera stream is begun anew; if not, nothing is said of it.
ReceiveConfig(s) ==
    /\ \E kind \in Configs : Delivered(s, kind) /\ configured' = (kind = "config")
    /\ down' = [down EXCEPT ![s] = Tail(@)]
    /\ IF configured' /\ ftpActive THEN SendUp(s, Message("active"), MaxUp + 1) ELSE UNCHANGED up
    /\ stopped' = NowStopped
    /\ IF configured' /\ watched THEN StartPump(NoPump, PumpsStopped)
       ELSE controller' = NoPump /\ pump' = PumpsStopped
    /\ lapsed' = IF configured' THEN lapsed /\ ~ftpActive ELSE lapsed \/ (configured /\ ftpActive)
    /\ UNCHANGED <<serverVars, client, watched, work, carried, late, staleFlag, cut, ftpActive>>

-----------------------------------------------------------------------------
(* Camera frames *)

\* subscribeCameraFrames: the first listener asks the bridge for the frames.
Subscribe(v) ==
    /\ current # NoSocket /\ v \notin listeners
    /\ listeners' = listeners \cup {v} /\ told' = told \ {v}
    /\ IF listeners = {} THEN SendDown(Message("watch")) ELSE UNCHANGED down
    /\ UNCHANGED <<sock, auth, current, rpc, ftpFlag, bridgeVars, up, traceVars,
                   ftpActive, cameraVars>>

\* Mutant of Unsubscribe: whoever leaves takes the frames along.
UnsubscribeAll(v) ==
    /\ v \in listeners
    /\ listeners' = listeners \ {v}
    /\ SendDown(Message("unwatch"))
    /\ carried' = (carried /\ listeners' # {})
    /\ UNCHANGED <<sock, auth, current, rpc, told, ftpFlag, bridgeVars, up, late,
                   staleFlag, lapsed, cut, ftpActive, cameraVars>>

\* The last one gives them up.
Unsubscribe(v) ==
    /\ v \in listeners
    /\ listeners' = listeners \ {v}
    /\ IF listeners' = {} THEN SendDown(Message("unwatch")) ELSE UNCHANGED down
    /\ carried' = (carried /\ listeners' # {})
    /\ UNCHANGED <<sock, auth, current, rpc, told, ftpFlag, bridgeVars, up, late,
                   staleFlag, lapsed, cut, ftpActive, cameraVars>>

ReceiveWatch(s) ==
    /\ Delivered(s, "watch")
    /\ down' = [down EXCEPT ![s] = Tail(@)]
    /\ watched' = TRUE
    /\ IF configured THEN StartPump(controller, pump) /\ UNCHANGED stopped
       ELSE UNCHANGED cameraVars
    /\ UNCHANGED <<serverVars, client, configured, work, up, traceVars, ftpActive>>

ReceiveUnwatch(s) ==
    /\ Delivered(s, "unwatch")
    /\ down' = [down EXCEPT ![s] = Tail(@)]
    /\ watched' = FALSE
    /\ StopPump
    /\ UNCHANGED <<serverVars, client, configured, work, up, traceVars, ftpActive>>

-----------------------------------------------------------------------------
(* FTPS activity *)

\* The bridge tells its session of it while the printer is configured.
Announce(kind) ==
    IF configured THEN \E s \in Sockets : client[s] = "open" /\ SendUp(s, Message(kind), MaxUp)
    ELSE UNCHANGED up

Transfer ==
    /\ \/ BeginTransfer /\ Announce("active")
       \/ EndTransfer /\ Announce("idle")
    /\ lapsed' = (lapsed /\ ~configured)
    /\ UNCHANGED <<stopped, controller, serverVars, bridgeVars, down, carried, late, staleFlag, cut>>

\* setPrinterFtpActivity, of whichever socket was authenticated.
ReceiveFtp(s) ==
    /\ auth[s] = "done"
    /\ \/ Arriving(s, "active") /\ ftpFlag' = TRUE
       \/ Arriving(s, "idle") /\ ftpFlag' = FALSE
    /\ up' = [up EXCEPT ![s] = Tail(@)]
    /\ staleFlag' = (s # current)
    /\ UNCHANGED <<sock, auth, current, rpc, listeners, told, bridgeVars, down, carried,
                   late, lapsed, cut, ftpActive, cameraVars>>

-----------------------------------------------------------------------------
(* Calls *)

StartRpc(r) ==
    /\ current # NoSocket /\ rpc[r] = "none"
    /\ rpc' = [rpc EXCEPT ![r] = "pending"]
    /\ SendDown(About("request", r))
    /\ UNCHANGED <<sock, auth, current, listeners, told, ftpFlag, bridgeVars, up,
                   traceVars, ftpActive, cameraVars>>

\* Mutant of Withdraw: the bridge is not told.
WithdrawSilently(r) ==
    /\ rpc[r] = "pending"
    /\ rpc' = [rpc EXCEPT ![r] = "withdrawn"]
    /\ cut' = IF Reaches(current) THEN cut ELSE cut \cup {r}
    /\ UNCHANGED <<sock, auth, current, listeners, told, ftpFlag, bridgeVars, wires,
                   carried, late, staleFlag, lapsed, ftpActive, cameraVars>>

\* cancelRpcRequest, timeoutRpcRequest
Withdraw(r) ==
    /\ rpc[r] = "pending"
    /\ rpc' = [rpc EXCEPT ![r] = "withdrawn"]
    /\ SendDown(About("cancel", r))
    /\ cut' = IF Reaches(current) THEN cut ELSE cut \cup {r}
    /\ UNCHANGED <<sock, auth, current, listeners, told, ftpFlag, bridgeVars, up,
                   carried, late, staleFlag, lapsed, ftpActive, cameraVars>>

ReceiveRequest(s) ==
    /\ Delivered(s, "request")
    /\ \E r \in Head(down[s]).rpc : work' = [work EXCEPT ![r] = [at |-> "running", on |-> s]]
    /\ down' = [down EXCEPT ![s] = Tail(@)]
    /\ UNCHANGED <<serverVars, client, watched, configured, up, traceVars, ftpActive, cameraVars>>

ReceiveCancel(s) ==
    /\ Delivered(s, "cancel")
    /\ \E r \in Head(down[s]).rpc :
        work' = [work EXCEPT ![r].at = IF work[r].at = "running" THEN "aborted" ELSE work[r].at]
    /\ down' = [down EXCEPT ![s] = Tail(@)]
    /\ UNCHANGED <<serverVars, client, watched, configured, up, traceVars, ftpActive, cameraVars>>

\* The work is done or has failed: the answer goes to the socket the request
\* came from.
Answer(r) ==
    /\ work[r].at # "none"
    /\ SendUp(work[r].on, About("answer", r), MaxUp)
    /\ work' = [work EXCEPT ![r] = NoWork]
    /\ UNCHANGED <<serverVars, client, watched, configured, down, traceVars, ftpActive, cameraVars>>

ReceiveAnswer(s) ==
    /\ auth[s] = "done" /\ Arriving(s, "answer")
    /\ rpc' = [r \in Rpcs |-> IF r \in Head(up[s]).rpc /\ rpc[r] = "pending" THEN "settled" ELSE rpc[r]]
    /\ up' = [up EXCEPT ![s] = Tail(@)]
    /\ UNCHANGED <<sock, auth, current, listeners, told, ftpFlag, bridgeVars, down,
                   traceVars, ftpActive, cameraVars>>

-----------------------------------------------------------------------------

SocketStep(s) ==
    \/ Connect(s) \/ BridgeClose(s) \/ ServerClose(s) \/ HelloTimeout(s) \/ AuthFails(s)

\* The message handlers of the two ends.
ServerReceives(s) == ReceiveHello(s) \/ ReceiveFtp(s) \/ ReceiveAnswer(s)

BridgeReceives(s) ==
    \/ ReceiveWatch(s) \/ ReceiveUnwatch(s) \/ ReceiveConfig(s)
    \/ ReceiveRequest(s) \/ ReceiveCancel(s)

Pump(k) == PumpStep(k) /\ UNCHANGED <<serverVars, bridgeVars, wires, traceVars>>

BridgeNext ==
    \/ \E s \in Sockets : SocketStep(s) \/ AuthDone(s) \/ ServerReceives(s) \/ BridgeReceives(s)
    \/ SyncPrinters
    \/ \E v \in Viewers : Subscribe(v) \/ Unsubscribe(v)
    \/ \E r \in Rpcs : StartRpc(r) \/ Withdraw(r) \/ Answer(r)
    \/ Transfer
    \/ \E k \in Pumps : Pump(k)

BridgeSpec == BridgeInit /\ [][BridgeNext]_vars

-----------------------------------------------------------------------------
(* Properties *)

\* Without a session nothing waits for one: every call was rejected and every
\* listener called back when it was dropped.  And a session is dropped with its
\* socket, unless that was closed while it was being authenticated.
SessionAccounted ==
    /\ current = NoSocket => /\ \A r \in Rpcs : rpc[r] # "pending"
                             /\ listeners = {} /\ (ftpFlag => staleFlag)
    /\ current # NoSocket => sock[current] # "closed" \/ current \in late

\* Unless it is the registered session's own socket that closes, the bridge stays
\* connected: no other one's end drops its calls or calls its listeners back, "a
\* stale socket's teardown can't cancel the live session's requests"
\* (bridge-session-manager.ts).
LiveSessionUndisturbed ==
    [][current # NoSocket /\ sock'[current] # "closed" =>
        /\ current' # NoSocket
        /\ \A r \in Rpcs : rpc[r] = "pending" => rpc'[r] # "dropped"
        /\ told' \subseteq told]_vars

\* Whether the bridge will stream once it has read what is under way.
Asked(s) ==
    LET asks == {n \in 1..Len(down[s]) : down[s][n].kind \in {"watch", "unwatch"}} IN
    IF asks = {} THEN watched
    ELSE \E n \in asks : (\A m \in asks : m <= n) /\ down[s][n].kind = "watch"

\* On a session that lives at both ends the bridge streams for the listeners
\* that came while it was registered, and for nobody.
WatchFollowsListeners ==
    Reaches(current) /\ ~carried => (Asked(current) <=> listeners # {})

\* The flag is right as soon as the bridge has the printer and nothing is under
\* way.  Two cases are exempt: a flag set by another session, and a printer taken
\* from the bridge during a transfer, which then nobody hears the end of.
FtpFlagFollows ==
    Reaches(current) /\ configured /\ up[current] = <<>> /\ ~staleFlag /\ ~lapsed =>
        ftpFlag = ftpActive

\* Work for a call that was cancelled or timed out is aborted, or will be.
WithdrawnWorkAborted ==
    \A r \in Rpcs \ cut :
        rpc[r] = "withdrawn" /\ work[r].at = "running" =>
            \/ \E s \in Sockets, n \in 1..MaxDown :
                n <= Len(down[s]) /\ down[s][n] = About("cancel", r)
            \/ client[work[r].on] = "closed"

=============================================================================
