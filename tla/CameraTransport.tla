---------------------------- MODULE CameraTransport ----------------------------
(***************************************************************************)
(* How the bridge shares a printer between FTPS transfers and its chamber  *)
(* camera (the models whose camera speaks TLS).  A pump streams frames: it *)
(* waits until FTPS is idle, connects, reads frame after frame, and begins *)
(* again a second after a stream has ended.  Transfers queue per printer,  *)
(* so one at most is active; its begin and its end are told to whoever     *)
(* listens, synchronously.                                                 *)
(*                                                                         *)
(* A stopped pump does not let go at once: a read of a frame is not        *)
(* aborted, so it holds its connection until the camera sends the frame or *)
(* closes, and another pump may have been started by then.                 *)
(***************************************************************************)
EXTENDS Naturals, FiniteSets

CONSTANTS Pumps, NoPump     \* the pumps that may exist together

ASSUME PumpAssumption == NoPump \notin Pumps

VARIABLES
    ftpActive,      \* an FTPS operation is active on the printer
    pump,           \* pump[k]: where pump k is, "off" when there is none
    stopped,        \* pumps whose controller is aborted
    controller      \* the printer's entry in cameraControllers

cameraVars == <<pump, stopped, controller>>

\* "waiting": for FTPS to become idle; "resuming": told so, and not yet run;
\* "connecting"; "reading" a frame; "holding": the same, although a transfer has
\* begun or the pump was stopped; "pausing": the second before the next attempt.
PumpStates == {"off", "waiting", "resuming", "connecting", "reading", "holding", "pausing"}

CameraTypeOK ==
    /\ ftpActive \in BOOLEAN
    /\ pump \in [Pumps -> PumpStates]
    /\ stopped \subseteq Pumps
    /\ controller \in Pumps \cup {NoPump}

CameraInit ==
    /\ ftpActive = FALSE
    /\ pump = [k \in Pumps |-> "off"]
    /\ stopped = {}
    /\ controller = NoPump

-----------------------------------------------------------------------------
(* FTPS activity *)

\* What the begin of a transfer does to the pumps: who connects gives up and
\* waits, who reads is aborted and reads on.
Paused(at) == CASE at = "connecting" -> "waiting" [] at = "reading" -> "holding" [] OTHER -> at

\* What the end of it does: who waited will run.
Woken(at) == IF at = "waiting" THEN "resuming" ELSE at

\* beginFtpActivity, endFtpActivity
BeginTransfer ==
    /\ ~ftpActive
    /\ ftpActive' = TRUE
    /\ pump' = [k \in Pumps |-> Paused(pump[k])]

EndTransfer ==
    /\ ftpActive
    /\ ftpActive' = FALSE
    /\ pump' = [k \in Pumps |-> Woken(pump[k])]

-----------------------------------------------------------------------------
(* Pumps *)

\* Where waitForFtpIdle begins.
Entry == IF ftpActive THEN "waiting" ELSE "resuming"

\* startCameraStream, of a configured printer: the controllers c and the pumps p
\* as the rest of the step has left them.
StartPump(c, p) ==
    IF c # NoPump THEN controller' = c /\ pump' = p
    ELSE \E k \in Pumps : p[k] = "off" /\ controller' = k /\ pump' = [p EXCEPT ![k] = Entry]

\* Where the abort of its controller leaves a pump.
Stopped(at) == IF at \in {"reading", "holding"} THEN "holding" ELSE "off"

\* The pumps and the stopped ones after stopCameraStream.
PumpsStopped == [k \in Pumps |-> IF k = controller THEN Stopped(pump[k]) ELSE pump[k]]
NowStopped == {k \in stopped \cup {controller} : k # NoPump /\ PumpsStopped[k] # "off"}

StopPump ==
    /\ pump' = PumpsStopped
    /\ stopped' = NowStopped
    /\ controller' = NoPump

\* Mutant of Ended: the pump removes whatever controller is there.
EndedAny(k) ==
    /\ pump' = [pump EXCEPT ![k] = "off"]
    /\ stopped' = stopped \ {k}
    /\ controller' = NoPump

\* pumpCameraFrames returns: it removes its own controller.
Ended(k) ==
    /\ pump' = [pump EXCEPT ![k] = "off"]
    /\ stopped' = stopped \ {k}
    /\ controller' = IF controller = k THEN NoPump ELSE controller

Move(k, at) == pump' = [pump EXCEPT ![k] = at] /\ UNCHANGED <<stopped, controller>>

\* Mutant of Resume: a transfer that began after the wait is not noticed.
ResumeUnchecked(k) == pump[k] = "resuming" /\ Move(k, "connecting")

\* The wait is over; should another transfer have begun, begin to wait again.
Resume(k) == pump[k] = "resuming" /\ Move(k, IF ftpActive THEN "waiting" ELSE "connecting")

OpenCamera(k) == pump[k] = "connecting" /\ Move(k, "reading")

\* A frame ends an aborted stream: a stopped pump is done, one that made way for a
\* transfer comes back after the pause.
Frame(k) ==
    /\ pump[k] = "holding"
    /\ IF k \in stopped THEN Ended(k) ELSE Move(k, "pausing")

\* The connection fails or is closed.
Break(k) ==
    /\ pump[k] \in {"connecting", "reading", "holding"}
    /\ IF k \in stopped THEN Ended(k)
       ELSE Move(k, IF pump[k] = "holding" THEN Entry ELSE "pausing")

\* The pause is over.
Again(k) == pump[k] = "pausing" /\ Move(k, Entry)

PumpStep(k) ==
    /\ Resume(k) \/ OpenCamera(k) \/ Frame(k) \/ Break(k) \/ Again(k)
    /\ UNCHANGED ftpActive

-----------------------------------------------------------------------------

\* No camera connection is opened or kept while a transfer is active, whatever
\* ran between the end of one and the begin of the next ("printer transports
\* that should not overlap"); only a read that had begun before goes on.
CameraYields == ftpActive => \A k \in Pumps : pump[k] \notin {"connecting", "reading"}

\* Whatever is started and stopped, one pump of the printer is not on its way
\* out, and that is the one which can be stopped.
OneLivePump ==
    /\ \A k \in Pumps : (pump[k] # "off" /\ k \notin stopped) <=> k = controller
    /\ \A k \in stopped : pump[k] = "holding"

CameraArbitrated == CameraYields /\ OneLivePump
=============================================================================
