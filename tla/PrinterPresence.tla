---------------------------- MODULE PrinterPresence ----------------------------
(***************************************************************************)
(* What the printer manager keeps of one printer: whether it manages it,   *)
(* for which bridge, whether it takes it to be online and to be printing,  *)
(* and the timer that defers the end of its bridge's session.  A print is  *)
(* announced as finished when a report says that the printer, which was    *)
(* printing by an earlier one, no longer is.                               *)
(***************************************************************************)
EXTENDS Naturals

CONSTANTS
    Bridges,
    NoBridge        \* no bridge is assigned

ASSUME BridgesAssumption == NoBridge \notin Bridges

VARIABLES
    managed, bridgeId,  \* the entry, and the bridge it is for
    online, stage,      \* its status
    timer,              \* the offline timer is armed
    finished,           \* the job.finished events
    read,               \* ghost: what the last report that was taken said
    disordered,         \* ghost: a report was taken after a later one
    unbacked            \* ghost: the printer was last heard while its bridge had no session

entryVars == <<managed, bridgeId, online, stage, timer>>
heardVars == <<finished, read, disordered, unbacked>>
presenceVars == <<entryVars, heardVars>>

Assignments == Bridges \cup {NoBridge}

\* What the printer does: how many prints have ended, and whether one is on.
Progress == [ended : Nat, printing : BOOLEAN]

Earlier(p, q) ==
    p.ended < q.ended \/ (p.ended = q.ended /\ q.printing /\ ~p.printing)

PresenceTypeOK ==
    /\ managed \in BOOLEAN /\ bridgeId \in Assignments
    /\ online \in BOOLEAN /\ stage \in {"unknown", "idle", "printing"}
    /\ timer \in BOOLEAN
    /\ finished \in Nat /\ read \in Progress
    /\ disordered \in BOOLEAN /\ unbacked \in BOOLEAN

PresenceInit ==
    /\ managed = FALSE /\ bridgeId = NoBridge /\ online = FALSE /\ stage = "unknown"
    /\ timer = FALSE
    /\ finished = 0 /\ read = [ended |-> 0, printing |-> FALSE]
    /\ disordered = FALSE /\ unbacked = FALSE

-----------------------------------------------------------------------------
(* The printers the manager is given *)

\* connect: the entry is made anew, without the status it had.
Connect(b) ==
    /\ managed' = TRUE /\ bridgeId' = b
    /\ online' = FALSE /\ stage' = "unknown"
    /\ UNCHANGED <<timer, heardVars>>

\* Mutant of Update: a printer that is managed is not added again.
UpdateUnlessManaged(b, fresh) == IF managed THEN UNCHANGED presenceVars ELSE Connect(b)

\* update, and add: the entry stays when neither the bridge nor how the printer
\* is reached (fresh) has changed.
Update(b, fresh) ==
    IF managed /\ b = bridgeId /\ ~fresh THEN UNCHANGED presenceVars ELSE Connect(b)

Remove ==
    IF managed
    THEN /\ managed' = FALSE /\ bridgeId' = NoBridge /\ online' = FALSE /\ stage' = "unknown"
         /\ timer' = FALSE
         /\ UNCHANGED <<finished, read, disordered, unbacked>>
    ELSE UNCHANGED presenceVars

\* The manager of a server that has just been started.
Forget ==
    /\ managed' = FALSE /\ bridgeId' = NoBridge /\ online' = FALSE /\ stage' = "unknown"
    /\ timer' = FALSE /\ unbacked' = FALSE
    /\ UNCHANGED <<finished, read, disordered>>

-----------------------------------------------------------------------------
(* What is heard of the printer.  Only its own bridge is listened to. *)

Own(b) == managed /\ bridgeId = b

\* Mutant of Ends: a printer nothing was known of had been printing.
EndsUnlessIdle(p) == stage # "idle" /\ ~p.printing

\* A report ends the print that was known of.
Ends(p) == stage = "printing" /\ ~p.printing

\* ingestBridgeReport, ingestBridgeStatus with a stage in it; up: the bridge has
\* a session.
TakeReport(b, p, up) ==
    IF Own(b)
    THEN /\ timer' = FALSE /\ online' = TRUE
         /\ stage' = IF p.printing THEN "printing" ELSE "idle"
         /\ finished' = IF Ends(p) THEN finished + 1 ELSE finished
         /\ read' = p /\ disordered' = (disordered \/ Earlier(p, read))
         /\ unbacked' = ~up
         /\ UNCHANGED <<managed, bridgeId>>
    ELSE UNCHANGED presenceVars

\* A report that says nothing of the stage.
TakeFrame(b, up) ==
    IF Own(b)
    THEN /\ timer' = FALSE /\ online' = TRUE /\ unbacked' = ~up
         /\ UNCHANGED <<managed, bridgeId, stage, finished, read, disordered>>
    ELSE UNCHANGED presenceVars

\* markBridgePrinterOffline
TakeOffline(b) ==
    IF Own(b)
    THEN timer' = FALSE /\ online' = FALSE /\ UNCHANGED <<managed, bridgeId, stage, heardVars>>
    ELSE UNCHANGED presenceVars

\* hintOnline, reconnect: the timer goes on.
Hint(b, up) ==
    IF Own(b) /\ up
    THEN online' = TRUE /\ UNCHANGED <<managed, bridgeId, stage, timer, heardVars>>
    ELSE UNCHANGED presenceVars

-----------------------------------------------------------------------------
(* The grace time *)

\* markBridgeDisconnected, scheduleBridgePrinterOffline
Defer(b) ==
    IF Own(b)
    THEN /\ timer' = TRUE
         /\ UNCHANGED <<managed, bridgeId, online, stage, heardVars>>
    ELSE UNCHANGED presenceVars

\* The timer expires.
Expire ==
    /\ timer
    /\ timer' = FALSE
    /\ online' = FALSE
    /\ UNCHANGED <<managed, bridgeId, stage, heardVars>>
=============================================================================
