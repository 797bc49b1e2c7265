---------------------------- MODULE PrinterManager ----------------------------
(***************************************************************************)
(* One printer as the server knows it: its row in the database, its entry  *)
(* in the printer manager, and the sessions of the bridges that report it. *)
(*                                                                         *)
(* Requests, the recovery of printers whose bridge was replaced, and the   *)
(* refresh of a host that has changed write the row and then, some time    *)
(* later, hand the manager what they know; so does the start of the server,*)
(* which reads the row while requests are served already.  Reports reach   *)
(* the manager on the sessions, whatever the row says.                     *)
(***************************************************************************)
EXTENDS PrinterPresence, Sequences

CONSTANTS
    Absent, Deleted,    \* the printer has no row yet, or no longer
    Ops,                \* bound on the requests, recoveries, refreshes and starts
    MaxPrints,          \* bound on the prints that end
    MaxWire, MaxLeft,   \* bounds on the messages under way on a session, and on one that is replaced
    Kinds               \* the messages the bridges send

ASSUME ManagerAssumption ==
    /\ Absent \notin Assignments /\ Deleted \notin Assignments /\ Absent # Deleted
    /\ MaxPrints \in Nat /\ MaxWire \in Nat \ {0} /\ MaxLeft \in Nat
    /\ Kinds \subseteq {"report", "frame", "offline", "sighting"}

VARIABLES
    row,            \* the bridge of the printer's row
    op,             \* op[o]: where a request or task is
    session,        \* session[b]: "hollow" when its socket had closed before it was registered
    wire, left,     \* what is under way on the session, and on one that was replaced
    known,          \* the bridges that have discovered the printer
    recalls,        \* the bridges whose printers are about to be recovered
    printer,        \* what the printer does
    overlapped,     \* ghost: an operation began while another was under way
    adrift,         \* ghost: the manager was last given the printer without its bridge
    cutShort        \* ghost: an operation failed that was to tell the manager of the row, and
                    \* the manager has not been told of it since

sessionVars == <<session, wire, left, known, recalls>>
rowVars == <<row, op, overlapped, adrift, cutShort>>
vars == <<presenceVars, rowVars, sessionVars, printer>>

Unused == [kind |-> "none", bridge |-> NoBridge, saw |-> NoBridge, at |-> "idle"]
Done == [Unused EXCEPT !.at = "done"]
Step(k, b, s, a) == [kind |-> k, bridge |-> b, saw |-> s, at |-> a]

Rows == Assignments \cup {Absent, Deleted}
Exists(r) == r \in Assignments
Pending(o) == op[o].at \in {"begun", "read", "checked", "written"}
Busy == \E o \in Ops : Pending(o)

Steps == [kind : {"none", "start", "edit", "delete", "detach", "recover", "refresh"},
          bridge : Assignments, saw : Rows, at : {"idle", "begun", "read", "checked", "written", "done"}]
Messages == [kind : Kinds, says : Progress]

ManagerTypeOK ==
    /\ PresenceTypeOK
    /\ row \in Rows
    /\ op \in [Ops -> Steps]
    /\ session \in [Bridges -> {"none", "live", "hollow"}]
    /\ wire \in [Bridges -> Seq(Messages)] /\ left \in [Bridges -> Seq(Messages)]
    /\ known \subseteq Bridges /\ recalls \subseteq Bridges
    /\ printer \in Progress
    /\ overlapped \in BOOLEAN /\ adrift \in BOOLEAN /\ cutShort \in BOOLEAN

ManagerInit ==
    /\ PresenceInit
    /\ row \in Assignments \cup {Absent}
    /\ \E o \in Ops : op = [x \in Ops |-> IF x = o THEN Step("start", NoBridge, NoBridge, "begun") ELSE Unused]
    /\ session = [b \in Bridges |-> "none"]
    /\ wire = [b \in Bridges |-> <<>>] /\ left = [b \in Bridges |-> <<>>]
    /\ known = {} /\ recalls = {}
    /\ printer = [ended |-> 0, printing |-> FALSE]
    /\ overlapped = FALSE /\ adrift = FALSE /\ cutShort = FALSE

-----------------------------------------------------------------------------
(* What changes the printer's row *)

Begin(o, step) == op[o] = Unused /\ op' = [op EXCEPT ![o] = step]
Reaches(o, a) == op' = [op EXCEPT ![o].at = a]
Over(o) == op' = [op EXCEPT ![o] = Done]
At(o, k, a) == op[o].kind = k /\ op[o].at = a

\* The printer's row is made or edited.  Whichever was wrong before, the manager
\* gets all there is to know.
EditWrite(o, b) ==
    /\ row # Deleted
    /\ row' = b
    /\ Begin(o, Step("edit", b, NoBridge, "written"))
    /\ overlapped' = Busy
    /\ UNCHANGED <<adrift, cutShort, presenceVars, sessionVars, printer>>

EditApply(o) ==
    /\ At(o, "edit", "written")
    /\ \E fresh \in BOOLEAN : Update(op[o].bridge, fresh)
    /\ Over(o)
    /\ adrift' = FALSE /\ cutShort' = FALSE
    /\ UNCHANGED <<row, overlapped, sessionVars, printer>>

DeleteWrite(o) ==
    /\ Exists(row)
    /\ row' = Deleted
    /\ Begin(o, Step("delete", NoBridge, NoBridge, "written"))
    /\ overlapped' = Busy
    /\ UNCHANGED <<adrift, cutShort, presenceVars, sessionVars, printer>>

DeleteApply(o) ==
    /\ At(o, "delete", "written")
    /\ Remove
    /\ Over(o)
    /\ cutShort' = FALSE
    /\ UNCHANGED <<row, overlapped, adrift, sessionVars, printer>>

\* A bridge is removed from its workspace, to which it may be added again: its
\* printers are read,
DetachRead(o, b) ==
    /\ Begin(o, Step("detach", b, IF row = b THEN b ELSE NoBridge, "read"))
    /\ overlapped' = (overlapped \/ Busy)
    /\ UNCHANGED <<row, adrift, cutShort, presenceVars, sessionVars, printer>>

\* those it has by then lose it,
DetachWrite(o) ==
    /\ At(o, "detach", "read")
    /\ row' = IF row = op[o].bridge THEN NoBridge ELSE row
    /\ Reaches(o, "written")
    /\ UNCHANGED <<overlapped, adrift, cutShort, presenceVars, sessionVars, printer>>

\* and the manager is told of those that were read.  Their other fields may be
\* outdated, or newer than those the manager has.
DetachApply(o) ==
    /\ At(o, "detach", "written")
    /\ IF op[o].saw = op[o].bridge
       THEN (\E fresh \in BOOLEAN : Update(NoBridge, fresh)) /\ adrift' = FALSE /\ cutShort' = FALSE
       ELSE UNCHANGED <<presenceVars, adrift, cutShort>>
    /\ Over(o)
    /\ UNCHANGED <<row, overlapped, sessionVars, printer>>

\* recoverBridgePrinterAssignments: the printers other bridges have, or none has,
\* are read;
RecoverRead(o, b) ==
    /\ b \in recalls
    /\ recalls' = recalls \ {b}
    /\ IF Exists(row) /\ row # b
       THEN Begin(o, Step("recover", b, row, "read")) /\ overlapped' = (overlapped \/ Busy)
       ELSE UNCHANGED <<op, overlapped>>
    /\ UNCHANGED <<row, adrift, cutShort, presenceVars, session, wire, left, known, printer>>

\* those that are orphans now, as their rows were read,
Orphan(r, b) ==
    \/ r = NoBridge /\ (Bridges = {b} \/ b \in known)
    \/ r \in Bridges /\ session[r] = "none" /\ b \in known

\* Mutant of RecoverCheck: whether the other bridge is connected is not asked.
RecoverAny(o) ==
    /\ At(o, "recover", "read")
    /\ Reaches(o, "checked")
    /\ UNCHANGED <<row, overlapped, adrift, cutShort, presenceVars, sessionVars, printer>>

RecoverCheck(o) ==
    /\ At(o, "recover", "read")
    /\ IF Orphan(op[o].saw, op[o].bridge) THEN Reaches(o, "checked") ELSE Over(o)
    /\ UNCHANGED <<row, overlapped, adrift, cutShort, presenceVars, sessionVars, printer>>

\* are given to the bridge, whatever their rows have become meanwhile,
RecoverWrite(o) ==
    /\ At(o, "recover", "checked")
    /\ row' = IF Exists(row) THEN op[o].bridge ELSE row
    /\ Reaches(o, "written")
    /\ UNCHANGED <<overlapped, adrift, cutShort, presenceVars, sessionVars, printer>>

\* and the manager is told.
RecoverApply(o) ==
    /\ At(o, "recover", "written")
    /\ \E fresh \in BOOLEAN : Update(op[o].bridge, fresh)
    /\ Over(o)
    /\ adrift' = FALSE /\ cutShort' = FALSE
    /\ UNCHANGED <<row, overlapped, sessionVars, printer>>

\* reconcileAdoptedPrinterHost: the row of a printer the bridge has gets the host,
RefreshWrite(o) ==
    /\ At(o, "refresh", "read")
    /\ IF row = op[o].bridge THEN Reaches(o, "written") ELSE Over(o)
    /\ UNCHANGED <<row, overlapped, adrift, cutShort, presenceVars, sessionVars, printer>>

\* and the manager gets the printer, without its bridge.
RefreshApply(o) ==
    /\ At(o, "refresh", "written")
    /\ Update(NoBridge, TRUE)
    /\ Over(o)
    /\ adrift' = TRUE /\ cutShort' = FALSE
    /\ UNCHANGED <<row, overlapped, sessionVars, printer>>

\* The start of the server comes to the manager, which reads the rows
StartRead(o) ==
    /\ At(o, "start", "begun")
    /\ op' = [op EXCEPT ![o] = Step("start", NoBridge, row, "read")]
    /\ UNCHANGED <<row, overlapped, adrift, cutShort, presenceVars, sessionVars, printer>>

\* and connects the printers it has read.
StartApply(o) ==
    /\ At(o, "start", "read")
    /\ IF Exists(op[o].saw) THEN Connect(op[o].saw) ELSE UNCHANGED presenceVars
    /\ Over(o)
    /\ adrift' = FALSE
    /\ UNCHANGED <<row, overlapped, cutShort, sessionVars, printer>>

\* A call of the database is rejected, though it may have been carried out, or
\* another one that follows: the operation ends, what it has written stays, and
\* the manager is not told.  A start that fails is logged, and the server goes on
\* without its printers.  A refresh has written nothing that is kept here.
Fail(o) ==
    /\ Pending(o)
    /\ Over(o)
    /\ cutShort' = \/ cutShort
                   \/ op[o].kind = "start"
                   \/ op[o].at = "written" /\ op[o].kind # "refresh"
    /\ UNCHANGED <<row, overlapped, adrift, presenceVars, sessionVars, printer>>

\* The server stops and is started again: what was under way is lost.
Restart(o) ==
    /\ op[o] = Unused
    /\ op' = [x \in Ops |-> IF x = o THEN Step("start", NoBridge, NoBridge, "begun")
                            ELSE IF op[x] = Unused THEN Unused ELSE Done]
    /\ Forget
    /\ session' = [b \in Bridges |-> "none"]
    /\ wire' = [b \in Bridges |-> <<>>] /\ left' = [b \in Bridges |-> <<>>]
    /\ known' = {} /\ recalls' = {}
    /\ overlapped' = FALSE /\ adrift' = FALSE /\ cutShort' = FALSE
    /\ UNCHANGED <<row, printer>>

-----------------------------------------------------------------------------
(* The sessions *)

Up(b) == session[b] # "none"

\* A session is registered, in place of the one there is.
SessionBegins(b) ==
    /\ wire[b] # <<>> => left[b] = <<>> /\ Len(wire[b]) <= MaxLeft
    /\ \E s \in {"live", "hollow"} : session' = [session EXCEPT ![b] = s]
    /\ left' = IF wire[b] = <<>> THEN left ELSE [left EXCEPT ![b] = wire[b]]
    /\ wire' = [wire EXCEPT ![b] = <<>>]
    /\ recalls' = recalls \cup {b}
    /\ UNCHANGED <<known, presenceVars, rowVars, printer>>

\* Mutant of SessionEnds: the printers of the bridge are left as they are.
SessionEndsSilently(b) ==
    /\ session[b] = "live"
    /\ session' = [session EXCEPT ![b] = "none"]
    /\ wire' = [wire EXCEPT ![b] = <<>>]
    /\ known' = known \ {b}
    /\ UNCHANGED <<left, recalls, presenceVars, rowVars, printer>>

\* Its socket is closed.
SessionEnds(b) ==
    /\ session[b] = "live"
    /\ session' = [session EXCEPT ![b] = "none"]
    /\ wire' = [wire EXCEPT ![b] = <<>>]
    /\ known' = known \ {b}
    /\ Defer(b)
    /\ UNCHANGED <<left, recalls, rowVars, printer>>

\* The socket of one that was replaced is closed.
LeftEnds(b) ==
    /\ left[b] # <<>>
    /\ left' = [left EXCEPT ![b] = <<>>]
    /\ UNCHANGED <<session, wire, known, recalls, presenceVars, rowVars, printer>>

Sent(kind) ==
    [kind |-> kind,
     says |-> IF kind = "report" THEN printer ELSE [ended |-> 0, printing |-> FALSE]]

\* The bridge reports the printer, loses it, or discovers it.
Send(b) ==
    /\ session[b] = "live" /\ Len(wire[b]) < MaxWire
    /\ \E kind \in Kinds :
        wire' = [wire EXCEPT ![b] = Append(@, Sent(kind))]
    /\ UNCHANGED <<session, left, known, recalls, presenceVars, rowVars, printer>>

PrinterGoes ==
    /\ \/ ~printer.printing /\ printer.ended < MaxPrints /\ printer' = [printer EXCEPT !.printing = TRUE]
       \/ printer.printing /\ printer' = [ended |-> printer.ended + 1, printing |-> FALSE]
    /\ UNCHANGED <<presenceVars, rowVars, sessionVars>>

\* setBridgePrinters: the printer may have gone from what the bridge discovers.  A
\* host that is new to the bridge is compared with the row's, unless that is being
\* done; for the others the manager gets a hint, or has just had one.  Then the
\* bridge's printers are recovered.
Sight(b) ==
    /\ recalls' = recalls \cup {b}
    /\ \/ known' = known \ {b} /\ UNCHANGED <<presenceVars, op, overlapped>>
       \/ known' = known \cup {b} /\ UNCHANGED <<presenceVars, op, overlapped>>
       \/ b \in known /\ known' = known /\ Hint(b, Up(b)) /\ UNCHANGED <<op, overlapped>>
       \/ /\ known' = known \cup {b}
          /\ \A x \in Ops : op[x].kind # "refresh"
          /\ \E o \in Ops : Begin(o, Step("refresh", b, NoBridge, "read"))
          /\ overlapped' = (overlapped \/ Busy)
          /\ UNCHANGED presenceVars

\* handleAuthenticatedMessage, which does not ask whose socket the message is from.
Handle(b, m) ==
    /\ UNCHANGED <<row, adrift, cutShort, session, printer>>
    /\ \/ m.kind = "report" /\ TakeReport(b, m.says, Up(b)) /\ UNCHANGED <<known, recalls, op, overlapped>>
       \/ m.kind = "frame" /\ TakeFrame(b, Up(b)) /\ UNCHANGED <<known, recalls, op, overlapped>>
       \/ m.kind = "offline" /\ TakeOffline(b) /\ UNCHANGED <<known, recalls, op, overlapped>>
       \/ m.kind = "sighting" /\ Sight(b)

Receive(b) ==
    /\ wire[b] # <<>>
    /\ wire' = [wire EXCEPT ![b] = Tail(@)] /\ UNCHANGED left
    /\ Handle(b, Head(wire[b]))

ReceiveLeft(b) ==
    /\ left[b] # <<>>
    /\ left' = [left EXCEPT ![b] = Tail(@)] /\ UNCHANGED wire
    /\ Handle(b, Head(left[b]))

OfflineTimer == Expire /\ UNCHANGED <<rowVars, sessionVars, printer>>

-----------------------------------------------------------------------------

Begins(o) ==
    \/ \E b \in Assignments : EditWrite(o, b)
    \/ DeleteWrite(o) \/ Restart(o)
    \/ \E b \in Bridges : DetachRead(o, b) \/ RecoverRead(o, b)

Goes(o) ==
    \/ EditApply(o) \/ DeleteApply(o) \/ StartRead(o) \/ StartApply(o)
    \/ DetachWrite(o) \/ DetachApply(o)
    \/ RecoverCheck(o) \/ RecoverWrite(o) \/ RecoverApply(o)
    \/ RefreshWrite(o) \/ RefreshApply(o)
    \/ Fail(o)

ManagerNext ==
    \/ \E o \in Ops : Begins(o) \/ Goes(o)
    \/ \E b \in Bridges : SessionBegins(b) \/ SessionEnds(b) \/ LeftEnds(b)
    \/ \E b \in Bridges : Send(b) \/ Receive(b) \/ ReceiveLeft(b)
    \/ PrinterGoes
    \/ OfflineTimer

ManagerSpec == ManagerInit /\ [][ManagerNext]_vars

\* The timer is the only thing that is sure to happen.
ManagerFairSpec == ManagerSpec /\ WF_vars(OfflineTimer)

-----------------------------------------------------------------------------
(* Properties *)

\* When nothing is under way, and nothing has overlapped since the printer was
\* last edited or the server last started, the manager has the printer if it has
\* a row, and, unless its host was refreshed, for the bridge of that row.  Exempt
\* is what a request or a start that fails half way leaves behind, until the next
\* one that reaches the manager.
RowFollowed ==
    ~Busy /\ ~overlapped /\ ~cutShort =>
        /\ managed <=> Exists(row)
        /\ managed /\ ~adrift => bridgeId = row

\* A printer shown online has a bridge with a session, or the end of its session
\* is about to be noticed, or it was last heard on a session that was replaced by
\* one that had ended before.
OutageNoticed ==
    online => managed /\ bridgeId \in Bridges /\ (Up(bridgeId) \/ timer \/ unbacked)

\* It does not stay online without a session.
OutageSurfaces ==
    \A b \in Bridges :
        online /\ bridgeId = b /\ ~Up(b) ~> ~online \/ bridgeId # b \/ Up(b) \/ unbacked

\* No more prints are announced as finished than have ended, whatever becomes of
\* sessions, assignments and the server, unless reports were taken out of order.
FinishesReal == ~disordered => finished <= printer.ended

\* "It only moves orphaned printers" (bridge-assignment-recovery.ts): what it decides
\* to move has no bridge by then, or one without a session, unless another operation
\* came in between.
RecoveryTakesOrphans ==
    [][\A o \in Ops : RecoverCheck(o) /\ op'[o].at = "checked" /\ ~overlapped =>
        row = NoBridge \/ (row \in Bridges /\ session[row] = "none")]_vars

=============================================================================
