------------------------------- MODULE PrintQueue -------------------------------
(***************************************************************************)
(* The print queue: items that users dispatch one by one or all at once.   *)
(* A dispatch request claims the row of its item, hands the item to the    *)
(* print dispatcher and writes the linkage; the events of the job recorder *)
(* move the row on.  Requests and event handlers interleave at every       *)
(* database call.                                                          *)
(*                                                                         *)
(* The dispatcher and the recorder appear as the queue sees them.  A       *)
(* dispatch is accepted or refused.  An accepted one fails before it has a *)
(* history row, and then nobody hears of it; or it is cancelled or cannot  *)
(* be published, and its end is announced; or it prints, and its start and *)
(* its end are.  A failed one is kept for its user to retry or cancel.     *)
(***************************************************************************)
EXTENDS PlateClearing, FiniteSets

CONSTANTS
    Items,
    Quantity, Pinned,   \* per item
    NameOf,             \* the job name an item is printed under
    NoItem, NoPrint,
    Requests,           \* dispatch requests that may be under way together
    Edits,              \* edits that may be under way together
    MaxDisturbances     \* bound on edits, removals, retries, failing calls, crashes and plate requests together

ASSUME QueueAssumption ==
    /\ Quantity \in [Items -> Nat \ {0}] /\ Pinned \in [Items -> BOOLEAN]
    /\ DOMAIN NameOf = Items
    /\ NoItem \notin Items /\ Prints \subseteq Nat \ {NoPrint}
    /\ IsFiniteSet(Prints) /\ MaxDisturbances \in Nat

VARIABLES
    row,        \* row[i]: the QueueItem row, "gone" once deleted
    request,    \* request[r]: where a dispatch request is
    edit,       \* edit[e]: where an edit is
    print,      \* print[d]: an attempt to print an item, and the dispatch job it is of
    started,    \* started[d], finished[d]: the handlers of the events of d
    finished,
    disturbances,
    credited,   \* ghost: the copies counted for an item
    raced,      \* ghost: items an edit was written to that had changed since it read them
    revisited,  \* ghost: items of which a dispatch was taken up again after its end was announced
    mistaken,   \* ghost: items an event was matched to, by name, that was of another item's print
    upset       \* ghost: items something happened to that strands them, see below

ghostVars == <<credited, raced, revisited, mistaken, upset>>
queueVars == <<row, request, edit, print, started, finished, disturbances, ghostVars>>
allVars == <<queueVars, plateVars>>

Dispatchable == {"queued", "failed"}
Statuses == {"queued", "held", "failed", "dispatching", "printing", "gone"}

NoRequest == [at |-> "idle", item |-> NoItem, printer |-> NoPrinter, previous |-> "gone", print |-> NoPrint]
NoEdit == [at |-> "idle", item |-> NoItem, seen |-> "gone", status |-> "gone"]
NoHandler == [at |-> "none", item |-> NoItem, count |-> 0]
Handled == [at |-> "done", item |-> NoItem, count |-> 0]

\* What there is of an attempt: "none", "dispatching" until the start command is
\* out, then "printing" and "over".  If the command never goes out it is
\* "failed", in silence, or "refused" by the printer's connection, and may be
\* taken up again; or "cancelled"; or "lost" with the server.
Ended == {"refused", "cancelled", "over"}
Live(d) == print[d].state \in {"dispatching", "printing"}

RowsOK ==
    row \in [Items -> [status : Statuses, printer : Printers \cup {NoPrinter},
                       print : Prints \cup {NoPrint}, count : Nat]]

RequestsOK ==
    /\ request \in [Requests -> [at : {"idle", "claiming", "enqueuing", "linking"},
                                 item : Items \cup {NoItem}, printer : Printers \cup {NoPrinter},
                                 previous : Statuses, print : Prints \cup {NoPrint}]]
    /\ \A r \in Requests :
        /\ request[r].at # "idle" => request[r].item \in Items /\ request[r].printer \in Printers
        /\ request[r].at = "linking" => request[r].print \in Prints

EditsOK ==
    /\ edit \in [Edits -> [at : {"idle", "writing"}, item : Items \cup {NoItem},
                           seen : Statuses, status : Statuses]]
    /\ \A e \in Edits : edit[e].at = "writing" => edit[e].item \in Items

PrintsOK ==
    /\ print \in [Prints -> [state : {"none", "dispatching", "failed", "lost", "printing"} \cup Ended,
                             job : Prints \cup {NoPrint}, item : Items \cup {NoItem}, printer : Printers \cup {NoPrinter},
                             success : BOOLEAN]]
    /\ \A d \in Prints : print[d].state # "none" => print[d].item \in Items /\ print[d].printer \in Printers

HandlersOK(h) ==
    /\ h \in [Prints -> [at : {"none", "writing", "done"}, item : Items \cup {NoItem}, count : Nat]]
    /\ \A d \in Prints : h[d].at = "writing" => h[d].item \in Items

QueueTypeOK ==
    /\ PlateTypeOK
    /\ RowsOK /\ RequestsOK /\ EditsOK /\ PrintsOK
    /\ HandlersOK(started) /\ HandlersOK(finished)
    /\ disturbances \in 0..MaxDisturbances
    /\ credited \in [Items -> Nat]
    /\ raced \cup revisited \cup mistaken \cup upset \subseteq Items

QueueInit ==
    /\ PlateInit
    /\ row = [i \in Items |-> [status |-> "queued", printer |-> NoPrinter, print |-> NoPrint, count |-> 0]]
    /\ request = [r \in Requests |-> NoRequest]
    /\ edit = [e \in Edits |-> NoEdit]
    /\ print = [d \in Prints |-> [state |-> "none", job |-> NoPrint, item |-> NoItem, printer |-> NoPrinter,
                               success |-> FALSE]]
    /\ started = [d \in Prints |-> NoHandler] /\ finished = [d \in Prints |-> NoHandler]
    /\ disturbances = 0
    /\ credited = [i \in Items |-> 0]
    /\ raced = {} /\ revisited = {} /\ mistaken = {} /\ upset = {}

-----------------------------------------------------------------------------
(* Dispatch requests *)

Disturbs == disturbances < MaxDisturbances /\ disturbances' = disturbances + 1

Exists(i) == row[i].status # "gone"
Idle(p) == \A d \in Prints : ~(print[d].state = "printing" /\ print[d].printer = p)

\* Every item of a sweep over the idle printers is dispatched as by a request
\* of its own, of a queued item.
\* The row is read, and an idle printer chosen.
ReadForDispatch(r, i, p) ==
    /\ request[r].at = "idle"
    /\ row[i].status \in Dispatchable
    /\ Idle(p)
    /\ request' = [request EXCEPT ![r] = [at |-> "claiming", item |-> i, printer |-> p,
                                          previous |-> row[i].status, print |-> NoPrint]]
    /\ UNCHANGED <<row, edit, print, started, finished, disturbances, ghostVars, plateVars>>

\* Mutant of Claim: whatever the row has become meanwhile.
ClaimUnchecked(r) ==
    LET i == request[r].item IN
    /\ request[r].at = "claiming"
    /\ row' = [row EXCEPT ![i].status = IF Exists(i) THEN "dispatching" ELSE "gone"]
    /\ request' = [request EXCEPT ![r].at = "enqueuing"]
    /\ UNCHANGED <<edit, print, started, finished, disturbances, ghostVars, plateVars>>

\* Claim the row if it still has the status that was read, else a conflict.
Claim(r) ==
    LET i == request[r].item IN
    /\ request[r].at = "claiming"
    /\ IF row[i].status = request[r].previous
       THEN /\ row' = [row EXCEPT ![i].status = "dispatching"]
            /\ request' = [request EXCEPT ![r].at = "enqueuing"]
       ELSE request' = [request EXCEPT ![r] = NoRequest] /\ UNCHANGED row
    /\ UNCHANGED <<edit, print, started, finished, disturbances, ghostVars, plateVars>>

\* The numbers of the attempts are taken in order.
NextPrint == {d \in Prints : print[d].state = "none" /\ \A e \in Prints : e < d => print[e].state # "none"}

\* The dispatcher takes the item: no other dispatch of the printer is active
\* and no guard objects.
Accept(r, d) ==
    LET p == request[r].printer IN
    /\ request[r].at = "enqueuing"
    /\ d \in NextPrint
    /\ \A e \in Prints : ~(print[e].state = "dispatching" /\ print[e].printer = p)
    /\ PlateAllows(p)
    /\ print' = [print EXCEPT ![d] = [state |-> "dispatching", job |-> d, item |-> request[r].item,
                                      printer |-> p, success |-> FALSE]]
    /\ request' = [request EXCEPT ![r].at = "linking", ![r].print = d]
    /\ UNCHANGED <<row, edit, started, finished, disturbances, ghostVars, plateVars>>

\* The dispatcher refuses it, for its printer, a guard or the file, and the claim
\* is undone if the row is still claimed.
Refuse(r) ==
    LET i == request[r].item IN
    /\ request[r].at = "enqueuing"
    /\ row' = IF row[i].status = "dispatching"
              THEN [row EXCEPT ![i].status = request[r].previous] ELSE row
    /\ request' = [request EXCEPT ![r] = NoRequest]
    /\ UNCHANGED <<edit, print, started, finished, disturbances, ghostVars, plateVars>>

\* The linkage of the accepted dispatch; it says nothing of the print's id.
\* Should an event of the print have been looked at before, the row missed it.
Link(r) ==
    LET i == request[r].item
        d == request[r].print IN
    /\ request[r].at = "linking"
    /\ row' = IF Exists(i)
              THEN [row EXCEPT ![i] = [status |-> "dispatching", printer |-> request[r].printer,
                                       print |-> NoPrint, count |-> row[i].count]]
              ELSE row
    /\ upset' = IF started[d].at # "none" \/ finished[d].at # "none" THEN upset \cup {i} ELSE upset
    /\ request' = [request EXCEPT ![r] = NoRequest]
    /\ UNCHANGED <<edit, print, started, finished, disturbances, credited, raced, revisited, mistaken, plateVars>>

\* A database call of the request rejects where that leaves the row claimed: the
\* claim, which took effect nonetheless; the rollback; or the linkage, for which
\* there is no rollback any more.
RequestFails(r) ==
    LET i == request[r].item IN
    /\ request[r].at # "idle" /\ Disturbs
    /\ request[r].at = "claiming" => row[i].status = request[r].previous
    /\ row' = IF request[r].at = "claiming" THEN [row EXCEPT ![i].status = "dispatching"] ELSE row
    /\ request' = [request EXCEPT ![r] = NoRequest]
    /\ upset' = upset \cup {i}
    /\ UNCHANGED <<edit, print, started, finished, credited, raced, revisited, mistaken, plateVars>>

-----------------------------------------------------------------------------
(* Edits *)

\* What the row must be for an edit to be allowed, and what it makes of it.
EditOf == {[from |-> "queued", to |-> "held"], [from |-> "held", to |-> "queued"], [from |-> "failed", to |-> "queued"]}

\* PATCH (hold, resume) and requeue read the row and check its status.
ReadForEdit(e, i) ==
    /\ edit[e].at = "idle"
    /\ Disturbs
    /\ \E o \in EditOf :
        /\ row[i].status = o.from
        /\ edit' = [edit EXCEPT ![e] = [at |-> "writing", item |-> i, seen |-> o.from, status |-> o.to]]
    /\ UNCHANGED <<row, request, print, started, finished, ghostVars, plateVars>>

\* They write it by its id alone; a requeue also drops the linked print.
WriteEdit(e) ==
    LET i == edit[e].item IN
    /\ edit[e].at = "writing"
    /\ row' = IF Exists(i)
              THEN [row EXCEPT ![i].status = edit[e].status,
                               ![i].print = IF edit[e].seen = "failed" THEN NoPrint ELSE row[i].print]
              ELSE row
    /\ raced' = IF row[i].status # edit[e].seen THEN raced \cup {i} ELSE raced
    /\ edit' = [edit EXCEPT ![e] = NoEdit]
    /\ UNCHANGED <<request, print, started, finished, disturbances, credited, revisited, mistaken, upset, plateVars>>

\* An item may be removed whatever it is doing.
Remove(i) ==
    /\ Exists(i) /\ Disturbs
    /\ row' = [row EXCEPT ![i].status = "gone"]
    /\ UNCHANGED <<request, edit, print, started, finished, ghostVars, plateVars>>

-----------------------------------------------------------------------------
(* Prints, as the dispatcher and the recorder announce them *)

\* The dispatch fails before it has a history row; its item is not told.
Fail(d) ==
    /\ print[d].state = "dispatching"
    /\ print' = [print EXCEPT ![d].state = "failed"]
    /\ upset' = upset \cup {print[d].item}
    /\ UNCHANGED <<row, request, edit, started, finished, disturbances, credited, raced, revisited, mistaken, plateVars>>

\* The start command is not taken, or the dispatch is cancelled before it: its
\* history row, made for the purpose if need be, is closed and its end announced.
Withdraw(d) ==
    /\ print[d].state = "dispatching"
    /\ \E end \in {"refused", "cancelled"} : print' = [print EXCEPT ![d].state = end]
    /\ UNCHANGED <<row, request, edit, started, finished, disturbances, ghostVars, plateVars>>

\* The user of a dispatch that failed in silence retries it, or cancels it and
\* its end is announced.  The dispatcher does not look at the queue.
TakeUp(d) ==
    /\ print[d].state = "failed" /\ Disturbs
    /\ \E state \in {"dispatching", "cancelled"} : print' = [print EXCEPT ![d].state = state]
    /\ UNCHANGED <<row, request, edit, started, finished, ghostVars, plateVars>>

\* The same where the end had been announced before, and the item given back to
\* its users: another attempt of the same job, with events of its own.
TakeUpAgain(d, e) ==
    /\ print[d].state = "refused" /\ e \in NextPrint /\ Disturbs
    /\ \A f \in Prints : print[f].job = print[d].job => f <= d
    /\ \E state \in {"dispatching", "cancelled"} : print' = [print EXCEPT ![e] = [print[d] EXCEPT !.state = state]]
    /\ revisited' = revisited \cup {print[d].item}
    /\ UNCHANGED <<row, request, edit, started, finished, credited, raced, mistaken, upset, plateVars>>

\* The history row exists and the start command is out.
Begin(d) ==
    /\ print[d].state = "dispatching"
    /\ print' = [print EXCEPT ![d].state = "printing"]
    /\ UNCHANGED <<row, request, edit, started, finished, disturbances, ghostVars, plateVars>>

\* The print ends: job.finished is emitted, and print-job.finished for it.
End(d) ==
    /\ print[d].state = "printing"
    /\ \E success \in BOOLEAN :
        /\ print' = [print EXCEPT ![d].state = "over", ![d].success = success]
    /\ PlateFinished(d, print[d].printer)
    /\ UNCHANGED <<row, request, edit, started, finished, disturbances, ghostVars>>

-----------------------------------------------------------------------------
(* The handlers of the events *)

\* findItemForJob, its two queries; which of several items of one name was
\* dispatched last is left open.  Items of one file and plate have one name.
ByJob(d, statuses) == {i \in Items : row[i].print = print[d].job /\ row[i].status \in statuses}

ByName(d, statuses) ==
    {i \in Items : /\ row[i].printer = print[d].printer
                   /\ NameOf[i] = NameOf[print[d].item]
                   /\ row[i].status \in statuses}

\* The item of d is looked for by the one query and then by the other: what
\* becomes of the handler.
Lookup(d, statuses) ==
    LET items == IF ByJob(d, statuses) # {} THEN ByJob(d, statuses) ELSE ByName(d, statuses) IN
    IF items = {} THEN {Handled}
    ELSE {[at |-> "writing", item |-> i, count |-> row[i].count] : i \in items}

\* Items that a handler of d takes for the one d is a print of.
Mistakes(d, h) == IF h.at = "writing" THEN {h.item} \ {print[d].item} ELSE {}

\* handleStarted: first the queries,
FindStarted(d) ==
    /\ print[d].state \in {"printing", "over"} /\ started[d].at = "none"
    /\ \E h \in Lookup(d, {"dispatching"}) :
        /\ started' = [started EXCEPT ![d] = h]
        /\ mistaken' = mistaken \cup Mistakes(d, h)
    /\ UNCHANGED <<row, request, edit, print, finished, disturbances, credited, raced, revisited, upset, plateVars>>

\* and then the row is printing, whatever it was.
WriteStarted(d) ==
    LET i == started[d].item IN
    /\ started[d].at = "writing"
    /\ row' = IF Exists(i) THEN [row EXCEPT ![i].status = "printing", ![i].print = print[d].job] ELSE row
    /\ upset' = IF finished[d].at # "none" THEN upset \cup {i} ELSE upset
    /\ started' = [started EXCEPT ![d] = Handled]
    /\ UNCHANGED <<request, edit, print, finished, disturbances, credited, raced, revisited, mistaken, plateVars>>

\* The recorder cannot announce the start, or a query or the update rejects: it
\* is logged and left at that.
StartedFails(d) ==
    /\ print[d].state \in {"printing", "over"} /\ started[d].at # "done" /\ Disturbs
    /\ started' = [started EXCEPT ![d] = Handled]
    /\ UNCHANGED <<row, request, edit, print, finished, ghostVars, plateVars>>

\* Mutant of FindFinished: an item whose start was not seen is not found.
FindFinishedPrinting(d) ==
    /\ print[d].state \in Ended /\ finished[d].at = "none"
    /\ \E h \in Lookup(d, {"printing"}) :
        /\ finished' = [finished EXCEPT ![d] = h]
        /\ mistaken' = mistaken \cup Mistakes(d, h)
        /\ upset' = IF Mistakes(d, h) # {} THEN upset \cup {print[d].item} ELSE upset
    /\ UNCHANGED <<row, request, edit, print, started, disturbances, credited, raced, revisited, plateVars>>

\* handleFinished: the same queries; the item of d is never told if another one
\* was found,
FindFinished(d) ==
    /\ print[d].state \in Ended /\ finished[d].at = "none"
    /\ \E h \in Lookup(d, {"dispatching", "printing"}) :
        /\ finished' = [finished EXCEPT ![d] = h]
        /\ mistaken' = mistaken \cup Mistakes(d, h)
        /\ upset' = IF Mistakes(d, h) # {} THEN upset \cup {print[d].item} ELSE upset
    /\ UNCHANGED <<row, request, edit, print, started, disturbances, credited, raced, revisited, plateVars>>

\* Mutant of AfterSuccess: the item stays until a print too many.
AfterSuccessOfMany(i, count) ==
    LET done == count + 1 > Quantity[i] IN
    IF done /\ ~Pinned[i] THEN [row EXCEPT ![i].status = "gone"]
    ELSE [row EXCEPT ![i].status = "queued", ![i].print = NoPrint, ![i].count = IF done THEN 0 ELSE count + 1]

\* The rows after one more copy of i on top of count: an unpinned item that has
\* all its copies leaves the queue, a pinned one begins again.
AfterSuccess(i, count) ==
    LET done == count + 1 >= Quantity[i] IN
    IF done /\ ~Pinned[i] THEN [row EXCEPT ![i].status = "gone"]
    ELSE [row EXCEPT ![i].status = "queued", ![i].print = NoPrint, ![i].count = IF done THEN 0 ELSE count + 1]

\* and then the row counts the copy or has failed.
WriteFinished(d) ==
    LET i == finished[d].item
        counts == print[d].success /\ Exists(i) IN
    /\ finished[d].at = "writing"
    /\ row' = CASE ~Exists(i) -> row
                [] counts -> AfterSuccess(i, finished[d].count)
                [] OTHER -> [row EXCEPT ![i].status = "failed"]
    /\ credited' = IF counts THEN [credited EXCEPT ![i] = @ + 1] ELSE credited
    /\ finished' = [finished EXCEPT ![d] = Handled]
    /\ UNCHANGED <<request, edit, print, started, disturbances, raced, revisited, mistaken, upset, plateVars>>

\* The end cannot be recorded and is not announced, or a query or the write
\* rejects: it is logged, and the row stays as it is.
FinishedFails(d) ==
    /\ print[d].state \in Ended /\ finished[d].at # "done" /\ Disturbs
    /\ finished' = [finished EXCEPT ![d] = Handled]
    /\ upset' = upset \cup {IF finished[d].at = "writing" THEN finished[d].item ELSE print[d].item}
    /\ UNCHANGED <<row, request, edit, print, started, credited, raced, revisited, mistaken, plateVars>>

-----------------------------------------------------------------------------

\* What the death of the server makes of an attempt: the dispatcher's list of jobs
\* is gone.
AfterCrash(state) ==
    CASE state \in {"dispatching", "failed"} -> "lost"
      [] state = "refused" -> "cancelled"
      [] OTHER -> state

\* The server dies and comes back: requests and handlers are gone, what had not
\* reached its printer is lost, and no row of the queue is looked at.
Crash ==
    /\ Disturbs
    /\ request' = [r \in Requests |-> NoRequest]
    /\ edit' = [e \in Edits |-> NoEdit]
    /\ print' = [d \in Prints |-> [print[d] EXCEPT !.state = AfterCrash(@)]]
    /\ started' = [d \in Prints |-> IF started[d].at = "none" THEN NoHandler ELSE Handled]
    /\ finished' = [d \in Prints |-> IF print[d].state \in Ended THEN Handled ELSE NoHandler]
    /\ upset' = upset \cup {i \in Items : row[i].status \in {"dispatching", "printing"}}
    /\ PlateRestart
    /\ UNCHANGED <<row, credited, raced, revisited, mistaken>>

PlateOnly(w) == PlateStep(w) /\ UNCHANGED queueVars

PlateFails(w) ==
    /\ WriteFails(w) /\ Disturbs
    /\ UNCHANGED <<row, request, edit, print, started, finished, ghostVars>>

UserOfPlate(w, p) ==
    /\ ClearPlate(w, p) \/ NeedsClear(w, p)
    /\ Disturbs
    /\ UNCHANGED <<row, request, edit, print, started, finished, ghostVars>>

RequestStep(r) ==
    \/ Claim(r) \/ (\E d \in Prints : Accept(r, d)) \/ Refuse(r) \/ Link(r)
    \/ RequestFails(r)

HandlerStep(d) ==
    \/ FindStarted(d) \/ WriteStarted(d) \/ StartedFails(d)
    \/ FindFinished(d) \/ WriteFinished(d) \/ FinishedFails(d)

PrintStep(d) ==
    \/ Begin(d) \/ End(d) \/ Fail(d) \/ Withdraw(d) \/ TakeUp(d)
    \/ \E e \in Prints : TakeUpAgain(d, e)

QueueNext ==
    \/ \E r \in Requests : RequestStep(r) \/ \E i \in Items, p \in Printers : ReadForDispatch(r, i, p)
    \/ \E e \in Edits : WriteEdit(e) \/ \E i \in Items : ReadForEdit(e, i)
    \/ \E i \in Items : Remove(i)
    \/ \E d \in Prints : PrintStep(d) \/ HandlerStep(d)
    \/ \E w \in Writers : PlateOnly(w) \/ PlateFails(w)
    \/ \E w \in PlateRequests, p \in Printers : UserOfPlate(w, p)
    \/ Crash

QueueSpec == QueueInit /\ [][QueueNext]_allVars

-----------------------------------------------------------------------------
(* Properties *)

\* The items the queue can answer for: no edit was written over a status it had
\* not read, no dispatch of theirs was retried or cancelled once its end had been
\* announced (the dispatcher asks no row and no guard then), and no event of
\* another item's print was taken for theirs.
Regular == Items \ (raced \cup revisited \cup mistaken)

\* However requests, failures and events interleave, a regular item is printed
\* once at a time, and none of its prints is alive while it can be dispatched
\* again: "callers claim the row ..., so accepting a job cannot leave it eligible
\* for a concurrent second dispatch" (routes.ts).
PrintedOnceAtATime ==
    \A i \in Regular :
        LET live == {d \in Prints : print[d].item = i /\ Live(d)} IN
        /\ Cardinality(live) <= 1
        /\ row[i].status \in Dispatchable => live = {}

\* Of a regular item only prints that succeeded are counted, each of them once,
\* and the rounds of a pinned item and the end of an unpinned one come at its
\* quantity.
CopiesCounted ==
    \A i \in Regular :
        /\ credited[i] <= Cardinality({d \in Prints : print[d].item = i /\ print[d].success})
        /\ Exists(i) => /\ row[i].count = credited[i] % Quantity[i]
                        /\ Pinned[i] \/ credited[i] < Quantity[i]

\* No request's print is accepted onto a plate that a print has been left on, once
\* the end of that print has been recorded; a retried dispatch asks no guard.
PlateGuarded ==
    [][\A d \in Prints :
        LET p == print'[d].printer IN
        print[d].state = "none" /\ print'[d].state = "dispatching" /\ print'[d].job = d
            => p \notin occupied \/ WritesOn(p) # {} \/ p \in unsure]_allVars

\* While a row is under way, a request, a print or an event is going to move it.
Attended(i) ==
    \/ \E r \in Requests : request[r].item = i /\ request[r].at # "claiming"
    \/ \E d \in Prints : print[d].item = i /\ print[d].state \notin {"failed", "lost"} /\ finished[d].at # "done"

\* A regular item under way comes back to its users, or leaves the queue, unless
\* its dispatch failed in silence, its print was announced before the linkage was
\* written or out of order, the end of its print was credited to another item, a
\* database call of its request or of the handler of its end rejected, or the
\* server died.
NotStranded ==
    \A i \in Regular \ upset : row[i].status \in {"dispatching", "printing"} => Attended(i)

=============================================================================
