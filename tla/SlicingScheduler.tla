--------------------------- MODULE SlicingScheduler ---------------------------
(***************************************************************************)
(* The execution slots of the slicer, shared by the jobs of workspaces     *)
(* (paid before free) and of anonymous callers, who are capped and served  *)
(* lightest caller first.                                                  *)
(*                                                                         *)
(* Everything here is synchronous code of one thread, and yet it           *)
(* interleaves: a claim runs the owner's start callback, which may call    *)
(* the scheduler again while the loops below it on the stack wait.  The    *)
(* stack alternates pump loops and callbacks, so its depth and what is on  *)
(* top of it say it all.                                                   *)
(***************************************************************************)
EXTENDS Naturals, FiniteSets

CONSTANTS
    Tickets,            \* ticket ids; an id can be enqueued again (a retry)
    TierOf, CreatedAt,  \* per ticket
    ActorOf,            \* the anonymous caller behind a ticket, or NoActor
    Actors, NoActor,
    MaxConcurrentJobs, MaxAnonymousJobs,
    MaxDepth,           \* bound on how deep calls from callbacks nest
    MaxStarts           \* bound on the starts of an actor that enqueues again

Weight == [paid |-> 0, free |-> 1, anonymous |-> 2]

ASSUME SchedulerAssumption ==
    /\ TierOf \in [Tickets -> DOMAIN Weight]
    /\ CreatedAt \in [Tickets -> Nat]
    /\ ActorOf \in [Tickets -> Actors \cup {NoActor}]
    /\ NoActor \notin Actors
    /\ \A t \in Tickets : TierOf[t] # "anonymous" => ActorOf[t] = NoActor
    /\ MaxConcurrentJobs \in Nat /\ MaxAnonymousJobs \in Nat
    /\ MaxDepth \in Nat /\ MaxStarts \in Nat

VARIABLES
    waiting,    \* tickets that wait for a slot
    active,     \* tickets that hold one
    starts,     \* starts[a]: anonymousStarts, where 0 stands for no entry
    pumps,      \* the pump loops on the stack
    calling     \* a start callback is on top of the stack

schedulerVars == <<waiting, active, starts, pumps, calling>>

SchedulerTypeOK ==
    /\ waiting \subseteq Tickets
    /\ active \subseteq Tickets /\ IsFiniteSet(active)
    /\ waiting \cap active = {}
    /\ starts \in [Actors -> Nat]
    /\ pumps \in Nat
    /\ calling \in BOOLEAN /\ (calling => pumps > 0)

SchedulerInit ==
    /\ waiting = {} /\ active = {}
    /\ starts = [a \in Actors |-> 0]
    /\ pumps = 0 /\ calling = FALSE

-----------------------------------------------------------------------------

\* The starts a ticket is ordered by: its caller's, if it has one.
Usage(t) == IF ActorOf[t] = NoActor THEN 0 ELSE starts[ActorOf[t]]

\* Mutant of Precedes: the younger of two equals first.
PrecedesByYouth(t, u) ==
    \/ Weight[TierOf[t]] < Weight[TierOf[u]]
    \/ TierOf[t] = TierOf[u] /\ CreatedAt[t] > CreatedAt[u]

\* orderedWaiting: by tier, among anonymous tickets by usage, then by age.
Precedes(t, u) ==
    \/ Weight[TierOf[t]] < Weight[TierOf[u]]
    \/ /\ TierOf[t] = TierOf[u]
       /\ \/ Usage(t) < Usage(u)
          \/ Usage(t) = Usage(u) /\ CreatedAt[t] < CreatedAt[u]

Anonymous == {t \in active : TierOf[t] = "anonymous"}

Runnable == {t \in waiting : TierOf[t] # "anonymous" \/ Cardinality(Anonymous) < MaxAnonymousJobs}

\* nextRunnable; which of two equals comes first is left open.
NextRunnable == {t \in Runnable : \A u \in Runnable : ~Precedes(u, t)}

\* Mutant of Released: the caller is forgotten whatever it has left.
ReleasedAtOnce(t, left) == [a \in Actors |-> IF a = ActorOf[t] THEN 0 ELSE starts[a]]

\* releaseAnonymousActor: forget the caller of t when nothing of it is left.
Released(t, left) ==
    [a \in Actors |-> IF a = ActorOf[t] /\ \A u \in left : ActorOf[u] # a THEN 0 ELSE starts[a]]

\* Code outside the scheduler runs: at the bottom of the stack or in a callback.
OwnerRuns == pumps = 0 \/ calling

\* Enter pump().
Pump == pumps < MaxDepth /\ pumps' = pumps + 1 /\ calling' = FALSE

-----------------------------------------------------------------------------

Enqueue(t) ==
    /\ OwnerRuns
    /\ t \notin waiting \cup active
    /\ Usage(t) < MaxStarts
    /\ waiting' = waiting \cup {t}
    /\ Pump
    /\ UNCHANGED <<active, starts>>

Cancel(t) ==
    /\ OwnerRuns
    /\ t \in waiting
    /\ waiting' = waiting \ {t}
    /\ starts' = Released(t, waiting' \cup active)
    /\ UNCHANGED <<active, pumps, calling>>

\* Mutant of Complete: the freed slot is not offered to those that wait.
CompleteQuietly(t) ==
    /\ OwnerRuns
    /\ active' = active \ {t}
    /\ starts' = IF t \in active THEN Released(t, waiting \cup active') ELSE starts
    /\ UNCHANGED <<waiting, pumps, calling>>

\* A ticket that holds no slot, one that was cancelled say, only pumps.
Complete(t) ==
    /\ OwnerRuns
    /\ active' = active \ {t}
    /\ starts' = IF t \in active THEN Released(t, waiting \cup active') ELSE starts
    /\ Pump
    /\ UNCHANGED waiting

\* Mutant of Claim: the loop does not look at the slots again.
ClaimUnchecked ==
    /\ pumps > 0 /\ ~calling
    /\ \E t \in NextRunnable :
        /\ waiting' = waiting \ {t}
        /\ active' = active \cup {t}
        /\ starts' = [a \in Actors |-> IF a = ActorOf[t] THEN starts[a] + 1 ELSE starts[a]]
    /\ calling' = TRUE
    /\ UNCHANGED pumps

\* One iteration of the loop, up to the call of ticket.start().
Claim ==
    /\ pumps > 0 /\ ~calling
    /\ Cardinality(active) < MaxConcurrentJobs
    /\ \E t \in NextRunnable :
        /\ waiting' = waiting \ {t}
        /\ active' = active \cup {t}
        /\ starts' = [a \in Actors |-> IF a = ActorOf[t] THEN starts[a] + 1 ELSE starts[a]]
    /\ calling' = TRUE
    /\ UNCHANGED pumps

StartReturns ==
    /\ calling
    /\ calling' = FALSE
    /\ UNCHANGED <<waiting, active, starts, pumps>>

\* The loop ends, back to the callback that entered it or to the bottom.
PumpReturns ==
    /\ pumps > 0 /\ ~calling
    /\ Cardinality(active) >= MaxConcurrentJobs \/ Runnable = {}
    /\ pumps' = pumps - 1
    /\ calling' = (pumps > 1)
    /\ UNCHANGED <<waiting, active, starts>>

SchedulerNext ==
    \/ \E t \in Tickets : Enqueue(t) \/ Cancel(t) \/ Complete(t)
    \/ Claim \/ StartReturns \/ PumpReturns

SchedulerSpec == SchedulerInit /\ [][SchedulerNext]_schedulerVars

\* Synchronous code runs to its end, and every job ends: its runtime is
\* bounded, and the event loop gets round to it however busy it is.
FairSchedulerSpec ==
    /\ SchedulerSpec
    /\ WF_schedulerVars(Claim) /\ WF_schedulerVars(StartReturns) /\ WF_schedulerVars(PumpReturns)
    /\ \A t \in Tickets : SF_schedulerVars(t \in active /\ Complete(t))

-----------------------------------------------------------------------------
(* Properties *)

\* Re-entrant pumps included, the slots and the share of the anonymous
\* callers are never oversubscribed ("claim synchronously before invoking
\* the owner").
SlotsRespected ==
    /\ Cardinality(active) <= MaxConcurrentJobs
    /\ Cardinality(Anonymous) <= MaxAnonymousJobs

\* Between two calls no slot is left idle beside a ticket that could use it,
\* whatever the callbacks of the last call did.
NoIdleSlot == pumps = 0 => Cardinality(active) >= MaxConcurrentJobs \/ Runnable = {}

\* "A public flood cannot occupy the whole pool": between two calls, work of
\* a workspace waits only behind work of a workspace.
WorkspaceSlotReserved ==
    pumps = 0 /\ MaxAnonymousJobs < MaxConcurrentJobs /\ (\E t \in waiting : TierOf[t] # "anonymous")
        => active # Anonymous

\* The count of a caller is dropped exactly when its last ticket is gone: a
\* caller cannot shed its usage while it has tickets, and callers that left
\* are not remembered (releaseAnonymousActor).
UsageFollowsActors ==
    [][\A a \in Actors :
        LET present == \E t \in waiting' \cup active' : ActorOf[t] = a IN
        IF present THEN starts'[a] >= starts[a] ELSE starts'[a] = 0]_schedulerVars

\* The paid ticket that is older than all others is served or cancelled,
\* whatever is enqueued again and again.
OldestPaidServed ==
    \A t \in {u \in Tickets : \A v \in Tickets \ {u} :
                 TierOf[u] = "paid" /\ (TierOf[v] = "paid" => CreatedAt[u] < CreatedAt[v])} :
        t \in waiting ~> t \notin waiting
=============================================================================
