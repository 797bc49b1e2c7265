---------------------------- MODULE SchedulerCalls ----------------------------
(***************************************************************************)
(* SlicingScheduler as its owners use it: a start callback marks its job   *)
(* and launches it, and never calls the scheduler back, so one call is     *)
(* over before the next begins.  Seen by the owners a call is a step of    *)
(* SlotPool, although it runs its loop and its callbacks one by one.       *)
(***************************************************************************)
EXTENDS SlicingScheduler

VARIABLE before     \* the tickets as the last call found them

callVars == <<schedulerVars, before>>

CallsInit ==
    /\ SchedulerInit
    /\ before = [waiting |-> {}, active |-> {}]

\* A call from outside, which may leave its loop on the stack.
Call ==
    /\ pumps = 0
    /\ \E t \in Tickets : Enqueue(t) \/ Cancel(t) \/ Complete(t)
    /\ before' = [waiting |-> waiting, active |-> active]

\* The loop of the call goes on, up to its return.
CallGoesOn == (Claim \/ StartReturns \/ PumpReturns) /\ UNCHANGED before

CallsNext == Call \/ CallGoesOn

CallsSpec == CallsInit /\ [][CallsNext]_callVars

-----------------------------------------------------------------------------

Fits(a) ==
    /\ Cardinality(a) <= MaxConcurrentJobs
    /\ Cardinality({t \in a : TierOf[t] = "anonymous"}) <= MaxAnonymousJobs

\* Until a call returns, the pool is as the call found it.
Pool == INSTANCE SlotPool WITH
            waiting <- IF pumps > 0 THEN before.waiting ELSE waiting,
            active <- IF pumps > 0 THEN before.active ELSE active,
            Rank <- [t \in Tickets |-> Weight[TierOf[t]]]

\* Every call of the scheduler serves what the pool promises, whatever order
\* its loop claims and starts the tickets in.
ServesAsPool == Pool!PoolSpec
=============================================================================
