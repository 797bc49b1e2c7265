------------------------ MODULE SlicingSchedulerProofs ------------------------
(***************************************************************************)
(* The safety of the slicing slots, for any number of tickets, callers and *)
(* slots and any depth of calls from start callbacks.                      *)
(***************************************************************************)
EXTENDS SchedulerCalls, FiniteSetTheorems, TLAPS

\* A caller with counted starts still has a ticket.
StartsOK ==
    \A a \in Actors : starts[a] > 0 => \E t \in waiting \cup active : ActorOf[t] = a

\* Inductive: the types bound the sets, the counts follow the tickets.
SchedulerInv == SchedulerTypeOK /\ SlotsRespected /\ NoIdleSlot /\ StartsOK

-----------------------------------------------------------------------------

\* Freeing a slot oversubscribes nothing.
LEMMA Freed ==
    ASSUME SchedulerTypeOK, SlotsRespected, NEW t \in Tickets, active' = active \ {t}
    PROVE  IsFiniteSet(active') /\ SlotsRespected'
  <1>1. active' \subseteq active /\ Anonymous' \subseteq Anonymous /\ Anonymous \subseteq active
    BY DEF Anonymous
  <1>2. IsFiniteSet(active) /\ IsFiniteSet(Anonymous)
    BY <1>1, FS_Subset DEF SchedulerTypeOK
  <1>3. /\ IsFiniteSet(active') /\ Cardinality(active') <= Cardinality(active)
        /\ IsFiniteSet(Anonymous') /\ Cardinality(Anonymous') <= Cardinality(Anonymous)
    BY <1>1, <1>2, FS_Subset
  <1>4. /\ Cardinality(active) \in Nat /\ Cardinality(active') \in Nat
        /\ Cardinality(Anonymous) \in Nat /\ Cardinality(Anonymous') \in Nat
    BY <1>2, <1>3, FS_CardinalityType
  <1> QED BY <1>3, <1>4, SchedulerAssumption DEF SlotsRespected

\* A claim takes a slot that is free, and an anonymous one within the cap.
LEMMA Claimed ==
    ASSUME SchedulerTypeOK, SlotsRespected, NEW t \in Runnable,
           Cardinality(active) < MaxConcurrentJobs, active' = active \cup {t}
    PROVE  IsFiniteSet(active') /\ SlotsRespected'
  <1>1. t \in waiting /\ t \notin active /\ t \notin Anonymous
    BY DEF Runnable, SchedulerTypeOK, Anonymous
  <1>2. IsFiniteSet(active) /\ IsFiniteSet(Anonymous)
    BY FS_Subset DEF SchedulerTypeOK, Anonymous
  <1>3. /\ Cardinality(active) \in Nat /\ Cardinality(Anonymous) \in Nat
        /\ IsFiniteSet(active') /\ Cardinality(active') = Cardinality(active) + 1
        /\ Cardinality(Anonymous \cup {t}) = Cardinality(Anonymous) + 1
    BY <1>1, <1>2, FS_CardinalityType, FS_AddElement
  <1>4. CASE TierOf[t] # "anonymous"
    <2>1. Anonymous' = Anonymous
      BY <1>4 DEF Anonymous
    <2> QED BY <1>3, <2>1, SchedulerAssumption DEF SlotsRespected
  <1>5. CASE TierOf[t] = "anonymous"
    <2>1. Anonymous' = Anonymous \cup {t}
      BY <1>5 DEF Anonymous
    <2>2. Cardinality(Anonymous) < MaxAnonymousJobs
      BY <1>5 DEF Runnable
    <2> QED BY <1>3, <2>1, <2>2, SchedulerAssumption DEF SlotsRespected
  <1> QED BY <1>4, <1>5

\* What Released does to the counts once t has left what is left.
LEMMA ReleasedFacts ==
    ASSUME SchedulerTypeOK, NEW t \in Tickets, NEW left, starts' = Released(t, left)
    PROVE  /\ starts' \in [Actors -> Nat]
           /\ \A a \in Actors : starts'[a] # starts[a] => \A u \in left : ActorOf[u] # a
           /\ \A a \in Actors : starts'[a] \in {0, starts[a]}
           /\ \A a \in Actors : a = ActorOf[t] /\ (\A u \in left : ActorOf[u] # a) => starts'[a] = 0
  BY DEF SchedulerTypeOK, Released

LEMMA InitKeeps == SchedulerInit => SchedulerInv
  <1> SUFFICES ASSUME SchedulerInit PROVE SchedulerInv
    OBVIOUS
  <1>1. active = {} /\ Anonymous = {} /\ Runnable = {}
    BY DEF SchedulerInit, Anonymous, Runnable
  <1>2. IsFiniteSet({}) /\ Cardinality({}) = 0
    BY FS_EmptySet
  <1>3. SchedulerTypeOK
    BY <1>2 DEF SchedulerInit, SchedulerTypeOK
  <1>4. SlotsRespected
    BY <1>1, <1>2, SchedulerAssumption DEF SlotsRespected
  <1>5. NoIdleSlot /\ StartsOK
    BY <1>1 DEF NoIdleSlot, StartsOK, SchedulerInit
  <1> QED BY <1>3, <1>4, <1>5 DEF SchedulerInv

LEMMA EnqueueKeeps == ASSUME SchedulerInv, NEW t \in Tickets, Enqueue(t) PROVE SchedulerInv'
  <1>1. SchedulerTypeOK'
    <2>1. /\ waiting' = waiting \cup {t} /\ active' = active /\ starts' = starts
          /\ t \notin active /\ pumps' = pumps + 1 /\ calling' = FALSE
      BY DEF Enqueue, Pump
    <2>2. pumps' \in Nat
      BY <2>1 DEF SchedulerInv, SchedulerTypeOK
    <2>3. calling' \in BOOLEAN /\ ~calling'
      BY <2>1
    <2> QED BY <2>1, <2>2, <2>3 DEF SchedulerInv, SchedulerTypeOK
  <1>2. SlotsRespected'
    BY DEF SchedulerInv, SlotsRespected, Anonymous, Enqueue
  <1>3. NoIdleSlot'
    BY DEF SchedulerInv, SchedulerTypeOK, NoIdleSlot, Enqueue, Pump
  <1>4. StartsOK'
    BY DEF SchedulerInv, StartsOK, Enqueue
  <1> QED BY <1>1, <1>2, <1>3, <1>4 DEF SchedulerInv

LEMMA CancelKeeps == ASSUME SchedulerInv, NEW t \in Tickets, Cancel(t) PROVE SchedulerInv'
  <1>1. /\ waiting' = waiting \ {t} /\ active' = active /\ pumps' = pumps /\ calling' = calling
        /\ starts' = Released(t, waiting' \cup active)
    BY DEF Cancel
  <1>2. SchedulerTypeOK'
    BY <1>1, ReleasedFacts DEF SchedulerInv, SchedulerTypeOK
  <1>3. SlotsRespected' /\ Anonymous' = Anonymous
    BY <1>1 DEF SchedulerInv, SlotsRespected, Anonymous
  <1>4. Runnable' \subseteq Runnable
    BY <1>1, <1>3 DEF Runnable
  <1>5. NoIdleSlot'
    BY <1>1, <1>4 DEF SchedulerInv, NoIdleSlot
  <1>6. StartsOK'
    <2> SUFFICES ASSUME NEW a \in Actors, starts'[a] > 0
                 PROVE  \E u \in waiting' \cup active' : ActorOf[u] = a
      BY DEF StartsOK
    <2>1. starts'[a] \in {0, starts[a]}
      BY <1>1, ReleasedFacts DEF SchedulerInv
    <2>2. starts[a] > 0
      BY <2>1
    <2>3. PICK u \in waiting \cup active : ActorOf[u] = a
      BY <2>2 DEF SchedulerInv, StartsOK
    <2>4. CASE u = t
      BY <1>1, <2>3, <2>4, ReleasedFacts DEF SchedulerInv
    <2>5. CASE u # t
      BY <1>1, <2>3, <2>5
    <2> QED BY <2>4, <2>5
  <1> QED BY <1>2, <1>3, <1>5, <1>6 DEF SchedulerInv

LEMMA CompleteKeeps == ASSUME SchedulerInv, NEW t \in Tickets, Complete(t) PROVE SchedulerInv'
  <1>1. /\ waiting' = waiting /\ active' = active \ {t} /\ pumps' = pumps + 1 /\ calling' = FALSE
        /\ starts' = IF t \in active THEN Released(t, waiting \cup active') ELSE starts
    BY DEF Complete, Pump
  <1>2. IsFiniteSet(active') /\ SlotsRespected'
    BY <1>1, Freed DEF SchedulerInv
  <1>3. starts' \in [Actors -> Nat]
    BY <1>1, ReleasedFacts DEF SchedulerInv, SchedulerTypeOK
  <1>4. pumps' \in Nat /\ pumps' # 0
    BY <1>1 DEF SchedulerInv, SchedulerTypeOK
  <1>5. calling' \in BOOLEAN /\ ~calling'
    BY <1>1
  <1>6. SchedulerTypeOK' /\ NoIdleSlot'
    BY <1>1, <1>2, <1>3, <1>4, <1>5 DEF SchedulerInv, SchedulerTypeOK, NoIdleSlot
  <1>7. StartsOK'
    <2>1. CASE t \in active
      <3> SUFFICES ASSUME NEW a \in Actors, starts'[a] > 0
                   PROVE  \E u \in waiting' \cup active' : ActorOf[u] = a
        BY DEF StartsOK
      <3>1. starts' = Released(t, waiting \cup active')
        BY <1>1, <2>1
      <3>2. starts'[a] \in {0, starts[a]}
        BY <3>1, ReleasedFacts DEF SchedulerInv
      <3>3. starts[a] > 0
        BY <3>2
      <3>4. PICK u \in waiting \cup active : ActorOf[u] = a
        BY <3>3 DEF SchedulerInv, StartsOK
      <3>5. CASE u = t
        <4>1. (\A v \in waiting \cup active' : ActorOf[v] # a) => starts'[a] = 0
          BY <3>1, <3>4, <3>5, ReleasedFacts DEF SchedulerInv
        <4> QED BY <1>1, <4>1
      <3>6. CASE u # t
        BY <1>1, <3>4, <3>6
      <3> QED BY <3>5, <3>6
    <2>2. CASE t \notin active
      BY <1>1, <2>2 DEF SchedulerInv, StartsOK
    <2> QED BY <2>1, <2>2
  <1> QED BY <1>2, <1>6, <1>7 DEF SchedulerInv

LEMMA ClaimKeeps == ASSUME SchedulerInv, Claim PROVE SchedulerInv'
  <1>1. PICK t \in NextRunnable :
          /\ waiting' = waiting \ {t} /\ active' = active \cup {t}
          /\ starts' = [a \in Actors |-> IF a = ActorOf[t] THEN starts[a] + 1 ELSE starts[a]]
    BY DEF Claim
  <1>2. /\ t \in Runnable /\ t \in waiting /\ pumps > 0 /\ pumps' = pumps /\ calling'
        /\ Cardinality(active) < MaxConcurrentJobs
    BY DEF Claim, NextRunnable, Runnable
  <1>3. IsFiniteSet(active') /\ SlotsRespected'
    BY <1>1, <1>2, Claimed DEF SchedulerInv
  <1>4. starts' \in [Actors -> Nat]
    BY <1>1 DEF SchedulerInv, SchedulerTypeOK
  <1>5. SchedulerTypeOK' /\ NoIdleSlot'
    BY <1>1, <1>2, <1>3, <1>4 DEF SchedulerInv, SchedulerTypeOK, NoIdleSlot
  <1>6. StartsOK'
    <2> SUFFICES ASSUME NEW a \in Actors, starts'[a] > 0
                 PROVE  \E u \in waiting' \cup active' : ActorOf[u] = a
      BY DEF StartsOK
    <2>1. waiting' \cup active' = waiting \cup active
      BY <1>1, <1>2
    <2>2. CASE a = ActorOf[t]
      BY <1>1, <2>2
    <2>3. CASE a # ActorOf[t]
      <3>1. starts[a] > 0
        BY <1>1, <2>3
      <3> QED BY <2>1, <3>1 DEF SchedulerInv, StartsOK
    <2> QED BY <2>2, <2>3
  <1> QED BY <1>3, <1>5, <1>6 DEF SchedulerInv

\* The ends of callbacks and loops; a loop ends only when it has nothing to
\* do, which is why the outermost one leaves no slot idle.
LEMMA ReturnKeeps ==
    ASSUME SchedulerInv, StartReturns \/ PumpReturns \/ UNCHANGED schedulerVars
    PROVE  SchedulerInv'
  <1>1. waiting' = waiting /\ active' = active /\ starts' = starts
    BY DEF StartReturns, PumpReturns, schedulerVars
  <1>2. SlotsRespected' /\ StartsOK' /\ Anonymous' = Anonymous /\ Runnable' = Runnable
    BY <1>1 DEF SchedulerInv, SlotsRespected, StartsOK, Anonymous, Runnable
  <1>3. SchedulerTypeOK'
    <2>1. pumps' \in Nat /\ calling' \in BOOLEAN /\ (calling' => pumps' > 0)
      <3>1. CASE StartReturns
        BY <3>1 DEF SchedulerInv, SchedulerTypeOK, StartReturns
      <3>2. CASE PumpReturns
        BY <3>2 DEF SchedulerInv, SchedulerTypeOK, PumpReturns
      <3>3. CASE UNCHANGED schedulerVars
        BY <3>3 DEF SchedulerInv, SchedulerTypeOK, schedulerVars
      <3> QED BY <3>1, <3>2, <3>3
    <2> QED BY <1>1, <2>1 DEF SchedulerInv, SchedulerTypeOK
  <1>4. NoIdleSlot'
    BY <1>1, <1>2 DEF SchedulerInv, SchedulerTypeOK, NoIdleSlot, StartReturns, PumpReturns, schedulerVars
  <1> QED BY <1>2, <1>3, <1>4 DEF SchedulerInv

LEMMA SchedulerInvariant == SchedulerSpec => []SchedulerInv
  <1>1. ASSUME SchedulerInv, [SchedulerNext]_schedulerVars PROVE SchedulerInv'
    BY <1>1, EnqueueKeeps, CancelKeeps, CompleteKeeps, ClaimKeeps, ReturnKeeps DEF SchedulerNext
  <1> QED BY InitKeeps, <1>1, PTL DEF SchedulerSpec

-----------------------------------------------------------------------------

\* A ticket never both waits and runs, and a callback is only on top of the
\* stack while the loop of pump() that called it is on it.
THEOREM SchedulerTypes == SchedulerSpec => []SchedulerTypeOK
  BY SchedulerInvariant, PTL DEF SchedulerInv

\* However the callbacks of pump() call back, the slots and the share of
\* anonymous work in them are not oversubscribed.
THEOREM SlotsAreRespected == SchedulerSpec => []SlotsRespected
  BY SchedulerInvariant, PTL DEF SchedulerInv

\* When pump() and all it called have returned, no ticket that could run
\* waits beside a free slot.
THEOREM NoSlotStaysIdle == SchedulerSpec => []NoIdleSlot
  BY SchedulerInvariant, PTL DEF SchedulerInv

\* A flood of anonymous work cannot hold all slots while a workspace waits.
THEOREM WorkspaceKeepsASlot == SchedulerSpec => []WorkspaceSlotReserved
  <1>1. ASSUME SchedulerInv PROVE WorkspaceSlotReserved
    <2> SUFFICES ASSUME pumps = 0, MaxAnonymousJobs < MaxConcurrentJobs,
                        NEW t \in waiting, TierOf[t] # "anonymous"
                 PROVE  active # Anonymous
      BY DEF WorkspaceSlotReserved
    <2>1. t \in Runnable
      BY DEF Runnable
    <2>2. Cardinality(active) >= MaxConcurrentJobs
      BY <1>1, <2>1 DEF SchedulerInv, NoIdleSlot
    <2>3. Cardinality(Anonymous) <= MaxAnonymousJobs
      BY <1>1 DEF SchedulerInv, SlotsRespected
    <2>4. Cardinality(active) \in Nat
      BY <1>1, FS_CardinalityType DEF SchedulerInv, SchedulerTypeOK
    <2> QED BY <2>2, <2>3, <2>4, SchedulerAssumption
  <1> QED BY SchedulerInvariant, <1>1, PTL

\* The count of an anonymous caller lives exactly as long as its tickets.
THEOREM UsageIsKept == SchedulerSpec => UsageFollowsActors
  <1> DEFINE Follows == \A a \in Actors :
                 LET present == \E t \in waiting' \cup active' : ActorOf[t] = a IN
                 IF present THEN starts'[a] >= starts[a] ELSE starts'[a] = 0
  <1>1. ASSUME SchedulerInv, SchedulerInv', [SchedulerNext]_schedulerVars PROVE [Follows]_schedulerVars
    <2> SUFFICES ASSUME SchedulerNext, NEW a \in Actors
                 PROVE  IF \E t \in waiting' \cup active' : ActorOf[t] = a
                        THEN starts'[a] >= starts[a] ELSE starts'[a] = 0
      BY <1>1
    <2>1. starts[a] \in Nat /\ starts'[a] \in Nat
      BY <1>1 DEF SchedulerInv, SchedulerTypeOK
    <2>2. (~\E t \in waiting' \cup active' : ActorOf[t] = a) => starts'[a] = 0
      BY <1>1, <2>1 DEF SchedulerInv, StartsOK
    <2>3. ASSUME NEW u \in waiting' \cup active', ActorOf[u] = a PROVE starts'[a] >= starts[a]
      <3>1. ASSUME NEW t \in Tickets, Cancel(t) \/ Complete(t) PROVE starts'[a] = starts[a]
        <4>1. starts' = starts \/ starts' = Released(t, waiting' \cup active')
          BY <3>1 DEF Cancel, Complete
        <4> QED BY <1>1, <2>3, <4>1, ReleasedFacts DEF SchedulerInv
      <3>2. ASSUME NEW t \in Tickets, Enqueue(t) PROVE starts' = starts
        BY <3>2 DEF Enqueue
      <3>3. CASE Claim
        <4>1. starts'[a] \in {starts[a], starts[a] + 1}
          BY <3>3 DEF Claim
        <4> QED BY <2>1, <4>1
      <3>4. CASE StartReturns \/ PumpReturns
        BY <2>1, <3>4 DEF StartReturns, PumpReturns
      <3> QED BY <2>1, <3>1, <3>2, <3>3, <3>4 DEF SchedulerNext
    <2> QED BY <2>2, <2>3
  <1>2. SchedulerSpec => [][Follows]_schedulerVars
    BY SchedulerInvariant, <1>1, PTL DEF SchedulerSpec
  <1> QED BY <1>2 DEF UsageFollowsActors

-----------------------------------------------------------------------------
(* Calls without calls back implement SlotPool. *)

\* What the call under way has claimed so far.
Served == active \ before.active

\* Where a call is that enqueued t, completed t, or completed a ticket that
\* held no slot.
Enqueueing(t) ==
    /\ t \notin before.waiting \cup before.active
    /\ waiting \cup Served = before.waiting \cup {t}
    /\ before.active \subseteq active

Completing(t) ==
    /\ t \in before.active
    /\ waiting \cup Served = before.waiting
    /\ active = (before.active \ {t}) \cup Served

Idling ==
    /\ waiting = before.waiting /\ active = before.active
    /\ Cardinality(active) >= MaxConcurrentJobs \/ Runnable = {}

BeforeOK ==
    /\ before \in [waiting : SUBSET Tickets, active : SUBSET Tickets]
    /\ before.waiting \cap before.active = {}

\* Claims are in the order of the tiers, whatever the counts of the callers.
InRank == \A t \in Served, u \in waiting : Weight[TierOf[t]] <= Weight[TierOf[u]]

CallInv ==
    /\ BeforeOK
    /\ pumps > 0 => /\ pumps = 1
                    /\ Idling \/ \E t \in Tickets : Enqueueing(t) \/ Completing(t)
                    /\ InRank

\* The next ticket served has no waiting one of a better tier: workspace work
\* is always runnable, and anonymous work, which may not be, comes last.
LEMMA NextInRank ==
    ASSUME SchedulerTypeOK, NEW t \in NextRunnable, NEW u \in waiting
    PROVE  Weight[TierOf[t]] <= Weight[TierOf[u]]
  <1>1. t \in Tickets /\ u \in Tickets
    BY DEF SchedulerTypeOK, NextRunnable, Runnable
  <1>2. Weight[TierOf[t]] \in 0..2 /\ Weight[TierOf[u]] \in 0..2
    BY <1>1, SchedulerAssumption DEF SchedulerAssumption, Weight
  <1>3. CASE u \in Runnable
    <2>1. ~Precedes(u, t)
      BY <1>3 DEF NextRunnable
    <2> QED BY <1>2, <2>1 DEF Precedes
  <1>4. CASE u \notin Runnable
    <2>1. Weight[TierOf[u]] = 2
      BY <1>4 DEF Runnable, Weight
    <2> QED BY <1>2, <2>1
  <1> QED BY <1>3, <1>4

\* Where a loop ends, no waiting ticket fits.
LEMMA NothingFits ==
    ASSUME SchedulerTypeOK, Cardinality(active) >= MaxConcurrentJobs \/ Runnable = {}, NEW t \in waiting
    PROVE  ~Fits(active \cup {t})
  <1>1. t \notin active /\ t \notin Anonymous
    BY DEF SchedulerTypeOK, Anonymous
  <1>2. IsFiniteSet(active) /\ IsFiniteSet(Anonymous)
    BY FS_Subset DEF SchedulerTypeOK, Anonymous
  <1>3. /\ Cardinality(active) \in Nat /\ Cardinality(Anonymous) \in Nat
        /\ Cardinality(active \cup {t}) = Cardinality(active) + 1
        /\ Cardinality(Anonymous \cup {t}) = Cardinality(Anonymous) + 1
    BY <1>1, <1>2, FS_CardinalityType, FS_AddElement
  <1>4. CASE Cardinality(active) >= MaxConcurrentJobs
    BY <1>3, <1>4, SchedulerAssumption DEF SchedulerAssumption, Fits
  <1>5. CASE Runnable = {}
    <2>1. TierOf[t] = "anonymous" /\ ~(Cardinality(Anonymous) < MaxAnonymousJobs)
      BY <1>5 DEF Runnable
    <2>2. {u \in active \cup {t} : TierOf[u] = "anonymous"} = Anonymous \cup {t}
      BY <2>1 DEF Anonymous
    <2> QED BY <1>3, <2>1, <2>2, SchedulerAssumption DEF SchedulerAssumption, Fits
  <1> QED BY <1>4, <1>5

LEMMA CallBegins == ASSUME SchedulerInv, CallInv, Call PROVE CallInv'
  <1>1. pumps = 0 /\ before' = [waiting |-> waiting, active |-> active]
    BY DEF Call
  <1>2. BeforeOK' /\ before'.waiting = waiting /\ before'.active = active
    BY <1>1 DEF SchedulerInv, SchedulerTypeOK, BeforeOK
  <1>3. ASSUME NEW t \in Tickets, Enqueue(t)
        PROVE  pumps' = 1 /\ Served' = {} /\ Enqueueing(t)'
    BY <1>1, <1>2, <1>3 DEF Enqueue, Pump, Served, Enqueueing
  <1>4. ASSUME NEW t \in Tickets, Cancel(t)
        PROVE  pumps' = 0
    BY <1>1, <1>4 DEF Cancel
  <1>5. ASSUME NEW t \in Tickets, Complete(t)
        PROVE  pumps' = 1 /\ Served' = {} /\ (Completing(t)' \/ Idling')
    <2>1. pumps' = 1 /\ waiting' = waiting /\ active' = active \ {t}
      BY <1>1, <1>5 DEF Complete, Pump
    <2>2. Served' = {}
      BY <1>2, <2>1 DEF Served
    <2>3. CASE t \in active
      BY <1>2, <2>1, <2>2, <2>3 DEF Completing
    <2>4. CASE t \notin active
      <3>1. active' = active /\ Runnable' = Runnable
        BY <2>1, <2>4 DEF Runnable, Anonymous
      <3> QED BY <1>1, <1>2, <2>1, <2>2, <3>1 DEF Idling, SchedulerInv, NoIdleSlot
    <2> QED BY <2>1, <2>2, <2>3, <2>4
  <1> QED BY <1>2, <1>3, <1>4, <1>5 DEF Call, CallInv, InRank

LEMMA CallClaims ==
    ASSUME SchedulerInv, CallInv, Claim, UNCHANGED before PROVE CallInv'
  <1>1. PICK t \in NextRunnable : waiting' = waiting \ {t} /\ active' = active \cup {t}
    BY DEF Claim
  <1>2. /\ pumps > 0 /\ pumps' = pumps /\ Cardinality(active) < MaxConcurrentJobs
        /\ t \in Runnable /\ t \in waiting /\ t \in Tickets /\ t \notin active
    BY DEF Claim, NextRunnable, Runnable, SchedulerInv, SchedulerTypeOK
  <1>3. pumps = 1 /\ InRank /\ BeforeOK'
    BY <1>2 DEF CallInv, BeforeOK
  <1>4. ~Idling
    <2>1. Cardinality(active) \in Nat
      BY FS_CardinalityType DEF SchedulerInv, SchedulerTypeOK
    <2> QED BY <1>2, <2>1, SchedulerAssumption DEF SchedulerAssumption, Idling
  <1>5. PICK u \in Tickets : Enqueueing(u) \/ Completing(u)
    BY <1>2, <1>4 DEF CallInv
  <1>6. t \notin before.active
    BY <1>2, <1>5 DEF Enqueueing, Completing, CallInv, BeforeOK
  <1>7. Served' = Served \cup {t}
    BY <1>1, <1>6 DEF Served
  <1>8. waiting' \cup Served' = waiting \cup Served
    BY <1>1, <1>2, <1>7
  <1>9. Enqueueing(u)' \/ Completing(u)'
    <2>1. CASE Enqueueing(u)
      BY <1>1, <1>8, <2>1 DEF Enqueueing
    <2>2. CASE Completing(u)
      BY <1>1, <1>7, <1>8, <2>2 DEF Completing
    <2> QED BY <1>5, <2>1, <2>2
  <1>10. InRank'
    <2>1. \A v \in waiting : Weight[TierOf[t]] <= Weight[TierOf[v]]
      BY NextInRank DEF SchedulerInv
    <2> QED BY <1>1, <1>3, <1>7, <2>1 DEF InRank
  <1> QED BY <1>2, <1>3, <1>9, <1>10 DEF CallInv

LEMMA CallReturns ==
    ASSUME CallInv, UNCHANGED before, StartReturns \/ PumpReturns PROVE CallInv'
  <1>1. UNCHANGED <<waiting, active>> /\ BeforeOK' /\ Runnable' = Runnable
    BY DEF StartReturns, PumpReturns, CallInv, BeforeOK, Runnable, Anonymous
  <1>2. CASE pumps' > 0
    <2>1. pumps' = pumps
      BY <1>2 DEF StartReturns, PumpReturns, CallInv
    <2> QED BY <1>1, <1>2, <2>1
            DEF CallInv, InRank, Served, Idling, Enqueueing, Completing
  <1> QED BY <1>1, <1>2 DEF CallInv

LEMMA CallsInvariant == CallsSpec => [](SchedulerInv /\ CallInv)
  <1>1. CallsInit => SchedulerInv /\ CallInv
    BY InitKeeps DEF CallsInit, SchedulerInit, CallInv, BeforeOK
  <1>2. ASSUME SchedulerInv, CallInv, [CallsNext]_callVars PROVE SchedulerInv' /\ CallInv'
    <2>1. SchedulerInv'
      BY <1>2, EnqueueKeeps, CancelKeeps, CompleteKeeps, ClaimKeeps, ReturnKeeps
         DEF CallsNext, Call, CallGoesOn, callVars
    <2>2. CASE UNCHANGED callVars
      <3>1. UNCHANGED <<waiting, active, pumps, before>>
        BY <2>2 DEF callVars, schedulerVars
      <3>2. Runnable' = Runnable /\ Served' = Served
        BY <3>1 DEF Runnable, Anonymous, Served
      <3> QED BY <1>2, <2>1, <3>1, <3>2 DEF CallInv, BeforeOK, InRank, Idling, Enqueueing, Completing
    <2> QED BY <1>2, <2>1, <2>2, CallBegins, CallClaims, CallReturns DEF CallsNext, CallGoesOn
  <1> QED BY <1>1, <1>2, PTL DEF CallsSpec

\* The pool when the call under way returns: what it claimed is what the pool
\* allows.
LEMMA CallReturnsAsPool ==
    ASSUME SchedulerInv, CallInv, PumpReturns, UNCHANGED before
    PROVE  [Pool!PoolNext]_(Pool!poolVars)
  <1>1. /\ pumps = 1 /\ pumps' = 0 /\ UNCHANGED <<waiting, active>>
        /\ Cardinality(active) >= MaxConcurrentJobs \/ Runnable = {}
    BY DEF PumpReturns, CallInv
  <1>2. \A t \in waiting : ~Fits(active \cup {t})
    BY <1>1, NothingFits DEF SchedulerInv
  <1>3. Fits(active)
    <2>1. {t \in active : TierOf[t] = "anonymous"} = Anonymous
      BY DEF Anonymous
    <2> QED BY <2>1 DEF Fits, SchedulerInv, SlotsRespected
  <1>4. waiting \cap active = {} /\ Served \subseteq active /\ waiting \cap Served = {} /\ InRank
    BY <1>1 DEF SchedulerInv, SchedulerTypeOK, Served, CallInv
  <1>5. ASSUME NEW w, NEW a, w = waiting \cup Served, active = a \cup Served, w \subseteq Tickets
        PROVE  \E c \in Pool!Claimable(w, a) : waiting = w \ c /\ active = a \cup c
    <2>1. w \ Served = waiting /\ Served \in SUBSET w /\ a \cup Served = active
      BY <1>4, <1>5
    <2>2. Served \in Pool!Filling(w, a)
      BY <1>2, <1>3, <2>1 DEF Pool!Filling
    <2>3. \A t \in Served, u \in w \ Served :
             [k \in Tickets |-> Weight[TierOf[k]]][t] <= [k \in Tickets |-> Weight[TierOf[k]]][u]
      BY <1>4, <1>5, <2>1 DEF InRank
    <2>4. Served \in Pool!Claimable(w, a)
      BY <2>2, <2>3 DEF Pool!Claimable
    <2> QED BY <2>1, <2>4
  <1>6. waiting \subseteq Tickets /\ active \subseteq Tickets
    BY DEF SchedulerInv, SchedulerTypeOK
  <1>7. CASE Idling
    BY <1>1, <1>7 DEF Idling, Pool!poolVars
  <1>8. ASSUME NEW t \in Tickets, Enqueueing(t) PROVE Pool!Enqueue(t)
    <2>1. active = before.active \cup Served /\ before.waiting \cup {t} \subseteq Tickets
      BY <1>6, <1>8 DEF Enqueueing, Served
    <2>2. \E c \in Pool!Claimable(before.waiting \cup {t}, before.active) :
             waiting = (before.waiting \cup {t}) \ c /\ active = before.active \cup c
      BY <1>5, <1>8, <2>1 DEF Enqueueing
    <2> QED BY <1>1, <1>8, <2>2 DEF Enqueueing, Pool!Enqueue, Pool!Settle
  <1>9. ASSUME NEW t \in Tickets, Completing(t) PROVE Pool!Complete(t)
    <2>1. before.waiting \subseteq Tickets
      BY <1>6, <1>9 DEF Completing, Served
    <2>2. \E c \in Pool!Claimable(before.waiting, before.active \ {t}) :
             waiting = before.waiting \ c /\ active = (before.active \ {t}) \cup c
      BY <1>5, <1>9, <2>1 DEF Completing
    <2> QED BY <1>1, <1>9, <2>2 DEF Completing, Pool!Complete, Pool!Settle
  <1> QED BY <1>1, <1>7, <1>8, <1>9 DEF CallInv, Pool!PoolNext

LEMMA CallsRefine ==
    ASSUME SchedulerInv, CallInv, [CallsNext]_callVars
    PROVE  [Pool!PoolNext]_(Pool!poolVars)
  <1>1. CASE UNCHANGED callVars
    BY <1>1 DEF callVars, schedulerVars, Pool!poolVars
  <1>2. CASE CallGoesOn
    <2>1. CASE Claim \/ StartReturns
      BY <1>2, <2>1 DEF CallGoesOn, Claim, StartReturns, Pool!poolVars
    <2>2. CASE PumpReturns
      BY <1>2, <2>2, CallReturnsAsPool DEF CallGoesOn
    <2> QED BY <1>2, <2>1, <2>2 DEF CallGoesOn
  <1>3. ASSUME NEW t \in Tickets, pumps = 0, before' = [waiting |-> waiting, active |-> active],
               Enqueue(t) \/ Complete(t)
        PROVE  UNCHANGED Pool!poolVars
    <2>1. pumps' = 1
      BY <1>3 DEF Enqueue, Complete, Pump
    <2> QED BY <1>3, <2>1 DEF Pool!poolVars
  <1>4. ASSUME NEW t \in Tickets, pumps = 0, Cancel(t)
        PROVE  Pool!Cancel(t)
    BY <1>4 DEF Cancel, Pool!Cancel
  <1>5. CASE Call
    <2>1. PICK t \in Tickets : Enqueue(t) \/ Cancel(t) \/ Complete(t)
      BY <1>5 DEF Call
    <2>2. pumps = 0 /\ before' = [waiting |-> waiting, active |-> active]
      BY <1>5 DEF Call
    <2>3. CASE Cancel(t)
      BY <1>4, <2>2, <2>3 DEF Pool!PoolNext
    <2>4. CASE Enqueue(t) \/ Complete(t)
      BY <1>3, <2>2, <2>4
    <2> QED BY <2>1, <2>3, <2>4
  <1> QED BY <1>1, <1>2, <1>5 DEF CallsNext

\* The scheduler does for its owners what SlotPool says, and so what the
\* jobs' own model asks of it: a call serves all that fits, the better tier
\* first, and forgets or serves twice no ticket.
THEOREM SchedulerServesAsPool == CallsSpec => ServesAsPool
  <1>1. CallsInit => Pool!PoolInit
    BY DEF CallsInit, SchedulerInit, Pool!PoolInit
  <1>2. SchedulerInv /\ CallInv /\ [CallsNext]_callVars => [Pool!PoolNext]_(Pool!poolVars)
    BY CallsRefine
  <1> QED BY <1>1, <1>2, CallsInvariant, PTL DEF CallsSpec, ServesAsPool, Pool!PoolSpec
=============================================================================
