------------------------- MODULE SlicingJobsProofs -------------------------
(***************************************************************************)
(* Proofs about SlicingJobs, for every set of jobs and all its bounds.     *)
(***************************************************************************)
EXTENDS SlicingJobs, FiniteSetTheorems, TLAPS

\* What relates the jobs' statuses s, runs r, lookups lk and cancellations cr
\* to the tickets: w waiting and a active, before a pump and after it.
Sound(s, r, lk, cr, w, a) ==
    /\ s \in [Jobs -> Statuses] /\ r \in [Jobs -> Awaits]
    /\ lk \in [Jobs -> {"none", "probing", "covering"}] /\ cr \in [Jobs -> BOOLEAN]
    /\ w \subseteq Jobs /\ w \cap a = {}
    /\ a = {j \in Jobs : r[j] # "none"}
    /\ Cardinality(a) <= MaxConcurrentJobs
    /\ \A j \in Jobs : s[j] \in Busy <=> r[j] \notin {"none", "leaving"} \/ lk[j] = "covering"
    /\ \A j \in w : s[j] = "queued" /\ lk[j] # "probing"
    /\ \A j \in Jobs : s[j] = "queued" => ~cr[j]
    /\ \A j \in Jobs : lk[j] # "none" => r[j] = "none"
    /\ \A j \in Jobs : lk[j] = "probing" => s[j] \in {"queued", "cancelled", "gone"}
    /\ \A j \in Jobs : s[j] = "none" => r[j] = "none" /\ lk[j] = "none" /\ ~cr[j]

\* After a pump: no free slot beside a waiting ticket, a place for every job.
Pumped(s, r, lk, w, a) ==
    /\ w # {} => Cardinality(a) = MaxConcurrentJobs
    /\ \A j \in Jobs : s[j] = "queued" => lk[j] = "probing" \/ j \in w \/ r[j] = "leaving"

\* The types of what the tickets do not depend on.
RestOK ==
    /\ lost \in [Jobs -> BOOLEAN] /\ aborted \in [Jobs -> BOOLEAN]
    /\ output \in [Jobs -> BOOLEAN]
    /\ stored \in [Jobs -> {"none", "kept", "discarded", "stray"}]
    /\ retries \in [Jobs -> 0..MaxRetries]
    /\ disk \in [Jobs -> [status : Statuses, output : BOOLEAN]]
    /\ restarts \in 0..MaxRestarts

\* The inductive invariant of the tickets.
TicketInv ==
    /\ RestOK
    /\ Sound(status, run, lookup, cancelReq, waiting, active)
    /\ Pumped(status, run, lookup, waiting, active)

\* A claim of any of the waiting tickets keeps jobs and tickets in step, and
\* leaves no free slot beside a waiting ticket.
LEMMA ClaimIsSound ==
    ASSUME NEW s, NEW r, NEW lk, NEW cr, NEW w, NEW a, Sound(s, r, lk, cr, w, a),
           NEW c \in Claims(w, a)
    PROVE  /\ Sound(Begun(s, c), Begun(r, c), lk, cr, w \ c, a \cup c)
           /\ w \ c # {} => Cardinality(a \cup c) = MaxConcurrentJobs
<1>1. c \subseteq w /\ a \subseteq Jobs /\ c \subseteq Jobs /\ a \cap c = {}
  BY DEF Claims, Sound
<1>2. IsFiniteSet(a) /\ IsFiniteSet(c)
  BY <1>1, SlicingAssumption, FS_Subset DEF SlicingAssumption
<1>3. Cardinality(a) \in Nat /\ Cardinality(c) \in Nat /\ MaxConcurrentJobs \in Nat
  BY <1>2, FS_CardinalityType, SlicingAssumption DEF SlicingAssumption
<1>4. Cardinality(a \cup c) = Cardinality(a) + Cardinality(c)
  <2>1. Cardinality(a \cap c) = 0
    BY <1>1, FS_EmptySet
  <2>2. Cardinality(a \cup c) = Cardinality(a) + Cardinality(c) - Cardinality(a \cap c)
    BY <1>2, FS_Union
  <2> QED
    BY <1>3, <2>1, <2>2
<1>5. Cardinality(a \cup c) <= MaxConcurrentJobs
  BY <1>3, <1>4 DEF Claims, Sound
<1>6. w \ c # {} => Cardinality(a \cup c) = MaxConcurrentJobs
  BY <1>3, <1>4 DEF Claims, Sound
<1>7. \A j \in c : s[j] = "queued" /\ r[j] = "none" /\ lk[j] = "none"
  BY <1>1 DEF Sound, Busy
<1>8. Begun(s, c) \in [Jobs -> Statuses] /\ Begun(r, c) \in [Jobs -> Awaits]
  BY DEF Begun, Sound, Statuses, Busy, Awaits
<1>9. \A j \in Jobs : j \notin c => Begun(s, c)[j] = s[j] /\ Begun(r, c)[j] = r[j]
  BY DEF Begun
<1>10. \A j \in c : Begun(s, c)[j] = "preparing" /\ Begun(r, c)[j] = "preparing"
  BY <1>1 DEF Begun
<1>11. a \cup c = {j \in Jobs : Begun(r, c)[j] # "none"}
  BY <1>1, <1>9, <1>10 DEF Sound
<1>12. \A j \in Jobs : Begun(s, c)[j] \in Busy
                        <=> Begun(r, c)[j] \notin {"none", "leaving"} \/ lk[j] = "covering"
  <2> SUFFICES ASSUME NEW j \in Jobs
               PROVE  Begun(s, c)[j] \in Busy
                        <=> Begun(r, c)[j] \notin {"none", "leaving"} \/ lk[j] = "covering"
    OBVIOUS
  <2>1. CASE j \in c
    BY <1>10, <2>1 DEF Busy
  <2>2. CASE j \notin c
    BY <1>9, <2>2 DEF Sound
  <2> QED
    BY <2>1, <2>2
<1>13. Sound(Begun(s, c), Begun(r, c), lk, cr, w \ c, a \cup c)
  BY <1>1, <1>5, <1>7, <1>8, <1>9, <1>10, <1>11, <1>12 DEF Sound
<1> QED
  BY <1>6, <1>13

\* pumpQueue: enqueueing what is queued keeps jobs and tickets in step, and
\* with the claims that follow every queued job has a place.
LEMMA PumpIsSound ==
    ASSUME NEW s, NEW r, NEW lk, NEW cr, NEW w, NEW a, Sound(s, r, lk, cr, w, a),
           NEW q, q = {j \in Jobs \ a : s[j] = "queued" /\ ~cr[j] /\ lk[j] # "probing"},
           NEW c \in Claims(w \cup q, a)
    PROVE  /\ Sound(Begun(s, c), Begun(r, c), lk, cr, (w \cup q) \ c, a \cup c)
           /\ Pumped(Begun(s, c), Begun(r, c), lk, (w \cup q) \ c, a \cup c)
<1>1. Sound(s, r, lk, cr, w \cup q, a)
  BY DEF Sound
<1>2. /\ Sound(Begun(s, c), Begun(r, c), lk, cr, (w \cup q) \ c, a \cup c)
      /\ (w \cup q) \ c # {} => Cardinality(a \cup c) = MaxConcurrentJobs
  BY <1>1, ClaimIsSound
<1>3. ASSUME NEW j \in Jobs, Begun(s, c)[j] = "queued"
      PROVE  lk[j] = "probing" \/ j \in (w \cup q) \ c \/ Begun(r, c)[j] = "leaving"
  <2>1. j \notin c /\ s[j] = "queued" /\ Begun(r, c)[j] = r[j]
    BY <1>3 DEF Begun
  <2>2. CASE j \in a
    <3>1. r[j] # "none"
      BY <2>2 DEF Sound
    <3>2. s[j] \notin Busy
      BY <2>1 DEF Busy
    <3> QED
      BY <2>1, <3>1, <3>2 DEF Sound
  <2>3. CASE j \notin a
    BY <2>1, <2>3 DEF Sound
  <2> QED
    BY <2>2, <2>3
<1> QED
  BY <1>2, <1>3 DEF Pumped

\* A job of status s and run r that a pump has claimed, or not.
Moved(s, r, s1, r1) ==
    \A j \in Jobs : \/ s1[j] = s[j] /\ r1[j] = r[j]
                    \/ s[j] = "queued" /\ s1[j] = "preparing" /\ r1[j] = "preparing"

\* The action pumpQueue, from jobs and tickets in step.
LEMMA PumpQueueIsSound ==
    ASSUME NEW s, NEW r, NEW w, NEW a,
           Sound(s, r, lookup', cancelReq', w, a), PumpQueue(s, r, w, a)
    PROVE  /\ Sound(status, run, lookup, cancelReq, waiting, active)'
           /\ Pumped(status, run, lookup, waiting, active)'
           /\ Moved(s, r, status', run')
<1> DEFINE q == {j \in Jobs \ a : s[j] = "queued" /\ ~cancelReq'[j] /\ lookup'[j] # "probing"}
<1>1. PICK c \in Claims(w \cup q, a) :
          /\ status' = Begun(s, c)
          /\ run' = Begun(r, c)
          /\ waiting' = (w \cup q) \ c
          /\ active' = a \cup c
  BY DEF PumpQueue
<1> HIDE DEF q
<1>2. q = {j \in Jobs \ a : s[j] = "queued" /\ ~cancelReq'[j] /\ lookup'[j] # "probing"}
  BY DEF q
<1>3. /\ Sound(status', run', lookup', cancelReq', waiting', active')
      /\ Pumped(status', run', lookup', waiting', active')
  BY <1>1, <1>2, PumpIsSound
<1>4. \A j \in c : s[j] = "queued"
  BY <1>1, <1>2 DEF Claims, Sound
<1>5. Moved(s, r, status', run')
  BY <1>1, <1>4 DEF Moved, Begun
<1> QED
  BY <1>3, <1>5 DEF Sound, Pumped

-----------------------------------------------------------------------------
(* The tickets: every action keeps TicketInv. *)

\* A step that leaves jobs and tickets alone keeps them.
LEMMA StutterKeepsTickets ==
    ASSUME TicketInv, RestOK', UNCHANGED <<status, run, lookup, cancelReq, waiting, active>>
    PROVE  TicketInv'
BY DEF TicketInv, Sound, Pumped

\* A new job probes the cache, or waits or runs.
LEMMA EnqueueKeepsTickets ==
    ASSUME TicketInv, NEW j \in Jobs, Enqueue(j)
    PROVE  TicketInv'
<1> DEFINE s == [status EXCEPT ![j] = "queued"]
<1>1. RestOK'
  BY DEF Enqueue, TicketInv, RestOK, lifeVars
<1>2. status[j] = "none" /\ run[j] = "none" /\ lookup[j] = "none" /\ ~cancelReq[j] /\ j \notin waiting
  BY DEF Enqueue, TicketInv, Sound
<1>3. UNCHANGED cancelReq /\ lookup' \in [Jobs -> {"none", "probing", "covering"}]
      /\ lookup'[j] \in {"none", "probing"} /\ \A k \in Jobs \ {j} : lookup'[k] = lookup[k]
  BY DEF Enqueue, TicketInv, Sound
<1>4. s \in [Jobs -> Statuses] /\ s[j] = "queued" /\ \A k \in Jobs \ {j} : s[k] = status[k]
  BY DEF TicketInv, Sound, Statuses
<1> HIDE DEF s
<1>5. Sound(s, run, lookup', cancelReq', waiting, active)
  BY <1>2, <1>3, <1>4 DEF TicketInv, Sound, Busy
<1>6. CASE lookup'[j] = "probing"
  <2>1. status' = s /\ UNCHANGED <<run, waiting, active>>
    BY <1>6 DEF Enqueue, slotVars, s
  <2>2. Pumped(s, run, lookup', waiting, active)
    BY <1>3, <1>4, <1>6 DEF TicketInv, Pumped
  <2> QED
    BY <1>1, <1>3, <1>5, <2>1, <2>2 DEF TicketInv, Sound, Pumped
<1>7. CASE lookup'[j] # "probing"
  <2>1. PumpQueue(s, run, waiting, active)
    BY <1>7 DEF Enqueue, s
  <2> QED
    BY <1>1, <1>5, <2>1, PumpQueueIsSound DEF TicketInv
<1> QED
  BY <1>6, <1>7

\* A queued job takes its ticket with it; a run keeps its slot.
LEMMA CancelKeepsTickets ==
    ASSUME TicketInv, NEW j \in Jobs, Cancel(j)
    PROVE  TicketInv'
<1> DEFINE s == [status EXCEPT ![j] = "cancelled"]
<1>1. RestOK'
  BY DEF Cancel, TicketInv, RestOK, lifeVars, Sound
<1>2. UNCHANGED lookup /\ cancelReq' \in [Jobs -> BOOLEAN]
      /\ \A k \in Jobs \ {j} : cancelReq'[k] = cancelReq[k]
  BY DEF Cancel, TicketInv, Sound
<1>3. CASE status[j] = "queued"
  <2>1. s \in [Jobs -> Statuses] /\ s[j] = "cancelled" /\ \A k \in Jobs \ {j} : s[k] = status[k]
    BY DEF TicketInv, Sound, Statuses, Terminal
  <2>2. PumpQueue(s, run, waiting \ {j}, active)
    BY <1>3 DEF Cancel
  <2> HIDE DEF s
  <2>3. Sound(s, run, lookup', cancelReq', waiting \ {j}, active)
    BY <1>2, <1>3, <2>1 DEF TicketInv, Sound, Busy
  <2> QED
    BY <1>1, <2>2, <2>3, PumpQueueIsSound DEF TicketInv
<1>4. CASE status[j] # "queued"
  <2>1. status[j] \in Busy /\ UNCHANGED <<status, run, waiting, active>>
    BY <1>4 DEF Cancel, slotVars
  <2>2. Sound(status, run, lookup', cancelReq', waiting, active)
    BY <1>2, <1>4, <2>1 DEF TicketInv, Sound, Busy
  <2>3. Pumped(status, run, lookup', waiting, active)
    BY <1>2 DEF TicketInv
  <2> QED
    BY <1>1, <2>1, <2>2, <2>3 DEF TicketInv, Sound, Pumped
<1> QED
  BY <1>3, <1>4

\* A retried job is queued, or waits for its failed run to release the slot.
LEMMA RetryKeepsTickets ==
    ASSUME TicketInv, NEW j \in Jobs, Retry(j)
    PROVE  TicketInv'
<1> DEFINE s == [status EXCEPT ![j] = "queued"]
<1>1. RestOK'
  BY SlicingAssumption DEF Retry, TicketInv, RestOK, lifeVars, SlicingAssumption
<1>2. UNCHANGED lookup /\ cancelReq' \in [Jobs -> BOOLEAN] /\ ~cancelReq'[j]
      /\ \A k \in Jobs \ {j} : cancelReq'[k] = cancelReq[k]
  BY DEF Retry, TicketInv, Sound
<1>3. s \in [Jobs -> Statuses] /\ s[j] = "queued" /\ \A k \in Jobs \ {j} : s[k] = status[k]
  BY DEF TicketInv, Sound, Statuses
<1>4. status[j] = "failed" /\ PumpQueue(s, run, waiting, active)
  BY DEF Retry
<1> HIDE DEF s
<1>5. run[j] \in {"none", "leaving"} /\ lookup[j] = "none" /\ j \notin waiting
  BY <1>4 DEF TicketInv, Sound, Busy
<1>6. Sound(s, run, lookup', cancelReq', waiting, active)
  BY <1>2, <1>3, <1>5 DEF TicketInv, Sound, Busy
<1> QED
  BY <1>1, <1>4, <1>6, PumpQueueIsSound DEF TicketInv

\* Only what is over is deleted, and that waits for nothing.
LEMMA DeleteKeepsTickets ==
    ASSUME TicketInv, NEW j \in Jobs, Delete(j)
    PROVE  TicketInv'
<1>1. RestOK' /\ UNCHANGED <<run, lookup, cancelReq, waiting, active>>
  BY DEF Delete, TicketInv, RestOK, lifeVars, workVars, slotVars
<1>2. /\ status' \in [Jobs -> Statuses] /\ status'[j] = "gone" /\ status[j] \in Terminal
      /\ \A k \in Jobs \ {j} : status'[k] = status[k]
  BY DEF Delete, TicketInv, Sound, Statuses
<1>3. j \notin waiting
  BY <1>2 DEF TicketInv, Sound, Terminal
<1>4. Sound(status', run, lookup, cancelReq, waiting, active)
  BY <1>2, <1>3 DEF TicketInv, Sound, Busy, Terminal
<1>5. Pumped(status', run, lookup, waiting, active)
  BY <1>2 DEF TicketInv, Pumped
<1> QED
  BY <1>1, <1>4, <1>5 DEF TicketInv, Sound, Pumped

\* A job without a hit gets its ticket.
LEMMA LookupMissesKeepsTickets ==
    ASSUME TicketInv, NEW j \in Jobs, LookupMisses(j)
    PROVE  TicketInv'
<1>1. RestOK' /\ UNCHANGED cancelReq
  BY DEF LookupMisses, TicketInv, RestOK, lifeVars
<1>2. /\ lookup[j] = "probing" /\ lookup' \in [Jobs -> {"none", "probing", "covering"}]
      /\ lookup'[j] = "none" /\ \A k \in Jobs \ {j} : lookup'[k] = lookup[k]
  BY DEF LookupMisses, TicketInv, Sound
<1>3. Sound(status, run, lookup', cancelReq', waiting, active)
  BY <1>1, <1>2 DEF TicketInv, Sound
<1>4. CASE status[j] = "queued"
  <2>1. PumpQueue(status, run, waiting, active)
    BY <1>4 DEF LookupMisses
  <2> QED
    BY <1>1, <1>3, <2>1, PumpQueueIsSound DEF TicketInv
<1>5. CASE status[j] # "queued"
  <2>1. UNCHANGED <<status, run, waiting, active>>
    BY <1>5 DEF LookupMisses, slotVars
  <2>2. Pumped(status, run, lookup', waiting, active)
    BY <1>2, <1>5 DEF TicketInv, Pumped
  <2> QED
    BY <1>1, <1>3, <2>1, <2>2 DEF TicketInv, Sound, Pumped
<1> QED
  BY <1>4, <1>5

\* A hit makes its job busy without a slot.
LEMMA LookupHitsKeepsTickets ==
    ASSUME TicketInv, NEW j \in Jobs, LookupHits(j)
    PROVE  TicketInv'
<1>1. RestOK' /\ UNCHANGED <<run, cancelReq, waiting, active>>
  BY DEF LookupHits, TicketInv, RestOK, lifeVars, slotVars
<1>2. /\ lookup[j] = "probing" /\ lookup' \in [Jobs -> {"none", "probing", "covering"}]
      /\ \A k \in Jobs \ {j} : lookup'[k] = lookup[k] /\ status'[k] = status[k]
      /\ status' \in [Jobs -> Statuses]
      /\ \/ status[j] = "queued" /\ status'[j] = "saving" /\ lookup'[j] = "covering"
         \/ status[j] # "queued" /\ status'[j] = status[j] /\ lookup'[j] = "none"
  BY DEF LookupHits, TicketInv, Sound, Statuses, Busy
<1>3. run[j] = "none" /\ j \notin waiting
  BY <1>2 DEF TicketInv, Sound
<1>4. Sound(status', run, lookup', cancelReq, waiting, active)
  BY <1>2, <1>3 DEF TicketInv, Sound, Busy
<1>5. Pumped(status', run, lookup', waiting, active)
  BY <1>2 DEF TicketInv, Pumped
<1> QED
  BY <1>1, <1>4, <1>5 DEF TicketInv, Sound, Pumped

\* A hit ends its job, which held no slot.
LEMMA CoverDoneKeepsTickets ==
    ASSUME TicketInv, NEW j \in Jobs, CoverDone(j)
    PROVE  TicketInv'
<1>1. RestOK' /\ UNCHANGED <<run, cancelReq, waiting, active>>
  BY DEF CoverDone, TicketInv, RestOK, lifeVars, slotVars
<1>2. /\ lookup[j] = "covering" /\ lookup' \in [Jobs -> {"none", "probing", "covering"}]
      /\ \A k \in Jobs \ {j} : lookup'[k] = lookup[k] /\ status'[k] = status[k]
      /\ status' \in [Jobs -> Statuses]
      /\ status'[j] \in {"cancelled", "ready"} /\ lookup'[j] = "none"
  BY DEF CoverDone, TicketInv, Sound, Statuses, Terminal
<1>3. run[j] = "none" /\ j \notin waiting
  BY <1>2 DEF TicketInv, Sound, Busy
<1>4. Sound(status', run, lookup', cancelReq, waiting, active)
  BY <1>2, <1>3 DEF TicketInv, Sound, Busy
<1>5. Pumped(status', run, lookup', waiting, active)
  BY <1>2 DEF TicketInv, Pumped
<1> QED
  BY <1>1, <1>4, <1>5 DEF TicketInv, Sound, Pumped

\* The run of job j goes on, the job busy exactly while the run is not leaving.
GoesOn(j) ==
    \E n \in Awaits \ {"none"}, st \in Busy \cup Terminal :
        (st \in Busy <=> n # "leaving") /\ Goto(j, n, st)

\* A run goes on from an await of its own.
LEMMA GotoKeepsTickets ==
    ASSUME TicketInv, NEW j \in Jobs, run[j] \notin {"none", "leaving"},
           NEW n \in Awaits \ {"none"}, NEW st \in Busy \cup Terminal, st \in Busy <=> n # "leaving",
           Goto(j, n, st), RestOK'
    PROVE  TicketInv'
<1>1. UNCHANGED <<lookup, cancelReq, waiting, active>>
  BY DEF Goto, slotVars
<1>2. /\ status' \in [Jobs -> Statuses] /\ run' \in [Jobs -> Awaits]
      /\ status'[j] = st /\ run'[j] = n
      /\ \A k \in Jobs \ {j} : run'[k] = run[k] /\ status'[k] = status[k]
  BY DEF Goto, TicketInv, Sound, Statuses
<1>3. lookup[j] = "none" /\ status[j] \in Busy /\ j \notin waiting
  BY DEF TicketInv, Sound, Busy
<1>4. st \notin {"none", "queued"}
  BY DEF Busy, Terminal
<1>5. active = {k \in Jobs : run'[k] # "none"}
  BY <1>2 DEF TicketInv, Sound
<1>6. Sound(status', run', lookup, cancelReq, waiting, active)
  BY <1>2, <1>3, <1>4, <1>5 DEF TicketInv, Sound
<1>7. Pumped(status', run', lookup, waiting, active)
  BY <1>2, <1>4 DEF TicketInv, Pumped
<1> QED
  BY <1>1, <1>6, <1>7 DEF TicketInv, Sound, Pumped

\* What the steps of a run before its end have in common.
LEMMA RunStepGoes ==
    ASSUME TicketInv, NEW j \in Jobs,
           \/ Prepared(j) \/ Sliced(j) \/ SliceFails(j) \/ Staged(j) \/ Collected(j) \/ Embedded(j)
           \/ Persisted(j) \/ PersistFails(j) \/ Preserved(j) \/ Failed(j)
    PROVE  run[j] \notin {"none", "leaving"} /\ RestOK' /\ GoesOn(j)
<1>1. run[j] \notin {"none", "leaving"}
  BY DEF Prepared, Sliced, SliceFails, Staged, Collected, Embedded, Persisted, PersistFails, Preserved, Failed
<1>2. status[j] \in Busy
  BY <1>1 DEF TicketInv, Sound
<1>3. RestOK'
  <2>1. UNCHANGED <<lost, aborted, retries, disk, restarts>>
    BY DEF Prepared, Sliced, SliceFails, Staged, Collected, Embedded, Persisted, PersistFails,
           Preserved, Failed, Goto, lifeVars
  <2>2. output' \in [Jobs -> BOOLEAN] /\ stored' \in [Jobs -> {"none", "kept", "discarded", "stray"}]
    BY DEF Prepared, Sliced, SliceFails, Staged, Collected, Embedded, Persisted, PersistFails,
           Preserved, Failed, TicketInv, RestOK
  <2> QED
    BY <2>1, <2>2 DEF TicketInv, RestOK
<1> SUFFICES GoesOn(j)
  BY <1>1, <1>3
<1>4. ASSUME NEW n \in Awaits \ {"none", "leaving"}, Goto(j, n, status[j])
      PROVE  GoesOn(j)
  BY <1>2, <1>4 DEF GoesOn
<1>5. CASE Prepared(j)
  BY <1>5 DEF Prepared, Awaits, Busy, GoesOn
<1>6. CASE Sliced(j) \/ SliceFails(j) \/ Staged(j) \/ PersistFails(j)
  <2>1. Goto(j, "staging", status[j]) \/ Goto(j, "failing", status[j])
        \/ Goto(j, "collecting", status[j]) \/ Goto(j, "failingSave", status[j])
    BY <1>6 DEF Sliced, SliceFails, Staged, PersistFails
  <2> QED
    BY <1>4, <2>1 DEF Awaits
<1>7. CASE Collected(j)
  BY <1>7 DEF Collected, Awaits, Busy, GoesOn
<1>8. CASE Embedded(j)
  <2>1. Goto(j, "leaving", "cancelled") \/ Goto(j, "persisting", status[j])
    BY <1>8 DEF Embedded
  <2>2. CASE Goto(j, "leaving", "cancelled")
    BY <2>2 DEF Awaits, Busy, Terminal, GoesOn
  <2>3. CASE Goto(j, "persisting", status[j])
    BY <1>4, <2>3 DEF Awaits
  <2> QED
    BY <2>1, <2>2, <2>3
<1>9. CASE Persisted(j)
  <2>1. Goto(j, "preserving", status[j])
    BY <1>9 DEF Persisted
  <2> QED
    BY <1>4, <2>1 DEF Awaits
<1>10. CASE Preserved(j)
  BY <1>10 DEF Preserved, Awaits, Busy, Terminal, GoesOn
<1>11. CASE Failed(j)
  <2>1. \E st \in {"failed", "cancelled"} : Goto(j, "leaving", st)
    BY <1>11 DEF Failed
  <2> QED
    BY <2>1 DEF Awaits, Busy, Terminal, GoesOn
<1> QED
  BY <1>5, <1>6, <1>7, <1>8, <1>9, <1>10, <1>11

\* A run that gives its slot back leaves jobs and tickets in step.
LEMMA LeavingIsSound ==
    ASSUME TicketInv, NEW j \in Jobs, run[j] = "leaving"
    PROVE  Sound(status, [run EXCEPT ![j] = "none"], lookup, cancelReq, waiting, active \ {j})
<1> DEFINE r0 == [run EXCEPT ![j] = "none"]
           a0 == active \ {j}
<1>1. r0 \in [Jobs -> Awaits] /\ r0[j] = "none" /\ \A k \in Jobs \ {j} : r0[k] = run[k]
  BY DEF TicketInv, Sound, Awaits
<1> HIDE DEF r0
<1>2. status[j] \notin Busy /\ lookup[j] = "none"
  BY DEF TicketInv, Sound
<1>3. Cardinality(a0) <= MaxConcurrentJobs
  <2>1. IsFiniteSet(active) /\ active \subseteq Jobs
    BY SlicingAssumption, FS_Subset DEF SlicingAssumption, TicketInv, Sound
  <2>2. Cardinality(a0) <= Cardinality(active) /\ IsFiniteSet(a0)
    BY <2>1, FS_Subset
  <2>3. Cardinality(a0) \in Nat /\ Cardinality(active) \in Nat /\ Cardinality(active) <= MaxConcurrentJobs
        /\ MaxConcurrentJobs \in Nat
    BY <2>1, <2>2, FS_CardinalityType, SlicingAssumption DEF SlicingAssumption, TicketInv, Sound
  <2> HIDE DEF a0
  <2> QED
    BY <2>2, <2>3
<1>4. a0 = {k \in Jobs : r0[k] # "none"} /\ waiting \cap a0 = {}
  BY <1>1 DEF TicketInv, Sound
<1> HIDE DEF a0
<1>5. Sound(status, r0, lookup, cancelReq, waiting, a0)
  BY <1>1, <1>2, <1>3, <1>4 DEF TicketInv, Sound
<1> QED
  BY <1>5 DEF r0, a0

\* A run's slot goes to a waiting job, and a job retried meanwhile is enqueued.
LEMMA LeaveKeepsTickets ==
    ASSUME TicketInv, NEW j \in Jobs, Leave(j)
    PROVE  TicketInv'
<1> DEFINE r0 == [run EXCEPT ![j] = "none"]
           a0 == active \ {j}
<1>1. RestOK' /\ UNCHANGED <<lookup, cancelReq>>
  BY DEF Leave, TicketInv, RestOK, lifeVars
<1>2. PICK c \in Claims(waiting, a0) :
          PumpQueue(Begun(status, c), Begun(r0, c), waiting \ c, a0 \cup c)
  BY DEF Leave
<1>3. Sound(status, r0, lookup, cancelReq, waiting, a0)
  BY LeavingIsSound DEF Leave
<1> HIDE DEF r0, a0
<1>4. Sound(Begun(status, c), Begun(r0, c), lookup', cancelReq', waiting \ c, a0 \cup c)
  BY <1>1, <1>3, ClaimIsSound
<1> QED
  BY <1>1, <1>2, <1>4, PumpQueueIsSound DEF TicketInv

\* The watchdog only aborts.
LEMMA WatchdogKeepsTickets ==
    ASSUME TicketInv, NEW j \in Jobs, WatchdogGivesUp(j)
    PROVE  TicketInv'
<1>1. RestOK' /\ UNCHANGED <<status, run, lookup, cancelReq, waiting, active>>
  BY DEF WatchdogGivesUp, TicketInv, RestOK, lifeVars, workVars, slotVars
<1> QED
  BY <1>1, StutterKeepsTickets

\* Writing the state file changes no job.
LEMMA PersistKeepsTickets ==
    ASSUME TicketInv, Persist
    PROVE  TicketInv'
<1>1. UNCHANGED <<jobVars, workVars, slotVars, restarts>>
  BY DEF Persist
<1>2. disk' \in [Jobs -> [status : Statuses, output : BOOLEAN]]
  BY DEF Persist, TicketInv, RestOK, Sound, Statuses
<1>3. RestOK' /\ UNCHANGED <<status, run, lookup, cancelReq, waiting, active>>
  BY <1>1, <1>2 DEF TicketInv, RestOK, jobVars, workVars, slotVars
<1> QED
  BY <1>3, StutterKeepsTickets

\* What a restart takes over is queued or over.
LEMMA HydratedIsSound ==
    ASSUME TicketInv, Restart
    PROVE  Sound([j \in Jobs |-> Hydrated(j)], [j \in Jobs |-> "none"], lookup', cancelReq', {}, {})
<1> DEFINE s == [j \in Jobs |-> Hydrated(j)]
           r == [j \in Jobs |-> "none"]
<1>1. /\ lookup' \in [Jobs -> {"none", "probing", "covering"}] /\ cancelReq' \in [Jobs -> BOOLEAN]
      /\ \A j \in Jobs : lookup'[j] = "none" /\ ~cancelReq'[j]
  BY DEF Restart
<1>2. s \in [Jobs -> Statuses] /\ \A j \in Jobs : s[j] \notin Busy
  BY DEF TicketInv, RestOK, Hydrated, Statuses, Terminal, Busy
<1>3. r \in [Jobs -> Awaits] /\ \A j \in Jobs : r[j] = "none"
  BY DEF Awaits
<1>4. Cardinality({}) <= MaxConcurrentJobs
  BY FS_EmptySet, SlicingAssumption DEF SlicingAssumption
<1> HIDE DEF s, r
<1>5. Sound(s, r, lookup', cancelReq', {}, {})
  BY <1>1, <1>2, <1>3, <1>4 DEF Sound
<1> QED
  BY <1>5 DEF s, r

LEMMA RestartKeepsTickets ==
    ASSUME TicketInv, Restart
    PROVE  TicketInv'
<1>1. RestOK'
  BY SlicingAssumption DEF Restart, TicketInv, RestOK, SlicingAssumption
<1>2. PumpQueue([j \in Jobs |-> Hydrated(j)], [j \in Jobs |-> "none"], {}, {})
  BY DEF Restart
<1> QED
  BY <1>1, <1>2, HydratedIsSound, PumpQueueIsSound DEF TicketInv

\* A server without jobs starts in step.
LEMMA InitTickets == SlicingInit => TicketInv
<1> SUFFICES ASSUME SlicingInit PROVE TicketInv
  OBVIOUS
<1>1. RestOK
  BY SlicingAssumption DEF SlicingInit, RestOK, SlicingAssumption, Statuses
<1>2. Cardinality({}) <= MaxConcurrentJobs
  BY FS_EmptySet, SlicingAssumption DEF SlicingAssumption
<1>3. Sound(status, run, lookup, cancelReq, waiting, active)
  BY <1>2 DEF SlicingInit, Sound, Statuses, Awaits, Busy
<1>4. Pumped(status, run, lookup, waiting, active)
  BY DEF SlicingInit, Pumped
<1> QED
  BY <1>1, <1>3, <1>4 DEF TicketInv

\* Every step keeps jobs and tickets in step.
LEMMA NextKeepsTickets == TicketInv /\ [SlicingNext]_slicingVars => TicketInv'
<1> SUFFICES ASSUME TicketInv, [SlicingNext]_slicingVars PROVE TicketInv'
  OBVIOUS
<1>1. CASE UNCHANGED slicingVars
  BY <1>1, StutterKeepsTickets DEF slicingVars, jobVars, workVars, slotVars, lifeVars, TicketInv, RestOK
<1>2. ASSUME NEW j \in Jobs, Enqueue(j) \/ Cancel(j) \/ Retry(j) \/ Delete(j) \/ WatchdogGivesUp(j)
      PROVE  TicketInv'
  BY <1>2, EnqueueKeepsTickets, CancelKeepsTickets, RetryKeepsTickets, DeleteKeepsTickets,
     WatchdogKeepsTickets
<1>3. ASSUME NEW j \in Jobs, LookupStep(j)
      PROVE  TicketInv'
  BY <1>3, LookupMissesKeepsTickets, LookupHitsKeepsTickets, CoverDoneKeepsTickets DEF LookupStep
<1>4. ASSUME NEW j \in Jobs, RunStep(j)
      PROVE  TicketInv'
  <2>1. CASE Leave(j)
    BY <2>1, LeaveKeepsTickets
  <2>2. CASE ~Leave(j)
    <3>1. run[j] \notin {"none", "leaving"} /\ RestOK' /\ GoesOn(j)
      BY <1>4, <2>2, RunStepGoes DEF RunStep
    <3> QED
      BY <3>1, GotoKeepsTickets DEF GoesOn
  <2> QED
    BY <2>1, <2>2
<1>5. CASE Persist \/ Restart
  BY <1>5, PersistKeepsTickets, RestartKeepsTickets
<1> QED
  BY <1>1, <1>2, <1>3, <1>4, <1>5 DEF SlicingNext

\* The tickets of the scheduler and the jobs stay in step in every reachable state.
THEOREM SlicingInvariant == SlicingSpec => []TicketInv
  BY InitTickets, NextKeepsTickets, PTL DEF SlicingSpec

\* Every variable of the jobs keeps its type, and no ticket both waits and runs.
THEOREM SlicingTypes == SlicingSpec => []SlicingTypeOK
<1>1. TicketInv => SlicingTypeOK
  BY DEF TicketInv, RestOK, Sound, SlicingTypeOK
<1> QED
  BY <1>1, SlicingInvariant, PTL

\* A queued job always has a place: pumpQueue leaves none behind, whatever
\* order its lookup, its retry and the end of its failed run come in.
THEOREM EveryQueuedJobHasAPlace == SlicingSpec => []QueuedHasPlace
<1>1. TicketInv => QueuedHasPlace
  BY DEF TicketInv, Sound, Pumped, QueuedHasPlace
<1> QED
  BY <1>1, SlicingInvariant, PTL

\* Slots and busy jobs match the runs, cancellations, retries and restarts
\* included, and no slot is free while a job waits.
THEOREM WorkHoldsItsSlots == SlicingSpec => []WorkHoldsSlots
<1>1. TicketInv => WorkHoldsSlots
  BY DEF TicketInv, Sound, Pumped, WorkHoldsSlots
<1> QED
  BY <1>1, SlicingInvariant, PTL

-----------------------------------------------------------------------------
(* How slicing jobs end: outcomes, cancellations and the files made for them. *)

\* A pump only claims queued jobs.
LEMMA PumpQueueMoves ==
    ASSUME NEW s, NEW r, NEW w, NEW a, w \subseteq Jobs, \A k \in w : s[k] = "queued",
           PumpQueue(s, r, w, a)
    PROVE  Moved(s, r, status', run')
<1> DEFINE q == {k \in Jobs \ a : s[k] = "queued" /\ ~cancelReq'[k] /\ lookup'[k] # "probing"}
<1>1. PICK c \in Claims(w \cup q, a) : status' = Begun(s, c) /\ run' = Begun(r, c)
  BY DEF PumpQueue
<1>2. \A k \in c : s[k] = "queued"
  BY <1>1 DEF Claims
<1> QED
  BY <1>1, <1>2 DEF Moved, Begun

\* The run that leaves has its slot claimed by queued jobs, before the queue is
\* pumped and after it.
LEMMA LeaveMoves ==
    ASSUME TicketInv, NEW j \in Jobs, Leave(j)
    PROVE  Moved(status, [run EXCEPT ![j] = "none"], status', run')
<1> DEFINE r0 == [run EXCEPT ![j] = "none"]
           a0 == active \ {j}
<1>1. PICK c \in Claims(waiting, a0) :
          PumpQueue(Begun(status, c), Begun(r0, c), waiting \ c, a0 \cup c)
  BY DEF Leave
<1>2. \A k \in waiting : k \in Jobs /\ status[k] = "queued"
  BY DEF TicketInv, Sound
<1>3. \A k \in waiting \ c : Begun(status, c)[k] = "queued"
  BY <1>2 DEF Begun
<1>4. waiting \ c \subseteq Jobs
  BY <1>2
<1>5. Moved(Begun(status, c), Begun(r0, c), status', run')
  <2> HIDE DEF r0, a0
  <2> QED
    BY <1>1, <1>3, <1>4, PumpQueueMoves
<1>6. \A k \in c : status[k] = "queued"
  BY <1>1, <1>2 DEF Claims
<1> HIDE DEF r0
<1>7. Moved(status, r0, status', run')
  BY <1>5, <1>6 DEF Moved, Begun
<1> QED
  BY <1>7 DEF r0

\* What a step of a run before its end does to the jobs.
LEMMA GotoMoves ==
    ASSUME TicketInv, NEW j \in Jobs, NEW n, NEW st, run[j] \notin {"none", "leaving"}, Goto(j, n, st)
    PROVE  /\ status[j] \in Busy /\ lookup[j] = "none"
           /\ status'[j] = st /\ run'[j] = n
           /\ \A k \in Jobs \ {j} : status'[k] = status[k] /\ run'[k] = run[k]
           /\ UNCHANGED <<cancelReq, lookup, disk, restarts>>
BY DEF Goto, TicketInv, Sound, lifeVars

-----------------------------------------------------------------------------
(* Outcomes and cancellations *)

\* From here to statuses s and runs r, what is over stays so, and what is
\* cancelled does not become ready unless it was being saved.
LawfulTo(s, r) ==
    \A k \in Jobs :
        /\ status[k] \in {"ready", "cancelled"} => s[k] \in {status[k], "gone"}
        /\ status[k] = "gone" => s[k] = "gone"
        /\ cancelReq[k] /\ status[k] # "ready" /\ run[k] \notin {"persisting", "preserving"}
           => s[k] # "ready" /\ r[k] # "persisting"

\* Claims are lawful.
LEMMA MovedIsLawful ==
    ASSUME NEW s, NEW r, LawfulTo(s, r), Moved(s, r, status', run')
    PROVE  LawfulTo(status', run')
BY DEF LawfulTo, Moved

\* Requests revive nothing.
LEMMA RequestsAreLawful ==
    ASSUME TicketInv, NEW j \in Jobs, Enqueue(j) \/ Cancel(j) \/ Retry(j) \/ Delete(j)
    PROVE  LawfulTo(status', run')
<1>1. LawfulTo(status, run)
  BY DEF LawfulTo, TicketInv, Sound
<1>2. waiting \subseteq Jobs /\ \A k \in waiting : status[k] = "queued"
  BY DEF TicketInv, Sound
<1>3. status \in [Jobs -> Statuses]
  BY DEF TicketInv, Sound
<1> DEFINE s(x) == [status EXCEPT ![j] = x]
<1>4. \A x : s(x)[j] = x /\ \A k \in Jobs \ {j} : s(x)[k] = status[k]
  BY <1>3
<1> HIDE DEF s
<1>5. CASE Enqueue(j)
  <2>1. status[j] = "none"
    BY <1>5 DEF Enqueue
  <2>2. run[j] = "none"
    BY <2>1 DEF TicketInv, Sound
  <2>3. LawfulTo(s("queued"), run)
    BY <1>1, <1>4, <2>1, <2>2 DEF LawfulTo
  <2>4. \/ status' = s("queued") /\ run' = run
        \/ PumpQueue(s("queued"), run, waiting, active)
    BY <1>5 DEF Enqueue, s
  <2>5. \A k \in waiting : s("queued")[k] = "queued"
    BY <1>2, <1>4
  <2> QED
    BY <1>2, <2>3, <2>4, <2>5, PumpQueueMoves, MovedIsLawful
<1>6. CASE Cancel(j)
  <2>1. CASE status[j] = "queued"
    <3>1. LawfulTo(s("cancelled"), run)
      BY <1>1, <1>4, <2>1 DEF LawfulTo
    <3>2. PumpQueue(s("cancelled"), run, waiting \ {j}, active)
      BY <1>6, <2>1 DEF Cancel, s
    <3>3. waiting \ {j} \subseteq Jobs /\ \A k \in waiting \ {j} : s("cancelled")[k] = "queued"
      BY <1>2, <1>4
    <3> QED
      BY <3>1, <3>2, <3>3, PumpQueueMoves, MovedIsLawful
  <2>2. CASE status[j] # "queued"
    BY <1>1, <1>6, <2>2 DEF Cancel
  <2> QED
    BY <2>1, <2>2
<1>7. CASE Retry(j)
  <2>1. status[j] = "failed" /\ PumpQueue(s("queued"), run, waiting, active)
    BY <1>7 DEF Retry, s
  <2>2. LawfulTo(s("queued"), run)
    BY <1>1, <1>4, <2>1 DEF LawfulTo
  <2>3. \A k \in waiting : s("queued")[k] = "queued"
    BY <1>2, <1>4
  <2> QED
    BY <1>2, <2>1, <2>2, <2>3, PumpQueueMoves, MovedIsLawful
<1>8. CASE Delete(j)
  <2>1. status' = s("gone") /\ run' = run
    BY <1>8 DEF Delete, workVars, s
  <2> QED
    BY <1>1, <1>4, <2>1 DEF LawfulTo
<1> QED
  BY <1>5, <1>6, <1>7, <1>8

\* A late answer of the cache revives nothing.
LEMMA LookupsAreLawful ==
    ASSUME TicketInv, NEW j \in Jobs, LookupStep(j)
    PROVE  LawfulTo(status', run')
<1>1. LawfulTo(status, run)
  BY DEF LawfulTo, TicketInv, Sound
<1>2. status \in [Jobs -> Statuses]
  BY DEF TicketInv, Sound
<1>3. CASE LookupMisses(j)
  <2>1. waiting \subseteq Jobs /\ \A k \in waiting : status[k] = "queued"
    BY DEF TicketInv, Sound
  <2>2. PumpQueue(status, run, waiting, active) \/ UNCHANGED <<status, run>>
    BY <1>3 DEF LookupMisses
  <2> QED
    BY <1>1, <2>1, <2>2, PumpQueueMoves, MovedIsLawful
<1>4. CASE LookupHits(j)
  <2>1. run' = run
    BY <1>4 DEF LookupHits
  <2>2. CASE status[j] = "queued"
    <3>1. status' = [status EXCEPT ![j] = "saving"]
      BY <1>4, <2>2 DEF LookupHits
    <3> QED
      BY <1>1, <1>2, <2>1, <2>2, <3>1 DEF LawfulTo
  <2>3. CASE status[j] # "queued"
    <3>1. status' = status
      BY <1>4, <2>3 DEF LookupHits
    <3> QED
      BY <1>1, <2>1, <3>1
  <2> QED
    BY <2>2, <2>3
<1>5. CASE CoverDone(j)
  <2>1. run' = run /\ lookup[j] = "covering"
    BY <1>5 DEF CoverDone
  <2>2. status[j] \in Busy
    BY <2>1 DEF TicketInv, Sound
  <2>3. status' = [status EXCEPT ![j] = IF cancelReq[j] THEN "cancelled" ELSE "ready"]
    BY <1>5 DEF CoverDone
  <2> QED
    BY <1>1, <1>2, <2>1, <2>2, <2>3 DEF LawfulTo, Busy
<1> QED
  BY <1>3, <1>4, <1>5 DEF LookupStep

\* A run ends its own job only, and looks at a cancellation before it saves.
LEMMA RunStepsAreLawful ==
    ASSUME TicketInv, NEW j \in Jobs, RunStep(j)
    PROVE  LawfulTo(status', run')
<1>1. LawfulTo(status, run)
  BY DEF LawfulTo, TicketInv, Sound
<1>2. run \in [Jobs -> Awaits]
  BY DEF TicketInv, Sound
<1>3. CASE Leave(j)
  <2>1. LawfulTo(status, [run EXCEPT ![j] = "none"])
    BY <1>1, <1>2 DEF LawfulTo
  <2> QED
    BY <1>3, <2>1, LeaveMoves, MovedIsLawful
<1>4. ASSUME NEW n, NEW st, run[j] \notin {"none", "leaving"}, Goto(j, n, st),
             cancelReq[j] /\ run[j] \notin {"persisting", "preserving"} => st # "ready" /\ n # "persisting"
      PROVE  LawfulTo(status', run')
  BY <1>1, <1>4, GotoMoves DEF LawfulTo, Busy
<1>5. CASE Prepared(j) \/ Collected(j) \/ Preserved(j)
  BY <1>4, <1>5 DEF Prepared, Collected, Preserved
<1>6. CASE Sliced(j) \/ SliceFails(j) \/ Staged(j) \/ PersistFails(j) \/ Persisted(j)
  <2>1. run[j] \notin {"none", "leaving"}
    BY <1>6 DEF Sliced, SliceFails, Staged, PersistFails, Persisted
  <2>2. status[j] # "ready"
    BY <2>1 DEF TicketInv, Sound, Busy
  <2> QED
    BY <1>4, <1>6, <2>1, <2>2 DEF Sliced, SliceFails, Staged, PersistFails, Persisted
<1>7. CASE Embedded(j)
  <2>1. status[j] # "ready"
    BY <1>7 DEF Embedded, TicketInv, Sound, Busy
  <2> QED
    BY <1>4, <1>7, <2>1 DEF Embedded
<1>8. CASE Failed(j)
  <2>1. \E st \in {"failed", "cancelled"} : Goto(j, "leaving", st)
    BY <1>8 DEF Failed
  <2>2. run[j] \notin {"none", "leaving"}
    BY <1>8 DEF Failed
  <2> QED
    BY <1>4, <2>1, <2>2
<1> QED
  BY <1>3, <1>5, <1>6, <1>7, <1>8 DEF RunStep

\* Every step but a restart is lawful.
LEMMA StepsAreLawful ==
    ASSUME TicketInv, [SlicingNext]_slicingVars, restarts' = restarts
    PROVE  LawfulTo(status', run')
<1>1. LawfulTo(status, run)
  BY DEF LawfulTo, TicketInv, Sound
<1>2. ~Restart
  BY DEF Restart, TicketInv, RestOK
<1>3. ASSUME NEW j \in Jobs, WatchdogGivesUp(j) PROVE LawfulTo(status', run')
  BY <1>1, <1>3 DEF WatchdogGivesUp, workVars
<1>4. CASE Persist \/ UNCHANGED slicingVars
  BY <1>1, <1>4 DEF Persist, slicingVars, jobVars, workVars
<1> QED
  BY <1>2, <1>3, <1>4, RequestsAreLawful, LookupsAreLawful, RunStepsAreLawful DEF SlicingNext

\* What is ready or cancelled stays so until it is deleted: late claims, hits
\* and ends of runs revive nothing while the server lives.
THEOREM OutcomesStay == SlicingSpec => OutcomeStays
<1>1. TicketInv /\ [SlicingNext]_slicingVars =>
        [restarts' = restarts =>
          \A j \in Jobs : /\ status[j] \in {"ready", "cancelled"} => status'[j] \in {status[j], "gone"}
                          /\ status[j] = "gone" => status'[j] = "gone"]_slicingVars
  BY StepsAreLawful DEF LawfulTo
<1> QED
  BY <1>1, SlicingInvariant, PTL DEF SlicingSpec, OutcomeStays

\* A cancelled job never begins to save an artifact, and becomes ready only if
\* it was saving one.
THEOREM CancellationIsHonoured == SlicingSpec => CancelHonoured
<1>1. TicketInv /\ [SlicingNext]_slicingVars =>
        [restarts' = restarts =>
          \A j \in Jobs : cancelReq[j] /\ status[j] # "ready" /\ run[j] \notin {"persisting", "preserving"}
                            => status'[j] # "ready" /\ run'[j] # "persisting"]_slicingVars
  BY StepsAreLawful DEF LawfulTo
<1> QED
  BY <1>1, SlicingInvariant, PTL DEF SlicingSpec, CancelHonoured

-----------------------------------------------------------------------------
(* Files *)

\* How outputs out and files f go with statuses s, runs r and lookups lk.
FilesOK(s, r, lk, out, f) ==
    \A j \in Jobs :
        /\ s[j] = "ready" => out[j] /\ f[j] = "kept"
        /\ f[j] = "kept" => s[j] \in {"ready", "gone"} \cup Busy
        /\ r[j] \notin {"none", "leaving", "preserving"} => f[j] # "kept"
        /\ r[j] = "preserving" => out[j] /\ f[j] = "kept"
        /\ lk[j] = "covering" => out[j] /\ f[j] = "kept"

\* What the state file d calls ready is ready still, or deleted since.
ReadyOnDisk(d, s, lk, f) ==
    \A j \in Jobs : d[j].status = "ready" =>
        d[j].output /\ f[j] = "kept" /\ s[j] \in {"ready", "gone"} /\ lk[j] # "probing"

FileInv == FilesOK(status, run, lookup, output, stored) /\ ReadyOnDisk(disk, status, lookup, stored)

\* Claims leave the files in order.
LEMMA MovedKeepsFiles ==
    ASSUME NEW s, NEW r, FilesOK(s, r, lookup', output', stored'), ReadyOnDisk(disk', s, lookup', stored'),
           Moved(s, r, status', run')
    PROVE  FileInv'
<1>1. FilesOK(status', run', lookup', output', stored')
  BY DEF FilesOK, Moved, Busy
<1>2. ReadyOnDisk(disk', status', lookup', stored')
  BY DEF ReadyOnDisk, Moved
<1> QED
  BY <1>1, <1>2 DEF FileInv, FilesOK, ReadyOnDisk

\* Requests touch no file: what is queued, cancelled or failed has none.
LEMMA RequestsKeepFiles ==
    ASSUME TicketInv, FileInv, NEW j \in Jobs, Enqueue(j) \/ Cancel(j) \/ Retry(j) \/ Delete(j)
    PROVE  FileInv'
<1>1. FilesOK(status, run, lookup, output, stored) /\ ReadyOnDisk(disk, status, lookup, stored)
  BY DEF FileInv
<1>2. waiting \subseteq Jobs /\ \A k \in waiting : status[k] = "queued"
  BY DEF TicketInv, Sound
<1>3. status \in [Jobs -> Statuses] /\ lookup \in [Jobs -> {"none", "probing", "covering"}]
      /\ output \in [Jobs -> BOOLEAN]
  BY DEF TicketInv, Sound, RestOK
<1> DEFINE s(x) == [status EXCEPT ![j] = x]
<1>4. \A x : s(x)[j] = x /\ \A k \in Jobs \ {j} : s(x)[k] = status[k]
  BY <1>3
<1> HIDE DEF s
<1>5. CASE Enqueue(j)
  <2>1. status[j] = "none" /\ UNCHANGED <<output, stored, disk>>
    BY <1>5 DEF Enqueue, lifeVars
  <2>2. run[j] = "none" /\ stored[j] # "kept" /\ disk[j].status # "ready"
    BY <1>1, <2>1 DEF TicketInv, Sound, FilesOK, ReadyOnDisk, Busy
  <2>3. lookup'[j] \in {"none", "probing"} /\ \A k \in Jobs \ {j} : lookup'[k] = lookup[k]
    BY <1>3, <1>5 DEF Enqueue
  <2>4. FilesOK(s("queued"), run, lookup', output', stored')
    BY <1>1, <1>4, <2>1, <2>2, <2>3 DEF FilesOK
  <2>5. ReadyOnDisk(disk', s("queued"), lookup', stored')
    BY <1>1, <1>4, <2>1, <2>2, <2>3 DEF ReadyOnDisk
  <2>6. \/ status' = s("queued") /\ run' = run
        \/ PumpQueue(s("queued"), run, waiting, active)
    BY <1>5 DEF Enqueue, s
  <2>7. \A k \in waiting : s("queued")[k] = "queued"
    BY <1>2, <1>4
  <2>8. Moved(s("queued"), run, status', run')
    BY <1>2, <2>6, <2>7, PumpQueueMoves DEF Moved
  <2> QED
    BY <2>4, <2>5, <2>8, MovedKeepsFiles
<1>6. CASE Cancel(j)
  <2>1. UNCHANGED <<lookup, output, stored, disk>>
    BY <1>6 DEF Cancel, lifeVars
  <2>2. CASE status[j] = "queued"
    <3>1. stored[j] # "kept" /\ disk[j].status # "ready"
      BY <1>1, <2>2 DEF FilesOK, ReadyOnDisk, Busy
    <3>2. FilesOK(s("cancelled"), run, lookup', output', stored')
      BY <1>1, <1>4, <2>1, <3>1 DEF FilesOK
    <3>3. ReadyOnDisk(disk', s("cancelled"), lookup', stored')
      BY <1>1, <1>4, <2>1, <3>1 DEF ReadyOnDisk
    <3>4. PumpQueue(s("cancelled"), run, waiting \ {j}, active)
      BY <1>6, <2>2 DEF Cancel, s
    <3>5. waiting \ {j} \subseteq Jobs /\ \A k \in waiting \ {j} : s("cancelled")[k] = "queued"
      BY <1>2, <1>4
    <3> QED
      BY <3>2, <3>3, <3>4, <3>5, PumpQueueMoves, MovedKeepsFiles
  <2>3. CASE status[j] # "queued"
    <3>1. UNCHANGED <<status, run>>
      BY <1>6, <2>3 DEF Cancel
    <3> QED
      BY <2>1, <3>1 DEF FileInv, FilesOK, ReadyOnDisk
  <2> QED
    BY <2>2, <2>3
<1>7. CASE Retry(j)
  <2>1. status[j] = "failed" /\ PumpQueue(s("queued"), run, waiting, active)
    BY <1>7 DEF Retry, s
  <2>2. UNCHANGED <<lookup, stored, disk>> /\ \A k \in Jobs \ {j} : output'[k] = output[k]
    BY <1>3, <1>7 DEF Retry, lifeVars
  <2>3. stored[j] # "kept" /\ disk[j].status # "ready"
    BY <1>1, <2>1 DEF FilesOK, ReadyOnDisk, Busy
  <2>4. FilesOK(s("queued"), run, lookup', output', stored')
    BY <1>1, <1>4, <2>2, <2>3 DEF FilesOK
  <2>5. ReadyOnDisk(disk', s("queued"), lookup', stored')
    BY <1>1, <1>4, <2>2, <2>3 DEF ReadyOnDisk
  <2>6. \A k \in waiting : s("queued")[k] = "queued"
    BY <1>2, <1>4
  <2> QED
    BY <1>2, <2>1, <2>4, <2>5, <2>6, PumpQueueMoves, MovedKeepsFiles
<1>8. CASE Delete(j)
  <2>1. status[j] \in Terminal /\ status' = s("gone") /\ UNCHANGED <<run, lookup, output, stored, disk>>
    BY <1>8 DEF Delete, workVars, lifeVars, s
  <2>2. FilesOK(status', run', lookup', output', stored')
    BY <1>1, <1>4, <2>1 DEF FilesOK
  <2>3. ReadyOnDisk(disk', status', lookup', stored')
    BY <1>1, <1>4, <2>1 DEF ReadyOnDisk
  <2> QED
    BY <2>2, <2>3 DEF FileInv, FilesOK, ReadyOnDisk
<1> QED
  BY <1>5, <1>6, <1>7, <1>8

\* A copy is attached to a queued job or discarded.
LEMMA LookupsKeepFiles ==
    ASSUME TicketInv, FileInv, NEW j \in Jobs, LookupStep(j)
    PROVE  FileInv'
<1>1. FilesOK(status, run, lookup, output, stored) /\ ReadyOnDisk(disk, status, lookup, stored)
  BY DEF FileInv
<1>2. /\ status \in [Jobs -> Statuses] /\ lookup \in [Jobs -> {"none", "probing", "covering"}]
      /\ output \in [Jobs -> BOOLEAN] /\ stored \in [Jobs -> {"none", "kept", "discarded", "stray"}]
  BY DEF TicketInv, Sound, RestOK
<1>3. run[j] = "none"
  BY DEF LookupStep, LookupMisses, LookupHits, CoverDone, TicketInv, Sound
<1>4. CASE LookupMisses(j)
  <2>1. waiting \subseteq Jobs /\ \A k \in waiting : status[k] = "queued"
    BY DEF TicketInv, Sound
  <2>2. PumpQueue(status, run, waiting, active) \/ UNCHANGED <<status, run>>
    BY <1>4 DEF LookupMisses
  <2>3. Moved(status, run, status', run')
    BY <2>1, <2>2, PumpQueueMoves DEF Moved
  <2>4. UNCHANGED <<output, stored, disk>> /\ lookup'[j] = "none" /\ \A k \in Jobs \ {j} : lookup'[k] = lookup[k]
    BY <1>2, <1>4 DEF LookupMisses, lifeVars
  <2>5. FilesOK(status, run, lookup', output', stored')
    BY <1>1, <2>4 DEF FilesOK
  <2>6. ReadyOnDisk(disk', status, lookup', stored')
    BY <1>1, <2>4 DEF ReadyOnDisk
  <2> QED
    BY <2>3, <2>5, <2>6, MovedKeepsFiles
<1>5. CASE LookupHits(j)
  <2>1. /\ UNCHANGED <<run, disk>> /\ lookup[j] = "probing"
        /\ \A k \in Jobs \ {j} : /\ status'[k] = status[k] /\ lookup'[k] = lookup[k]
                                 /\ output'[k] = output[k] /\ stored'[k] = stored[k]
    BY <1>2, <1>5 DEF LookupHits, lifeVars
  <2>2. \/ /\ status'[j] = "saving" /\ output'[j] /\ stored'[j] = "kept"
        \/ /\ status'[j] = status[j] /\ status[j] # "queued" /\ stored'[j] = "discarded" /\ lookup'[j] = "none"
    BY <1>2, <1>5 DEF LookupHits
  <2>3. disk[j].status # "ready"
    BY <1>1, <2>1 DEF ReadyOnDisk
  <2>4. status[j] \in {"queued", "cancelled", "gone"}
    BY <2>1 DEF TicketInv, Sound
  <2>5. FilesOK(status', run', lookup', output', stored')
    BY <1>1, <1>3, <2>1, <2>2, <2>4 DEF FilesOK, Busy
  <2>6. ReadyOnDisk(disk', status', lookup', stored')
    BY <1>1, <2>1, <2>3 DEF ReadyOnDisk
  <2> QED
    BY <2>5, <2>6 DEF FileInv, FilesOK, ReadyOnDisk
<1>6. CASE CoverDone(j)
  <2>1. /\ UNCHANGED <<run, output, disk>> /\ lookup[j] = "covering" /\ lookup'[j] = "none"
        /\ \A k \in Jobs \ {j} : /\ status'[k] = status[k] /\ lookup'[k] = lookup[k]
                                 /\ stored'[k] = stored[k]
    BY <1>2, <1>6 DEF CoverDone, lifeVars
  <2>2. \/ status'[j] = "cancelled" /\ stored'[j] = "discarded"
        \/ status'[j] = "ready" /\ stored'[j] = stored[j]
    BY <1>2, <1>6 DEF CoverDone
  <2>3. status[j] \in Busy
    BY <2>1 DEF TicketInv, Sound
  <2>4. disk[j].status # "ready"
    BY <1>1, <2>3 DEF ReadyOnDisk, Busy
  <2>5. FilesOK(status', run', lookup', output', stored')
    BY <1>1, <1>3, <2>1, <2>2 DEF FilesOK
  <2>6. ReadyOnDisk(disk', status', lookup', stored')
    BY <1>1, <2>1, <2>4 DEF ReadyOnDisk
  <2> QED
    BY <2>5, <2>6 DEF FileInv, FilesOK, ReadyOnDisk
<1> QED
  BY <1>4, <1>5, <1>6 DEF LookupStep

\* A file appears when the artifact is stored, and its run goes on to ready.
LEMMA RunStepsKeepFiles ==
    ASSUME TicketInv, FileInv, NEW j \in Jobs, RunStep(j)
    PROVE  FileInv'
<1>1. FilesOK(status, run, lookup, output, stored) /\ ReadyOnDisk(disk, status, lookup, stored)
  BY DEF FileInv
<1>2. /\ run \in [Jobs -> Awaits] /\ output \in [Jobs -> BOOLEAN]
      /\ stored \in [Jobs -> {"none", "kept", "discarded", "stray"}]
  BY DEF TicketInv, Sound, RestOK
<1>3. CASE Leave(j)
  <2> DEFINE r == [run EXCEPT ![j] = "none"]
  <2>1. UNCHANGED <<lookup, output, stored, disk>>
    BY <1>3 DEF Leave, lifeVars
  <2>2. r[j] = "none" /\ \A k \in Jobs \ {j} : r[k] = run[k]
    BY <1>2
  <2>3. Moved(status, r, status', run')
    BY <1>3, LeaveMoves
  <2> HIDE DEF r
  <2>4. FilesOK(status, r, lookup', output', stored')
    BY <1>1, <2>1, <2>2 DEF FilesOK
  <2>5. ReadyOnDisk(disk', status, lookup', stored')
    BY <1>1, <2>1 DEF ReadyOnDisk
  <2> QED
    BY <2>3, <2>4, <2>5, MovedKeepsFiles
<1>4. ASSUME NEW n, NEW st, run[j] \notin {"none", "leaving"}, Goto(j, n, st),
             \A k \in Jobs \ {j} : output'[k] = output[k] /\ stored'[k] = stored[k],
             st = "ready" => output'[j] /\ stored'[j] = "kept",
             stored'[j] = "kept" => st \in {"ready"} \cup Busy,
             n \notin {"leaving", "preserving"} => stored'[j] # "kept",
             n = "preserving" => output'[j] /\ stored'[j] = "kept"
      PROVE  FileInv'
  <2>1. /\ status[j] \in Busy /\ lookup[j] = "none" /\ status'[j] = st /\ run'[j] = n
        /\ \A k \in Jobs \ {j} : status'[k] = status[k] /\ run'[k] = run[k]
        /\ UNCHANGED <<lookup, disk>>
    BY <1>4, GotoMoves
  <2>2. disk[j].status # "ready"
    BY <1>1, <2>1 DEF ReadyOnDisk, Busy
  <2>3. FilesOK(status', run', lookup', output', stored')
    BY <1>1, <1>4, <2>1 DEF FilesOK
  <2>4. ReadyOnDisk(disk', status', lookup', stored')
    BY <1>1, <1>4, <2>1, <2>2 DEF ReadyOnDisk
  <2> QED
    BY <2>3, <2>4 DEF FileInv, FilesOK, ReadyOnDisk
<1>5. ASSUME NEW n \in Awaits \ {"none", "preserving"}, NEW st, st # "ready",
             run[j] \notin {"none", "leaving", "preserving"}, Goto(j, n, st), UNCHANGED <<output, stored>>
      PROVE  FileInv'
  <2>1. stored[j] # "kept"
    BY <1>1, <1>5 DEF FilesOK
  <2> QED
    BY <1>4, <1>5, <2>1
<1>6. run[j] \notin {"none", "leaving"} => status[j] \in Busy /\ status[j] # "ready"
  BY DEF TicketInv, Sound, Busy
<1>7. CASE Prepared(j) \/ Collected(j)
  BY <1>5, <1>7 DEF Prepared, Collected, Awaits
<1>8. CASE Sliced(j) \/ SliceFails(j) \/ Staged(j) \/ PersistFails(j)
  BY <1>5, <1>6, <1>8 DEF Sliced, SliceFails, Staged, PersistFails, Awaits
<1>9. CASE Embedded(j)
  BY <1>5, <1>6, <1>9 DEF Embedded, Awaits
<1>10. CASE Failed(j)
  <2>1. \E st \in {"failed", "cancelled"} : Goto(j, "leaving", st)
    BY <1>10 DEF Failed
  <2>2. run[j] \in {"failing", "failingSave"} /\ UNCHANGED <<output, stored>>
    BY <1>10 DEF Failed
  <2> QED
    BY <1>5, <2>1, <2>2 DEF Awaits
<1>11. CASE Persisted(j)
  <2>1. run[j] = "persisting" /\ Goto(j, "preserving", status[j])
    BY <1>11 DEF Persisted
  <2>2. output' = [output EXCEPT ![j] = TRUE] /\ stored' = [stored EXCEPT ![j] = "kept"]
    BY <1>11 DEF Persisted
  <2>3. output'[j] /\ stored'[j] = "kept" /\ \A k \in Jobs \ {j} : output'[k] = output[k] /\ stored'[k] = stored[k]
    BY <1>2, <2>2
  <2> QED
    BY <1>4, <1>6, <2>1, <2>3
<1>12. CASE Preserved(j)
  <2>1. run[j] = "preserving" /\ Goto(j, "leaving", "ready") /\ UNCHANGED <<output, stored>>
    BY <1>12 DEF Preserved
  <2>2. output[j] /\ stored[j] = "kept"
    BY <1>1, <2>1 DEF FilesOK
  <2> QED
    BY <1>4, <2>1, <2>2
<1> QED
  BY <1>3, <1>7, <1>8, <1>9, <1>10, <1>11, <1>12 DEF RunStep

\* The state file is written from jobs that have their files.
LEMMA PersistKeepsFiles ==
    ASSUME TicketInv, FileInv, Persist
    PROVE  FileInv'
<1>1. UNCHANGED <<status, run, lookup, output, stored>>
  BY DEF Persist, jobVars, workVars
<1>2. \A j \in Jobs : disk'[j].status = "ready" => status[j] = "ready" /\ disk'[j].output = output[j]
  BY DEF Persist
<1>3. \A j \in Jobs : status[j] = "ready" => lookup[j] # "probing"
  BY DEF TicketInv, Sound
<1>4. FilesOK(status, run, lookup, output, stored)
  BY DEF FileInv
<1>5. ReadyOnDisk(disk', status, lookup, stored)
  BY <1>2, <1>3, <1>4 DEF ReadyOnDisk, FilesOK
<1> QED
  BY <1>1, <1>4, <1>5 DEF FileInv, FilesOK, ReadyOnDisk

\* What a restart takes over as ready has its file.
LEMMA RestartKeepsFiles ==
    ASSUME TicketInv, FileInv, Restart
    PROVE  FileInv'
<1> DEFINE s == [j \in Jobs |-> Hydrated(j)]
           r == [j \in Jobs |-> "none"]
<1>1. ReadyOnDisk(disk, status, lookup, stored)
  BY DEF FileInv
<1>2. disk' = disk /\ \A j \in Jobs : lookup'[j] = "none" /\ output'[j] = disk[j].output
  BY DEF Restart
<1>3. \A j \in Jobs : stored'[j] = IF stored[j] = "kept" /\ Hydrated(j) \notin {"ready", "gone"}
                                    THEN "stray" ELSE stored[j]
  BY DEF Restart
<1>4. \A j \in Jobs : (s[j] = "ready" <=> disk[j].status = "ready") /\ s[j] = Hydrated(j)
  BY DEF Hydrated, Busy
<1>5. \A j \in Jobs : r[j] = "none"
  OBVIOUS
<1>6. Moved(s, r, status', run')
  BY PumpQueueMoves DEF Restart
<1> HIDE DEF s, r
<1>7. FilesOK(s, r, lookup', output', stored')
  BY <1>1, <1>2, <1>3, <1>4, <1>5 DEF FilesOK, ReadyOnDisk
<1>8. ReadyOnDisk(disk', s, lookup', stored')
  BY <1>1, <1>2, <1>3, <1>4 DEF ReadyOnDisk
<1> QED
  BY <1>6, <1>7, <1>8, MovedKeepsFiles

\* A ready job has its file, and a file made for a job is its output, is
\* discarded or is still worked on: whatever is cancelled, deleted, retried or
\* interrupted while it is copied or saved.
THEOREM FilesAreAccounted == SlicingSpec => []OutputsAccounted
<1>1. SlicingInit => FileInv
  BY DEF SlicingInit, FileInv, FilesOK, ReadyOnDisk
<1>2. TicketInv /\ FileInv /\ [SlicingNext]_slicingVars => FileInv'
  <2> SUFFICES ASSUME TicketInv, FileInv, [SlicingNext]_slicingVars PROVE FileInv'
    OBVIOUS
  <2>1. CASE UNCHANGED <<status, run, lookup, output, stored, disk>>
    BY <2>1 DEF FileInv, FilesOK, ReadyOnDisk
  <2>2. ASSUME NEW j \in Jobs, WatchdogGivesUp(j) PROVE FileInv'
    BY <2>1, <2>2 DEF WatchdogGivesUp, workVars, lifeVars
  <2>3. CASE UNCHANGED slicingVars
    BY <2>1, <2>3 DEF slicingVars, jobVars, workVars, lifeVars
  <2> QED
    BY <2>2, <2>3, RequestsKeepFiles, LookupsKeepFiles, RunStepsKeepFiles, PersistKeepsFiles,
       RestartKeepsFiles DEF SlicingNext
<1>3. FileInv => OutputsAccounted
  BY DEF FileInv, FilesOK, OutputsAccounted
<1> QED
  BY <1>1, <1>2, <1>3, SlicingInvariant, PTL DEF SlicingSpec

-----------------------------------------------------------------------------
(* The limit of the queue *)

QueuedIn(s) == {j \in Jobs : s[j] = "queued"}
QueuedOnDisk == {j \in Jobs : disk[j].status = "queued"}

QueueInv ==
    Cardinality(QueuedIn(status)) <= MaxQueuedJobs /\ Cardinality(QueuedOnDisk) <= MaxQueuedJobs

\* A set of jobs within one that keeps the limit keeps it too.
LEMMA FewerKeepsLimit ==
    ASSUME NEW S, NEW T, S \subseteq T, T \subseteq Jobs, Cardinality(T) <= MaxQueuedJobs
    PROVE  Cardinality(S) <= MaxQueuedJobs
<1>1. IsFiniteSet(T)
  BY SlicingAssumption, FS_Subset DEF SlicingAssumption
<1>2. IsFiniteSet(S) /\ Cardinality(S) <= Cardinality(T)
  BY <1>1, FS_Subset
<1>3. Cardinality(S) \in Nat /\ Cardinality(T) \in Nat /\ MaxQueuedJobs \in Nat
  BY <1>1, <1>2, FS_CardinalityType, SlicingAssumption DEF SlicingAssumption
<1> QED
  BY <1>2, <1>3

\* A pump that moves jobs from statuses s queues none.
LEMMA MovedKeepsLimit ==
    ASSUME NEW s, NEW r, Cardinality(QueuedIn(s)) <= MaxQueuedJobs, Moved(s, r, status', run')
    PROVE  Cardinality(QueuedIn(status')) <= MaxQueuedJobs
<1>1. QueuedIn(status') \subseteq QueuedIn(s) /\ QueuedIn(s) \subseteq Jobs
  BY DEF QueuedIn, Moved
<1> QED
  BY <1>1, FewerKeepsLimit

\* One more is queued where there is room.
LEMMA RoomForOne ==
    ASSUME NEW j \in Jobs, QueueHasRoom, status \in [Jobs -> Statuses]
    PROVE  Cardinality(QueuedIn([status EXCEPT ![j] = "queued"])) <= MaxQueuedJobs
<1>1. IsFiniteSet(QueuedIn(status))
  BY SlicingAssumption, FS_Subset DEF SlicingAssumption, QueuedIn
<1>2. QueuedIn([status EXCEPT ![j] = "queued"]) = QueuedIn(status) \cup {j}
  BY DEF QueuedIn
<1>3. Cardinality(QueuedIn(status) \cup {j})
        = IF j \in QueuedIn(status) THEN Cardinality(QueuedIn(status)) ELSE Cardinality(QueuedIn(status)) + 1
  BY <1>1, FS_AddElement
<1>4. Cardinality(QueuedIn(status)) \in Nat /\ MaxQueuedJobs \in Nat
  BY <1>1, FS_CardinalityType, SlicingAssumption DEF SlicingAssumption
<1>5. Cardinality(QueuedIn(status)) < MaxQueuedJobs
  BY DEF QueueHasRoom, QueuedIn
<1>6. Cardinality(QueuedIn(status) \cup {j}) <= MaxQueuedJobs
  BY <1>3, <1>4, <1>5
<1> QED
  BY <1>2, <1>6

\* Steps other than enqueues, retries and restarts queue no job.
LEMMA OthersQueueNone ==
    ASSUME TicketInv, NEW j \in Jobs,
           Cancel(j) \/ Delete(j) \/ LookupStep(j) \/ RunStep(j) \/ WatchdogGivesUp(j)
    PROVE  /\ \A k \in Jobs : status'[k] = "queued" => status[k] = "queued"
           /\ UNCHANGED disk
<1>1. waiting \subseteq Jobs /\ (\A k \in waiting : status[k] = "queued") /\ status \in [Jobs -> Statuses]
  BY DEF TicketInv, Sound
<1>2. CASE Cancel(j)
  <2>1. UNCHANGED disk
    BY <1>2 DEF Cancel, lifeVars
  <2>2. CASE status[j] = "queued"
    <3> DEFINE s == [status EXCEPT ![j] = "cancelled"]
    <3>1. PumpQueue(s, run, waiting \ {j}, active)
      BY <1>2, <2>2 DEF Cancel
    <3>2. \A k \in Jobs : s[k] = "queued" => status[k] = "queued"
      BY <1>1
    <3>3. waiting \ {j} \subseteq Jobs /\ \A k \in waiting \ {j} : s[k] = "queued"
      BY <1>1
    <3> HIDE DEF s
    <3>4. Moved(s, run, status', run')
      BY <3>1, <3>3, PumpQueueMoves
    <3> QED
      BY <2>1, <3>2, <3>4 DEF Moved
  <2>3. CASE status[j] # "queued"
    BY <1>2, <2>1, <2>3 DEF Cancel
  <2> QED
    BY <2>2, <2>3
<1>3. CASE Delete(j) \/ WatchdogGivesUp(j)
  BY <1>1, <1>3 DEF Delete, WatchdogGivesUp, lifeVars
<1>4. CASE LookupMisses(j)
  <2>1. PumpQueue(status, run, waiting, active) \/ UNCHANGED status
    BY <1>4 DEF LookupMisses
  <2>2. UNCHANGED disk
    BY <1>4 DEF LookupMisses, lifeVars
  <2>3. CASE PumpQueue(status, run, waiting, active)
    <3>1. Moved(status, run, status', run')
      BY <1>1, <2>3, PumpQueueMoves
    <3> QED
      BY <2>2, <3>1 DEF Moved
  <2> QED
    BY <2>1, <2>2, <2>3
<1>5. CASE LookupHits(j)
  <2>1. UNCHANGED disk /\ \A k \in Jobs \ {j} : status'[k] = status[k]
    BY <1>1, <1>5 DEF LookupHits, lifeVars
  <2>2. status'[j] \in {status[j], "saving"}
    BY <1>1, <1>5 DEF LookupHits
  <2> QED
    BY <2>1, <2>2
<1>6. CASE CoverDone(j)
  <2>1. UNCHANGED disk /\ \A k \in Jobs \ {j} : status'[k] = status[k]
    BY <1>1, <1>6 DEF CoverDone, lifeVars
  <2>2. status'[j] \in {"cancelled", "ready"}
    BY <1>1, <1>6 DEF CoverDone
  <2> QED
    BY <2>1, <2>2
<1>7. CASE RunStep(j) /\ ~Leave(j)
  <2>1. run[j] \notin {"none", "leaving"} /\ GoesOn(j)
    BY <1>7, RunStepGoes DEF RunStep
  <2>2. PICK n \in Awaits \ {"none"}, st \in Busy \cup Terminal : Goto(j, n, st)
    BY <2>1 DEF GoesOn
  <2> QED
    BY <2>1, <2>2, GotoMoves DEF Busy, Terminal
<1>8. CASE Leave(j)
  <2>1. UNCHANGED disk
    BY <1>8 DEF Leave, lifeVars
  <2> QED
    BY <1>8, <2>1, LeaveMoves DEF Moved
<1> QED
  BY <1>2, <1>3, <1>4, <1>5, <1>6, <1>7, <1>8 DEF LookupStep

\* The queue keeps its limit, through retries, and through a restart because
\* the state file is one moment of the queue.
THEOREM QueueIsBounded == SlicingSpec => []QueueBounded
<1>1. SlicingInit => QueueInv
  <2> SUFFICES ASSUME SlicingInit PROVE QueueInv
    OBVIOUS
  <2>1. QueuedIn(status) = {} /\ QueuedOnDisk = {}
    BY DEF SlicingInit, QueuedIn, QueuedOnDisk
  <2>2. Cardinality({}) <= MaxQueuedJobs
    BY FS_EmptySet, SlicingAssumption DEF SlicingAssumption
  <2> QED
    BY <2>1, <2>2 DEF QueueInv
<1>2. TicketInv /\ QueueInv /\ [SlicingNext]_slicingVars => QueueInv'
  <2> SUFFICES ASSUME TicketInv, QueueInv, [SlicingNext]_slicingVars PROVE QueueInv'
    OBVIOUS
  <2>1. /\ Cardinality(QueuedIn(status)) <= MaxQueuedJobs /\ Cardinality(QueuedOnDisk) <= MaxQueuedJobs
        /\ QueuedIn(status) \subseteq Jobs /\ QueuedOnDisk \subseteq Jobs
        /\ status \in [Jobs -> Statuses]
    BY DEF QueueInv, QueuedIn, QueuedOnDisk, TicketInv, Sound
  <2>2. waiting \subseteq Jobs /\ \A k \in waiting : status[k] = "queued"
    BY DEF TicketInv, Sound
  <2>3. ASSUME UNCHANGED disk, \A k \in Jobs : status'[k] = "queued" => status[k] = "queued"
        PROVE  QueueInv'
    <3>1. QueuedIn(status') \subseteq QueuedIn(status)
      BY <2>3 DEF QueuedIn
    <3>2. Cardinality(QueuedIn(status')) <= MaxQueuedJobs
      BY <2>1, <3>1, FewerKeepsLimit
    <3> QED
      BY <2>1, <2>3, <3>2 DEF QueueInv, QueuedIn, QueuedOnDisk
  <2>4. ASSUME NEW j \in Jobs, Enqueue(j) \/ Retry(j)
        PROVE  QueueInv'
    <3> DEFINE s == [status EXCEPT ![j] = "queued"]
    <3>1. QueueHasRoom /\ UNCHANGED disk
      BY <2>4 DEF Enqueue, Retry, lifeVars
    <3>2. Cardinality(QueuedIn(s)) <= MaxQueuedJobs
      BY <2>1, <3>1, RoomForOne
    <3>3. PumpQueue(s, run, waiting, active) \/ (status' = s /\ run' = run)
      <4>1. CASE Enqueue(j)
        BY <4>1 DEF Enqueue
      <4>2. CASE Retry(j)
        BY <4>2 DEF Retry
      <4> QED
        BY <2>4, <4>1, <4>2
    <3>4. \A k \in waiting : s[k] = "queued"
      BY <2>1, <2>2
    <3> HIDE DEF s
    <3>5. Moved(s, run, status', run')
      BY <2>2, <3>3, <3>4, PumpQueueMoves DEF Moved
    <3>6. Cardinality(QueuedIn(status')) <= MaxQueuedJobs
      BY <3>2, <3>5, MovedKeepsLimit
    <3> QED
      BY <2>1, <3>1, <3>6 DEF QueueInv, QueuedIn, QueuedOnDisk
  <2>5. CASE Persist
    <3>1. UNCHANGED status /\ \A k \in Jobs : disk'[k].status = "queued" => status[k] = "queued"
      BY <2>5 DEF Persist, jobVars
    <3>2. QueuedOnDisk' \subseteq QueuedIn(status)
      BY <3>1 DEF QueuedOnDisk, QueuedIn
    <3>3. Cardinality(QueuedOnDisk') <= MaxQueuedJobs
      BY <2>1, <3>2, FewerKeepsLimit
    <3> QED
      BY <2>1, <3>1, <3>3 DEF QueueInv, QueuedIn, QueuedOnDisk
  <2>6. CASE Restart
    <3> DEFINE s == [k \in Jobs |-> Hydrated(k)]
               r == [k \in Jobs |-> "none"]
    <3>1. UNCHANGED disk /\ Moved(s, r, status', run')
      BY <2>6, PumpQueueMoves DEF Restart
    <3>2. QueuedIn(s) \subseteq QueuedOnDisk
      BY DEF QueuedIn, QueuedOnDisk, Hydrated
    <3>3. Cardinality(QueuedIn(s)) <= MaxQueuedJobs
      BY <2>1, <3>2, FewerKeepsLimit
    <3> HIDE DEF s, r
    <3>4. Cardinality(QueuedIn(status')) <= MaxQueuedJobs
      BY <3>1, <3>3, MovedKeepsLimit
    <3> QED
      BY <2>1, <3>1, <3>4 DEF QueueInv, QueuedIn, QueuedOnDisk
  <2>7. CASE UNCHANGED slicingVars
    BY <2>3, <2>7 DEF slicingVars, jobVars, lifeVars
  <2>8. ASSUME NEW j \in Jobs,
               Cancel(j) \/ Delete(j) \/ LookupStep(j) \/ RunStep(j) \/ WatchdogGivesUp(j)
        PROVE  QueueInv'
    BY <2>3, <2>8, OthersQueueNone
  <2> QED
    BY <2>4, <2>5, <2>6, <2>7, <2>8 DEF SlicingNext
<1>3. QueueInv => QueueBounded
  BY DEF QueueInv, QueuedIn, QueueBounded
<1> QED
  BY <1>1, <1>2, <1>3, SlicingInvariant, PTL DEF SlicingSpec

-----------------------------------------------------------------------------
(* The refinement of SlotPool *)

\* Jobs that pumpQueue gives a ticket, if they have none, as it finds them.
Fresh(s, lk, cr, a) == {k \in Jobs \ a : s[k] = "queued" /\ ~cr[k] /\ lk[k] # "probing"}

\* Claims leaves open exactly what the pool leaves open.
LEMMA ClaimsAreThePools ==
    ASSUME NEW w, NEW a, w \subseteq Jobs, a \subseteq Jobs, w \cap a = {},
           Cardinality(a) <= MaxConcurrentJobs
    PROVE  Claims(w, a) = Pool!Claimable(w, a)
<1>1. MaxConcurrentJobs \in Nat /\ Cardinality({}) = 0
  BY SlicingAssumption, FS_EmptySet DEF SlicingAssumption
<1>2. ASSUME NEW c \in SUBSET w
      PROVE  c \in Claims(w, a) <=> c \in Pool!Claimable(w, a)
  <2>1. IsFiniteSet(a) /\ IsFiniteSet(c) /\ a \cap c = {}
    BY SlicingAssumption, FS_Subset DEF SlicingAssumption
  <2>2. Cardinality(a \cap c) = 0 /\ Cardinality(a) \in Nat /\ Cardinality(c) \in Nat
    BY <1>1, <2>1, FS_CardinalityType
  <2>3. Cardinality(a \cup c) = Cardinality(a) + Cardinality(c) /\ IsFiniteSet(a \cup c)
    BY <2>1, <2>2, FS_Union
  <2>4. ASSUME NEW t \in w \ c
        PROVE  Cardinality(a \cup c \cup {t}) = Cardinality(a) + Cardinality(c) + 1
    <3>1. t \notin a \cup c
      OBVIOUS
    <3> QED
      BY <2>3, <3>1, FS_AddElement
  <2>5. \A t \in c, u \in w \ c : [k \in Jobs |-> 0][t] <= [k \in Jobs |-> 0][u]
    OBVIOUS
  <2>6. c \in Pool!Claimable(w, a) <=>
          /\ Cardinality(a \cup c) <= MaxConcurrentJobs
          /\ \A t \in w \ c : ~(Cardinality(a \cup c \cup {t}) <= MaxConcurrentJobs)
    BY <2>5 DEF Pool!Claimable, Pool!Filling, Fits
  <2>7. (\A t \in w \ c : ~(Cardinality(a \cup c \cup {t}) <= MaxConcurrentJobs))
          <=> c = w \/ Cardinality(a) + Cardinality(c) >= MaxConcurrentJobs
    <3>1. CASE c = w
      BY <3>1
    <3>2. CASE c # w
      <4>1. PICK t \in w \ c : TRUE
        BY <3>2
      <4>2. ASSUME NEW u \in w \ c
            PROVE  ~(Cardinality(a \cup c \cup {u}) <= MaxConcurrentJobs)
                     <=> Cardinality(a) + Cardinality(c) >= MaxConcurrentJobs
        BY <1>1, <2>2, <2>4
      <4> QED
        BY <3>2, <4>1, <4>2
    <3> QED
      BY <3>1, <3>2
  <2>8. c \in Claims(w, a) <=>
          /\ Cardinality(c) <= MaxConcurrentJobs - Cardinality(a)
          /\ c = w \/ Cardinality(c) = MaxConcurrentJobs - Cardinality(a)
    BY DEF Claims
  <2> QED
    BY <1>1, <2>2, <2>3, <2>6, <2>7, <2>8
<1> QED
  BY <1>2 DEF Claims, Pool!Claimable, Pool!Filling

\* pumpQueue settles the pool with the tickets it adds.
LEMMA PumpQueueSettles ==
    ASSUME NEW s, NEW r, NEW w, NEW a,
           Sound(s, r, lookup', cancelReq', w, a), PumpQueue(s, r, w, a)
    PROVE  Pool!Settle(w \cup Fresh(s, lookup', cancelReq', a), a)
<1> DEFINE q == Fresh(s, lookup', cancelReq', a)
<1>1. \E c \in Claims(w \cup q, a) : waiting' = (w \cup q) \ c /\ active' = a \cup c
  BY DEF PumpQueue, Fresh
<1>2. q \subseteq Jobs /\ q \cap a = {}
  BY DEF Fresh
<1> HIDE DEF q
<1>3. w \cup q \subseteq Jobs /\ a \subseteq Jobs /\ (w \cup q) \cap a = {}
      /\ Cardinality(a) <= MaxConcurrentJobs
  BY <1>2 DEF Sound
<1>4. Claims(w \cup q, a) = Pool!Claimable(w \cup q, a)
  BY <1>3, ClaimsAreThePools
<1>5. Pool!Settle(w \cup q, a)
  BY <1>1, <1>4 DEF Pool!Settle
<1> QED
  BY <1>5 DEF q

\* Where no slot is free beside a waiting ticket there is nothing to serve.
LEMMA SettledStays ==
    ASSUME NEW w, NEW a, w \subseteq Jobs, a \subseteq Jobs, w \cap a = {},
           Cardinality(a) <= MaxConcurrentJobs,
           w # {} => Cardinality(a) = MaxConcurrentJobs, Pool!Settle(w, a)
    PROVE  waiting' = w /\ active' = a
<1>1. PICK c \in Claims(w, a) : waiting' = w \ c /\ active' = a \cup c
  BY ClaimsAreThePools DEF Pool!Settle
<1>2. MaxConcurrentJobs \in Nat /\ IsFiniteSet(c) /\ c \subseteq w
  BY SlicingAssumption, FS_Subset DEF SlicingAssumption, Claims
<1>3. c = {}
  <2>1. CASE w = {}
    BY <1>2, <2>1
  <2>2. CASE w # {}
    <3>1. Cardinality(c) <= 0 /\ Cardinality(c) \in Nat
      BY <1>1, <1>2, <2>2, FS_CardinalityType DEF Claims
    <3> QED
      BY <1>2, <3>1, FS_EmptySet
  <2> QED
    BY <2>1, <2>2
<1> QED
  BY <1>1, <1>3

\* A call that adds nothing to the tickets of a settled pool leaves it settled.
LEMMA NothingToPump ==
    ASSUME NEW s, NEW r, NEW w, NEW a,
           Sound(s, r, lookup', cancelReq', w, a), PumpQueue(s, r, w, a),
           w # {} => Cardinality(a) = MaxConcurrentJobs,
           Fresh(s, lookup', cancelReq', a) \subseteq w
    PROVE  waiting' = w /\ active' = a
<1>1. w \subseteq Jobs /\ a \subseteq Jobs /\ w \cap a = {} /\ Cardinality(a) <= MaxConcurrentJobs
  BY DEF Sound
<1>2. w \cup Fresh(s, lookup', cancelReq', a) = w
  OBVIOUS
<1>3. Pool!Settle(w, a)
  BY <1>2, PumpQueueSettles
<1> QED
  BY <1>1, <1>3, SettledStays

\* Only the job itself can lack its ticket when a request or lookup pumps.
LEMMA OneFresh ==
    ASSUME TicketInv, NEW j \in Jobs, NEW s,
           \A k \in Jobs \ {j} : s[k] = status[k] /\ lookup'[k] = lookup[k]
    PROVE  Fresh(s, lookup', cancelReq', active) \subseteq waiting \cup {j}
BY DEF TicketInv, Sound, Pumped, Fresh

\* A job gets its ticket: it is new, was retried, or has no cached result.
LEMMA EnqueueingIsACall ==
    ASSUME TicketInv, NEW j \in Jobs, NEW s,
           Sound(s, run, lookup', cancelReq', waiting, active),
           PumpQueue(s, run, waiting, active),
           s[j] = "queued", j \notin waiting, lookup'[j] # "probing",
           \A k \in Jobs \ {j} : s[k] = status[k] /\ lookup'[k] = lookup[k]
    PROVE  Pool!Enqueue(j) \/ UNCHANGED <<waiting, active>>
<1> DEFINE q == Fresh(s, lookup', cancelReq', active)
<1>1. q \subseteq waiting \cup {j}
  BY OneFresh
<1>2. CASE j \in active
  <2>1. q \subseteq waiting
    BY <1>1, <1>2 DEF Fresh
  <2> QED
    BY <2>1, NothingToPump DEF TicketInv, Pumped
<1>3. CASE j \notin active
  <2>1. j \in q
    BY <1>3 DEF Fresh, Sound
  <2>2. waiting \cup q = waiting \cup {j}
    BY <1>1, <2>1
  <2>3. Pool!Settle(waiting \cup q, active)
    BY PumpQueueSettles
  <2> HIDE DEF q
  <2> QED
    BY <1>3, <2>2, <2>3 DEF Pool!Enqueue
<1> QED
  BY <1>2, <1>3

LEMMA EnqueueIsACall ==
    ASSUME TicketInv, NEW j \in Jobs, Enqueue(j)
    PROVE  Pool!Enqueue(j) \/ UNCHANGED <<waiting, active>>
<1> DEFINE s == [status EXCEPT ![j] = "queued"]
<1>1. status[j] = "none" /\ run[j] = "none" /\ lookup[j] = "none" /\ ~cancelReq[j] /\ j \notin waiting
  BY DEF Enqueue, TicketInv, Sound
<1>2. UNCHANGED cancelReq /\ lookup' \in [Jobs -> {"none", "probing", "covering"}]
      /\ lookup'[j] \in {"none", "probing"} /\ \A k \in Jobs \ {j} : lookup'[k] = lookup[k]
  BY DEF Enqueue, TicketInv, Sound
<1>3. s \in [Jobs -> Statuses] /\ s[j] = "queued" /\ \A k \in Jobs \ {j} : s[k] = status[k]
  BY DEF TicketInv, Sound, Statuses
<1>4. \/ UNCHANGED <<waiting, active>>
      \/ lookup'[j] # "probing" /\ PumpQueue(s, run, waiting, active)
  BY DEF Enqueue, slotVars
<1> HIDE DEF s
<1>5. Sound(s, run, lookup', cancelReq', waiting, active)
  BY <1>1, <1>2, <1>3 DEF TicketInv, Sound, Busy
<1> QED
  BY <1>1, <1>2, <1>3, <1>4, <1>5, EnqueueingIsACall

LEMMA RetryIsACall ==
    ASSUME TicketInv, NEW j \in Jobs, Retry(j)
    PROVE  Pool!Enqueue(j) \/ UNCHANGED <<waiting, active>>
<1> DEFINE s == [status EXCEPT ![j] = "queued"]
<1>1. UNCHANGED lookup /\ cancelReq' \in [Jobs -> BOOLEAN] /\ ~cancelReq'[j]
      /\ \A k \in Jobs \ {j} : cancelReq'[k] = cancelReq[k]
  BY DEF Retry, TicketInv, Sound
<1>2. s \in [Jobs -> Statuses] /\ s[j] = "queued" /\ \A k \in Jobs \ {j} : s[k] = status[k]
  BY DEF TicketInv, Sound, Statuses
<1>3. status[j] = "failed" /\ PumpQueue(s, run, waiting, active)
  BY DEF Retry
<1> HIDE DEF s
<1>4. run[j] \in {"none", "leaving"} /\ lookup[j] = "none" /\ j \notin waiting
  BY <1>3 DEF TicketInv, Sound, Busy
<1>5. Sound(s, run, lookup', cancelReq', waiting, active)
  BY <1>1, <1>2, <1>4 DEF TicketInv, Sound, Busy
<1> QED
  BY <1>1, <1>2, <1>3, <1>4, <1>5, EnqueueingIsACall

LEMMA LookupMissesIsACall ==
    ASSUME TicketInv, NEW j \in Jobs, LookupMisses(j)
    PROVE  Pool!Enqueue(j) \/ UNCHANGED <<waiting, active>>
<1>1. UNCHANGED cancelReq
  BY DEF LookupMisses
<1>2. /\ lookup[j] = "probing" /\ lookup' \in [Jobs -> {"none", "probing", "covering"}]
      /\ lookup'[j] = "none" /\ \A k \in Jobs \ {j} : lookup'[k] = lookup[k]
  BY DEF LookupMisses, TicketInv, Sound
<1>3. Sound(status, run, lookup', cancelReq', waiting, active) /\ j \notin waiting
  BY <1>1, <1>2 DEF TicketInv, Sound
<1>4. \/ UNCHANGED <<waiting, active>>
      \/ status[j] = "queued" /\ PumpQueue(status, run, waiting, active)
  BY DEF LookupMisses, slotVars
<1> QED
  BY <1>2, <1>3, <1>4, EnqueueingIsACall

\* A cancelled job gives up its ticket if it waits; one that probes has none.
LEMMA CancelIsACall ==
    ASSUME TicketInv, NEW j \in Jobs, Cancel(j)
    PROVE  Pool!Cancel(j) \/ UNCHANGED <<waiting, active>>
<1> DEFINE s == [status EXCEPT ![j] = "cancelled"]
<1>1. UNCHANGED lookup /\ cancelReq' \in [Jobs -> BOOLEAN]
      /\ \A k \in Jobs \ {j} : cancelReq'[k] = cancelReq[k]
  BY DEF Cancel, TicketInv, Sound
<1>2. CASE status[j] = "queued"
  <2>1. s \in [Jobs -> Statuses] /\ s[j] = "cancelled" /\ \A k \in Jobs \ {j} : s[k] = status[k]
    BY DEF TicketInv, Sound, Statuses, Terminal
  <2>2. PumpQueue(s, run, waiting \ {j}, active)
    BY <1>2 DEF Cancel
  <2> HIDE DEF s
  <2>3. Sound(s, run, lookup', cancelReq', waiting \ {j}, active)
    BY <1>1, <1>2, <2>1 DEF TicketInv, Sound, Busy
  <2>4. Fresh(s, lookup', cancelReq', active) \subseteq waiting \ {j}
    <3>1. Fresh(s, lookup', cancelReq', active) \subseteq waiting \cup {j}
      BY <1>1, <2>1, OneFresh
    <3> QED
      BY <2>1, <3>1 DEF Fresh
  <2>5. waiting \ {j} # {} => Cardinality(active) = MaxConcurrentJobs
    BY DEF TicketInv, Pumped
  <2>6. waiting' = waiting \ {j} /\ active' = active
    BY <2>2, <2>3, <2>4, <2>5, NothingToPump
  <2> QED
    BY <2>6 DEF Pool!Cancel
<1>3. CASE status[j] # "queued"
  BY <1>3 DEF Cancel, slotVars
<1> QED
  BY <1>2, <1>3

\* The end of a run releases its slot, and enqueues its job again if it was
\* retried meanwhile.
LEMMA LeaveIsACall ==
    ASSUME TicketInv, NEW j \in Jobs, Leave(j)
    PROVE  Pool!Complete(j) \/ Pool!Renew(j)
<1> DEFINE r0 == [run EXCEPT ![j] = "none"]
           a0 == active \ {j}
<1>1. UNCHANGED <<lookup, cancelReq>> /\ run[j] = "leaving"
  BY DEF Leave
<1>2. PICK c \in Claims(waiting, a0) :
          PumpQueue(Begun(status, c), Begun(r0, c), waiting \ c, a0 \cup c)
  BY DEF Leave
<1> DEFINE s1 == Begun(status, c)
           w1 == waiting \ c
           a1 == a0 \cup c
           q == Fresh(s1, lookup', cancelReq', a1)
<1>3. Sound(status, r0, lookup, cancelReq, waiting, a0)
  BY <1>1, LeavingIsSound
<1>4. j \in active /\ j \notin waiting /\ c \subseteq waiting
  BY <1>1 DEF TicketInv, Sound, Claims
<1>5. c \in Pool!Claimable(waiting, a0)
  <2>1. waiting \subseteq Jobs /\ a0 \subseteq Jobs /\ waiting \cap a0 = {}
        /\ Cardinality(a0) <= MaxConcurrentJobs
    BY <1>3 DEF Sound
  <2> HIDE DEF a0
  <2> QED
    BY <1>2, <2>1, ClaimsAreThePools
<1> HIDE DEF r0
<1>6. q \subseteq w1 \cup {j}
  <2> SUFFICES ASSUME NEW k \in q, k # j PROVE k \in w1
    OBVIOUS
  <2>1. k \in Jobs /\ k \notin active /\ k \notin c /\ lookup[k] # "probing"
    BY <1>1 DEF Fresh
  <2>2. status[k] = "queued"
    BY <2>1 DEF Fresh, Begun
  <2> QED
    BY <2>1, <2>2 DEF TicketInv, Sound, Pumped
<1> HIDE DEF a0
<1>7. /\ Sound(s1, Begun(r0, c), lookup', cancelReq', w1, a1)
      /\ w1 # {} => Cardinality(a1) = MaxConcurrentJobs
  BY <1>1, <1>2, <1>3, ClaimIsSound
<1>8. PumpQueue(s1, Begun(r0, c), w1, a1)
  BY <1>2
<1> HIDE DEF s1, w1, a1
<1>9. CASE j \in q
  <2>1. Pool!Settle(w1 \cup q, a1)
    BY <1>7, <1>8, PumpQueueSettles
  <2>2. w1 \cup q = w1 \cup {j}
    BY <1>6, <1>9
  <2> HIDE DEF q
  <2>3. Pool!Settle(w1 \cup {j}, a1)
    BY <2>1, <2>2
  <2> QED
    BY <1>4, <1>5, <2>3 DEF Pool!Renew, w1, a1, a0
<1>10. CASE j \notin q
  <2>1. q \subseteq w1
    BY <1>6, <1>10
  <2>2. waiting' = w1 /\ active' = a1
    BY <1>7, <1>8, <2>1, NothingToPump
  <2> QED
    BY <1>4, <1>5, <2>2 DEF Pool!Complete, Pool!Settle, w1, a1, a0
<1> QED
  BY <1>9, <1>10

\* A restart enqueues the jobs the state file has as queued, one by one, into
\* an empty pool.
LEMMA RestartIsACall ==
    ASSUME TicketInv, Restart
    PROVE  \E ts \in SUBSET Jobs : Pool!Reopen(ts)
<1> DEFINE s == [j \in Jobs |-> Hydrated(j)]
           r == [j \in Jobs |-> "none"]
           q == Fresh(s, lookup', cancelReq', {})
<1>1. Sound(s, r, lookup', cancelReq', {}, {})
  BY HydratedIsSound
<1>2. PumpQueue(s, r, {}, {})
  BY DEF Restart
<1> HIDE DEF s, r
<1>3. Pool!Settle({} \cup q, {})
  BY <1>1, <1>2, PumpQueueSettles
<1>4. q \in SUBSET Jobs /\ {} \cup q = q
  BY DEF Fresh
<1> HIDE DEF q
<1>5. Pool!Settle(q, {})
  BY <1>3, <1>4
<1> QED
  BY <1>4, <1>5 DEF Pool!Reopen, Pool!Settle, Pool!Claimable

\* Every step of the jobs is one call to the pool, or none.
LEMMA StepsAreCalls ==
    ASSUME TicketInv, [SlicingNext]_slicingVars
    PROVE  [Pool!PoolNext]_(Pool!poolVars)
<1>1. CASE UNCHANGED <<waiting, active>>
  BY <1>1 DEF Pool!poolVars
<1>2. ASSUME NEW j \in Jobs, Pool!Enqueue(j) \/ Pool!Cancel(j) \/ Pool!Complete(j) \/ Pool!Renew(j)
      PROVE  Pool!PoolNext
  BY <1>2 DEF Pool!PoolNext
<1>3. ASSUME NEW j \in Jobs, Enqueue(j) \/ Cancel(j) \/ Retry(j) \/ LookupMisses(j) \/ Leave(j)
      PROVE  [Pool!PoolNext]_(Pool!poolVars)
  BY <1>1, <1>2, <1>3, EnqueueIsACall, CancelIsACall, RetryIsACall, LookupMissesIsACall, LeaveIsACall
<1>4. CASE Restart
  BY <1>4, RestartIsACall DEF Pool!PoolNext
<1>5. ASSUME NEW j \in Jobs, Delete(j) \/ LookupHits(j) \/ CoverDone(j) \/ WatchdogGivesUp(j)
      PROVE  UNCHANGED <<waiting, active>>
  BY <1>5 DEF Delete, LookupHits, CoverDone, WatchdogGivesUp, slotVars
<1>6. ASSUME NEW j \in Jobs, RunStep(j), ~Leave(j)
      PROVE  UNCHANGED <<waiting, active>>
  BY <1>6 DEF RunStep, Prepared, Sliced, SliceFails, Staged, Collected, Embedded,
              Persisted, PersistFails, Preserved, Failed, Goto, slotVars
<1>7. CASE Persist \/ UNCHANGED slicingVars
  BY <1>1, <1>7 DEF Persist, slicingVars, slotVars
<1> QED
  BY <1>1, <1>3, <1>4, <1>5, <1>6, <1>7 DEF SlicingNext, LookupStep

\* The jobs keep to the pool's contract: whatever is cancelled, retried or
\* looked up while a run ends, no job asks for a second ticket, gives back
\* another's, or leaves a slot unserved.
THEOREM JobsUsePool == SlicingSpec => ImplementsPool
<1>1. SlicingInit => Pool!PoolInit
  BY DEF SlicingInit, Pool!PoolInit
<1>2. TicketInv /\ [SlicingNext]_slicingVars => [Pool!PoolNext]_(Pool!poolVars)
  BY StepsAreCalls
<1> QED
  BY <1>1, <1>2, SlicingInvariant, PTL DEF SlicingSpec, ImplementsPool, Pool!PoolSpec
=============================================================================
