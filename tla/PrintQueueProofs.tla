---------------------------- MODULE PrintQueueProofs ----------------------------
(***************************************************************************)
(* Proofs about PrintQueue and PlateClearing, for all items, printers,     *)
(* prints and requests and all bounds.                                     *)
(***************************************************************************)
EXTENDS PrintQueue, Integers, FiniteSetTheorems, TLAPS

-----------------------------------------------------------------------------
(* Plates *)

\* One write at most is on its way to a plate on which no two have met, and it
\* carries what is on the plate; without one, row and cache say so.
PlateSound(p) ==
    /\ \A v, w \in Writers : v \in WritesOn(p) /\ w \in WritesOn(p) => v = w
    /\ \A w \in WritesOn(p) :
        /\ writes[w].value <=> p \notin occupied
        /\ writes[w].at = "caching" => cleared[p] = writes[w].value
    /\ WritesOn(p) = {} => /\ clearedCache[p] = cleared[p]
                           /\ p \in occupied => ~cleared[p]

PlateInv == PlateTypeOK /\ \A p \in Printers \ unsure : PlateSound(p)

LEMMA PlateInitSound == PlateInit => PlateInv
BY PlateAssumption DEF PlateInit, PlateInv, PlateTypeOK, PlateSound, WritesOn, NoWrite

\* A write that begins says what becomes of the plate.
LEMMA WriteBegins ==
    ASSUME PlateInv, NEW w \in Writers, NEW p \in Printers, NEW value \in BOOLEAN,
           BeginWrite(w, p, value),
           occupied' = IF value THEN occupied \ {p} ELSE occupied \cup {p}
    PROVE  PlateInv'
<1>1. PlateTypeOK'
  BY DEF PlateInv, PlateTypeOK, BeginWrite
<1>2. ASSUME NEW q \in Printers \ unsure' PROVE PlateSound(q)'
  <2>1. CASE q # p
    <3>1. q \notin unsure /\ (q \in occupied' <=> q \in occupied)
      BY <1>2, <2>1 DEF BeginWrite
    <3>2. WritesOn(q)' = WritesOn(q) /\ \A v \in WritesOn(q) : writes'[v] = writes[v]
      BY <2>1 DEF WritesOn, BeginWrite, PlateInv, PlateTypeOK
    <3> QED
      BY <1>2, <3>1, <3>2 DEF PlateInv, PlateSound, BeginWrite
  <2>2. CASE q = p
    <3>1. WritesOn(p) = {}
      BY <1>2, <2>2 DEF BeginWrite, PlateInv, PlateTypeOK
    <3>2. WritesOn(p)' = {w} /\ writes'[w].value = value /\ writes'[w].at = "setting"
      BY <3>1 DEF WritesOn, BeginWrite, PlateInv, PlateTypeOK
    <3>3. p \in occupied' <=> ~value
      OBVIOUS
    <3> QED
      BY <2>2, <3>2, <3>3 DEF PlateSound
  <2> QED
    BY <2>1, <2>2
<1> QED
  BY <1>1, <1>2 DEF PlateInv

\* A write goes on.
LEMMA WriteGoesOn ==
    ASSUME PlateInv, NEW w \in Writers, PlateStep(w)
    PROVE  PlateInv'
<1>1. CASE SetCleared(w)
  <2>1. PlateTypeOK'
    BY <1>1 DEF PlateInv, PlateTypeOK, SetCleared
  <2>2. \A p \in Printers : WritesOn(p)' = WritesOn(p)
    BY <1>1 DEF WritesOn, SetCleared, PlateInv, PlateTypeOK
  <2>3. ASSUME NEW p \in Printers \ unsure PROVE PlateSound(p)'
    <3>1. PlateSound(p)
      BY <2>3 DEF PlateInv
    <3>2. w \in WritesOn(writes[w].printer)
      BY <1>1 DEF SetCleared, WritesOn
    <3>3. \A v \in Writers : v # w => writes'[v] = writes[v]
      BY <1>1 DEF SetCleared, PlateInv, PlateTypeOK
    <3>4. writes'[w] = [writes[w] EXCEPT !.at = "caching"]
      BY <1>1 DEF SetCleared, PlateInv, PlateTypeOK
    <3> QED
      BY <1>1, <2>2, <3>1, <3>2, <3>3, <3>4 DEF SetCleared, PlateSound, WritesOn, PlateInv, PlateTypeOK
  <2> QED
    BY <1>1, <2>1, <2>3 DEF PlateInv, SetCleared
<1>2. CASE RefreshCache(w)
  <2>1. PlateTypeOK'
    BY <1>2, PlateAssumption DEF PlateInv, PlateTypeOK, RefreshCache, Written
  <2>2. \A v \in Writers : v # w => writes'[v] = writes[v]
    BY <1>2 DEF RefreshCache, PlateInv, PlateTypeOK
  <2>3. writes'[w].at = "done"
    BY <1>2 DEF RefreshCache, PlateInv, PlateTypeOK, Written
  <2>4. ASSUME NEW p \in Printers \ unsure PROVE PlateSound(p)'
    <3>1. PlateSound(p)
      BY <2>4 DEF PlateInv
    <3>2. WritesOn(p)' = WritesOn(p) \ {w}
      BY <2>2, <2>3 DEF WritesOn
    <3> QED
      BY <1>2, <2>2, <2>3, <3>1, <3>2 DEF RefreshCache, PlateSound, WritesOn, PlateInv, PlateTypeOK
  <2> QED
    BY <1>2, <2>1, <2>4 DEF PlateInv, RefreshCache
<1> QED
  BY <1>1, <1>2 DEF PlateStep

\* A write that rejects leaves its printer to the exemption.
LEMMA WriteFailsSound ==
    ASSUME PlateInv, NEW w \in Writers, WriteFails(w)
    PROVE  PlateInv'
<1>. DEFINE q == writes[w].printer
<1>1. q \in Printers /\ writes[w].value \in BOOLEAN
  BY DEF WriteFails, PlateInv, PlateTypeOK
<1>2. PlateTypeOK'
  BY <1>1, PlateAssumption DEF PlateInv, PlateTypeOK, WriteFails, Written
<1>3. ASSUME NEW p \in Printers \ unsure' PROVE PlateSound(p)'
  <2>1. p # q /\ p \notin unsure
    BY <1>3 DEF WriteFails
  <2>2. PlateSound(p)
    BY <1>3, <2>1 DEF PlateInv
  <2>3. WritesOn(p)' = WritesOn(p) /\ \A v \in WritesOn(p) : writes'[v] = writes[v]
    BY <2>1 DEF WritesOn, WriteFails, Written, PlateInv, PlateTypeOK
  <2>4. cleared'[p] = cleared[p] /\ UNCHANGED <<clearedCache, occupied>>
    BY <1>3, <2>1 DEF WriteFails, PlateInv, PlateTypeOK
  <2> QED
    BY <2>2, <2>3, <2>4 DEF PlateSound
<1> QED
  BY <1>2, <1>3 DEF PlateInv

LEMMA RestartSound ==
    ASSUME PlateInv, PlateRestart
    PROVE  PlateInv'
<1>1. PlateTypeOK'
  BY PlateAssumption DEF PlateInv, PlateTypeOK, PlateRestart, NoWrite, Written
<1>2. \A p \in Printers : WritesOn(p)' = {}
  BY DEF PlateRestart, WritesOn, NoWrite, Written, PlateInv, PlateTypeOK
<1>3. \A p \in Printers \ unsure' : p \notin unsure /\ WritesOn(p) = {}
  BY DEF PlateRestart
<1> QED
  BY <1>1, <1>2, <1>3 DEF PlateInv, PlateSound, PlateRestart

-----------------------------------------------------------------------------
(* Steps *)

PlateSteps ==
    \/ \E w \in Writers : PlateOnly(w) \/ PlateFails(w)
    \/ \E w \in PlateRequests, p \in Printers : UserOfPlate(w, p)

\* What a step that only the plates take part in leaves alone.
LEMMA PlateStepsApart ==
    ASSUME PlateSteps
    PROVE  UNCHANGED <<row, request, edit, print, started, finished, ghostVars>>
BY DEF PlateSteps, PlateOnly, PlateFails, UserOfPlate, queueVars

\* Every step but those of the plates is one of the groups the lemmas speak of.
LEMMA StepsByGroup ==
    ASSUME [QueueNext]_allVars
    PROVE  \/ \E r \in Requests : RequestStep(r) \/ \E i \in Items, p \in Printers : ReadForDispatch(r, i, p)
           \/ \/ \E e \in Edits : WriteEdit(e) \/ \E i \in Items : ReadForEdit(e, i)
              \/ \E i \in Items : Remove(i)
           \/ \E d \in Prints : PrintStep(d)
           \/ \E d \in Prints : HandlerStep(d)
           \/ Crash
           \/ PlateSteps
           \/ UNCHANGED allVars
BY DEF QueueNext, PlateSteps

-----------------------------------------------------------------------------
(* Types *)

LEMMA TypesInit == QueueInit => QueueTypeOK
<1>. SUFFICES ASSUME QueueInit PROVE QueueTypeOK
  OBVIOUS
<1>. USE QueueAssumption DEF QueueAssumption, QueueInit
<1>1. PlateTypeOK
  BY PlateInitSound DEF PlateInv
<1>2. RowsOK
  BY DEF RowsOK, Statuses
<1>3. RequestsOK
  BY DEF RequestsOK, NoRequest, Statuses
<1>4. EditsOK
  BY DEF EditsOK, NoEdit, Statuses
<1>5. PrintsOK
  BY DEF PrintsOK
<1>6. HandlersOK(started) /\ HandlersOK(finished)
  BY DEF HandlersOK, NoHandler
<1> QED
  BY <1>1, <1>2, <1>3, <1>4, <1>5, <1>6 DEF QueueTypeOK

LEMMA TypesOfRequests ==
    ASSUME QueueTypeOK, NEW r \in Requests,
           RequestStep(r) \/ \E i \in Items, p \in Printers : ReadForDispatch(r, i, p)
    PROVE  QueueTypeOK'
<1>. USE QueueAssumption DEF QueueAssumption
<1>1. PlateTypeOK'
  BY DEF QueueTypeOK, PlateTypeOK, plateVars, RequestStep, ReadForDispatch, Claim, Accept, Refuse, Link,
         RequestFails
<1>2. ASSUME NEW i \in Items, NEW p \in Printers, ReadForDispatch(r, i, p) PROVE QueueTypeOK'
  <2>1. RequestsOK'
    BY <1>2 DEF QueueTypeOK, RowsOK, RequestsOK, ReadForDispatch, Statuses
  <2> QED
    BY <1>1, <1>2, <2>1 DEF QueueTypeOK, RowsOK, EditsOK, PrintsOK, HandlersOK, ReadForDispatch, ghostVars
<1>3. CASE Claim(r)
  <2>1. RequestsOK'
    BY <1>3 DEF QueueTypeOK, RequestsOK, Claim, NoRequest, Statuses
  <2>2. RowsOK'
    BY <1>3 DEF QueueTypeOK, RowsOK, Claim, Statuses
  <2> QED
    BY <1>1, <1>3, <2>1, <2>2 DEF QueueTypeOK, EditsOK, PrintsOK, HandlersOK, Claim, ghostVars
<1>4. ASSUME NEW d \in Prints, Accept(r, d) PROVE QueueTypeOK'
  <2>0. request' = [request EXCEPT ![r].at = "linking", ![r].print = d] /\ request[r].at = "enqueuing"
    BY <1>4 DEF Accept
  <2>1. RequestsOK'
    <3>1. request \in [Requests -> [at : {"idle", "claiming", "enqueuing", "linking"},
                                   item : Items \cup {NoItem}, printer : Printers \cup {NoPrinter},
                                   previous : Statuses, print : Prints \cup {NoPrint}]]
      BY DEF QueueTypeOK, RequestsOK
    <3>2. /\ request'[r] = [at |-> "linking", item |-> request[r].item, printer |-> request[r].printer,
                            previous |-> request[r].previous, print |-> d]
          /\ \A s \in Requests : s # r => request'[s] = request[s]
          /\ DOMAIN request' = Requests
      BY <2>0, <3>1, ZenonT(30)
    <3> QED
      BY <2>0, <3>1, <3>2 DEF QueueTypeOK, RequestsOK
  <2>2. PrintsOK'
    BY <1>4 DEF QueueTypeOK, RequestsOK, PrintsOK, Accept
  <2> QED
    BY <1>1, <1>4, <2>1, <2>2 DEF QueueTypeOK, RowsOK, EditsOK, HandlersOK, Accept, ghostVars
<1>5. CASE Refuse(r)
  <2>1. RequestsOK'
    BY <1>5 DEF QueueTypeOK, RequestsOK, Refuse, NoRequest, Statuses
  <2>0. request[r].item \in Items /\ request[r].previous \in Statuses
    BY <1>5 DEF QueueTypeOK, RequestsOK, Refuse
  <2>2. RowsOK'
    BY <1>5, <2>0, SMTT(30) DEF QueueTypeOK, RowsOK, Refuse
  <2> QED
    BY <1>1, <1>5, <2>1, <2>2 DEF QueueTypeOK, EditsOK, PrintsOK, HandlersOK, Refuse, ghostVars
<1>6. CASE Link(r)
  <2>1. RequestsOK'
    BY <1>6 DEF QueueTypeOK, RequestsOK, Link, NoRequest, Statuses
  <2>2. RowsOK'
    BY <1>6 DEF QueueTypeOK, RequestsOK, RowsOK, Link, Statuses
  <2>3. upset' \subseteq Items
    BY <1>6 DEF QueueTypeOK, RequestsOK, Link
  <2> QED
    BY <1>1, <1>6, <2>1, <2>2, <2>3 DEF QueueTypeOK, EditsOK, PrintsOK, HandlersOK, Link
<1>7. CASE RequestFails(r)
  <2>1. RequestsOK'
    BY <1>7 DEF QueueTypeOK, RequestsOK, RequestFails, NoRequest, Statuses
  <2>2. RowsOK'
    BY <1>7 DEF QueueTypeOK, RequestsOK, RowsOK, RequestFails, Statuses
  <2>3. upset' \subseteq Items /\ disturbances' \in 0..MaxDisturbances
    BY <1>7 DEF QueueTypeOK, RequestsOK, RequestFails, Disturbs
  <2> QED
    BY <1>1, <1>7, <2>1, <2>2, <2>3 DEF QueueTypeOK, EditsOK, PrintsOK, HandlersOK, RequestFails
<1> QED
  BY <1>2, <1>3, <1>4, <1>5, <1>6, <1>7 DEF RequestStep

LEMMA TypesOfUsers ==
    ASSUME QueueTypeOK,
           \/ \E e \in Edits : WriteEdit(e) \/ \E i \in Items : ReadForEdit(e, i)
           \/ \E i \in Items : Remove(i)
    PROVE  QueueTypeOK'
<1>. USE QueueAssumption DEF QueueAssumption
<1>1. PlateTypeOK'
  BY DEF QueueTypeOK, PlateTypeOK, plateVars, ReadForEdit, WriteEdit, Remove
<1>2. ASSUME NEW e \in Edits, NEW i \in Items, ReadForEdit(e, i) PROVE QueueTypeOK'
  <2>1. EditsOK'
    BY <1>2 DEF QueueTypeOK, EditsOK, ReadForEdit, EditOf, Statuses
  <2>2. disturbances' \in 0..MaxDisturbances
    BY <1>2 DEF QueueTypeOK, ReadForEdit, Disturbs
  <2> QED
    BY <1>1, <1>2, <2>1, <2>2 DEF QueueTypeOK, RowsOK, RequestsOK, PrintsOK, HandlersOK, ReadForEdit, ghostVars
<1>3. ASSUME NEW e \in Edits, WriteEdit(e) PROVE QueueTypeOK'
  <2>1. EditsOK'
    BY <1>3 DEF QueueTypeOK, EditsOK, WriteEdit, NoEdit, Statuses
  <2>2. RowsOK'
    BY <1>3, SMTT(30) DEF QueueTypeOK, RowsOK, EditsOK, WriteEdit
  <2>3. raced' \subseteq Items
    BY <1>3 DEF QueueTypeOK, EditsOK, WriteEdit
  <2> QED
    BY <1>1, <1>3, <2>1, <2>2, <2>3 DEF QueueTypeOK, RequestsOK, PrintsOK, HandlersOK, WriteEdit
<1>4. ASSUME NEW i \in Items, Remove(i) PROVE QueueTypeOK'
  <2>1. RowsOK'
    BY <1>4 DEF QueueTypeOK, RowsOK, Remove, Statuses
  <2>2. disturbances' \in 0..MaxDisturbances
    BY <1>4 DEF QueueTypeOK, Remove, Disturbs
  <2> QED
    BY <1>1, <1>4, <2>1, <2>2 DEF QueueTypeOK, RequestsOK, EditsOK, PrintsOK, HandlersOK, Remove, ghostVars
<1> QED
  BY <1>2, <1>3, <1>4

LEMMA TypesOfPrints ==
    ASSUME QueueTypeOK, NEW d \in Prints, PrintStep(d)
    PROVE  QueueTypeOK'
<1>. USE QueueAssumption DEF QueueAssumption
<1>1. PrintsOK'
  <2>1. ASSUME NEW e \in Prints, TakeUpAgain(d, e) PROVE PrintsOK'
    <3>1. PICK state \in {"dispatching", "cancelled"} : print' = [print EXCEPT ![e] = [print[d] EXCEPT !.state = state]]
      BY <2>1 DEF TakeUpAgain
    <3>2. /\ print[d] \in [state : {"none", "dispatching", "failed", "lost", "printing"} \cup Ended,
                            job : Prints \cup {NoPrint}, item : Items \cup {NoItem},
                            printer : Printers \cup {NoPrinter}, success : BOOLEAN]
          /\ print[d].item \in Items /\ print[d].printer \in Printers
      BY <2>1 DEF TakeUpAgain, QueueTypeOK, PrintsOK
    <3> QED
      BY <3>1, <3>2 DEF QueueTypeOK, PrintsOK, Ended
  <2> QED
    BY <2>1 DEF QueueTypeOK, PrintsOK, PrintStep, Fail, Withdraw, TakeUp, Begin, End, Ended
<1>2. print[d].item \in Items /\ print[d].printer \in Printers
  BY DEF QueueTypeOK, PrintsOK, PrintStep, Fail, Withdraw, TakeUp, TakeUpAgain, Begin, End
<1>3. PlateTypeOK'
  <2>1. CASE End(d)
    BY <1>2, <2>1 DEF QueueTypeOK, PlateTypeOK, End, PlateFinished, BeginWrite, Writers
  <2> QED
    BY <2>1 DEF QueueTypeOK, PlateTypeOK, plateVars, PrintStep, Fail, Withdraw, TakeUp, TakeUpAgain, Begin
<1>4. /\ raced' \cup revisited' \cup mistaken' \cup upset' \subseteq Items /\ credited' \in [Items -> Nat]
      /\ disturbances' \in 0..MaxDisturbances
  BY <1>2 DEF QueueTypeOK, PrintStep, Fail, Withdraw, TakeUp, TakeUpAgain, Begin, End, ghostVars, Disturbs
<1>5. UNCHANGED <<row, request, edit, started, finished>>
  BY DEF PrintStep, Fail, Withdraw, TakeUp, TakeUpAgain, Begin, End
<1> QED
  BY <1>1, <1>3, <1>4, <1>5 DEF QueueTypeOK, RowsOK, RequestsOK, EditsOK, HandlersOK

\* What a lookup finds.
LEMMA LookupFinds ==
    ASSUME QueueTypeOK, NEW d \in Prints, NEW statuses, NEW h \in Lookup(d, statuses)
    PROVE  \/ h = Handled /\ ByJob(d, statuses) = {} /\ ByName(d, statuses) = {}
           \/ \E i \in ByJob(d, statuses) \cup ByName(d, statuses) :
                 h = [at |-> "writing", item |-> i, count |-> row[i].count]
BY DEF Lookup

LEMMA RowsAfterSuccess ==
    ASSUME RowsOK, NEW i \in Items, NEW n \in Nat
    PROVE  AfterSuccess(i, n) \in [Items -> [status : Statuses, printer : Printers \cup {NoPrinter},
                                           print : Prints \cup {NoPrint}, count : Nat]]
<1>. DEFINE m == IF n + 1 >= Quantity[i] THEN 0 ELSE n + 1
<1>1. m \in Nat
  OBVIOUS
<1>2. AfterSuccess(i, n) =
        IF n + 1 >= Quantity[i] /\ ~Pinned[i] THEN [row EXCEPT ![i].status = "gone"]
        ELSE [row EXCEPT ![i].status = "queued", ![i].print = NoPrint, ![i].count = m]
  BY DEF AfterSuccess
<1>. HIDE DEF m
<1>3. [row EXCEPT ![i].status = "gone"] \in [Items -> [status : Statuses, printer : Printers \cup {NoPrinter},
                                           print : Prints \cup {NoPrint}, count : Nat]]
  BY DEF RowsOK, Statuses
<1>4. [row EXCEPT ![i].status = "queued", ![i].print = NoPrint, ![i].count = m]
        \in [Items -> [status : Statuses, printer : Printers \cup {NoPrinter},
                      print : Prints \cup {NoPrint}, count : Nat]]
  <2>1. row[i] \in [status : Statuses, printer : Printers \cup {NoPrinter}, print : Prints \cup {NoPrint}, count : Nat]
    BY DEF RowsOK
  <2>2. [row[i] EXCEPT !.status = "queued", !.print = NoPrint, !.count = m]
          \in [status : Statuses, printer : Printers \cup {NoPrinter}, print : Prints \cup {NoPrint}, count : Nat]
    BY <1>1, <2>1 DEF Statuses
  <2>3. [row EXCEPT ![i].status = "queued", ![i].print = NoPrint, ![i].count = m]
          = [row EXCEPT ![i] = [row[i] EXCEPT !.status = "queued", !.print = NoPrint, !.count = m]]
    BY <2>1 DEF RowsOK
  <2> QED
    BY <2>2, <2>3 DEF RowsOK
<1> QED
  BY <1>2, <1>3, <1>4

LEMMA TypesOfHandlers ==
    ASSUME QueueTypeOK, NEW d \in Prints, HandlerStep(d)
    PROVE  QueueTypeOK'
<1>. USE QueueAssumption DEF QueueAssumption
<1>1. PlateTypeOK'
  BY DEF QueueTypeOK, PlateTypeOK, plateVars, HandlerStep, FindStarted, WriteStarted, StartedFails, FindFinished,
         WriteFinished, FinishedFails
<1>2. ASSUME NEW statuses, NEW h \in Lookup(d, statuses)
      PROVE  /\ h \in [at : {"none", "writing", "done"}, item : Items \cup {NoItem}, count : Nat]
             /\ h.at = "writing" => h.item \in Items
  BY <1>2, LookupFinds DEF Handled, ByJob, ByName, QueueTypeOK, RowsOK
<1>3. HandlersOK(started)'
  <2>1. CASE FindStarted(d)
    BY <1>2, <2>1 DEF QueueTypeOK, HandlersOK, FindStarted
  <2>2. CASE WriteStarted(d)
    BY <2>2 DEF QueueTypeOK, HandlersOK, WriteStarted, Handled
  <2>3. CASE StartedFails(d)
    BY <2>3 DEF QueueTypeOK, HandlersOK, StartedFails, Handled
  <2> QED
    BY <2>1, <2>2, <2>3 DEF QueueTypeOK, HandlersOK, HandlerStep, FindFinished, WriteFinished, FinishedFails
<1>4. HandlersOK(finished)'
  <2>1. CASE FindFinished(d)
    BY <1>2, <2>1 DEF QueueTypeOK, HandlersOK, FindFinished
  <2>2. CASE WriteFinished(d)
    BY <2>2 DEF QueueTypeOK, HandlersOK, WriteFinished, Handled
  <2>3. CASE FinishedFails(d)
    BY <2>3 DEF QueueTypeOK, HandlersOK, FinishedFails, Handled
  <2> QED
    BY <2>1, <2>2, <2>3 DEF QueueTypeOK, HandlersOK, HandlerStep, FindStarted, WriteStarted, StartedFails
<1>5. RowsOK'
  <2>1. CASE WriteStarted(d)
    <3>1. PICK n \in Prints \cup {NoPrint}, i \in Items : n = print[d].job /\ i = started[d].item
      BY <2>1 DEF QueueTypeOK, HandlersOK, PrintsOK, WriteStarted
    <3>2. row' = IF Exists(i) THEN [row EXCEPT ![i].status = "printing", ![i].print = n] ELSE row
      BY <2>1, <3>1 DEF WriteStarted
    <3>3. row[i] \in [status : Statuses, printer : Printers \cup {NoPrinter}, print : Prints \cup {NoPrint}, count : Nat]
      BY DEF QueueTypeOK, RowsOK
    <3>4. [row EXCEPT ![i].status = "printing", ![i].print = n]
            = [row EXCEPT ![i] = [row[i] EXCEPT !.status = "printing", !.print = n]]
      BY <3>3 DEF QueueTypeOK, RowsOK
    <3>5. [row[i] EXCEPT !.status = "printing", !.print = n]
            \in [status : Statuses, printer : Printers \cup {NoPrinter}, print : Prints \cup {NoPrint}, count : Nat]
      BY <3>3 DEF Statuses
    <3> QED
      BY <3>2, <3>4, <3>5 DEF QueueTypeOK, RowsOK
  <2>2. CASE WriteFinished(d)
    <3>. DEFINE i == finished[d].item
    <3>1. i \in Items /\ finished[d].count \in Nat
      BY <2>2 DEF WriteFinished, QueueTypeOK, HandlersOK
    <3>. HIDE DEF i
    <3>2. AfterSuccess(finished[d].item, finished[d].count) \in
            [Items -> [status : Statuses, printer : Printers \cup {NoPrinter},
                       print : Prints \cup {NoPrint}, count : Nat]]
      BY <3>1, RowsAfterSuccess DEF QueueTypeOK, i
    <3>3. row' \in {row, AfterSuccess(i, finished[d].count), [row EXCEPT ![i].status = "failed"]}
      BY <2>2 DEF WriteFinished, i
    <3>4. [row EXCEPT ![i].status = "failed"] \in
            [Items -> [status : Statuses, printer : Printers \cup {NoPrinter},
                       print : Prints \cup {NoPrint}, count : Nat]]
      BY <3>1 DEF QueueTypeOK, RowsOK, Statuses
    <3> QED
      BY <3>2, <3>3, <3>4 DEF QueueTypeOK, RowsOK, i
  <2> QED
    BY <2>1, <2>2 DEF QueueTypeOK, RowsOK, HandlerStep, FindStarted, StartedFails, FindFinished, FinishedFails
<1>6. raced' \cup revisited' \cup mistaken' \cup upset' \subseteq Items
  <2>1. ASSUME NEW statuses, NEW h \in Lookup(d, statuses) PROVE Mistakes(d, h) \subseteq Items
    BY <1>2, <2>1 DEF Mistakes
  <2>2. print[d].state # "none" => print[d].item \in Items
    BY DEF QueueTypeOK, PrintsOK
  <2>3. CASE FindStarted(d)
    BY <2>1, <2>3 DEF QueueTypeOK, FindStarted
  <2>4. CASE FindFinished(d)
    BY <2>1, <2>2, <2>4 DEF QueueTypeOK, FindFinished, Ended
  <2>5. CASE FinishedFails(d)
    BY <2>2, <2>5 DEF QueueTypeOK, HandlersOK, FinishedFails, Ended
  <2> QED
    BY <2>3, <2>4, <2>5 DEF QueueTypeOK, HandlersOK, HandlerStep, WriteStarted, StartedFails, WriteFinished, ghostVars
<1>7. credited' \in [Items -> Nat] /\ disturbances' \in 0..MaxDisturbances
  BY DEF QueueTypeOK, HandlerStep, FindStarted, WriteStarted, StartedFails, FindFinished, WriteFinished,
         FinishedFails, ghostVars, Disturbs
<1> QED
  BY <1>1, <1>3, <1>4, <1>5, <1>6, <1>7
  DEF QueueTypeOK, RequestsOK, EditsOK, PrintsOK, HandlerStep, FindStarted, WriteStarted, StartedFails,
      FindFinished, WriteFinished, FinishedFails

LEMMA TypesOfCrash ==
    ASSUME QueueTypeOK, Crash
    PROVE  QueueTypeOK'
<1>. USE QueueAssumption DEF QueueAssumption, Crash
<1>1. PlateTypeOK'
  BY PlateAssumption DEF QueueTypeOK, PlateTypeOK, PlateRestart, NoWrite, Written
<1>2. RequestsOK'
  BY DEF QueueTypeOK, RequestsOK, NoRequest, Statuses
<1>3. EditsOK'
  BY DEF QueueTypeOK, EditsOK, NoEdit, Statuses
<1>4. PrintsOK'
  <2>1. ASSUME NEW d \in Prints
        PROVE  /\ AfterCrash(print[d].state) \in {"none", "dispatching", "failed", "lost", "printing"} \cup Ended
               /\ AfterCrash(print[d].state) # "none" => print[d].state # "none"
    BY DEF QueueTypeOK, PrintsOK, AfterCrash, Ended
  <2> HIDE DEF Crash
  <2>2. print' = [d \in Prints |-> [print[d] EXCEPT !.state = AfterCrash(print[d].state)]]
    BY DEF Crash, QueueTypeOK, PrintsOK
  <2>3. ASSUME NEW d \in Prints
        PROVE  /\ print'[d] \in [state : {"none", "dispatching", "failed", "lost", "printing"} \cup Ended,
                                 job : Prints \cup {NoPrint}, item : Items \cup {NoItem},
                                 printer : Printers \cup {NoPrinter}, success : BOOLEAN]
               /\ print'[d].state # "none" => print'[d].item \in Items /\ print'[d].printer \in Printers
    <3>1. print'[d] = [print[d] EXCEPT !.state = AfterCrash(print[d].state)]
      BY <2>2
    <3> QED
      BY <2>1, <3>1 DEF QueueTypeOK, PrintsOK
  <2> QED
    BY <2>2, <2>3 DEF PrintsOK
<1>5. HandlersOK(started)' /\ HandlersOK(finished)'
  BY DEF QueueTypeOK, HandlersOK, NoHandler, Handled
<1>6. disturbances' \in 0..MaxDisturbances /\ upset' \subseteq Items
  BY DEF QueueTypeOK, Disturbs
<1> QED
  BY <1>1, <1>2, <1>3, <1>4, <1>5, <1>6 DEF QueueTypeOK, RowsOK

-----------------------------------------------------------------------------
(* What the rows, requests, prints and handlers say of one another *)

AtRest == {"queued", "held", "failed"}

\* A print whose end has not been handled, and a request that holds a claim.
IsOpen(d, i) ==
    /\ print[d].item = i /\ print[d].state \notin {"none", "lost"}
    /\ finished[d].at # "done"
IsClaimer(r, i) == request[r].item = i /\ request[r].at = "enqueuing"

\* The job an attempt is of had a first attempt.
JobInv ==
    \A d \in Prints : print[d].state # "none" => print[d].job \in Prints /\ print[print[d].job].state # "none"

LinkInv ==
    /\ \A d \in Prints :
        /\ print[d].state = "none" => print[d].item = NoItem
        /\ finished[d].at # "none" => print[d].state \in Ended
        /\ started[d].at # "none" => print[d].state \in {"printing", "over"}
        /\ finished[d].at = "writing" => \/ finished[d].item = print[d].item
                                         \/ finished[d].item \in mistaken /\ print[d].item \in upset
        /\ started[d].at = "writing" => started[d].item = print[d].item \/ started[d].item \in mistaken
    /\ \A r \in Requests :
        /\ request[r].at = "idle" => request[r].item = NoItem
        /\ request[r].at \in {"claiming", "enqueuing"} => request[r].previous \in Dispatchable
        /\ request[r].at = "linking" => /\ print[request[r].print].item = request[r].item
                                        /\ print[request[r].print].printer = request[r].printer
    /\ \A e \in Edits : edit[e].at = "writing" => edit[e].seen \in AtRest /\ edit[e].status \in AtRest

\* An item at rest is claimed by nobody and has no open print, one claimer and
\* one open print exclude every other one, and each other.
ClaimInv ==
    \A i \in Regular :
        /\ row[i].status \in AtRest => /\ \A r \in Requests : ~IsClaimer(r, i)
                                       /\ \A d \in Prints : ~IsOpen(d, i)
        /\ \A r, s \in Requests : IsClaimer(r, i) /\ IsClaimer(s, i) => r = s
        /\ \A d, e \in Prints : IsOpen(d, i) /\ IsOpen(e, i) => d = e
        /\ \A r \in Requests, d \in Prints : ~(IsClaimer(r, i) /\ IsOpen(d, i))

Counted(i) == {d \in Prints : print[d].item = i /\ print[d].success /\ finished[d].at = "done"}

\* A handler that is about to write counts on what the row has.
CountInv ==
    \A i \in Regular :
        /\ Exists(i) => /\ \A d \in Prints : finished[d].at = "writing" /\ finished[d].item = i
                                                => finished[d].count = row[i].count
                        /\ row[i].count = credited[i] % Quantity[i]
                        /\ Pinned[i] \/ credited[i] < Quantity[i]
        /\ credited[i] <= Cardinality(Counted(i))

\* A request that is about to write the linkage of a print.
IsLinker(r, d, i) == request[r].at = "linking" /\ request[r].print = d /\ request[r].item = i

\* Where nothing has happened to an item, somebody attends to it while it is under
\* way, and an open print of it is on the printer its row names, or about to be.
InHand(i) ==
    /\ row[i].status \in {"dispatching", "printing"} => Attended(i)
    /\ \A r \in Requests : IsClaimer(r, i) => row[i].status = "dispatching"
    /\ \A d \in Prints : print[d].item = i => print[d].state \notin {"failed", "lost"}
    /\ \A d \in Prints : IsOpen(d, i) => \/ row[i].printer = print[d].printer
                                         \/ \E r \in Requests : IsLinker(r, d, i)

AttendInv == \A i \in Regular \ upset : Exists(i) => InHand(i)

LEMMA LinksInit == QueueInit => LinkInv /\ JobInv
BY QueueAssumption DEF QueueInit, LinkInv, JobInv, NoRequest, NoEdit, NoHandler

LEMMA LinksOfRequests ==
    ASSUME QueueTypeOK, LinkInv, NEW r \in Requests,
           RequestStep(r) \/ \E i \in Items, p \in Printers : ReadForDispatch(r, i, p)
    PROVE  LinkInv'
<1>. USE QueueAssumption DEF QueueAssumption, QueueTypeOK
<1>1. ASSUME NEW i \in Items, NEW p \in Printers, ReadForDispatch(r, i, p) PROVE LinkInv'
  BY <1>1 DEF LinkInv, RequestsOK, ReadForDispatch, ghostVars
<1>2. CASE Claim(r)
  <2>2. /\ \A s \in Requests : s # r => request'[s] = request[s]
        /\ \/ request'[r].at = "idle" /\ request'[r].item = NoItem
           \/ request'[r].at = "enqueuing" /\ request'[r].previous = request[r].previous
    BY <1>2 DEF Claim, RequestsOK, NoRequest
  <2>3. request[r].at = "claiming" /\ UNCHANGED <<edit, print, started, finished, mistaken, upset>>
    BY <1>2 DEF Claim, ghostVars
  <2> QED
    BY <2>2, <2>3 DEF LinkInv
<1>3. ASSUME NEW d \in Prints, Accept(r, d) PROVE LinkInv'
  <2>1. print[d].state = "none" /\ request[r].at = "enqueuing" /\ request[r].item \in Items
    BY <1>3 DEF Accept, NextPrint, RequestsOK
  <2>2. /\ \A e \in Prints : e # d => print'[e] = print[e]
        /\ print'[d] = [state |-> "dispatching", job |-> d, item |-> request[r].item, printer |-> request[r].printer,
                        success |-> FALSE]
    BY <1>3 DEF Accept, PrintsOK
  <2>3. /\ \A s \in Requests : s # r => request'[s] = request[s]
        /\ request'[r].at = "linking" /\ request'[r].print = d
        /\ request'[r].item = request[r].item /\ request'[r].printer = request[r].printer
    BY <1>3 DEF Accept, RequestsOK
  <2>5. \A s \in Requests : request[s].at = "linking" => request[s].print # d
    BY <2>1 DEF LinkInv, RequestsOK
  <2>6. UNCHANGED <<row, edit, started, finished, mistaken, upset>>
    BY <1>3 DEF Accept, ghostVars
  <2> QED
    <3>2. \A s \in Requests : request'[s].at = "linking" =>
            /\ print'[request'[s].print].item = request'[s].item
            /\ print'[request'[s].print].printer = request'[s].printer
      <4>1. print'[d].item = request[r].item /\ print'[d].printer = request[r].printer
        BY <2>2
      <4> HIDE DEF QueueTypeOK
      <4> QED
        <5>1. ASSUME NEW s \in Requests, s # r, request[s].at = "linking"
              PROVE  print'[request[s].print] = print[request[s].print]
          BY <2>2, <2>5, <5>1 DEF RequestsOK, QueueTypeOK
        <5> QED
          BY <2>3, <4>1, <5>1 DEF LinkInv
    <3>3. \A e \in Prints : print'[e].state = "none" => print'[e].item = NoItem
      BY <2>2 DEF LinkInv
    <3>4. finished[d].at = "none" /\ started[d].at = "none"
      BY <2>1 DEF LinkInv, HandlersOK, Ended
    <3> QED
      BY <2>2, <2>3, <2>6, <3>2, <3>3, <3>4 DEF LinkInv
<1>4. CASE Refuse(r)
  BY <1>4 DEF LinkInv, RequestsOK, Refuse, NoRequest, ghostVars
<1>5. CASE Link(r) \/ RequestFails(r)
  <2>1. /\ \A s \in Requests : s # r => request'[s] = request[s]
        /\ request'[r] = NoRequest
        /\ UNCHANGED <<edit, print, started, finished, mistaken>> /\ upset \subseteq upset'
    BY <1>5 DEF Link, RequestFails, RequestsOK
  <2> QED
    BY <2>1 DEF LinkInv, NoRequest
<1> QED
  BY <1>1, <1>2, <1>3, <1>4, <1>5 DEF RequestStep

LEMMA LinksOfUsers ==
    ASSUME QueueTypeOK, LinkInv,
           \/ \E e \in Edits : WriteEdit(e) \/ \E i \in Items : ReadForEdit(e, i)
           \/ \E i \in Items : Remove(i)
    PROVE  LinkInv'
<1>. USE QueueAssumption DEF QueueAssumption, QueueTypeOK
<1>1. UNCHANGED <<request, print, started, finished, mistaken, upset>>
  BY DEF WriteEdit, ReadForEdit, Remove, ghostVars
<1>2. \A e \in Edits : edit'[e].at = "writing" => edit'[e].seen \in AtRest /\ edit'[e].status \in AtRest
  <2>1. ASSUME NEW e \in Edits, NEW i \in Items, ReadForEdit(e, i)
        PROVE  \A f \in Edits : edit'[f] = edit[f] \/ (edit'[f].seen \in AtRest /\ edit'[f].status \in AtRest)
    <3>1. PICK o \in EditOf :
            edit' = [edit EXCEPT ![e] = [at |-> "writing", item |-> i, seen |-> o.from, status |-> o.to]]
      BY <2>1 DEF ReadForEdit
    <3>2. o.from \in AtRest /\ o.to \in AtRest
      BY DEF EditOf, AtRest
    <3> QED
      BY <3>1, <3>2 DEF EditsOK
  <2>2. ASSUME NEW e \in Edits, WriteEdit(e)
        PROVE  \A f \in Edits : edit'[f] = edit[f] \/ edit'[f].at = "idle"
    BY <2>2 DEF EditsOK, WriteEdit, NoEdit
  <2>3. ASSUME NEW i \in Items, Remove(i) PROVE edit' = edit
    BY <2>3 DEF Remove
  <2> QED
    BY <2>1, <2>2, <2>3, ZenonT(30) DEF LinkInv
<1> QED
  BY <1>1, <1>2 DEF LinkInv

\* Where a step of a print takes it.
LEMMA PrintMoves ==
    ASSUME QueueTypeOK, NEW d \in Prints, PrintStep(d)
    PROVE  /\ UNCHANGED <<row, request, edit, started, finished, credited, raced, mistaken>>
           /\ upset \subseteq upset' /\ revisited \subseteq revisited'
           /\ \/ /\ \A e \in Prints : e # d => print'[e] = print[e]
                 /\ print'[d].item = print[d].item /\ print'[d].printer = print[d].printer
                 /\ print'[d].job = print[d].job
                 /\ \/ print[d].state = "dispatching" /\ print'[d].state \in {"refused", "cancelled", "printing"}
                    \/ print[d].state = "dispatching" /\ print'[d].state = "failed" /\ print[d].item \in upset'
                    \/ print[d].state = "failed" /\ print'[d].state \in {"dispatching", "cancelled"}
                    \/ print[d].state = "printing" /\ print'[d].state = "over"
              \/ \E f \in Prints :
                    /\ print[f].state = "none" /\ print'[f].state \in {"dispatching", "cancelled"}
                    /\ \A e \in Prints : e # f => print'[e] = print[e]
                    /\ print'[f].item = print[d].item /\ print'[f].printer = print[d].printer
                    /\ print'[f].job = print[d].job
                    /\ print[d].state = "refused" /\ print[d].item \in revisited'
<1>1. ASSUME NEW f \in Prints, TakeUpAgain(d, f)
      PROVE  /\ print[f].state = "none" /\ print'[f].state \in {"dispatching", "cancelled"}
             /\ \A e \in Prints : e # f => print'[e] = print[e]
             /\ print'[f].item = print[d].item /\ print'[f].printer = print[d].printer
             /\ print'[f].job = print[d].job
             /\ print[d].state = "refused" /\ print[d].item \in revisited'
  BY <1>1 DEF TakeUpAgain, NextPrint, QueueTypeOK, PrintsOK
<1>2. UNCHANGED <<row, request, edit, started, finished, credited, raced, mistaken>>
  BY DEF PrintStep, Fail, Withdraw, TakeUp, TakeUpAgain, Begin, End, ghostVars
<1>3. upset \subseteq upset' /\ revisited \subseteq revisited'
  BY DEF PrintStep, Fail, Withdraw, TakeUp, TakeUpAgain, Begin, End, ghostVars
<1>4. CASE Fail(d) \/ Withdraw(d) \/ TakeUp(d) \/ Begin(d) \/ End(d)
  <2>1. PICK e \in {"failed", "refused", "cancelled", "dispatching", "printing", "over"}, b \in BOOLEAN :
           print' = [print EXCEPT ![d].state = e, ![d].success = b]
    BY <1>4 DEF Fail, Withdraw, TakeUp, Begin, End, QueueTypeOK, PrintsOK
  <2>2. /\ \A f \in Prints : f # d => print'[f] = print[f]
        /\ print'[d].item = print[d].item /\ print'[d].printer = print[d].printer
        /\ print'[d].job = print[d].job
    BY <2>1 DEF QueueTypeOK, PrintsOK
  <2>3. \/ print[d].state = "dispatching" /\ print'[d].state \in {"refused", "cancelled", "printing"}
        \/ print[d].state = "dispatching" /\ print'[d].state = "failed" /\ print[d].item \in upset'
        \/ print[d].state = "failed" /\ print'[d].state \in {"dispatching", "cancelled"}
        \/ print[d].state = "printing" /\ print'[d].state = "over"
    BY <1>4 DEF Fail, Withdraw, TakeUp, Begin, End, QueueTypeOK, PrintsOK
  <2> QED
    BY <1>2, <1>3, <2>2, <2>3
<1> QED
  BY <1>1, <1>2, <1>3, <1>4 DEF PrintStep

\* Prints that move on, and stay whose they are, undo no link.
LEMMA LinksOfMoves ==
    ASSUME QueueTypeOK, LinkInv, UNCHANGED <<request, edit, started, finished, mistaken>>, upset \subseteq upset',
           \A e \in Prints :
             /\ print'[e].item = print[e].item /\ print'[e].printer = print[e].printer
             /\ print'[e].state = "none" => print[e].state = "none"
             /\ finished[e].at # "none" => print'[e].state \in Ended
             /\ started[e].at # "none" => print'[e].state \in {"printing", "over"}
    PROVE  LinkInv'
<1>1. \A r \in Requests : request[r].at = "linking" => request[r].print \in Prints
  BY DEF QueueTypeOK, RequestsOK
<1>2. \A d \in Prints :
        /\ print'[d].state = "none" => print'[d].item = NoItem
        /\ finished'[d].at # "none" => print'[d].state \in Ended
        /\ started'[d].at # "none" => print'[d].state \in {"printing", "over"}
        /\ finished'[d].at = "writing" => \/ finished'[d].item = print'[d].item
                                          \/ finished'[d].item \in mistaken' /\ print'[d].item \in upset'
        /\ started'[d].at = "writing" => started'[d].item = print'[d].item \/ started'[d].item \in mistaken'
  BY DEF LinkInv
<1>3. \A r \in Requests :
        request'[r].at = "linking" => /\ print'[request'[r].print].item = request'[r].item
                                      /\ print'[request'[r].print].printer = request'[r].printer
  BY <1>1 DEF LinkInv
<1> QED
  BY <1>2, <1>3 DEF LinkInv

LEMMA LinksOfPrints ==
    ASSUME QueueTypeOK, LinkInv, NEW d \in Prints, PrintStep(d)
    PROVE  LinkInv'
<1>. USE QueueAssumption DEF QueueAssumption, QueueTypeOK
<1>1. UNCHANGED <<request, edit, started, finished, mistaken>> /\ upset \subseteq upset'
  BY PrintMoves
<1>2. CASE /\ \A e \in Prints : e # d => print'[e] = print[e]
           /\ print'[d].item = print[d].item /\ print'[d].printer = print[d].printer
           /\ \/ print[d].state = "dispatching" /\ print'[d].state \in {"refused", "cancelled", "printing", "failed"}
              \/ print[d].state = "failed" /\ print'[d].state \in {"dispatching", "cancelled"}
              \/ print[d].state = "printing" /\ print'[d].state = "over"
  <2>1. finished[d].at = "none" /\ (started[d].at # "none" => print[d].state = "printing")
    BY <1>2 DEF LinkInv, HandlersOK, Ended
  <2>2. \A e \in Prints : print'[e].item = print[e].item /\ print'[e].printer = print[e].printer
    BY <1>2
  <2>3. \A e \in Prints :
          /\ print'[e].state = "none" => print[e].state = "none"
          /\ finished[e].at # "none" => print'[e].state \in Ended
          /\ started[e].at # "none" => print'[e].state \in {"printing", "over"}
    BY <1>2, <2>1 DEF LinkInv
  <2> QED
    BY <1>1, <2>2, <2>3, LinksOfMoves
<1>3. ASSUME NEW f \in Prints, print[f].state = "none", print'[f].state # "none",
             \A e \in Prints : e # f => print'[e] = print[e]
      PROVE  LinkInv'
  <2>1. /\ finished[f].at = "none" /\ started[f].at = "none"
        /\ print[f].item = NoItem
    BY <1>3 DEF LinkInv, HandlersOK, Ended
  <2>2. \A r \in Requests : request[r].at = "linking" => request[r].print # f
    BY <2>1 DEF LinkInv, RequestsOK
  <2>3. /\ \A e \in Prints : print'[e].state = "none" => print'[e].item = NoItem
        /\ \A e \in Prints : finished[e].at # "none" \/ started[e].at # "none" => print'[e] = print[e]
        /\ \A r \in Requests : request[r].at = "linking" => print'[request[r].print] = print[request[r].print]
    BY <1>3, <2>1, <2>2 DEF LinkInv, RequestsOK
  <2> QED
    BY <1>1, <2>3 DEF LinkInv
<1> QED
  BY <1>2, <1>3, PrintMoves

\* A handler finds the item its print was made for, or mistakes another one for it.
LEMMA LookupFindsOwn ==
    ASSUME QueueTypeOK, NEW d \in Prints, print[d].state # "none",
           NEW statuses, NEW h \in Lookup(d, statuses)
    PROVE  LET i == print[d].item IN
           \/ h = Handled /\ ~(row[i].printer = print[d].printer /\ row[i].status \in statuses)
           \/ /\ h.at = "writing" /\ h.item \in Items /\ h.count = row[h.item].count
              /\ h.item = i \/ Mistakes(d, h) = {h.item}
<1>1. print[d].item \in Items
  BY DEF QueueTypeOK, PrintsOK
<1>2. CASE h = Handled /\ ByJob(d, statuses) = {} /\ ByName(d, statuses) = {}
  BY <1>1, <1>2 DEF ByName
<1>3. CASE \E i \in ByJob(d, statuses) \cup ByName(d, statuses) :
             h = [at |-> "writing", item |-> i, count |-> row[i].count]
  BY <1>3 DEF ByJob, ByName, Mistakes
<1> QED
  BY <1>2, <1>3, LookupFinds

LEMMA LinksOfHandlers ==
    ASSUME QueueTypeOK, LinkInv, NEW d \in Prints, HandlerStep(d)
    PROVE  LinkInv'
<1>. USE QueueAssumption DEF QueueAssumption, QueueTypeOK
<1>1. CASE FindStarted(d)
  <2>1. PICK h \in Lookup(d, {"dispatching"}) :
           started' = [started EXCEPT ![d] = h] /\ mistaken' = mistaken \cup Mistakes(d, h)
    BY <1>1 DEF FindStarted
  <2>2. h.at = "writing" => h.item = print[d].item \/ h.item \in mistaken'
    BY <1>1, <2>1, LookupFindsOwn DEF FindStarted, Handled
  <2> QED
    BY <1>1, <2>1, <2>2 DEF LinkInv, HandlersOK, FindStarted
<1>2. CASE WriteStarted(d) \/ StartedFails(d)
  <2>1. /\ started'[d].at = "done" /\ \A e \in Prints : e # d => started'[e] = started[e]
        /\ print[d].state \in {"printing", "over"}
        /\ UNCHANGED <<request, edit, print, finished, mistaken>> /\ upset \subseteq upset'
    BY <1>2 DEF WriteStarted, StartedFails, HandlersOK, Handled, LinkInv, ghostVars
  <2> QED
    BY <2>1 DEF LinkInv
<1>3. CASE FindFinished(d)
  <2>1. PICK h \in Lookup(d, {"dispatching", "printing"}) :
           /\ finished' = [finished EXCEPT ![d] = h] /\ mistaken' = mistaken \cup Mistakes(d, h)
           /\ upset' = IF Mistakes(d, h) # {} THEN upset \cup {print[d].item} ELSE upset
    BY <1>3 DEF FindFinished
  <2>2. h.at = "writing" => h.item = print[d].item \/ (h.item \in mistaken' /\ print[d].item \in upset')
    <3>1. \/ h.at # "writing"
          \/ h.item = print[d].item \/ Mistakes(d, h) = {h.item}
      BY <1>3, LookupFindsOwn DEF FindFinished, Handled, Ended
    <3> QED
      BY <2>1, <3>1
  <2> QED
    BY <1>3, <2>1, <2>2 DEF LinkInv, HandlersOK, FindFinished
<1>4. CASE WriteFinished(d) \/ FinishedFails(d)
  <2>1. /\ finished'[d].at = "done" /\ \A e \in Prints : e # d => finished'[e] = finished[e]
        /\ print[d].state \in Ended
        /\ UNCHANGED <<request, edit, print, started, mistaken>> /\ upset \subseteq upset'
    BY <1>4 DEF WriteFinished, FinishedFails, HandlersOK, Handled, LinkInv
  <2> QED
    BY <2>1 DEF LinkInv
<1> QED
  BY <1>1, <1>2, <1>3, <1>4 DEF HandlerStep

\* What a crash makes of a print.
LEMMA PrintsOfCrash ==
    ASSUME QueueTypeOK, Crash, NEW d \in Prints
    PROVE  /\ print'[d].item = print[d].item /\ print'[d].printer = print[d].printer
           /\ print'[d].job = print[d].job /\ print'[d].success = print[d].success
           /\ print'[d].state = AfterCrash(print[d].state)
BY DEF Crash, QueueTypeOK, PrintsOK

LEMMA LinksOfCrash ==
    ASSUME QueueTypeOK, LinkInv, Crash
    PROVE  LinkInv'
<1>. USE QueueAssumption DEF QueueAssumption, QueueTypeOK
<1>1. \A d \in Prints : /\ print'[d].item = print[d].item /\ print'[d].printer = print[d].printer
                       /\ print'[d].state = AfterCrash(print[d].state)
  BY PrintsOfCrash
<1>2. \A d \in Prints :
        /\ print'[d].state = "none" => print[d].state = "none"
        /\ print[d].state \in Ended => print'[d].state \in Ended
        /\ print[d].state \in {"printing", "over"} => print'[d].state \in {"printing", "over"}
  BY <1>1 DEF AfterCrash, Ended
<1> QED
  BY <1>1, <1>2 DEF LinkInv, Crash, NoRequest, NoEdit, NoHandler, Handled

LEMMA JobsKept ==
    ASSUME QueueTypeOK, JobInv, [QueueNext]_allVars
    PROVE  JobInv'
<1>1. ASSUME NEW r \in Requests, NEW d \in Prints, Accept(r, d) PROVE JobInv'
  <2>1. /\ \A e \in Prints : e # d => print'[e] = print[e]
        /\ print'[d].state = "dispatching" /\ print'[d].job = d
    BY <1>1 DEF Accept, QueueTypeOK, PrintsOK
  <2> QED
    BY <2>1 DEF JobInv
<1>2. ASSUME NEW d \in Prints, PrintStep(d) PROVE JobInv'
  <2>1. \A e \in Prints : /\ print[e].state # "none" => print'[e].state # "none" /\ print'[e].job = print[e].job
                          /\ print[e].state = "none" /\ print'[e].state # "none"
                               => print[d].state # "none" /\ print'[e].job = print[d].job
    BY <1>2, PrintMoves DEF QueueTypeOK, PrintsOK
  <2> QED
    BY <2>1 DEF JobInv
<1>3. CASE Crash
  <2>1. \A d \in Prints : print'[d].job = print[d].job /\ (print'[d].state = "none" <=> print[d].state = "none")
    BY <1>3, PrintsOfCrash DEF AfterCrash
  <2> QED
    BY <2>1 DEF JobInv
<1>4. CASE print' = print
  BY <1>4 DEF JobInv
<1> QED
  BY <1>1, <1>2, <1>3, <1>4, StepsByGroup, PlateStepsApart
  DEF RequestStep, ReadForDispatch, Claim, Refuse, Link, RequestFails, WriteEdit, ReadForEdit, Remove, HandlerStep,
      FindStarted, WriteStarted, StartedFails, FindFinished, WriteFinished, FinishedFails, allVars, queueVars

-----------------------------------------------------------------------------
(* One claim or one print at a time *)

LEMMA ClaimsInit == QueueInit => ClaimInv
BY QueueAssumption DEF QueueInit, ClaimInv, IsOpen, IsClaimer, NoRequest, QueueAssumption

\* A step that opens no print, takes no claim and lets no item come to rest.
LEMMA ClaimsKept ==
    ASSUME ClaimInv, Regular' \subseteq Regular,
           \A i \in Regular' :
               /\ row'[i].status \in AtRest => row[i].status \in AtRest
               /\ \A d \in Prints : IsOpen(d, i)' => IsOpen(d, i)
               /\ \A r \in Requests : IsClaimer(r, i)' => IsClaimer(r, i)
    PROVE  ClaimInv'
<1>1. ASSUME NEW i \in Regular'
      PROVE  /\ row'[i].status \in AtRest => /\ \A r \in Requests : ~IsClaimer(r, i)'
                                             /\ \A d \in Prints : ~IsOpen(d, i)'
             /\ \A r, s \in Requests : IsClaimer(r, i)' /\ IsClaimer(s, i)' => r = s
             /\ \A d, e \in Prints : IsOpen(d, i)' /\ IsOpen(e, i)' => d = e
             /\ \A r \in Requests, d \in Prints : ~(IsClaimer(r, i)' /\ IsOpen(d, i)')
  <2>1. i \in Regular
    BY <1>1
  <2>2. i \in Items
    BY <2>1 DEF Regular
  <2> QED
    BY <1>1, <2>1, <2>2 DEF ClaimInv
<1> QED
  BY <1>1 DEF ClaimInv

LEMMA ClaimsOfRequests ==
    ASSUME QueueTypeOK, LinkInv, ClaimInv, NEW r \in Requests,
           RequestStep(r) \/ \E i \in Items, p \in Printers : ReadForDispatch(r, i, p)
    PROVE  ClaimInv'
<1>. USE QueueAssumption DEF QueueAssumption, QueueTypeOK
<1>0. Regular' = Regular
  BY DEF RequestStep, ReadForDispatch, Claim, Accept, Refuse, Link, RequestFails, Regular, ghostVars
<1>1. ASSUME NEW i \in Items, NEW p \in Printers, ReadForDispatch(r, i, p) PROVE ClaimInv'
  <2>1. UNCHANGED <<row, print, finished>>
    BY <1>1 DEF ReadForDispatch
  <2>2. \A j \in Items, s \in Requests : IsClaimer(s, j)' => IsClaimer(s, j)
    BY <1>1 DEF ReadForDispatch, RequestsOK, IsClaimer
  <2> QED
    BY <1>0, <2>1, <2>2, ClaimsKept DEF IsOpen, Regular
<1>2. CASE Claim(r) /\ row[request[r].item].status = request[r].previous
  <2>. DEFINE i == request[r].item
  <2>1. row[i].status \in AtRest /\ i \in Items
    BY <1>2 DEF Claim, LinkInv, RequestsOK, AtRest, Dispatchable
  <2>2. \A j \in Items : row'[j].status \in AtRest => j # i /\ row[j].status \in AtRest
    <3>1. /\ row'[i].status = "dispatching"
          /\ \A j \in Items : j # i => row'[j] = row[j]
      BY <1>2, <2>1 DEF Claim, RowsOK
    <3> QED
      BY <3>1 DEF AtRest
  <2>3. \A j \in Items, s \in Requests : IsClaimer(s, j)' => IsClaimer(s, j) \/ (s = r /\ j = i)
    BY <1>2 DEF Claim, RequestsOK, IsClaimer
  <2>4. \A j \in Items, d \in Prints : IsOpen(d, j)' => IsOpen(d, j)
    BY <1>2 DEF Claim, IsOpen
  <2>5. PICK k \in Items : k = i
    BY <2>1
  <2>. HIDE DEF i
  <2>6. ASSUME NEW j \in Regular
        PROVE  /\ row'[j].status \in AtRest => /\ \A s \in Requests : ~IsClaimer(s, j)'
                                               /\ \A d \in Prints : ~IsOpen(d, j)'
               /\ \A s, t \in Requests : IsClaimer(s, j)' /\ IsClaimer(t, j)' => s = t
               /\ \A d, e \in Prints : IsOpen(d, j)' /\ IsOpen(e, j)' => d = e
               /\ \A s \in Requests, d \in Prints : ~(IsClaimer(s, j)' /\ IsOpen(d, j)')
    <3>0. j \in Items
      BY <2>6 DEF Regular
    <3>1. CASE j = k
      <4>1. (\A s \in Requests : ~IsClaimer(s, j)) /\ (\A d \in Prints : ~IsOpen(d, j))
        BY <2>1, <2>5, <2>6, <3>1 DEF ClaimInv
      <4>2. row'[j].status \notin AtRest
        BY <2>2, <2>5, <3>1
      <4> QED
        BY <2>3, <2>4, <3>0, <4>1, <4>2
    <3>2. CASE j # k
      <4>1. /\ row'[j].status \in AtRest => row[j].status \in AtRest
            /\ \A s \in Requests : IsClaimer(s, j)' => IsClaimer(s, j)
            /\ \A d \in Prints : IsOpen(d, j)' => IsOpen(d, j)
        BY <2>2, <2>3, <2>4, <2>5, <3>0, <3>2
      <4> QED
        BY <2>6, <4>1 DEF ClaimInv
    <3> QED
      BY <3>1, <3>2
  <2> QED
    BY <1>0, <2>6 DEF ClaimInv
<1>3. CASE Claim(r) /\ row[request[r].item].status # request[r].previous
  <2>1. UNCHANGED <<row, print, finished>>
    BY <1>3 DEF Claim
  <2>2. \A j \in Items, s \in Requests : IsClaimer(s, j)' => IsClaimer(s, j)
    BY <1>3 DEF Claim, RequestsOK, IsClaimer, NoRequest
  <2> QED
    BY <1>0, <2>1, <2>2, ClaimsKept DEF IsOpen, Regular
<1>4. ASSUME NEW d \in Prints, Accept(r, d) PROVE ClaimInv'
  <2>. DEFINE i == request[r].item
  <2>1. IsClaimer(r, i) /\ i \in Items
    BY <1>4 DEF Accept, RequestsOK, IsClaimer
  <2>2. \A j \in Items, s \in Requests : IsClaimer(s, j)' => IsClaimer(s, j) /\ s # r
    BY <1>4 DEF Accept, RequestsOK, IsClaimer
  <2>3. \A j \in Items, e \in Prints : IsOpen(e, j)' => IsOpen(e, j) \/ (e = d /\ j = i)
    <3>1. /\ \A e \in Prints : e # d => print'[e] = print[e]
          /\ print'[d] = [state |-> "dispatching", job |-> d, item |-> i, printer |-> request[r].printer,
                          success |-> FALSE]
      BY <1>4 DEF Accept, PrintsOK
    <3>2. print'[d].item = i /\ finished' = finished
      BY <1>4, <3>1 DEF Accept
    <3> QED
      BY <3>1, <3>2 DEF IsOpen
  <2>4. UNCHANGED row
    BY <1>4 DEF Accept
  <2>. HIDE DEF i
  <2> QED
    BY <1>0, <2>1, <2>2, <2>3, <2>4 DEF ClaimInv, Regular
<1>5. CASE Refuse(r)
  <2>. DEFINE i == request[r].item
  <2>1. IsClaimer(r, i) /\ i \in Items
    BY <1>5 DEF Refuse, RequestsOK, IsClaimer
  <2>2. \A j \in Items, s \in Requests : IsClaimer(s, j)' => IsClaimer(s, j) /\ s # r
    BY <1>5 DEF Refuse, RequestsOK, IsClaimer, NoRequest
  <2>3. \A j \in Items, e \in Prints : IsOpen(e, j)' => IsOpen(e, j)
    BY <1>5 DEF Refuse, IsOpen
  <2>4. \A j \in Items : j # i => row'[j].status = row[j].status
    BY <1>5 DEF Refuse, RowsOK
  <2>. HIDE DEF i
  <2> QED
    BY <1>0, <2>1, <2>2, <2>3, <2>4 DEF ClaimInv, Regular
<1>6. CASE Link(r) \/ RequestFails(r)
  <2>1. /\ \A j \in Items : row'[j].status \in AtRest => row[j].status \in AtRest
        /\ UNCHANGED <<print, finished>>
    <3>1. CASE Link(r)
      BY <3>1 DEF Link, RowsOK, AtRest
    <3>2. CASE RequestFails(r)
      BY <3>2 DEF RequestFails, RowsOK, AtRest
    <3> QED
      BY <1>6, <3>1, <3>2
  <2>2. \A j \in Items, s \in Requests : IsClaimer(s, j)' => IsClaimer(s, j)
    BY <1>6 DEF Link, RequestFails, RequestsOK, IsClaimer, NoRequest
  <2> QED
    BY <1>0, <2>1, <2>2, ClaimsKept DEF IsOpen, Regular
<1> QED
  BY <1>1, <1>2, <1>3, <1>4, <1>5, <1>6 DEF RequestStep

LEMMA ClaimsOfUsers ==
    ASSUME QueueTypeOK, LinkInv, ClaimInv,
           \/ \E e \in Edits : WriteEdit(e) \/ \E i \in Items : ReadForEdit(e, i)
           \/ \E i \in Items : Remove(i)
    PROVE  ClaimInv'
<1>. USE QueueAssumption DEF QueueAssumption, QueueTypeOK
<1>1. UNCHANGED <<request, print, finished>> /\ Regular' \subseteq Regular
  BY DEF WriteEdit, ReadForEdit, Remove, ghostVars, Regular
<1>2. ASSUME NEW e \in Edits, WriteEdit(e), NEW i \in Regular', row'[i].status \in AtRest
      PROVE  row[i].status \in AtRest
  BY <1>2 DEF WriteEdit, EditsOK, RowsOK, LinkInv, Regular
<1>3. ASSUME NEW i \in Items, Remove(i), NEW j \in Items, row'[j].status \in AtRest
      PROVE  row[j].status \in AtRest
  BY <1>3 DEF Remove, RowsOK, AtRest
<1>4. \A i \in Regular' : row'[i].status \in AtRest => row[i].status \in AtRest
  BY <1>2, <1>3 DEF ReadForEdit, Regular
<1> QED
  BY <1>1, <1>4, ClaimsKept DEF IsOpen, IsClaimer, Regular

LEMMA ClaimsOfPrints ==
    ASSUME QueueTypeOK, LinkInv, ClaimInv, NEW d \in Prints, PrintStep(d)
    PROVE  ClaimInv'
<1>1. UNCHANGED <<row, request, finished>>
  BY PrintMoves
<1>2. Regular' \subseteq Regular
  BY PrintMoves DEF Regular
<1>3. \A e \in Prints, i \in Regular' : IsOpen(e, i)' => IsOpen(e, i)
  BY <1>1, PrintMoves DEF IsOpen, Regular
<1> QED
  BY <1>1, <1>2, <1>3, ClaimsKept DEF IsClaimer

LEMMA ClaimsOfHandlers ==
    ASSUME QueueTypeOK, LinkInv, ClaimInv, NEW d \in Prints, HandlerStep(d)
    PROVE  ClaimInv'
<1>. USE QueueAssumption DEF QueueAssumption, QueueTypeOK
<1>1. UNCHANGED <<request, print>> /\ Regular' \subseteq Regular
  BY DEF HandlerStep, FindStarted, WriteStarted, StartedFails, FindFinished, WriteFinished, FinishedFails, ghostVars,
         Regular
<1>2. CASE FindStarted(d) \/ StartedFails(d)
  BY <1>1, <1>2, ClaimsKept DEF FindStarted, StartedFails, IsOpen, IsClaimer
<1>3. CASE WriteStarted(d)
  <2>1. \A i \in Items : row'[i].status \in AtRest => row[i].status \in AtRest
    BY <1>3 DEF WriteStarted, RowsOK, AtRest
  <2> QED
    BY <1>1, <1>3, <2>1, ClaimsKept DEF WriteStarted, IsOpen, IsClaimer, Regular
<1>4. CASE FindFinished(d) \/ FinishedFails(d)
  <2>1. \A e \in Prints, i \in Items : IsOpen(e, i)' => IsOpen(e, i)
    BY <1>1, <1>4 DEF FindFinished, FinishedFails, HandlersOK, IsOpen
  <2> QED
    BY <1>1, <1>4, <2>1, ClaimsKept DEF FindFinished, FinishedFails, IsClaimer, Regular
<1>5. CASE WriteFinished(d)
  <2>. DEFINE i == finished[d].item
  <2>1. i \in Items /\ (IsOpen(d, i) \/ i \notin Regular)
    BY <1>5 DEF WriteFinished, LinkInv, HandlersOK, IsOpen, Ended, Regular
  <2>2. \A e \in Prints, j \in Items : IsOpen(e, j)' => IsOpen(e, j) /\ e # d
    BY <1>1, <1>5 DEF WriteFinished, HandlersOK, IsOpen, Handled
  <2>3. \A j \in Items : j # i => row'[j] = row[j]
    BY <1>5, <2>1 DEF WriteFinished, AfterSuccess, RowsOK
  <2>. HIDE DEF i
  <2> QED
    BY <1>1, <2>1, <2>2, <2>3 DEF ClaimInv, IsClaimer, Regular
<1> QED
  BY <1>2, <1>3, <1>4, <1>5 DEF HandlerStep

\* A crash opens no print.
LEMMA OpenAfterCrash ==
    ASSUME QueueTypeOK, LinkInv, Crash, NEW d \in Prints, NEW i \in Items, IsOpen(d, i)'
    PROVE  IsOpen(d, i)
<1>1. print'[d].item = print[d].item /\ print'[d].state = AfterCrash(print[d].state)
  BY PrintsOfCrash
<1>2. print[d].state \notin {"none", "lost"}
  BY <1>1 DEF IsOpen, AfterCrash
<1>3. print[d].state \notin Ended
  BY DEF Crash, IsOpen, Handled
<1>4. finished[d].at = "none"
  BY <1>3 DEF LinkInv, QueueTypeOK, HandlersOK
<1> QED
  BY <1>1, <1>2, <1>4 DEF IsOpen

LEMMA ClaimsOfCrash ==
    ASSUME QueueTypeOK, LinkInv, ClaimInv, Crash
    PROVE  ClaimInv'
<1>. USE QueueAssumption DEF QueueAssumption, QueueTypeOK
<1>1. UNCHANGED row /\ Regular' = Regular /\ \A r \in Requests, i \in Items : ~IsClaimer(r, i)'
  BY DEF Crash, IsClaimer, NoRequest, Regular
<1>2. \A d \in Prints, i \in Items : IsOpen(d, i)' => IsOpen(d, i)
  BY OpenAfterCrash
<1> QED
  BY <1>1, <1>2, ClaimsKept DEF Regular

\* Who is claimed or printed once is printed once.
LEMMA ClaimsSuffice ==
    ASSUME QueueTypeOK, LinkInv, ClaimInv
    PROVE  PrintedOnceAtATime
<1>. SUFFICES ASSUME NEW i \in Regular
              PROVE  LET live == {d \in Prints : print[d].item = i /\ Live(d)} IN
                     /\ Cardinality(live) <= 1
                     /\ row[i].status \in Dispatchable => live = {}
  BY DEF PrintedOnceAtATime
<1>. DEFINE live == {d \in Prints : print[d].item = i /\ Live(d)}
<1>1. \A d \in live : IsOpen(d, i)
  BY DEF Live, LinkInv, IsOpen, QueueTypeOK, HandlersOK, Ended
<1>2. \A d, e \in live : d = e
  BY <1>1 DEF ClaimInv
<1>3. row[i].status \in Dispatchable => live = {}
  BY <1>1 DEF ClaimInv, Dispatchable, AtRest
<1>4. Cardinality(live) <= 1
  <2>1. CASE live = {}
    BY <2>1, FS_EmptySet
  <2>2. CASE live # {}
    <3>1. PICK d \in live : TRUE
      BY <2>2
    <3>2. live = {d}
      BY <1>2, <3>1
    <3> QED
      <4>1. Cardinality({d}) = 1
        BY FS_Singleton
      <4>. HIDE DEF live
      <4> QED
        BY <3>2, <4>1
  <2> QED
    BY <2>1, <2>2
<1> QED
  BY <1>3, <1>4
-----------------------------------------------------------------------------
(* Copies *)

LEMMA Distributes == \A q, a, b \in Int : q * (b - a) = q * b - q * a
OBVIOUS

LEMMA Grows == \A q, k \in Int : q > 0 => /\ k >= 2 => q * k >= 2 * q
                                          /\ k <= -1 => q * k <= -q
OBVIOUS

\* A counter that returns to 0 when it reaches q counts modulo q.
LEMMA OneMore ==
    ASSUME NEW c \in Nat, NEW q \in Nat \ {0}
    PROVE  (c + 1) % q = IF (c % q) + 1 >= q THEN 0 ELSE (c % q) + 1
<1>. DEFINE a == c \div q
            b == (c + 1) \div q
            m == c % q
            n == (c + 1) % q
<1>1. c = q * a + m /\ c + 1 = q * b + n
  OBVIOUS
<1>2. m \in 0..(q-1) /\ n \in 0..(q-1)
  OBVIOUS
<1>3. a \in Int /\ b \in Int
  OBVIOUS
<1>. HIDE DEF a, b, m, n
<1>4. q * a \in Int /\ q * b \in Int
  BY <1>3
<1>5. q * (b - a) = m + 1 - n
  BY <1>1, <1>2, <1>3, <1>4, Distributes
<1>6. b - a \in {0, 1}
  BY <1>2, <1>3, <1>5, Grows
<1>7. b - a = 0 => n = m + 1
  BY <1>2, <1>3, <1>5
<1>8. b - a = 1 => n = m + 1 - q
  BY <1>2, <1>3, <1>5
<1>9. n = IF m + 1 >= q THEN 0 ELSE m + 1
  BY <1>2, <1>6, <1>7, <1>8
<1> QED
  BY <1>9 DEF m, n

LEMMA FirstRound == ASSUME NEW c \in Nat, NEW q \in Nat \ {0}, c < q PROVE c % q = c
OBVIOUS

LEMMA CountedFinite ==
    ASSUME NEW i
    PROVE  IsFiniteSet(Counted(i)) /\ Cardinality(Counted(i)) \in Nat
BY QueueAssumption, FS_Subset, FS_CardinalityType DEF QueueAssumption, Counted

LEMMA FiniteAfterwards ==
    ASSUME NEW i
    PROVE  IsFiniteSet(Counted(i)') /\ Cardinality(Counted(i)') \in Nat
BY QueueAssumption, FS_Subset, FS_CardinalityType DEF QueueAssumption, Counted

LEMMA CountsInit == QueueInit => CountInv
<1>. SUFFICES ASSUME QueueInit, NEW i \in Items
              PROVE  /\ \A d \in Prints : finished[d].at # "writing"
                     /\ row[i].count = 0 /\ credited[i] = 0 /\ 0 % Quantity[i] = 0 /\ 0 < Quantity[i]
                     /\ 0 <= Cardinality(Counted(i))
  BY DEF CountInv, Regular
<1>1. Quantity[i] \in Nat \ {0}
  BY QueueAssumption DEF QueueAssumption
<1>2. 0 % Quantity[i] = 0 /\ 0 < Quantity[i]
  BY <1>1, FirstRound
<1> QED
  BY <1>2, CountedFinite DEF QueueInit, NoHandler

\* A step that counts nothing and forgets nothing that was counted.
LEMMA CountsKept ==
    ASSUME CountInv, QueueTypeOK, Regular' \subseteq Regular, credited' = credited,
           \A i \in Regular' :
               /\ Exists(i)' => /\ Exists(i) /\ row'[i].count = row[i].count
                                /\ \A d \in Prints : finished'[d].at = "writing" /\ finished'[d].item = i
                                        => \/ finished'[d] = finished[d]
                                           \/ finished'[d].count = row[i].count
               /\ Counted(i) \subseteq Counted(i)'
    PROVE  CountInv'
<1>1. ASSUME NEW i \in Regular'
      PROVE  /\ Exists(i)' => /\ \A d \in Prints : finished'[d].at = "writing" /\ finished'[d].item = i
                                                => finished'[d].count = row'[i].count
                              /\ row'[i].count = credited'[i] % Quantity[i]
                              /\ Pinned[i] \/ credited'[i] < Quantity[i]
             /\ credited'[i] <= Cardinality(Counted(i)')
  <2>1. i \in Regular /\ i \in Items
    BY <1>1 DEF Regular
  <2>2. Cardinality(Counted(i)) <= Cardinality(Counted(i)')
    <3>1. IsFiniteSet(Counted(i)')
      BY QueueAssumption, FS_Subset DEF QueueAssumption, Counted
    <3> QED
      BY <1>1, <3>1, FS_Subset
  <2>3. credited[i] \in Nat /\ Cardinality(Counted(i)) \in Nat /\ Cardinality(Counted(i)') \in Nat
    <3>1. IsFiniteSet(Counted(i)')
      BY QueueAssumption, FS_Subset DEF QueueAssumption, Counted
    <3> QED
      BY <2>1, <3>1, CountedFinite, FS_CardinalityType DEF QueueTypeOK
  <2>4. credited'[i] <= Cardinality(Counted(i)')
    BY <2>1, <2>2, <2>3 DEF CountInv
  <2> QED
    BY <1>1, <2>1, <2>4 DEF CountInv
<1> QED
  BY <1>1 DEF CountInv

LEMMA CountsOfRequests ==
    ASSUME QueueTypeOK, LinkInv, CountInv, NEW r \in Requests,
           RequestStep(r) \/ \E i \in Items, p \in Printers : ReadForDispatch(r, i, p)
    PROVE  CountInv'
<1>. USE QueueAssumption DEF QueueAssumption, QueueTypeOK
<1>1. UNCHANGED <<finished, credited>> /\ Regular' = Regular
  BY DEF RequestStep, ReadForDispatch, Claim, Accept, Refuse, Link, RequestFails, ghostVars, Regular
<1>2. \A i \in Items : Exists(i)' => Exists(i) /\ row'[i].count = row[i].count
  <2>1. CASE Claim(r)
    BY <2>1 DEF Claim, LinkInv, Exists, RequestsOK, RowsOK, Dispatchable
  <2>2. CASE Refuse(r)
    BY <2>2 DEF Refuse, Exists, RequestsOK, RowsOK
  <2>3. CASE Link(r)
    BY <2>3 DEF Link, Exists, RequestsOK, RowsOK
  <2>4. CASE RequestFails(r)
    BY <2>4 DEF RequestFails, LinkInv, Exists, RequestsOK, RowsOK, Dispatchable
  <2> QED
    BY <2>1, <2>2, <2>3, <2>4 DEF RequestStep, ReadForDispatch, Accept, Exists
<1>3. \A i \in Items : Counted(i) \subseteq Counted(i)'
  <2>1. ASSUME NEW d \in Prints, Accept(r, d) PROVE \A e \in Prints : e # d => print'[e] = print[e]
    BY <2>1 DEF Accept, PrintsOK
  <2>2. ASSUME NEW d \in Prints, Accept(r, d) PROVE finished[d].at = "none"
    BY <2>2 DEF Accept, NextPrint, LinkInv, HandlersOK, Ended
  <2>3. (\A d \in Prints : ~Accept(r, d)) => print' = print
    BY DEF RequestStep, ReadForDispatch, Claim, Refuse, Link, RequestFails
  <2> QED
    BY <1>1, <2>1, <2>2, <2>3 DEF Counted
<1> QED
  BY <1>1, <1>2, <1>3, CountsKept DEF Regular

LEMMA CountsOfUsers ==
    ASSUME QueueTypeOK, LinkInv, CountInv,
           \/ \E e \in Edits : WriteEdit(e) \/ \E i \in Items : ReadForEdit(e, i)
           \/ \E i \in Items : Remove(i)
    PROVE  CountInv'
<1>. USE QueueAssumption DEF QueueAssumption, QueueTypeOK
<1>1. UNCHANGED <<print, finished, credited>> /\ Regular' \subseteq Regular
  BY DEF WriteEdit, ReadForEdit, Remove, ghostVars, Regular
<1>2. \A i \in Items : Exists(i)' => Exists(i) /\ row'[i].count = row[i].count
  <2>1. ASSUME NEW e \in Edits, WriteEdit(e), NEW i \in Items, Exists(i)'
        PROVE  Exists(i) /\ row'[i].count = row[i].count
    BY <2>1, SMTT(30) DEF WriteEdit, Exists, EditsOK, RowsOK
  <2>2. ASSUME NEW j \in Items, Remove(j), NEW i \in Items, Exists(i)'
        PROVE  Exists(i) /\ row'[i].count = row[i].count
    BY <2>2 DEF Remove, Exists, RowsOK
  <2> QED
    BY <2>1, <2>2 DEF ReadForEdit, Exists
<1>3. \A i \in Items : Counted(i) \subseteq Counted(i)'
  BY <1>1 DEF Counted
<1> QED
  BY <1>1, <1>2, <1>3, CountsKept DEF Regular

LEMMA CountsOfPrints ==
    ASSUME QueueTypeOK, LinkInv, CountInv, NEW d \in Prints, PrintStep(d)
    PROVE  CountInv'
<1>1. UNCHANGED <<row, finished, credited>>
  BY PrintMoves
<1>2. Regular' \subseteq Regular
  BY PrintMoves DEF Regular
<1>3. \A e \in Prints : finished[e].at = "done" => print'[e] = print[e]
  BY PrintMoves DEF LinkInv, Ended
<1>4. \A i \in Items : Counted(i) \subseteq Counted(i)'
  BY <1>1, <1>3 DEF Counted
<1> QED
  BY <1>1, <1>2, <1>4, CountsKept DEF Exists, Regular

LEMMA CountsOfCrash ==
    ASSUME QueueTypeOK, LinkInv, CountInv, Crash
    PROVE  CountInv'
<1>. USE QueueAssumption DEF QueueAssumption, QueueTypeOK
<1>1. UNCHANGED <<row, credited>> /\ Regular' = Regular /\ \A d \in Prints : finished'[d].at # "writing"
  BY DEF Crash, NoHandler, Handled, Regular
<1>2. \A i \in Items : Counted(i) \subseteq Counted(i)'
  <2>1. ASSUME NEW i \in Items, NEW d \in Counted(i) PROVE d \in Counted(i)'
    <3>1. print[d].state \in Ended /\ d \in Prints
      BY <2>1 DEF Counted, LinkInv
    <3>2. /\ print'[d].item = print[d].item /\ print'[d].success = print[d].success
          /\ finished'[d] = Handled
      BY <3>1, PrintsOfCrash DEF Crash
    <3> QED
      BY <2>1, <3>2 DEF Counted, Handled
  <2> QED
    BY <2>1
<1> QED
  BY <1>1, <1>2, CountsKept DEF Exists, Regular

\* A copy is counted: nobody else was about to count one of the same item.
LEMMA CountsOfFinish ==
    ASSUME QueueTypeOK, LinkInv, ClaimInv, CountInv, NEW d \in Prints, WriteFinished(d),
           print[d].success, Exists(finished[d].item)
    PROVE  CountInv'
<1>. USE QueueAssumption DEF QueueAssumption, QueueTypeOK
<1>0. PICK i \in Items, n \in Nat : i = finished[d].item /\ n = finished[d].count
  BY DEF WriteFinished, HandlersOK
<1>. DEFINE done == n + 1 >= Quantity[i]
<1>1. /\ i \in Items /\ n \in Nat
      /\ finished[d].at = "writing"
      /\ i \in Regular => i = print[d].item /\ IsOpen(d, i)
  BY <1>0 DEF WriteFinished, LinkInv, HandlersOK, IsOpen, Ended, Regular
<1>2. /\ row' = AfterSuccess(i, n)
      /\ credited' = [credited EXCEPT ![i] = @ + 1]
      /\ UNCHANGED print /\ Regular' = Regular
      /\ finished'[d].at = "done" /\ \A e \in Prints : e # d => finished'[e] = finished[e]
  BY <1>0 DEF WriteFinished, Handled, HandlersOK, Regular
<1>3. /\ \A j \in Items : j # i => row'[j] = row[j] /\ credited'[j] = credited[j]
      /\ credited'[i] = credited[i] + 1 /\ credited[i] \in Nat
  <2>1. \A j \in Items : j # i => AfterSuccess(i, n)[j] = row[j]
    BY <1>1 DEF AfterSuccess, RowsOK
  <2> QED
    BY <1>1, <1>2, <2>1
<1>4. Exists(i)' => /\ Pinned[i] \/ ~done
                    /\ row'[i].count = IF done THEN 0 ELSE n + 1
  BY <1>1, <1>2, SMTT(30) DEF AfterSuccess, RowsOK, Exists
<1>5. Exists(i) /\ print[d].success
  BY <1>0
<1>6. \A j \in Items : Counted(j) \subseteq Counted(j)'
  BY <1>1, <1>2 DEF Counted
<1>7. i \in Regular => Counted(i)' = Counted(i) \cup {d} /\ d \notin Counted(i)
  BY <1>1, <1>2, <1>5 DEF Counted
<1>8. i \in Regular => /\ Cardinality(Counted(i)') = Cardinality(Counted(i)) + 1
                       /\ Cardinality(Counted(i)) \in Nat
  BY <1>7, CountedFinite, FS_AddElement
<1>9. ASSUME i \in Regular, Exists(i)'
      PROVE  /\ \A e \in Prints : ~(finished'[e].at = "writing" /\ finished'[e].item = i)
             /\ row'[i].count = credited'[i] % Quantity[i]
             /\ Pinned[i] \/ credited'[i] < Quantity[i]
  <2>1. ASSUME NEW e \in Prints, finished'[e].at = "writing", finished'[e].item = i PROVE FALSE
    <3>1. e # d /\ finished[e].at = "writing" /\ finished[e].item = i
      BY <1>2, <2>1
    <3>2. IsOpen(e, i)
      BY <1>9, <3>1 DEF LinkInv, IsOpen, Ended, Regular
    <3> QED
      BY <1>1, <1>9, <3>1, <3>2 DEF ClaimInv
  <2>2. n = row[i].count /\ row[i].count = credited[i] % Quantity[i]
    BY <1>0, <1>1, <1>5, <1>9 DEF CountInv
  <2>3. Quantity[i] \in Nat \ {0}
    BY <1>1
  <2>4. row'[i].count = credited'[i] % Quantity[i]
    <3>1. (credited[i] + 1) % Quantity[i]
            = IF (credited[i] % Quantity[i]) + 1 >= Quantity[i] THEN 0 ELSE (credited[i] % Quantity[i]) + 1
      BY <1>3, <2>3, OneMore
    <3>2. row'[i].count = IF n + 1 >= Quantity[i] THEN 0 ELSE n + 1
      BY <1>4, <1>9
    <3>3. n = credited[i] % Quantity[i] /\ credited'[i] = credited[i] + 1
      BY <1>3, <2>2
    <3>. HIDE DEF done
    <3> QED
      BY <3>1, <3>2, <3>3
  <2>5. Pinned[i] \/ credited'[i] < Quantity[i]
    <3>1. Pinned[i] \/ credited[i] < Quantity[i]
      BY <1>1, <1>5, <1>9 DEF CountInv
    <3>2. credited[i] < Quantity[i] => n = credited[i]
      BY <1>3, <2>2, <2>3, FirstRound
    <3> QED
      BY <1>3, <1>4, <1>9, <2>3, <3>1, <3>2
  <2> QED
    BY <2>1, <2>4, <2>5
<1>10. i \in Regular => credited'[i] <= Cardinality(Counted(i)')
  BY <1>1, <1>3, <1>8 DEF CountInv
<1>11. ASSUME NEW j \in Regular, j # i
       PROVE  /\ Exists(j)' => /\ \A e \in Prints : finished'[e].at = "writing" /\ finished'[e].item = j
                                                => finished'[e].count = row'[j].count
                               /\ row'[j].count = credited'[j] % Quantity[j]
                               /\ Pinned[j] \/ credited'[j] < Quantity[j]
              /\ credited'[j] <= Cardinality(Counted(j)')
  <2>0. j \in Items
    BY <1>11 DEF Regular
  <2>1. Exists(j)' <=> Exists(j)
    BY <1>3, <1>11, <2>0 DEF Exists
  <2>2. \A e \in Prints : finished'[e].at = "writing" => finished'[e] = finished[e]
    BY <1>2
  <2>3. Cardinality(Counted(j)) <= Cardinality(Counted(j)')
    BY <1>6, <2>0, CountedFinite, FiniteAfterwards, FS_Subset
  <2>4. credited'[j] <= Cardinality(Counted(j)')
    <3>1. credited'[j] = credited[j] /\ credited[j] \in Nat /\ credited[j] <= Cardinality(Counted(j))
      BY <1>3, <1>11, <2>0 DEF CountInv
    <3>2. Cardinality(Counted(j)) \in Nat /\ Cardinality(Counted(j)') \in Nat
      BY CountedFinite, FiniteAfterwards
    <3> QED
      BY <2>3, <3>1, <3>2
  <2> QED
    BY <1>3, <1>11, <2>0, <2>1, <2>2, <2>4 DEF CountInv
<1>12. ASSUME NEW j \in Regular'
       PROVE  /\ Exists(j)' => /\ \A e \in Prints : finished'[e].at = "writing" /\ finished'[e].item = j
                                                => finished'[e].count = row'[j].count
                               /\ row'[j].count = credited'[j] % Quantity[j]
                               /\ Pinned[j] \/ credited'[j] < Quantity[j]
              /\ credited'[j] <= Cardinality(Counted(j)')
  BY <1>2, <1>9, <1>10, <1>11, <1>12
<1> QED
  BY <1>12 DEF CountInv

LEMMA CountsOfHandlers ==
    ASSUME QueueTypeOK, LinkInv, ClaimInv, CountInv, NEW d \in Prints, HandlerStep(d)
    PROVE  CountInv'
<1>. USE QueueAssumption DEF QueueAssumption, QueueTypeOK
<1>0. Regular' \subseteq Regular
  BY DEF HandlerStep, FindStarted, WriteStarted, StartedFails, FindFinished, WriteFinished, FinishedFails, ghostVars,
         Regular
<1>1. CASE FindStarted(d) \/ StartedFails(d)
  <2>1. UNCHANGED <<row, print, finished, credited>>
    BY <1>1 DEF FindStarted, StartedFails, ghostVars
  <2>2. \A i \in Items : Counted(i) \subseteq Counted(i)'
    BY <2>1 DEF Counted
  <2> QED
    BY <1>0, <2>1, <2>2, CountsKept DEF Exists, Regular
<1>2. CASE WriteStarted(d)
  <2>1. \A i \in Items : Exists(i)' => Exists(i) /\ row'[i].count = row[i].count
    BY <1>2 DEF WriteStarted, Exists, RowsOK
  <2>2. UNCHANGED <<print, finished, credited>>
    BY <1>2 DEF WriteStarted
  <2>3. \A i \in Items : Counted(i) \subseteq Counted(i)'
    BY <2>2 DEF Counted
  <2> QED
    BY <1>0, <2>1, <2>2, <2>3, CountsKept DEF Regular
<1>3. CASE FindFinished(d)
  <2>1. PICK h \in Lookup(d, {"dispatching", "printing"}) : finished' = [finished EXCEPT ![d] = h]
    BY <1>3 DEF FindFinished
  <2>2. h.at = "writing" => h.count = row[h.item].count
    BY <1>3, LookupFindsOwn DEF FindFinished, Handled, Ended
  <2>3. UNCHANGED <<row, print, credited>> /\ finished[d].at = "none"
    BY <1>3 DEF FindFinished
  <2>4. finished'[d] = h /\ \A e \in Prints : e # d => finished'[e] = finished[e]
    BY <2>1 DEF HandlersOK
  <2>5. \A i \in Items : Counted(i) \subseteq Counted(i)'
    BY <2>3, <2>4 DEF Counted
  <2>6. \A i \in Items : Exists(i)' <=> Exists(i)
    BY <2>3 DEF Exists
  <2> QED
    BY <1>0, <2>2, <2>3, <2>4, <2>5, <2>6, CountsKept DEF Regular
<1>4. CASE FinishedFails(d) \/ (WriteFinished(d) /\ ~(print[d].success /\ Exists(finished[d].item)))
  <2>1. \A i \in Items : Exists(i)' => Exists(i) /\ row'[i].count = row[i].count
    BY <1>4 DEF WriteFinished, FinishedFails, Exists, RowsOK, HandlersOK
  <2>2. UNCHANGED <<print, credited>>
    BY <1>4 DEF WriteFinished, FinishedFails
  <2>3. finished'[d].at = "done" /\ \A e \in Prints : e # d => finished'[e] = finished[e]
    BY <1>4 DEF WriteFinished, FinishedFails, HandlersOK, Handled
  <2>4. \A i \in Items : Counted(i) \subseteq Counted(i)'
    BY <2>2, <2>3 DEF Counted
  <2> QED
    BY <1>0, <2>1, <2>2, <2>3, <2>4, CountsKept DEF Regular
<1> QED
  BY <1>1, <1>2, <1>3, <1>4, CountsOfFinish DEF HandlerStep

\* What is counted of an item are prints of it that succeeded.
LEMMA CountsSuffice ==
    ASSUME QueueTypeOK, CountInv
    PROVE  CopiesCounted
<1>. SUFFICES ASSUME NEW i \in Regular
              PROVE  credited[i] <= Cardinality({d \in Prints : print[d].item = i /\ print[d].success})
  BY DEF CopiesCounted, CountInv
<1>. DEFINE successes == {d \in Prints : print[d].item = i /\ print[d].success}
<1>1. Counted(i) \subseteq successes /\ IsFiniteSet(successes)
  BY QueueAssumption, FS_Subset DEF QueueAssumption, Counted
<1>2. Cardinality(Counted(i)) <= Cardinality(successes)
  BY <1>1, FS_Subset
<1>3. Cardinality(Counted(i)) \in Nat /\ Cardinality(successes) \in Nat /\ credited[i] \in Nat
  BY <1>1, CountedFinite, FS_CardinalityType DEF QueueTypeOK, Regular
<1> QED
  BY <1>2, <1>3 DEF CountInv
-----------------------------------------------------------------------------
(* Items under way *)

LEMMA AttendInit == QueueInit => AttendInv
BY QueueAssumption DEF QueueInit, AttendInv, InHand, IsClaimer, IsOpen, NoRequest, QueueAssumption, Regular

\* A step that leaves the prints, the handling of their ends and the row of i alone.
LEMMA InHandKept ==
    ASSUME NEW i \in Items, InHand(i), row'[i] = row[i], UNCHANGED <<print, finished>>,
           \A r \in Requests :
               /\ IsClaimer(r, i)' => IsClaimer(r, i)
               /\ request[r].item = i /\ request[r].at # "claiming" => request'[r] = request[r]
    PROVE  InHand(i)'
BY DEF InHand, Attended, IsClaimer, IsOpen, IsLinker

LEMMA AttendOfRequests ==
    ASSUME QueueTypeOK, LinkInv, ClaimInv, AttendInv, NEW r \in Requests,
           RequestStep(r) \/ \E i \in Items, p \in Printers : ReadForDispatch(r, i, p)
    PROVE  AttendInv'
<1>. USE QueueAssumption DEF QueueAssumption, QueueTypeOK
<1>1. Regular' = Regular /\ upset \subseteq upset'
  BY DEF RequestStep, ReadForDispatch, Claim, Accept, Refuse, Link, RequestFails, ghostVars, Regular
<1>2. SUFFICES ASSUME NEW i \in Items, i \in Regular \ upset', Exists(i)' PROVE InHand(i)'
  BY <1>1 DEF AttendInv, Regular
<1>3. Exists(i) => InHand(i)
  BY <1>1, <1>2 DEF AttendInv
<1>4. ASSUME NEW j \in Items, NEW p \in Printers, ReadForDispatch(r, j, p) PROVE InHand(i)'
  <2>1. row' = row /\ UNCHANGED <<print, finished>>
    BY <1>4 DEF ReadForDispatch
  <2>2. InHand(i)
    BY <1>2, <1>3, <2>1 DEF Exists
  <2>3. request[r].item = NoItem /\ request'[r].at = "claiming"
    BY <1>4 DEF ReadForDispatch, RequestsOK, LinkInv
  <2>4. \A s \in Requests : s # r => request'[s] = request[s]
    BY <1>4 DEF ReadForDispatch, RequestsOK
  <2> QED
    BY <2>1, <2>2, <2>3, <2>4, InHandKept DEF IsClaimer
<1>5. CASE Claim(r)
  <2>1. UNCHANGED <<print, finished>> /\ request[r].at = "claiming"
    BY <1>5 DEF Claim
  <2>2. \A s \in Requests : s # r => request'[s] = request[s]
    BY <1>5 DEF Claim, RequestsOK
  <2>3. CASE request[r].item = i /\ row[i].status = request[r].previous
    <3>1. row'[i].status = "dispatching" /\ row'[i].printer = row[i].printer
      BY <1>5, <2>3 DEF Claim, RowsOK
    <3>2. request'[r].at = "enqueuing" /\ request'[r].item = i
      BY <1>5, <2>3 DEF Claim, RequestsOK
    <3>3. InHand(i)
      BY <1>3, <1>5, <2>3 DEF Claim, LinkInv, Exists, Dispatchable
    <3>4. Attended(i)'
      BY <3>2 DEF Attended
    <3> QED
      BY <2>1, <2>2, <3>1, <3>3, <3>4 DEF InHand, IsOpen, IsLinker
  <2>4. CASE ~(request[r].item = i /\ row[i].status = request[r].previous)
    <3>1. row'[i] = row[i] /\ ~IsClaimer(r, i)'
      BY <1>5, <2>4 DEF Claim, RowsOK, RequestsOK, IsClaimer, NoRequest
    <3>2. InHand(i)
      BY <1>2, <1>3, <3>1 DEF Exists
    <3> QED
      BY <2>1, <2>2, <3>1, <3>2, InHandKept DEF IsClaimer
  <2> QED
    BY <2>3, <2>4
<1>6. ASSUME NEW d \in Prints, Accept(r, d) PROVE InHand(i)'
  <2>1. UNCHANGED <<row, finished>> /\ request[r].at = "enqueuing" /\ print[d].state = "none"
    BY <1>6 DEF Accept, NextPrint
  <2>2. InHand(i)
    BY <1>2, <1>3, <2>1 DEF Exists
  <2>3. \A s \in Requests : s # r => request'[s] = request[s]
    BY <1>6 DEF Accept, RequestsOK
  <2>4. /\ request'[r].at = "linking" /\ request'[r].print = d /\ request'[r].item = request[r].item
        /\ request[r].item \in Items
    BY <1>6, <2>1 DEF Accept, RequestsOK
  <2>5. /\ \A e \in Prints : e # d => print'[e] = print[e]
        /\ print'[d].item = request[r].item /\ print'[d].state = "dispatching"
    BY <1>6 DEF Accept, PrintsOK
  <2>6. print[d].item = NoItem /\ finished[d].at = "none"
    BY <2>1 DEF LinkInv, HandlersOK, Ended
  <2>7. row[i].status \in {"dispatching", "printing"} => Attended(i)'
    <3>1. CASE request[r].item = i
      BY <2>4, <3>1 DEF Attended
    <3>2. CASE request[r].item # i
      BY <2>2, <2>1, <2>3, <2>4, <2>5, <2>6, <3>2 DEF Attended, InHand
    <3> QED
      BY <3>1, <3>2
  <2>8. \A s \in Requests : IsClaimer(s, i)' => IsClaimer(s, i)
    BY <2>3, <2>4 DEF IsClaimer
  <2>9. \A e \in Prints : print'[e].item = i => print'[e].state \notin {"failed", "lost"}
    BY <2>2, <2>5 DEF InHand
  <2>10. ASSUME NEW e \in Prints, IsOpen(e, i)'
         PROVE  row'[i].printer = print'[e].printer \/ \E s \in Requests : IsLinker(s, e, i)'
    <3>1. CASE e = d
      BY <2>4, <2>5, <2>10, <3>1 DEF IsOpen, IsLinker
    <3>2. CASE e # d
      <4>1. IsOpen(e, i) /\ print'[e] = print[e]
        BY <2>1, <2>5, <2>10, <3>2 DEF IsOpen
      <4>2. \A s \in Requests : IsLinker(s, e, i) => IsLinker(s, e, i)'
        BY <2>1, <2>3 DEF IsLinker
      <4> QED
        BY <2>1, <2>2, <4>1, <4>2 DEF InHand
    <3> QED
      BY <3>1, <3>2
  <2> QED
    BY <2>1, <2>2, <2>7, <2>8, <2>9, <2>10 DEF InHand
<1>7. CASE Refuse(r)
  <2>1. UNCHANGED <<print, finished>> /\ request[r].at = "enqueuing"
    BY <1>7 DEF Refuse
  <2>2. /\ \A s \in Requests : s # r => request'[s] = request[s]
        /\ request'[r] = NoRequest
    BY <1>7 DEF Refuse, RequestsOK
  <2>3. CASE request[r].item = i
    <3>1. IsClaimer(r, i)
      BY <2>1, <2>3 DEF IsClaimer
    <3>2. Exists(i)
      BY <1>2, <1>7, <2>3 DEF Refuse, RowsOK, Exists
    <3>3. InHand(i) /\ row[i].status = "dispatching"
      BY <1>3, <3>1, <3>2 DEF InHand
    <3>4. row'[i].status \in Dispatchable /\ row'[i].printer = row[i].printer
      BY <1>7, <2>1, <2>3, <3>3 DEF Refuse, RowsOK, LinkInv
    <3>5. \A s \in Requests : ~IsClaimer(s, i)'
      BY <1>1, <1>2, <2>2, <3>1 DEF ClaimInv, IsClaimer, NoRequest
    <3>6. \A d \in Prints : ~IsOpen(d, i)'
      BY <1>1, <1>2, <2>1, <3>1 DEF ClaimInv, IsOpen
    <3> QED
      BY <2>1, <3>3, <3>4, <3>5, <3>6 DEF InHand, Dispatchable
  <2>4. CASE request[r].item # i
    <3>1. row'[i] = row[i]
      BY <1>7, <2>4 DEF Refuse, RowsOK
    <3>2. InHand(i)
      BY <1>2, <1>3, <3>1 DEF Exists
    <3> QED
      BY <2>1, <2>2, <2>4, <3>1, <3>2, InHandKept DEF IsClaimer, NoRequest
  <2> QED
    BY <2>3, <2>4
<1>8. CASE Link(r)
  <2>1. UNCHANGED <<print, finished>> /\ request[r].at = "linking"
    BY <1>8 DEF Link
  <2>2. /\ \A s \in Requests : s # r => request'[s] = request[s]
        /\ request'[r] = NoRequest
    BY <1>8 DEF Link, RequestsOK
  <2>3. CASE request[r].item = i
    <3>1. PICK d \in Prints : d = request[r].print
      BY <2>1 DEF RequestsOK
    <3>2. Exists(i)
      BY <1>2, <1>8, <2>3 DEF Link, RowsOK, Exists
    <3>3. InHand(i)
      BY <1>3, <3>2
    <3>4. row'[i].status = "dispatching" /\ row'[i].printer = request[r].printer
      BY <1>8, <2>3, <3>2 DEF Link, RowsOK
    <3>5. print[d].item = i /\ print[d].printer = request[r].printer
      BY <2>1, <2>3, <3>1 DEF LinkInv
    <3>6. finished[d].at = "none"
      BY <1>2, <1>8, <2>3, <3>1 DEF Link, HandlersOK
    <3>7. print[d].state \notin {"none", "failed", "lost"}
      BY <3>3, <3>5 DEF InHand, LinkInv
    <3>8. IsOpen(d, i)
      BY <3>5, <3>6, <3>7 DEF IsOpen
    <3>9. \A e \in Prints : IsOpen(e, i) => e = d
      BY <1>1, <1>2, <3>8 DEF ClaimInv
    <3>10. Attended(i)'
      BY <2>1, <3>5, <3>6, <3>7 DEF Attended
    <3> QED
      BY <2>1, <3>3, <3>4, <3>5, <3>9, <3>10 DEF InHand, IsOpen
  <2>4. CASE request[r].item # i
    <3>1. row'[i] = row[i]
      BY <1>8, <2>4 DEF Link, RowsOK
    <3>2. InHand(i)
      BY <1>2, <1>3, <3>1 DEF Exists
    <3> QED
      BY <2>1, <2>2, <2>4, <3>1, <3>2, InHandKept DEF IsClaimer, NoRequest
  <2> QED
    BY <2>3, <2>4
<1>9. CASE RequestFails(r)
  <2>1. row'[i] = row[i] /\ request[r].item # i
    BY <1>2, <1>9 DEF RequestFails, RowsOK, RequestsOK
  <2>2. InHand(i)
    BY <1>2, <1>3, <2>1 DEF Exists
  <2>3. /\ UNCHANGED <<print, finished>>
        /\ \A s \in Requests : s # r => request'[s] = request[s]
        /\ request'[r] = NoRequest
    BY <1>9 DEF RequestFails, RequestsOK
  <2> QED
    BY <2>1, <2>2, <2>3, InHandKept DEF IsClaimer, NoRequest
<1> QED
  BY <1>4, <1>5, <1>6, <1>7, <1>8, <1>9 DEF RequestStep

LEMMA AttendOfUsers ==
    ASSUME QueueTypeOK, LinkInv, ClaimInv, AttendInv,
           \/ \E e \in Edits : WriteEdit(e) \/ \E i \in Items : ReadForEdit(e, i)
           \/ \E i \in Items : Remove(i)
    PROVE  AttendInv'
<1>. USE QueueAssumption DEF QueueAssumption, QueueTypeOK
<1>1. Regular' \subseteq Regular /\ UNCHANGED <<request, print, finished, upset>>
  BY DEF WriteEdit, ReadForEdit, Remove, ghostVars, Regular
<1>2. SUFFICES ASSUME NEW i \in Items, i \in Regular' \ upset', Exists(i)' PROVE InHand(i)'
  BY DEF AttendInv, Regular
<1>3. Exists(i) => InHand(i)
  BY <1>1, <1>2 DEF AttendInv
<1>4. CASE row'[i] = row[i]
  BY <1>1, <1>2, <1>3, <1>4, InHandKept DEF Exists, IsClaimer
<1>5. ASSUME NEW e \in Edits, WriteEdit(e), edit[e].item = i PROVE InHand(i)'
  <2>1. row[i].status \in AtRest /\ row[i].status = edit[e].seen
    BY <1>2, <1>5 DEF WriteEdit, LinkInv, Regular
  <2>2. InHand(i)
    BY <1>3, <2>1 DEF Exists, AtRest
  <2>3. row'[i].status \in AtRest
    BY <1>5, <2>1, SMTT(30) DEF WriteEdit, LinkInv, RowsOK, Exists, AtRest
  <2>4. (\A r \in Requests : ~IsClaimer(r, i)) /\ (\A d \in Prints : ~IsOpen(d, i))
    BY <1>1, <1>2, <2>1 DEF ClaimInv
  <2> QED
    BY <1>1, <2>2, <2>3, <2>4 DEF InHand, IsClaimer, IsOpen, AtRest
<1>6. CASE row'[i] # row[i]
  <2>1. ASSUME NEW e \in Edits, WriteEdit(e) PROVE edit[e].item = i
    BY <1>6, <2>1 DEF WriteEdit, EditsOK, RowsOK
  <2>2. ASSUME NEW j \in Items, Remove(j) PROVE FALSE
    BY <1>2, <1>6, <2>2 DEF Remove, RowsOK, Exists
  <2> QED
    BY <1>5, <1>6, <2>1, <2>2 DEF ReadForEdit
<1> QED
  BY <1>4, <1>6

LEMMA AttendOfPrints ==
    ASSUME QueueTypeOK, LinkInv, AttendInv, NEW d \in Prints, PrintStep(d)
    PROVE  AttendInv'
<1>1. UNCHANGED <<row, request, finished>> /\ Regular' \subseteq Regular /\ upset \subseteq upset'
  BY PrintMoves DEF Regular
<1>2. ASSUME NEW i \in Regular' \ upset', Exists(i)' PROVE InHand(i)'
  <2>1. InHand(i)
    BY <1>1, <1>2 DEF AttendInv, Exists
  <2>2. \A e \in Prints :
          \/ print'[e] = print[e]
          \/ /\ print'[e].item = print[e].item /\ print'[e].printer = print[e].printer
             /\ print[e].item = i => /\ print[e].state \notin {"none", "lost"}
                                     /\ print'[e].state \notin {"none", "failed", "lost"}
          \/ print[e].state = "none" /\ print'[e].item # i
    BY <1>2, <2>1, PrintMoves DEF InHand, Regular
  <2>3. \A e \in Prints : print[e].state = "none" => print[e].item # i
    <3>1. i \in Items
      BY <1>2 DEF Regular
    <3> QED
      BY <3>1, QueueAssumption DEF LinkInv, QueueAssumption
  <2>4. Attended(i) => Attended(i)'
    BY <1>1, <2>2, <2>3 DEF Attended
  <2>5. \A e \in Prints : IsOpen(e, i)' => IsOpen(e, i) /\ print'[e].printer = print[e].printer
    BY <1>1, <2>2 DEF IsOpen
  <2>6. \A e \in Prints : print'[e].item = i => print'[e].state \notin {"failed", "lost"}
    BY <2>1, <2>2 DEF InHand
  <2>7. \A r \in Requests : IsClaimer(r, i)' => row'[i].status = "dispatching"
    BY <1>1, <2>1 DEF InHand, IsClaimer
  <2>8. \A e \in Prints : IsOpen(e, i)' => \/ row'[i].printer = print'[e].printer
                                           \/ \E r \in Requests : IsLinker(r, e, i)'
    BY <1>1, <2>1, <2>5 DEF InHand, IsLinker
  <2> QED
    BY <1>1, <2>1, <2>4, <2>6, <2>7, <2>8 DEF InHand
<1> QED
  BY <1>2 DEF AttendInv

LEMMA AttendOfHandlers ==
    ASSUME QueueTypeOK, LinkInv, ClaimInv, AttendInv, NEW d \in Prints, HandlerStep(d)
    PROVE  AttendInv'
<1>. USE QueueAssumption DEF QueueAssumption, QueueTypeOK
<1>1. UNCHANGED <<request, print>> /\ Regular' \subseteq Regular /\ upset \subseteq upset'
  BY DEF HandlerStep, FindStarted, WriteStarted, StartedFails, FindFinished, WriteFinished, FinishedFails, ghostVars,
         Regular
<1>2. SUFFICES ASSUME NEW i \in Items, i \in Regular \ upset', i \in Regular', Exists(i)' PROVE InHand(i)'
  BY <1>1 DEF AttendInv, Regular
<1>3. Exists(i) => InHand(i)
  BY <1>1, <1>2 DEF AttendInv
<1>4. CASE FindStarted(d) \/ StartedFails(d)
  BY <1>1, <1>2, <1>3, <1>4, InHandKept DEF FindStarted, StartedFails, Exists, IsClaimer
<1>5. CASE WriteStarted(d)
  <2>1. finished' = finished
    BY <1>5 DEF WriteStarted
  <2>2. CASE started[d].item = i
    <3>1. Exists(i) /\ InHand(i)
      BY <1>2, <1>3, <1>5, <2>2 DEF WriteStarted, RowsOK, Exists
    <3>2. row'[i].status = "printing" /\ row'[i].printer = row[i].printer
      BY <1>5, <2>2, <3>1 DEF WriteStarted, RowsOK
    <3>3. finished[d].at = "none"
      BY <1>2, <1>5, <2>2 DEF WriteStarted, HandlersOK
    <3>4. print[d].item = i /\ print[d].state \in {"printing", "over"}
      BY <1>2, <1>5, <2>2 DEF WriteStarted, LinkInv, Regular
    <3>5. IsOpen(d, i) /\ Attended(i)'
      BY <1>1, <2>1, <3>3, <3>4 DEF IsOpen, Attended
    <3>6. \A r \in Requests : ~IsClaimer(r, i)
      BY <1>2, <3>5 DEF ClaimInv
    <3> QED
      BY <1>1, <2>1, <3>1, <3>2, <3>5, <3>6 DEF InHand, IsClaimer, IsOpen, IsLinker
  <2>3. CASE started[d].item # i
    <3>1. row'[i] = row[i]
      BY <1>5, <2>3 DEF WriteStarted, RowsOK
    <3> QED
      BY <1>1, <1>2, <1>3, <2>1, <3>1, InHandKept DEF Exists, IsClaimer
  <2> QED
    BY <2>2, <2>3
<1>6. CASE FindFinished(d)
  <2>1. PICK h \in Lookup(d, {"dispatching", "printing"}) : finished' = [finished EXCEPT ![d] = h]
    BY <1>6 DEF FindFinished
  <2>2. row' = row /\ finished[d].at = "none" /\ print[d].state \in Ended
    BY <1>6 DEF FindFinished
  <2>3. finished'[d] = h /\ \A e \in Prints : e # d => finished'[e] = finished[e]
    BY <2>1 DEF HandlersOK
  <2>4. InHand(i)
    BY <1>2, <1>3, <2>2 DEF Exists
  <2>5. print[d].item = i => \/ h.at = "writing"
                             \/ h = Handled /\ ~(/\ row[i].printer = print[d].printer
                                                 /\ row[i].status \in {"dispatching", "printing"})
    BY <2>1, <2>2, LookupFindsOwn DEF Ended
  <2>6. row[i].status \in {"dispatching", "printing"} => Attended(i)'
    <3>1. CASE print[d].item # i \/ h.at = "writing"
      BY <1>1, <2>2, <2>3, <2>4, <3>1 DEF InHand, Attended
    <3>2. CASE print[d].item = i /\ h.at # "writing" /\ row[i].status \in {"dispatching", "printing"}
      <4>1. IsOpen(d, i) /\ row[i].printer # print[d].printer
        BY <2>2, <2>5, <3>2 DEF IsOpen, Ended
      <4>2. PICK r \in Requests : IsLinker(r, d, i)
        BY <2>4, <4>1 DEF InHand
      <4> QED
        BY <1>1, <4>2 DEF Attended, IsLinker
    <3> QED
      BY <3>1, <3>2
  <2>7. \A e \in Prints : IsOpen(e, i)' => IsOpen(e, i)
    BY <1>1, <2>2, <2>3 DEF IsOpen
  <2> QED
    BY <1>1, <2>2, <2>4, <2>6, <2>7 DEF InHand, IsClaimer, IsLinker
<1>7. CASE WriteFinished(d)
  <2>1. finished'[d].at = "done" /\ \A e \in Prints : e # d => finished'[e] = finished[e]
    BY <1>7 DEF WriteFinished, HandlersOK, Handled
  <2>2. /\ finished[d].item \in Items /\ finished[d].at = "writing" /\ print[d].state \in Ended
        /\ finished[d].item = i <=> print[d].item = i
    BY <1>2, <1>7 DEF WriteFinished, HandlersOK, LinkInv, Regular
  <2>3. \A e \in Prints : IsOpen(e, i)' => IsOpen(e, i)
    BY <1>1, <2>1, <2>2 DEF IsOpen
  <2>4. CASE print[d].item = i
    <3>1. Exists(i) /\ InHand(i)
      <4>1. ~Exists(i) => row' = row
        BY <1>7, <2>2, <2>4 DEF WriteFinished
      <4> QED
        BY <1>2, <1>3, <4>1 DEF Exists
    <3>2. row'[i].status \in AtRest /\ row'[i].printer = row[i].printer
      <4>1. \/ row' = AfterSuccess(i, finished[d].count)
            \/ row' = [row EXCEPT ![i].status = "failed"]
        BY <1>7, <2>2, <2>4, <3>1 DEF WriteFinished
      <4>2. Exists(i)'
        BY <1>2
      <4>3. \A n \in Nat : /\ AfterSuccess(i, n)[i].status \in {"gone", "queued"}
                           /\ AfterSuccess(i, n)[i].printer = row[i].printer
        BY DEF AfterSuccess, RowsOK
      <4>4. finished[d].count \in Nat
        BY DEF HandlersOK
      <4> QED
        BY <4>1, <4>2, <4>3, <4>4 DEF RowsOK, Exists, AtRest
    <3>3. IsOpen(d, i)
      BY <2>2, <2>4 DEF IsOpen, Ended
    <3>4. \A r \in Requests : ~IsClaimer(r, i)
      BY <1>2, <3>3 DEF ClaimInv
    <3> QED
      BY <1>1, <2>3, <3>1, <3>2, <3>4 DEF InHand, IsClaimer, IsLinker, AtRest
  <2>5. CASE print[d].item # i
    <3>1. row'[i] = row[i]
      <4>1. \A n \in Nat : AfterSuccess(finished[d].item, n)[i] = row[i]
        BY <2>2, <2>5 DEF AfterSuccess, RowsOK
      <4>2. finished[d].count \in Nat
        BY DEF HandlersOK
      <4> QED
        BY <1>7, <2>2, <2>5, <4>1, <4>2 DEF WriteFinished, RowsOK
    <3>2. InHand(i)
      BY <1>2, <1>3, <3>1 DEF Exists
    <3>3. Attended(i) => Attended(i)'
      BY <1>1, <2>1, <2>5 DEF Attended
    <3> QED
      BY <1>1, <2>3, <3>1, <3>2, <3>3 DEF InHand, IsClaimer, IsLinker
  <2> QED
    BY <2>4, <2>5
<1>8. CASE FinishedFails(d)
  <2>1. finished'[d].at = "done" /\ \A e \in Prints : e # d => finished'[e] = finished[e]
    BY <1>8 DEF FinishedFails, HandlersOK, Handled
  <2>2. print[d].item # i /\ row' = row
    BY <1>2, <1>8 DEF FinishedFails, LinkInv, Regular
  <2>3. InHand(i)
    BY <1>2, <1>3, <2>2 DEF Exists
  <2>4. Attended(i) => Attended(i)'
    BY <1>1, <2>1, <2>2 DEF Attended
  <2>5. \A e \in Prints : IsOpen(e, i)' => IsOpen(e, i)
    BY <1>1, <2>1, <2>2 DEF IsOpen
  <2> QED
    BY <1>1, <2>2, <2>3, <2>4, <2>5 DEF InHand, IsClaimer, IsLinker
<1> QED
  BY <1>4, <1>5, <1>6, <1>7, <1>8 DEF HandlerStep

LEMMA AttendOfCrash ==
    ASSUME QueueTypeOK, LinkInv, ClaimInv, AttendInv, Crash
    PROVE  AttendInv'
<1>. USE QueueAssumption DEF QueueAssumption, QueueTypeOK
<1>1. ASSUME NEW i \in Regular' \ upset', Exists(i)' PROVE InHand(i)'
  <2>1. row' = row /\ i \in Regular \ upset /\ i \in Items /\ Exists(i)
    BY <1>1 DEF Crash, Exists, Regular
  <2>2. row[i].status \in AtRest
    BY <1>1, <2>1 DEF Crash, RowsOK, Statuses, AtRest, Exists
  <2>3. \A d \in Prints : ~IsOpen(d, i)
    BY <2>1, <2>2 DEF ClaimInv
  <2>4. \A d \in Prints : ~IsOpen(d, i)'
    BY <2>1, <2>3, OpenAfterCrash
  <2>5. \A d \in Prints : print[d].item = i => print[d].state \notin {"dispatching", "failed", "lost"}
    BY <2>1, <2>3 DEF AttendInv, InHand, IsOpen, LinkInv, HandlersOK, Ended
  <2>6. \A d \in Prints : print'[d].item = i => print'[d].state \notin {"failed", "lost"}
    BY <2>5, PrintsOfCrash DEF AfterCrash
  <2>7. \A r \in Requests : ~IsClaimer(r, i)'
    BY DEF Crash, IsClaimer, NoRequest
  <2> QED
    BY <2>1, <2>2, <2>4, <2>6, <2>7 DEF InHand, AtRest
<1> QED
  BY <1>1 DEF AttendInv

LEMMA AttendSuffices == ASSUME AttendInv PROVE NotStranded
BY DEF AttendInv, InHand, NotStranded, Exists
-----------------------------------------------------------------------------
(* Theorems *)

LEMMA PlateInvKept ==
    ASSUME QueueTypeOK, PlateInv, [QueueNext]_allVars
    PROVE  PlateInv'
<1>1. CASE UNCHANGED plateVars
  BY <1>1 DEF plateVars, PlateInv, PlateTypeOK, PlateSound, WritesOn
<1>2. ASSUME NEW d \in Prints, End(d) PROVE PlateInv'
  <2>1. /\ d \in Writers /\ print[d].printer \in Printers
        /\ BeginWrite(d, print[d].printer, FALSE) /\ occupied' = occupied \cup {print[d].printer}
    BY <1>2 DEF End, PlateFinished, Writers, QueueTypeOK, PrintsOK
  <2> QED
    BY <2>1, WriteBegins
<1>3. ASSUME NEW w \in Writers, PlateOnly(w) PROVE PlateInv'
  BY <1>3, WriteGoesOn DEF PlateOnly
<1>7. ASSUME NEW w \in Writers, PlateFails(w) PROVE PlateInv'
  BY <1>7, WriteFailsSound DEF PlateFails
<1>4. ASSUME NEW w \in PlateRequests, NEW p \in Printers, UserOfPlate(w, p) PROVE PlateInv'
  BY <1>4, WriteBegins DEF UserOfPlate, ClearPlate, NeedsClear, Writers
<1>5. CASE Crash
  BY <1>5, RestartSound DEF Crash
<1>6. \/ UNCHANGED plateVars \/ Crash
      \/ \E d \in Prints : End(d)
      \/ \E w \in Writers : PlateOnly(w) \/ PlateFails(w)
      \/ \E w \in PlateRequests, p \in Printers : UserOfPlate(w, p)
  BY DEF QueueNext, allVars, RequestStep, ReadForDispatch, Claim, Accept, Refuse, Link, RequestFails, WriteEdit,
         ReadForEdit, Remove, PrintStep, Fail, Withdraw, TakeUp, TakeUpAgain, Begin, HandlerStep, FindStarted,
         WriteStarted, StartedFails, FindFinished, WriteFinished, FinishedFails
<1> QED
  BY <1>1, <1>2, <1>3, <1>4, <1>5, <1>6, <1>7

LEMMA QueueTypesKept ==
    ASSUME QueueTypeOK, PlateInv, [QueueNext]_allVars
    PROVE  QueueTypeOK'
<1>1. CASE PlateSteps
  <2>1. PlateTypeOK'
    BY PlateInvKept DEF PlateInv
  <2>2. disturbances' \in 0..MaxDisturbances
    BY <1>1, QueueAssumption DEF PlateSteps, PlateOnly, PlateFails, UserOfPlate, queueVars, Disturbs, QueueTypeOK, QueueAssumption
  <2> QED
    BY <1>1, <2>1, <2>2, PlateStepsApart
    DEF QueueTypeOK, RowsOK, RequestsOK, EditsOK, PrintsOK, HandlersOK, ghostVars
<1>2. CASE UNCHANGED allVars
  BY <1>2 DEF allVars, queueVars, plateVars, ghostVars, QueueTypeOK, PlateTypeOK, RowsOK, RequestsOK,
              EditsOK, PrintsOK, HandlersOK
<1> QED
  BY <1>1, <1>2, StepsByGroup, TypesOfRequests, TypesOfUsers, TypesOfPrints, TypesOfHandlers, TypesOfCrash

\* Every value in the plugins' tables and in their handlers is one the code works with: rows, requests
\* and handlers that are under way name an item, a print and a printer (print-queue/routes.ts, completion.ts).
THEOREM QueueTypes == QueueSpec => []QueueTypeOK
<1>1. QueueInit => QueueTypeOK /\ PlateInv
  BY TypesInit, PlateInitSound DEF QueueInit
<1>2. (QueueTypeOK /\ PlateInv) /\ [QueueNext]_allVars => (QueueTypeOK /\ PlateInv)'
  BY QueueTypesKept, PlateInvKept
<1> QED
  BY <1>1, <1>2, PTL DEF QueueSpec

\* What the print guard believes is the settings row as soon as no write is under way, for any number of
\* printers and writers, unless the latest writes on the printer met, or one of them was cut short or
\* rejected (plate-clearing/index.ts).
THEOREM PlateCacheFollowsRow == QueueSpec => []CacheFollowsRow
<1>1. QueueInit => QueueTypeOK /\ PlateInv
  BY TypesInit, PlateInitSound DEF QueueInit
<1>2. (QueueTypeOK /\ PlateInv) /\ [QueueNext]_allVars => (QueueTypeOK /\ PlateInv)'
  BY QueueTypesKept, PlateInvKept
<1>3. QueueTypeOK /\ PlateInv => CacheFollowsRow
  BY DEF PlateInv, PlateSound, CacheFollowsRow
<1> QED
  BY <1>1, <1>2, <1>3, PTL DEF QueueSpec

\* No request's print is accepted onto a plate with a print on it whose end has been recorded, whatever
\* was cleared or restarted in between, unless that record met another write, was cut short or rejected;
\* a dispatch that is retried is not asked (print-guards.ts with plate-clearing/index.ts).
THEOREM PlatesAreGuarded == QueueSpec => PlateGuarded
<1>. DEFINE PInv == QueueTypeOK /\ PlateInv /\ JobInv
<1>1. QueueInit => PInv
  BY TypesInit, PlateInitSound, LinksInit DEF QueueInit
<1>2. PInv /\ [QueueNext]_allVars => PInv'
  BY QueueTypesKept, PlateInvKept, JobsKept
<1>. DEFINE Guarded(d) ==
       LET p == print'[d].printer IN
       print[d].state = "none" /\ print'[d].state = "dispatching" /\ print'[d].job = d
           => p \notin occupied \/ WritesOn(p) # {} \/ p \in unsure
<1>3. ASSUME QueueTypeOK, PlateInv, JobInv, [QueueNext]_allVars, NEW d \in Prints PROVE Guarded(d)
  <2>. SUFFICES ASSUME print[d].state = "none", print'[d].state = "dispatching", print'[d].job = d
                PROVE  LET p == print'[d].printer IN p \notin occupied \/ WritesOn(p) # {} \/ p \in unsure
    OBVIOUS
  <2>1. \/ \E r \in Requests, e \in Prints : Accept(r, e)
        \/ \E e \in Prints : PrintStep(e)
        \/ Crash \/ print' = print
    BY <1>3, StepsByGroup, PlateStepsApart
    DEF RequestStep, ReadForDispatch, Claim, Refuse, Link, RequestFails, WriteEdit, ReadForEdit, Remove, HandlerStep,
        FindStarted, WriteStarted, StartedFails, FindFinished, WriteFinished, FinishedFails, allVars, queueVars
  <2>2. PICK r \in Requests : Accept(r, d)
    <3>1. ASSUME NEW e \in Prints, PrintStep(e) PROVE FALSE
      <4>1. print[e].state # "none" /\ print'[d].job = print[e].job
        BY <1>3, <3>1, PrintMoves
      <4>2. print[print[e].job].state # "none"
        BY <1>3, <4>1 DEF JobInv
      <4> QED
        BY <4>1, <4>2
    <3>2. ~Crash
      BY <1>3, PrintsOfCrash DEF AfterCrash
    <3>3. ASSUME NEW r \in Requests, NEW e \in Prints, Accept(r, e) PROVE e = d
      BY <1>3, <3>3 DEF Accept, QueueTypeOK, PrintsOK
    <3> QED
      BY <2>1, <3>1, <3>2, <3>3
  <2>3. print'[d].printer \in Printers /\ PlateAllows(print'[d].printer)
    BY <1>3, <2>2 DEF Accept, QueueTypeOK, PrintsOK, RequestsOK
  <2> QED
    BY <1>3, <2>3 DEF PlateAllows, PlateInv, PlateSound
<1>4. PInv /\ [QueueNext]_allVars => [\A d \in Prints : Guarded(d)]_allVars
  BY <1>3
<1> QED
  BY <1>1, <1>2, <1>4, PTL DEF QueueSpec, PlateGuarded

QueueInv == QueueTypeOK /\ PlateInv /\ LinkInv /\ ClaimInv /\ CountInv /\ AttendInv

LEMMA QueueInvInit == QueueInit => QueueInv
BY TypesInit, PlateInitSound, LinksInit, ClaimsInit, CountsInit, AttendInit DEF QueueInv, QueueInit

LEMMA QueueInvKept ==
    ASSUME QueueInv, [QueueNext]_allVars
    PROVE  QueueInv'
<1>. USE DEF QueueInv
<1>1. QueueTypeOK' /\ PlateInv'
  BY QueueTypesKept, PlateInvKept
<1>2. CASE UNCHANGED <<row, request, edit, print, started, finished, ghostVars>>
  <2>1. LinkInv'
    BY <1>2 DEF LinkInv, ghostVars
  <2>2. ClaimInv'
    BY <1>2 DEF ClaimInv, IsClaimer, IsOpen, ghostVars, Regular
  <2>3. CountInv'
    BY <1>2 DEF CountInv, Counted, Exists, ghostVars, Regular
  <2>4. AttendInv'
    BY <1>2 DEF AttendInv, InHand, Attended, IsClaimer, IsOpen, IsLinker, Exists, ghostVars, Regular
  <2> QED
    BY <1>1, <2>1, <2>2, <2>3, <2>4
<1>3. CASE PlateSteps \/ UNCHANGED allVars
  BY <1>2, <1>3, PlateStepsApart DEF allVars, queueVars
<1>4. ASSUME NEW r \in Requests, RequestStep(r) \/ \E i \in Items, p \in Printers : ReadForDispatch(r, i, p)
      PROVE  QueueInv'
  BY <1>1, <1>4, LinksOfRequests, ClaimsOfRequests, CountsOfRequests, AttendOfRequests
<1>5. CASE \/ \E e \in Edits : WriteEdit(e) \/ \E i \in Items : ReadForEdit(e, i)
           \/ \E i \in Items : Remove(i)
  BY <1>1, <1>5, LinksOfUsers, ClaimsOfUsers, CountsOfUsers, AttendOfUsers
<1>6. ASSUME NEW d \in Prints, PrintStep(d) PROVE QueueInv'
  BY <1>1, <1>6, LinksOfPrints, ClaimsOfPrints, CountsOfPrints, AttendOfPrints
<1>7. ASSUME NEW d \in Prints, HandlerStep(d) PROVE QueueInv'
  BY <1>1, <1>7, LinksOfHandlers, ClaimsOfHandlers, CountsOfHandlers, AttendOfHandlers
<1>8. CASE Crash
  BY <1>1, <1>8, LinksOfCrash, ClaimsOfCrash, CountsOfCrash, AttendOfCrash
<1> QED
  BY <1>3, <1>4, <1>5, <1>6, <1>7, <1>8, StepsByGroup

\* Whatever names the items are printed under, no two prints of a regular item are alive at once, and none
\* is while the item can be dispatched: the claim of the row is enough as long as nobody writes over a
\* status unread, takes up a dispatch that was announced as ended, or mistakes the item for another.
THEOREM QueuePrintsOnce == QueueSpec => []PrintedOnceAtATime
<1>1. QueueInv /\ [QueueNext]_allVars => QueueInv'
  BY QueueInvKept
<1>2. QueueInv => PrintedOnceAtATime
  BY ClaimsSuffice DEF QueueInv
<1> QED
  BY <1>1, <1>2, QueueInvInit, PTL DEF QueueSpec

\* The copies of the row of a regular item are what was counted for it modulo its quantity, and no more than
\* its successful prints, although the row is written from a count that was read before (handleFinished,
\* print-queue/completion.ts).
THEOREM QueueCopiesCounted == QueueSpec => []CopiesCounted
<1>1. QueueInv /\ [QueueNext]_allVars => QueueInv'
  BY QueueInvKept
<1>2. QueueInv => CopiesCounted
  BY CountsSuffice DEF QueueInv
<1> QED
  BY <1>1, <1>2, QueueInvInit, PTL DEF QueueSpec

\* The ways listed at NotStranded are the only ones in which a regular item is left under way with nobody
\* to move it on.
THEOREM QueueNotStranded == QueueSpec => []NotStranded
<1>1. QueueInv /\ [QueueNext]_allVars => QueueInv'
  BY QueueInvKept
<1>2. QueueInv => NotStranded
  BY AttendSuffices DEF QueueInv
<1> QED
  BY <1>1, <1>2, QueueInvInit, PTL DEF QueueSpec
=============================================================================
