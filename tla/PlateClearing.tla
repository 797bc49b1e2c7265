----------------------------- MODULE PlateClearing -----------------------------
(***************************************************************************)
(* The plate-clearing plugin: after a print its printer takes no other one *)
(* until somebody has confirmed that the build plate is clear.  The state  *)
(* is a settings row; the print guard is synchronous and reads a cache of  *)
(* it, which whoever writes the row refreshes afterwards.                  *)
(*                                                                         *)
(* A write is the end of a print or a request.  It awaits the write of the *)
(* row and then a read of it; between any two of these another one may     *)
(* run, and either may reject: the write is over then, and nobody brings   *)
(* row and cache together before the next one.                             *)
(***************************************************************************)
EXTENDS Naturals

CONSTANTS
    Printers, NoPrinter,
    Prints,         \* the prints that may end
    PlateRequests   \* requests that clear a plate or declare it occupied

ASSUME PlateAssumption == NoPrinter \notin Printers /\ Prints \cap PlateRequests = {}

VARIABLES
    cleared,      \* cleared[p]: the settings row, absent counts as cleared
    clearedCache, \* what the guard believes
    writes,       \* writes[w]: where w is, on which printer, and the value it carries
    occupied,     \* ghost: a print lies on p's plate, nobody has confirmed its removal
    unsure        \* ghost: printers whose latest writes met, or were cut short, or failed

plateVars == <<cleared, clearedCache, writes, occupied, unsure>>

Writers == Prints \cup PlateRequests
NoWrite == [at |-> "idle", printer |-> NoPrinter, value |-> FALSE]
Written == [at |-> "done", printer |-> NoPrinter, value |-> FALSE]

PlateTypeOK ==
    /\ cleared \in [Printers -> BOOLEAN] /\ clearedCache \in [Printers -> BOOLEAN]
    /\ writes \in [Writers -> [at : {"idle", "setting", "caching", "done"},
                               printer : Printers \cup {NoPrinter}, value : BOOLEAN]]
    /\ \A w \in Writers : writes[w].at \in {"setting", "caching"} => writes[w].printer \in Printers
    /\ occupied \subseteq Printers /\ unsure \subseteq Printers

PlateInit ==
    /\ cleared = [p \in Printers |-> TRUE]
    /\ clearedCache = [p \in Printers |-> TRUE]
    /\ writes = [w \in Writers |-> NoWrite]
    /\ occupied = {} /\ unsure = {}

-----------------------------------------------------------------------------

\* Mutant of PlateAllows: whatever the cache says.
PlateAllowsAlways(p) == p \in Printers

\* The guard: denied when the cache says that the plate is occupied.
PlateAllows(p) == clearedCache[p]

WritesOn(p) == {w \in Writers : writes[w].at \in {"setting", "caching"} /\ writes[w].printer = p}

BeginWrite(w, p, value) ==
    /\ writes[w].at = "idle"
    /\ writes' = [writes EXCEPT ![w] = [at |-> "setting", printer |-> p, value |-> value]]
    /\ unsure' = IF WritesOn(p) # {} THEN unsure \cup {p} ELSE unsure \ {p}
    /\ UNCHANGED <<cleared, clearedCache>>

\* onJobFinished, as far as its first await.
PlateFinished(w, p) == BeginWrite(w, p, FALSE) /\ occupied' = occupied \cup {p}

\* A user has emptied the plate and says so.
ClearPlate(w, p) == BeginWrite(w, p, TRUE) /\ occupied' = occupied \ {p}

\* A user says that the plate is not clear.
NeedsClear(w, p) == BeginWrite(w, p, FALSE) /\ occupied' = occupied \cup {p}

\* Mutant of SetCleared: the row is read for the cache before it is written.
SetClearedLate(w) ==
    /\ writes[w].at = "setting"
    /\ cleared' = [cleared EXCEPT ![writes[w].printer] = writes[w].value]
    /\ writes' = [writes EXCEPT ![w].at = "caching", ![w].value = cleared[writes[w].printer]]
    /\ UNCHANGED <<clearedCache, occupied, unsure>>

\* setCleared has written the row and refreshCache reads it; the answer travels
\* back.  Another write that falls between the two is one that met this one.
SetCleared(w) ==
    /\ writes[w].at = "setting"
    /\ cleared' = [cleared EXCEPT ![writes[w].printer] = writes[w].value]
    /\ writes' = [writes EXCEPT ![w].at = "caching"]
    /\ UNCHANGED <<clearedCache, occupied, unsure>>

RefreshCache(w) ==
    /\ writes[w].at = "caching"
    /\ clearedCache' = [clearedCache EXCEPT ![writes[w].printer] = writes[w].value]
    /\ writes' = [writes EXCEPT ![w] = Written]
    /\ UNCHANGED <<cleared, occupied, unsure>>

\* The write of the row rejects, whether it took effect or not, or the read of
\* it does.  onJobFinished logs it and the request answers 500; the cache is as
\* it was.
WriteFails(w) ==
    /\ writes[w].at \in {"setting", "caching"}
    /\ \/ UNCHANGED cleared
       \/ writes[w].at = "setting" /\ cleared' = [cleared EXCEPT ![writes[w].printer] = writes[w].value]
    /\ writes' = [writes EXCEPT ![w] = Written]
    /\ unsure' = unsure \cup {writes[w].printer}
    /\ UNCHANGED <<clearedCache, occupied>>

PlateStep(w) == SetCleared(w) \/ RefreshCache(w)

\* A new process: what was in flight is gone, the caches are primed from the rows.
PlateRestart ==
    /\ writes' = [w \in Writers |-> IF writes[w].at = "idle" THEN NoWrite ELSE Written]
    /\ clearedCache' = cleared
    /\ unsure' = unsure \cup {p \in Printers : WritesOn(p) # {}}
    /\ UNCHANGED <<cleared, occupied>>

-----------------------------------------------------------------------------

\* Unless the latest writes on a printer met, or one was cut short by a restart or rejected, its guard
\* knows the settings row as soon as no write is under way: what is cached is what was written last.
\* The next write that runs alone and to its end brings the two together again.
CacheFollowsRow ==
    \A p \in Printers \ unsure :
        WritesOn(p) = {} => clearedCache[p] = cleared[p]
=============================================================================
