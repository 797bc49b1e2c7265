---------------------------- MODULE PrinterCommands ----------------------------
(***************************************************************************)
(* The commands to one printer whose replies are waited for: requests for  *)
(* its pressure-advance profiles, and automatic calibrations.  A reply     *)
(* names the number its command was sent with, which is counted from one   *)
(* whenever the printer is connected anew; replies come with the reports.  *)
(***************************************************************************)
EXTENDS Naturals

CONSTANTS
    Requests,
    Calibrations    \* those that are automatic calibrations

VARIABLES
    sequenceId,     \* the last number
    connected,      \* the printer's bridge has a session
    request,        \* request[r]: where it is
    number,         \* number[r]: the number it waits for
    replies,        \* the replies that are still to come
    answer,         \* ghost: answer[r]: the request whose reply answered r
    restarted       \* ghost: numbers began again while a reply was still to come

commandVars == <<sequenceId, connected, request, number, replies, answer, restarted>>

CommandTypeOK ==
    /\ sequenceId \in Nat
    /\ connected \in BOOLEAN
    /\ request \in [Requests -> {"none", "waiting", "answered", "failed"}]
    /\ number \in [Requests -> Nat]
    /\ replies \subseteq [to : Requests, seq : Nat]
    /\ answer \in [Requests -> Requests]
    /\ restarted \in BOOLEAN

CommandInit ==
    /\ sequenceId = 0 /\ connected = TRUE
    /\ request = [r \in Requests |-> "none"] /\ number = [r \in Requests |-> 0]
    /\ replies = {} /\ answer = [r \in Requests |-> r]
    /\ restarted = FALSE

\* A request that waits, of those in R, is rejected.
Rejected(R) == [r \in Requests |-> IF r \in R /\ request[r] = "waiting" THEN "failed" ELSE request[r]]

\* publishCommandWithSequence: without a session the command is dropped, and a
\* calibration has every other one rejected with it.
Ask(r) ==
    /\ request[r] = "none"
    /\ sequenceId' = sequenceId + 1
    /\ IF connected
       THEN /\ request' = [request EXCEPT ![r] = "waiting"]
            /\ number' = [number EXCEPT ![r] = sequenceId']
            /\ replies' = replies \cup {[to |-> r, seq |-> sequenceId']}
       ELSE /\ request' = [Rejected(IF r \in Calibrations THEN Calibrations ELSE {})
                               EXCEPT ![r] = "failed"]
            /\ UNCHANGED <<number, replies>>
    /\ UNCHANGED <<connected, answer, restarted>>

\* A command nobody waits for.
PublishCommand ==
    /\ sequenceId' = sequenceId + 1
    /\ UNCHANGED <<connected, request, number, replies, answer, restarted>>

\* The timer of a request that waits.
RequestTimeout(r) ==
    /\ request[r] = "waiting"
    /\ request' = [request EXCEPT ![r] = "failed"]
    /\ UNCHANGED <<sequenceId, connected, number, replies, answer, restarted>>

\* ingestBridgeReport: profiles are taken by the request that waits for their
\* number.  What a calibration waits for is not looked at: that is done in
\* handleMessage, which nothing calls.
Hear(x) ==
    LET mine == {r \in Requests \ Calibrations :
                    request[r] = "waiting" /\ number[r] = x.seq /\ x.to \notin Calibrations} IN
    /\ request' = [r \in Requests |-> IF r \in mine THEN "answered" ELSE request[r]]
    /\ answer' = [r \in Requests |-> IF r \in mine THEN x.to ELSE answer[r]]
    /\ replies' = replies \ {x}
    /\ UNCHANGED <<sequenceId, connected, number, restarted>>

\* A reply, or its command, is lost.
Lose(x) ==
    /\ replies' = replies \ {x}
    /\ UNCHANGED <<sequenceId, connected, request, number, answer, restarted>>

\* markBridgePrinterOffline, and the offline timer: every request is rejected.
Offline ==
    /\ request' = Rejected(Requests)
    /\ UNCHANGED <<sequenceId, connected, number, replies, answer, restarted>>

\* update with another bridge, host or access code: every request is rejected, and
\* the numbers begin again.
Renew ==
    /\ request' = Rejected(Requests)
    /\ sequenceId' = 0
    /\ restarted' = (restarted \/ replies # {})
    /\ UNCHANGED <<connected, number, replies, answer>>

\* The bridge's session ends, or begins.
SessionTurns ==
    /\ connected' = ~connected
    /\ UNCHANGED <<sequenceId, request, number, replies, answer, restarted>>

CommandNext ==
    \/ \E r \in Requests : Ask(r) \/ RequestTimeout(r)
    \/ \E x \in replies : Hear(x) \/ Lose(x)
    \/ PublishCommand \/ Offline \/ Renew \/ SessionTurns

CommandSpec == CommandInit /\ [][CommandNext]_commandVars

-----------------------------------------------------------------------------
(* Properties *)

\* A request is answered by its own reply, unless the numbers began again while a
\* reply was still to come.
AnswersAreOwn ==
    ~restarted => \A r \in Requests : request[r] = "answered" => answer[r] = r

=============================================================================
