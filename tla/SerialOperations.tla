-------------------------- MODULE SerialOperations --------------------------
(***************************************************************************)
(* What EVBoxClient.transaction promises to the operations of the          *)
(* integration: they run one after the other, whoever waits for whom.  An  *)
(* operation is everything between the outermost entry of a task and its   *)
(* exit; the BLE sessions of an operation are the only ones meanwhile.     *)
(***************************************************************************)
CONSTANTS
    Tasks,   \* asyncio tasks
    NoTask   \* nobody

VARIABLES
    holder,  \* the task whose operation runs
    using    \* the tasks with a BLE session under way

operation == <<holder, using>>

Init ==
    /\ holder = NoTask
    /\ using = {}

\* An operation begins; one that is a single session begins with it.
Begin(t) ==
    /\ holder = NoTask
    /\ holder' = t
    /\ using' \in {{}, {t}}

StartSession(t) ==
    /\ holder = t
    /\ using = {}
    /\ using' = {t}
    /\ UNCHANGED holder

EndSession(t) ==
    /\ using = {t}
    /\ using' = {}
    /\ UNCHANGED holder

\* An operation ends, and its last session with it if there is one.
End(t) ==
    /\ holder = t
    /\ using \subseteq {t}
    /\ holder' = NoTask
    /\ using' = {}

Next == \E t \in Tasks : Begin(t) \/ StartSession(t) \/ EndSession(t) \/ End(t)

Spec == Init /\ [][Next]_operation
=============================================================================
