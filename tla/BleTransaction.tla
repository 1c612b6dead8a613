--------------------------- MODULE BleTransaction ---------------------------
(***************************************************************************)
(* EVBoxClient.transaction, which every BLE session takes and which        *)
(* @serialized methods of the coordinator hold across several sessions:    *)
(* an asyncio.Lock, and the task that has it and may enter again.          *)
(*                                                                         *)
(* The lock is CPython's: a flag and a queue of waiters, each with a       *)
(* future.  Releasing completes the future of the first waiter, whose task *)
(* takes the lock in a later turn of the event loop; a task that waits may *)
(* be cancelled before or after its future is completed.                   *)
(***************************************************************************)
EXTENDS Naturals, SequencesExt

CONSTANTS
    Tasks,     \* asyncio tasks: the poll, services, entities' actions, forms
    NoTask,    \* no owner
    MaxDepth   \* how deep transactions of one task nest

ASSUME BleTransactionAssumption ==
    /\ NoTask \notin Tasks
    /\ MaxDepth \in Nat \ {0}

VARIABLES
    locked,   \* Lock._locked
    waiters,  \* Lock._waiters, as the tasks that wait
    future,   \* the state of a waiting task's future
    wanted,   \* what it waits to enter
    owner,    \* EVBoxClient._transaction_owner
    depth,    \* how many serialized methods a task is inside of
    session   \* is the task inside a BLE session?

lock   == <<locked, waiters, future, wanted, owner>>
within == <<depth, session>>
transaction == <<lock, within>>

-----------------------------------------------------------------------------
(***************************************************************************)
(* Types                                                                   *)
(***************************************************************************)

\* "woken": release() completed the future; "stopped": the task was cancelled
\* after that and before its turn.
Futures == {"none", "pending", "woken", "cancelled", "stopped"}

\* A task enters the transaction for a serialized method or for one session.
Levels == {"operation", "session"}

Waits(t) == future[t] # "none"

Inside(t) == depth[t] > 0 \/ session[t]

TypeOK ==
    /\ locked \in BOOLEAN
    /\ waiters \in Seq(Tasks)
    /\ future \in [Tasks -> Futures]
    /\ wanted \in [Tasks -> Levels]
    /\ owner \in Tasks \cup {NoTask}
    /\ depth \in [Tasks -> 0..MaxDepth]
    /\ session \in [Tasks -> BOOLEAN]

Init ==
    /\ locked = FALSE
    /\ waiters = <<>>
    /\ future = [t \in Tasks |-> "none"]
    /\ wanted = [t \in Tasks |-> "session"]
    /\ owner = NoTask
    /\ depth = [t \in Tasks |-> 0]
    /\ session = [t \in Tasks |-> FALSE]

-----------------------------------------------------------------------------
(***************************************************************************)
(* asyncio.Lock                                                            *)
(***************************************************************************)

\* acquire() does not wait: nobody has the lock, and nobody is in line for it.
Free == ~locked /\ \A i \in DOMAIN waiters : future[waiters[i]] = "cancelled"

\* _wake_up_first, with the waiters queue and their futures f
WakeFirst(queue, f) ==
    IF queue # <<>> /\ f[queue[1]] = "pending"
    THEN [f EXCEPT ![queue[1]] = "woken"]
    ELSE f

Wait(t, level) ==
    /\ waiters' = Append(waiters, t)
    /\ future' = [future EXCEPT ![t] = "pending"]
    /\ wanted' = [wanted EXCEPT ![t] = level]
    /\ UNCHANGED <<locked, owner, within>>

\* The first statement inside of the lock stores the owner.
Take(t) ==
    /\ locked' = TRUE
    /\ owner' = t

\* The finally of transaction() and, without an await between, release()
Release ==
    /\ owner' = NoTask
    /\ locked' = FALSE
    /\ future' = WakeFirst(waiters, future)
    /\ UNCHANGED <<waiters, wanted>>

-----------------------------------------------------------------------------
(***************************************************************************)
(* transaction()                                                           *)
(***************************************************************************)

Push(t, level) ==
    IF level = "session"
    THEN session' = [session EXCEPT ![t] = TRUE] /\ UNCHANGED depth
    ELSE depth' = [depth EXCEPT ![t] = @ + 1] /\ UNCHANGED session

\* Mutants of Owns: while somebody owns the transaction every task goes in; the
\* owning task waits like the others.
Owns_Anyone(t) == owner # NoTask

Owns_Never(t) == FALSE

\* The task that calls has the transaction already.
Owns(t) == owner = t

\* A session contains no other transaction, a serialized method may.
MayEnter(t, level) ==
    /\ ~Waits(t) /\ ~session[t]
    /\ level = "operation" => depth[t] < MaxDepth

Enter(t, level) ==
    /\ MayEnter(t, level)
    /\ \/ Owns(t) /\ Push(t, level) /\ UNCHANGED lock
       \/ /\ ~Owns(t) /\ Free
          /\ Take(t) /\ Push(t, level)
          /\ UNCHANGED <<waiters, future, wanted>>
       \/ ~Owns(t) /\ ~Free /\ Wait(t, level)

Leave(t, place) ==
    /\ waiters[place] = t
    /\ waiters' = RemoveAt(waiters, place)

\* A task's turn after it was woken: it has the lock.
Resume(t) ==
    /\ future[t] = "woken"
    /\ \E place \in DOMAIN waiters : Leave(t, place)
    /\ future' = [future EXCEPT ![t] = "none"]
    /\ wanted' = [wanted EXCEPT ![t] = "session"]
    /\ Take(t) /\ Push(t, wanted[t])

\* A task that waits is cancelled: the entry is unloaded, a form is closed.
Cancel(t) ==
    /\ future[t] \in {"pending", "woken"}
    /\ future' = [future EXCEPT ![t] =
                     IF @ = "pending" THEN "cancelled" ELSE "stopped"]
    /\ UNCHANGED <<locked, waiters, wanted, owner, within>>

\* Its turn after that: unless somebody has the lock, the next one must be woken.
GiveUp(t) ==
    /\ future[t] \in {"cancelled", "stopped"}
    /\ \E place \in DOMAIN waiters : Leave(t, place)
    /\ LET left == [future EXCEPT ![t] = "none"]
       IN  future' = IF locked THEN left ELSE WakeFirst(waiters', left)
    /\ wanted' = [wanted EXCEPT ![t] = "session"]
    /\ UNCHANGED <<locked, owner, within>>

\* Mutant of EndSession: the end of a session ends the method around it.
EndSession_EndsMethod(t) ==
    /\ session[t] /\ ~Waits(t)
    /\ session' = [session EXCEPT ![t] = FALSE]
    /\ depth' = [depth EXCEPT ![t] = @ - 1]
    /\ IF depth[t] <= 1 THEN Release ELSE UNCHANGED lock

\* A session ends, with its results, an error or because its task was cancelled.
EndSession(t) ==
    /\ session[t] /\ ~Waits(t)
    /\ session' = [session EXCEPT ![t] = FALSE]
    /\ IF depth[t] = 0 THEN Release ELSE UNCHANGED lock
    /\ UNCHANGED depth

\* A serialized method ends; only the outermost one had taken the lock.
EndOperation(t) ==
    /\ depth[t] > 0 /\ ~session[t] /\ ~Waits(t)
    /\ depth' = [depth EXCEPT ![t] = @ - 1]
    /\ IF depth[t] = 1 THEN Release ELSE UNCHANGED lock
    /\ UNCHANGED session

-----------------------------------------------------------------------------
Turn(t) == Resume(t) \/ GiveUp(t)

Ends(t) == EndSession(t) \/ EndOperation(t)

Next ==
    \E t \in Tasks :
       \/ \E level \in Levels : Enter(t, level)
       \/ Cancel(t) \/ Turn(t) \/ Ends(t)

Spec == Init /\ [][Next]_transaction

\* The event loop gives every task its turn. A session has timeouts, and a
\* serialized method runs a few sessions and methods and ends.
Fairness ==
    \A t \in Tasks :
       /\ WF_transaction(Turn(t))
       /\ WF_transaction(EndSession(t))
       /\ \A d \in 1..MaxDepth : SF_transaction(EndOperation(t) /\ depth[t] = d)

FairSpec == Spec /\ Fairness

-----------------------------------------------------------------------------
(***************************************************************************)
(* Properties                                                              *)
(***************************************************************************)

Holder == IF \E t \in Tasks : Inside(t) THEN CHOOSE t \in Tasks : Inside(t) ELSE NoTask

Operations == INSTANCE SerialOperations WITH
    holder <- Holder, using <- {t \in Tasks : session[t]}

\* Whatever waits, nests or is cancelled, operations run one after the other, and
\* only the task whose operation runs has a BLE session.
OperationsAreSerial == Operations!Spec

\* No wake-up is lost and no task waits for itself: each task that asks for the
\* transaction gets it or is cancelled, also when those before it are cancelled.
EveryTaskGetsIn == \A t \in Tasks : Waits(t) ~> ~Waits(t)
=============================================================================
