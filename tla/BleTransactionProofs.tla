------------------------ MODULE BleTransactionProofs ------------------------
(***************************************************************************)
(* For any number of tasks and any depth of nesting, transaction() runs    *)
(* operations one after the other: BleTransaction implements               *)
(* SerialOperations.  The invariant ties the owner to the task that is     *)
(* inside, the lock's flag to the owner, and says that a task that was     *)
(* woken is the first in line while the lock is free, so that nobody       *)
(* overtakes it.                                                           *)
(***************************************************************************)
EXTENDS BleTransaction, SequenceTheorems, TLAPS

\* What removing one waiter leaves: the first stays first unless it is removed.
LEMMA RemoveAtFacts ==
    ASSUME NEW S, NEW s \in Seq(S), NEW i \in 1..Len(s)
    PROVE  /\ RemoveAt(s, i) \in Seq(S)
           /\ i # 1 => RemoveAt(s, i) # <<>> /\ RemoveAt(s, i)[1] = s[1]
<1> DEFINE a == SubSeq(s, 1, i - 1)
           b == SubSeq(s, i + 1, Len(s))
<1>1. /\ a \in Seq(S) /\ Len(a) = i - 1
      /\ \A j \in 1..(i - 1) : a[j] = s[j]
  <2>1. \A j \in 1..(i - 1) : s[j] \in S
    OBVIOUS
  <2> QED  BY <2>1, SubSeqProperties
<1>2. b \in Seq(S)
  <2>1. \A j \in (i + 1)..Len(s) : s[j] \in S
    OBVIOUS
  <2> QED  BY <2>1, SubSeqProperties
<1>3. RemoveAt(s, i) = a \o b
  BY DEF RemoveAt
<1>4. /\ a \o b \in Seq(S) /\ Len(a \o b) = Len(a) + Len(b)
      /\ \A j \in 1..(Len(a) + Len(b)) :
            (a \o b)[j] = IF j <= Len(a) THEN a[j] ELSE b[j - Len(a)]
  BY <1>1, <1>2, ConcatProperties
<1> HIDE DEF a, b
<1>5. ASSUME i # 1
      PROVE  a \o b # <<>> /\ (a \o b)[1] = s[1]
  <2>1. Len(b) \in Nat
    BY <1>2, LenProperties
  <2>2. 1 \in 1..(Len(a) + Len(b)) /\ 1 <= Len(a) /\ 1 \in 1..(i - 1)
    BY <1>1, <1>5, <2>1, LenProperties
  <2>3. (a \o b)[1] = s[1]
    BY <1>1, <1>4, <2>2
  <2>4. Len(a \o b) # Len(<<>>)
    BY <1>4, <2>1, <2>2, EmptySeq
  <2> QED  BY <2>3, <2>4
<1> QED  BY <1>3, <1>4, <1>5

-----------------------------------------------------------------------------
(***************************************************************************)
(* The invariant                                                           *)
(***************************************************************************)

\* A task that waits is not inside: the owner never waits.
WaitersAreOutside == \A t \in Tasks : Waits(t) => depth[t] = 0 /\ ~session[t]

\* The owner is the task that is inside, and it has the lock.
OwnerIsInside == \A t \in Tasks : owner = t <=> Inside(t)

OwnerHasLock == locked <=> owner # NoTask

\* A task that was woken finds the lock free, and nobody is before it.
WokenIsFirst ==
    \A t \in Tasks : future[t] \in {"woken", "stopped"}
                    => ~locked /\ waiters # <<>> /\ waiters[1] = t

Invariant ==
    /\ TypeOK
    /\ WaitersAreOutside
    /\ OwnerIsInside
    /\ OwnerHasLock
    /\ WokenIsFirst

-----------------------------------------------------------------------------
(***************************************************************************)
(* Types                                                                   *)
(***************************************************************************)

LEMMA WakeFirstType ==
    ASSUME NEW queue \in Seq(Tasks), NEW f \in [Tasks -> Futures]
    PROVE  WakeFirst(queue, f) \in [Tasks -> Futures]
BY DEF WakeFirst, Futures

LEMMA InitType == Init => TypeOK
<1> SUFFICES ASSUME Init PROVE TypeOK
  OBVIOUS
<1>1. waiters \in Seq(Tasks)
  BY EmptySeq DEF Init
<1>2. 0 \in 0..MaxDepth
  BY BleTransactionAssumption
<1> QED  BY <1>1, <1>2 DEF Init, TypeOK, Futures, Levels

LEMMA PushType ==
    ASSUME TypeOK, NEW t \in Tasks, NEW level \in Levels, Push(t, level),
           level = "operation" => depth[t] < MaxDepth
    PROVE  depth' \in [Tasks -> 0..MaxDepth] /\ session' \in [Tasks -> BOOLEAN]
<1>1. CASE level = "session"
  BY <1>1 DEF TypeOK, Push
<1>2. CASE level = "operation"
  <2>1. depth[t] + 1 \in 0..MaxDepth
    BY <1>2, BleTransactionAssumption DEF TypeOK
  <2> QED  BY <1>2, <2>1 DEF TypeOK, Push
<1> QED  BY <1>1, <1>2 DEF Levels

LEMMA ReleaseType ==
    ASSUME TypeOK, Release
    PROVE  /\ locked' \in BOOLEAN
           /\ waiters' \in Seq(Tasks)
           /\ future' \in [Tasks -> Futures]
           /\ wanted' \in [Tasks -> Levels]
           /\ owner' \in Tasks \cup {NoTask}
BY WakeFirstType DEF TypeOK, Release

LEMMA LeaveType ==
    ASSUME TypeOK, NEW t \in Tasks, NEW place \in DOMAIN waiters, Leave(t, place)
    PROVE  /\ waiters' \in Seq(Tasks)
           /\ waiters[1] # t => waiters' # <<>> /\ waiters'[1] = waiters[1]
BY RemoveAtFacts DEF TypeOK, Leave

\* Every step keeps the types.
LEMMA NextType == Invariant /\ [Next]_transaction => TypeOK'
<1> SUFFICES ASSUME TypeOK, WaitersAreOutside, [Next]_transaction
             PROVE  TypeOK'
  BY DEF Invariant
<1>1. ASSUME NEW t \in Tasks, NEW level \in Levels, Enter(t, level)
      PROVE  TypeOK'
  <2>1. CASE Owns(t) /\ Push(t, level) /\ UNCHANGED lock
    BY <1>1, <2>1, PushType DEF Enter, MayEnter, TypeOK, lock
  <2>2. CASE Take(t) /\ Push(t, level) /\ UNCHANGED <<waiters, future, wanted>>
    BY <1>1, <2>2, PushType DEF Enter, MayEnter, Take, TypeOK
  <2>3. CASE Wait(t, level)
    <3>1. waiters' \in Seq(Tasks)
      BY <2>3 DEF Wait, TypeOK
    <3> QED  BY <2>3, <3>1 DEF Wait, TypeOK, within, Futures
  <2> QED  BY <1>1, <2>1, <2>2, <2>3 DEF Enter
<1>2. ASSUME NEW t \in Tasks, Cancel(t)
      PROVE  TypeOK'
  BY <1>2 DEF Cancel, TypeOK, within, Futures
<1>3. ASSUME NEW t \in Tasks, Resume(t)
      PROVE  TypeOK'
  <2>1. PICK place \in DOMAIN waiters : Leave(t, place)
    BY <1>3 DEF Resume
  <2>2. waiters' \in Seq(Tasks)
    BY <2>1, LeaveType
  <2>3. depth' \in [Tasks -> 0..MaxDepth] /\ session' \in [Tasks -> BOOLEAN]
    <3>1. depth[t] < MaxDepth
      BY <1>3, BleTransactionAssumption DEF Resume, WaitersAreOutside, Waits, TypeOK
    <3>2. Push(t, wanted[t]) /\ wanted[t] \in Levels
      BY <1>3 DEF Resume, TypeOK
    <3> QED  BY <3>1, <3>2, PushType
  <2> QED  BY <1>3, <2>2, <2>3 DEF Resume, Take, TypeOK, Futures, Levels
<1>4. ASSUME NEW t \in Tasks, GiveUp(t)
      PROVE  TypeOK'
  <2>1. PICK place \in DOMAIN waiters : Leave(t, place)
    BY <1>4 DEF GiveUp
  <2>2. waiters' \in Seq(Tasks)
    BY <2>1, LeaveType
  <2>3. [future EXCEPT ![t] = "none"] \in [Tasks -> Futures]
    BY DEF TypeOK, Futures
  <2>4. future' \in [Tasks -> Futures]
    BY <1>4, <2>2, <2>3, WakeFirstType DEF GiveUp
  <2> QED  BY <1>4, <2>2, <2>4 DEF GiveUp, TypeOK, within, Levels
<1>5. ASSUME NEW t \in Tasks, EndSession(t)
      PROVE  TypeOK'
  <2>1. CASE Release
    BY <1>5, <2>1, ReleaseType DEF EndSession, TypeOK
  <2>2. CASE UNCHANGED lock
    BY <1>5, <2>2 DEF EndSession, TypeOK, lock
  <2> QED  BY <1>5, <2>1, <2>2 DEF EndSession
<1>6. ASSUME NEW t \in Tasks, EndOperation(t)
      PROVE  TypeOK'
  <2>1. depth' \in [Tasks -> 0..MaxDepth]
    BY <1>6, BleTransactionAssumption DEF EndOperation, TypeOK
  <2>2. CASE Release
    BY <1>6, <2>1, <2>2, ReleaseType DEF EndOperation, TypeOK
  <2>3. CASE UNCHANGED lock
    BY <1>6, <2>1, <2>3 DEF EndOperation, TypeOK, lock
  <2> QED  BY <1>6, <2>2, <2>3 DEF EndOperation
<1>7. CASE UNCHANGED transaction
  BY <1>7 DEF transaction, lock, within, TypeOK
<1> QED  BY <1>1, <1>2, <1>3, <1>4, <1>5, <1>6, <1>7 DEF Next, Turn, Ends

-----------------------------------------------------------------------------
(***************************************************************************)
(* Who is inside                                                           *)
(***************************************************************************)

LEMMA InitInvariant == Init => Invariant
<1> SUFFICES ASSUME Init PROVE Invariant
  OBVIOUS
<1>1. TypeOK
  BY InitType
<1> QED  BY <1>1, BleTransactionAssumption
         DEF Init, Invariant, WaitersAreOutside, OwnerIsInside, OwnerHasLock,
             WokenIsFirst, Waits, Inside

\* Entering makes a task be inside and no other one.
LEMMA PushInside ==
    ASSUME TypeOK, NEW t \in Tasks, NEW level \in Levels, Push(t, level)
    PROVE  /\ Inside(t)'
           /\ \A u \in Tasks \ {t} : depth'[u] = depth[u] /\ session'[u] = session[u]
<1>1. CASE level = "session"
  BY <1>1 DEF TypeOK, Push, Inside
<1>2. CASE level = "operation"
  <2>1. depth'[t] = depth[t] + 1 /\ depth[t] \in Nat
    BY <1>2 DEF Push, TypeOK
  <2> QED  BY <1>2, <2>1 DEF TypeOK, Push, Inside
<1> QED  BY <1>1, <1>2 DEF Levels

\* Releasing wakes at most the first waiter.
LEMMA WakeFirstFacts ==
    ASSUME NEW queue \in Seq(Tasks), NEW f \in [Tasks -> Futures], NEW t \in Tasks
    PROVE  /\ WakeFirst(queue, f)[t] = "none" <=> f[t] = "none"
           /\ WakeFirst(queue, f)[t] \in {"woken", "stopped"}
              => \/ f[t] \in {"woken", "stopped"}
                 \/ queue # <<>> /\ queue[1] = t
BY DEF WakeFirst, Futures

\* Entering keeps the invariant: the owner goes in again; a free lock is taken
\* only when no waiter was woken; otherwise the task is last in line.
LEMMA EnterInvariant ==
    ASSUME Invariant, NEW t \in Tasks, NEW level \in Levels, Enter(t, level)
    PROVE  WaitersAreOutside' /\ OwnerIsInside' /\ OwnerHasLock' /\ WokenIsFirst'
<1> USE DEF Invariant
<1>1. ~Waits(t) /\ ~session[t]
  BY DEF Enter, MayEnter
<1>2. CASE Owns(t) /\ Push(t, level) /\ UNCHANGED lock
  <2>1. UNCHANGED <<locked, waiters, future, wanted, owner>>
    BY <1>2 DEF lock
  <2>2. WaitersAreOutside'
    BY <1>1, <1>2, <2>1, PushInside DEF WaitersAreOutside, Waits
  <2>3. OwnerIsInside'
    BY <1>2, <2>1, PushInside DEF OwnerIsInside, Owns, Inside
  <2> QED  BY <2>1, <2>2, <2>3 DEF OwnerHasLock, WokenIsFirst
<1>3. CASE ~Owns(t) /\ Free /\ Take(t) /\ Push(t, level)
           /\ UNCHANGED <<waiters, future, wanted>>
  <2>1. owner = NoTask
    BY <1>3 DEF Free, OwnerHasLock
  <2>2. \A u \in Tasks : ~Inside(u)
    BY <2>1, BleTransactionAssumption DEF OwnerIsInside
  <2>3. WaitersAreOutside'
    BY <1>1, <1>3, PushInside DEF WaitersAreOutside, Waits
  <2>4. OwnerIsInside'
    BY <1>3, <2>2, PushInside DEF OwnerIsInside, Take, Inside
  <2>5. OwnerHasLock'
    BY <1>3, BleTransactionAssumption DEF OwnerHasLock, Take
  <2>6. \A u \in Tasks : future[u] \notin {"woken", "stopped"}
    <3>1. SUFFICES ASSUME NEW u \in Tasks, future[u] \in {"woken", "stopped"}
                   PROVE  FALSE
      OBVIOUS
    <3>2. waiters # <<>> /\ waiters[1] = u
      BY <3>1 DEF WokenIsFirst
    <3>3. 1 \in DOMAIN waiters
      BY <3>2, EmptySeq, LenProperties DEF TypeOK
    <3> QED  BY <1>3, <3>1, <3>2, <3>3 DEF Free
  <2> QED  BY <1>3, <2>3, <2>4, <2>5, <2>6 DEF WokenIsFirst
<1>4. CASE ~Owns(t) /\ ~Free /\ Wait(t, level)
  <2>1. ~Inside(t)
    BY <1>4 DEF Owns, OwnerIsInside
  <2>2. depth[t] = 0
    BY <2>1 DEF Inside, TypeOK
  <2>3. WaitersAreOutside'
    BY <1>1, <1>4, <2>2 DEF WaitersAreOutside, Waits, Wait, TypeOK, within
  <2>4. OwnerIsInside' /\ OwnerHasLock'
    BY <1>4 DEF OwnerIsInside, OwnerHasLock, Wait, Inside, within
  <2>5. WokenIsFirst'
    <3>1. SUFFICES ASSUME NEW u \in Tasks, future'[u] \in {"woken", "stopped"}
                   PROVE  ~locked' /\ waiters' # <<>> /\ waiters'[1] = u
      BY DEF WokenIsFirst
    <3>2. future[u] \in {"woken", "stopped"}
      BY <1>4, <3>1 DEF Wait, TypeOK
    <3>3. ~locked /\ waiters # <<>> /\ waiters[1] = u
      BY <3>2 DEF WokenIsFirst
    <3>4. Len(waiters) >= 1
      BY <3>3, EmptySeq DEF TypeOK
    <3>5. waiters'[1] = waiters[1] /\ waiters' # <<>>
      BY <1>4, <3>4 DEF Wait, TypeOK
    <3> QED  BY <1>4, <3>3, <3>5 DEF Wait
  <2> QED  BY <2>3, <2>4, <2>5
<1> QED  BY <1>2, <1>3, <1>4 DEF Enter

\* A task that is cancelled keeps its place in line.
LEMMA CancelInvariant ==
    ASSUME Invariant, NEW t \in Tasks, Cancel(t)
    PROVE  WaitersAreOutside' /\ OwnerIsInside' /\ OwnerHasLock' /\ WokenIsFirst'
<1> USE DEF Invariant
<1>1. UNCHANGED <<locked, waiters, owner, depth, session>>
  BY DEF Cancel, within
<1>2. /\ future[t] # "none"
      /\ \A u \in Tasks : Waits(u)' <=> Waits(u)
      /\ \A u \in Tasks : future'[u] \in {"woken", "stopped"}
                           => future[u] \in {"woken", "stopped"}
  BY DEF Cancel, Waits, TypeOK
<1> QED  BY <1>1, <1>2
         DEF WaitersAreOutside, OwnerIsInside, OwnerHasLock, WokenIsFirst, Inside

\* The woken task takes the lock; no other one was woken.
LEMMA ResumeInvariant ==
    ASSUME Invariant, NEW t \in Tasks, Resume(t)
    PROVE  WaitersAreOutside' /\ OwnerIsInside' /\ OwnerHasLock' /\ WokenIsFirst'
<1> USE DEF Invariant
<1>1. ~locked /\ waiters # <<>> /\ waiters[1] = t
  BY DEF Resume, WokenIsFirst
<1>2. \A u \in Tasks : ~Inside(u)
  BY <1>1, BleTransactionAssumption DEF OwnerHasLock, OwnerIsInside
<1>3. wanted[t] \in Levels /\ Push(t, wanted[t]) /\ Take(t)
  BY DEF Resume, TypeOK
<1>4. WaitersAreOutside'
  BY <1>3, PushInside DEF WaitersAreOutside, Waits, Resume, TypeOK
<1>5. OwnerIsInside'
  BY <1>2, <1>3, PushInside DEF OwnerIsInside, Take, Inside
<1>6. OwnerHasLock'
  BY <1>3, BleTransactionAssumption DEF OwnerHasLock, Take
<1>7. \A u \in Tasks : future'[u] \notin {"woken", "stopped"}
  BY <1>1 DEF Resume, WokenIsFirst, TypeOK
<1> QED  BY <1>4, <1>5, <1>6, <1>7 DEF WokenIsFirst

\* A cancelled waiter leaves; the first in line stays the first, or is woken.
LEMMA GiveUpInvariant ==
    ASSUME Invariant, NEW t \in Tasks, GiveUp(t)
    PROVE  WaitersAreOutside' /\ OwnerIsInside' /\ OwnerHasLock' /\ WokenIsFirst'
<1> USE DEF Invariant
<1> DEFINE left == [future EXCEPT ![t] = "none"]
<1>1. left \in [Tasks -> Futures]
  BY DEF TypeOK, Futures
<1>2. PICK place \in DOMAIN waiters : Leave(t, place)
  BY DEF GiveUp
<1>3. /\ waiters' \in Seq(Tasks)
      /\ waiters[1] # t => waiters' # <<>> /\ waiters'[1] = waiters[1]
  BY <1>2, LeaveType
<1>4. /\ future' = IF locked THEN left ELSE WakeFirst(waiters', left)
      /\ UNCHANGED <<locked, owner, depth, session>>
  BY DEF GiveUp, within
<1>5. OwnerIsInside' /\ OwnerHasLock'
  BY <1>4 DEF OwnerIsInside, OwnerHasLock, Inside
<1>6. \A u \in Tasks : left[u] # "none" => Waits(u) /\ u # t /\ left[u] = future[u]
  BY DEF TypeOK, Waits
<1> HIDE DEF left
<1>7. \A u \in Tasks : Waits(u)' => Waits(u)
  <2>1. CASE locked
    BY <1>4, <1>6, <2>1 DEF Waits
  <2>2. CASE ~locked
    BY <1>1, <1>3, <1>4, <1>6, <2>2, WakeFirstFacts DEF Waits
  <2> QED  BY <2>1, <2>2
<1>8. WaitersAreOutside'
  BY <1>4, <1>7 DEF WaitersAreOutside
<1>9. WokenIsFirst'
  <2>1. SUFFICES ASSUME NEW u \in Tasks, future'[u] \in {"woken", "stopped"}
                 PROVE  ~locked' /\ waiters' # <<>> /\ waiters'[1] = u
    BY DEF WokenIsFirst
  <2>2. CASE left[u] \in {"woken", "stopped"}
    <3>1. future[u] \in {"woken", "stopped"} /\ u # t
      BY <1>6, <2>2
    <3>2. ~locked /\ waiters[1] = u
      BY <3>1 DEF WokenIsFirst
    <3> QED  BY <1>3, <1>4, <3>1, <3>2
  <2>3. CASE left[u] \notin {"woken", "stopped"}
    <3>1. ~locked
      BY <1>4, <2>1, <2>3
    <3>2. waiters' # <<>> /\ waiters'[1] = u
      BY <1>1, <1>3, <1>4, <2>1, <2>3, <3>1, WakeFirstFacts
    <3> QED  BY <1>4, <3>1, <3>2
  <2> QED  BY <2>2, <2>3
<1> QED  BY <1>5, <1>8, <1>9

\* The owner goes out and releases the lock: nobody is inside, the first is woken.
LEMMA ReleaseInvariant ==
    ASSUME Invariant, NEW t \in Tasks, Inside(t), Release, ~Inside(t)',
           \A u \in Tasks \ {t} : depth'[u] = depth[u] /\ session'[u] = session[u]
    PROVE  WaitersAreOutside' /\ OwnerIsInside' /\ OwnerHasLock' /\ WokenIsFirst'
<1> USE DEF Invariant
<1>1. owner = t /\ locked
  BY BleTransactionAssumption DEF OwnerIsInside, OwnerHasLock
<1>2. owner' = NoTask /\ ~locked' /\ waiters' = waiters
      /\ future' = WakeFirst(waiters, future)
  BY DEF Release
<1>3. \A u \in Tasks : ~Inside(u)'
  BY <1>1 DEF OwnerIsInside, Inside
<1>4. OwnerIsInside' /\ OwnerHasLock'
  BY <1>2, <1>3, BleTransactionAssumption DEF OwnerIsInside, OwnerHasLock
<1>5. \A u \in Tasks : Waits(u)' <=> Waits(u)
  BY <1>2, WakeFirstFacts DEF Waits, TypeOK
<1>6. \A u \in Tasks : Waits(u) => u # t
  BY DEF WaitersAreOutside, Inside, TypeOK
<1>7. WaitersAreOutside'
  BY <1>5, <1>6 DEF WaitersAreOutside
<1>8. \A u \in Tasks : future[u] \notin {"woken", "stopped"}
  BY <1>1 DEF WokenIsFirst
<1>9. WokenIsFirst'
  BY <1>2, <1>8, WakeFirstFacts DEF WokenIsFirst, TypeOK
<1> QED  BY <1>4, <1>7, <1>9

LEMMA EndSessionInvariant ==
    ASSUME Invariant, NEW t \in Tasks, EndSession(t)
    PROVE  WaitersAreOutside' /\ OwnerIsInside' /\ OwnerHasLock' /\ WokenIsFirst'
<1> USE DEF Invariant
<1>1. /\ session[t] /\ ~session'[t] /\ depth' = depth
      /\ \A u \in Tasks \ {t} : session'[u] = session[u]
  BY DEF EndSession, TypeOK
<1>2. CASE depth[t] = 0
  <2>1. Release /\ Inside(t) /\ ~Inside(t)'
    BY <1>1, <1>2 DEF EndSession, Inside
  <2> QED  BY <1>1, <2>1, ReleaseInvariant
<1>3. CASE depth[t] # 0
  <2>1. UNCHANGED <<locked, waiters, future, owner>>
    BY <1>3 DEF EndSession, lock
  <2>2. depth[t] > 0
    BY <1>3 DEF TypeOK
  <2>3. \A u \in Tasks : Inside(u)' <=> Inside(u)
    BY <1>1, <2>2 DEF Inside
  <2>4. OwnerIsInside'
    BY <2>1, <2>3 DEF OwnerIsInside
  <2> QED  BY <1>1, <2>1, <2>4 DEF WaitersAreOutside, OwnerHasLock, WokenIsFirst, Waits
<1> QED  BY <1>2, <1>3

LEMMA EndOperationInvariant ==
    ASSUME Invariant, NEW t \in Tasks, EndOperation(t)
    PROVE  WaitersAreOutside' /\ OwnerIsInside' /\ OwnerHasLock' /\ WokenIsFirst'
<1> USE DEF Invariant
<1>1. /\ depth[t] > 0 /\ ~session[t] /\ depth'[t] = depth[t] - 1 /\ session' = session
      /\ depth[t] \in Nat
      /\ \A u \in Tasks \ {t} : depth'[u] = depth[u]
  BY DEF EndOperation, TypeOK
<1>2. CASE depth[t] = 1
  <2>1. Release /\ Inside(t) /\ ~Inside(t)'
    BY <1>1, <1>2 DEF EndOperation, Inside
  <2> QED  BY <1>1, <2>1, ReleaseInvariant
<1>3. CASE depth[t] # 1
  <2>1. UNCHANGED <<locked, waiters, future, owner>>
    BY <1>3 DEF EndOperation, lock
  <2>2. Inside(t) /\ Inside(t)'
    BY <1>1, <1>3 DEF Inside
  <2>3. \A u \in Tasks : Inside(u)' <=> Inside(u)
    BY <1>1, <2>2 DEF Inside
  <2>4. OwnerIsInside'
    BY <2>1, <2>3 DEF OwnerIsInside
  <2>5. ~Waits(t) /\ \A u \in Tasks : Waits(u)' <=> Waits(u)
    BY <1>1, <2>1 DEF WaitersAreOutside, Waits
  <2> QED  BY <1>1, <2>1, <2>4, <2>5 DEF WaitersAreOutside, OwnerHasLock, WokenIsFirst
<1> QED  BY <1>2, <1>3

LEMMA NextInvariant == Invariant /\ [Next]_transaction => Invariant'
<1> SUFFICES ASSUME Invariant, [Next]_transaction
             PROVE  Invariant'
  OBVIOUS
<1>1. TypeOK'
  BY NextType
<1>2. WaitersAreOutside' /\ OwnerIsInside' /\ OwnerHasLock' /\ WokenIsFirst'
  <2>1. CASE UNCHANGED transaction
    BY <2>1 DEF Invariant, transaction, lock, within, WaitersAreOutside, OwnerIsInside,
                OwnerHasLock, WokenIsFirst, Waits, Inside
  <2> QED  BY <2>1, EnterInvariant, CancelInvariant, ResumeInvariant, GiveUpInvariant,
              EndSessionInvariant, EndOperationInvariant DEF Next, Turn, Ends
<1> QED  BY <1>1, <1>2 DEF Invariant

THEOREM InvariantHolds == Spec => []Invariant
BY InitInvariant, NextInvariant, PTL DEF Spec

\* Every reachable state of the transaction is well typed (client.py,
\* EVBoxClient.transaction and the asyncio.Lock under it).
THEOREM TypeCorrect == Spec => []TypeOK
<1>1. Invariant => TypeOK
  BY DEF Invariant
<1> QED  BY <1>1, InvariantHolds, PTL

\* At most one task is inside of transaction(), however tasks nest, wait or are
\* cancelled.
THEOREM OneTaskInside ==
    Spec => [](\A t, u \in Tasks : Inside(t) /\ Inside(u) => t = u)
<1>1. Invariant => \A t, u \in Tasks : Inside(t) /\ Inside(u) => t = u
  BY DEF Invariant, OwnerIsInside
<1> QED  BY <1>1, InvariantHolds, PTL

-----------------------------------------------------------------------------
(***************************************************************************)
(* The refinement                                                          *)
(***************************************************************************)

Using == {t \in Tasks : session[t]}

\* The task that is inside is the owner.
LEMMA HolderIsOwner == Invariant => Holder = owner
<1> SUFFICES ASSUME Invariant PROVE Holder = owner
  OBVIOUS
<1>1. CASE \E t \in Tasks : Inside(t)
  <2> DEFINE h == CHOOSE t \in Tasks : Inside(t)
  <2>1. h \in Tasks /\ Inside(h)
    BY <1>1
  <2>2. owner = h
    BY <2>1 DEF Invariant, OwnerIsInside
  <2> QED  BY <1>1, <2>2 DEF Holder
<1>2. CASE ~\E t \in Tasks : Inside(t)
  <2>1. owner \notin Tasks
    BY <1>2 DEF Invariant, OwnerIsInside
  <2> QED  BY <1>2, <2>1 DEF Holder, Invariant, TypeOK
<1> QED  BY <1>1, <1>2

\* A session belongs to the owner.
LEMMA UsingIsOwner ==
    ASSUME Invariant
    PROVE  \A t \in Tasks : session[t] => owner = t
BY DEF Invariant, OwnerIsInside, Inside

\* Going in is the beginning of an operation, of a session in it, or nothing new.
LEMMA PushUsing ==
    ASSUME TypeOK, NEW t \in Tasks, NEW level \in Levels, Push(t, level)
    PROVE  Using' = Using \/ Using' = Using \cup {t}
<1>1. CASE level = "session"
  BY <1>1 DEF Push, TypeOK, Using
<1>2. CASE level = "operation"
  BY <1>2 DEF Push, TypeOK, Using
<1> QED  BY <1>1, <1>2 DEF Levels

LEMMA TakeBegins ==
    ASSUME Invariant, NEW t \in Tasks, NEW level \in Levels,
           ~locked, Take(t), Push(t, level)
    PROVE  owner = NoTask /\ owner' = t /\ Using' \in {{}, {t}}
<1>1. owner = NoTask
  BY DEF Invariant, OwnerHasLock
<1>2. Using = {}
  BY <1>1, UsingIsOwner, BleTransactionAssumption DEF Using
<1> QED  BY <1>1, <1>2, PushUsing DEF Take, Invariant

AbstractNext ==
    \E t \in Tasks :
       \/ owner = NoTask /\ owner' = t /\ Using' \in {{}, {t}}
       \/ owner = t /\ owner' = owner /\ Using = {} /\ Using' = {t}
       \/ owner' = owner /\ Using = {t} /\ Using' = {}
       \/ owner = t /\ Using \subseteq {t} /\ owner' = NoTask /\ Using' = {}

LEMMA StepRefines ==
    ASSUME Invariant, [Next]_transaction
    PROVE  AbstractNext \/ (owner' = owner /\ Using' = Using)
<1>1. TypeOK
  BY DEF Invariant
<1>2. ASSUME NEW t \in Tasks, NEW level \in Levels, Enter(t, level)
      PROVE  AbstractNext \/ (owner' = owner /\ Using' = Using)
  <2>1. CASE Owns(t) /\ Push(t, level) /\ UNCHANGED lock
    <3>1. owner' = owner /\ owner = t
      BY <2>1 DEF lock, Owns
    <3>2. Using = {}
      <4>1. ~session[t]
        BY <1>2 DEF Enter, MayEnter
      <4> QED  BY <3>1, <4>1, UsingIsOwner DEF Using
    <3>3. Using' = {} \/ Using' = {t}
      BY <1>1, <2>1, <3>2, PushUsing
    <3> QED  BY <3>1, <3>2, <3>3 DEF AbstractNext
  <2>2. CASE Free /\ Take(t) /\ Push(t, level)
    BY <2>2, TakeBegins DEF Free, AbstractNext
  <2>3. CASE Wait(t, level)
    BY <2>3 DEF Wait, within, Using
  <2> QED  BY <1>2, <2>1, <2>2, <2>3 DEF Enter
<1>3. ASSUME NEW t \in Tasks, Resume(t)
      PROVE  AbstractNext
  <2>1. ~locked /\ Take(t) /\ Push(t, wanted[t]) /\ wanted[t] \in Levels
    BY <1>3 DEF Resume, Invariant, WokenIsFirst, TypeOK
  <2> QED  BY <2>1, TakeBegins DEF AbstractNext
<1>4. ASSUME NEW t \in Tasks, Cancel(t) \/ GiveUp(t)
      PROVE  owner' = owner /\ Using' = Using
  BY <1>4 DEF Cancel, GiveUp, within, Using
<1>5. ASSUME NEW t \in Tasks, EndSession(t)
      PROVE  AbstractNext
  <2>1. session[t] /\ session' = [session EXCEPT ![t] = FALSE]
    BY <1>5 DEF EndSession
  <2>2. owner = t
    BY <2>1, UsingIsOwner
  <2>3. Using = {t} /\ Using' = {}
    BY <1>1, <2>1, <2>2, UsingIsOwner DEF Using, TypeOK
  <2>4. owner' = owner \/ owner' = NoTask
    BY <1>5 DEF EndSession, Release, lock
  <2> QED  BY <2>2, <2>3, <2>4 DEF AbstractNext
<1>6. ASSUME NEW t \in Tasks, EndOperation(t)
      PROVE  AbstractNext \/ (owner' = owner /\ Using' = Using)
  <2>1. depth[t] > 0 /\ ~session[t] /\ session' = session
    BY <1>6 DEF EndOperation
  <2>2. owner = t
    BY <2>1 DEF Invariant, OwnerIsInside, Inside
  <2>3. Using = {} /\ Using' = {}
    BY <2>1, <2>2, UsingIsOwner DEF Using
  <2>4. owner' = owner \/ owner' = NoTask
    BY <1>6 DEF EndOperation, Release, lock
  <2> QED  BY <2>2, <2>3, <2>4 DEF AbstractNext
<1>7. CASE UNCHANGED transaction
  BY <1>7 DEF transaction, lock, within, Using
<1> QED  BY <1>2, <1>3, <1>4, <1>5, <1>6, <1>7 DEF Next, Turn, Ends

\* transaction() keeps the promise of SerialOperations: whatever the tasks do, the
\* operations of the integration run one after the other, and only the task whose
\* operation runs has a BLE session.
THEOREM TransactionImplementsSerialOperations == Spec => OperationsAreSerial
<1>1. Init => Operations!Init
  <2> SUFFICES ASSUME Init PROVE Operations!Init
    OBVIOUS
  <2>1. Using = {}
    BY DEF Init, Using
  <2>2. Holder = NoTask
    BY InitInvariant, HolderIsOwner DEF Init
  <2> QED  BY <2>1, <2>2 DEF Operations!Init, Using
<1>2. Invariant /\ Invariant' /\ [Next]_transaction
      => [Operations!Next]_(Operations!operation)
  <2> SUFFICES ASSUME Invariant, Invariant', [Next]_transaction
               PROVE  [Operations!Next]_(Operations!operation)
    OBVIOUS
  <2>0. (Invariant => Holder = owner)'
    BY HolderIsOwner, PTL
  <2>1. Holder = owner /\ Holder' = owner'
    BY <2>0, HolderIsOwner
  <2>2. CASE AbstractNext
    BY <2>1, <2>2 DEF AbstractNext, Using, Operations!Next, Operations!Begin,
       Operations!StartSession, Operations!EndSession, Operations!End
  <2>3. CASE owner' = owner /\ Using' = Using
    BY <2>1, <2>3 DEF Using, Operations!operation
  <2> QED  BY <2>2, <2>3, StepRefines
<1> QED  BY <1>1, <1>2, InvariantHolds, PTL
         DEF Spec, OperationsAreSerial, Operations!Spec
-----------------------------------------------------------------------------
(***************************************************************************)
(* The line of waiters.  These are the reasons for which every task gets   *)
(* in: the line has each waiting task once, whoever is first in line while *)
(* the lock is free has been woken, nobody goes in who is not first, and   *)
(* nobody is ever put before another one.                                  *)
(***************************************************************************)

\* The queue of the lock is the set of the tasks that wait, each of them once.
LineIsExact ==
    /\ \A i \in DOMAIN waiters : Waits(waiters[i])
    /\ \A t \in Tasks : Waits(t) => \E i \in DOMAIN waiters : waiters[i] = t
    /\ \A i, j \in DOMAIN waiters : waiters[i] = waiters[j] => i = j

\* No wake-up is lost: while the lock is free, the first in line has been woken or
\* is cancelled, and has its turn ahead.
FirstIsCalled == ~locked /\ waiters # <<>> => future[waiters[1]] # "pending"

LineInvariant == LineIsExact /\ FirstIsCalled

Before(t, u) ==
    \E i, j \in DOMAIN waiters : i < j /\ waiters[i] = t /\ waiters[j] = u

\* What is left of a line without its i-th element
LEMMA RemoveAtElements ==
    ASSUME NEW S, NEW s \in Seq(S), NEW i \in 1..Len(s)
    PROVE  /\ RemoveAt(s, i) \in Seq(S)
           /\ Len(RemoveAt(s, i)) = Len(s) - 1
           /\ \A j \in 1..(Len(s) - 1) :
                 RemoveAt(s, i)[j] = IF j < i THEN s[j] ELSE s[j + 1]
<1> DEFINE a == SubSeq(s, 1, i - 1)
           b == SubSeq(s, i + 1, Len(s))
<1>1. /\ a \in Seq(S) /\ Len(a) = i - 1
      /\ \A j \in 1..(i - 1) : a[j] = s[j]
  <2>1. \A j \in 1..(i - 1) : s[j] \in S
    OBVIOUS
  <2> QED  BY <2>1, SubSeqProperties
<1>2. /\ b \in Seq(S) /\ Len(b) = Len(s) - i
      /\ \A j \in 1..(Len(s) - i) : b[j] = s[i + j]
  <2>1. \A j \in (i + 1)..Len(s) : s[j] \in S
    OBVIOUS
  <2>2. /\ b \in Seq(S)
        /\ Len(b) = IF i + 1 <= Len(s) THEN Len(s) - (i + 1) + 1 ELSE 0
        /\ \A j \in 1..(Len(s) - (i + 1) + 1) : b[j] = s[(i + 1) + j - 1]
    BY <2>1, SubSeqProperties
  <2> QED  BY <2>2
<1>3. RemoveAt(s, i) = a \o b
  BY DEF RemoveAt
<1>4. /\ a \o b \in Seq(S) /\ Len(a \o b) = Len(a) + Len(b)
      /\ \A j \in 1..(Len(a) + Len(b)) :
            (a \o b)[j] = IF j <= Len(a) THEN a[j] ELSE b[j - Len(a)]
  BY <1>1, <1>2, ConcatProperties
<1> HIDE DEF a, b
<1>5. ASSUME NEW j \in 1..(Len(s) - 1)
      PROVE  (a \o b)[j] = IF j < i THEN s[j] ELSE s[j + 1]
  <2>1. j \in 1..(Len(a) + Len(b)) /\ Len(a) = i - 1
    BY <1>1, <1>2
  <2>2. CASE j < i
    BY <1>1, <1>4, <2>1, <2>2
  <2>3. CASE ~(j < i)
    <3> DEFINE k == j - (i - 1)
    <3>1. Len(s) \in Nat
      BY LenProperties
    <3>2. k \in 1..(Len(s) - i) /\ i + k = j + 1
      BY <2>3, <3>1
    <3>3. (a \o b)[j] = b[k]
      <4>1. ~(j <= Len(a)) /\ j - Len(a) = k
        BY <2>1, <2>3
      <4> HIDE DEF k
      <4> QED  BY <1>4, <2>1, <4>1
    <3>4. b[k] = s[i + k]
      BY <1>2, <3>2
    <3> QED  BY <2>3, <3>2, <3>3, <3>4
  <2> QED  BY <2>2, <2>3
<1> QED  BY <1>1, <1>2, <1>3, <1>4, <1>5

\* A waiter that leaves the line leaves the others in their order.
LEMMA LeaveLine ==
    ASSUME Invariant, LineIsExact, NEW t \in Tasks, NEW place \in DOMAIN waiters,
           Leave(t, place)
    PROVE  /\ waiters' \in Seq(Tasks)
           /\ \A i \in DOMAIN waiters' :
                 \E k \in DOMAIN waiters : waiters'[i] = waiters[k] /\ waiters[k] # t
           /\ \A k \in DOMAIN waiters : waiters[k] # t =>
                 \E i \in DOMAIN waiters' : waiters'[i] = waiters[k]
           /\ \A i, j \in DOMAIN waiters' : waiters'[i] = waiters'[j] => i = j
           /\ \A u, v \in Tasks \ {t} : Before(u, v) => Before(u, v)'
<1> DEFINE old(i) == IF i < place THEN i ELSE i + 1
           new(k) == IF k < place THEN k ELSE k - 1
<1>1. waiters \in Seq(Tasks) /\ place \in 1..Len(waiters) /\ waiters[place] = t
      /\ Len(waiters) \in Nat /\ DOMAIN waiters = 1..Len(waiters)
  BY LenProperties DEF Invariant, TypeOK, Leave
<1>2. /\ waiters' \in Seq(Tasks) /\ Len(waiters') = Len(waiters) - 1
      /\ \A j \in 1..(Len(waiters) - 1) :
            waiters'[j] = IF j < place THEN waiters[j] ELSE waiters[j + 1]
  BY <1>1, RemoveAtElements DEF Leave
<1>3. DOMAIN waiters' = 1..(Len(waiters) - 1)
  BY <1>2, LenProperties
<1>4. \A i \in DOMAIN waiters' :
         old(i) \in DOMAIN waiters \ {place} /\ waiters'[i] = waiters[old(i)]
  BY <1>1, <1>2, <1>3
<1>5. \A k \in DOMAIN waiters : waiters[k] # t =>
         new(k) \in DOMAIN waiters' /\ waiters'[new(k)] = waiters[k]
  BY <1>1, <1>2, <1>3
<1>6. \A i, j \in DOMAIN waiters' : old(i) = old(j) => i = j
  BY <1>1, <1>3
<1>7. \A k, l \in DOMAIN waiters : k # place /\ l # place /\ k < l => new(k) < new(l)
  BY <1>1
<1>8. \A k \in DOMAIN waiters : waiters[k] = t <=> k = place
  BY <1>1 DEF LineIsExact
<1> HIDE DEF old, new
<1>9. \A i, j \in DOMAIN waiters' : waiters'[i] = waiters'[j] => i = j
  BY <1>4, <1>6 DEF LineIsExact
<1>10. ASSUME NEW u \in Tasks \ {t}, NEW v \in Tasks \ {t}, Before(u, v)
       PROVE  Before(u, v)'
  <2>1. PICK k, l \in DOMAIN waiters : k < l /\ waiters[k] = u /\ waiters[l] = v
    BY <1>10 DEF Before
  <2> QED  BY <1>5, <1>7, <1>8, <2>1 DEF Before
<1> QED  BY <1>2, <1>4, <1>5, <1>8, <1>9, <1>10

\* A task that goes to the end of the line goes behind everybody.
LEMMA JoinLine ==
    ASSUME Invariant, NEW t \in Tasks, waiters' = Append(waiters, t)
    PROVE  /\ DOMAIN waiters' = DOMAIN waiters \cup {Len(waiters) + 1}
           /\ Len(waiters) + 1 \notin DOMAIN waiters
           /\ \A i \in DOMAIN waiters : waiters'[i] = waiters[i]
           /\ waiters'[Len(waiters) + 1] = t
           /\ \A u, v \in Tasks : Before(u, v) => Before(u, v)'
<1>1. waiters \in Seq(Tasks)
  BY DEF Invariant, TypeOK
<1>2. Len(waiters) \in Nat /\ DOMAIN waiters = 1..Len(waiters)
  BY <1>1, LenProperties
<1>3. /\ waiters' \in Seq(Tasks) /\ Len(waiters') = Len(waiters) + 1
      /\ \A i \in 1..Len(waiters) : waiters'[i] = waiters[i]
      /\ waiters'[Len(waiters) + 1] = t
  BY <1>1, AppendProperties
<1>4. DOMAIN waiters' = 1..(Len(waiters) + 1)
  BY <1>3, LenProperties
<1> QED  BY <1>2, <1>3, <1>4 DEF Before

\* Entering joins the end of the line, or leaves it alone.
LEMMA EnterLine ==
    ASSUME Invariant, LineInvariant, NEW t \in Tasks, NEW level \in Levels,
           Enter(t, level)
    PROVE  LineInvariant' /\ \A u, v \in Tasks : Before(u, v) => Before(u, v)'
<1> USE DEF LineInvariant
<1>1. CASE Owns(t) /\ Push(t, level) /\ UNCHANGED lock
  BY <1>1 DEF lock, LineIsExact, FirstIsCalled, Waits, Before
<1>2. CASE Free /\ Take(t) /\ UNCHANGED <<waiters, future, wanted>>
  BY <1>2 DEF Take, LineIsExact, FirstIsCalled, Waits, Before
<1>3. CASE ~Free /\ Wait(t, level)
  <2>1. waiters' = Append(waiters, t) /\ future' = [future EXCEPT ![t] = "pending"]
        /\ locked' = locked
    BY <1>3 DEF Wait
  <2>2. \A u \in Tasks : future'[u] = IF u = t THEN "pending" ELSE future[u]
    BY <2>1 DEF Invariant, TypeOK
  <2>3. ~Waits(t)
    BY DEF Enter, MayEnter
  <2>4. \A i \in DOMAIN waiters : waiters[i] \in Tasks /\ waiters[i] # t
    BY <2>3 DEF LineIsExact, Invariant, TypeOK
  <2>5. LineIsExact'
    <3>2. \A i \in DOMAIN waiters' : future'[waiters'[i]] # "none"
      BY <2>1, <2>2, <2>4, JoinLine DEF LineIsExact, Waits
    <3>3. \A u \in Tasks : Waits(u)' => \E i \in DOMAIN waiters' : waiters'[i] = u
      BY <2>1, <2>2, JoinLine DEF LineIsExact, Waits
    <3>4. \A i, j \in DOMAIN waiters' : waiters'[i] = waiters'[j] => i = j
      BY <2>1, <2>4, JoinLine DEF LineIsExact
    <3> QED  BY <3>2, <3>3, <3>4 DEF LineIsExact, Waits
  <2>6. FirstIsCalled'
    <3> SUFFICES ASSUME ~locked PROVE future'[waiters'[1]] # "pending"
      BY <2>1 DEF FirstIsCalled
    <3>1. PICK k \in DOMAIN waiters : future[waiters[k]] # "cancelled"
      BY <1>3 DEF Free
    <3>2. 1 \in DOMAIN waiters /\ waiters # <<>>
      BY <3>1, EmptySeq, LenProperties DEF Invariant, TypeOK
    <3>3. waiters'[1] = waiters[1]
      BY <2>1, <3>2, JoinLine
    <3> QED  BY <2>2, <2>4, <3>2, <3>3 DEF FirstIsCalled
  <2> QED  BY <2>1, <2>5, <2>6, JoinLine
<1> QED  BY <1>1, <1>2, <1>3 DEF Enter

\* Waking the first in line calls it.
LEMMA WakeFirstCalls ==
    ASSUME NEW queue \in Seq(Tasks), NEW f \in [Tasks -> Futures]
    PROVE  queue # <<>> => WakeFirst(queue, f)[queue[1]] # "pending"
<1> SUFFICES ASSUME queue # <<>> PROVE WakeFirst(queue, f)[queue[1]] # "pending"
  OBVIOUS
<1>1. queue[1] \in Tasks
  BY EmptySeq, LenProperties, ElementOfSeq
<1> QED  BY <1>1 DEF WakeFirst, Futures

\* A waiter that leaves the line is the only one that stops waiting.
LEMMA LeaveKeepsLine ==
    ASSUME Invariant, LineIsExact, NEW t \in Tasks, NEW place \in DOMAIN waiters,
           Leave(t, place), ~Waits(t)',
           \A u \in Tasks \ {t} : Waits(u)' <=> Waits(u)
    PROVE  LineIsExact'
<1>1. \A i \in DOMAIN waiters : waiters[i] \in Tasks
  BY DEF Invariant, TypeOK
<1>2. \A i \in DOMAIN waiters' : future'[waiters'[i]] # "none"
  BY <1>1, LeaveLine DEF LineIsExact, Waits
<1>3. \A u \in Tasks : Waits(u)' => \E i \in DOMAIN waiters' : waiters'[i] = u
  BY LeaveLine DEF LineIsExact
<1>4. \A i, j \in DOMAIN waiters' : waiters'[i] = waiters'[j] => i = j
  BY LeaveLine
<1> QED  BY <1>2, <1>3, <1>4 DEF LineIsExact, Waits

\* Every step keeps the line, and the order of those who go on waiting in it.
LEMMA LineStep ==
    ASSUME Invariant, LineInvariant, [Next]_transaction
    PROVE  /\ LineInvariant'
           /\ \A u, v \in Tasks : Before(u, v) /\ Waits(u)' /\ Waits(v)' => Before(u, v)'
<1> USE DEF LineInvariant
<1>1. ASSUME NEW t \in Tasks, Resume(t)
      PROVE  /\ LineInvariant'
             /\ \A u, v \in Tasks \ {t} : Before(u, v) => Before(u, v)'
             /\ ~Waits(t)'
  <2>1. PICK place \in DOMAIN waiters : Leave(t, place)
    BY <1>1 DEF Resume
  <2>2. ~Waits(t)' /\ \A u \in Tasks \ {t} : Waits(u)' <=> Waits(u)
    BY <1>1 DEF Resume, Waits, Invariant, TypeOK
  <2>3. LineIsExact'
    BY <2>1, <2>2, LeaveKeepsLine
  <2>4. FirstIsCalled'
    BY <1>1 DEF Resume, Take, FirstIsCalled
  <2> QED  BY <2>1, <2>2, <2>3, <2>4, LeaveLine
<1>2. ASSUME NEW t \in Tasks, GiveUp(t)
      PROVE  /\ LineInvariant'
             /\ \A u, v \in Tasks \ {t} : Before(u, v) => Before(u, v)'
             /\ ~Waits(t)'
  <2> DEFINE left == [future EXCEPT ![t] = "none"]
  <2>1. PICK place \in DOMAIN waiters : Leave(t, place)
    BY <1>2 DEF GiveUp
  <2>2. waiters' \in Seq(Tasks) /\ left \in [Tasks -> Futures]
    BY <2>1, LeaveType DEF Invariant, TypeOK, Futures
  <2>3. /\ future' = IF locked THEN left ELSE WakeFirst(waiters', left)
        /\ locked' = locked
    BY <1>2 DEF GiveUp
  <2>4. left[t] = "none" /\ \A u \in Tasks \ {t} : left[u] = future[u]
    BY DEF Invariant, TypeOK
  <2> HIDE DEF left
  <2>5. ~Waits(t)' /\ \A u \in Tasks \ {t} : Waits(u)' <=> Waits(u)
    <3>1. CASE locked
      BY <2>3, <2>4, <3>1 DEF Waits
    <3>2. CASE ~locked
      <4>1. \A u \in Tasks : future'[u] = "none" <=> left[u] = "none"
        BY <2>2, <2>3, <3>2, WakeFirstFacts
      <4> QED  BY <2>4, <4>1 DEF Waits
    <3> QED  BY <3>1, <3>2
  <2>6. LineIsExact'
    BY <2>1, <2>5, LeaveKeepsLine
  <2>7. FirstIsCalled'
    <3> SUFFICES ASSUME ~locked, waiters' # <<>> PROVE future'[waiters'[1]] # "pending"
      BY <2>3 DEF FirstIsCalled
    <3>1. WakeFirst(waiters', left)[waiters'[1]] # "pending"
      BY <2>2, WakeFirstCalls
    <3> QED  BY <2>3, <3>1
  <2> QED  BY <2>1, <2>5, <2>6, <2>7, LeaveLine
<1>3. ASSUME UNCHANGED waiters, \A u \in Tasks : Waits(u)' <=> Waits(u), FirstIsCalled'
      PROVE  /\ LineInvariant'
             /\ \A u, v \in Tasks : Before(u, v) => Before(u, v)'
  <2>1. \A i \in DOMAIN waiters : waiters[i] \in Tasks
    BY DEF Invariant, TypeOK
  <2> QED  BY <1>3, <2>1 DEF LineIsExact, Before, Waits
<1>4. ASSUME NEW t \in Tasks, Cancel(t)
      PROVE  /\ LineInvariant'
             /\ \A u, v \in Tasks : Before(u, v) => Before(u, v)'
  <2>1. \A u \in Tasks : \/ future'[u] = future[u]
                         \/ u = t /\ future'[u] \in {"cancelled", "stopped"}
    <3>1. future' = [future EXCEPT ![t] = IF future[t] = "pending" THEN "cancelled"
                                          ELSE "stopped"]
      BY <1>4 DEF Cancel
    <3> QED  BY <3>1 DEF Invariant, TypeOK
  <2>2. UNCHANGED <<waiters, locked>> /\ Waits(t)
    BY <1>4 DEF Cancel, Waits
  <2>3. \A u \in Tasks : Waits(u)' <=> Waits(u)
    BY <2>1, <2>2 DEF Waits
  <2>4. waiters # <<>> => waiters[1] \in Tasks
    BY EmptySeq, LenProperties, ElementOfSeq DEF Invariant, TypeOK
  <2>5. FirstIsCalled'
    BY <2>1, <2>2, <2>4 DEF FirstIsCalled
  <2> QED  BY <1>3, <2>2, <2>3, <2>5
<1>5. ASSUME NEW t \in Tasks, EndSession(t) \/ EndOperation(t)
      PROVE  /\ LineInvariant'
             /\ \A u, v \in Tasks : Before(u, v) => Before(u, v)'
  <2>1. CASE Release
    <3>1. waiters' = waiters /\ future' = WakeFirst(waiters, future)
      BY <2>1 DEF Release
    <3>2. waiters \in Seq(Tasks) /\ future \in [Tasks -> Futures]
      BY DEF Invariant, TypeOK
    <3>3. \A u \in Tasks : Waits(u)' <=> Waits(u)
      BY <3>1, <3>2, WakeFirstFacts DEF Waits
    <3>4. FirstIsCalled'
      BY <3>1, <3>2, WakeFirstCalls DEF FirstIsCalled
    <3> QED  BY <1>3, <3>1, <3>3, <3>4
  <2>2. CASE UNCHANGED lock
    BY <1>3, <2>2 DEF lock, Waits, FirstIsCalled
  <2> QED  BY <1>5, <2>1, <2>2 DEF EndSession, EndOperation
<1>6. CASE UNCHANGED transaction
  BY <1>3, <1>6 DEF transaction, lock, Waits, FirstIsCalled
<1> QED  BY <1>1, <1>2, <1>4, <1>5, <1>6, EnterLine DEF Next, Turn, Ends

LEMMA InitLine == Init => LineInvariant
<1> SUFFICES ASSUME Init PROVE LineInvariant
  OBVIOUS
<1>1. DOMAIN waiters = {}
  BY EmptySeq, LenProperties DEF Init
<1> QED  BY <1>1 DEF Init, LineInvariant, LineIsExact, FirstIsCalled, Waits

THEOREM LineHolds == Spec => [](Invariant /\ LineInvariant)
BY InitInvariant, NextInvariant, InitLine, LineStep, PTL DEF Spec

\* The safety half of EveryTaskGetsIn: release() and the end of a cancelled waiter
\* lose no wake-up, so while nobody has the lock the first in line has its turn ahead,
\* and every task that waits is in line, once.
THEOREM NoWakeUpIsLost ==
    Spec => [](/\ FirstIsCalled
               /\ \A t \in Tasks : Waits(t) => \E i \in DOMAIN waiters : waiters[i] = t)
<1>1. LineInvariant => /\ FirstIsCalled
                      /\ \A t \in Tasks : Waits(t) =>
                            \E i \in DOMAIN waiters : waiters[i] = t
  BY DEF LineInvariant, LineIsExact
<1> QED  BY <1>1, LineHolds, PTL

\* Of two tasks that go on waiting for the transaction, none is put before the other.
THEOREM NobodyIsOvertaken ==
    Spec => [][\A t, u \in Tasks :
                 Before(t, u) /\ Waits(t)' /\ Waits(u)' => Before(t, u)']_transaction
<1> DEFINE Kept == \A t, u \in Tasks :
                      Before(t, u) /\ Waits(t)' /\ Waits(u)' => Before(t, u)'
<1>1. Invariant /\ LineInvariant /\ [Next]_transaction => [Kept]_transaction
  BY LineStep
<1> HIDE DEF Kept
<1>2. Spec => [][Kept]_transaction
  BY <1>1, LineHolds, PTL DEF Spec
<1> QED  BY <1>2 DEF Kept

\* The transaction goes to a task only when no other task that still wants it was in
\* line before: one that is cancelled does not, and the one that enters is first.
THEOREM FirstComeFirstServed ==
    Spec => [][\A t, u \in Tasks :
                 owner' = t /\ owner # t /\ t # u /\ future[u] \in {"pending", "woken"}
                 => Before(t, u)]_transaction
<1> DEFINE Served ==
      \A t, u \in Tasks :
         owner' = t /\ owner # t /\ t # u /\ future[u] \in {"pending", "woken"}
         => Before(t, u)
<1>1. Invariant /\ LineInvariant /\ [Next]_transaction => [Served]_transaction
  <2> SUFFICES ASSUME Invariant, LineInvariant, [Next]_transaction,
                      NEW t \in Tasks, NEW u \in Tasks,
                      owner' = t, owner # t, t # u, future[u] \in {"pending", "woken"}
               PROVE  Before(t, u)
    OBVIOUS
  <2>1. PICK j \in DOMAIN waiters : waiters[j] = u
    BY DEF LineInvariant, LineIsExact, Waits
  <2>2. ~Free
    BY <2>1 DEF Free
  <2>3. t # NoTask
    BY BleTransactionAssumption
  <2>4. \E w \in Tasks : Resume(w) /\ w = t
    BY <2>2, <2>3 DEF Next, Turn, Ends, Enter, Wait, Cancel, GiveUp, EndSession,
                      EndOperation, Release, Resume, Take, transaction, lock
  <2>5. waiters # <<>> /\ waiters[1] = t
    BY <2>4 DEF Resume, Invariant, WokenIsFirst
  <2>6. 1 \in DOMAIN waiters /\ 1 < j
    <3>1. waiters \in Seq(Tasks) /\ Len(waiters) \in Nat
          /\ DOMAIN waiters = 1..Len(waiters)
      BY LenProperties DEF Invariant, TypeOK
    <3> QED  BY <2>1, <2>5, <3>1
  <2> QED  BY <2>1, <2>5, <2>6 DEF Before
<1> HIDE DEF Served
<1>2. Spec => [][Served]_transaction
  BY <1>1, LineHolds, PTL DEF Spec
<1> QED  BY <1>2 DEF Served
=============================================================================
