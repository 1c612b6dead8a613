------------------------- MODULE ChargerListsProofs -------------------------
(***************************************************************************)
(* Proofs about ChargerLists, for any tasks, cards, charge points and      *)
(* limit: the charger's lists change only as one edit was asked to change  *)
(* them, stay within the limit, and an edit that reports success was       *)
(* stored.                                                                 *)
(***************************************************************************)
EXTENDS ChargerLists, FiniteSetTheorems, TLAPS

\* What an edit has found out and is going to write, step by step: it owns the
\* transaction, so a list it read is still the charger's.
TaskInv(t) ==
    LET r == task[t].request
        l == task[t].list
    IN
    /\ task[t].step \in Sessions => lock = t
    /\ task[t].step \notin {"idle", "done", "failed"} => r \in Request
    /\ task[t].step \in {"look", "enable"} => r.kind = "add"
    /\ task[t].step \in {"look", "waiting", "read", "enable"} => l = {}
    /\ task[t].step = "read" => r.kind \in {"add", "remove"}
    /\ task[t].step = "enable" => r.card \notin cards
    /\ task[t].step \in {"version", "send"} =>
          /\ r.kind \in {"add", "remove", "clear"}
          /\ l \in SUBSET Cards
          /\ r.kind = "add" => enabled /\ r.card \notin cards
          /\ r.kind = "remove" => l = cards \ {r.card} /\ r.card \in cards
          /\ r.kind = "clear" => l = {}
    /\ task[t].step = "get" => r.kind \in {"pair", "unpair"}
    /\ task[t].step = "set" =>
          /\ r.kind \in {"pair", "unpair"}
          /\ l = Edited(r, points)
          /\ ~TooMany(r, points)
    /\ task[t].step = "verify" =>
          /\ r.kind = "add" => enabled
          /\ r.kind = "remove" => r.card \notin l
          /\ r.kind = "clear" => l = {}
          /\ r.kind = "pair" => r.point \in l
          /\ r.kind = "unpair" => \A p \in l : p[2] # r.id

IInv ==
    /\ TypeOK
    /\ AtMostMaxSatellites
    /\ \A t \in Tasks : TaskInv(t)

-----------------------------------------------------------------------------
(***************************************************************************)
(* Requests and lists                                                      *)
(***************************************************************************)

\* A request carries what its kind needs.
LEMMA RequestFields ==
    ASSUME NEW r \in Request
    PROVE  /\ r.kind \in {"add", "remove", "clear", "pair", "unpair"}
           /\ r.kind \in {"add", "remove"} => r.card \in Cards
           /\ r.kind = "pair" => r.point \in Points
           /\ r.kind = "unpair" => r.id \in Ids
  BY DEF Request, CardRequest, PointRequest

\* Any set of charge points is finite.
LEMMA PointsFinite ==
    ASSUME NEW S \in SUBSET Points
    PROVE  IsFiniteSet(S) /\ Cardinality(S) \in Nat
  <1>1. IsFiniteSet(Points)
    BY ListsAssumption, FS_Product DEF Points
  <1>2. IsFiniteSet(S)
    BY <1>1, FS_Subset
  <1>3. QED
    BY <1>2, FS_CardinalityType

\* An edit of the charge points that was not refused stays within the limit.
LEMMA EditedFits ==
    ASSUME NEW S \in SUBSET Points, NEW r \in Request, r.kind \in {"pair", "unpair"},
           Cardinality(S) <= MaxSatellites, ~TooMany(r, S)
    PROVE  /\ Edited(r, S) \in SUBSET Points
           /\ Cardinality(Edited(r, S)) <= MaxSatellites
           /\ r.kind = "pair" => r.point \in Edited(r, S)
           /\ r.kind = "unpair" => \A p \in Edited(r, S) : p[2] # r.id
  <1>1. IsFiniteSet(S) /\ Cardinality(S) \in Nat
    BY PointsFinite
  <1>2. CASE r.kind = "pair"
    <2>1. r.point \in Points
      BY <1>2, RequestFields
    <2>2. Edited(r, S) = S \cup {r.point}
      BY <1>2 DEF Edited
    <2>3. Cardinality(S \cup {r.point})
             = IF r.point \in S THEN Cardinality(S) ELSE Cardinality(S) + 1
      BY <1>1, FS_AddElement
    <2>4. r.point \in S \/ Cardinality(S) < MaxSatellites
      BY <1>1, <1>2, ListsAssumption DEF TooMany
    <2>5. Cardinality(S \cup {r.point}) <= MaxSatellites
      BY <1>1, <2>3, <2>4, ListsAssumption
    <2>6. QED
      BY <1>2, <2>1, <2>2, <2>5
  <1>3. CASE r.kind = "unpair"
    <2>1. Edited(r, S) = {p \in S : p[2] # r.id}
      BY <1>3 DEF Edited
    <2>2. Edited(r, S) \in SUBSET S
      BY <2>1
    <2>3. Cardinality(Edited(r, S)) <= Cardinality(S)
      BY <1>1, <2>2, FS_Subset
    <2>4. IsFiniteSet(Edited(r, S)) /\ Cardinality(Edited(r, S)) \in Nat
      BY <2>2, PointsFinite
    <2>5. Cardinality(Edited(r, S)) <= MaxSatellites
      BY <1>1, <2>3, <2>4, ListsAssumption
    <2>6. QED
      BY <1>3, <2>1, <2>2, <2>5
  <1>4. QED
    BY <1>2, <1>3

-----------------------------------------------------------------------------
(***************************************************************************)
(* The invariant                                                           *)
(***************************************************************************)

\* Initially nothing is being edited.
LEMMA InitInv == Init => IInv
  <1> SUFFICES ASSUME Init PROVE IInv
    OBVIOUS
  <1>1. TypeOK
    <2>1. Resting("idle") \in [step: Steps, request: Request \cup {NoEdit},
                              list: (SUBSET Cards) \cup (SUBSET Points)]
      BY DEF Resting, Steps
    <2>2. NoRefresh \in [busy: BOOLEAN, full: BOOLEAN,
                         previous: (SUBSET Points) \cup {None}]
      BY DEF NoRefresh
    <2>3. QED
      BY <2>1, <2>2 DEF Init, TypeOK
  <1>2. \A t \in Tasks : TaskInv(t)
    BY DEF Init, TaskInv, Resting, Sessions
  <1>3. QED
    BY <1>1, <1>2 DEF Init, IInv, AtMostMaxSatellites

\* A task keeps what is said of it when another one acts: it has no transaction,
\* or it has the only one and the charger is left alone.
LEMMA OtherTask ==
    ASSUME NEW v \in Tasks, TaskInv(v), task'[v] = task[v],
           task[v].step \in Sessions => UNCHANGED <<charger, lock>>
    PROVE  TaskInv(v)'
  <1>1. CASE task[v].step \in Sessions
    BY <1>1 DEF TaskInv, charger, Sessions, TooMany, Edited
  <1>2. CASE task[v].step \notin Sessions
    BY <1>2 DEF TaskInv, Sessions
  <1>3. QED
    BY <1>1, <1>2

\* Only the owner of the transaction is in a session.
LEMMA OneOwner ==
    ASSUME IInv, NEW t \in Tasks, NEW v \in Tasks \ {t}, task[v].step \in Sessions
    PROVE  lock = v /\ lock # None /\ task[t].step \notin Sessions
  BY ListsAssumption DEF IInv, TaskInv

\* The end of an edit is well typed and says nothing of the task any more.
LEMMA OverInv ==
    ASSUME IInv, NEW t \in Tasks, NEW how \in {"done", "failed"},
           task' = [task EXCEPT ![t] = Resting(how)]
    PROVE  /\ task' \in [Tasks -> [step: Steps, request: Request \cup {NoEdit},
                                   list: (SUBSET Cards) \cup (SUBSET Points)]]
           /\ TaskInv(t)'
           /\ \A v \in Tasks \ {t} : task'[v] = task[v]
  <1>1. Resting(how) \in [step: Steps, request: Request \cup {NoEdit},
                          list: (SUBSET Cards) \cup (SUBSET Points)]
    BY DEF Resting, Steps
  <1>2. task'[t] = Resting(how) /\ \A v \in Tasks \ {t} : task'[v] = task[v]
    BY DEF IInv, TypeOK
  <1>3. task'[t].step = how
    BY <1>2 DEF Resting
  <1>4. TaskInv(t)'
    BY <1>3 DEF TaskInv, Sessions
  <1>5. QED
    BY <1>1, <1>2, <1>4 DEF IInv, TypeOK

\* A step of one task
LEMMA MoveInv ==
    ASSUME IInv, NEW t \in Tasks, NEW step \in Steps, GoTo(t, step)
    PROVE  /\ task' \in [Tasks -> [step: Steps, request: Request \cup {NoEdit},
                                   list: (SUBSET Cards) \cup (SUBSET Points)]]
           /\ task'[t].step = step
           /\ task'[t].request = task[t].request
           /\ task'[t].list = task[t].list
           /\ \A v \in Tasks \ {t} : task'[v] = task[v]
  BY DEF IInv, TypeOK, GoTo

\* What is left to show of a step of one task: types, the limit and the task itself.
LEMMA KeepInv ==
    ASSUME IInv, NEW t \in Tasks, TypeOK', AtMostMaxSatellites', TaskInv(t)',
           \A v \in Tasks \ {t} : task'[v] = task[v],
           \/ UNCHANGED <<charger, lock>>
           \/ task[t].step \in Sessions
           \/ lock = None
    PROVE  IInv'
  <1>1. ASSUME NEW v \in Tasks \ {t} PROVE TaskInv(v)'
    <2>1. TaskInv(v)
      BY DEF IInv
    <2>2. task[v].step \in Sessions => UNCHANGED <<charger, lock>>
      BY OneOwner, ListsAssumption
    <2>3. QED
      BY <2>1, <2>2, OtherTask
  <1>2. QED
    BY <1>1 DEF IInv

-----------------------------------------------------------------------------
(***************************************************************************)
(* The steps of a task                                                     *)
(***************************************************************************)

\* A task that begins owns nothing.
LEMMA BeginInv == ASSUME IInv, NEW t \in Tasks, Begin(t) PROVE IInv'
  <1>1. PICK r \in Request, step \in {"look", "waiting"} :
           /\ step = "look" => r.kind = "add"
           /\ task' = [task EXCEPT ![t] = [step |-> step, request |-> r, list |-> {}]]
    BY DEF Begin
  <1>2. [step |-> step, request |-> r, list |-> {}]
           \in [step: Steps, request: Request \cup {NoEdit},
                list: (SUBSET Cards) \cup (SUBSET Points)]
    BY DEF Steps
  <1>3. TypeOK'
    BY <1>1, <1>2 DEF IInv, TypeOK, Begin, charger
  <1>4. /\ task'[t] = [step |-> step, request |-> r, list |-> {}]
        /\ \A v \in Tasks \ {t} : task'[v] = task[v]
    BY <1>1 DEF IInv, TypeOK
  <1>5. TaskInv(t)'
    BY <1>1, <1>4 DEF TaskInv, Sessions
  <1>6. AtMostMaxSatellites' /\ UNCHANGED <<charger, lock>>
    BY DEF IInv, AtMostMaxSatellites, Begin, charger
  <1>7. QED
    BY <1>3, <1>4, <1>5, <1>6, KeepInv

\* The form's own read takes nothing with it into the edit.
LEMMA LookInv == ASSUME IInv, NEW t \in Tasks, Look(t) PROVE IInv'
  <1>1. AtMostMaxSatellites' /\ UNCHANGED <<charger, lock>>
    BY DEF IInv, AtMostMaxSatellites, Look, charger
  <1>2. CASE GoTo(t, "waiting")
    <2>1. "waiting" \in Steps
      BY DEF Steps
    <2>2. /\ task' \in [Tasks -> [step: Steps, request: Request \cup {NoEdit},
                                  list: (SUBSET Cards) \cup (SUBSET Points)]]
          /\ task'[t].step = "waiting"
          /\ task'[t].request = task[t].request
          /\ task'[t].list = task[t].list
          /\ \A v \in Tasks \ {t} : task'[v] = task[v]
      BY <1>2, <2>1, MoveInv
    <2>3. TypeOK'
      BY <2>2 DEF IInv, TypeOK, Look, charger
    <2>4. TaskInv(t)'
      BY <2>2 DEF IInv, TaskInv, Look, At, Sessions
    <2>5. QED
      BY <1>1, <2>2, <2>3, <2>4, KeepInv
  <1>3. CASE task' = [task EXCEPT ![t] = Resting("failed")]
    <2>1. /\ task' \in [Tasks -> [step: Steps, request: Request \cup {NoEdit},
                                  list: (SUBSET Cards) \cup (SUBSET Points)]]
          /\ TaskInv(t)'
          /\ \A v \in Tasks \ {t} : task'[v] = task[v]
      BY <1>3, OverInv
    <2>2. TypeOK'
      BY <2>1 DEF IInv, TypeOK, Look, charger
    <2>3. QED
      BY <1>1, <2>1, <2>2, KeepInv
  <1>4. QED
    BY <1>2, <1>3 DEF Look

\* The transaction is taken when nobody has it.
LEMMA AcquireInv == ASSUME IInv, NEW t \in Tasks, Acquire(t) PROVE IInv'
  <1>1. task[t].request \in Request /\ task[t].list = {}
    BY DEF IInv, TaskInv, Acquire, At
  <1>2. task[t].request.kind \in {"add", "remove", "clear", "pair", "unpair"}
    BY <1>1, RequestFields
  <1>3. FirstSession(Kind(t)) \in {"read", "version", "get"}
    BY <1>2 DEF FirstSession, Kind
  <1>4. FirstSession(Kind(t)) \in Steps
    BY <1>3 DEF Steps, Sessions
  <1>5. /\ task' \in [Tasks -> [step: Steps, request: Request \cup {NoEdit},
                                list: (SUBSET Cards) \cup (SUBSET Points)]]
        /\ task'[t].step = FirstSession(Kind(t))
        /\ task'[t].request = task[t].request
        /\ task'[t].list = task[t].list
        /\ \A v \in Tasks \ {t} : task'[v] = task[v]
    BY <1>4, MoveInv DEF Acquire
  <1>6. TypeOK'
    BY <1>5 DEF IInv, TypeOK, Acquire, charger
  <1>7. AtMostMaxSatellites' /\ lock = None /\ lock' = t
    BY DEF IInv, AtMostMaxSatellites, Acquire, charger
  <1>8. TaskInv(t)'
    BY <1>1, <1>2, <1>3, <1>5, <1>7 DEF TaskInv, FirstSession, Kind
  <1>9. QED
    BY <1>5, <1>6, <1>7, <1>8, KeepInv

\* An edit that ends, with the charger's list changed within its limit or not
LEMMA EndsInv ==
    ASSUME IInv, NEW t \in Tasks, task[t].step \in Sessions,
           NEW how \in {"done", "failed"}, Over(t, how),
           cards' \in SUBSET Cards, enabled' \in BOOLEAN, points' \in SUBSET Points,
           shown' \in [cards: (SUBSET Cards) \cup {None},
                       points: (SUBSET Points) \cup {None}],
           AtMostMaxSatellites', UNCHANGED refresh
    PROVE  IInv'
  <1>1. /\ task' \in [Tasks -> [step: Steps, request: Request \cup {NoEdit},
                                list: (SUBSET Cards) \cup (SUBSET Points)]]
        /\ TaskInv(t)'
        /\ \A v \in Tasks \ {t} : task'[v] = task[v]
    BY OverInv DEF Over
  <1>2. TypeOK'
    BY <1>1 DEF IInv, TypeOK, Over
  <1>3. QED
    BY <1>1, <1>2, KeepInv

\* A failed session leaves everything as it is.
LEMMA SessionFailsInv == ASSUME IInv, NEW t \in Tasks, SessionFails(t) PROVE IInv'
  BY EndsInv DEF SessionFails, IInv, TypeOK, AtMostMaxSatellites, charger

\* An edit that goes on after a session; its task still has to be looked at.
LEMMA GoesOnInv ==
    ASSUME IInv, NEW t \in Tasks, task[t].step \in Sessions, UNCHANGED <<lock, refresh>>,
           task' \in [Tasks -> [step: Steps, request: Request \cup {NoEdit},
                                list: (SUBSET Cards) \cup (SUBSET Points)]],
           \A v \in Tasks \ {t} : task'[v] = task[v],
           cards' \in SUBSET Cards, enabled' \in BOOLEAN, points' \in SUBSET Points,
           UNCHANGED shown, AtMostMaxSatellites', TaskInv(t)'
    PROVE  IInv'
  <1>1. TypeOK'
    BY DEF IInv, TypeOK
  <1>2. QED
    BY <1>1, KeepInv

-----------------------------------------------------------------------------
(***************************************************************************)
(* The sessions of an edit of the cards                                    *)
(***************************************************************************)

\* The list of cards is read in the transaction: what a removal will write is it
\* without the card.
LEMMA ReadCardsInv == ASSUME IInv, NEW t \in Tasks, ReadCards(t) PROVE IInv'
  <1>1. /\ task[t].step = "read" /\ task[t].step \in Sessions
        /\ lock = t /\ task[t].request \in Request
        /\ task[t].list = {}
    BY DEF IInv, TaskInv, ReadCards, At, Sessions
  <1>2. /\ UNCHANGED <<charger, shown, refresh>> /\ AtMostMaxSatellites'
        /\ cards' \in SUBSET Cards /\ enabled' \in BOOLEAN /\ points' \in SUBSET Points
        /\ shown' \in [cards: (SUBSET Cards) \cup {None},
                       points: (SUBSET Points) \cup {None}]
    BY DEF IInv, TypeOK, AtMostMaxSatellites, ReadCards, charger
  <1>3. CASE /\ Kind(t) = "add" /\ GoTo(t, "enable") /\ UNCHANGED lock
             /\ task[t].request.card \notin cards
    <2>1. "enable" \in Steps
      BY DEF Steps, Sessions
    <2>2. /\ task' \in [Tasks -> [step: Steps, request: Request \cup {NoEdit},
                                  list: (SUBSET Cards) \cup (SUBSET Points)]]
          /\ task'[t].step = "enable"
          /\ task'[t].request = task[t].request
          /\ task'[t].list = task[t].list
          /\ \A v \in Tasks \ {t} : task'[v] = task[v]
      BY <1>3, <2>1, MoveInv
    <2>3. task[t].request.card \notin cards'
      BY <1>2, <1>3 DEF charger
    <2>4. TaskInv(t)'
      BY <1>1, <1>3, <2>2, <2>3 DEF TaskInv, Kind
    <2>5. QED
      BY <1>1, <1>2, <1>3, <2>2, <2>4, GoesOnInv
  <1>4. CASE /\ Kind(t) = "remove" /\ UNCHANGED lock
             /\ task[t].request.card \in cards
             /\ task' = [task EXCEPT ![t].step = "version",
                                     ![t].list = cards \ {task[t].request.card}]
    <2>1. cards \ {task[t].request.card} \in SUBSET Cards
      BY DEF IInv, TypeOK
    <2>2. "version" \in Steps
      BY DEF Steps, Sessions
    <2>3. /\ task' \in [Tasks -> [step: Steps, request: Request \cup {NoEdit},
                                  list: (SUBSET Cards) \cup (SUBSET Points)]]
          /\ task'[t].step = "version"
          /\ task'[t].request = task[t].request
          /\ task'[t].list = cards \ {task[t].request.card}
          /\ \A v \in Tasks \ {t} : task'[v] = task[v]
      BY <1>4, <2>1, <2>2 DEF IInv, TypeOK
    <2>4. TaskInv(t)'
      BY <1>1, <1>2, <1>4, <2>1, <2>3 DEF TaskInv, Kind, charger
    <2>5. QED
      BY <1>1, <1>2, <1>4, <2>3, <2>4, GoesOnInv
  <1>5. CASE Over(t, "failed")
    BY <1>1, <1>2, <1>5, EndsInv
  <1>6. QED
    BY <1>3, <1>4, <1>5 DEF ReadCards

\* Once LocalAuthListEnabled is on, it stays on.
LEMMA EnableInv == ASSUME IInv, NEW t \in Tasks, Enable(t) PROVE IInv'
  <1>1. /\ task[t].step = "enable" /\ task[t].step \in Sessions
        /\ lock = t /\ task[t].request \in Request
        /\ task[t].request.kind = "add" /\ task[t].list = {}
        /\ task[t].request.card \notin cards
    BY DEF IInv, TaskInv, Enable, At, Sessions
  <1>2. /\ UNCHANGED <<shown, refresh>> /\ AtMostMaxSatellites'
        /\ enabled' = TRUE /\ cards' = cards
        /\ cards' \in SUBSET Cards /\ enabled' \in BOOLEAN /\ points' \in SUBSET Points
        /\ shown' \in [cards: (SUBSET Cards) \cup {None},
                       points: (SUBSET Points) \cup {None}]
    BY DEF IInv, TypeOK, AtMostMaxSatellites, Enable
  <1>3. CASE GoTo(t, "version") /\ UNCHANGED lock
    <2>1. "version" \in Steps
      BY DEF Steps, Sessions
    <2>2. /\ task' \in [Tasks -> [step: Steps, request: Request \cup {NoEdit},
                                  list: (SUBSET Cards) \cup (SUBSET Points)]]
          /\ task'[t].step = "version"
          /\ task'[t].request = task[t].request
          /\ task'[t].list = task[t].list
          /\ \A v \in Tasks \ {t} : task'[v] = task[v]
      BY <1>3, <2>1, MoveInv
    <2>3. TaskInv(t)'
      BY <1>1, <1>2, <1>3, <2>2 DEF TaskInv
    <2>4. QED
      BY <1>1, <1>2, <1>3, <2>2, <2>3, GoesOnInv
  <1>4. CASE Over(t, "failed")
    BY <1>1, <1>2, <1>4, EndsInv
  <1>5. QED
    BY <1>3, <1>4 DEF Enable, Written

\* The version of the list says nothing of the list.
LEMMA ReadVersionInv == ASSUME IInv, NEW t \in Tasks, ReadVersion(t) PROVE IInv'
  <1>1. task[t].step = "version" /\ task[t].step \in Sessions /\ TaskInv(t)
    BY DEF IInv, ReadVersion, At, Sessions
  <1>2. /\ UNCHANGED <<charger, shown, refresh, lock>> /\ AtMostMaxSatellites'
        /\ cards' \in SUBSET Cards /\ enabled' \in BOOLEAN /\ points' \in SUBSET Points
    BY DEF IInv, TypeOK, AtMostMaxSatellites, ReadVersion, charger
  <1>3. "send" \in Steps
    BY DEF Steps, Sessions
  <1>4. /\ task' \in [Tasks -> [step: Steps, request: Request \cup {NoEdit},
                                list: (SUBSET Cards) \cup (SUBSET Points)]]
        /\ task'[t].step = "send"
        /\ task'[t].request = task[t].request
        /\ task'[t].list = task[t].list
        /\ \A v \in Tasks \ {t} : task'[v] = task[v]
    BY <1>3, MoveInv DEF ReadVersion
  <1>5. TaskInv(t)'
    BY <1>1, <1>2, <1>4 DEF TaskInv, charger
  <1>6. QED
    BY <1>1, <1>2, <1>4, <1>5, GoesOnInv

\* What is sent comes from the transaction, so nothing of the charger's is lost.
LEMMA SendInv == ASSUME IInv, NEW t \in Tasks, Send(t) PROVE IInv'
  <1>1. task[t].step = "send" /\ task[t].step \in Sessions /\ TaskInv(t)
    BY DEF IInv, Send, At, Sessions
  <1>2. /\ task[t].request \in Request
        /\ task[t].request.kind \in {"add", "remove", "clear"}
        /\ task[t].list \in SUBSET Cards
        /\ task[t].request.kind = "add" => enabled /\ task[t].request.card \in Cards
        /\ task[t].request.kind = "remove" => task[t].request.card \notin task[t].list
        /\ task[t].request.kind = "clear" => task[t].list = {}
        /\ lock = t
    BY <1>1, RequestFields DEF TaskInv
  <1>3. Sent(t) \in SUBSET Cards
    BY <1>2 DEF IInv, TypeOK, Sent, Kind
  <1>4. /\ UNCHANGED <<enabled, shown, refresh>> /\ AtMostMaxSatellites'
        /\ cards' \in SUBSET Cards /\ enabled' \in BOOLEAN /\ points' \in SUBSET Points
        /\ shown' \in [cards: (SUBSET Cards) \cup {None},
                       points: (SUBSET Points) \cup {None}]
    BY <1>3 DEF IInv, TypeOK, AtMostMaxSatellites, Send
  <1>5. CASE GoTo(t, "verify") /\ UNCHANGED lock
    <2>1. "verify" \in Steps
      BY DEF Steps, Sessions
    <2>2. /\ task' \in [Tasks -> [step: Steps, request: Request \cup {NoEdit},
                                  list: (SUBSET Cards) \cup (SUBSET Points)]]
          /\ task'[t].step = "verify"
          /\ task'[t].request = task[t].request
          /\ task'[t].list = task[t].list
          /\ \A v \in Tasks \ {t} : task'[v] = task[v]
      BY <1>5, <2>1, MoveInv
    <2>3. TaskInv(t)'
      BY <1>2, <1>4, <1>5, <2>2 DEF TaskInv
    <2>4. QED
      BY <1>1, <1>4, <1>5, <2>2, <2>3, GoesOnInv
  <1>6. CASE Over(t, "failed")
    BY <1>1, <1>4, <1>6, EndsInv
  <1>7. QED
    BY <1>5, <1>6 DEF Send, Written

\* The read-back shows the charger's list.
LEMMA VerifyCardsInv == ASSUME IInv, NEW t \in Tasks, VerifyCards(t) PROVE IInv'
  <1>1. task[t].step \in Sessions
    BY DEF VerifyCards, At, Sessions
  <1>2. /\ UNCHANGED <<charger, refresh>> /\ AtMostMaxSatellites'
        /\ cards' \in SUBSET Cards /\ enabled' \in BOOLEAN /\ points' \in SUBSET Points
    BY DEF IInv, TypeOK, AtMostMaxSatellites, VerifyCards, charger
  <1>3. shown' \in [cards: (SUBSET Cards) \cup {None},
                    points: (SUBSET Points) \cup {None}]
    BY DEF IInv, TypeOK, VerifyCards
  <1>4. PICK how \in {"done", "failed"} : Over(t, how)
    BY DEF VerifyCards
  <1>5. QED
    BY <1>1, <1>2, <1>3, <1>4, EndsInv

-----------------------------------------------------------------------------
(***************************************************************************)
(* The sessions of an edit of the charge points                            *)
(***************************************************************************)

\* The limit is checked against the list that is going to be edited.
LEMMA ReadPointsInv == ASSUME IInv, NEW t \in Tasks, ReadPoints(t) PROVE IInv'
  <1> DEFINE r == task[t].request
  <1>1. /\ task[t].step = "get" /\ task[t].step \in Sessions
        /\ lock = t /\ r \in Request /\ r.kind \in {"pair", "unpair"}
    BY DEF IInv, TaskInv, ReadPoints, At, Sessions
  <1>2. /\ UNCHANGED <<charger, shown, refresh>> /\ AtMostMaxSatellites'
        /\ cards' \in SUBSET Cards /\ enabled' \in BOOLEAN /\ points' \in SUBSET Points
        /\ shown' \in [cards: (SUBSET Cards) \cup {None},
                       points: (SUBSET Points) \cup {None}]
    BY DEF IInv, TypeOK, AtMostMaxSatellites, ReadPoints, charger
  <1>3. CASE /\ ~TooMany(r, points) /\ UNCHANGED lock
             /\ task' = [task EXCEPT ![t].step = "set", ![t].list = Edited(r, points)]
    <2>1. Edited(r, points) \in SUBSET Points
      BY <1>1, <1>3, EditedFits DEF IInv, TypeOK, AtMostMaxSatellites
    <2>2. "set" \in Steps
      BY DEF Steps, Sessions
    <2>3. /\ task' \in [Tasks -> [step: Steps, request: Request \cup {NoEdit},
                                  list: (SUBSET Cards) \cup (SUBSET Points)]]
          /\ task'[t].step = "set"
          /\ task'[t].request = task[t].request
          /\ task'[t].list = Edited(r, points)
          /\ \A v \in Tasks \ {t} : task'[v] = task[v]
      BY <1>3, <2>1, <2>2 DEF IInv, TypeOK
    <2>4. points' = points /\ lock' = t
      BY <1>1, <1>2, <1>3 DEF charger
    <2>5. /\ task'[t].list = Edited(task'[t].request, points')
          /\ ~TooMany(task'[t].request, points')
      BY <1>3, <2>3, <2>4
    <2>6. TaskInv(t)'
      <3>1. task'[t].request \in Request /\ task'[t].request.kind \in {"pair", "unpair"}
        BY <1>1, <2>3
      <3>2. QED
        BY <2>3, <2>4, <2>5, <3>1 DEF TaskInv
    <2>7. QED
      BY <1>1, <1>2, <1>3, <2>3, <2>6, GoesOnInv
  <1>4. CASE Over(t, "failed")
    BY <1>1, <1>2, <1>4, EndsInv
  <1>5. QED
    BY <1>3, <1>4 DEF ReadPoints

\* What is written is the list of the transaction, edited and within the limit.
LEMMA SetPointsInv == ASSUME IInv, NEW t \in Tasks, SetPoints(t) PROVE IInv'
  <1> DEFINE r == task[t].request
  <1>1. /\ task[t].step = "set" /\ task[t].step \in Sessions
        /\ lock = t /\ r \in Request /\ r.kind \in {"pair", "unpair"}
        /\ task[t].list = Edited(r, points) /\ ~TooMany(r, points)
    BY DEF IInv, TaskInv, SetPoints, At, Sessions
  <1>2. points \in SUBSET Points /\ Cardinality(points) <= MaxSatellites
    BY DEF IInv, TypeOK, AtMostMaxSatellites
  <1>3. /\ task[t].list \in SUBSET Points
        /\ Cardinality(task[t].list) <= MaxSatellites
        /\ r.kind = "pair" => r.point \in task[t].list
        /\ r.kind = "unpair" => \A p \in task[t].list : p[2] # r.id
    BY <1>1, <1>2, EditedFits
  <1>4. points' \in SUBSET Points /\ AtMostMaxSatellites'
    BY <1>2, <1>3 DEF SetPoints, AtMostMaxSatellites
  <1>5. /\ UNCHANGED <<cards, enabled, shown, refresh>>
        /\ cards' \in SUBSET Cards /\ enabled' \in BOOLEAN
        /\ shown' \in [cards: (SUBSET Cards) \cup {None},
                       points: (SUBSET Points) \cup {None}]
    BY DEF IInv, TypeOK, SetPoints
  <1>6. CASE GoTo(t, "verify") /\ UNCHANGED lock
    <2>1. "verify" \in Steps
      BY DEF Steps, Sessions
    <2>2. /\ task' \in [Tasks -> [step: Steps, request: Request \cup {NoEdit},
                                  list: (SUBSET Cards) \cup (SUBSET Points)]]
          /\ task'[t].step = "verify"
          /\ task'[t].request = task[t].request
          /\ task'[t].list = task[t].list
          /\ \A v \in Tasks \ {t} : task'[v] = task[v]
      BY <1>6, <2>1, MoveInv
    <2>3. TaskInv(t)'
      BY <1>1, <1>3, <1>6, <2>2 DEF TaskInv
    <2>4. QED
      BY <1>1, <1>4, <1>5, <1>6, <2>2, <2>3, GoesOnInv
  <1>7. CASE Over(t, "failed")
    BY <1>1, <1>4, <1>5, <1>7, EndsInv
  <1>8. QED
    BY <1>6, <1>7 DEF SetPoints, Written

\* The read-back shows the charger's list.
LEMMA VerifyPointsInv == ASSUME IInv, NEW t \in Tasks, VerifyPoints(t) PROVE IInv'
  <1>1. task[t].step \in Sessions
    BY DEF VerifyPoints, At, Sessions
  <1>2. /\ UNCHANGED <<charger, refresh>> /\ AtMostMaxSatellites'
        /\ cards' \in SUBSET Cards /\ enabled' \in BOOLEAN /\ points' \in SUBSET Points
    BY DEF IInv, TypeOK, AtMostMaxSatellites, VerifyPoints, charger
  <1>3. shown' \in [cards: (SUBSET Cards) \cup {None},
                    points: (SUBSET Points) \cup {None}]
    BY DEF IInv, TypeOK, VerifyPoints
  <1>4. PICK how \in {"done", "failed"} : Over(t, how)
    BY DEF VerifyPoints
  <1>5. QED
    BY <1>1, <1>2, <1>3, <1>4, EndsInv

-----------------------------------------------------------------------------
(***************************************************************************)
(* The refresh, and all steps                                              *)
(***************************************************************************)

\* A step that leaves tasks, charger and transaction alone
LEMMA OutsideInv ==
    ASSUME IInv, UNCHANGED <<charger, lock, task>>, TypeOK'
    PROVE  IInv'
  <1>1. \A t \in Tasks : TaskInv(t)'
    BY OtherTask DEF IInv
  <1>2. QED
    BY <1>1 DEF IInv, AtMostMaxSatellites, charger

\* A refresh remembers what is shown.
LEMMA StartRefreshInv == IInv /\ StartRefresh => IInv'
  <1> SUFFICES ASSUME IInv, StartRefresh PROVE IInv'
    OBVIOUS
  <1>1. TypeOK'
    BY DEF IInv, TypeOK, StartRefresh, charger
  <1>2. QED
    BY <1>1, OutsideInv DEF StartRefresh

\* A refresh shows what it read or what it remembered.
LEMMA EndRefreshInv == IInv /\ EndRefresh => IInv'
  <1> SUFFICES ASSUME IInv, EndRefresh PROVE IInv'
    OBVIOUS
  <1>1. shown' \in [cards: (SUBSET Cards) \cup {None},
                    points: (SUBSET Points) \cup {None}]
    BY DEF IInv, TypeOK, EndRefresh
  <1>2. TypeOK'
    BY <1>1 DEF IInv, TypeOK, EndRefresh, NoRefresh, charger
  <1>3. QED
    BY <1>2, OutsideInv DEF EndRefresh

\* The invariant is inductive.
LEMMA NextInv == IInv /\ [Next]_vars => IInv'
  <1> SUFFICES ASSUME IInv, [Next]_vars PROVE IInv'
    OBVIOUS
  <1>1. CASE UNCHANGED vars
    <2>1. TypeOK'
      BY <1>1 DEF vars, IInv, TypeOK
    <2>2. QED
      BY <1>1, <2>1, OutsideInv DEF vars, charger
  <1>2. ASSUME NEW t \in Tasks, Step(t) PROVE IInv'
    BY <1>2, BeginInv, LookInv, AcquireInv, SessionFailsInv, ReadCardsInv, EnableInv,
       ReadVersionInv, SendInv, VerifyCardsInv, ReadPointsInv, SetPointsInv,
       VerifyPointsInv DEF Step
  <1>3. QED
    BY <1>1, <1>2, StartRefreshInv, EndRefreshInv DEF Next

\* So the invariant holds in every reachable state.
THEOREM Invariant == Spec => []IInv
  <1>1. QED
    BY InitInv, NextInv, PTL DEF Spec

-----------------------------------------------------------------------------
(***************************************************************************)
(* What follows                                                            *)
(***************************************************************************)

\* Every reachable state is well typed, whatever services, forms and refreshes of
\* coordinator.py follow one another.
THEOREM TypeCorrect == Spec => []TypeOK
  <1>1. IInv => TypeOK
    BY DEF IInv
  <1>2. QED
    BY <1>1, Invariant, PTL

\* async_update_rf_modules never gives the charger more charge points than
\* MAX_SATELLITES, however many tasks pair at once and whatever the charger stores.
THEOREM WithinLimit == Spec => []AtMostMaxSatellites
  <1>1. IInv => AtMostMaxSatellites
    BY DEF IInv
  <1>2. QED
    BY <1>1, Invariant, PTL

\* A step that changes the cards is a SendLocalList.
LEMMA CardsChange ==
    ASSUME [Next]_vars, cards' # cards
    PROVE  \E t \in Tasks : Send(t)
  <1>1. ASSUME NEW t \in Tasks, Step(t), ~Send(t) PROVE cards' = cards
    BY <1>1 DEF Step, Begin, Look, Acquire, SessionFails, ReadCards, Enable, ReadVersion,
       VerifyCards, ReadPoints, SetPoints, VerifyPoints, charger
  <1>2. QED
    BY <1>1 DEF Next, vars, StartRefresh, EndRefresh, charger

\* A step that changes the charge points writes evb_RFModules.
LEMMA PointsChange ==
    ASSUME [Next]_vars, points' # points
    PROVE  \E t \in Tasks : SetPoints(t)
  <1>1. ASSUME NEW t \in Tasks, Step(t), ~SetPoints(t) PROVE points' = points
    BY <1>1 DEF Step, Begin, Look, Acquire, SessionFails, ReadCards, Enable, ReadVersion,
       Send, VerifyCards, ReadPoints, VerifyPoints, charger
  <1>2. QED
    BY <1>1 DEF Next, vars, StartRefresh, EndRefresh, charger

\* async_add_card, async_remove_card and async_clear_cards change the card they were
\* asked to change and lose no other task's edit, although a removal writes the
\* whole list.
LEMMA CardEditsAreLocal ==
    ASSUME IInv, [Next]_vars, NEW c \in Cards, (c \in cards) # (c \in cards')
    PROVE  CardIsAskedFor(c)
  <1>1. cards' # cards
    OBVIOUS
  <1>2. PICK t \in Tasks : Send(t)
    BY <1>1, CardsChange
  <1>3. cards' = Sent(t) /\ At(t, "send")
    BY <1>1, <1>2 DEF Send
  <1>4. /\ task[t].request.kind \in {"add", "remove", "clear"}
        /\ task[t].request.kind = "remove"
           => task[t].list = cards \ {task[t].request.card}
        /\ task[t].request.kind = "clear" => task[t].list = {}
    BY <1>3 DEF IInv, TaskInv, At
  <1>5. QED
    BY <1>3, <1>4 DEF CardIsAskedFor, Sent, Kind

\* async_update_rf_modules changes the charge point it was asked to change and loses
\* no other task's edit, although it writes the whole list.
LEMMA PointEditsAreLocal ==
    ASSUME IInv, [Next]_vars, NEW p \in Points, (p \in points) # (p \in points')
    PROVE  PointIsAskedFor(p)
  <1>1. points' # points
    OBVIOUS
  <1>2. PICK t \in Tasks : SetPoints(t)
    BY <1>1, PointsChange
  <1>3. points' = task[t].list /\ At(t, "set")
    BY <1>1, <1>2 DEF SetPoints
  <1>4. /\ task[t].request.kind \in {"pair", "unpair"}
        /\ task[t].list = Edited(task[t].request, points)
    BY <1>3 DEF IInv, TaskInv, At
  <1>5. QED
    BY <1>3, <1>4 DEF PointIsAskedFor, Edited, Kind

\* So of both lists only what some edit under way was asked to change is changed.
THEOREM EditsAreLocal == Spec => OtherElementsAreKept
  <1>1. IInv /\ [Next]_vars
        => [/\ \A c \in Cards : (c \in cards) # (c \in cards') => CardIsAskedFor(c)
            /\ \A p \in Points : (p \in points) # (p \in points') => PointIsAskedFor(p)]_vars
    BY CardEditsAreLocal, PointEditsAreLocal
  <1>2. QED
    BY <1>1, Invariant, PTL DEF Spec, OtherElementsAreKept

\* A task is done by the read-back of its list alone.
LEMMA DoneByVerification ==
    ASSUME IInv, [Next]_vars, NEW t \in Tasks, ~At(t, "done"), task'[t].step = "done"
    PROVE  VerifyCards(t) \/ VerifyPoints(t)
  <1>1. PICK u \in Tasks : Step(u)
    BY DEF Next, vars, StartRefresh, EndRefresh, At
  <1>2. \A e \in Steps : GoTo(u, e) /\ task'[t].step = "done" => u = t /\ e = "done"
    BY DEF IInv, TypeOK, GoTo, At
  <1>3. Over(u, "failed") => task'[t].step # "done"
    BY DEF IInv, TypeOK, Over, Resting, At
  <1>4. CASE Begin(u) \/ Look(u) \/ Acquire(u) \/ SessionFails(u)
    <2>1. ~Begin(u)
      BY DEF IInv, TypeOK, Begin, At
    <2>2. ~Look(u)
      BY <1>2 DEF IInv, TypeOK, Look, Resting, At, Steps
    <2>3. ~Acquire(u)
      <3>1. SUFFICES ASSUME Acquire(u) PROVE FALSE
        OBVIOUS
      <3>2. task[u].request \in Request
        BY <3>1 DEF IInv, TaskInv, Acquire, At
      <3>3. task[u].request.kind \in {"add", "remove", "clear", "pair", "unpair"}
        BY <3>2, RequestFields
      <3>4. FirstSession(Kind(u)) \in Sessions \ {"done"}
        BY <3>3 DEF FirstSession, Kind, Sessions
      <3>5. QED
        BY <1>2, <3>1, <3>4 DEF Acquire, Steps
    <2>4. ~SessionFails(u)
      BY <1>3 DEF SessionFails
    <2>5. QED
      BY <1>4, <2>1, <2>2, <2>3, <2>4
  <1>5. CASE ReadCards(u)
    BY <1>2, <1>3, <1>5 DEF ReadCards, IInv, TypeOK, At, Steps, Sessions
  <1>6. CASE Enable(u) \/ ReadVersion(u) \/ Send(u) \/ SetPoints(u)
    BY <1>2, <1>3, <1>6 DEF Enable, ReadVersion, Send, SetPoints, Written, Steps, Sessions
  <1>7. CASE ReadPoints(u)
    BY <1>2, <1>3, <1>7 DEF ReadPoints, IInv, TypeOK, At
  <1>8. CASE VerifyCards(u) \/ VerifyPoints(u)
    <2>1. Over(u, "done") \/ Over(u, "failed")
      BY <1>8 DEF VerifyCards, VerifyPoints
    <2>2. u # t => task'[t] = task[t]
      BY <2>1 DEF Over, IInv, TypeOK
    <2>3. u = t
      BY <2>2 DEF At
    <2>4. QED
      BY <1>8, <2>3
  <1>9. QED
    BY <1>1, <1>4, <1>5, <1>6, <1>7, <1>8 DEF Step

\* An action of coordinator.py that edits a list and ends without an error has the
\* charger's list as it was asked for, and shows that list.
THEOREM SuccessIsTrue == Spec => SuccessIsStored
  <1> DEFINE Right(t) ==
        /\ Fulfilled(task[t].request)
        /\ IF Kind(t) \in {"pair", "unpair"} THEN shown'.points = points
           ELSE shown'.cards = cards
  <1>1. ASSUME IInv, [Next]_vars, NEW t \in Tasks, ~At(t, "done"), task'[t].step = "done"
        PROVE  Right(t)
    <2>1. task[t].step = "verify" /\ TaskInv(t)
      BY <1>1, DoneByVerification DEF VerifyCards, VerifyPoints, At, IInv
    <2>2. ~Over(t, "failed")
      BY <1>1 DEF Over, Resting, IInv, TypeOK
    <2>3. CASE VerifyCards(t)
      <3>1. /\ task[t].request.kind \in {"add", "remove", "clear"}
            /\ CardsStored(t) /\ shown' = [shown EXCEPT !.cards = cards]
        BY <2>2, <2>3 DEF VerifyCards, Kind
      <3>2. shown'.cards = cards
        BY <1>1, <3>1 DEF IInv, TypeOK
      <3>3. Fulfilled(task[t].request)
        BY <2>1, <3>1 DEF TaskInv, CardsStored, Kind, Fulfilled
      <3>4. QED
        BY <3>1, <3>2, <3>3 DEF Kind
    <2>4. CASE VerifyPoints(t)
      <3>1. /\ task[t].request.kind \in {"pair", "unpair"}
            /\ points = task[t].list /\ shown' = [shown EXCEPT !.points = points]
        BY <2>2, <2>4 DEF VerifyPoints, Kind
      <3>2. shown'.points = points
        BY <1>1, <3>1 DEF IInv, TypeOK
      <3>3. Fulfilled(task[t].request)
        BY <2>1, <3>1 DEF TaskInv, Fulfilled
      <3>4. QED
        BY <3>1, <3>2, <3>3 DEF Kind
    <2>5. QED
      BY <1>1, <2>3, <2>4, DoneByVerification
  <1>2. IInv /\ [Next]_vars
        => [\A t \in Tasks : ~At(t, "done") /\ task'[t].step = "done" => Right(t)]_vars
    BY <1>1
  <1>3. QED
    BY <1>2, Invariant, PTL DEF Spec, SuccessIsStored

-----------------------------------------------------------------------------
(***************************************************************************)
(* Every edit is one change of its list                                    *)
(***************************************************************************)

\* What became of an edit, read off the step its task is in
LEMMA StatusAt ==
    ASSUME NEW t \in Tasks
    PROVE  /\ task[t].step = "idle" => Status(t) = "none"
           /\ task[t].step \in {"done", "failed"} => Status(t) = task[t].step
           /\ task[t].step \notin {"idle", "done", "failed", "verify"} => Status(t) = "asked"
           /\ task[t].step = "verify"
              => Status(t) = IF Fulfilled(task[t].request) THEN "applied" ELSE "asked"
  BY DEF Status, TookEffect, At

\* and the same after a step
LEMMA StatusAtNext ==
    ASSUME NEW t \in Tasks
    PROVE  /\ task'[t].step = "idle" => Status(t)' = "none"
           /\ task'[t].step \in {"done", "failed"} => Status(t)' = task'[t].step
           /\ task'[t].step \notin {"idle", "done", "failed", "verify"} => Status(t)' = "asked"
           /\ task'[t].step = "verify"
              => Status(t)' = IF Fulfilled(task[t].request)' THEN "applied" ELSE "asked"
  BY DEF Status, TookEffect, At

\* A step of one task changes nothing for the edits of the others: they are not being
\* verified, or the charger is left alone.
LEMMA OneEdit ==
    ASSUME IInv, NEW t \in Tasks, \A v \in Tasks \ {t} : task'[v] = task[v],
           UNCHANGED charger \/ task[t].step \in Sessions
    PROVE  /\ [v \in Tasks |-> Status(v)]'
                = [[v \in Tasks |-> Status(v)] EXCEPT ![t] = Status(t)']
           /\ [v \in Tasks |-> task[v].request]'
                = [[v \in Tasks |-> task[v].request] EXCEPT ![t] = task'[t].request]
  <1>1. ASSUME NEW v \in Tasks \ {t} PROVE Status(v)' = Status(v)
    <2>1. task[v].step = "verify" => UNCHANGED charger
      BY OneOwner DEF Sessions
    <2>2. CASE UNCHANGED charger
      BY <2>2 DEF charger, Status, TookEffect, Fulfilled, At
    <2>3. CASE task[v].step # "verify"
      BY <2>3 DEF Status, TookEffect, At
    <2>4. QED
      BY <2>1, <2>2, <2>3
  <1>2. QED
    BY <1>1

\* The end of an edit is the end of the abstract one.
LEMMA EndIsEnd ==
    ASSUME IInv, NEW t \in Tasks, NEW how \in {"done", "failed"},
           task' = [task EXCEPT ![t] = Resting(how)],
           UNCHANGED charger \/ task[t].step \in Sessions
    PROVE  Edits!Ends(t, how)
  <1>1. \A v \in Tasks \ {t} : task'[v] = task[v]
    BY OverInv
  <1>2. task'[t].step = how /\ task'[t].request = NoEdit
    BY DEF IInv, TypeOK, Resting
  <1>3. Status(t)' = how
    BY <1>2, StatusAtNext
  <1>4. QED
    BY <1>1, <1>2, <1>3, OneEdit DEF Edits!Ends

\* An edit that fails without a write is the abstract one failing.
LEMMA FailIsFail ==
    ASSUME IInv, NEW t \in Tasks, task' = [task EXCEPT ![t] = Resting("failed")],
           UNCHANGED charger, task[t].step \in {"look"} \cup Sessions
    PROVE  Edits!Fail(t)
  <1>1. Edits!Ends(t, "failed")
    BY EndIsEnd
  <1>2. Status(t) \in {"asked", "applied"}
    BY StatusAt DEF Sessions
  <1>3. QED
    BY <1>1, <1>2 DEF Edits!Fail, charger

\* A step that only takes an edit nearer to its write is none of the abstract ones.
LEMMA OnTheWay ==
    ASSUME IInv, NEW t \in Tasks, \A v \in Tasks \ {t} : task'[v] = task[v],
           task'[t].request = task[t].request, Status(t)' = Status(t),
           UNCHANGED charger \/ task[t].step \in Sessions
    PROVE  UNCHANGED <<[v \in Tasks |-> task[v].request], [v \in Tasks |-> Status(v)]>>
  BY OneEdit

\* Steps in which an edit has not been written yet
Underway == {"look", "waiting"} \cup (Sessions \ {"verify"})

\* Two such steps, with the charger as it was
LEMMA NearerIsStutter ==
    ASSUME IInv, NEW t \in Tasks, \A v \in Tasks \ {t} : task'[v] = task[v],
           task'[t].request = task[t].request, UNCHANGED charger,
           task[t].step \in Underway, task'[t].step \in Underway
    PROVE  UNCHANGED Edits!state
  <1>1. Status(t) = "asked" /\ Status(t)' = "asked"
    BY StatusAt, StatusAtNext DEF Underway, Sessions
  <1>2. QED
    BY <1>1, OnTheWay DEF Edits!state, charger

\* A step of a task is a step of its abstract edit, or none.
LEMMA BeginMaps == ASSUME IInv, NEW t \in Tasks, Begin(t) PROVE Edits!Ask(t)
  <1>1. PICK r \in Request, step \in {"look", "waiting"} :
           task' = [task EXCEPT ![t] = [step |-> step, request |-> r, list |-> {}]]
    BY DEF Begin
  <1>2. /\ task'[t] = [step |-> step, request |-> r, list |-> {}]
        /\ \A v \in Tasks \ {t} : task'[v] = task[v]
    BY <1>1 DEF IInv, TypeOK
  <1>3. Status(t) \in {"none", "done", "failed"}
    BY StatusAt DEF Begin
  <1>4. Status(t)' = "asked"
    BY <1>2, StatusAtNext
  <1>5. UNCHANGED charger
    BY DEF Begin
  <1>6. /\ [v \in Tasks |-> Status(v)]'
             = [[v \in Tasks |-> Status(v)] EXCEPT ![t] = "asked"]
        /\ [v \in Tasks |-> task[v].request]'
             = [[v \in Tasks |-> task[v].request] EXCEPT ![t] = r]
    <2>1. task'[t].request = r
      BY <1>2
    <2>2. QED
      BY <1>2, <1>4, <1>5, <2>1, OneEdit
  <1>7. QED
    BY <1>3, <1>5, <1>6 DEF Edits!Ask, charger

LEMMA LookMaps ==
    ASSUME IInv, NEW t \in Tasks, Look(t)
    PROVE  Edits!Fail(t) \/ UNCHANGED Edits!state
  <1>1. CASE GoTo(t, "waiting")
    <2>1. "waiting" \in Steps /\ "waiting" \in Underway /\ "look" \in Underway
      BY DEF Steps, Underway
    <2>2. QED
      BY <1>1, <2>1, MoveInv, NearerIsStutter DEF Look, At
  <1>2. CASE task' = [task EXCEPT ![t] = Resting("failed")]
    BY <1>2, FailIsFail DEF Look, At
  <1>3. QED
    BY <1>1, <1>2 DEF Look

LEMMA AcquireMaps ==
    ASSUME IInv, NEW t \in Tasks, Acquire(t)
    PROVE  UNCHANGED Edits!state
  <1>1. task[t].request.kind \in {"add", "remove", "clear", "pair", "unpair"}
    BY RequestFields DEF IInv, TaskInv, Acquire, At
  <1>2. FirstSession(Kind(t)) \in {"read", "version", "get"}
    BY <1>1 DEF FirstSession, Kind
  <1>3. FirstSession(Kind(t)) \in Steps /\ FirstSession(Kind(t)) \in Underway
    BY <1>2 DEF Steps, Sessions, Underway
  <1>4. QED
    BY <1>3, MoveInv, NearerIsStutter DEF Acquire, At, Underway

LEMMA ReadCardsMaps ==
    ASSUME IInv, NEW t \in Tasks, ReadCards(t)
    PROVE  Edits!Fail(t) \/ UNCHANGED Edits!state
  <1>1. "read" \in Sessions /\ {"read", "enable", "version"} \subseteq Underway \cap Steps
    BY DEF Sessions, Underway, Steps
  <1>2. CASE GoTo(t, "enable")
    BY <1>1, <1>2, MoveInv, NearerIsStutter DEF ReadCards, At
  <1>3. CASE task' = [task EXCEPT ![t].step = "version",
                                  ![t].list = cards \ {task[t].request.card}]
    <2>1. /\ task'[t].step = "version" /\ task'[t].request = task[t].request
          /\ \A v \in Tasks \ {t} : task'[v] = task[v]
      BY <1>3 DEF IInv, TypeOK
    <2>2. QED
      BY <1>1, <2>1, NearerIsStutter DEF ReadCards, At
  <1>4. CASE Over(t, "failed")
    BY <1>1, <1>4, FailIsFail DEF ReadCards, At, Over
  <1>5. QED
    BY <1>2, <1>3, <1>4 DEF ReadCards

LEMMA EnableMaps == ASSUME IInv, NEW t \in Tasks, Enable(t) PROVE Edits!SwitchOn(t)
  <1>1. task[t].step = "enable" /\ task[t].request.kind = "add"
    BY DEF IInv, TaskInv, Enable, At
  <1>2. Status(t) = "asked" /\ task[t].step \in Sessions
    BY <1>1, StatusAt DEF Sessions
  <1>3. CASE GoTo(t, "version")
    <2>1. "version" \in Steps
      BY DEF Steps, Sessions
    <2>2. /\ task'[t].step = "version" /\ task'[t].request = task[t].request
          /\ \A v \in Tasks \ {t} : task'[v] = task[v]
      BY <1>3, <2>1, MoveInv
    <2>3. Status(t)' = "asked"
      BY <2>2, StatusAtNext
    <2>4. QED
      BY <1>1, <1>2, <2>2, <2>3, OnTheWay DEF Edits!SwitchOn, Enable
  <1>4. CASE Over(t, "failed")
    BY <1>1, <1>2, <1>4, EndIsEnd DEF Edits!SwitchOn, Enable, Over
  <1>5. QED
    BY <1>3, <1>4 DEF Enable, Written

LEMMA ReadVersionMaps ==
    ASSUME IInv, NEW t \in Tasks, ReadVersion(t)
    PROVE  UNCHANGED Edits!state
  <1>1. {"version", "send"} \subseteq Underway \cap Steps
    BY DEF Sessions, Underway, Steps
  <1>2. QED
    BY <1>1, MoveInv, NearerIsStutter DEF ReadVersion, At

\* What is written is the list the abstract edit makes of the charger's list now.
LEMMA SendMaps ==
    ASSUME IInv, NEW t \in Tasks, Send(t)
    PROVE  Edits!Apply(t) \/ Edits!Fail(t) \/ UNCHANGED Edits!state
  <1> DEFINE r == task[t].request
  <1>1. /\ task[t].step = "send" /\ task[t].step \in Sessions /\ Status(t) = "asked"
        /\ r.kind \in {"add", "remove", "clear"}
        /\ r.kind = "add" => enabled /\ r.card \notin cards
        /\ r.kind = "remove" => task[t].list = cards \ {r.card} /\ r.card \in cards
        /\ r.kind = "clear" => task[t].list = {}
    BY StatusAt DEF IInv, TaskInv, Send, At, Sessions
  <1>2. UNCHANGED <<enabled, points>>
    BY DEF Send
  <1>3. cards' = Sent(t) => Edits!ChangesCards(r)
    BY <1>1, <1>2 DEF Edits!ChangesCards, Sent, Kind
  <1>4. CASE GoTo(t, "verify")
    <2>1. "verify" \in Steps
      BY DEF Steps, Sessions
    <2>2. /\ task'[t].step = "verify" /\ task'[t].request = r
          /\ \A v \in Tasks \ {t} : task'[v] = task[v]
      BY <1>4, <2>1, MoveInv
    <2>3. Status(t)' = IF Fulfilled(r)' THEN "applied" ELSE "asked"
      BY <2>2, StatusAtNext
    <2>4. CASE cards' = Sent(t)
      <3>1. Fulfilled(r)'
        BY <1>1, <1>2, <2>2, <2>4 DEF Fulfilled, Sent, Kind
      <3>2. Edits!Becomes(t, "applied")
        BY <1>1, <2>2, <2>3, <3>1, OneEdit DEF Edits!Becomes
      <3>3. QED
        BY <1>1, <1>2, <1>3, <2>4, <3>2 DEF Edits!Apply
    <2>5. CASE cards' = cards /\ cards' # Sent(t)
      <3>1. ~Fulfilled(r)'
        BY <1>1, <1>2, <2>2, <2>5 DEF Fulfilled, Sent, Kind
      <3>2. Status(t)' = Status(t)
        BY <1>1, <2>3, <3>1
      <3>3. QED
        BY <1>1, <1>2, <2>2, <2>5, <3>2, OnTheWay DEF Edits!state
    <2>6. QED
      BY <2>4, <2>5 DEF Send
  <1>5. CASE Over(t, "failed")
    <2>1. Edits!Ends(t, "failed")
      BY <1>1, <1>5, EndIsEnd DEF Over
    <2>2. CASE cards' = Sent(t)
      BY <1>1, <1>2, <1>3, <2>1, <2>2 DEF Edits!Apply
    <2>3. CASE cards' = cards
      BY <1>1, <1>2, <2>1, <2>3 DEF Edits!Fail
    <2>4. QED
      BY <2>2, <2>3 DEF Send
  <1>6. QED
    BY <1>4, <1>5 DEF Send, Written

\* A list that is as it was sent is as it was asked for.
LEMMA VerifyMaps ==
    ASSUME IInv, NEW t \in Tasks, VerifyCards(t) \/ VerifyPoints(t)
    PROVE  Edits!Succeed(t) \/ Edits!Fail(t)
  <1>1. task[t].step = "verify" /\ task[t].step \in Sessions /\ TaskInv(t)
    BY DEF IInv, VerifyCards, VerifyPoints, At, Sessions
  <1>2. UNCHANGED charger
    BY DEF VerifyCards, VerifyPoints
  <1>3. CASE Over(t, "failed")
    BY <1>1, <1>2, <1>3, FailIsFail DEF Over
  <1>4. CASE Over(t, "done") /\ ~Over(t, "failed")
    <2>1. Fulfilled(task[t].request)
      <3>1. CASE VerifyCards(t)
        BY <1>1, <1>4, <3>1 DEF VerifyCards, TaskInv, CardsStored, Kind, Fulfilled
      <3>2. CASE VerifyPoints(t)
        BY <1>1, <1>4, <3>2 DEF VerifyPoints, TaskInv, Kind, Fulfilled
      <3>3. QED
        BY <3>1, <3>2
    <2>2. Status(t) = "applied"
      BY <1>1, <2>1, StatusAt
    <2>3. Edits!Ends(t, "done")
      BY <1>1, <1>4, EndIsEnd DEF Over
    <2>4. QED
      BY <1>2, <2>2, <2>3 DEF Edits!Succeed, charger
  <1>5. QED
    BY <1>3, <1>4 DEF VerifyCards, VerifyPoints

LEMMA ReadPointsMaps ==
    ASSUME IInv, NEW t \in Tasks, ReadPoints(t)
    PROVE  Edits!Fail(t) \/ UNCHANGED Edits!state
  <1>1. "get" \in Sessions /\ {"get", "set"} \subseteq Underway \cap Steps
    BY DEF Sessions, Underway, Steps
  <1>2. CASE task' = [task EXCEPT ![t].step = "set",
                                  ![t].list = Edited(task[t].request, points)]
    <2>1. /\ task'[t].step = "set" /\ task'[t].request = task[t].request
          /\ \A v \in Tasks \ {t} : task'[v] = task[v]
      BY <1>2 DEF IInv, TypeOK
    <2>2. QED
      BY <1>1, <2>1, NearerIsStutter DEF ReadPoints, At
  <1>3. CASE Over(t, "failed")
    BY <1>1, <1>3, FailIsFail DEF ReadPoints, At, Over
  <1>4. QED
    BY <1>2, <1>3 DEF ReadPoints

\* A charge point that is written fits the list as it is now.
LEMMA SetPointsMaps ==
    ASSUME IInv, NEW t \in Tasks, SetPoints(t)
    PROVE  Edits!Apply(t) \/ Edits!Fail(t) \/ UNCHANGED Edits!state
  <1> DEFINE r == task[t].request
  <1>1. /\ task[t].step = "set" /\ task[t].step \in Sessions /\ Status(t) = "asked"
        /\ r.kind \in {"pair", "unpair"} /\ r \in Request
        /\ task[t].list = Edited(r, points) /\ ~TooMany(r, points)
    BY StatusAt DEF IInv, TaskInv, SetPoints, At, Sessions
  <1>2. UNCHANGED <<cards, enabled>>
    BY DEF SetPoints
  <1>3. /\ points \in SUBSET Points /\ Cardinality(points) <= MaxSatellites
        /\ Edited(r, points) \in SUBSET Points
        /\ Cardinality(Edited(r, points)) <= MaxSatellites
    BY <1>1, EditedFits DEF IInv, TypeOK, AtMostMaxSatellites
  <1>4. points' = Edited(r, points) => Edits!ChangesPoints(r)
    BY <1>1, <1>2, <1>3 DEF Edits!ChangesPoints, Edited
  <1>5. points' = task[t].list /\ task'[t].request = r => Fulfilled(r)'
    BY <1>1 DEF Fulfilled, Edited
  <1>6. CASE GoTo(t, "verify")
    <2>1. "verify" \in Steps
      BY DEF Steps, Sessions
    <2>2. /\ task'[t].step = "verify" /\ task'[t].request = r
          /\ \A v \in Tasks \ {t} : task'[v] = task[v]
      BY <1>6, <2>1, MoveInv
    <2>3. Status(t)' = IF Fulfilled(r)' THEN "applied" ELSE "asked"
      BY <2>2, StatusAtNext
    <2>4. CASE Fulfilled(r)'
      <3>1. Edits!ChangesPoints(r)
        <4>1. points' = points => points' = Edited(r, points)
          BY <1>1, <1>3, <2>2, <2>4 DEF Fulfilled, Edited
        <4>2. QED
          BY <1>1, <1>4, <4>1 DEF SetPoints
      <3>2. Edits!Becomes(t, "applied")
        BY <1>1, <2>2, <2>3, <2>4, OneEdit DEF Edits!Becomes
      <3>3. QED
        BY <1>1, <1>2, <3>1, <3>2 DEF Edits!Apply
    <2>5. CASE ~Fulfilled(r)'
      <3>1. points' = points
        BY <1>5, <2>2, <2>5 DEF SetPoints
      <3>2. Status(t)' = Status(t)
        BY <1>1, <2>3, <2>5
      <3>3. QED
        BY <1>1, <1>2, <2>2, <3>1, <3>2, OnTheWay DEF Edits!state
    <2>6. QED
      BY <2>4, <2>5
  <1>7. CASE Over(t, "failed")
    <2>1. Edits!Ends(t, "failed")
      BY <1>1, <1>7, EndIsEnd DEF Over
    <2>2. CASE points' = task[t].list
      BY <1>1, <1>2, <1>4, <2>1, <2>2 DEF Edits!Apply
    <2>3. CASE points' = points
      BY <1>1, <1>2, <2>1, <2>3 DEF Edits!Fail
    <2>4. QED
      BY <2>2, <2>3 DEF SetPoints
  <1>8. QED
    BY <1>6, <1>7 DEF SetPoints, Written

\* Every edit of coordinator.py, made of many sessions, is one change of the list the
\* charger has at that moment, between being asked for and being over: it implements
\* AtomicEdits, for any tasks, cards, charge points and limit.
THEOREM EditsImplementAtomicEdits == Spec => EditsAreAtomic
  <1>1. Init => Edits!Init
    <2> SUFFICES ASSUME Init PROVE Edits!Init
      OBVIOUS
    <2>1. ASSUME NEW t \in Tasks PROVE Status(t) = "none" /\ task[t].request = NoEdit
      BY StatusAt DEF Init, Resting
    <2>2. points \in SUBSET Points /\ Cardinality(points) <= MaxSatellites
      BY DEF Init
    <2>3. QED
      BY <2>1, <2>2 DEF Edits!Init
  <1>2. IInv /\ [Next]_vars => [Edits!Next]_(Edits!state)
    <2> SUFFICES ASSUME IInv, [Next]_vars PROVE Edits!Next \/ UNCHANGED Edits!state
      OBVIOUS
    <2>1. ASSUME NEW t \in Tasks, Step(t) PROVE Edits!Next \/ UNCHANGED Edits!state
      <3>1. CASE SessionFails(t)
        BY <3>1, FailIsFail DEF SessionFails, Over, Edits!Next
      <3>2. CASE ~SessionFails(t)
        BY <2>1, <3>2, BeginMaps, LookMaps, AcquireMaps, ReadCardsMaps, EnableMaps,
           ReadVersionMaps, SendMaps, VerifyMaps, ReadPointsMaps, SetPointsMaps
           DEF Step, Edits!Next
      <3>3. QED
        BY <3>1, <3>2
    <2>2. UNCHANGED <<charger, task>> => UNCHANGED Edits!state
      BY DEF charger, Edits!state, Status, TookEffect, Fulfilled, At
    <2>3. QED
      BY <2>1, <2>2 DEF Next, vars, StartRefresh, EndRefresh, charger
  <1>3. QED
    BY <1>1, <1>2, Invariant, PTL DEF Spec, EditsAreAtomic, Edits!Spec
=============================================================================
