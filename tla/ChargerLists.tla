---------------------------- MODULE ChargerLists ----------------------------
(***************************************************************************)
(* The two lists the charger keeps and the integration edits: the charging *)
(* cards and the paired charge points (coordinator.py, with the services   *)
(* and the forms of config_flow.py that call it).                          *)
(*                                                                         *)
(* Every edit is a sequence of BLE sessions in one transaction of the      *)
(* client: read the list, write it or the difference, read it back.  A     *)
(* session is one step; it may fail, and the charger may have stored the   *)
(* value all the same, or may accept a value it does not store.            *)
(***************************************************************************)
EXTENDS Integers, FiniteSets

CONSTANTS
    Tasks,         \* tasks that run a service or a step of the options flow
    Cards,         \* ids of charging cards
    Types, Ids,    \* types and serial numbers of charge points
    MaxSatellites, \* MAX_SATELLITES
    None           \* "no value", "no owner"

Points == Types \X Ids

ASSUME ListsAssumption ==
    /\ None \notin Tasks
    /\ MaxSatellites \in Nat
    /\ IsFiniteSet(Types) /\ IsFiniteSet(Ids)

VARIABLES
    cards,    \* the charger's local authorization list
    enabled,  \* LocalAuthListEnabled in the charger
    points,   \* evb_RFModules in the charger
    shown,    \* cards and rf_modules in the coordinator's data
    refresh,  \* the coordinator's refresh
    lock,     \* owner of the transaction
    task      \* what each task does

charger == <<cards, enabled, points>>
vars == <<cards, enabled, points, shown, refresh, lock, task>>

-----------------------------------------------------------------------------
(***************************************************************************)
(* Types                                                                   *)
(***************************************************************************)

CardRequest  == [kind: {"add", "remove"}, card: Cards] \cup [kind: {"clear"}]
PointRequest == [kind: {"pair"}, point: Points] \cup [kind: {"unpair"}, id: Ids]
Request      == CardRequest \cup PointRequest

\* The sessions of an edit, all in its transaction
Sessions == {"read", "enable", "version", "send", "get", "set", "verify"}

\* done and failed: the edit is over, and the task may be given another one.
Steps == {"idle", "look", "waiting", "done", "failed"} \cup Sessions

NoEdit == [kind |-> "none"]

\* list: what a replacing edit writes
TypeOK ==
    /\ cards \in SUBSET Cards
    /\ enabled \in BOOLEAN
    /\ points \in SUBSET Points
    /\ shown \in [cards: (SUBSET Cards) \cup {None}, points: (SUBSET Points) \cup {None}]
    /\ refresh \in [busy: BOOLEAN, full: BOOLEAN, previous: (SUBSET Points) \cup {None}]
    /\ lock \in Tasks \cup {None}
    /\ task \in [Tasks -> [step: Steps, request: Request \cup {NoEdit},
                           list: (SUBSET Cards) \cup (SUBSET Points)]]

Resting(how) == [step |-> how, request |-> NoEdit, list |-> {}]

NoRefresh == [busy |-> FALSE, full |-> FALSE, previous |-> None]

\* The charger comes with lists of its own; nothing has been read.
Init ==
    /\ cards \in SUBSET Cards
    /\ enabled \in BOOLEAN
    /\ points \in SUBSET Points /\ Cardinality(points) <= MaxSatellites
    /\ shown = [cards |-> None, points |-> None]
    /\ refresh = NoRefresh
    /\ lock = None
    /\ task = [t \in Tasks |-> Resting("idle")]

-----------------------------------------------------------------------------
(***************************************************************************)
(* A task and its transaction                                              *)
(***************************************************************************)

At(t, step) == task[t].step = step

Kind(t) == task[t].request.kind

GoTo(t, step) == task' = [task EXCEPT ![t].step = step]

\* The edit ends, and with it the transaction.
Over(t, how) ==
    /\ task' = [task EXCEPT ![t] = Resting(how)]
    /\ lock' = None

\* A service or a submitted form; the form for a new card first looks whether the
\* charger has it already.
Begin(t) ==
    /\ task[t].step \in {"idle", "done", "failed"}
    /\ \E r \in Request, step \in {"look", "waiting"} :
          /\ step = "look" => r.kind = "add"
          /\ task' = [task EXCEPT ![t] = [step |-> step, request |-> r, list |-> {}]]
    /\ UNCHANGED <<charger, shown, refresh, lock>>

\* The form's own read, before the edit's transaction
Look(t) ==
    /\ At(t, "look")
    /\ lock = None
    /\ \/ task[t].request.card \notin cards /\ GoTo(t, "waiting")
       \/ task' = [task EXCEPT ![t] = Resting("failed")]
    /\ UNCHANGED <<charger, shown, refresh, lock>>

FirstSession(kind) ==
    CASE kind \in {"add", "remove"}  -> "read"
      [] kind = "clear"              -> "version"
      [] kind \in {"pair", "unpair"} -> "get"

\* Mutant of Acquire: the edit is not serialized.
Acquire_Unserialized(t) ==
    /\ At(t, "waiting")
    /\ lock' = t
    /\ GoTo(t, FirstSession(Kind(t)))
    /\ UNCHANGED <<charger, shown, refresh>>

Acquire(t) ==
    /\ At(t, "waiting")
    /\ lock = None
    /\ lock' = t
    /\ GoTo(t, FirstSession(Kind(t)))
    /\ UNCHANGED <<charger, shown, refresh>>

\* A session fails, the charger refuses, or the list is not answered.
SessionFails(t) ==
    /\ task[t].step \in Sessions
    /\ Over(t, "failed")
    /\ UNCHANGED <<charger, shown, refresh>>

\* A write was answered; or it was not, and the edit fails.
Written(t, next) ==
    \/ GoTo(t, next) /\ UNCHANGED lock
    \/ Over(t, "failed")

-----------------------------------------------------------------------------
(***************************************************************************)
(* Cards                                                                   *)
(***************************************************************************)

\* async_card_ids: card_exists and card_not_found end the edit. A removal writes
\* the rest of the list.
ReadCards(t) ==
    /\ At(t, "read")
    /\ LET card == task[t].request.card IN
       \/ /\ Kind(t) = "add" /\ card \notin cards
          /\ GoTo(t, "enable") /\ UNCHANGED lock
       \/ /\ Kind(t) = "remove" /\ card \in cards
          /\ task' = [task EXCEPT ![t].step = "version", ![t].list = cards \ {card}]
          /\ UNCHANGED lock
       \/ /\ (Kind(t) = "add") <=> (card \in cards)
          /\ Over(t, "failed")
    /\ UNCHANGED <<charger, shown, refresh>>

\* LocalAuthListEnabled is switched on before the card is sent.
Enable(t) ==
    /\ At(t, "enable")
    /\ enabled' = TRUE
    /\ Written(t, "version")
    /\ UNCHANGED <<cards, points, shown, refresh>>

\* GetLocalListVersion; the list is sent with the next one.
ReadVersion(t) ==
    /\ At(t, "version")
    /\ GoTo(t, "send")
    /\ UNCHANGED <<charger, shown, refresh, lock>>

\* Mutant of Sent: an added card replaces the list.
Sent_AddReplaces(t) ==
    IF Kind(t) = "add" THEN {task[t].request.card} ELSE task[t].list

\* A Differential update adds its card, a Full one is the whole list.
Sent(t) ==
    IF Kind(t) = "add" THEN cards \cup {task[t].request.card} ELSE task[t].list

\* SendLocalList: the charger stores it, or accepts it and keeps what it has.
Send(t) ==
    /\ At(t, "send")
    /\ cards' \in {cards, Sent(t)}
    /\ Written(t, "verify")
    /\ UNCHANGED <<enabled, points, shown, refresh>>

\* Mutant of CardsStored: a replaced list may keep more than was sent.
CardsStored_Superset(t) ==
    IF Kind(t) = "add" THEN task[t].request.card \in cards
    ELSE task[t].list \subseteq cards

\* What the read-back compares: an added card is there, a replaced list is equal.
CardsStored(t) ==
    IF Kind(t) = "add" THEN task[t].request.card \in cards ELSE cards = task[t].list

VerifyCards(t) ==
    /\ At(t, "verify")
    /\ Kind(t) \in {"add", "remove", "clear"}
    /\ \/ /\ CardsStored(t)
          /\ shown' = [shown EXCEPT !.cards = cards]
          /\ Over(t, "done")
       \/ /\ ~CardsStored(t)
          /\ Over(t, "failed")
          /\ UNCHANGED shown
    /\ UNCHANGED <<charger, refresh>>

-----------------------------------------------------------------------------
(***************************************************************************)
(* Charge points                                                           *)
(***************************************************************************)

\* Mutant of Edited: only the serial number of a new charge point is written.
Edited_WithoutType(r, list) ==
    IF r.kind = "pair" THEN list \cup {r.point[2]}
    ELSE {p \in list : p[2] # r.id}

\* A charge point is unpaired by its serial number, whatever its type.
Edited(r, list) ==
    IF r.kind = "pair" THEN list \cup {r.point}
    ELSE {p \in list : p[2] # r.id}

\* Mutant of TooMany: one more than the limit.
TooMany_OffByOne(r, list) ==
    r.kind = "pair" /\ r.point \notin list /\ Cardinality(list) > MaxSatellites

\* A charge point that is in the list already does not count.
TooMany(r, list) ==
    r.kind = "pair" /\ r.point \notin list /\ Cardinality(list) >= MaxSatellites

\* async_update_rf_modules reads the list; max_satellites ends the edit.
ReadPoints(t) ==
    /\ At(t, "get")
    /\ LET r == task[t].request IN
       \/ /\ ~TooMany(r, points)
          /\ task' = [task EXCEPT ![t].step = "set", ![t].list = Edited(r, points)]
          /\ UNCHANGED lock
       \/ TooMany(r, points) /\ Over(t, "failed")
    /\ UNCHANGED <<charger, shown, refresh>>

\* async_set_rf_modules writes the list.
SetPoints(t) ==
    /\ At(t, "set")
    /\ points' \in {points, task[t].list}
    /\ Written(t, "verify")
    /\ UNCHANGED <<cards, enabled, shown, refresh>>

\* satellites_mismatch: the types and serial numbers read back differ.
VerifyPoints(t) ==
    /\ At(t, "verify")
    /\ Kind(t) \in {"pair", "unpair"}
    /\ \/ /\ points = task[t].list
          /\ shown' = [shown EXCEPT !.points = points]
          /\ Over(t, "done")
       \/ /\ points # task[t].list
          /\ Over(t, "failed")
          /\ UNCHANGED shown
    /\ UNCHANGED <<charger, refresh>>

-----------------------------------------------------------------------------
(***************************************************************************)
(* The coordinator's refresh                                               *)
(***************************************************************************)

\* _async_update_data remembers the data before it waits for the lock.
StartRefresh ==
    /\ ~refresh.busy
    /\ \E full \in BOOLEAN :
          refresh' = [busy |-> TRUE, full |-> full, previous |-> shown.points]
    /\ UNCHANGED <<charger, shown, lock, task>>

\* The cards are read each time, the charge points by a full refresh only; either
\* may be missing. Or the session fails and the data stay.
EndRefresh ==
    /\ refresh.busy
    /\ lock = None
    /\ shown' \in
         [cards: {cards, None},
          points: IF refresh.full THEN {points, None} ELSE {refresh.previous}]
         \cup {shown}
    /\ refresh' = NoRefresh
    /\ UNCHANGED <<charger, lock, task>>

-----------------------------------------------------------------------------
Step(t) ==
    \/ Begin(t) \/ Look(t) \/ Acquire(t) \/ SessionFails(t)
    \/ ReadCards(t) \/ Enable(t) \/ ReadVersion(t) \/ Send(t) \/ VerifyCards(t)
    \/ ReadPoints(t) \/ SetPoints(t) \/ VerifyPoints(t)

Next ==
    \/ \E t \in Tasks : Step(t)
    \/ StartRefresh \/ EndRefresh

Spec == Init /\ [][Next]_vars

-----------------------------------------------------------------------------
(***************************************************************************)
(* Properties                                                              *)
(***************************************************************************)

\* The edits that explain a change of one card
CardIsAskedFor(c) ==
    \E t \in Tasks :
       /\ At(t, "send")
       /\ \/ c \in cards' /\ Kind(t) = "add" /\ task[t].request.card = c
          \/ c \notin cards' /\ Kind(t) = "remove" /\ task[t].request.card = c
          \/ c \notin cards' /\ Kind(t) = "clear"

\* and of one charge point
PointIsAskedFor(p) ==
    \E t \in Tasks :
       /\ At(t, "set")
       /\ \/ p \in points' /\ Kind(t) = "pair" /\ task[t].request.point = p
          \/ p \notin points' /\ Kind(t) = "unpair" /\ task[t].request.id = p[2]

\* Whatever steps of other tasks come between, a step changes only the card, or the
\* charge point, that some edit under way was asked to change: "Modify the
\* authoritative list without losing another action's changes." Only a clearing
\* takes a card nobody named.
OtherElementsAreKept ==
    [][/\ \A c \in Cards : (c \in cards) # (c \in cards') => CardIsAskedFor(c)
       /\ \A p \in Points : (p \in points) # (p \in points') => PointIsAskedFor(p)]_vars

\* However tasks, failures and charge points with equal serial numbers mix, the
\* charger is never given more charge points than it supports.
AtMostMaxSatellites == Cardinality(points) <= MaxSatellites

\* What r asks for is so.
Fulfilled(r) ==
    CASE r.kind = "add"    -> r.card \in cards /\ enabled
      [] r.kind = "remove" -> r.card \notin cards
      [] r.kind = "clear"  -> cards = {}
      [] r.kind = "pair"   -> r.point \in points
      [] r.kind = "unpair" -> \A p \in points : p[2] # r.id

\* An edit that reports success is stored in the charger, whatever the charger
\* accepted without storing it, and the coordinator shows the list as it is.
SuccessIsStored ==
    [][\A t \in Tasks :
         ~At(t, "done") /\ task'[t].step = "done"
         => /\ Fulfilled(task[t].request)
            /\ IF Kind(t) \in {"pair", "unpair"} THEN shown'.points = points
               ELSE shown'.cards = cards]_vars

\* An edit that is being verified took effect when its list is as it asked. An add
\* asks for a switched-on list too, which it has by then.
TookEffect(t) == At(t, "verify") /\ Fulfilled(task[t].request)

Status(t) ==
    CASE At(t, "idle")   -> "none"
      [] At(t, "done")   -> "done"
      [] At(t, "failed") -> "failed"
      [] TookEffect(t)   -> "applied"
      [] OTHER           -> "asked"

\* Each task's edit as a single change
Edits == INSTANCE AtomicEdits WITH
    Requests   <- Request,
    NoRequest  <- NoEdit,
    PointLists <- {list \in SUBSET Points : Cardinality(list) <= MaxSatellites},
    request    <- [t \in Tasks |-> task[t].request],
    status     <- [t \in Tasks |-> Status(t)]

\* An edit is a single change of the charger's list, made while it has the
\* transaction, although it reads, writes and reads again in sessions that fail one
\* by one: what it was told at the start still counts when it writes, it succeeds
\* only if it was applied, and it is never applied twice.
EditsAreAtomic == Edits!Spec
=============================================================================
