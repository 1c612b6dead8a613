---------------------------- MODULE AtomicEdits -----------------------------
(***************************************************************************)
(* What the integration promises of an edit of the charger's cards or      *)
(* charge points, however many BLE sessions it takes: it acts on the list  *)
(* at one moment and at most once; it succeeds only after that; it may     *)
(* fail before, or although it was stored.                                 *)
(***************************************************************************)
CONSTANTS
    Tasks,      \* tasks that ask for an edit
    Requests,   \* what an edit can be asked to do
    NoRequest,  \* nothing
    PointLists  \* the lists of charge points the charger supports

VARIABLES
    cards, enabled, points,  \* the charger's lists
    request,                 \* what each task's edit was asked to do
    status                   \* what became of it

state == <<cards, enabled, points, request, status>>

Init ==
    /\ points \in PointLists
    /\ request = [t \in Tasks |-> NoRequest]
    /\ status = [t \in Tasks |-> "none"]

Becomes(t, how) ==
    /\ status' = [status EXCEPT ![t] = how]
    /\ UNCHANGED request

\* An edit that is over is forgotten, but for how it ended.
Ends(t, how) ==
    /\ status' = [status EXCEPT ![t] = how]
    /\ request' = [request EXCEPT ![t] = NoRequest]

Ask(t) ==
    /\ status[t] \in {"none", "done", "failed"}
    /\ status' = [status EXCEPT ![t] = "asked"]
    /\ \E r \in Requests : request' = [request EXCEPT ![t] = r]
    /\ UNCHANGED <<cards, enabled, points>>

\* The card list is switched on before the first card can be added.
SwitchOn(t) ==
    /\ status[t] = "asked"
    /\ request[t].kind = "add"
    /\ enabled' = TRUE
    /\ UNCHANGED <<request, status>> \/ Ends(t, "failed")
    /\ UNCHANGED <<cards, points>>

\* What an edit does to the cards: a card is added once, and removed if it is there.
ChangesCards(r) ==
    /\ \/ r.kind = "add" /\ enabled /\ r.card \notin cards /\ cards' = cards \cup {r.card}
       \/ r.kind = "remove" /\ r.card \in cards /\ cards' = cards \ {r.card}
       \/ r.kind = "clear" /\ cards' = {}
    /\ UNCHANGED points

\* What an edit does to the charge points: a new one must fit.
ChangesPoints(r) ==
    /\ \/ r.kind = "pair" /\ points' = points \cup {r.point}
       \/ r.kind = "unpair" /\ points' = {p \in points : p[2] # r.id}
    /\ points' \in PointLists
    /\ UNCHANGED cards

\* The edit takes effect; its task may hear of it only as of a failure.
Apply(t) ==
    /\ status[t] = "asked"
    /\ ChangesCards(request[t]) \/ ChangesPoints(request[t])
    /\ Becomes(t, "applied") \/ Ends(t, "failed")
    /\ UNCHANGED enabled

Succeed(t) ==
    /\ status[t] = "applied"
    /\ Ends(t, "done")
    /\ UNCHANGED <<cards, enabled, points>>

Fail(t) ==
    /\ status[t] \in {"asked", "applied"}
    /\ Ends(t, "failed")
    /\ UNCHANGED <<cards, enabled, points>>

Next ==
    \E t \in Tasks : Ask(t) \/ SwitchOn(t) \/ Apply(t) \/ Succeed(t) \/ Fail(t)

Spec == Init /\ [][Next]_state
=============================================================================
