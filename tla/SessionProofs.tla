--------------------------- MODULE SessionProofs ---------------------------
(***************************************************************************)
(* What Session promises for any operations, any number of them and of     *)
(* events: a result is the answer to its own request, AutoStart is written *)
(* behind its precondition, an event is acknowledged once and the link is  *)
(* given back.  The argument follows the ids: the pending request is the   *)
(* last one sent, so an answer that completes it was asked by the step     *)
(* that waits (RequestFits), and an event's id is stored with one marker   *)
(* until it is acknowledged (IdsFit).                                      *)
(***************************************************************************)
EXTENDS Session, SequenceTheorems, TLAPS

-----------------------------------------------------------------------------
(***************************************************************************)
(* The inductive invariant                                                 *)
(***************************************************************************)

\* The session's steps, and those of an operation
Waiting == Asking \cup {"status", "event"}

Working == Waiting \ {"auth"}

\* How many requests of its own an operation has sent by a step
Own(s) == CASE s = "set_start" -> 3 [] s = "set_auth" -> 2 [] OTHER -> 1

Outcomes == {"none", "ok", "auth", "protocol", "connection", "cancelled"}

Result == [id: RequestIds, value: Values \cup {"event", "none"}]

FlowTyped ==
    /\ at \in 0..(MaxOps + 1)
    /\ step \in Steps
    /\ sent \in 0..(3 * MaxOps + 1)
    /\ request \in [id: {0} \cup RequestIds, state: States,
                    by: {0} \cup RequestIds, value: Values]
    /\ marker \in [name: Markers, state: States]
    /\ results \in Seq(Result)
    /\ outcome \in Outcomes
    /\ unanswered \subseteq [id: RequestIds, asked: Asking]

RestTyped ==
    /\ program \in UNION {[1..n -> Kinds] : n \in 1..MaxOps}
    /\ eventIds \in [Markers -> 0..MaxEvents]
    /\ broken \in BOOLEAN
    /\ connected \in BOOLEAN
    /\ localAuth \in BOOLEAN
    /\ events \in 0..MaxEvents
    /\ accepted \subseteq RequestIds
    /\ heard \subseteq Markers
    /\ acked \in Seq(1..MaxEvents)
    /\ interrupted \in BOOLEAN

\* Where the session is, how much it has sent and which results it has
Position ==
    /\ step = "connect" => at = 0 /\ sent = 0
    /\ step \in {"connect", "auth"} => results = << >>
    /\ step = "auth" => at = 0 /\ sent = 1
    /\ step \in Working => /\ at \in 1..Len(program)
                           /\ sent <= 3 * (at - 1) + 1 + Own(step)
                           /\ Len(results) = at - 1
    /\ Len(results) <= Len(program)

\* The steps of each kind of operation
KindFits ==
    step \in Working =>
        /\ step = "answer" => program[at] \in {"required", "optional"}
        /\ step \in {"wifi", "status"} => program[at] = "wifi_set"
        /\ step \in {"trigger", "event"} => program[at] \in {"connection_info", "rf_scan"}
        /\ step \in {"get_auth", "set_auth", "set_start"} => program[at] = "auto_start"

\* The registered request is the last one sent; what completed it was accepted.
RequestFits ==
    /\ step \in Waiting => sent >= 1 /\ request.id = sent
    /\ step \in {"status", "event"} => request.state = "done"
    /\ request.state = "done" => request.id \in accepted
    /\ \A q \in unanswered :
         q.id <= sent /\ (q.id = sent /\ step \in Asking => q.asked = step)
    /\ step \notin Waiting => request = NoRequest

\* What the answers to the three requests of AutoStart tell of the charger
AutoStartFits ==
    /\ step = "get_auth" /\ request.state = "done" =>
         /\ request.value \in {"true", "false", "missing"}
         /\ request.value = "true" => localAuth
    /\ step = "set_auth" /\ request.state = "done" => localAuth
    /\ AutoStartPrecondition

\* The registered marker is the operation's; what completed it was heard.
MarkerFits ==
    /\ marker.state = "done" => marker.name \in heard
    /\ step \in Working => marker.name = MarkerOf(program[at])

Flow ==
    /\ FlowTyped /\ Position /\ KindFits /\ RequestFits /\ AutoStartFits /\ MarkerFits
    /\ ResultsAreAnswered

\* The ids of events that wait for their acknowledgement
IdsFit ==
    /\ \A m \in Markers : eventIds[m] <= events
    /\ \A m, n \in Markers : eventIds[m] = eventIds[n] /\ m # n => eventIds[m] = 0
    /\ \A k \in DOMAIN acked : acked[k] <= events
    /\ \A k \in DOMAIN acked : \A m \in Markers : acked[k] # eventIds[m]
    /\ EventAckedOnce

LinkFits ==
    /\ LinkReleased
    /\ step = "connect" => ~connected

IInv == Flow /\ RestTyped /\ IdsFit /\ LinkFits

-----------------------------------------------------------------------------
(***************************************************************************)
(* From one operation to the next                                          *)
(***************************************************************************)

LEMMA ProgramFacts ==
    ASSUME RestTyped
    PROVE  /\ Len(program) \in 1..MaxOps
           /\ DOMAIN program = 1..Len(program)
           /\ \A k \in 1..Len(program) : program[k] \in AllKinds
  <1>1. PICK n \in 1..MaxOps : program \in [1..n -> Kinds]
    BY DEF RestTyped
  <1>2. n \in Nat /\ MaxOps \in Nat
    BY SessionAssumption
  <1>3. Len(program) = n
    BY <1>1, <1>2
  <1> QED
    BY <1>1, <1>2, <1>3, SessionAssumption

LEMMA NamesFit ==
    ASSUME NEW kind \in AllKinds
    PROVE  /\ MarkerOf(kind) \in Markers
           /\ FirstStep(kind) \in Asking \cap Working
           /\ Own(FirstStep(kind)) = 1
           /\ FirstStep(kind) \notin {"set_auth", "set_start", "status", "event"}
           /\ FirstStep(kind) = "answer" => kind \in {"required", "optional"}
           /\ FirstStep(kind) = "wifi" => kind = "wifi_set"
           /\ FirstStep(kind) = "trigger" => kind \in {"connection_info", "rf_scan"}
           /\ FirstStep(kind) = "get_auth" => kind = "auto_start"
  BY DEF AllKinds, MarkerOf, Markers, FirstStep, Asking, Working, Waiting, Own

\* The request that is registered next has a new id and its own step's answer to come.
LEMMA AskKeeps ==
    ASSUME FlowTyped, RequestFits, NEW asked \in Asking, Ask(asked),
           sent + 1 <= 3 * MaxOps + 1
    PROVE  /\ step' = asked
           /\ sent' = sent + 1 /\ sent' \in 0..(3 * MaxOps + 1)
           /\ request'.state = "open" /\ request'.id = sent + 1
           /\ request' \in [id: {0} \cup RequestIds, state: States,
                            by: {0} \cup RequestIds, value: Values]
           /\ unanswered' \subseteq [id: RequestIds, asked: Asking]
           /\ RequestFits'
  <1>1. MaxOps \in Nat /\ sent \in Nat /\ sent + 1 \in RequestIds
    BY SessionAssumption DEF FlowTyped, RequestIds
  <1>2. /\ step' = asked /\ sent' = sent + 1
        /\ request' = [id |-> sent + 1, state |-> "open", by |-> 0, value |-> "missing"]
        /\ unanswered' = unanswered \cup {[id |-> sent + 1, asked |-> asked]}
    BY DEF Ask, NoRequest
  <1>3. sent' \in 0..(3 * MaxOps + 1)
    BY <1>1, <1>2
  <1>4. request' \in [id: {0} \cup RequestIds, state: States,
                      by: {0} \cup RequestIds, value: Values]
    BY <1>1, <1>2 DEF States, Values
  <1>5. unanswered' \subseteq [id: RequestIds, asked: Asking]
    BY <1>1, <1>2 DEF FlowTyped
  <1>6. \A q \in unanswered' :
          q.id <= sent' /\ (q.id = sent' /\ step' \in Asking => q.asked = step')
    <2> SUFFICES ASSUME NEW q \in unanswered'
                 PROVE  q.id <= sent' /\ (q.id = sent' => q.asked = step')
      OBVIOUS
    <2>1. CASE q \in unanswered
      <3>1. q.id \in Nat /\ q.id <= sent
        BY <1>1, <2>1 DEF FlowTyped, RequestFits, RequestIds
      <3> QED
        BY <1>1, <1>2, <3>1
    <2>2. CASE q = [id |-> sent + 1, asked |-> asked]
      BY <1>1, <1>2, <2>2
    <2> QED
      BY <1>2, <2>1, <2>2
  <1>7. RequestFits'
    <2>1. step' \in Waiting
      BY <1>2 DEF Waiting
    <2>2. step' \notin {"status", "event"}
      BY <1>2 DEF Asking
    <2> QED
      BY <1>1, <1>2, <1>6, <2>1, <2>2 DEF RequestFits
  <1> QED
    BY <1>2, <1>3, <1>4, <1>5, <1>7

LEMMA LeaveKeeps ==
    ASSUME Flow, NEW how \in Outcomes, Leave(how), program' = program,
           at' \in 0..(MaxOps + 1), results' \in Seq(Result),
           Len(results') <= Len(program), ResultsAreAnswered'
    PROVE  Flow'
  <1>1. /\ step' = "cleanup" /\ outcome' = how
        /\ request' = NoRequest /\ marker' = NoMarker
        /\ sent' = sent /\ unanswered' = unanswered
    BY DEF Leave
  <1>2. step' \in Steps /\ step' \notin Waiting /\ step' \notin Working
        /\ step' \notin Asking
    BY <1>1 DEF Steps, Working, Waiting, Asking
  <1>3. FlowTyped'
    BY <1>1, <1>2 DEF Flow, FlowTyped, NoRequest, NoMarker, States, Values, Markers
  <1>4. Position' /\ KindFits' /\ AutoStartFits' /\ MarkerFits'
    BY <1>1, <1>2 DEF Position, KindFits, AutoStartFits, AutoStartPrecondition,
                      MarkerFits, NoMarker
  <1>5. RequestFits'
    BY <1>1, <1>2 DEF RequestFits, NoRequest, Flow
  <1> QED
    BY <1>3, <1>4, <1>5 DEF Flow

LEMMA StartKeeps ==
    ASSUME Flow, RestTyped, NEW k \in 1..(Len(program) + 1), Start(k),
           program' = program,
           sent <= 3 * (k - 1) + 1,
           results' \in Seq(Result), Len(results') = k - 1, ResultsAreAnswered'
    PROVE  Flow'
  <1>1. /\ Len(program) \in 1..MaxOps /\ MaxOps \in Nat /\ k \in Nat /\ sent \in Nat
        /\ k <= MaxOps + 1
    BY ProgramFacts, SessionAssumption DEF Flow, FlowTyped
  <1>2. at' = k /\ k \in 0..(MaxOps + 1)
    BY <1>1 DEF Start
  <1>3. CASE k > Len(program)
    <2>1. Leave("ok")
      BY <1>3 DEF Start
    <2>2. Len(results') <= Len(program)
      BY <1>1
    <2> QED
      BY <1>2, <2>1, <2>2, LeaveKeeps DEF Outcomes
  <1>4. CASE ~(k > Len(program))
    <2> DEFINE kind == program[k]
    <2>1. k \in 1..Len(program) /\ kind \in AllKinds
      BY <1>1, <1>4, ProgramFacts
    <2>2. /\ Ask(FirstStep(kind)) /\ outcome' = outcome
          /\ marker' = IF MarkerOf(kind) = "none" THEN NoMarker
                       ELSE [name |-> MarkerOf(kind), state |-> "open"]
      BY <1>4 DEF Start
    <2>3. /\ MarkerOf(kind) \in Markers
          /\ FirstStep(kind) \in Asking /\ FirstStep(kind) \in Working
          /\ Own(FirstStep(kind)) = 1
          /\ FirstStep(kind) \notin {"set_auth", "set_start", "status", "event"}
          /\ FirstStep(kind) = "answer" => kind \in {"required", "optional"}
          /\ FirstStep(kind) = "wifi" => kind = "wifi_set"
          /\ FirstStep(kind) = "trigger" => kind \in {"connection_info", "rf_scan"}
          /\ FirstStep(kind) = "get_auth" => kind = "auto_start"
      BY <2>1, NamesFit
    <2>4. sent + 1 <= 3 * MaxOps + 1
      BY <1>1, <2>1
    <2>5. /\ step' = FirstStep(kind) /\ sent' = sent + 1
          /\ sent' \in 0..(3 * MaxOps + 1)
          /\ request'.state = "open"
          /\ request' \in [id: {0} \cup RequestIds, state: States,
                           by: {0} \cup RequestIds, value: Values]
          /\ unanswered' \subseteq [id: RequestIds, asked: Asking]
          /\ RequestFits'
      BY <2>2, <2>3, <2>4, AskKeeps DEF Flow
    <2>6. marker'.name = MarkerOf(kind) /\ marker'.state \in {"none", "open"}
          /\ marker' \in [name: Markers, state: States]
      BY <2>2, <2>3 DEF NoMarker, States, Markers
    <2>7. step' \in Steps /\ step' \notin {"connect", "auth"}
      BY <2>3, <2>5 DEF Steps, Working, Waiting, Asking
    <2> HIDE DEF kind
    <2>8. FlowTyped'
      BY <1>2, <2>2, <2>5, <2>6, <2>7 DEF FlowTyped, Flow
    <2>9. Position'
      <3>1. Own(step') = 1
        BY <2>3, <2>5
      <3>2. sent' <= 3 * (at' - 1) + 1 + Own(step')
        BY <1>1, <1>2, <2>5, <3>1
      <3>3. Len(results') = at' - 1 /\ Len(results') <= Len(program)
        BY <1>1, <1>2, <2>1
      <3> QED
        BY <1>2, <2>1, <2>7, <3>2, <3>3 DEF Position
    <2>10. KindFits'
      BY <1>2, <2>3, <2>5 DEF KindFits, kind
    <2>11. AutoStartFits'
      BY <2>3, <2>5 DEF AutoStartFits, AutoStartPrecondition
    <2>12. MarkerFits'
      BY <1>2, <2>6 DEF MarkerFits, kind
    <2> QED
      BY <2>5, <2>8, <2>9, <2>10, <2>11, <2>12 DEF Flow
  <1> QED
    BY <1>3, <1>4

\* The pending request of an operation has the last id.
LEMMA WorkingFacts ==
    ASSUME Flow, RestTyped, step \in Working
    PROVE  /\ at \in 1..Len(program) /\ Len(results) = at - 1
           /\ request.id \in RequestIds /\ request.id = sent
           /\ sent \in Nat /\ sent <= 3 * at + 1
  <1>1. /\ MaxOps \in Nat /\ sent \in 0..(3 * MaxOps + 1)
        /\ at \in 1..Len(program) /\ sent <= 3 * (at - 1) + 1 + Own(step)
        /\ Len(results) = at - 1
        /\ sent >= 1 /\ request.id = sent
    BY SessionAssumption DEF Flow, FlowTyped, Position, RequestFits, Working
  <1>2. Own(step) \in 1..3 /\ at \in Int
    BY <1>1 DEF Own
  <1>3. sent <= 3 * at + 1
    BY <1>1, <1>2
  <1>4. request.id \in RequestIds
    BY <1>1 DEF RequestIds
  <1> QED
    BY <1>1, <1>3, <1>4

\* What may be returned to an operation
Returnable(value) ==
    /\ value \in Values => request.id \in accepted
    /\ value = "event" => /\ MarkerOf(program[at]) \in heard
                          /\ program[at] # "wifi_set" => request.id \in accepted
    /\ value = "none" => program[at] \in {"optional", "connection_info"}

LEMMA ConcludeKeeps ==
    ASSUME Flow, RestTyped, step \in Working,
           NEW value \in Values \cup {"event", "none"}, Returnable(value),
           Conclude(value), UNCHANGED <<program, accepted, heard>>
    PROVE  Flow'
  <1> DEFINE r == [id |-> request.id, value |-> value]
  <1>1. /\ at \in 1..Len(program) /\ Len(results) = at - 1
        /\ request.id \in RequestIds /\ sent <= 3 * at + 1
    BY WorkingFacts
  <1>2. r \in Result /\ results \in Seq(Result)
    BY <1>1 DEF Result, Flow, FlowTyped
  <1>3. results' = Append(results, r) /\ Start(at + 1)
    BY DEF Conclude
  <1> HIDE DEF r
  <1>4. /\ results' \in Seq(Result) /\ Len(results') = Len(results) + 1
        /\ \A k \in 1..Len(results) : results'[k] = results[k]
        /\ results'[Len(results) + 1] = r
    BY <1>2, <1>3, AppendProperties
  <1>5. Len(results') = (at + 1) - 1 /\ Len(program) \in Nat /\ at \in Nat
    BY <1>1, <1>4, ProgramFacts
  <1>6. ResultsAreAnswered'
    <2> SUFFICES ASSUME NEW k \in DOMAIN results'
                 PROVE  /\ results'[k].value \in Values => results'[k].id \in accepted
                        /\ results'[k].value = "event" =>
                             /\ MarkerOf(program[k]) \in heard
                             /\ program[k] # "wifi_set" => results'[k].id \in accepted
                        /\ results'[k].value = "none" =>
                             program[k] \in {"optional", "connection_info"}
      BY DEF ResultsAreAnswered
    <2>1. k \in 1..(Len(results) + 1) /\ Len(results) \in Nat
      BY <1>2, <1>4
    <2>2. CASE k \in 1..Len(results)
      <3>1. results'[k] = results[k] /\ k \in DOMAIN results
        BY <1>2, <1>4, <2>2
      <3> QED
        BY <3>1 DEF Flow, ResultsAreAnswered
    <2>3. CASE k = Len(results) + 1
      <3>1. k = at /\ results'[k].value = value /\ results'[k].id = request.id
        BY <1>1, <1>4, <2>3 DEF r
      <3> QED
        BY <3>1 DEF Returnable
    <2> QED
      BY <2>1, <2>2, <2>3
  <1>7. sent <= 3 * ((at + 1) - 1) + 1 /\ at + 1 \in 1..(Len(program) + 1)
    BY <1>1, <1>5
  <1> QED
    BY <1>3, <1>4, <1>5, <1>6, <1>7, StartKeeps

LEMMA FailKeeps ==
    ASSUME Flow, RestTyped, NEW how \in Outcomes, Fail(how),
           UNCHANGED <<program, accepted, heard>>
    PROVE  Flow'
  <1>1. /\ Leave(how) /\ at' = at /\ results' = results
        /\ Len(results) <= Len(program)
    BY DEF Fail, Flow, Position
  <1>2. ResultsAreAnswered'
    BY <1>1 DEF Flow, ResultsAreAnswered
  <1>3. at' \in 0..(MaxOps + 1) /\ results' \in Seq(Result)
    BY <1>1 DEF Flow, FlowTyped
  <1> QED
    BY <1>1, <1>2, <1>3, LeaveKeeps

\* An error is tolerated by an optional read, or it ends the session.
LEMMA RaiseKeeps ==
    ASSUME Flow, RestTyped, step \in Waiting, NEW error \in {"timeout", "protocol"},
           Raise(error), UNCHANGED <<program, accepted, heard>>
    PROVE  Flow'
  <1>1. CASE Tolerated(error)
    <2>1. step \in Working /\ program[at] \in {"optional", "connection_info"}
      BY <1>1 DEF Tolerated, Working, Waiting, Asking
    <2>2. Returnable("none")
      BY <2>1 DEF Returnable, Values
    <2>3. Conclude("none")
      BY <1>1 DEF Raise
    <2> QED
      BY <2>1, <2>2, <2>3, ConcludeKeeps
  <1>2. CASE ~Tolerated(error)
    <2>1. \E how \in Outcomes : Fail(how)
      BY <1>2 DEF Raise, Outcomes
    <2> QED
      BY <2>1, FailKeeps
  <1> QED
    BY <1>1, <1>2

-----------------------------------------------------------------------------
(***************************************************************************)
(* Notifications                                                           *)
(***************************************************************************)

Request == [id: {0} \cup RequestIds, state: States, by: {0} \cup RequestIds,
            value: Values]

\* A notification completes what is open; what is done stays done.
LEMMA NotifiedKeeps ==
    ASSUME Flow, RestTyped, UNCHANGED <<program, progress>>,
           request' \in Request, request'.id = request.id,
           request' = request \/ (request.state = "open" /\ request'.state # "open"),
           request' # request /\ request'.state = "done" =>
               /\ request.id \in accepted'
               /\ step = "get_auth" =>
                    /\ request'.value \in {"true", "false", "missing"}
                    /\ request'.value = "true" => localAuth'
               /\ step = "set_auth" => localAuth',
           marker' \in [name: Markers, state: States], marker'.name = marker.name,
           marker'.state = "done" => marker.state = "done" \/ marker.name \in heard',
           unanswered' \subseteq unanswered,
           accepted \subseteq accepted', heard \subseteq heard', localAuth => localAuth'
    PROVE  Flow'
  <1>1. /\ at' = at /\ step' = step /\ sent' = sent /\ results' = results
        /\ outcome' = outcome /\ program' = program
    BY DEF progress
  <1>2. FlowTyped'
    BY <1>1 DEF Flow, FlowTyped, Request
  <1>3. Position' /\ KindFits'
    BY <1>1 DEF Flow, Position, KindFits
  <1>4. RequestFits'
    <2>1. step \notin Waiting => request' = request
      BY DEF Flow, RequestFits, NoRequest
    <2>2. step \in {"status", "event"} => request' = request
      BY DEF Flow, RequestFits
    <2>3. request'.state = "done" => request'.id \in accepted'
      BY DEF Flow, RequestFits
    <2> QED
      BY <1>1, <2>1, <2>2, <2>3 DEF Flow, RequestFits
  <1>5. AutoStartFits'
    BY <1>1 DEF Flow, AutoStartFits, AutoStartPrecondition
  <1>6. MarkerFits'
    BY <1>1 DEF Flow, MarkerFits
  <1>7. ResultsAreAnswered'
    BY <1>1 DEF Flow, ResultsAreAnswered
  <1> QED
    BY <1>2, <1>3, <1>4, <1>5, <1>6, <1>7 DEF Flow

LEMMA PoisonFacts ==
    ASSUME Flow, NEW by \in {0} \cup RequestIds, Poison(by)
    PROVE  /\ request' \in Request /\ request'.id = request.id
           /\ request' = request \/ (request.state = "open" /\ request'.state = "failed")
           /\ marker' \in [name: Markers, state: States] /\ marker'.name = marker.name
           /\ marker'.state = "done" => marker.state = "done"
  <1>1. request \in Request /\ marker \in [name: Markers, state: States]
    BY DEF Flow, FlowTyped, Request
  <1>2. \/ request' = request
        \/ request.state = "open" /\ request' = [request EXCEPT !.state = "failed", !.by = by]
    BY DEF Poison
  <1>3. marker' = marker \/ marker' = [marker EXCEPT !.state = "failed"]
    BY DEF Poison
  <1>4. /\ request' \in Request /\ request'.id = request.id
        /\ request' = request \/ (request.state = "open" /\ request'.state = "failed")
    BY <1>1, <1>2 DEF Request, States
  <1>5. /\ marker' \in [name: Markers, state: States] /\ marker'.name = marker.name
        /\ marker'.state = "done" => marker.state = "done"
    BY <1>1, <1>3 DEF States
  <1> QED
    BY <1>4, <1>5

LEMMA PoisonKeeps ==
    ASSUME Flow, RestTyped, NEW by \in {0} \cup RequestIds, Poison(by),
           UNCHANGED <<program, progress>>, unanswered' \subseteq unanswered,
           accepted \subseteq accepted', heard \subseteq heard', localAuth => localAuth'
    PROVE  Flow'
  <1>1. /\ request' \in Request /\ request'.id = request.id
        /\ request' = request \/ (request.state = "open" /\ request'.state = "failed")
        /\ marker' \in [name: Markers, state: States] /\ marker'.name = marker.name
        /\ marker'.state = "done" => marker.state = "done"
    BY PoisonFacts
  <1>2. request' = request \/ (request.state = "open" /\ request'.state # "open")
    BY <1>1
  <1>3. ~(request' # request /\ request'.state = "done")
    BY <1>1
  <1> QED
    BY <1>1, <1>2, <1>3, NotifiedKeeps

LEMMA AcceptKeeps ==
    ASSUME Flow, RestTyped, Accept
    PROVE  Flow'
  <1>1. PICK q \in unanswered :
          /\ unanswered' = unanswered \ {q}
          /\ accepted' = accepted \cup {q.id}
          /\ localAuth' = (localAuth \/ q.asked = "set_auth")
          /\ IF broken THEN Poison(0)
             ELSE /\ \E value \in Payloads(q.asked) : request' = Routed(q.id, value)
                  /\ UNCHANGED marker
    BY DEF Accept
  <1>2. /\ UNCHANGED <<program, progress>> /\ heard' = heard
        /\ localAuth => localAuth'
    BY <1>1 DEF Accept
  <1>3. CASE broken
    BY <1>1, <1>2, <1>3, PoisonKeeps
  <1>4. CASE ~broken
    <2>1. PICK value \in Payloads(q.asked) : request' = Routed(q.id, value)
      BY <1>1, <1>4
    <2>2. marker' = marker
      BY <1>1, <1>4
    <2>3. request \in Request /\ q \in [id: RequestIds, asked: Asking]
          /\ marker \in [name: Markers, state: States]
      BY DEF Flow, FlowTyped, Request
    <2>4. value \in Values
      BY <2>1, <2>3 DEF Payloads, Values
    <2>5. \/ request' = request
          \/ /\ request.state = "open" /\ request.id = q.id
             /\ request' = [request EXCEPT !.state = "done", !.by = q.id, !.value = value]
      BY <2>1 DEF Routed
    <2>6. CASE request' = request
      BY <1>1, <1>2, <2>2, <2>3, <2>6, NotifiedKeeps
    <2>7. CASE /\ request.state = "open" /\ request.id = q.id
               /\ request' = [request EXCEPT !.state = "done", !.by = q.id, !.value = value]
      <3>1. /\ request' \in Request /\ request'.id = request.id
            /\ request'.state = "done" /\ request'.value = value
        BY <2>3, <2>4, <2>7 DEF Request, States
      <3>2. step \in {"get_auth", "set_auth"} => q.asked = step
        <4>1. step \in {"get_auth", "set_auth"} => step \in Waiting /\ step \in Asking
          BY DEF Waiting, Asking
        <4> QED
          BY <2>7, <4>1 DEF Flow, RequestFits
      <3>3. step = "get_auth" => /\ value \in {"true", "false", "missing"}
                                 /\ value = "true" => localAuth'
        BY <1>1, <2>1, <3>2 DEF Payloads
      <3>4. step = "set_auth" => localAuth'
        BY <1>1, <3>2
      <3>5. request.id \in accepted'
        BY <1>1, <2>7
      <3>6. request' = request \/ (request.state = "open" /\ request'.state # "open")
        BY <2>7, <3>1
      <3> QED
        BY <1>1, <1>2, <2>2, <2>3, <3>1, <3>3, <3>4, <3>5, <3>6, NotifiedKeeps
    <2> QED
      BY <2>5, <2>6, <2>7
  <1> QED
    BY <1>3, <1>4

LEMMA EventKeeps ==
    ASSUME Flow, RestTyped, Event
    PROVE  Flow'
  <1>1. /\ UNCHANGED <<program, progress>> /\ accepted' = accepted
        /\ unanswered' = unanswered /\ localAuth' = localAuth
    BY DEF Event
  <1>2. CASE broken
    <2>1. Poison(0) /\ heard' = heard
      BY <1>2 DEF Event
    <2> QED
      BY <1>1, <2>1, PoisonKeeps
  <1>3. CASE ~broken
    <2>1. PICK m \in Markers \ {"none"} :
            /\ marker' = IF marker.name = m /\ marker.state = "open"
                         THEN [marker EXCEPT !.state = "done"] ELSE marker
            /\ heard' = heard \cup {m}
            /\ request' = request
      BY <1>3 DEF Event
    <2>2. request \in Request /\ marker \in [name: Markers, state: States]
      BY DEF Flow, FlowTyped, Request
    <2>3. /\ marker' \in [name: Markers, state: States] /\ marker'.name = marker.name
          /\ marker'.state = "done" => marker.state = "done" \/ marker.name \in heard'
      BY <2>1, <2>2 DEF States
    <2> QED
      BY <1>1, <2>1, <2>2, <2>3, NotifiedKeeps
  <1> QED
    BY <1>2, <1>3

LEMMA ErrorsKeep ==
    ASSUME Flow, RestTyped, Refuse \/ Undecodable
    PROVE  Flow'
  <1>1. CASE Refuse
    <2>1. PICK q \in unanswered :
            unanswered' = unanswered \ {q} /\ Poison(IF broken THEN 0 ELSE q.id)
      BY <1>1 DEF Refuse
    <2>2. q.id \in RequestIds
      BY DEF Flow, FlowTyped
    <2>3. UNCHANGED <<program, progress, accepted, heard, localAuth>>
      BY <1>1 DEF Refuse, history
    <2>4. PICK by \in {0} \cup RequestIds : Poison(by)
      BY <2>1, <2>2
    <2> QED
      BY <2>1, <2>3, <2>4, PoisonKeeps
  <1>2. CASE Undecodable
    <2>1. /\ Poison(0) /\ UNCHANGED <<program, progress, accepted, heard, localAuth>>
          /\ unanswered' = unanswered
      BY <1>2 DEF Undecodable, history, charger
    <2> QED
      BY <2>1, PoisonKeeps
  <1> QED
    BY <1>1, <1>2

-----------------------------------------------------------------------------
(***************************************************************************)
(* The session's own steps                                                 *)
(***************************************************************************)

\* The next request of the AutoStart operation
LEMMA OnwardKeeps ==
    ASSUME Flow, RestTyped, step \in {"get_auth", "set_auth"},
           NEW asked \in {"set_auth", "set_start"}, Ask(asked),
           Own(step) < Own(asked), asked = "set_start" => localAuth,
           UNCHANGED <<at, results, outcome, marker>>,
           UNCHANGED <<program, accepted, heard, localAuth>>
    PROVE  Flow'
  <1>1. step \in Working /\ step \notin {"connect", "auth"}
    BY DEF Working, Waiting, Asking
  <1>2. /\ at \in 1..Len(program) /\ Len(results) = at - 1
        /\ Len(program) \in 1..MaxOps /\ MaxOps \in Nat /\ sent \in Nat
        /\ sent <= 3 * (at - 1) + 1 + Own(step)
    BY <1>1, WorkingFacts, ProgramFacts, SessionAssumption DEF Flow, Position
  <1>3. Own(step) \in 1..3 /\ Own(asked) \in 1..3 /\ Own(step) + 1 <= Own(asked)
    BY DEF Own
  <1>4. sent + 1 <= 3 * (at - 1) + 1 + Own(asked) /\ sent + 1 <= 3 * MaxOps + 1
    BY <1>2, <1>3
  <1>5. asked \in Asking /\ asked \in Working /\ asked \in Steps
        /\ asked \notin {"connect", "auth", "status", "event"}
    BY DEF Asking, Working, Waiting, Steps
  <1>6. /\ step' = asked /\ sent' = sent + 1 /\ sent' \in 0..(3 * MaxOps + 1)
        /\ request'.state = "open" /\ request' \in Request
        /\ unanswered' \subseteq [id: RequestIds, asked: Asking]
        /\ RequestFits'
    BY <1>4, <1>5, AskKeeps DEF Flow, Request
  <1>7. FlowTyped'
    BY <1>5, <1>6 DEF Flow, FlowTyped, Request
  <1>8. Position'
    <2>1. sent' <= 3 * (at' - 1) + 1 + Own(step')
      BY <1>4, <1>6
    <2> QED
      BY <1>2, <1>5, <1>6, <2>1 DEF Flow, Position
  <1>9. KindFits' /\ MarkerFits'
    BY <1>1, <1>6 DEF Flow, KindFits, MarkerFits
  <1>10. AutoStartFits'
    BY <1>6 DEF AutoStartFits, AutoStartPrecondition
  <1>11. ResultsAreAnswered'
    BY DEF Flow, ResultsAreAnswered
  <1> QED
    BY <1>6, <1>7, <1>8, <1>9, <1>10, <1>11 DEF Flow

\* The request is answered, its operation's event is awaited.
LEMMA AwaitKeeps ==
    ASSUME Flow, RestTyped, request.state = "done",
           \/ step = "trigger" /\ step' = "event"
           \/ step = "wifi" /\ step' = "status",
           UNCHANGED <<at, sent, results, outcome, request, marker, unanswered>>,
           UNCHANGED <<program, accepted, heard>>
    PROVE  Flow'
  <1>1. /\ step \in Working /\ step \in Waiting /\ step' \in Working /\ step' \in Waiting
        /\ step' \in Steps /\ step' \notin Asking /\ step' \notin {"connect", "auth"}
        /\ Own(step) = 1 /\ Own(step') = 1
    BY DEF Working, Waiting, Asking, Steps, Own
  <1>2. FlowTyped'
    BY <1>1 DEF Flow, FlowTyped
  <1>3. Position'
    BY <1>1 DEF Flow, Position
  <1>4. KindFits' /\ MarkerFits'
    BY <1>1 DEF Flow, KindFits, MarkerFits
  <1>5. RequestFits'
    BY <1>1 DEF Flow, RequestFits
  <1>6. AutoStartFits'
    BY DEF AutoStartFits, AutoStartPrecondition
  <1>7. ResultsAreAnswered'
    BY DEF Flow, ResultsAreAnswered
  <1> QED
    BY <1>2, <1>3, <1>4, <1>5, <1>6, <1>7 DEF Flow

\* What may be returned in a step, if it is in the operation's time
LEMMA AnswerReturnable ==
    ASSUME Flow, request.state = "done"
    PROVE  Returnable(request.value)
  <1>1. request.value \in Values /\ request.id \in accepted
    BY DEF Flow, FlowTyped, RequestFits
  <1>2. request.value # "event" /\ request.value # "none"
    BY <1>1 DEF Values
  <1> QED
    BY <1>1, <1>2 DEF Returnable

LEMMA EventReturnable ==
    ASSUME Flow, step \in {"wifi", "status", "event"}, marker.state = "done"
    PROVE  Returnable("event")
  <1>1. step \in Working
    BY DEF Working, Waiting, Asking
  <1>2. MarkerOf(program[at]) \in heard
    BY <1>1 DEF Flow, MarkerFits
  <1>3. step \in {"wifi", "status"} => program[at] = "wifi_set"
    BY <1>1 DEF Flow, KindFits
  <1>4. step = "event" => request.id \in accepted
    BY DEF Flow, RequestFits
  <1> QED
    BY <1>2, <1>3, <1>4 DEF Returnable, Values

LEMMA TakeAnswerKeeps ==
    ASSUME Flow, RestTyped, TakeAnswer
    PROVE  Flow'
  <1>1. /\ step \in Asking \ {"wifi"} /\ request.state = "done"
        /\ UNCHANGED <<program, accepted, heard, localAuth>>
    BY DEF TakeAnswer, calm, history
  <1>2. step \in Waiting /\ (step # "auth" => step \in Working)
    BY <1>1 DEF Waiting, Working
  <1>3. CASE step = "auth" /\ request.value = "false"
    <2>1. Fail("auth") /\ "auth" \in Outcomes
      BY <1>1, <1>3 DEF TakeAnswer, Outcomes
    <2> QED
      BY <1>1, <2>1, FailKeeps
  <1>4. CASE step = "auth" /\ request.value # "false"
    <2>1. Start(1) /\ results' = results
      BY <1>1, <1>4 DEF TakeAnswer
    <2>2. sent = 1 /\ results = << >> /\ Len(program) \in Nat
      BY <1>4, ProgramFacts DEF Flow, Position
    <2>3. /\ 1 \in 1..(Len(program) + 1) /\ sent <= 3 * (1 - 1) + 1
          /\ Len(results') = 1 - 1 /\ results' \in Seq(Result)
      BY <2>1, <2>2 DEF Flow, FlowTyped
    <2>4. ResultsAreAnswered'
      BY <1>1, <2>1 DEF Flow, ResultsAreAnswered
    <2> QED
      BY <1>1, <2>1, <2>3, <2>4, StartKeeps
  <1>5. CASE step \in {"answer", "set_start"}
    <2>1. Conclude(request.value)
      BY <1>1, <1>5 DEF TakeAnswer
    <2>2. Returnable(request.value) /\ request.value \in Values \cup {"event", "none"}
      BY <1>1, AnswerReturnable DEF Flow, FlowTyped
    <2> QED
      BY <1>1, <1>2, <1>5, <2>1, <2>2, ConcludeKeeps
  <1>6. CASE step = "get_auth"
    <2>1. AfterLocalAuth
      BY <1>1, <1>6 DEF TakeAnswer
    <2>2. /\ request.value \in {"true", "false", "missing"}
          /\ request.value = "true" => localAuth
      BY <1>1, <1>6 DEF Flow, AutoStartFits
    <2>3. CASE request.value = "missing"
      <3>1. Fail("protocol") /\ "protocol" \in Outcomes
        BY <2>1, <2>3 DEF AfterLocalAuth, Outcomes
      <3> QED
        BY <1>1, <3>1, FailKeeps
    <2>4. CASE request.value = "false"
      <3>1. Ask("set_auth") /\ UNCHANGED <<at, results, outcome, marker>>
        BY <2>1, <2>4 DEF AfterLocalAuth
      <3>2. Own(step) < Own("set_auth")
        BY <1>6 DEF Own
      <3> QED
        BY <1>1, <1>6, <3>1, <3>2, OnwardKeeps
    <2>5. CASE request.value = "true"
      <3>1. Ask("set_start") /\ UNCHANGED <<at, results, outcome, marker>>
        BY <2>1, <2>5 DEF AfterLocalAuth
      <3>2. Own(step) < Own("set_start")
        BY <1>6 DEF Own
      <3> QED
        BY <1>1, <1>6, <2>2, <2>5, <3>1, <3>2, OnwardKeeps
    <2> QED
      BY <2>2, <2>3, <2>4, <2>5
  <1>7. CASE step = "set_auth"
    <2>1. Ask("set_start") /\ UNCHANGED <<at, results, outcome, marker>>
      BY <1>1, <1>7 DEF TakeAnswer
    <2>2. Own(step) < Own("set_start")
      BY <1>7 DEF Own
    <2>3. localAuth
      BY <1>1, <1>7 DEF Flow, AutoStartFits
    <2> QED
      BY <1>1, <1>7, <2>1, <2>2, <2>3, OnwardKeeps
  <1>8. CASE step = "trigger"
    <2>1. /\ step' = "event"
          /\ UNCHANGED <<at, sent, results, outcome, request, marker, unanswered>>
      BY <1>1, <1>8 DEF TakeAnswer
    <2> QED
      BY <1>1, <1>8, <2>1, AwaitKeeps
  <1> QED
    BY <1>1, <1>3, <1>4, <1>5, <1>6, <1>7, <1>8 DEF Asking

LEMMA TakeWifiKeeps ==
    ASSUME Flow, RestTyped, TakeWifi \/ TakeStatus
    PROVE  Flow'
  <1>1. /\ step \in {"wifi", "status"}
        /\ UNCHANGED <<program, accepted, heard, localAuth>>
    BY DEF TakeWifi, TakeStatus, calm, history
  <1>2. step \in Working
    BY <1>1 DEF Working, Waiting, Asking
  <1>3. CASE marker.state = "done"
    <2>1. Conclude("event")
      BY <1>3 DEF TakeWifi, TakeStatus
    <2>2. Returnable("event")
      BY <1>1, <1>3, EventReturnable
    <2> QED
      BY <1>1, <1>2, <2>1, <2>2, ConcludeKeeps
  <1>4. CASE marker.state = "failed"
    <2>1. Fail("protocol") /\ "protocol" \in Outcomes
      BY <1>4 DEF TakeWifi, TakeStatus, Outcomes
    <2> QED
      BY <1>1, <2>1, FailKeeps
  <1>5. CASE marker.state \notin {"done", "failed"}
    <2>1. TakeWifi /\ step = "wifi" /\ request.state = "done"
      BY <1>5 DEF TakeWifi, TakeStatus
    <2>2. CASE request.value = "state"
      <3>1. Conclude(request.value)
        BY <1>5, <2>1, <2>2 DEF TakeWifi
      <3>2. Returnable(request.value) /\ request.value \in Values \cup {"event", "none"}
        BY <2>1, AnswerReturnable DEF Flow, FlowTyped
      <3> QED
        BY <1>1, <1>2, <3>1, <3>2, ConcludeKeeps
    <2>3. CASE request.value # "state"
      <3>1. /\ step' = "status"
            /\ UNCHANGED <<at, sent, results, outcome, request, marker, unanswered>>
        BY <1>5, <2>1, <2>3 DEF TakeWifi
      <3> QED
        BY <1>1, <2>1, <3>1, AwaitKeeps
    <2> QED
      BY <2>2, <2>3
  <1> QED
    BY <1>3, <1>4, <1>5

LEMMA TakeEventKeeps ==
    ASSUME Flow, RestTyped, TakeEvent
    PROVE  Flow'
  <1>1. step = "event" /\ step \in Working /\ step \in Waiting
        /\ UNCHANGED <<program, accepted, heard>>
    BY DEF TakeEvent, Working, Waiting, Asking
  <1>2. CASE marker.state = "done" /\ Conclude("event")
    BY <1>1, <1>2, EventReturnable, ConcludeKeeps
  <1>3. CASE Fail("connection")
    BY <1>1, <1>3, FailKeeps DEF Outcomes
  <1>4. CASE Raise("protocol")
    BY <1>1, <1>4, RaiseKeeps
  <1> QED
    BY <1>2, <1>3, <1>4 DEF TakeEvent

LEMMA TakeErrorKeeps ==
    ASSUME Flow, RestTyped, TakeError
    PROVE  Flow'
  <1>1. /\ step \in Waiting /\ Raise("protocol")
        /\ UNCHANGED <<program, accepted, heard>>
    BY DEF TakeError, Waiting, calm, history
  <1> QED
    BY <1>1, RaiseKeeps

LEMMA TimeoutKeeps ==
    ASSUME Flow, RestTyped, Timeout
    PROVE  Flow'
  <1>1. UNCHANGED <<program, accepted, heard>>
    BY DEF Timeout, calm, history
  <1>2. CASE step \in (Asking \ {"wifi"}) \cup {"event"} /\ Raise("timeout")
    <2>1. step \in Waiting
      BY <1>2 DEF Waiting
    <2> QED
      BY <1>1, <1>2, <2>1, RaiseKeeps
  <1>3. CASE Fail("connection")
    BY <1>1, <1>3, FailKeeps DEF Outcomes
  <1>4. CASE step = "status" /\ Conclude(request.value)
    <2>1. step \in Working /\ request.state = "done"
      BY <1>4 DEF Working, Waiting, Flow, RequestFits
    <2>2. Returnable(request.value) /\ request.value \in Values \cup {"event", "none"}
      BY <2>1, AnswerReturnable DEF Flow, FlowTyped
    <2> QED
      BY <1>1, <1>4, <2>1, <2>2, ConcludeKeeps
  <1> QED
    BY <1>2, <1>3, <1>4 DEF Timeout

\* Nothing of the flow but the step and the outcome changes, at the session's end.
LEMMA EndKeeps ==
    ASSUME Flow, RestTyped, step \in {"connect", "cleanup"}, step' = "over",
           outcome' \in Outcomes,
           UNCHANGED <<program, at, sent, results, request, marker, unanswered,
                       accepted, heard>>
    PROVE  Flow'
  <1>1. /\ step \notin Working /\ step \notin Waiting
        /\ step' \notin Working /\ step' \notin Waiting /\ step' \notin Asking
        /\ step' \in Steps
    BY DEF Working, Waiting, Asking, Steps
  <1>2. FlowTyped'
    BY <1>1 DEF Flow, FlowTyped
  <1>3. Position' /\ KindFits' /\ MarkerFits'
    BY <1>1 DEF Flow, Position, KindFits, MarkerFits
  <1>4. RequestFits'
    BY <1>1 DEF Flow, RequestFits
  <1>5. AutoStartFits' /\ ResultsAreAnswered'
    BY DEF Flow, AutoStartFits, AutoStartPrecondition, ResultsAreAnswered
  <1> QED
    BY <1>2, <1>3, <1>4, <1>5 DEF Flow

LEMMA ConnectKeeps ==
    ASSUME Flow, RestTyped, Connect
    PROVE  Flow'
  <1>1. step = "connect" /\ UNCHANGED <<program, accepted, heard, localAuth>>
    BY DEF Connect, history
  <1>2. CASE Ask("auth") /\ UNCHANGED <<at, marker, results, outcome>>
    <2>1. /\ at = 0 /\ sent = 0 /\ results = << >> /\ Len(program) \in Nat
          /\ MaxOps \in Nat \ {0}
      BY <1>1, ProgramFacts, SessionAssumption DEF Flow, Position
    <2>2. "auth" \in Asking /\ "auth" \notin Working /\ sent + 1 <= 3 * MaxOps + 1
      BY <2>1 DEF Asking, Working, Waiting
    <2>3. /\ step' = "auth" /\ sent' = 1 /\ sent' \in 0..(3 * MaxOps + 1)
          /\ request' \in Request
          /\ unanswered' \subseteq [id: RequestIds, asked: Asking]
          /\ RequestFits'
      BY <1>2, <2>1, <2>2, AskKeeps DEF Flow, Request
    <2>4. FlowTyped'
      BY <1>2, <2>3 DEF Flow, FlowTyped, Request, Steps, Asking
    <2>5. Position' /\ KindFits' /\ MarkerFits'
      BY <1>1, <1>2, <2>1, <2>2, <2>3 DEF Flow, Position, KindFits, MarkerFits
    <2>6. AutoStartFits' /\ ResultsAreAnswered'
      BY <1>1, <1>2, <2>3
         DEF Flow, AutoStartFits, AutoStartPrecondition, ResultsAreAnswered
    <2> QED
      BY <2>3, <2>4, <2>5, <2>6 DEF Flow
  <1>3. CASE /\ step' = "over" /\ outcome' = "connection"
             /\ UNCHANGED <<at, sent, results, request, marker, unanswered>>
    BY <1>1, <1>3, EndKeeps DEF Outcomes
  <1>4. CASE Fail("connection")
    BY <1>1, <1>4, FailKeeps DEF Outcomes
  <1> QED
    BY <1>2, <1>3, <1>4 DEF Connect

\* Every step of the session keeps the flow.
LEMMA FlowHolds ==
    ASSUME Flow, RestTyped, [Next]_vars
    PROVE  Flow'
  <1>1. CASE Connect
    BY <1>1, ConnectKeeps
  <1>2. CASE Resume
    BY <1>2, TakeAnswerKeeps, TakeWifiKeeps, TakeEventKeeps, TakeErrorKeeps DEF Resume
  <1>3. CASE Timeout
    BY <1>3, TimeoutKeeps
  <1>4. CASE WriteFails
    BY <1>4, FailKeeps DEF WriteFails, Outcomes, calm, history
  <1>5. CASE CleanUp
    BY <1>5, EndKeeps DEF CleanUp, router, charger, Flow, FlowTyped
  <1>6. CASE Cancel
    <2>1. CASE step = "cleanup"
      BY <1>6, <2>1, EndKeeps DEF Cancel, Outcomes
    <2>2. CASE step # "cleanup"
      BY <1>6, <2>2, FailKeeps DEF Cancel, Outcomes
    <2> QED
      BY <2>1, <2>2
  <1>7. CASE Charger
    <2>1. CASE LinkLost
      BY <2>1 DEF LinkLost, vars, progress, router, charger, history, Flow, FlowTyped,
                  Position, KindFits, RequestFits, AutoStartFits, AutoStartPrecondition,
                  MarkerFits, ResultsAreAnswered
    <2> QED
      BY <1>7, <2>1, AcceptKeeps, EventKeeps, ErrorsKeep DEF Charger
  <1>8. CASE UNCHANGED vars
    BY <1>8 DEF vars, progress, router, charger, history, Flow, FlowTyped,
                Position, KindFits, RequestFits, AutoStartFits, AutoStartPrecondition,
                MarkerFits, ResultsAreAnswered
  <1> QED
    BY <1>1, <1>2, <1>3, <1>4, <1>5, <1>6, <1>7, <1>8 DEF Next

-----------------------------------------------------------------------------
(***************************************************************************)
(* The link and the events                                                 *)
(***************************************************************************)

\* The actions of the session in which nothing but its flow changes
Onward == TakeAnswer \/ TakeWifi \/ TakeStatus \/ TakeError \/ Timeout \/ WriteFails

Going == Waiting \cup {"cleanup"}

LEMMA StartGoesOn ==
    ASSUME RestTyped, NEW k \in 1..(Len(program) + 1), Start(k)
    PROVE  step' \in Going
  <1>1. Len(program) \in Nat /\ \A j \in 1..Len(program) : program[j] \in AllKinds
    BY ProgramFacts, SessionAssumption
  <1>2. CASE k > Len(program)
    BY <1>2 DEF Start, Leave, Going
  <1>3. CASE ~(k > Len(program))
    <2>1. program[k] \in AllKinds
      BY <1>1, <1>3
    <2>2. FirstStep(program[k]) \in Asking
      BY <2>1, NamesFit
    <2>3. step' = FirstStep(program[k])
      BY <1>3 DEF Start, Ask
    <2> QED
      BY <2>2, <2>3 DEF Going, Waiting
  <1> QED
    BY <1>2, <1>3

LEMMA ConcludeGoesOn ==
    ASSUME Flow, RestTyped, step \in Working, NEW value, Conclude(value)
    PROVE  step' \in Going
  <1>1. at + 1 \in 1..(Len(program) + 1)
    BY WorkingFacts, ProgramFacts
  <1> QED
    BY <1>1, StartGoesOn DEF Conclude

LEMMA RaiseGoesOn ==
    ASSUME Flow, RestTyped, NEW error, Raise(error)
    PROVE  step' \in Going
  <1>1. CASE Tolerated(error)
    <2>1. step \in Working
      BY <1>1 DEF Tolerated, Working, Waiting, Asking
    <2> QED
      BY <1>1, <2>1, ConcludeGoesOn DEF Raise
  <1>2. CASE ~Tolerated(error)
    BY <1>2 DEF Raise, Fail, Leave, Going
  <1> QED
    BY <1>1, <1>2

LEMMA OnwardFacts ==
    ASSUME Flow, RestTyped, Onward
    PROVE  /\ step' \in Going
           /\ UNCHANGED <<program, eventIds, broken, connected, localAuth, events,
                          accepted, heard, acked, interrupted>>
  <1>1. UNCHANGED <<program, eventIds, broken, connected, localAuth, events,
                    accepted, heard, acked, interrupted>>
    BY DEF Onward, TakeAnswer, TakeWifi, TakeStatus, TakeError, Timeout, WriteFails,
           calm, history
  <1> SUFFICES step' \in Going
    BY <1>1
  <1>2. \A how : Fail(how) => step' \in Going
    BY DEF Fail, Leave, Going
  <1>3. \A asked \in Asking : Ask(asked) => step' \in Going
    BY DEF Ask, Going, Waiting
  <1>4. CASE TakeAnswer
    <2>1. 1 \in 1..(Len(program) + 1)
      BY ProgramFacts, SessionAssumption
    <2>2. step = "auth" /\ request.value # "false" => step' \in Going
      BY <1>4, <2>1, StartGoesOn DEF TakeAnswer
    <2>3. step \in {"answer", "set_start"} => step' \in Going
      <3>1. step \in {"answer", "set_start"} => step \in Working
        BY DEF Working, Waiting, Asking
      <3> QED
        BY <1>4, <3>1, ConcludeGoesOn DEF TakeAnswer
    <2>4. step \in {"get_auth", "set_auth"} => step' \in Going
      <3>1. "set_auth" \in Asking /\ "set_start" \in Asking
        BY DEF Asking
      <3> QED
        BY <1>2, <1>3, <1>4, <3>1 DEF TakeAnswer, AfterLocalAuth
    <2>5. step = "trigger" => step' \in Going
      BY <1>4 DEF TakeAnswer, Going, Waiting
    <2>6. step = "auth" /\ request.value = "false" => step' \in Going
      BY <1>2, <1>4 DEF TakeAnswer
    <2>7. step \in Asking \ {"wifi"}
      BY <1>4 DEF TakeAnswer
    <2> QED
      BY <2>2, <2>3, <2>4, <2>5, <2>6, <2>7 DEF Asking
  <1>5. CASE TakeWifi \/ TakeStatus \/ (step = "status" /\ Conclude(request.value))
    <2>1. step \in Working
      BY <1>5 DEF TakeWifi, TakeStatus, Working, Waiting, Asking
    <2>2. \A value : Conclude(value) => step' \in Going
      BY <2>1, ConcludeGoesOn
    <2>3. \/ \E value : Conclude(value)
          \/ Fail("protocol")
          \/ step' = "status"
      BY <1>5 DEF TakeWifi, TakeStatus
    <2> QED
      BY <1>2, <2>2, <2>3 DEF Going, Waiting
  <1>6. CASE TakeError \/ WriteFails
    BY <1>2, <1>6, RaiseGoesOn DEF TakeError, WriteFails
  <1>7. CASE Timeout
    BY <1>2, <1>5, <1>7, RaiseGoesOn DEF Timeout
  <1> QED
    BY <1>4, <1>5, <1>6, <1>7 DEF Onward

LEMMA AcknowledgedFacts ==
    ASSUME RestTyped, IdsFit, NEW m \in Markers, Acknowledged(m), events' = events
    PROVE  /\ eventIds' \in [Markers -> 0..MaxEvents] /\ acked' \in Seq(1..MaxEvents)
           /\ IdsFit'
  <1>1. CASE eventIds[m] = 0
    BY <1>1 DEF Acknowledged, RestTyped, IdsFit, EventAckedOnce, IsInjective
  <1>2. CASE eventIds[m] # 0
    <2> DEFINE id == eventIds[m]
    <2>1. acked' = Append(acked, id) /\ eventIds' = [eventIds EXCEPT ![m] = 0]
      BY <1>2 DEF Acknowledged
    <2>2. id \in 1..MaxEvents /\ MaxEvents \in Nat /\ acked \in Seq(1..MaxEvents)
          /\ eventIds \in [Markers -> 0..MaxEvents] /\ events \in Nat
      BY <1>2, SessionAssumption DEF RestTyped
    <2>3. id <= events
      BY DEF IdsFit
    <2>4. \A n \in Markers : n # m => id # eventIds[n]
      BY <1>2 DEF IdsFit
    <2>5. \A k \in DOMAIN acked : acked[k] # id
      BY DEF IdsFit
    <2> HIDE DEF id
    <2>6. /\ acked' \in Seq(1..MaxEvents) /\ Len(acked') = Len(acked) + 1
          /\ \A k \in 1..Len(acked) : acked'[k] = acked[k]
          /\ acked'[Len(acked) + 1] = id
      BY <2>1, <2>2, AppendProperties
    <2>7. \A k \in DOMAIN acked' :
            \/ k \in DOMAIN acked /\ acked'[k] = acked[k]
            \/ k = Len(acked) + 1 /\ acked'[k] = id
      <3>1. /\ DOMAIN acked' = 1..Len(acked') /\ DOMAIN acked = 1..Len(acked)
            /\ Len(acked) \in Nat
        BY <2>2, <2>6
      <3> QED
        BY <2>6, <3>1
    <2>8. eventIds' \in [Markers -> 0..MaxEvents]
      BY <2>1, <2>2
    <2>9. \A n \in Markers : eventIds'[n] = 0 \/ (n # m /\ eventIds'[n] = eventIds[n])
      BY <2>1, <2>2
    <2>10. \A n \in Markers : eventIds'[n] <= events'
      BY <2>2, <2>9 DEF IdsFit
    <2>11. \A n, o \in Markers : eventIds'[n] = eventIds'[o] /\ n # o => eventIds'[n] = 0
      BY <2>9 DEF IdsFit
    <2>12. \A k \in DOMAIN acked' : acked'[k] <= events'
      BY <2>3, <2>7 DEF IdsFit
    <2>13. \A k \in DOMAIN acked' : \A n \in Markers : acked'[k] # eventIds'[n]
      <3> SUFFICES ASSUME NEW k \in DOMAIN acked', NEW n \in Markers
                   PROVE  acked'[k] # eventIds'[n]
        OBVIOUS
      <3>1. acked'[k] \in 1..MaxEvents
        <4>1. \A j \in DOMAIN acked : acked[j] \in 1..MaxEvents
          BY <2>2
        <4> QED
          BY <2>2, <2>7, <4>1
      <3>2. CASE eventIds'[n] = 0
        BY <2>2, <3>1, <3>2
      <3>3. CASE n # m /\ eventIds'[n] = eventIds[n]
        BY <2>4, <2>7, <3>3 DEF IdsFit
      <3> QED
        BY <2>9, <3>2, <3>3
    <2>14. EventAckedOnce'
      <3> SUFFICES ASSUME NEW j \in DOMAIN acked', NEW k \in DOMAIN acked',
                          acked'[j] = acked'[k]
                   PROVE  j = k
        BY DEF EventAckedOnce, IsInjective
      <3> QED
        BY <2>5, <2>7 DEF IdsFit, EventAckedOnce, IsInjective
    <2> QED
      BY <2>6, <2>8, <2>10, <2>11, <2>12, <2>13, <2>14 DEF IdsFit
  <1> QED
    BY <1>1, <1>2

LEMMA HeardFacts ==
    ASSUME RestTyped, IdsFit, Event
    PROVE  /\ eventIds' \in [Markers -> 0..MaxEvents] /\ events' \in 0..MaxEvents
           /\ heard' \subseteq Markers
           /\ IdsFit'
  <1>1. /\ events' = events + 1 /\ events < MaxEvents /\ acked' = acked
        /\ events \in Nat /\ MaxEvents \in Nat
        /\ eventIds \in [Markers -> 0..MaxEvents] /\ acked \in Seq(1..MaxEvents)
    BY SessionAssumption DEF Event, RestTyped
  <1>2. events' \in 0..MaxEvents
    BY <1>1
  <1>3. CASE eventIds' = eventIds
    <2>1. IdsFit'
      BY <1>1, <1>3 DEF IdsFit, EventAckedOnce, IsInjective
    <2>2. heard' \subseteq Markers
      BY DEF Event, RestTyped
    <2> QED
      BY <1>1, <1>2, <1>3, <2>1, <2>2
  <1>4. CASE eventIds' # eventIds
    <2>1. PICK m \in Markers : /\ eventIds' = [eventIds EXCEPT ![m] = events + 1]
                               /\ heard' = heard \cup {m}
      BY <1>4 DEF Event
    <2>2. \A n \in Markers : \/ n = m /\ eventIds'[n] = events + 1
                             \/ n # m /\ eventIds'[n] = eventIds[n]
      BY <1>1, <2>1
    <2>3. eventIds' \in [Markers -> 0..MaxEvents]
      BY <1>1, <2>1
    <2>4. heard' \subseteq Markers
      BY <2>1 DEF RestTyped
    <2>5. \A n \in Markers : eventIds[n] \in Nat /\ eventIds[n] <= events
      BY <1>1 DEF IdsFit
    <2>6. \A n \in Markers : eventIds'[n] <= events'
      BY <1>1, <2>2, <2>5
    <2>7. \A n, o \in Markers : eventIds'[n] = eventIds'[o] /\ n # o => eventIds'[n] = 0
      <3> SUFFICES ASSUME NEW n \in Markers, NEW o \in Markers, n # o,
                          eventIds'[n] = eventIds'[o]
                   PROVE  eventIds'[n] = 0
        OBVIOUS
      <3>1. n # m /\ o # m
        BY <1>1, <2>2, <2>5
      <3> QED
        BY <2>2, <3>1 DEF IdsFit
    <2>8. \A k \in DOMAIN acked : acked[k] \in Nat /\ acked[k] <= events
      BY <1>1 DEF IdsFit
    <2>9. \A k \in DOMAIN acked : acked[k] <= events'
      BY <1>1, <2>8
    <2>10. \A k \in DOMAIN acked : \A n \in Markers : acked[k] # eventIds'[n]
      <3> SUFFICES ASSUME NEW k \in DOMAIN acked, NEW n \in Markers
                   PROVE  acked[k] # eventIds'[n]
        OBVIOUS
      <3>1. CASE eventIds'[n] = events + 1
        BY <1>1, <2>8, <3>1
      <3>2. CASE eventIds'[n] = eventIds[n]
        BY <3>2 DEF IdsFit
      <3> QED
        BY <2>2, <3>1, <3>2
    <2>11. EventAckedOnce'
      BY <1>1 DEF IdsFit, EventAckedOnce, IsInjective
    <2> QED
      BY <1>1, <1>2, <2>3, <2>4, <2>6, <2>7, <2>9, <2>10, <2>11 DEF IdsFit
  <1> QED
    BY <1>3, <1>4

\* An event's id that could not be answered is gone.
LEMMA UnackedFacts ==
    ASSUME RestTyped, IdsFit, NEW m \in Markers,
           eventIds' = [eventIds EXCEPT ![m] = 0], UNCHANGED <<events, acked>>
    PROVE  eventIds' \in [Markers -> 0..MaxEvents] /\ IdsFit'
  <1>1. /\ eventIds \in [Markers -> 0..MaxEvents] /\ MaxEvents \in Nat /\ events \in Nat
        /\ acked \in Seq(1..MaxEvents)
    BY SessionAssumption DEF RestTyped
  <1>2. eventIds' \in [Markers -> 0..MaxEvents]
    BY <1>1
  <1>3. \A n \in Markers : eventIds'[n] = 0 \/ (n # m /\ eventIds'[n] = eventIds[n])
    BY <1>1
  <1>4. \A n \in Markers : eventIds'[n] <= events'
    BY <1>1, <1>3 DEF IdsFit
  <1>5. \A n, o \in Markers : eventIds'[n] = eventIds'[o] /\ n # o => eventIds'[n] = 0
    BY <1>3 DEF IdsFit
  <1>6. \A k \in DOMAIN acked' : \A n \in Markers : acked'[k] # eventIds'[n]
    <2>1. \A k \in DOMAIN acked : acked[k] \in 1..MaxEvents
      BY <1>1
    <2>2. \A k \in DOMAIN acked : acked[k] # 0
      BY <1>1, <2>1
    <2> QED
      BY <1>3, <2>2 DEF IdsFit
  <1>7. EventAckedOnce' /\ \A k \in DOMAIN acked' : acked'[k] <= events'
    BY DEF IdsFit, EventAckedOnce, IsInjective
  <1> QED
    BY <1>2, <1>4, <1>5, <1>6, <1>7 DEF IdsFit

LEMMA TakenFacts ==
    ASSUME Flow, RestTyped, IdsFit, TakeEvent
    PROVE  /\ step' \in Going
           /\ eventIds' \in [Markers -> 0..MaxEvents] /\ acked' \in Seq(1..MaxEvents)
           /\ IdsFit'
  <1>1. marker.name \in Markers /\ events' = events /\ step \in Working
    BY DEF Flow, FlowTyped, TakeEvent, Working, Waiting, Asking
  <1>2. CASE Acknowledged(marker.name) /\ Conclude("event")
    BY <1>1, <1>2, AcknowledgedFacts, ConcludeGoesOn
  <1>3. CASE /\ eventIds' = [eventIds EXCEPT ![marker.name] = 0] /\ acked' = acked
             /\ Fail("connection")
    <2>1. step' \in Going
      BY <1>3 DEF Fail, Leave, Going
    <2>2. acked' \in Seq(1..MaxEvents)
      BY <1>3 DEF RestTyped
    <2> QED
      BY <1>1, <1>3, <2>1, <2>2, UnackedFacts
  <1>4. CASE Raise("protocol") /\ UNCHANGED <<eventIds, acked>>
    <2>1. IdsFit'
      BY <1>1, <1>4 DEF IdsFit, EventAckedOnce, IsInjective
    <2> QED
      BY <1>4, <2>1, RaiseGoesOn DEF RestTyped
  <1> QED
    BY <1>2, <1>3, <1>4 DEF TakeEvent

-----------------------------------------------------------------------------
LEMMA InitHolds == Init => IInv
  <1> SUFFICES ASSUME Init
               PROVE  IInv
    OBVIOUS
  <1>1. MaxOps \in Nat \ {0} /\ MaxEvents \in Nat
    BY SessionAssumption
  <1>2. FlowTyped
    BY <1>1 DEF Init, FlowTyped, Steps, Asking, NoRequest, NoMarker, States, Values,
                Markers, Outcomes
  <1>3. RestTyped
    <2>1. eventIds \in [Markers -> 0..MaxEvents] /\ events \in 0..MaxEvents
      BY <1>1 DEF Init
    <2>2. program \in UNION {[1..n -> Kinds] : n \in 1..MaxOps}
      BY DEF Init
    <2>3. /\ broken \in BOOLEAN /\ connected \in BOOLEAN /\ localAuth \in BOOLEAN
          /\ interrupted \in BOOLEAN
      BY DEF Init
    <2>4. accepted \subseteq RequestIds /\ heard \subseteq Markers
      BY DEF Init
    <2>5. acked \in Seq(1..MaxEvents)
      BY DEF Init
    <2> QED
      BY <2>1, <2>2, <2>3, <2>4, <2>5 DEF RestTyped
  <1>4. Len(program) \in Nat
    BY <1>1, <1>3, ProgramFacts
  <1>5. Position /\ KindFits /\ MarkerFits
    BY <1>1, <1>4 DEF Init, Position, KindFits, MarkerFits, Working, Waiting, Asking,
                      NoMarker
  <1>6. RequestFits /\ AutoStartFits /\ ResultsAreAnswered
    BY <1>1 DEF Init, RequestFits, AutoStartFits, AutoStartPrecondition,
                ResultsAreAnswered, Waiting, Asking, NoRequest
  <1>7. IdsFit
    BY <1>1 DEF Init, IdsFit, EventAckedOnce, IsInjective
  <1>8. LinkFits
    BY DEF Init, LinkFits, LinkReleased
  <1> QED
    BY <1>2, <1>3, <1>5, <1>6, <1>7, <1>8 DEF IInv, Flow

\* One step per action: the ids of events, and the link.
LEMMA RestHolds ==
    ASSUME Flow, RestTyped, IdsFit, LinkFits, [Next]_vars
    PROVE  RestTyped' /\ IdsFit' /\ LinkFits'
  <1>1. CASE Onward
    <2>1. step' \in Going /\ UNCHANGED <<program, eventIds, broken, connected, localAuth,
                                         events, accepted, heard, acked, interrupted>>
      BY <1>1, OnwardFacts
    <2>2. step' # "over" /\ step' # "connect"
      BY <2>1 DEF Going, Waiting, Asking
    <2> QED
      BY <2>1, <2>2 DEF RestTyped, IdsFit, EventAckedOnce, IsInjective, LinkFits,
                        LinkReleased
  <1>2. CASE TakeEvent
    <2>1. UNCHANGED <<program, broken, connected, localAuth, events, accepted, heard,
                      interrupted>>
      BY <1>2 DEF TakeEvent
    <2>2. step' # "over" /\ step' # "connect"
      BY <1>2, TakenFacts DEF Going, Waiting, Asking
    <2>3. RestTyped'
      BY <1>2, <2>1, TakenFacts DEF RestTyped
    <2> QED
      BY <1>2, <2>1, <2>2, <2>3, TakenFacts DEF LinkFits, LinkReleased
  <1>3. CASE Event
    <2>1. UNCHANGED <<program, progress, broken, connected, localAuth, accepted, acked,
                      interrupted>>
      BY <1>3 DEF Event
    <2>2. RestTyped' /\ IdsFit'
      BY <1>3, <2>1, HeardFacts DEF RestTyped
    <2> QED
      BY <2>1, <2>2 DEF LinkFits, LinkReleased, progress
  <1>4. CASE Accept
    <2>1. /\ UNCHANGED <<program, progress, eventIds, broken, connected, events, heard,
                         acked, interrupted>>
          /\ \E q \in unanswered : /\ accepted' = accepted \cup {q.id}
                                   /\ localAuth' = (localAuth \/ q.asked = "set_auth")
      BY <1>4 DEF Accept
    <2>2. accepted' \subseteq RequestIds /\ localAuth' \in BOOLEAN
      BY <2>1 DEF Flow, FlowTyped, RestTyped
    <2> QED
      BY <2>1, <2>2 DEF RestTyped, IdsFit, EventAckedOnce, IsInjective, LinkFits,
                        LinkReleased, progress
  <1>5. CASE Refuse
    BY <1>5 DEF Refuse, progress, history, RestTyped, IdsFit, EventAckedOnce,
                IsInjective, LinkFits, LinkReleased
  <1>6. CASE Undecodable
    <2>1. /\ UNCHANGED <<program, progress, eventIds, connected, localAuth, events,
                         accepted, heard, acked, interrupted>>
          /\ broken' \in BOOLEAN
      BY <1>6 DEF Undecodable, charger, history, RestTyped
    <2> QED
      BY <2>1 DEF RestTyped, IdsFit, EventAckedOnce, IsInjective, LinkFits,
                  LinkReleased, progress
  <1>7. CASE Connect
    <2>1. /\ UNCHANGED <<program, eventIds, broken, localAuth, events, accepted, heard,
                         acked, interrupted>>
          /\ connected' \in BOOLEAN
      BY <1>7 DEF Connect, history, RestTyped
    <2>2. LinkFits'
      BY <1>7 DEF Connect, Ask, Fail, Leave, LinkFits, LinkReleased
    <2> QED
      BY <2>1, <2>2 DEF RestTyped, IdsFit, EventAckedOnce, IsInjective
  <1>8. CASE CleanUp \/ Cancel \/ LinkLost
    <2>1. /\ UNCHANGED <<program, eventIds, broken, localAuth, events, accepted, heard,
                         acked>>
          /\ connected' \in BOOLEAN /\ interrupted' \in BOOLEAN
      BY <1>8 DEF CleanUp, Cancel, LinkLost, router, charger, history, RestTyped, Fail
    <2>2. LinkFits'
      BY <1>8 DEF CleanUp, Cancel, LinkLost, Fail, Leave, LinkFits, LinkReleased,
                  progress, history
    <2> QED
      BY <2>1, <2>2 DEF RestTyped, IdsFit, EventAckedOnce, IsInjective
  <1>9. CASE UNCHANGED vars
    BY <1>9 DEF vars, progress, router, charger, history, RestTyped, IdsFit,
                EventAckedOnce, IsInjective, LinkFits, LinkReleased
  <1> QED
    BY <1>1, <1>2, <1>3, <1>4, <1>5, <1>6, <1>7, <1>8, <1>9
       DEF Next, Resume, Charger, Onward

\* In every reachable state the flow of the session, the ids of events and the link
\* fit each other: the induction behind the theorems below.
THEOREM InvariantHolds == Spec => []IInv
  <1>1. IInv /\ [Next]_vars => IInv'
    BY FlowHolds, RestHolds DEF IInv
  <1> QED
    BY <1>1, InitHolds, PTL DEF Spec

-----------------------------------------------------------------------------
(***************************************************************************)
(* Theorems                                                                *)
(***************************************************************************)

\* For any operations and numbers the state of EVBoxClient.session and of its
\* _ResponseRouter is well formed.
THEOREM TypeCorrect == Spec => []TypeOK
  <1>1. IInv => TypeOK
    <2> SUFFICES ASSUME IInv
                 PROVE  TypeOK
      OBVIOUS
    <2>1. sent \in {0} \cup RequestIds
      BY SessionAssumption DEF IInv, Flow, FlowTyped, RequestIds
    <2> QED
      BY <2>1 DEF IInv, Flow, FlowTyped, RestTyped, TypeOK, Result, Outcomes
  <1> QED
    BY <1>1, InvariantHolds, PTL

\* What an operation of the session returned was answered to it (_ResponseRouter
\* and _send_and_wait of client.py).
THEOREM ResultsBelongToRequests == Spec => []ResultsAreAnswered
  <1>1. IInv => ResultsAreAnswered
    BY DEF IInv, Flow
  <1> QED
    BY <1>1, InvariantHolds, PTL

\* async_set_auto_start writes AutoStart behind an enabled local list only.
THEOREM PreconditionHolds == Spec => []AutoStartPrecondition
  <1>1. IInv => AutoStartPrecondition
    BY DEF IInv, Flow, AutoStartFits
  <1> QED
    BY <1>1, InvariantHolds, PTL

\* _acknowledge_event answers no event a second time.
THEOREM AcknowledgedOnce == Spec => []EventAckedOnce
  <1>1. IInv => EventAckedOnce
    BY DEF IInv, IdsFit
  <1> QED
    BY <1>1, InvariantHolds, PTL

\* The finally clause of EVBoxClient.session gives the link back.
THEOREM LinkIsReleased == Spec => []LinkReleased
  <1>1. IInv => LinkReleased
    BY DEF IInv, LinkFits
  <1> QED
    BY <1>1, InvariantHolds, PTL

\* An operation's result is the new one.
LEMMA ConcludeAdds ==
    ASSUME Flow, RestTyped, step \in Working, NEW value, Conclude(value)
    PROVE  \A k \in DOMAIN results' \ DOMAIN results : k = at /\ results'[k].value = value
  <1> DEFINE r == [id |-> request.id, value |-> value]
  <1>1. results' = Append(results, r) /\ results \in Seq(Result)
    BY DEF Conclude, Flow, FlowTyped
  <1>2. Len(results) = at - 1 /\ at \in Nat
    BY WorkingFacts, ProgramFacts
  <1>3. r.value = value
    OBVIOUS
  <1> HIDE DEF r
  <1>4. /\ DOMAIN results' = 1..(Len(results) + 1) /\ DOMAIN results = 1..Len(results)
        /\ results'[Len(results) + 1] = r
    BY <1>1
  <1> QED
    BY <1>2, <1>3, <1>4

LEMMA RaiseAdds ==
    ASSUME Flow, RestTyped, NEW error, Raise(error)
    PROVE  \A k \in DOMAIN results' \ DOMAIN results : results'[k].value = "none"
  <1>1. CASE Tolerated(error)
    <2>1. step \in Working
      BY <1>1 DEF Tolerated, Working, Waiting, Asking
    <2> QED
      BY <1>1, <2>1, ConcludeAdds DEF Raise
  <1>2. CASE ~Tolerated(error)
    BY <1>2 DEF Raise, Fail
  <1> QED
    BY <1>1, <1>2

\* _async_set_wifi reports a bare acceptance after the wait for the notification only.
THEOREM NotificationIsAwaited == Spec => NotificationAwaited
  <1> DEFINE Awaited == \A k \in DOMAIN results' \ DOMAIN results :
                          program[k] = "wifi_set" /\ results'[k].value = "accepted"
                          => step = "status"
  <1>1. IInv /\ [Next]_vars => Awaited
    <2> SUFFICES ASSUME Flow, RestTyped, [Next]_vars,
                        NEW k \in DOMAIN results' \ DOMAIN results,
                        program[k] = "wifi_set", results'[k].value = "accepted",
                        step # "status"
                 PROVE  FALSE
      BY DEF IInv
    <2>1. results' # results
      OBVIOUS
    <2>2. ~\E error : Raise(error)
      BY RaiseAdds
    <2>3. ~\E how : Fail(how)
      BY <2>1 DEF Fail
    <2>4. \A value : step \in Working /\ Conclude(value) =>
            step = "wifi" /\ value = "accepted"
      <3> SUFFICES ASSUME NEW value, step \in Working, Conclude(value)
                   PROVE  step = "wifi" /\ value = "accepted"
        OBVIOUS
      <3>1. k = at /\ value = "accepted"
        BY ConcludeAdds
      <3>2. program[at] = "wifi_set"
        BY <3>1
      <3> QED
        BY <3>1, <3>2 DEF Flow, KindFits, Working, Waiting, Asking
    <2>5. ~TakeAnswer
      <3> SUFFICES ASSUME TakeAnswer
                   PROVE  FALSE
        OBVIOUS
      <3>1. step \in Asking \ {"wifi"}
        BY DEF TakeAnswer
      <3>2. step \in {"answer", "set_start"}
        BY <2>1, <2>3, <3>1 DEF TakeAnswer, AfterLocalAuth, Asking
      <3>3. Conclude(request.value) /\ step \in Working
        BY <3>2 DEF TakeAnswer, Working, Waiting, Asking
      <3> QED
        BY <2>4, <3>2, <3>3
    <2>6. ~TakeWifi
      <3> SUFFICES ASSUME TakeWifi
                   PROVE  FALSE
        OBVIOUS
      <3>1. step \in Working
        BY DEF TakeWifi, Working, Waiting, Asking
      <3>2. ~Conclude("event") /\ ~Conclude("state")
        BY <2>4, <3>1
      <3> QED
        BY <2>1, <2>3, <3>2 DEF TakeWifi
    <2>7. ~TakeEvent
      <3> SUFFICES ASSUME TakeEvent
                   PROVE  FALSE
        OBVIOUS
      <3>1. ~Conclude("event")
        BY <2>4 DEF TakeEvent, Working, Waiting, Asking
      <3> QED
        BY <2>2, <2>3, <3>1 DEF TakeEvent
    <2>8. ~TakeStatus /\ ~TakeError /\ ~Timeout /\ ~WriteFails
      BY <2>2, <2>3 DEF TakeStatus, TakeError, Timeout, WriteFails
    <2>9. Connect \/ CleanUp \/ Cancel \/ Charger \/ UNCHANGED vars
      BY <2>5, <2>6, <2>7, <2>8 DEF Next, Resume
    <2> QED
      BY <2>1, <2>3, <2>9
         DEF Connect, CleanUp, Cancel, Charger, Accept, Refuse, Event, Undecodable,
             LinkLost, progress, vars
  <1>2. IInv /\ [Next]_vars => [Awaited]_vars
    BY <1>1
  <1> QED
    BY <1>2, InvariantHolds, PTL DEF Spec, NotificationAwaited

-----------------------------------------------------------------------------
(***************************************************************************)
(* How a session comes to its end.  That it ends under fairness is for     *)
(* TLC; proved is what makes it end: wherever its task waits, a timer or   *)
(* what it waits for is there, no step takes it back, and it calls itself  *)
(* finished only with a result of every operation.                         *)
(***************************************************************************)

\* How far an operation, and the session after its last, has got
StepRank(s) ==
    CASE s = "connect" -> 0
      [] s \in {"auth", "answer", "wifi", "trigger", "get_auth"} -> 1
      [] s \in {"set_auth", "status", "event"} -> 2
      [] s = "set_start" -> 3
      [] s = "cleanup" -> 4
      [] s = "over" -> 5

\* The steps of the session's own task
Task == Connect \/ Resume \/ Timeout \/ WriteFails \/ CleanUp \/ Cancel

\* The ways its task goes on: the session fails; the next operation starts, after the
\* authentication or after a result; the operation asks for more; it waits for its
\* event; the session is over.
FailsNow == \E how \in Outcomes \ {"ok", "none"} : Fail(how)

NextStarts ==
    /\ step \in Waiting /\ at + 1 \in 1..(Len(program) + 1)
    /\ Start(at + 1)
    /\ \/ step = "auth" /\ results' = results
       \/ step \in Working /\ \E value \in Values \cup {"event", "none"} : Conclude(value)

AsksMore ==
    /\ \/ step = "connect" /\ Ask("auth")
       \/ step = "get_auth" /\ Ask("set_auth")
       \/ step \in {"get_auth", "set_auth"} /\ Ask("set_start")
    /\ UNCHANGED <<at, results, outcome>>

AwaitsEvent ==
    /\ \/ step = "wifi" /\ step' = "status"
       \/ step = "trigger" /\ step' = "event"
    /\ UNCHANGED <<at, results, outcome>>

Ends ==
    /\ step' = "over" /\ UNCHANGED <<at, results>>
    /\ \/ step = "connect" /\ outcome' = "connection"
       \/ step = "cleanup" /\ outcome' \in {outcome, "cancelled"}

Moves == FailsNow \/ NextStarts \/ AsksMore \/ AwaitsEvent \/ Ends

LEMMA ConcludeMoves ==
    ASSUME Flow, RestTyped, step \in Working,
           NEW value \in Values \cup {"event", "none"}, Conclude(value)
    PROVE  NextStarts
  <1>1. at + 1 \in 1..(Len(program) + 1)
    BY WorkingFacts, ProgramFacts
  <1>2. step \in Waiting
    BY DEF Working
  <1> QED
    BY <1>1, <1>2 DEF NextStarts, Conclude

LEMMA RaiseMoves ==
    ASSUME Flow, RestTyped, NEW error \in {"timeout", "protocol"}, Raise(error)
    PROVE  Moves
  <1>1. CASE Tolerated(error)
    <2>1. step \in Working
      BY <1>1 DEF Tolerated, Working, Waiting, Asking
    <2> QED
      BY <1>1, <2>1, ConcludeMoves DEF Raise, Moves
  <1>2. CASE ~Tolerated(error)
    BY <1>2 DEF Raise, Moves, FailsNow, Outcomes
  <1> QED
    BY <1>1, <1>2

\* Each step of the session's task is one of these.
LEMMA TaskMoves ==
    ASSUME Flow, RestTyped, Task
    PROVE  Moves
  <1>v. request.value \in Values
    BY DEF Flow, FlowTyped
  <1>f. \A how \in Outcomes \ {"ok", "none"} : Fail(how) => Moves
    BY DEF Moves, FailsNow
  <1>c. \A value \in Values \cup {"event", "none"} :
           step \in Working /\ Conclude(value) => Moves
    BY ConcludeMoves DEF Moves
  <1>1. CASE Connect
    <2>1. \/ Ask("auth") /\ UNCHANGED <<at, results, outcome>>
          \/ step' = "over" /\ outcome' = "connection" /\ UNCHANGED <<at, results>>
          \/ Fail("connection")
      BY <1>1 DEF Connect
    <2>2. step = "connect"
      BY <1>1 DEF Connect
    <2> QED
      BY <1>f, <2>1, <2>2 DEF Moves, AsksMore, Ends, Outcomes
  <1>2. CASE TakeAnswer
    <2>1. step \in Asking \ {"wifi"}
      BY <1>2 DEF TakeAnswer
    <2>2. CASE step = "auth" /\ request.value = "false"
      BY <1>2, <1>f, <2>2 DEF TakeAnswer, Outcomes
    <2>3. CASE step = "auth" /\ request.value # "false"
      <3>1. Start(1) /\ results' = results /\ at = 0
        BY <1>2, <2>3 DEF TakeAnswer, Flow, Position
      <3>2. at + 1 = 1 /\ 1 \in 1..(Len(program) + 1)
        BY <3>1, ProgramFacts, SessionAssumption
      <3>3. step \in Waiting
        BY <2>1 DEF Waiting
      <3> QED
        BY <2>3, <3>1, <3>2, <3>3 DEF Moves, NextStarts
    <2>4. CASE step \in {"answer", "set_start"}
      <3>1. Conclude(request.value) /\ step \in Working
        BY <1>2, <2>4 DEF TakeAnswer, Working, Waiting, Asking
      <3> QED
        BY <1>c, <1>v, <3>1
    <2>5. CASE step = "get_auth"
      <3>1. AfterLocalAuth
        BY <1>2, <2>5 DEF TakeAnswer
      <3>2. CASE request.value = "missing"
        BY <1>f, <3>1, <3>2 DEF AfterLocalAuth, Outcomes
      <3>3. CASE request.value # "missing"
        <4>1. /\ Ask("set_auth") \/ Ask("set_start")
              /\ UNCHANGED <<at, results, outcome>>
          BY <3>1, <3>3 DEF AfterLocalAuth
        <4> QED
          BY <2>5, <4>1 DEF Moves, AsksMore
      <3> QED
        BY <3>2, <3>3
    <2>6. CASE step = "set_auth"
      <3>1. Ask("set_start") /\ UNCHANGED <<at, results, outcome>>
        BY <1>2, <2>6 DEF TakeAnswer
      <3> QED
        BY <2>6, <3>1 DEF Moves, AsksMore
    <2>7. CASE step = "trigger"
      <3>1. step' = "event" /\ UNCHANGED <<at, results, outcome>>
        BY <1>2, <2>7 DEF TakeAnswer
      <3> QED
        BY <2>7, <3>1 DEF Moves, AwaitsEvent
    <2> QED
      BY <2>1, <2>2, <2>3, <2>4, <2>5, <2>6, <2>7 DEF Asking
  <1>3. CASE TakeWifi \/ TakeStatus
    <2>1. step \in {"wifi", "status"} /\ step \in Working
      BY <1>3 DEF TakeWifi, TakeStatus, Working, Waiting, Asking
    <2>2. \/ \E value \in Values \cup {"event", "none"} : Conclude(value)
          \/ Fail("protocol")
          \/ /\ step = "wifi" /\ step' = "status"
             /\ UNCHANGED <<at, results, outcome>>
      BY <1>3 DEF TakeWifi, TakeStatus, Values
    <2> QED
      BY <1>c, <1>f, <2>1, <2>2 DEF Moves, AwaitsEvent, Outcomes
  <1>4. CASE TakeEvent
    <2>1. step \in Working
      BY <1>4 DEF TakeEvent, Working, Waiting, Asking
    <2>2. Conclude("event") \/ Fail("connection") \/ Raise("protocol")
      BY <1>4 DEF TakeEvent
    <2> QED
      BY <1>c, <1>f, <2>1, <2>2, RaiseMoves DEF Outcomes
  <1>5. CASE TakeError \/ WriteFails
    BY <1>5, <1>f, RaiseMoves DEF TakeError, WriteFails, Outcomes
  <1>6. CASE Timeout
    <2>1. \/ Raise("timeout") \/ Fail("connection")
          \/ step = "status" /\ Conclude(request.value)
      BY <1>6 DEF Timeout
    <2>2. step = "status" => step \in Working
      BY DEF Working, Waiting
    <2> QED
      BY <1>c, <1>f, <1>v, <2>1, <2>2, RaiseMoves DEF Outcomes
  <1>7. CASE CleanUp
    BY <1>7 DEF CleanUp, Moves, Ends
  <1>8. CASE Cancel
    BY <1>8, <1>f DEF Cancel, Moves, Ends, Outcomes
  <1> QED
    BY <1>1, <1>2, <1>3, <1>4, <1>5, <1>6, <1>7, <1>8 DEF Task, Resume

\* The charger moves the task nowhere.
LEMMA ChargerStays ==
    ASSUME [Next]_vars, ~Task
    PROVE  /\ UNCHANGED <<program, at, step, results, outcome>>
           /\ Charger \/ UNCHANGED vars
  BY DEF Next, Task, Charger, Accept, Refuse, Event, Undecodable, LinkLost, progress, vars

\* An error that fails the pending request of a Wi-Fi change fails its marker, too, so
\* its task, which waits for either of them, notices it.
PairFits ==
    step = "wifi" =>
        /\ request.state # "none" /\ marker.state # "none"
        /\ request.state = "failed" => marker.state # "open"

\* Success means a result of every operation, and is called before the clean-up only.
SuccessFits ==
    /\ outcome # "none" => step \in {"cleanup", "over"}
    /\ outcome = "ok" => Len(results) = Len(program)

EndInv == IInv /\ PairFits /\ SuccessFits

LEMMA InitEnd == Init => EndInv
  <1>1. Init => PairFits /\ SuccessFits
    BY DEF Init, PairFits, SuccessFits
  <1> QED
    BY <1>1, InitHolds DEF EndInv

LEMMA PairHolds ==
    ASSUME Flow, RestTyped, PairFits, [Next]_vars
    PROVE  PairFits'
  <1>1. CASE Task
    <2>1. CASE NextStarts
      <3> DEFINE k == at + 1
      <3>1. k \in 1..(Len(program) + 1) /\ Start(k)
        BY <2>1 DEF NextStarts
      <3>2. CASE k > Len(program)
        BY <3>1, <3>2 DEF Start, Leave, PairFits
      <3>3. CASE ~(k > Len(program))
        <4>1. program[k] \in AllKinds
          <5>1. k \in 1..Len(program)
            BY <3>1, <3>3, ProgramFacts
          <5> QED
            BY <5>1, ProgramFacts
        <4>2. /\ step' = FirstStep(program[k]) /\ request'.state = "open"
              /\ marker' = IF MarkerOf(program[k]) = "none" THEN NoMarker
                           ELSE [name |-> MarkerOf(program[k]), state |-> "open"]
          BY <3>1, <3>3 DEF Start, Ask, NoRequest
        <4>3. step' = "wifi" => marker'.state = "open"
          BY <4>1, <4>2, NamesFit DEF MarkerOf
        <4> QED
          BY <4>2, <4>3 DEF PairFits
      <3> QED
        BY <3>2, <3>3
    <2>2. step' # "wifi" \/ NextStarts
      BY <1>1, TaskMoves
         DEF Moves, FailsNow, Fail, Leave, AsksMore, Ask, AwaitsEvent, Ends
    <2> QED
      BY <2>1, <2>2 DEF PairFits
  <1>2. CASE ~Task
    <2>1. step' = step /\ (Charger \/ UNCHANGED vars)
      BY <1>2, ChargerStays
    <2>2. request \in Request /\ marker \in [name: Markers, state: States]
      BY DEF Flow, FlowTyped, Request
    <2>3. ASSUME NEW by, Poison(by)
          PROVE  /\ request'.state # "none" \/ request.state = "none"
                 /\ marker'.state # "open" /\ (marker'.state # "none" \/ marker.state = "none")
      BY <2>2, <2>3 DEF Poison, Request
    <2>4. ASSUME NEW id, NEW value, request' = Routed(id, value)
          PROVE  /\ request'.state # "none" \/ request.state = "none"
                 /\ request'.state = "failed" => request.state = "failed"
      BY <2>2, <2>4 DEF Routed, Request
    <2>5. CASE UNCHANGED <<request, marker>>
      BY <2>1, <2>5 DEF PairFits
    <2>6. CASE \E by : Poison(by)
      BY <2>1, <2>3, <2>6 DEF PairFits
    <2>7. CASE \E id, value : request' = Routed(id, value) /\ UNCHANGED marker
      BY <2>1, <2>4, <2>7 DEF PairFits
    <2>8. CASE /\ request' = request
               /\ marker' \in {marker, [marker EXCEPT !.state = "done"]}
      BY <2>1, <2>2, <2>8 DEF PairFits
    <2>9. Accept \/ Refuse \/ Event \/ Undecodable \/ LinkLost \/ UNCHANGED vars
      BY <2>1 DEF Charger
    <2>10. CASE Accept
      BY <2>6, <2>7, <2>10 DEF Accept
    <2>11. CASE Event
      BY <2>6, <2>8, <2>11 DEF Event
    <2> QED
      BY <2>5, <2>6, <2>9, <2>10, <2>11
         DEF Refuse, Undecodable, LinkLost, router, vars
  <1> QED
    BY <1>1, <1>2

LEMMA SuccessHolds ==
    ASSUME Flow, RestTyped, SuccessFits, [Next]_vars
    PROVE  SuccessFits'
  <1>1. CASE Task
    <2>p. program' = program
      BY <1>1 DEF Task, Connect, Resume, TakeAnswer, TakeWifi, TakeStatus, TakeEvent,
                  TakeError, Timeout, WriteFails, CleanUp, Cancel, calm
    <2>1. CASE FailsNow
      BY <2>1 DEF FailsNow, Fail, Leave, SuccessFits
    <2>2. CASE NextStarts
      <3>1. /\ step \in Waiting /\ Start(at + 1) /\ at + 1 \in 1..(Len(program) + 1)
            /\ Len(program) \in Nat
        BY <2>2, ProgramFacts, SessionAssumption DEF NextStarts
      <3>2. outcome = "none"
        BY <3>1 DEF SuccessFits, Waiting, Asking
      <3>3. CASE ~(at + 1 > Len(program))
        BY <3>1, <3>2, <3>3 DEF Start, SuccessFits
      <3>4. CASE at + 1 > Len(program)
        <4>i. at \in Nat
          BY SessionAssumption DEF Flow, FlowTyped
        <4>1. at = Len(program) /\ step' = "cleanup"
          BY <3>1, <3>4, <4>i DEF Start, Leave
        <4>2. Len(results') = at
          <5>1. CASE step = "auth"
            BY <4>1, <5>1, ProgramFacts, SessionAssumption DEF Flow, Position
          <5>2. CASE step # "auth"
            <6>1. step \in Working /\ \E value : Conclude(value)
              BY <2>2, <5>2 DEF NextStarts
            <6>2. Len(results) = at - 1 /\ at \in Nat /\ results \in Seq(Result)
              BY <6>1, WorkingFacts, ProgramFacts DEF Flow, FlowTyped
            <6>3. \E r : results' = Append(results, r)
              BY <6>1 DEF Conclude
            <6> QED
              BY <6>2, <6>3
          <5> QED
            BY <5>1, <5>2
        <4> QED
          BY <2>p, <4>1, <4>2 DEF SuccessFits
      <3> QED
        BY <3>3, <3>4
    <2>3. CASE AsksMore \/ AwaitsEvent
      <3>1. step \notin {"cleanup", "over"} /\ outcome' = outcome
        BY <2>3 DEF AsksMore, AwaitsEvent
      <3> QED
        BY <3>1 DEF SuccessFits
    <2>4. CASE Ends
      BY <2>p, <2>4 DEF Ends, SuccessFits
    <2> QED
      BY <1>1, <2>1, <2>2, <2>3, <2>4, TaskMoves DEF Moves
  <1>2. CASE ~Task
    BY <1>2, ChargerStays DEF SuccessFits
  <1> QED
    BY <1>1, <1>2

LEMMA EndHolds == Spec => []EndInv
  <1>1. EndInv /\ [Next]_vars => EndInv'
    BY FlowHolds, RestHolds, PairHolds, SuccessHolds DEF EndInv, IInv
  <1> QED
    BY <1>1, InitEnd, PTL DEF Spec

\* What the session's task waits for is there or a timer will end the wait: only the
\* wait of _async_set_wifi for two futures at once has no timer of its own any more
\* when one of them is complete.
Attended ==
    step = "wifi" =>
        \/ request.state = "open" /\ marker.state = "open"
        \/ marker.state \in {"done", "failed"}
        \/ request.state = "done"

\* Safety half of SessionEnds: the task never waits for a future that nobody will
\* complete, whatever errors, answers and events came in which order.
THEOREM NeverStuck == Spec => []Attended
  <1>1. EndInv => Attended
    BY DEF EndInv, IInv, Flow, FlowTyped, PairFits, Attended, States
  <1> QED
    BY <1>1, EndHolds, PTL

Complete == outcome = "ok" => Len(results) = Len(program)

\* EVBoxClient.session is left without an error only with a result of each operation.
THEOREM SuccessIsComplete == Spec => []Complete
  <1>1. EndInv => Complete
    BY DEF EndInv, SuccessFits, Complete
  <1> QED
    BY <1>1, EndHolds, PTL

\* A step of the session's task goes on within an operation or to the next one, and
\* what earlier operations returned stays.
GoesForward ==
    /\ \/ at' = at + 1
       \/ at' = at /\ StepRank(step') > StepRank(step)
    /\ results' = results \/ \E r : results' = Append(results, r)

\* A session never starts over: its task takes boundedly many steps, and the charger
\* and the link take none of them back.
THEOREM SessionAdvances ==
    Spec => [][IF Task THEN GoesForward ELSE UNCHANGED <<at, step, results>>]_vars
  <1>1. ASSUME Flow, RestTyped, Task
        PROVE  GoesForward
    <2>1. CASE FailsNow
      <3>1. step \in Waiting \cup {"connect"}
        BY <1>1, <2>1
           DEF FailsNow, Fail, Leave, Task, Connect, Resume, TakeAnswer, TakeWifi,
               TakeStatus, TakeEvent, TakeError, Timeout, WriteFails, CleanUp, Cancel,
               Waiting, Flow, FlowTyped, Steps
      <3>2. step' = "cleanup" /\ at' = at /\ results' = results
        BY <2>1 DEF FailsNow, Fail, Leave
      <3> QED
        BY <3>1, <3>2 DEF GoesForward, StepRank, Waiting, Asking
    <2>2. CASE NextStarts
      BY <2>2 DEF NextStarts, Start, Conclude, GoesForward
    <2>3. CASE AsksMore \/ AwaitsEvent
      BY <2>3 DEF AsksMore, AwaitsEvent, Ask, GoesForward, StepRank
    <2>4. CASE Ends
      BY <2>4 DEF Ends, GoesForward, StepRank
    <2> QED
      BY <1>1, <2>1, <2>2, <2>3, <2>4, TaskMoves DEF Moves
  <1>2. EndInv /\ [Next]_vars =>
          [IF Task THEN GoesForward ELSE UNCHANGED <<at, step, results>>]_vars
    BY <1>1, ChargerStays DEF EndInv, IInv
  <1> QED
    BY <1>2, EndHolds, PTL DEF Spec
=============================================================================
