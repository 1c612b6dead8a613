------------------------------ MODULE Session ------------------------------
(***************************************************************************)
(* One authenticated BLE session of client.py: EVBoxClient.session with    *)
(* its operations, and the _ResponseRouter that hands the charger's        *)
(* notifications to the request and the marker that wait for them.         *)
(*                                                                         *)
(* A session runs its operations one after the other, so at most one       *)
(* request and one marker are registered.  The charger answers whenever it *)
(* likes, late or never.  A notification completes a future; the session's *)
(* task goes on in a later step, and a timer may win over an answer that   *)
(* is already there.                                                       *)
(***************************************************************************)
EXTENDS Naturals, Sequences, Functions

CONSTANTS
    Kinds,      \* kinds of operation a session may run
    MaxOps,     \* operations in one session
    MaxEvents,  \* events the charger sends during a session
    Junk        \* undecodable input: "message" is skipped, "frame" stays

AllKinds ==
    {"required", "optional", "wifi_set", "connection_info", "rf_scan", "auto_start"}

ASSUME SessionAssumption ==
    /\ Kinds \subseteq AllKinds
    /\ MaxOps \in Nat \ {0}
    /\ MaxEvents \in Nat
    /\ Junk \subseteq {"message", "frame"}

VARIABLES
    program,     \* the operations of the session
    at,          \* the operation that runs; 0 is the authentication
    step,        \* what the session awaits
    sent,        \* number of requests sent; the last one is its request's id
    request,     \* the future in _pending
    marker,      \* the future in _markers
    results,     \* what the finished operations returned
    outcome,     \* how the session ends
    eventIds,    \* _event_message_ids
    broken,      \* does the decoder's buffer begin with an invalid frame?
    connected,   \* is the BLE link up?
    unanswered,  \* requests the charger has not answered
    localAuth,   \* LocalAuthListEnabled in the charger
    events,      \* number of events the charger sent
    accepted,    \* history: requests the charger accepted
    heard,       \* history: events the router took in
    acked,       \* history: events that were acknowledged, in order
    interrupted  \* history: the clean-up was cancelled or the link kept

router   == <<request, marker, eventIds, broken>>
charger  == <<unanswered, localAuth, events>>
progress == <<at, step, sent, results, outcome>>
history  == <<accepted, heard, acked, interrupted>>
vars == <<program, progress, router, connected, charger, history>>

-----------------------------------------------------------------------------
(***************************************************************************)
(* Types                                                                   *)
(***************************************************************************)

\* The steps that await the answer to a request; an operation has up to three.
Asking == {"auth", "answer", "wifi", "trigger", "get_auth", "set_auth", "set_start"}

Steps == Asking \cup {"connect", "status", "event", "cleanup", "over"}

RequestIds == 1..(3 * MaxOps + 1)

\* Payloads: a bare acceptance; a Wi-Fi status; a configuration value or none.
Values == {"accepted", "state", "true", "false", "missing"}

States == {"none", "open", "done", "failed"}

\* by: the request whose answer completed the future, 0 for anything else
NoRequest == [id |-> 0, state |-> "none", by |-> 0, value |-> "missing"]

Markers == {"none", "evbWifiStatusNotification", "evbConnectionInfo", "evbRFScan"}

NoMarker == [name |-> "none", state |-> "none"]

MarkerOf(kind) ==
    CASE kind = "wifi_set"        -> "evbWifiStatusNotification"
      [] kind = "connection_info" -> "evbConnectionInfo"
      [] kind = "rf_scan"         -> "evbRFScan"
      [] OTHER                    -> "none"

TypeOK ==
    /\ program \in UNION {[1..n -> Kinds] : n \in 1..MaxOps}
    /\ at \in 0..(MaxOps + 1)
    /\ step \in Steps
    /\ sent \in {0} \cup RequestIds
    /\ request \in [id: {0} \cup RequestIds, state: States,
                    by: {0} \cup RequestIds, value: Values]
    /\ marker \in [name: Markers, state: States]
    /\ results \in Seq([id: RequestIds, value: Values \cup {"event", "none"}])
    /\ outcome \in {"none", "ok", "auth", "protocol", "connection", "cancelled"}
    /\ eventIds \in [Markers -> 0..MaxEvents]
    /\ broken \in BOOLEAN
    /\ connected \in BOOLEAN
    /\ unanswered \subseteq [id: RequestIds, asked: Asking]
    /\ localAuth \in BOOLEAN
    /\ events \in 0..MaxEvents
    /\ accepted \subseteq RequestIds
    /\ heard \subseteq Markers
    /\ acked \in Seq(1..MaxEvents)
    /\ interrupted \in BOOLEAN

Init ==
    /\ program \in UNION {[1..n -> Kinds] : n \in 1..MaxOps}
    /\ at = 0 /\ step = "connect" /\ sent = 0
    /\ request = NoRequest /\ marker = NoMarker
    /\ results = << >> /\ outcome = "none"
    /\ eventIds = [m \in Markers |-> 0] /\ broken = FALSE
    /\ connected = FALSE
    /\ unanswered = {} /\ localAuth \in BOOLEAN /\ events = 0
    /\ accepted = {} /\ heard = {} /\ acked = << >> /\ interrupted = FALSE

-----------------------------------------------------------------------------
(***************************************************************************)
(* The router                                                              *)
(***************************************************************************)

\* Notifications arrive from the start of the session to its end.
Listening == connected /\ step \notin {"connect", "over"}

\* Mutant of Routed: the id of the answer is not looked at.
Routed_AnyPending(id, value) ==
    IF request.state = "open"
    THEN [request EXCEPT !.state = "done", !.by = id, !.value = value]
    ELSE request

\* An answer completes the pending request of its id.
Routed(id, value) ==
    IF request.state = "open" /\ request.id = id
    THEN [request EXCEPT !.state = "done", !.by = id, !.value = value]
    ELSE request

\* Any exception fails whatever is pending.
Poison(by) ==
    /\ request' = IF request.state = "open"
                  THEN [request EXCEPT !.state = "failed", !.by = by] ELSE request
    /\ marker' = IF marker.state = "open"
                 THEN [marker EXCEPT !.state = "failed"] ELSE marker

Payloads(asked) ==
    CASE asked = "auth"     -> {"accepted", "false"}
      [] asked = "wifi"     -> {"accepted", "state"}
      [] asked = "get_auth" -> {IF localAuth THEN "true" ELSE "false", "missing"}
      [] OTHER              -> {"accepted"}

\* The charger carries a request out and accepts it.
Accept ==
    /\ Listening
    /\ \E q \in unanswered :
          /\ unanswered' = unanswered \ {q}
          /\ accepted' = accepted \cup {q.id}
          /\ localAuth' = (localAuth \/ q.asked = "set_auth")
          /\ IF broken THEN Poison(0)
             ELSE /\ \E value \in Payloads(q.asked) : request' = Routed(q.id, value)
                  /\ UNCHANGED marker
    /\ UNCHANGED <<program, progress, eventIds, broken, connected, events, heard,
                   acked, interrupted>>

\* CALLERROR, or a status that is not Accepted: parse_response raises, and the id
\* in the message is not looked at.
Refuse ==
    /\ Listening
    /\ \E q \in unanswered :
          /\ unanswered' = unanswered \ {q}
          /\ Poison(IF broken THEN 0 ELSE q.id)
    /\ UNCHANGED <<program, progress, eventIds, broken, connected, localAuth, events,
                   history>>

\* An event of the charger: a DataTransfer CALL with an id of its own, or a
\* CALLRESULT that only contains the marker.
Event ==
    /\ Listening
    /\ events < MaxEvents
    /\ events' = events + 1
    /\ IF broken THEN Poison(0) /\ UNCHANGED <<eventIds, heard>>
       ELSE \E m \in Markers \ {"none"} :
              /\ eventIds' \in {eventIds, [eventIds EXCEPT ![m] = events + 1]}
              /\ marker' = IF marker.name = m /\ marker.state = "open"
                           THEN [marker EXCEPT !.state = "done"] ELSE marker
              /\ heard' = heard \cup {m}
              /\ UNCHANGED request
    /\ UNCHANGED <<program, progress, broken, connected, unanswered, localAuth,
                   accepted, acked, interrupted>>

\* Another message: it fails what is pending. After a wrong frame the decoder's
\* buffer never recovers, so all that follows fails, too.
Undecodable ==
    /\ Listening
    /\ Junk # {}
    /\ Poison(0)
    /\ broken' \in {broken} \cup (IF "frame" \in Junk THEN {TRUE} ELSE {})
    /\ UNCHANGED <<program, progress, eventIds, connected, charger, history>>

-----------------------------------------------------------------------------
(***************************************************************************)
(* From one operation to the next                                          *)
(***************************************************************************)

\* request() registers the future and writes the request.
Ask(asked) ==
    /\ step' = asked
    /\ sent' = sent + 1
    /\ request' = [NoRequest EXCEPT !.id = sent + 1, !.state = "open"]
    /\ unanswered' = unanswered \cup {[id |-> sent + 1, asked |-> asked]}

\* Mutant of Leave: after a rejected code the session ends at once.
Leave_AuthEndsHere(how) ==
    /\ step' = IF how = "auth" THEN "over" ELSE "cleanup"
    /\ outcome' = how
    /\ request' = NoRequest
    /\ marker' = NoMarker
    /\ UNCHANGED <<sent, unanswered>>

\* Every finally clause has run: nothing is registered with the router.
Leave(how) ==
    /\ step' = "cleanup"
    /\ outcome' = how
    /\ request' = NoRequest
    /\ marker' = NoMarker
    /\ UNCHANGED <<sent, unanswered>>

Fail(how) == Leave(how) /\ UNCHANGED <<at, results>>

FirstStep(kind) ==
    CASE kind \in {"required", "optional"}       -> "answer"
      [] kind = "wifi_set"                       -> "wifi"
      [] kind \in {"connection_info", "rf_scan"} -> "trigger"
      [] kind = "auto_start"                     -> "get_auth"

Start(k) ==
    /\ at' = k
    /\ IF k > Len(program)
       THEN Leave("ok")
       ELSE /\ Ask(FirstStep(program[k]))
            /\ marker' = IF MarkerOf(program[k]) = "none" THEN NoMarker
                         ELSE [name |-> MarkerOf(program[k]), state |-> "open"]
            /\ UNCHANGED outcome

\* The operation returned a value, None or {}.
Conclude(value) ==
    /\ results' = Append(results, [id |-> request.id, value |-> value])
    /\ Start(at + 1)

\* A timeout or a protocol error of an optional read is no failure.
Tolerated(error) ==
    /\ error \in {"timeout", "protocol"}
    /\ step \in {"answer", "trigger", "event"}
    /\ program[at] \in {"optional", "connection_info"}

Raise(error) ==
    IF Tolerated(error) THEN Conclude("none")
    ELSE Fail(IF error = "timeout" THEN "connection" ELSE error)

calm == <<program, eventIds, broken, connected, localAuth, events, history>>

-----------------------------------------------------------------------------
(***************************************************************************)
(* The session                                                             *)
(***************************************************************************)

\* The charger is connected and notifications are on; or it is out of reach; or
\* start_notify fails.
Connect ==
    /\ step = "connect"
    /\ \/ Ask("auth") /\ connected' = TRUE /\ UNCHANGED <<at, marker, results, outcome>>
       \/ /\ step' = "over" /\ outcome' = "connection"
          /\ UNCHANGED <<at, sent, results, request, marker, connected, unanswered>>
       \/ Fail("connection") /\ connected' = TRUE
    /\ UNCHANGED <<program, eventIds, broken, localAuth, events, history>>

\* Mutant of AfterLocalAuth: a value that was not read counts as set.
AfterLocalAuth_MissingIsSet ==
    /\ Ask(IF request.value = "false" THEN "set_auth" ELSE "set_start")
    /\ UNCHANGED <<at, results, outcome, marker>>

\* LocalAuthListEnabled was read: it is switched on before AutoStart is written,
\* and when it is missing nothing is written.
AfterLocalAuth ==
    IF request.value = "missing" THEN Fail("protocol")
    ELSE /\ Ask(IF request.value = "false" THEN "set_auth" ELSE "set_start")
         /\ UNCHANGED <<at, results, outcome, marker>>

\* The answer is taken, and the session goes on.
TakeAnswer ==
    /\ step \in Asking \ {"wifi"} /\ request.state = "done"
    /\ CASE step = "auth" /\ request.value = "false" -> Fail("auth")
         [] step = "auth" /\ request.value # "false" -> Start(1) /\ UNCHANGED results
         [] step \in {"answer", "set_start"} -> Conclude(request.value)
         [] step = "get_auth" -> AfterLocalAuth
         [] step = "set_auth" ->
              Ask("set_start") /\ UNCHANGED <<at, results, outcome, marker>>
         [] step = "trigger" ->
              /\ step' = "event"
              /\ UNCHANGED <<at, sent, results, outcome, request, marker, unanswered>>
    /\ UNCHANGED <<calm, connected>>

\* Mutant of TakeWifi: a bare acceptance is an answer like any other.
TakeWifi_AnyAnswer ==
    /\ step = "wifi"
    /\ CASE marker.state = "done"   -> Conclude("event")
         [] marker.state = "failed" -> Fail("protocol")
         [] OTHER -> request.state = "done" /\ Conclude(request.value)
    /\ UNCHANGED <<calm, connected>>

\* Wi-Fi: whichever comes first, and the notification when both are there. After
\* a bare acceptance the notification is still awaited.
TakeWifi ==
    /\ step = "wifi"
    /\ CASE marker.state = "done"   -> Conclude("event")
         [] marker.state = "failed" -> Fail("protocol")
         [] OTHER ->
              /\ request.state = "done"
              /\ IF request.value = "state" THEN Conclude("state")
                 ELSE /\ step' = "status"
                      /\ UNCHANGED <<at, sent, results, outcome, request, marker,
                                     unanswered>>
    /\ UNCHANGED <<calm, connected>>

TakeStatus ==
    /\ step = "status"
    /\ \/ marker.state = "done" /\ Conclude("event")
       \/ marker.state = "failed" /\ Fail("protocol")
    /\ UNCHANGED <<calm, connected>>

\* Mutant of Acknowledged: the id stays.
Acknowledged_KeepsId(m) ==
    IF eventIds[m] = 0 THEN UNCHANGED <<eventIds, acked>>
    ELSE acked' = Append(acked, eventIds[m]) /\ UNCHANGED eventIds

\* Mutant of Acknowledged: an event without an id is answered, too.
Acknowledged_NoGuard(m) ==
    /\ acked' = Append(acked, eventIds[m])
    /\ eventIds' = [eventIds EXCEPT ![m] = 0]

\* _acknowledge_event: the event's id is taken and answered, if there is one.
Acknowledged(m) ==
    IF eventIds[m] = 0 THEN UNCHANGED <<eventIds, acked>>
    ELSE /\ acked' = Append(acked, eventIds[m])
         /\ eventIds' = [eventIds EXCEPT ![m] = 0]

\* The awaited event is there; its acknowledgement may fail.
TakeEvent ==
    /\ step = "event"
    /\ \/ marker.state = "done" /\ Acknowledged(marker.name) /\ Conclude("event")
       \/ /\ marker.state = "done" /\ eventIds[marker.name] # 0
          /\ eventIds' = [eventIds EXCEPT ![marker.name] = 0] /\ UNCHANGED acked
          /\ Fail("connection")
       \/ marker.state = "failed" /\ Raise("protocol") /\ UNCHANGED <<eventIds, acked>>
    /\ UNCHANGED <<program, broken, connected, localAuth, events, accepted, heard,
                   interrupted>>

\* The answer was an error, of this request or of another.
TakeError ==
    /\ step \in Asking \ {"wifi"} /\ request.state = "failed"
    /\ Raise("protocol")
    /\ UNCHANGED <<calm, connected>>

\* Mutant of Timeout: the wait for an event has no timer.
Timeout_NotForEvents ==
    /\ \/ step \in Asking \ {"wifi"} /\ Raise("timeout")
       \/ /\ step = "wifi" /\ request.state = "open" /\ marker.state = "open"
          /\ Fail("connection")
       \/ step = "status" /\ Conclude(request.value)
    /\ UNCHANGED <<calm, connected>>

\* COMMAND_TIMEOUT or WIFI_CONNECT_TIMEOUT is over. wait_for gives the timer
\* precedence over a result; asyncio.wait looks at the results.
Timeout ==
    /\ \/ step \in (Asking \ {"wifi"}) \cup {"event"} /\ Raise("timeout")
       \/ /\ step = "wifi" /\ request.state = "open" /\ marker.state = "open"
          /\ Fail("connection")
       \/ step = "status" /\ Conclude(request.value)
    /\ UNCHANGED <<calm, connected>>

\* A chunk of the request cannot be written.
WriteFails ==
    /\ step \in Asking /\ request.state = "open"
    /\ Fail("connection")
    /\ UNCHANGED <<calm, connected>>

\* stop_notify and disconnect; their errors are suppressed.
CleanUp ==
    /\ step = "cleanup"
    /\ step' = "over"
    /\ \/ connected' = FALSE /\ UNCHANGED interrupted
       \/ connected /\ interrupted' = TRUE /\ UNCHANGED connected
    /\ UNCHANGED <<program, at, sent, results, outcome, router, charger, accepted,
                   heard, acked>>

\* The task is cancelled where it waits; in the clean-up that skips the rest of it.
Cancel ==
    /\ step \notin {"connect", "over"}
    /\ IF step = "cleanup"
       THEN /\ step' = "over" /\ outcome' = "cancelled"
            /\ interrupted' = TRUE
            /\ UNCHANGED <<at, sent, results, request, marker, unanswered>>
       ELSE Fail("cancelled") /\ UNCHANGED interrupted
    /\ UNCHANGED <<program, eventIds, broken, connected, localAuth, events, accepted,
                   heard, acked>>

LinkLost ==
    /\ connected
    /\ connected' = FALSE
    /\ UNCHANGED <<program, progress, router, charger, history>>

-----------------------------------------------------------------------------
Charger == Accept \/ Refuse \/ Event \/ Undecodable \/ LinkLost

Resume == TakeAnswer \/ TakeWifi \/ TakeStatus \/ TakeEvent \/ TakeError

Next ==
    \/ Connect \/ Resume \/ Timeout \/ WriteFails \/ CleanUp \/ Cancel
    \/ Charger

Spec == Init /\ [][Next]_vars

\* The session's task runs on, and every wait has a timer. Nothing is asked of the
\* charger.
FairSpec == Spec /\ WF_vars(Connect) /\ WF_vars(Resume) /\ WF_vars(Timeout)
                 /\ WF_vars(CleanUp)

-----------------------------------------------------------------------------
(***************************************************************************)
(* Properties                                                              *)
(***************************************************************************)

\* What an operation returned was answered to it: the charger accepted the very
\* request of the operation, a late answer to an earlier one never counts; an
\* event was heard; and only an optional read returns nothing.
ResultsAreAnswered ==
    \A k \in DOMAIN results :
       LET r == results[k] IN
       /\ r.value \in Values => r.id \in accepted
       /\ r.value = "event" =>
            /\ MarkerOf(program[k]) \in heard
            /\ program[k] # "wifi_set" => r.id \in accepted
       /\ r.value = "none" => program[k] \in {"optional", "connection_info"}

\* AutoStart is only written to a charger whose local list is enabled.
AutoStartPrecondition == step = "set_start" => localAuth

\* A bare acceptance of the Wi-Fi settings is reported only after the wait for the
\* notification that follows it.
NotificationAwaited ==
    [][\A k \in DOMAIN results' \ DOMAIN results :
         program[k] = "wifi_set" /\ results'[k].value = "accepted"
         => step = "status"]_vars

\* No event is acknowledged twice, whatever events and operations follow.
EventAckedOnce == IsInjective(acked)

\* However a session ends, by its result, an error, a timeout or a cancellation,
\* it gives the charger's only link back; unless its clean-up is cancelled, too,
\* or the disconnect itself fails.
LinkReleased == step = "over" /\ connected => interrupted

\* Every session ends, though the charger may never answer.
SessionEnds == <>(step = "over")

-----------------------------------------------------------------------------
(***************************************************************************)
(* A statement of the repository that the code does not keep               *)
(***************************************************************************)

\* The answer to one request never fails another.
ErrorsStayWithTheirRequest ==
    request.state = "failed" => request.by \in {0, request.id}
=============================================================================
