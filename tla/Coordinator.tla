---------------------------- MODULE Coordinator ----------------------------
(***************************************************************************)
(* The coordinator of one charger: coordinator.py (the poll, the verified  *)
(* writes, the restart marker), the transaction lock of client.py and the  *)
(* parts of the entities, services and setup that call them.               *)
(*                                                                         *)
(* A BLE session reads or writes as one step: the client holds the lock    *)
(* for the whole session, and whatever the event loop runs meanwhile falls *)
(* before or after it.  The cached data keep what the properties tell      *)
(* apart: the two current limits, the idle LED, the firmware version and   *)
(* restart_required.                                                       *)
(***************************************************************************)
EXTENDS Integers, FiniteSets

CONSTANTS
    Writers,    \* tasks that run a service or an entity's action
    Operations, \* the kinds of action they may run
    MaxValue,   \* current limits and LED levels are 1..MaxValue
    Versions,   \* firmware versions the charger may run
    Reboots,    \* may the charger answer RebootRequired? (a set of answers)
    MayMiss,    \* values a session may fail to read, leaving the rest
    Failures,   \* how a session may fail: lost connection, or anything else
    Lifetimes,  \* coordinator objects; a reload of the entry makes the next
    ReloadBusy, \* may a reload come while a task of the old coordinator runs?
    AllowCancel,\* may Home Assistant cancel a task that runs an action?
    Refresher,  \* the refresh task, as owner of the lock
    None        \* "no value", "no owner"

Limits == {"min", "max"}

Kinds == {"limit", "led", "bundle", "auto_start", "wifi", "reset", "command", "refresh"}

ASSUME ConstantsAssumption ==
    /\ Operations \subseteq Kinds
    /\ MaxValue \in Nat \ {0}
    /\ Reboots \subseteq BOOLEAN
    /\ MayMiss \subseteq (Limits \cup {"boot", "led"})
    /\ Failures \subseteq {"connection", "other"}
    /\ Lifetimes \in Nat \ {0}
    /\ ReloadBusy \in BOOLEAN
    /\ AllowCancel \in BOOLEAN
    /\ Refresher \notin Writers
    /\ None \notin Writers \cup {Refresher} \cup Versions \cup (1..MaxValue)

VARIABLES
    limits,    \* current limits stored in the charger
    led,       \* idle LED setting stored in the charger
    boot,      \* firmware version the charger runs
    entry,     \* restart_required and restart_firmware in the config entry
    live,      \* the coordinator the entry has now
    ready,     \* has a coordinator's first refresh succeeded?
    data,      \* cached data of a coordinator
    full,      \* _full_refresh_requested
    marker,    \* the four restart fields of a coordinator
    refresh,   \* the refresh task of a coordinator
    lock,      \* owner of its client's transaction lock
    writer,    \* the tasks that run an action
    accepted,  \* history: a setting that needs a restart was accepted, none since
    told,      \* history: version cached when it was last answered
    evidence,  \* history: what was seen of a restart since then
    overwritten, \* history: has a coordinator that was unloaded written the entry?
    owed       \* history: is a full refresh requested and not done?

chargerVars == <<limits, led, boot>>
markerVars  == <<entry, marker, accepted, told, evidence, overwritten>>
lifeVars    == <<live, ready>>
vars == <<limits, led, boot, entry, live, ready, data, full, marker, refresh,
          lock, writer, accepted, told, evidence, overwritten, owed>>

-----------------------------------------------------------------------------
(***************************************************************************)
(* Types                                                                   *)
(***************************************************************************)

Values == 1..MaxValue

Lives == 1..Lifetimes

Led == [level: Values, schedule: {"default", "custom"}]

Data == [limits: [Limits -> Values \cup {None}], led: Led \cup {None},
         boot: Versions \cup {None}, restart: BOOLEAN]

NoData == [limits |-> [k \in Limits |-> None], led |-> None,
           boot |-> None, restart |-> FALSE]

Marker == [required: BOOLEAN, firmware: Versions \cup {None},
           pending: BOOLEAN, disconnected: BOOLEAN]

Refresh == [step: {"idle", "waiting", "reading"}, full: BOOLEAN, previous: Data]

NoRefresh == [step |-> "idle", full |-> FALSE, previous |-> NoData]

\* What a task was asked to do: write a current limit; set the LED's level;
\* write several settings (server or APN, AutoStart) and verify them; set the
\* Wi-Fi network; restart the charger; run a command that is followed by a refresh; refresh.
Request ==
    {r \in [kind: {"limit"}, key: Limits, value: Values]
           \cup [kind: {"led"}, value: Values]
           \cup [kind: {"bundle", "auto_start", "wifi", "reset", "command",
                           "refresh"}] :
       r.kind \in Operations}

WriterStep == {"waiting", "check", "write", "verify", "refresh", "refreshing"}

Idle == [step |-> "idle", request |-> None, on |-> 1]

Writer == [step: WriterStep, request: Request, on: Lives] \cup {Idle}

\* __init__: the restart fields come from the config entry.
FromEntry(e) == [required |-> e.required, firmware |-> e.firmware,
                 pending |-> FALSE, disconnected |-> FALSE]

TypeOK ==
    /\ limits \in [Limits -> Values]
    /\ led \in Led
    /\ boot \in Versions
    /\ entry \in [required: BOOLEAN, firmware: Versions \cup {None}]
    /\ live \in Lives
    /\ ready \in [Lives -> BOOLEAN]
    /\ data \in [Lives -> Data]
    /\ full \in [Lives -> BOOLEAN]
    /\ marker \in [Lives -> Marker]
    /\ refresh \in [Lives -> Refresh]
    /\ lock \in [Lives -> Writers \cup {Refresher, None}]
    /\ writer \in [Writers -> Writer]
    /\ accepted \in BOOLEAN
    /\ told \in Versions \cup {None}
    /\ evidence \in {"none", "reset", "outage"}
    /\ overwritten \in BOOLEAN
    /\ owed \in {"no", "new", "taken", "lost"}

Init ==
    /\ limits \in [Limits -> Values] /\ limits["min"] <= limits["max"]
    /\ led \in Led
    /\ boot \in Versions
    /\ entry = [required |-> FALSE, firmware |-> None]
    /\ live = 1
    /\ ready = [g \in Lives |-> FALSE]
    /\ data = [g \in Lives |-> NoData]
    /\ full = [g \in Lives |-> TRUE]
    /\ marker = [g \in Lives |-> FromEntry(entry)]
    /\ refresh = [g \in Lives |-> NoRefresh]
    /\ lock = [g \in Lives |-> None]
    /\ writer = [w \in Writers |-> Idle]
    /\ accepted = FALSE
    /\ told = None
    /\ evidence = "none"
    /\ overwritten = FALSE
    /\ owed = "new"

-----------------------------------------------------------------------------
(***************************************************************************)
(* The transaction lock, and the start and end of a task                   *)
(***************************************************************************)

At(w, step) == writer[w].step = step

Kind(w) == writer[w].request.kind

GoTo(w, step) == writer' = [writer EXCEPT ![w].step = step]

Unlock(g) == lock' = [lock EXCEPT ![g] = None]

\* The task ends, with a result or an error, and its transaction with it.
End(w) ==
    /\ writer' = [writer EXCEPT ![w] = Idle]
    /\ Unlock(writer[w].on)

Other(k) == IF k = "min" THEN "max" ELSE "min"

\* minimum_above_maximum, maximum_below_minimum; an unknown limit is no conflict
Conflict(r, other) ==
    /\ other # None
    /\ \/ r.key = "min" /\ r.value > other
       \/ r.key = "max" /\ r.value < other

\* A service or an entity's action begins. The number entity first looks at the
\* cached limit. Everything but a refresh then waits for the lock.
Begin(w) ==
    /\ At(w, "idle")
    /\ ready[live]
    /\ \E r \in Request :
          /\ r.kind = "limit" => ~Conflict(r, data[live].limits[Other(r.key)])
          /\ writer' = [writer EXCEPT ![w] =
                [step |-> IF r.kind = "refresh" THEN "refresh" ELSE "waiting",
                 request |-> r, on |-> live]]
    /\ UNCHANGED <<chargerVars, markerVars, lifeVars, data, full, refresh, lock, owed>>

\* Mutant of Acquire: transaction() does not wait.
Acquire_Unserialized(w) ==
    /\ At(w, "waiting")
    /\ lock' = [lock EXCEPT ![writer[w].on] = w]
    /\ GoTo(w, IF Kind(w) = "limit" THEN "check" ELSE "write")
    /\ UNCHANGED <<chargerVars, markerVars, lifeVars, data, full, refresh, owed>>

Acquire(w) ==
    /\ At(w, "waiting")
    /\ lock[writer[w].on] = None
    /\ lock' = [lock EXCEPT ![writer[w].on] = w]
    /\ GoTo(w, IF Kind(w) = "limit" THEN "check" ELSE "write")
    /\ UNCHANGED <<chargerVars, markerVars, lifeVars, data, full, refresh, owed>>

\* The automation or script that waits for the action is stopped, and the action is
\* cancelled while it waits for the lock. (In a session it ends as if the session had
\* failed; while it waits for a refresh it takes the refresh with it: RefreshCancelled.)
Cancel(w) ==
    /\ AllowCancel
    /\ At(w, "waiting")
    /\ writer' = [writer EXCEPT ![w] = Idle]
    /\ UNCHANGED <<chargerVars, markerVars, lifeVars, data, full, refresh, lock, owed>>

-----------------------------------------------------------------------------
(***************************************************************************)
(* The writes                                                              *)
(***************************************************************************)

unwritten == <<lifeVars, full, refresh, owed>>

\* async_set_configuration reads the other limit before it writes one.
Check(w) ==
    LET r == writer[w].request
        other == Other(r.key)
    IN  /\ At(w, "check")
        /\ \/ /\ ~Conflict(r, limits[other])
              /\ GoTo(w, "write")
              /\ UNCHANGED lock
           \/ other \in MayMiss /\ GoTo(w, "write") /\ UNCHANGED lock
           \/ Conflict(r, limits[other]) /\ End(w)
           \/ Failures # {} /\ End(w)
        /\ UNCHANGED <<chargerVars, markerVars, data, unwritten>>

\* What history keeps of a notice that is raised
Noticed(g) ==
    /\ accepted' = TRUE
    /\ told' = data[g].boot
    /\ evidence' = "none"
    /\ overwritten' = (g # live)

\* Mutants of NoteResponse: the evidence of an earlier reset is kept; the entry
\* is not updated.
NoteResponse_KeepsReset(g) ==
    /\ marker' = [marker EXCEPT ![g].required = TRUE, ![g].firmware = data[g].boot]
    /\ entry' = [required |-> TRUE, firmware |-> data[g].boot]
    /\ data' = [data EXCEPT ![g].restart = TRUE]
    /\ Noticed(g)

NoteResponse_NoSync(g) ==
    /\ marker' = [marker EXCEPT ![g] =
                    [FromEntry(entry) EXCEPT !.required = TRUE,
                                             !.firmware = data[g].boot]]
    /\ data' = [data EXCEPT ![g].restart = TRUE]
    /\ Noticed(g)
    /\ UNCHANGED entry

\* note_response after RebootRequired, with _sync_restart_issue
NoteResponse(g) ==
    /\ entry' = [required |-> TRUE, firmware |-> data[g].boot]
    /\ marker' = [marker EXCEPT ![g] = FromEntry(entry')]
    /\ data' = [data EXCEPT ![g].restart = TRUE]
    /\ Noticed(g)

\* The answers arrived: note_response, and the read-back comes next.
Answered(w) ==
    /\ GoTo(w, "verify")
    /\ UNCHANGED lock
    /\ \E reboot \in Reboots :
          IF reboot THEN NoteResponse(writer[w].on)
                    ELSE UNCHANGED <<markerVars, data>>

StoredLimit(r) == [limits EXCEPT ![r.key] = r.value]

\* ChangeConfiguration is answered; or it is accepted and yet not stored; or the
\* session fails (a rejected request is a failure, too), before or after the
\* charger stored the value.
WriteLimit(w) ==
    /\ At(w, "write") /\ Kind(w) = "limit"
    /\ \/ limits' = StoredLimit(writer[w].request) /\ Answered(w)
       \/ /\ GoTo(w, "verify")
          /\ UNCHANGED <<limits, lock, markerVars, data>>
       \/ /\ Failures # {}
          /\ limits' \in {limits, StoredLimit(writer[w].request)}
          /\ End(w)
          /\ UNCHANGED <<markerVars, data>>
    /\ UNCHANGED <<led, boot, unwritten>>

\* set_server, set_apn, set_auto_start: one session with several requests. When
\* a later one fails, answers that came before are dropped with the session; and
\* set_auto_start never returns the answer to its LocalAuthListEnabled request.
WriteBundle(w) ==
    /\ At(w, "write") /\ Kind(w) \in {"bundle", "auto_start"}
    /\ \/ Answered(w)
       \/ /\ \/ Failures # {} /\ End(w)
             \/ Kind(w) = "auto_start" /\ GoTo(w, "verify") /\ UNCHANGED lock
          /\ accepted' \in {accepted} \cup (Reboots \cap {TRUE})
          /\ UNCHANGED <<entry, marker, told, evidence, overwritten, data>>
    /\ UNCHANGED <<chargerVars, unwritten>>

\* The Wi-Fi forms only publish the status of a network they set. Either way to set
\* one may end with an error, and the charger may hold the network all the same.
WithoutNotice ==
    /\ accepted' \in {accepted, TRUE}
    /\ UNCHANGED <<entry, marker, told, evidence, overwritten, data>>

\* set_wifi and clear_wifi, which nobody reads back: the services raise the notice
\* themselves once the session is over.
WriteWifi(w) ==
    /\ At(w, "write") /\ Kind(w) = "wifi"
    /\ NoteResponse(writer[w].on) \/ WithoutNotice
    /\ End(w)
    /\ UNCHANGED <<chargerVars, unwritten>>

\* Mutants of WantedLed: the level is off by one; the defaults, whatever the
\* charger was read to hold.
WantedLed_NextLevel(w) ==
    LET known == data[writer[w].on].led
    IN  [level |-> writer[w].request.value + 1,
         schedule |-> IF known = None THEN "default" ELSE known.schedule]

WantedLed_Defaults(w) ==
    [level |-> writer[w].request.value, schedule |-> "default"]

\* async_set_led fills in what it was not given from the cached data, and from
\* defaults where the last poll did not read the LED.
WantedLed(w) ==
    LET known == data[writer[w].on].led
    IN  [level |-> writer[w].request.value,
         schedule |-> IF known = None THEN "default" ELSE known.schedule]

WriteLed(w) ==
    /\ At(w, "write") /\ Kind(w) = "led"
    /\ \/ led' \in {led, WantedLed(w)} /\ GoTo(w, "verify") /\ UNCHANGED lock
       \/ Failures # {} /\ led' \in {led, WantedLed(w)} /\ End(w)
    /\ UNCHANGED <<limits, boot, markerVars, data, unwritten>>

Unmodelled(w) == Kind(w) \in {"bundle", "auto_start"}

LedMatches(w) == led = WantedLed(w)

Matches(w) ==
    /\ Kind(w) = "limit" => limits[writer[w].request.key] = writer[w].request.value
    /\ Kind(w) = "led" => LedMatches(w)

\* The read-back, in one more session. A value that differs from the one written
\* (possible for the values that are not modelled, too) or is missing is an error.
ReadBackFails(w) ==
    /\ ~Matches(w) \/ Unmodelled(w) \/ Failures # {} \/ MayMiss # {}
    /\ UNCHANGED data
    /\ End(w)

\* Otherwise it is published. A service refreshes after that, an entity does not.
Publish(w) ==
    LET g == writer[w].on
        r == writer[w].request
    IN  /\ Matches(w)
        /\ data' = CASE r.kind = "limit" ->
                          [data EXCEPT ![g].limits = [@ EXCEPT ![r.key] = r.value]]
                     [] r.kind = "led" -> [data EXCEPT ![g].led = led]
                     [] OTHER -> data
        /\ IF r.kind = "bundle" THEN GoTo(w, "refresh") /\ Unlock(g) ELSE End(w)

Verify(w) ==
    /\ At(w, "verify")
    /\ ReadBackFails(w) \/ Publish(w)
    /\ UNCHANGED <<chargerVars, markerVars, unwritten>>

\* The restart service and button: Reset, and note_restart_sent once answered.
Restart(w) ==
    LET g == writer[w].on IN
    /\ At(w, "write") /\ Kind(w) = "reset"
    /\ \/ /\ marker' = [marker EXCEPT ![g].pending = TRUE, ![g].disconnected = FALSE]
          /\ full' = [full EXCEPT ![g] = TRUE]
          /\ evidence' = IF evidence = "none" THEN "reset" ELSE evidence
          /\ owed' = IF g = live THEN "new" ELSE owed
       \/ /\ Failures # {}
          /\ UNCHANGED <<marker, full, evidence, owed>>
    /\ End(w)
    /\ UNCHANGED <<chargerVars, lifeVars, entry, accepted, told, overwritten, data,
                   refresh>>

\* Mutant of Command: the transaction is kept until the refresh is over.
Command_HoldsLock(w) ==
    /\ At(w, "write") /\ Kind(w) = "command"
    /\ \/ GoTo(w, "refresh") /\ UNCHANGED lock
       \/ Failures # {} /\ End(w)
    /\ UNCHANGED <<chargerVars, markerVars, data, unwritten>>

\* async_command: the command has its own transaction, the refresh another.
Command(w) ==
    /\ At(w, "write") /\ Kind(w) = "command"
    /\ \/ GoTo(w, "refresh") /\ Unlock(writer[w].on)
       \/ Failures # {} /\ End(w)
    /\ UNCHANGED <<chargerVars, markerVars, data, unwritten>>

-----------------------------------------------------------------------------
(***************************************************************************)
(* The refresh                                                             *)
(***************************************************************************)

\* _async_update_data up to the lock: the request for a full read is consumed
\* and the data are remembered. asked: was a full read requested?
TakeRefresh(g, asked) ==
    /\ refresh' = [refresh EXCEPT ![g] =
                     [step |-> "waiting", full |-> asked, previous |-> data[g]]]
    /\ full' = [full EXCEPT ![g] = FALSE]

\* The scheduled refresh, and the first one: full when requested, or when the
\* last full one is 30 minutes old.
StartRefresh ==
    /\ refresh[live].step = "idle"
    /\ \E due \in BOOLEAN : TakeRefresh(live, full[live] \/ due)
    /\ owed' = IF owed = "new" THEN "taken" ELSE owed
    /\ UNCHANGED <<chargerVars, markerVars, lifeVars, data, lock, writer>>

\* async_request_refresh: the flag is set, and the debouncer starts a refresh and
\* waits for it, or returns at once: a refresh runs already, one ran less than
\* ten seconds ago, the coordinator is shut down.
AskRefresh(w) ==
    LET g == writer[w].on IN
    /\ At(w, "refresh")
    /\ \/ /\ g = live /\ refresh[g].step = "idle"
          /\ TakeRefresh(g, TRUE)
          /\ GoTo(w, "refreshing")
          /\ owed' = "taken"
       \/ /\ full' = [full EXCEPT ![g] = TRUE]
          /\ writer' = [writer EXCEPT ![w] = Idle]
          /\ owed' = IF g = live THEN "new" ELSE owed
          /\ UNCHANGED refresh
    /\ UNCHANGED <<chargerVars, markerVars, lifeVars, data, lock>>

AcquireRefresh(g) ==
    /\ refresh[g].step = "waiting"
    /\ lock[g] = None
    /\ lock' = [lock EXCEPT ![g] = Refresher]
    /\ refresh' = [refresh EXCEPT ![g].step = "reading"]
    /\ UNCHANGED <<chargerVars, markerVars, lifeVars, data, full, writer, owed>>

Awaits(w, g) == At(w, "refreshing") /\ writer[w].on = g

\* The refresh is over, and whoever waits for it goes on.
RefreshOver(g) ==
    /\ refresh' = [refresh EXCEPT ![g] = NoRefresh]
    /\ writer' = [w \in Writers |-> IF Awaits(w, g) THEN Idle ELSE writer[w]]

\* The end of its session frees the lock.
EndRefresh(g) ==
    /\ refresh[g].step = "reading"
    /\ RefreshOver(g)
    /\ Unlock(g)

\* What get_snapshot returns: a full read asks for the configuration, every read
\* for the LED; a value in missed was not answered.
Snapshot(g, missed) ==
    LET r == refresh[g]
        config == [k \in Limits |-> IF k \in missed THEN None ELSE limits[k]]
    IN  [limits  |-> IF r.full THEN config ELSE r.previous.limits,
         boot    |-> IF ~r.full THEN r.previous.boot
                     ELSE IF "boot" \in missed THEN None ELSE boot,
         led     |-> IF "led" \in missed THEN None ELSE led,
         restart |-> r.previous.restart]

\* An outage after the reset, or another firmware version
Confirmed(m, firmware) ==
    \/ m.pending /\ m.disconnected
    \/ m.firmware # None /\ firmware \notin {None, m.firmware}

\* The successful end of _async_update_data, with _sync_restart_issue
RefreshSucceeds(g) ==
    /\ EndRefresh(g)
    /\ \E missed \in SUBSET MayMiss :
          LET read == Snapshot(g, missed)
              m == marker[g]
              confirmed == Confirmed(m, read.boot)
              required == (m.required \/ read.restart) /\ ~confirmed
              firmware == IF confirmed THEN None ELSE m.firmware
          IN  /\ entry' = [required |-> required, firmware |-> firmware]
              /\ marker' = [marker EXCEPT ![g] =
                              IF confirmed THEN FromEntry(entry')
                              ELSE [m EXCEPT !.required = required]]
              /\ data' = [data EXCEPT ![g] = [read EXCEPT !.restart = required]]
    /\ overwritten' = (overwritten \/ (g # live /\ entry' # entry))
    /\ ready' = [ready EXCEPT ![g] = TRUE]
    /\ owed' = IF g = live /\ refresh[g].full /\ owed # "new" THEN "no" ELSE owed
    /\ UNCHANGED <<chargerVars, live, full, accepted, told, evidence>>

\* Mutant of RequestedAgain: a failed refresh does not ask again.
RequestedAgain_Never(g) == full[g]

\* A full refresh that failed is requested again.
RequestedAgain(g) == full[g] \/ refresh[g].full

\* Only a lost connection after the reset counts as an outage.
Disconnects(m, error) == m.pending /\ error = "connection"

\* The except branch. When the first refresh fails, the setup is retried with a
\* new coordinator.
RefreshFails(g) ==
    /\ EndRefresh(g)
    /\ \E error \in Failures :
          /\ marker' = [marker EXCEPT ![g] =
                IF ready[g]
                THEN [marker[g] EXCEPT !.disconnected =
                        IF Disconnects(marker[g], error) THEN TRUE ELSE @]
                ELSE FromEntry(entry)]
          /\ evidence' = IF evidence = "reset" /\ error = "connection"
                         THEN "outage" ELSE evidence
    /\ full' = [full EXCEPT ![g] = RequestedAgain(g)]
    /\ owed' = IF g = live /\ owed = "taken" THEN "new" ELSE owed
    /\ UNCHANGED <<chargerVars, lifeVars, data, entry, accepted, told, overwritten>>

\* CancelledError is no Exception: neither branch runs, and the request that the
\* refresh took is not flagged again. The task that asked for the refresh is
\* cancelled while it waits for it; or the entry is unloaded, with the scheduled one.
RefreshCancelled(g) ==
    /\ refresh[g].step # "idle"
    /\ \/ AllowCancel /\ \E w \in Writers : Awaits(w, g)
       \/ g # live /\ \A w \in Writers : ~Awaits(w, g)
    /\ EndRefresh(g) \/ (refresh[g].step = "waiting" /\ RefreshOver(g) /\ UNCHANGED lock)
    /\ owed' = IF g = live /\ owed = "taken" THEN "lost" ELSE owed
    /\ UNCHANGED <<chargerVars, markerVars, lifeVars, data, full>>

-----------------------------------------------------------------------------
(***************************************************************************)
(* The entry and the charger                                               *)
(***************************************************************************)

\* The entry is unloaded and set up again (never during its set-up): a new client and
\* coordinator. What runs on the old ones goes on.
Reload ==
    /\ live < Lifetimes
    /\ \/ ReloadBusy /\ ready[live]
       \/ refresh[live].step = "idle" /\ \A w \in Writers : At(w, "idle")
    /\ live' = live + 1
    /\ marker' = [marker EXCEPT ![live + 1] = FromEntry(entry)]
    /\ owed' = "new"
    /\ UNCHANGED <<chargerVars, entry, ready, data, full, refresh, lock, writer,
                   accepted, told, evidence, overwritten>>

\* The charger restarts, perhaps with other firmware.
ChargerRestarts ==
    /\ boot' \in Versions
    /\ accepted' = FALSE
    /\ UNCHANGED <<limits, led, entry, lifeVars, data, full, marker, refresh, lock,
                   writer, told, evidence, overwritten, owed>>

-----------------------------------------------------------------------------
Step(w) ==
    \/ Check(w) \/ WriteLimit(w) \/ WriteBundle(w) \/ WriteWifi(w) \/ WriteLed(w)
    \/ Verify(w) \/ Restart(w) \/ Command(w) \/ AskRefresh(w)

Next ==
    \/ \E w \in Writers : Begin(w) \/ Acquire(w) \/ Cancel(w) \/ Step(w)
    \/ StartRefresh
    \/ \E g \in Lives : \/ AcquireRefresh(g) \/ RefreshSucceeds(g) \/ RefreshFails(g)
                       \/ RefreshCancelled(g)
    \/ Reload
    \/ ChargerRestarts

Spec == Init /\ [][Next]_vars

\* Every session ends, with its timeouts, and asyncio.Lock serves its waiters in
\* turn. Nobody has to press a button, reload the entry or restart the charger.
Fairness ==
    /\ \A w \in Writers : SF_vars(Acquire(w)) /\ WF_vars(Step(w))
    /\ \A g \in Lives : /\ SF_vars(AcquireRefresh(g))
                        /\ WF_vars(RefreshSucceeds(g) \/ RefreshFails(g))

FairSpec == Spec /\ Fairness

-----------------------------------------------------------------------------
(***************************************************************************)
(* Properties                                                              *)
(***************************************************************************)

\* Two actions that each move one current limit towards the other never leave the
\* charger with a minimum above its maximum: the check and the write of
\* async_set_configuration are one transaction, and a limit whose write was not
\* answered is read again.
LimitsOrdered == limits["min"] <= limits["max"]

\* Setting the level of the idle LED keeps its schedule in the charger, whichever
\* sessions fail or are cancelled and whatever a poll missed, with one exception:
\* async_set_led runs while the last poll did not read the LED, and then writes the
\* default schedule. Data that are older than a write of unknown outcome do no harm.
LedScheduleKept ==
    [][led'.schedule # led.schedule
       => \E w \in Writers :
             /\ At(w, "write") /\ Kind(w) = "led"
             /\ data[writer[w].on].led = None
             /\ led'.schedule = "default"]_vars

\* The persisted restart notice is cleared only by a refresh, and only when a
\* connection failed after a reset request or the version read differs from the
\* one known when the notice was raised; also across a reload, during an action too,
\* unless what goes on of the unloaded coordinator writes the entry.
NoticeClearedOnEvidence ==
    [][entry.required /\ ~entry'.required
       => \/ overwritten'
          \/ \E g \in Lives :
                /\ refresh[g].step = "reading" /\ refresh'[g].step = "idle"
                /\ \/ evidence = "outage"
                   \/ told # None /\ data'[g].boot \notin {None, told}]_vars

\* What the coordinator shows and what is persisted agree, so a reload, during an
\* action too, neither loses nor invents a notice, until what goes on of an unloaded
\* coordinator writes the entry behind the live one.
NoticeIsPersisted ==
    \/ overwritten
    \/ /\ entry.required = marker[live].required
       /\ ready[live] => data[live].restart = entry.required

\* A request for a full refresh is lost only with a refresh that is cancelled: else it
\* is still flagged, or the refresh that took it reads everything; a request made
\* while BLE is in flight stays.
FullRequestKept ==
    /\ owed = "new" => full[live]
    /\ owed = "taken" => refresh[live].step # "idle" /\ refresh[live].full

\* Every action ends: no task waits for a refresh that waits for the task's lock.
EveryTaskEnds ==
    \A w \in Writers : ~At(w, "idle") ~> At(w, "idle")

-----------------------------------------------------------------------------
(***************************************************************************)
(* Statements of the repository that the code does not keep                *)
(***************************************************************************)

\* Only a value read from the charger becomes a shown value.
DisplayIsAuthoritative ==
    [][\A k \in Limits :
         data'[live].limits[k] \notin {data[live].limits[k], None}
         => data'[live].limits[k] = limits[k]]_vars

\* Setting the level of the idle LED preserves its schedule.
ScheduleAlwaysKept == [][led'.schedule = led.schedule]_vars

\* Once the charger answered that an accepted setting needs a restart, the notice
\* is there until the charger restarts.
NoticeUntilRestart == accepted => entry.required
=============================================================================
