# Formal model of the EVBox G4 BLE integration

TLA+ modules, TLC configurations and TLAPS proofs for the Home Assistant
integration in `src/custom_components/evbox_g4_ble`. All paths below are relative
to that directory. Every definition is translated from the source; the tables of
`PROJECT.json` name, definition by definition, the lines it stands for.

Contents: 1 the system, 2 the modules and the code they model, 3 what the runs show,
4 fairness, 5 what is proved, 6 where code and documentation disagree, 7 what is
not modelled, 8 plan, 9 how to run.

## 1. The system

The integration talks to one EVBox charger per config entry over Bluetooth Low
Energy: it connects, authenticates with a code, sends OCPP-like requests and reads
the answers from GATT notifications. Everything runs in one asyncio event loop, so
interleaving happens at `await`s only; but there are many awaits and several tasks
(the poll, services, entity actions, forms, FTP sessions, timers, callbacks of the
BLE stack), and the charger, the radio link and the user act when they like.

| component | state it keeps | operations | correct when |
| --- | --- | --- | --- |
| frame decoder and parsing (`protocol.py`) | a byte buffer | feed, parse an answer, parse values | the frames are those the charger sent, however they are cut; an error concerns the request it answers |
| BLE session and response router (`client.py`) | pending futures, markers, ids of events, the link | one session: connect, authenticate, run operations, clean up | a result is the answer to its own request; the link is given back; the session ends |
| transaction lock (`client.py`) | an asyncio lock and the owning task | `transaction()` | one operation at a time; the owner may nest, nobody else may |
| coordinator (`coordinator.py`) | cached data, request for a full refresh, four fields of the restart notice | poll, verified writes, commands, restart | what is shown is what the charger stores; limits stay ordered; a notice goes only on evidence |
| card list and charge point list (`coordinator.py`) | in the charger; a copy in the cached data | add, remove, clear, pair, unpair | no task loses another one's edit; at most ten charge points; success means stored |
| firmware proxy (`firmware_proxy.py`, `firmware_proxy_state.py`) | a registry of slots per charger address, a state object per update, a directory, a timer | reserve, download, serve, command, expire, close, stop, clean up | one update per charger; the file exists while it is offered; everything is given back |
| FTP server (`ftp_server.py`) | sessions and a transfer | RETR, blocks, end, loss | progress and errors are reported to the right update |
| update entity and catalogue (`update.py`, `firmware.py`) | cached release list | choose a release, start an update, recognise that it is installed | an update counts as installed only on proof |
| services, set-up (`__init__.py`) | the entry's coordinator | services, set-up, unload, stop handler | an action runs on the loaded coordinator |
| config and options flow (`config_flow.py`) | a form in progress | set-up, discovery, re-authentication, settings | one entry per charger; the same effects as the services |
| entities (`number.py`, `select.py`, `switch.py`, `text.py`, `button.py`, `sensor.py`, `binary_sensor.py`, `entity.py`) | none of their own, but for discovery | an action, a presentation | an entity appears once, when its capability is known |
| tables and helpers (`const.py`, `models.py`, `validation.py`, `errors.py`, `diagnostics.py`) | none | | |

How they interact:

* Entities, services and forms call methods of the coordinator. The ones that read,
  modify and write are `@serialized`: they run in one transaction of the client.
  Each BLE session takes the transaction, too, unless its task has it already.
* The poll (`_async_update_data`) is one session outside the serialized methods. It
  reads shared fields before it waits for the lock and writes them after.
* A session's notifications arrive by callback and complete futures; the session's
  task goes on in a later turn of the loop, and timers compete with them.
* A firmware update crosses three worlds: the task that called the service, the FTP
  server's tasks, and the coordinator's listeners (the update entity); the registry
  in `hass.data` is what they share, and the stop handler of Home Assistant uses it.

Hard behaviours: answers that come after their request has timed out; one decoder
and one router for all requests of a session; writes whose outcome is unknown;
check-then-write over several sessions; data remembered across the wait for a lock;
a restart that can only be inferred; cancellation at every await; directories that
outlive the process; a timer that races with a transfer. `PROJECT.json` lists them
as hazards at their lines, with the properties that would notice.

## 2. Modules

| module | models | proofs |
| --- | --- | --- |
| `FirmwareProxy` | `firmware_proxy.py`, `firmware_proxy_state.py`, the transfers of `ftp_server.py`, the proof of installation in `update.py`, the stop handler | `FirmwareProxyProofs` |
| `Coordinator` | `coordinator.py` without the lists, the lock of `client.py`, what entities and services add to it, set-up and reload | `CoordinatorProofs` |
| `ChargerLists` | the card list and the charge point list of `coordinator.py`, the forms of `config_flow.py` and the services that edit them | `ChargerListsProofs` |
| `Session` | one BLE session of `client.py` with its router, and what `protocol.py` tells the router | `SessionProofs` |
| `BleTransaction` | `EVBoxClient.transaction` over the asyncio lock, with nesting and cancellation | `BleTransactionProofs` |
| `SerialOperations` | abstract: operations run one after the other; `BleTransaction` and the lock of each coordinator in `Coordinator` implement it | `BleTransactionProofs`, `CoordinatorProofs` |
| `AtomicEdits` | abstract: an edit of a list acts at one moment, on the list there is then; `ChargerLists` implements it | `ChargerListsProofs` |
| `EntryFlow` | the forms of `config_flow.py` that make an entry or change its code, set-up, reload and removal in `__init__.py`, the authentication errors of `coordinator.py` and `errors.py` | `EntryFlowProofs` |
| `EntityDiscovery` | `async_add_supported_entities` of `entity.py`, the conditions of the platforms, the obsolete entities `__init__.py` removes | `EntityDiscoveryProofs` |

Each `MC<module>` extends its module with the symmetry set and the constraints of
its configurations `MC<module>_<run>.cfg`. The state each module shares with
another is described below it; the modules are separate because a BLE session is one
step of `Coordinator` and of `ChargerLists` and the whole behaviour of `Session`. In the
same way the lock is one variable in `Coordinator` and `ChargerLists` (taken, released,
waited for), which is what `SerialOperations` says: that the real lock with its queue,
futures and nesting does no more is the refinement `OperationsAreSerial`, and that the
variable of a coordinator does no more is the theorem `LockIsSerial`.

**FirmwareProxy.** An *attempt* is one call of `async_start_firmware_update` with a
web URL. `stage[u]` is the await at which its task stands: `fetching` (route,
download), `making` (mkdtemp), `writing` (write_bytes), `starting` (server start),
`commanding` (UpdateFirmware), `armed` (the timer runs) and the ends of the error
paths. `registry` is `hass.data[...]["firmware_proxies"]`, `st[u]` the
`FirmwareUpdateState` object: it lives on when the registry has another one.
`closing[u]` follows `async_close`: the slot is released, the server is closed
(`drained` when the session took its one remaining turn before being cancelled),
the directory is removed. `session`, `sent` and `lastPct` are the FTP session.
`FullRefresh` is the coordinator's listener in the update entity. `BeginStop`,
`StopCloses` and `FinishStop` are the stop handler: it lists the proxies, closes them, and
removes every `evbox-firmware-*` directory. Home Assistant then goes on (`ha = "stopped"`),
with callers, servers and new updates, to its `Exit`; `Crash` and `Boot` are the rest of the
process. `missed` is a history variable: the attempts the handler did not list and, after
its sweep, those of them whose directory it removed. An attempt is used once; the end of
the process makes it `gone`.

**Coordinator.** A *writer* is a task with an entity's or a service's action. Its
`step` is waiting for the lock, the session it is in (`check`, `write`, `verify`) or
the refresh it asks for and waits for. `lock`, `data`, `full`, `marker` and `refresh`
are indexed by the coordinator object (`Lives`): a reload makes a new one while tasks
of the old one may still run (`ReloadBusy`). `data` has the two current limits, the
idle LED, the firmware version and the notice; the other scalar values behave like
the limits. A session that fails may have stored its value (`Failures`), a value may
be missing from an answer (`MayMiss`), an accepted value may not be stored. A task may
be cancelled (`AllowCancel`): while it waits for the lock (`Cancel`), in a session, which
ends as if it had failed, or while it waits for a refresh, which is cancelled with it
(`RefreshCancelled`; an unload cancels a scheduled one). `accepted`, `told`, `evidence`,
`overwritten` and `owed` are history variables: no action reads them.

**ChargerLists.** A task has an edit (`request`) and goes through its sessions in one
transaction: `read`, `enable`, `version`, `send`, `verify` for cards; `get`, `set`,
`verify` for charge points. `cards`, `enabled` and `points` are the charger, `shown`
is the coordinator's copy, `refresh` the poll. Ids are already normalised, as the code
does before anything else. The form for a new card reads the list before the edit
(`Look`); the choices of the other forms come from cached data, so any request may
be submitted. The version of the local list is read and sent plus one; the charger's
reaction to it is part of "accepts it and keeps what it has". In `AtomicEdits` an edit
is asked for, takes effect in one step or not at all, and succeeds or fails (it may fail
although it was stored); the sessions, the lock and the cached copy are hidden.

**Session.** `program` is the list of operations, `at` the one that runs and `step`
the await: `auth`, `answer` (a request), `wifi` and `status` (evbWifiSet's two waits),
`trigger` and `event` (an event that follows a request), `get_auth`, `set_auth`,
`set_start` (the three requests of auto start), `cleanup`. `request` and `marker` are
the futures in the router: a session is sequential, so there is at most one of each.
The charger's part is external: it answers requests late, in any order or never,
sends events, sends undecodable input, and the link may break. A timer may win over
an answer that is there (`asyncio.wait_for`), or not (`asyncio.wait`).

**BleTransaction.** `locked`, `waiters` and `future` are `asyncio.Lock`: its flag, its queue
and the state of each waiter's future (`pending`, `woken` by a release, `cancelled`,
`stopped` when the task was cancelled after it was woken). `owner` is
`_transaction_owner`. A task is inside of `depth` serialized methods and possibly of a
`session`. `Enter` goes in without waiting (the task owns the transaction, or the lock is
free and nobody is in line) or queues; `Resume` and `GiveUp` are a waiter's next turn of the
event loop. Only the owner passes without the lock: a child task is a task of its own.
The refinement maps the task inside to `holder`, the tasks with a session to `using`.

**EntryFlow.** `form[f]` is a form in progress: from Bluetooth discovery, by hand, or one
that asks for a new code (`reauth`, `reconfigure`). `Submit` is what the form does before
its session, `Create` and `Update` what it does after; between them anything happens.
`entry[id]` has the stored code and the code of the `client` in use, the persisted part of
the restart notice, whether the polling still runs, a reload that is scheduled, and Home
Assistant's state of the entry. An entry of an older version has the charger's address in
mixed case (`mixed`) or no unique id at all (`none`), as `_existing_unique_id` expects: for the
second it gives the form the address (`entry.unique_id or address`), under which no entry is
found, and another entry (`upper`) can be made beside it. Each entry has a form of its own that
asks for a new code, so `Asking`, `stale` and `closed` are kept by entry. `stale` are the codes
of old clients with an action under way. Home Assistant's part (aborting forms of the same unique id,
starting the reauth form once, stopping the poll on an authentication error, retrying,
reloading) is external and modelled as the code relies on it. `closed` is a history
variable: somebody closed the form that took the place of the one for a new code.

**EntityDiscovery.** `pending` is the list of one platform's entities in
`async_add_supported_entities`, `adding` the ones handed to Home Assistant whose task has
not run, `present` the entities there are, `registry` the entity registry, which outlives
reloads and restarts. An entity is a domain, a key and the values it needs; unique ids are
made from the key only, so an obsolete entity of another domain counts as registered.
`Setup` is the first refresh, the removal of the obsolete entities and the first
`discover`; `Refresh` the later ones. `handed` and `earned` are history variables.

## 3. Runs

| run | asks | bounds | states |
| --- | --- | --- | --- |
| `proxy_slots` | exclusive slots, file present while offered, verdict of the timeout | 2 attempts, 1 charger, 2 progress steps, cancellation and crash | 1.09 M |
| `proxy_install` | an update is installed only on proof | 2 attempts, 2 releases, 1 progress step | 1.30 M |
| `proxy_live` | files go, slots are freed, the stop handler completes | 2 attempts, 1 progress step, crash | 193 000 |
| `coord_writes` | limits ordered, LED schedule kept, request for a full refresh kept | 2 writers, values 1..2, a poll may miss the LED, cancellation | 1.93 M |
| `coord_restart` | the notice is persisted, and cleared on evidence only | 1 writer, 2 versions, 2 coordinators, reload during an action, cancellation | 2.82 M |
| `coord_live` | every action ends | 2 writers, cancellation | 8 500 |
| `lists_edits` | no edit is lost, edits are atomic (refinement), the limit, success is stored | 2 tasks, 2 cards, 2 charge points, limit 1 | 384 000 |
| `session` | results, Wi-Fi, auto start, events, the link, the end | all 6 kinds, 2 operations, 2 events | 2.0 M |
| `ble_transaction` | operations are serial (refinement); whoever waits gets in | 3 tasks, nesting of 2 | 1 354 |
| `entry` | one entry per charger, checked codes, a stored code is tried, a refused one announced | 2 forms and each entry's reauth form, 2 codes, 1 change of the code, an entry of an older version with or without unique id or none | 60 300 |
| `entities` | each entity added once, for a reason of its own, and in the end | 3 entities, 2 obsolete ones, 3 values | 3 100 |
| `session_late` | (violation) an error stays with its request | 2 kinds, 2 operations |  |

Why the bounds are enough for what they ask:

* *Firmware proxy.* Attempts meet only in the registry slot of their charger, and all
  conflicts are between the holder of the slot and the one before or after it; two
  attempts have every such order. One charger suffices because nothing connects the
  slots of two chargers but the stop handler, which visits proxies one by one. Two
  progress steps have a first, a last and an unchanged percentage.
  `InstallationsOnly` (`proxy_install`) leaves out failures and the stop handler,
  which end an update and prove nothing. `InOrder` (`proxy_live`) names the first
  attempt `u1`: attempts are interchangeable and TLC may not use symmetry with
  liveness, so each behaviour that is cut off has an equal one that is kept. `LiveBound`
  adds that no update fetches its image while Home Assistant stops: it would have neither a
  directory nor a server yet (`proxy_slots` has those behaviours, too).
* *Coordinator.* A lost update needs two writers and one lock; a stale one needs a
  writer and a refresh. Two values are enough for an order and a conflict. Two versions
  are a version and another one, two coordinators a coordinator and its successor.
  `OneSchedule` (`coord_restart`) fixes the LED, which that run does not write, and
  `NoticeView` leaves the two histories its properties do not read out of the comparison of
  states.
* *Lists.* Two charge points over a limit of one have a list below and at the limit, and
  an edit that would exceed it; the type of a charge point matters only to the read-back and is one
  value; two tasks are the reader and the one that interferes.
* *Session.* Only neighbouring operations influence each other (through an answer
  that is late, an event id that is kept, a buffer that is broken); two operations of
  every kind in every order, after an authentication, are all the neighbours.
* *Transaction.* A lost wake-up needs a task that has the lock, one that was woken or waits
  first, and one behind it; nesting of two is a session or method in a method, and
  the release at the outermost exit only.
* *Entry.* Two forms meet in every pair of kinds (two of discovery and by hand, one for a
  new code beside one to set up), and the reauth forms come on top. A charger whose code
  changes once goes from right to wrong and, by a form or with the other old entry, back.
  `OneMoves` bounds what two entries do at once, as their lives meet only in the forms and the
  charger's code: an entry without a unique id keeps its code, and may be refused and
  asked for; the one made beside it has its whole life while no other form is open, and is as
  calm as the first while one is. A restart notice comes with one open form at most. TLC checks
  liveness on what the constraint leaves: every life of a single entry with a unique id
  and two forms but for that notice, and the second entry's as far as said.
* *Entities.* The three are one in the place of an obsolete entity, two that share a value,
  and one that needs two values; set-ups, refreshes and restarts are not bounded.

What the properties say is written above each of them. The ones that took most
thought:

* `TimeoutVerdict`: after fifteen minutes the user is told either that the charger
  never came or that the installation is unconfirmed. The model lets the timer fire
  at every point of a transfer, and remembers (`served`) if a RETR was answered.
* `ServedFileExists`: seven paths remove directories; none does while a server listens, but
  for the sweep of the stop handler, which does it to the updates that were not listed (an
  update that is being set up, a superseded server). The exception names them.
* `InstalledIsProven`: the proof is put together from the registry, the state object,
  the baseline taken when the command was sent and a version read by another task.
* `LimitsOrdered`: it relies on the transaction, on reading the other limit inside it,
  and on that read being answered. Each is a constant of the model.
* `NoticeClearedOnEvidence`: what counts as evidence is remembered by history variables
  that follow the charger and the link, not the code's own fields. The reload comes while an
  action or a refresh of the old coordinator runs on; `overwritten` is the one way it does harm.
* `FullRequestKept`: a request made before, during and after a refresh that fails; one that
  is cancelled takes its request with it, which the property names (`owed = "lost"`).
* `LedScheduleKept`: polls that miss the LED, writes of unknown outcome and read-backs that
  fail leave caches that are empty or old; only the empty one costs the schedule.
* `OtherElementsAreKept`: a removal writes the *whole* list; that it differs by the
  requested element from the list that is there *now* needs the transaction.
* `EditsAreAtomic`: the list is read in one session, changed, written in another and read
  back in a third; the abstract step is the one session in which the charger takes it over.
* `ResultsAreAnswered`, `EventAckedOnce`, `LinkReleased`: over all arrival orders.
* `OperationsAreSerial`, `EveryTaskGetsIn`: the owner is compared before and the lock taken
  after an await, a woken waiter may be cancelled before its turn, and the wake-up must go
  to the next one.
* `OneEntryPerCharger`: forms take the unique id at different moments, check it before their
  session and create an entry after it; no form goes on to replace an entry that another made
  meanwhile. An older entry without a unique id is the exception, and named.
* `CodeChangesAreChecked`: two writers of the entry's data, the form and the restart notice,
  whose awaits overlap; neither may undo the other.
* `WrongCodeIsAnnounced`, `CodeTakesEffect`: from the wrong code to the form, the stored
  code, the reload and the new client there are five steps of four actors, and set-up,
  retry, unload, removal and restart may come between any two of them.
* `EntityIsEarned`: it depends on a clean-up in another file that runs before discovery.

Each property of a passing run has a mutant: a named variant of one mapped definition
that a plausible slip in the code would produce. The variants stand in the modules
directly before the definition they vary ("Mutant of ...") and are used by nothing else.

`FirmwareProxy` stops when all attempts are used, and `Session` when the session is over;
deadlock is checked in all other modules, which always have a next step.

## 4. Fairness

* `FirmwareProxy!Fairness`: every await of a caller ends (aiohttp's timeout, executor
  jobs, BLE timeouts), an armed timer fires, a server that is closing closes and its
  directory is removed, and the stop handler and the stop stages after it go on to the end of
  the process. The charger, the user, the FTP session's progress, a stop, a crash and a start
  are not assumed to happen.
* `Coordinator!Fairness`: a session that runs ends (see `SessionEnds`), so steps of a
  task are weakly fair. `asyncio.Lock` wakes its waiters in order; taking the lock is
  strongly fair, because it is enabled again and again as others take and release it.
* `Session!FairSpec`: the task runs on and every wait has a timer. Nothing is assumed
  of the charger or the link.
* `BleTransaction!Fairness`: the event loop gives each task its turn, sessions have timeouts,
  and a serialized method ends at each depth of its nesting. That is strong fairness, as
  an inner method may interrupt it again and again; the code's methods nest a fixed number
  of others.
* `EntryFlow!Fairness`: Home Assistant runs the retries, reloads, unloads and polls it has
  scheduled (weak). A charger that is tried again and again answers some time (strong, for
  the two outcomes of a set-up that reached it): without that a new code is never tried.
  Nothing is assumed of users, discovery or the charger's code.
* `EntityDiscovery!FairSpec`: the loop runs the task that adds an entity. No refresh is
  assumed to happen.
* `ChargerLists` states no liveness property.

## 5. Proofs

All theorems hold for every value of the constants that satisfies the `ASSUME`
of the module (sizes of the sets, number of tasks, versions, limits).

**FirmwareProxyProofs.** `Invariant` is the inductive invariant. What a state says of one
attempt is not inductive, as another attempt of the same charger may take the slot;
so the invariant ties together, for every attempt, its stage, the registry, the
existence of its directory, and what its state object may say once it no longer
holds the slot. From it: `TypeCorrect`, `SetupHoldsSlot`, `ServedDirectoryExists`,
`VerdictIsRight`, `OneAwaitsCharger`. For the directories it needs `FoundInv`: until the sweep,
a proxy the stop handler listed waits for its close or is closing. `InstallationIsProven` needs a smaller one,
`InstallInv`: a state that waits for the installation has reported the last part, and an
attempt is registered under its own charger; `StepMoves` says how any step may move a
phase, and that only a refresh moves it to `installed`.

`WorkInv` adds who still has work to do: a directory, a listening server or a taken slot has
a *keeper*, the setup, the command, the timer or a close that goes on (`FilesAreCaredFor`,
`ServersAreCaredFor`, `SlotsAreCaredFor`), and the stop handler waits only for a close that
goes on (`StopIsNotBlocked`). `AttemptsOnlyAdvance` gives the rank of an attempt, which no
step lowers and each step of a keeper raises. The exception is stated in the theorems
themselves: a caller that is cancelled. `OnlySupersededAreMissed` and `ReleasedRevivesOnce`
say how far the disagreements of section 6 can go.

**CoordinatorProofs.** Several invariants, each as small as its theorem needs.
`TypeCorrect`. `FullRequestIsKept`: `owed` is what the flag and the running refresh
say, and a cancelled refresh is the only step to `"lost"`. `LimitsStayOrdered`: a task past its check owns the lock of the live
coordinator, and the other limit is still the one it checked against; it assumes that
the other limit can be read (`MayMiss` has no limit) and that no reload happens under
a running action (`~ReloadBusy`), as with two coordinators there are two locks.
`NoticePersists` and `NoticeNeedsEvidence` assume nothing of reloads: `NoticeInv` relates
the four fields of the live coordinator to the history of what was seen, and `NoticeHeld`
says that it holds until a coordinator that was unloaded has written the entry
(`overwritten`); what else runs on there leaves it alone (`OldNotice`).
`ScheduleIsKept`: what the live coordinator knows of the LED's schedule is right
(`LedKnown`). It assumes that a reload waits for the actions or that every poll reads the
LED, since otherwise an old coordinator may know a schedule that the default of the new one
has replaced; and that `None` is not a LED setting.
`LockInv` says who has the lock: a task in a session of a transaction, or a refresh that
reads. From it `LockIsWithItsWorker`; `NobodyWaitsForHimself`, as a task that waits is not
the one it waits for and that one can go on; and the refinement `LockIsSerial`.

**ChargerListsProofs.** `Invariant`: who is in a session owns the transaction (so at most
one task is), and what it read and is about to write is still the charger's list with
its own edit. From it `TypeCorrect`, `WithinLimit` (a cardinality argument over finite
sets, `EditedFits`), `EditsAreLocal`, `SuccessIsTrue` and, step by step,
`EditsImplementAtomicEdits`: what `EditsAreLocal` says of a step is what makes the session
that stores a list the abstract edit of it.

**SessionProofs.** `IInv` has a part for the flow of the session, one for the ids of events and
one for the link. The flow's argument is `RequestFits`: the registered request is the last
one sent and has a fresh id, so an answer that completes it was asked by the very step
that waits, whatever is late; `AutoStartFits` adds what such an answer tells of the charger.
`IdsFit`: an id that was given to a marker is in one place until it is acknowledged.
From them `TypeCorrect`, `ResultsBelongToRequests`, `PreconditionHolds`, `AcknowledgedOnce`,
`LinkIsReleased` and, for steps, `NotificationIsAwaited`; for any program of operations and
any number of events. `EndInv` adds what the end of a session needs. `PairFits`: during
the Wi-Fi wait both futures are registered, and an error that fails the request has completed
the marker, too (`NeverStuck`). `SuccessFits`: a result for each operation so far
(`SuccessIsComplete`). `SessionAdvances` is the rank of the task.

**BleTransactionProofs.** `Invariant`: the flag, the owner and the task inside are the same
fact, the queue has each waiting task once, and a task that was woken is first in line while
the lock is free. From it `TypeCorrect`, `OneTaskInside` and
`TransactionImplementsSerialOperations`, the refinement step by step; for any number of
tasks and any depth. `LineHolds` is the invariant of the queue: from it `NoWakeUpIsLost`,
`NobodyIsOvertaken` (the order in the line is kept) and `FirstComeFirstServed`.

**EntryFlowProofs.** `OneEntryPerCharger` is inductive only with `FormsFit`: a form that sets a
charger up and has taken its unique id knows that there is no entry with one, which holds
because `Create` aborts the other forms of that id. It leaves out an entry without a unique id,
beside which a second one can be made, so every step of an entry's life is proved to leave the
other entry and the forms that ask for its code alone (`LifeKeeps`; an entry's own form asks
for no other entry). From it `ChargerHasOneEntry`, `RefusalIsAnnounced` and `CodesAreChecked`,
with `TypeCorrect`. `NewCodeIsDue` is inductive by itself: while the code in use is not the
stored one, the entry is not settled.

**EntityDiscoveryProofs.** An entity is pending, being added or present, and while the entry is
set up the registry has no obsolete entity: `TypeCorrect`, `EachIsHandedOverOnce`,
`EachIsEarned`, for any entities, needs and obsolete entries. `ExpectedIsUnderWay` needs
`ListFits`: what is still in the list after a refresh is not expected by it.

Only model-checked: the liveness properties themselves, as fairness and ENABLED are beyond
the prover. What makes them true in a step is proved: that whoever is waited for has a step
ahead, and that no step goes back.

| liveness property | its safety half |
| --- | --- |
| `FilesAreRemoved`, `SlotIsFreed` | `FilesAreCaredFor`, `SlotsAreCaredFor`, with `AttemptsOnlyAdvance` |
| `StopCompletes` | `StopIsNotBlocked`, with `AttemptsOnlyAdvance` |
| `EveryTaskEnds` | `NobodyWaitsForHimself` |
| `SessionEnds` | `NeverStuck`, with `SessionAdvances` |
| `EveryTaskGetsIn` | `NoWakeUpIsLost`, with `NobodyIsOvertaken` |
| `CodeTakesEffect` | `NewCodeIsDue` |
| `ExpectedEntityAppears` | `ExpectedIsUnderWay` |

## 6. Where code and documentation disagree

With a run of its own (see "findings" in `PROJECT.json`):

* `ErrorsStayWithTheirRequest` (`session_late`): the late error of one request fails the
  next.

Found in the same way, without a run of their own; each is a variant of a listed
configuration and a property of the module:

* `ServerIsClosed` (FirmwareProxy): the caller of an update is cancelled while UpdateFirmware is
  awaited. `except Exception` (`firmware_proxy.py:337`) does not catch the cancellation, so
  neither `async_close` nor `arm_cleanup` runs and the server listens until Home Assistant
  ends, though the file is to be exposed "for 15 minutes" (`README.md:63`). One attempt,
  `AllowCancel = TRUE`, `FairSpec` and this property fail. `ServersAreCaredFor` proves that
  it is the only way a server is left without a timer.
* `BusyEnds` (FirmwareProxy): `async_close` releases the slot before it awaits `server.close()`
  (`firmware_proxy.py:145`); a report of the session that is due by then sets the update in
  progress again (`firmware_proxy_state.py:75`), and no timer is left to end it. "Wait until
  it finishes." (`strings.json:257`) is then advice without end. One attempt, `FairSpec`.
  `ReleasedRevivesOnce` proves that once the server closes one such report is all there can be.
* `DisplayIsAuthoritative` (Coordinator): a refresh remembers the data before it waits for the
  lock (`coordinator.py:164`) and publishes it over a value that was verified meanwhile, in
  spite of "Read a written value back before exposing it as stored state."
  (`coordinator.py:282`). One writer, the operation `limit`, no failures.
* `CleanupIsComplete` (FirmwareProxy): `running_proxies` "return all proxy instances which
  still need cleanup" (`firmware_proxy_state.py:112`), but sees only the latest state
  object of a charger; the server of an earlier one, still closing or left open, is not
  in it. `proxy_slots` with this invariant fails. `OnlySupersededAreMissed` proves that a
  server that is missed is one whose entry another attempt has taken.
* `SweepSparesUpdates` (FirmwareProxy): the stop handler is to "Close live proxies and remove
  files left by an earlier process" (`firmware_proxy.py:159`), but `_remove_stale_directories`
  (`firmware_proxy.py:163`) takes every directory with the prefix, also that of an update which
  was being set up or was not listed and goes on: its server listens without its file until
  Home Assistant ends. `proxy_slots` with this invariant fails. `ServedDirectoryExists` proves
  that only the updates that were not listed lose a file.
* `OneUpdatePerCharger` (FirmwareProxy): a second update of a charger is refused with "A
  firmware update is already in progress for this charger." (`strings.json:487`), which keeps
  one update per charger in progress until a late report (`firmware_proxy_state.py:75`)
  revives the state of one that was released, beside its successor. `proxy_slots` with this invariant fails.
  `OneAttemptAwaitsCharger` is the part that does hold.
* `ScheduleAlwaysKept` (Coordinator): `async_set_led` promises "Set the app's idle LED controls
  while preserving schedule fields." (`coordinator.py:337`) and takes defaults when the last
  poll did not read the LED (`coordinator.py:342`). `coord_writes` with this property fails;
  `LedScheduleKept` and `ScheduleIsKept` say that there is no other way to lose the schedule.
* `LimitsOrdered` (Coordinator) fails with `MayMiss = {"min", "max"}`: when the other limit is
  not answered the check is skipped (`coordinator.py:243`), though a minimum above the
  maximum is announced as an error (`strings.json`, `minimum_above_maximum`).
* `NoticeUntilRestart` (Coordinator) fails in three ways: an answer `RebootRequired` is dropped
  when a later request of the same session fails (`coordinator.py:529`, `:555`); a
  firmware version that was cached before an update clears the notice of a setting
  written after it (`coordinator.py:269`); and the Wi-Fi forms set a network without the
  notice that the service raises for it (`config_flow.py:254`, `__init__.py:170`).
* `NoticeIsPersisted` and `NoticeClearedOnEvidence` (Coordinator) end with `overwritten`: an
  action or a refresh of the old coordinator can write the entry after the new one has read
  it (`coordinator.py:137`); the new one then shows, and later persists, something else.
* `NoDuplicateEntry` (EntryFlow): "Unique BLE address prevents duplicate manual and discovered
  entries." (`quality_scale.yaml:176`), but the form of a charger whose entry has no unique id
  takes the address as unique id (`config_flow.py:101`), which no entry has, and creates a
  second entry of the same address. `entry` with this invariant fails in three steps;
  `ChargerHasOneEntry` proves that there is no other way to a second entry.

Observed while modelling, where no text promises otherwise:

* A reconfigure form suppresses the reauth form. When it is closed without a new code, an
  entry that was refused meanwhile says nothing until its next attempt (`closed` in
  `EntryFlow`); the entry of a failed set-up makes none by itself.
* An action of an earlier load that ends after a new code works may still open a reauth form.
* A refresh whose caller is cancelled has taken the request for a full read
  (`coordinator.py:163`) and does not flag it again (`except Exception`, `coordinator.py:217`):
  the configuration is read when the last full read is thirty minutes old (`owed = "lost"`).
* `transaction` serializes one client. A form validates a code with a client of its own
  (`config_flow.py:146`), so it and the poll of the loaded entry may ask for the charger's
  only connection at once; one of them fails and is tried again.
* An entity whose task has not run when the platforms are unloaded may be added after it.
* The phase rotation of one station is written with the other stations' from the cache
  (`select.py:135`), and the auto-start mode and card each from a read before the lock: the
  rule "Keep read/modify/write operations together" (`coordinator.py:69`) stops at the
  coordinator's own methods.
* `FrameDecoder.feed` raises for a message that is not UTF-8 after it has taken earlier
  messages of the same notification out of its buffer (`protocol.py:144`): those are lost.

## 7. Not modelled

* *Firmware:* a location the charger fetches without the proxy; `SIZE`, log-in and
  listing of the FTP server; the choice of a release; cancellation inside aioftp's
  `Server.start`; what Home Assistant kills when the stop handler takes too long.
* *Coordinator:* the Wi-Fi status and network that are published (the notice they come with
  is modelled); `async_set_backend` as one transaction of two writes (each is); the health
  fields and `last_update_success`; the delay with which the
  config entries are saved; the values of URLs, APN and other texts; a write that the
  charger carries out long after its request timed out; settings changed with the
  vendor's app (they look like an accepted value that is not stored).
* *Lists:* attributes of cards other than the id (the code keeps none and writes
  `Accepted`); signal strengths; identifying and scanning, which change nothing here.
* *Session:* several frames in one notification (they are handled in order, as here);
  cancellation inside `establish_connection`, which is bleak's; the chunks of a request;
  code validation before a connection is tried.
* *Transaction:* other users of the lock (there are none); `transaction()` entered by a task
  that is inside a session, which no code does.
* *Entry:* an unload always succeeds and does not wait; "ignore" on a discovered device; the
  option menu. Removing an entry also aborts its reconfigure form here, which Home Assistant
  does for the forms that name the entry.
* *Discovery:* several platforms (each has its own list, and they share only the registry,
  where unique ids of two current platforms differ); disabled and hidden entities.
* *Decoder and parsers* (`protocol.py`): `FrameDecoder.feed` and `parse_*` are sequential
  functions of their input, which the repository's tests exercise byte by byte and value by
  value. `Session` keeps what matters between steps: one bad message, or a buffer that never
  recovers. A byte-level module would be as long as the code.
* *Computed selections* (phase rotation, auto-start mode, CCID): strings computed from cached
  data; section 6 names what can go wrong.
* *Choice of a release, direct firmware locations, diagnostics, presentation, translations,
  tables:* pure functions of their input or user interface; no order of steps.

## 8. Plan

Done, in this order: `FirmwareProxy`, `Coordinator`, `Session`, `ChargerLists`, `BleTransaction`
with `SerialOperations`, `EntryFlow`, `EntityDiscovery`, the proofs of all of them,
`AtomicEdits` with its refinement, and the safety halves of the liveness properties.

What would come next:

1. The lock of `ChargerLists` as an instance of `SerialOperations`, as `LockIsSerial` is for
   that of `Coordinator`.
2. `EntryFlow` with the coordinator of `Coordinator!Reload`, for the notice over a reload that a
   form has caused, with an action of the old coordinator under way (`ReloadBusy`).
3. The computed selections, as a lost update of one string between two tasks.

Each run asks several questions of one module; a new one is worth it only for a module
that is not covered by another.

## 9. How to run

In this directory: `tlc -workers 2 -config MCSession_session.cfg MCSession` for a run
(the table of runs in `PROJECT.json` pairs modules and configurations), and
`tlapm ChargerListsProofs.tla` for the proofs of a module. A run takes seconds to two
minutes, the proofs of a module one to several minutes.
