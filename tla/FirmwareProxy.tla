--------------------------- MODULE FirmwareProxy ---------------------------
(***************************************************************************)
(* The temporary FTP bridge that hands a firmware image to a charger:      *)
(* firmware_proxy.py (the setup, the command, the expiry and the cleanup), *)
(* firmware_proxy_state.py (the registry of update slots), ftp_server.py   *)
(* (the transfer and its reports) and the part of update.py that takes the *)
(* version read over BLE as proof of installation.                         *)
(*                                                                         *)
(* Every await of the coroutines is a stage, and whatever else the event   *)
(* loop may run while a coroutine waits there can fall between two stages. *)
(***************************************************************************)
EXTENDS Integers, FiniteSets

CONSTANTS
    Attempts,    \* calls of async_start_firmware_update with a web URL
    Chargers,    \* charger IP addresses, the keys of the registry
    Versions,    \* firmware releases
    None,        \* "no value" for an attempt, a version
    Parts,       \* percentage steps a transfer is reported in
    AllowCancel, \* may the task that called the service be cancelled?
    AllowCrash   \* may the Home Assistant process die at any point?

ASSUME ConstantsAssumption ==
    /\ None \notin Attempts
    /\ None \notin Versions
    /\ Parts \in Nat \ {0}
    /\ AllowCancel \in BOOLEAN
    /\ AllowCrash \in BOOLEAN

VARIABLES
    ha,          \* the Home Assistant process
    registry,    \* hass.data[DOMAIN]["firmware_proxies"]
    chargerOf,   \* charger_ip of an attempt
    stage,       \* where the calling coroutine of an attempt stands
    st,          \* the FirmwareUpdateState of an attempt
    closing,     \* how far async_close of an attempt's proxy has got
    session,     \* what the charger's FTP session with the proxy is doing
    sent,        \* transferred_bytes of the running transfer, in parts
    lastPct,     \* last_percentage, the closure variable of report_transfer
    dir,         \* does the attempt's evbox-firmware-* directory exist?
    toClose,     \* proxies the stop handler still has to close
    current,     \* the proxy the stop handler is closing
    baseline,    \* initial_version and target_version of an attempt
    reported,    \* firmware version in the coordinator's cached BootInfo
    served,      \* history: the attempt's server answered a RETR
    missed       \* history: attempts the stop handler did not find, then
                 \* those of them whose directory it removed

setupVars == <<registry, chargerOf, baseline>>
ftpVars   == <<session, sent, lastPct, served>>
stopVars  == <<ha, toClose, current, missed>>
vars == <<ha, registry, chargerOf, stage, st, closing, session, sent, lastPct,
          dir, toClose, current, baseline, reported, served, missed>>

-----------------------------------------------------------------------------
(***************************************************************************)
(* Types                                                                   *)
(***************************************************************************)

\* The awaits of _async_create_proxy, in order: the route and the download, which
\* fail alike, then mkdtemp, write_bytes and the start of the server.
Setup == {"fetching", "making", "writing", "starting"}

\* The proxy exists: the command is awaited, the expiry is armed, the command
\* failed and the caller closes the proxy ("cut" if it is cancelled there), or
\* the caller was cancelled with the command.
Activated == {"commanding", "armed", "failed", "cut", "unarmed"}

Stage == Setup \cup Activated
            \cup {"idle", "refused", "aborting", "aborting_race", "over", "gone"}

Phase == {"preparing", "waiting_for_charger", "downloading",
          "waiting_for_installation", "error", "installed"}

Error == {"none", "transfer_failed", "ftp_unreachable",
          "installation_unconfirmed", "firmware_command_failed"}

UpdateState == [in_progress: BOOLEAN, phase: Phase, error: Error, proxy: BOOLEAN]

NewState == [in_progress |-> TRUE, phase |-> "preparing",
             error |-> "none", proxy |-> FALSE]

\* An attempt that has not reserved a slot has no state object yet.
NoState == [NewState EXCEPT !.in_progress = FALSE]

NoBaseline == [initial |-> None, target |-> None]

TypeOK ==
    /\ ha \in {"running", "stopping", "stopped", "down"}
    /\ registry \in [Chargers -> Attempts \cup {None}]
    /\ chargerOf \in [Attempts -> Chargers]
    /\ stage \in [Attempts -> Stage]
    /\ st \in [Attempts -> UpdateState]
    /\ closing \in [Attempts -> {"open", "server", "drained", "files", "done"}]
    /\ session \in [Attempts -> {"none", "requested", "waiting", "sending"}]
    /\ sent \in [Attempts -> 0..Parts]
    /\ lastPct \in [Attempts -> -1..Parts]
    /\ dir \in [Attempts -> BOOLEAN]
    /\ toClose \in SUBSET Attempts
    /\ current \in Attempts \cup {None}
    /\ baseline \in [Attempts -> [initial: Versions \cup {None},
                                  target: Versions \cup {None}]]
    /\ reported \in [Chargers -> Versions \cup {None}]
    /\ served \in [Attempts -> BOOLEAN]
    /\ missed \in SUBSET Attempts

Init ==
    /\ ha = "running"
    /\ registry = [c \in Chargers |-> None]
    /\ chargerOf \in [Attempts -> Chargers]
    /\ stage = [u \in Attempts |-> "idle"]
    /\ st = [u \in Attempts |-> NoState]
    /\ closing = [u \in Attempts |-> "open"]
    /\ session = [u \in Attempts |-> "none"]
    /\ sent = [u \in Attempts |-> 0]
    /\ lastPct = [u \in Attempts |-> -1]
    /\ dir = [u \in Attempts |-> FALSE]
    /\ toClose = {}
    /\ current = None
    /\ baseline = [u \in Attempts |-> NoBaseline]
    /\ reported \in [Chargers -> Versions \cup {None}]
    /\ served = [u \in Attempts |-> FALSE]
    /\ missed = {}

-----------------------------------------------------------------------------
(***************************************************************************)
(* firmware_proxy_state.py                                                 *)
(***************************************************************************)

\* Mutant of Busy: an update counts only once its proxy is attached.
Busy_OnceAttached(c) ==
    registry[c] # None /\ st[registry[c]].in_progress /\ st[registry[c]].proxy

\* proxy_is_active
Busy(c) == registry[c] # None /\ st[registry[c]].in_progress

\* activate_proxy
Attached(s) == [s EXCEPT !.proxy = TRUE, !.phase = "waiting_for_charger"]

\* update_transfer: progress, or a terminal state
UpdateTransfer(s, phase, error) ==
    [s EXCEPT !.phase = phase, !.error = error,
              !.in_progress = phase \notin {"error", "installed"}]

\* Mutant of Released: only a release with an error ends the update.
Released_OnlyOnError(u, withProxy, error) ==
    IF registry[chargerOf[u]] # u \/ error = "none"
    THEN st[u]
    ELSE [st[u] EXCEPT !.proxy = FALSE, !.in_progress = FALSE,
                       !.phase = "error", !.error = error]

\* release_proxy: only the state that holds the slot is released, and a state
\* that is already terminal keeps its phase and error
Released(u, withProxy, error) ==
    IF registry[chargerOf[u]] # u \/ (withProxy /\ ~st[u].proxy)
    THEN st[u]
    ELSE [st[u] EXCEPT
            !.proxy = FALSE,
            !.in_progress = FALSE,
            !.phase = IF st[u].in_progress /\ error # "none" THEN "error" ELSE @,
            !.error = IF st[u].in_progress /\ error # "none" THEN error ELSE @]

\* running_proxies
RunningProxies ==
    {u \in Attempts : registry[chargerOf[u]] = u /\ st[u].proxy}

\* The FTP server listens from its start until async_close.
Listening(u) == stage[u] \in Activated /\ closing[u] = "open"

-----------------------------------------------------------------------------
(***************************************************************************)
(* _async_create_proxy                                                     *)
(***************************************************************************)

\* reserve_proxy, and the first await
Reserve(u) ==
    /\ ha # "down"
    /\ stage[u] = "idle"
    /\ ~Busy(chargerOf[u])
    /\ registry' = [registry EXCEPT ![chargerOf[u]] = u]
    /\ st' = [st EXCEPT ![u] = NewState]
    /\ stage' = [stage EXCEPT ![u] = "fetching"]
    /\ UNCHANGED <<chargerOf, baseline, closing, dir, ftpVars, stopVars, reported>>

\* firmware_busy
Refuse(u) ==
    /\ ha # "down"
    /\ stage[u] = "idle"
    /\ Busy(chargerOf[u])
    /\ stage' = [stage EXCEPT ![u] = "refused"]
    /\ UNCHANGED <<setupVars, st, closing, dir, ftpVars, stopVars, reported>>

\* The next await: image downloaded, directory made, file written, to the end even
\* if its directory is removed meanwhile.
Proceed(u) ==
    /\ \E step \in {<<"fetching", "making">>, <<"making", "writing">>,
                    <<"writing", "starting">>} :
          /\ stage[u] = step[1]
          /\ stage' = [stage EXCEPT ![u] = step[2]]
    /\ dir' = [dir EXCEPT ![u] = @ \/ stage[u] = "making"]
    /\ UNCHANGED <<setupVars, st, closing, ftpVars, stopVars, reported>>

\* The server has started: activate_proxy, and then async_start_firmware_update
\* records the version to compare with and sends UpdateFirmware.
Activate(u) ==
    /\ stage[u] = "starting"
    /\ stage' = [stage EXCEPT ![u] = "commanding"]
    /\ st' = [st EXCEPT ![u] = Attached(@)]
    /\ \E target \in Versions \cup {None} :
          baseline' = [baseline EXCEPT ![u] =
                          [initial |-> reported[chargerOf[u]], target |-> target]]
    /\ UNCHANGED <<registry, chargerOf, closing, dir, ftpVars, stopVars, reported>>

\* An exception in the setup releases the slot, and removes the directory when
\* the coroutine knows its name.
Abort(u, next) ==
    /\ stage[u] \in Setup
    /\ st' = [st EXCEPT ![u] = Released(u, FALSE, "none")]
    /\ stage' = [stage EXCEPT ![u] = next]
    /\ UNCHANGED <<setupVars, closing, ftpVars, stopVars, reported>>

\* Mutant of SetupFails: the directory is forgotten.
SetupFails_KeepsDirectory(u) ==
    /\ Abort(u, "over")
    /\ UNCHANGED dir

SetupFails(u) ==
    /\ Abort(u, IF stage[u] \in {"writing", "starting"} THEN "aborting" ELSE "over")
    /\ UNCHANGED dir

\* CancelledError. The executor thread is not cancelled: a mkdtemp or a
\* write_bytes in progress still runs, beside or after the rmtree.
SetupCancelled(u) ==
    /\ AllowCancel
    /\ Abort(u, CASE stage[u] = "writing"  -> "aborting_race"
                  [] stage[u] = "starting" -> "aborting"
                  [] OTHER                 -> "over")
    /\ dir' = [dir EXCEPT ![u] = @ \/ stage[u] = "making"]

RemoveAborted(u) ==
    /\ \/ /\ stage[u] = "aborting"
          /\ dir' = [dir EXCEPT ![u] = FALSE]
       \/ /\ stage[u] = "aborting_race"
          /\ \E left \in BOOLEAN : dir' = [dir EXCEPT ![u] = left]
    /\ stage' = [stage EXCEPT ![u] = "over"]
    /\ UNCHANGED <<setupVars, st, closing, ftpVars, stopVars, reported>>

-----------------------------------------------------------------------------
(***************************************************************************)
(* async_start_firmware_update after the proxy exists, and async_close     *)
(***************************************************************************)

\* async_close up to its first await. A second call returns at once.
Close(u, error) ==
    IF closing[u] = "open"
    THEN /\ closing' = [closing EXCEPT ![u] = "server"]
         /\ st' = [st EXCEPT ![u] = Released(u, TRUE, error)]
    ELSE UNCHANGED <<closing, st>>

\* The charger accepted UpdateFirmware: arm_cleanup.
CommandAccepted(u) ==
    /\ stage[u] = "commanding"
    /\ stage' = [stage EXCEPT ![u] = "armed"]
    /\ UNCHANGED <<setupVars, st, closing, dir, ftpVars, stopVars, reported>>

\* Mutant of CommandFailed: the caller leaves the proxy open.
CommandFailed_LeavesProxy(u) ==
    /\ stage[u] = "commanding"
    /\ stage' = [stage EXCEPT ![u] = "failed"]
    /\ UNCHANGED <<setupVars, st, closing, dir, ftpVars, stopVars, reported>>

\* Rejection, timeout or lost connection: the caller closes the proxy, unless
\* the stop handler is closing it already.
CommandFailed(u) ==
    /\ stage[u] = "commanding"
    /\ stage' = [stage EXCEPT ![u] = IF closing[u] = "open" THEN "failed" ELSE "over"]
    /\ Close(u, "firmware_command_failed")
    /\ UNCHANGED <<setupVars, dir, ftpVars, stopVars, reported>>

\* CancelledError is not an Exception: neither close nor arm_cleanup runs.
CommandCancelled(u) ==
    /\ AllowCancel
    /\ stage[u] = "commanding"
    /\ stage' = [stage EXCEPT ![u] = "unarmed"]
    /\ UNCHANGED <<setupVars, st, closing, dir, ftpVars, stopVars, reported>>

\* _async_expire, after _FTP_LIFETIME
Expire(u) ==
    /\ stage[u] = "armed"
    /\ closing[u] = "open"
    /\ Close(u, IF st[u].phase = "waiting_for_charger"
                THEN "ftp_unreachable" ELSE "installation_unconfirmed")
    /\ UNCHANGED <<setupVars, stage, dir, ftpVars, stopVars, reported>>

\* The caller that waits in async_close is cancelled: the server still closes,
\* the rmtree after it is never reached.
CloseCancelled(u) ==
    /\ AllowCancel
    /\ stage[u] = "failed"
    /\ closing[u] \in {"server", "drained"}
    /\ stage' = [stage EXCEPT ![u] = "cut"]
    /\ UNCHANGED <<setupVars, closing, st, dir, ftpVars, stopVars, reported>>

\* Mutant of RemoveDirectory: no job is started while Home Assistant stops.
RemoveDirectory_NotWhenStopping(u) ==
    /\ ha = "running"
    /\ closing[u] = "files"
    /\ closing' = [closing EXCEPT ![u] = "done"]
    /\ dir' = [dir EXCEPT ![u] = FALSE]
    /\ UNCHANGED <<setupVars, stage, st, ftpVars, stopVars, reported>>

RemoveDirectory(u) ==
    /\ closing[u] = "files"
    /\ closing' = [closing EXCEPT ![u] = "done"]
    /\ dir' = [dir EXCEPT ![u] = FALSE]
    /\ UNCHANGED <<setupVars, stage, st, ftpVars, stopVars, reported>>

-----------------------------------------------------------------------------
(***************************************************************************)
(* ftp_server.py: the charger's session and report_transfer.               *)
(* server.close() cancels the connection's dispatcher, and only that task, *)
(* at its next turn, cancels the session's worker: a worker that is ready  *)
(* by then takes one more step after the proxy was released.               *)
(***************************************************************************)

SessionStep(u) ==
    /\ Listening(u) \/ closing[u] = "server"
    /\ closing' = [closing EXCEPT ![u] = IF @ = "server" THEN "drained" ELSE @]

\* Mutant of Report: last_percentage starts at 0.
Report_FromZero(u, phase, pct, error) ==
    IF phase = "downloading" /\ pct = (IF lastPct[u] = -1 THEN 0 ELSE lastPct[u])
    THEN UNCHANGED <<st, lastPct>>
    ELSE /\ lastPct' = [lastPct EXCEPT ![u] = pct]
         /\ st' = [st EXCEPT ![u] = UpdateTransfer(@, phase, error)]

\* report_transfer: an unchanged percentage is not reported again
Report(u, phase, pct, error) ==
    IF phase = "downloading" /\ pct = lastPct[u]
    THEN UNCHANGED <<st, lastPct>>
    ELSE /\ lastPct' = [lastPct EXCEPT ![u] = pct]
         /\ st' = [st EXCEPT ![u] = UpdateTransfer(@, phase, error)]

ftpFrame == <<registry, chargerOf, baseline, stage, dir, stopVars, reported>>

\* The charger connects and sends RETR for a file that exists; retr waits for its size.
Retr(u) ==
    /\ Listening(u)
    /\ dir[u]
    /\ session[u] = "none"
    /\ session' = [session EXCEPT ![u] = "requested"]
    /\ UNCHANGED <<ftpFrame, closing, st, sent, lastPct, served>>

\* retr starts the transfer task, which waits for the data connection.
RetrStarts(u) ==
    /\ SessionStep(u)
    /\ dir[u]
    /\ session[u] = "requested"
    /\ session' = [session EXCEPT ![u] = "waiting"]
    /\ served' = [served EXCEPT ![u] = TRUE]
    /\ Report(u, "downloading", 0, "none")
    /\ UNCHANGED <<ftpFrame, sent>>

\* The data connection and the file are open; REST may have set an offset.
DataOpened(u) ==
    /\ SessionStep(u)
    /\ dir[u]
    /\ session[u] = "waiting"
    /\ session' = [session EXCEPT ![u] = "sending"]
    /\ \E offset \in 0..Parts : sent' = [sent EXCEPT ![u] = offset]
    /\ UNCHANGED <<ftpFrame, st, lastPct, served>>

\* No data connection, or no file any more
DataRefused(u) ==
    /\ SessionStep(u)
    /\ session[u] = "waiting"
    /\ session' = [session EXCEPT ![u] = "none"]
    /\ Report(u, "error", 0, "transfer_failed")
    /\ UNCHANGED <<ftpFrame, sent, served>>

\* Mutant of Progress: the end of the file is not noticed.
Progress_PastEnd(u) ==
    /\ SessionStep(u)
    /\ session[u] = "sending"
    /\ sent' = [sent EXCEPT ![u] = @ + 1]
    /\ Report(u, "downloading", sent[u] + 1, "none")
    /\ UNCHANGED <<ftpFrame, session, served>>

Progress(u) ==
    /\ SessionStep(u)
    /\ session[u] = "sending"
    /\ sent[u] < Parts
    /\ sent' = [sent EXCEPT ![u] = @ + 1]
    /\ Report(u, "downloading", sent[u] + 1, "none")
    /\ UNCHANGED <<ftpFrame, session, served>>

TransferDone(u) ==
    /\ SessionStep(u)
    /\ session[u] = "sending"
    /\ sent[u] = Parts
    /\ session' = [session EXCEPT ![u] = "none"]
    /\ sent' = [sent EXCEPT ![u] = 0]
    /\ Report(u, "waiting_for_installation", Parts, "none")
    /\ UNCHANGED <<ftpFrame, served>>

\* The session ends: the data connection broke, the charger aborted or went
\* away. Only a transfer that is sending reports it.
EndSession(u) ==
    /\ session' = [session EXCEPT ![u] = "none"]
    /\ sent' = [sent EXCEPT ![u] = 0]
    /\ IF session[u] = "sending"
       THEN Report(u, "error", sent[u], "transfer_failed")
       ELSE UNCHANGED <<st, lastPct>>

SessionLost(u) ==
    /\ SessionStep(u)
    /\ session[u] # "none"
    /\ EndSession(u)
    /\ UNCHANGED <<ftpFrame, served>>

\* server.close() has cancelled and awaited the session.
ServerClosed(u) ==
    /\ closing[u] \in {"server", "drained"}
    /\ closing' = [closing EXCEPT ![u] = IF stage[u] = "cut" THEN "done" ELSE "files"]
    /\ EndSession(u)
    /\ UNCHANGED <<ftpFrame, served>>

-----------------------------------------------------------------------------
(***************************************************************************)
(* Installation, as the update entity sees it                              *)
(***************************************************************************)

\* Mutant of Proven: a changed version is enough.
Proven_AnyPhase(u, installed) ==
    /\ baseline[u].initial # None
    /\ installed # baseline[u].initial
    /\ baseline[u].target \in {None, installed}

\* The proof _handle_coordinator_update asks for
Proven(u, installed) ==
    /\ baseline[u].initial # None
    /\ installed # baseline[u].initial
    /\ baseline[u].target \in {None, installed}
    /\ st[u].phase = "waiting_for_installation"

\* A full refresh reads BootInfo, whatever release the charger runs by then, and
\* the update entity looks at it at once.
FullRefresh(c) ==
    /\ ha # "down"
    /\ \E installed \in Versions :
          /\ reported' = [reported EXCEPT ![c] = installed]
          /\ IF registry[c] # None /\ Proven(registry[c], installed)
             THEN st' = [st EXCEPT ![registry[c]] =
                            UpdateTransfer(@, "installed", "none")]
             ELSE UNCHANGED st
    /\ UNCHANGED <<setupVars, stage, closing, dir, ftpVars, stopVars>>

-----------------------------------------------------------------------------
(***************************************************************************)
(* Stop, crash and start of Home Assistant                                 *)
(***************************************************************************)

\* EVENT_HOMEASSISTANT_STOP: async_cleanup_firmware_proxies takes the list of
\* proxies once and closes them one after the other.
BeginStop ==
    /\ ha = "running"
    /\ ha' = "stopping"
    /\ toClose' = RunningProxies
    /\ missed' = Attempts \ RunningProxies
    /\ UNCHANGED <<setupVars, stage, st, closing, dir, current, ftpVars, reported>>

\* The stop handler awaits async_close of one proxy before it takes the next;
\* for a proxy that is closed already async_close returns at once.
StopIdle == current # None => closing[current] = "done"

StopCloses(u) ==
    /\ ha = "stopping"
    /\ StopIdle
    /\ u \in toClose
    /\ toClose' = toClose \ {u}
    /\ current' = IF closing[u] = "open" THEN u ELSE None
    /\ Close(u, "none")
    /\ UNCHANGED <<setupVars, stage, dir, ha, missed, ftpVars, reported>>

\* Mutant of FinishStop: a proxy that is being closed is not waited for.
FinishStop_NoClose ==
    /\ ha = "stopping"
    /\ ha' = "stopped"
    /\ toClose' = {}
    /\ current' = None
    /\ dir' = [u \in Attempts |-> FALSE]
    /\ missed' = {u \in missed : dir[u]}
    /\ UNCHANGED <<setupVars, stage, st, closing, ftpVars, reported>>

\* _remove_stale_directories removes every directory with the prefix, an image that
\* is being written perhaps not. Home Assistant goes on with its later stages.
FinishStop ==
    /\ ha = "stopping"
    /\ StopIdle
    /\ toClose = {}
    /\ ha' = "stopped"
    /\ current' = None
    /\ \E left \in SUBSET {u \in Attempts : stage[u] \in {"writing", "aborting_race"}} :
          /\ dir' = [u \in Attempts |-> dir[u] /\ u \in left]
          /\ missed' = {u \in missed : dir[u]} \ left
    /\ UNCHANGED <<setupVars, stage, st, closing, toClose, ftpVars, reported>>

\* The process ends, and with it every task, server and state object.
ProcessEnds ==
    /\ ha' = "down"
    /\ registry' = [c \in Chargers |-> None]
    /\ stage' = [u \in Attempts |-> IF stage[u] = "idle" THEN "idle" ELSE "gone"]
    /\ st' = [u \in Attempts |-> NoState]
    /\ closing' = [u \in Attempts |-> "open"]
    /\ session' = [u \in Attempts |-> "none"]
    /\ sent' = [u \in Attempts |-> 0]
    /\ lastPct' = [u \in Attempts |-> -1]
    /\ toClose' = {}
    /\ current' = None
    /\ baseline' = [u \in Attempts |-> NoBaseline]
    /\ reported' = [c \in Chargers |-> None]
    /\ served' = [u \in Attempts |-> FALSE]
    /\ missed' = {}
    /\ UNCHANGED <<chargerOf, dir>>

Exit ==
    /\ ha = "stopped"
    /\ ProcessEnds

Crash ==
    /\ AllowCrash
    /\ ha # "down"
    /\ ProcessEnds

\* async_setup cleans up with an empty registry.
Boot ==
    /\ ha = "down"
    /\ ha' = "running"
    /\ dir' = [u \in Attempts |-> FALSE]
    /\ UNCHANGED <<setupVars, stage, st, closing, toClose, current, missed, ftpVars,
                   reported>>

-----------------------------------------------------------------------------
Caller(u) ==
    \/ Reserve(u) \/ Refuse(u) \/ Proceed(u) \/ Activate(u)
    \/ SetupFails(u) \/ SetupCancelled(u) \/ RemoveAborted(u)
    \/ CommandAccepted(u) \/ CommandFailed(u) \/ CommandCancelled(u)
    \/ Expire(u) \/ CloseCancelled(u) \/ RemoveDirectory(u)

Ftp(u) ==
    \/ Retr(u) \/ RetrStarts(u) \/ DataOpened(u) \/ DataRefused(u)
    \/ Progress(u) \/ TransferDone(u) \/ SessionLost(u) \/ ServerClosed(u)

Next ==
    \/ \E u \in Attempts : Caller(u) \/ Ftp(u) \/ StopCloses(u)
    \/ \E c \in Chargers : FullRefresh(c)
    \/ BeginStop \/ FinishStop \/ Exit \/ Crash \/ Boot

Spec == Init /\ [][Next]_vars

\* What the event loop and the timeouts guarantee: every await of the setup
\* ends, a BLE request ends (aiohttp and the request have timeouts), an armed
\* expiry fires, a closing server closes, the executor removes the files, and the
\* stop handler and the stages after it go on to the end of the process. Nothing makes
\* a charger come, or Home Assistant stop or start.
Fairness ==
    /\ \A u \in Attempts :
          /\ WF_vars(\/ Proceed(u) \/ Activate(u) \/ SetupFails(u) \/ RemoveAborted(u)
                     \/ CommandAccepted(u) \/ CommandFailed(u))
          /\ WF_vars(Expire(u))
          /\ WF_vars(ServerClosed(u) \/ RemoveDirectory(u))
    /\ WF_vars((\E u \in Attempts : StopCloses(u)) \/ FinishStop)
    /\ WF_vars(Exit)

FairSpec == Spec /\ Fairness

-----------------------------------------------------------------------------
(***************************************************************************)
(* Safety                                                                  *)
(***************************************************************************)

\* From the reservation to the activation an attempt holds its charger's slot,
\* whatever releases, reports and other attempts fall in between: the
\* RuntimeError of activate_proxy is never raised.
SlotHeldDuringSetup ==
    \A u \in Attempts :
        stage[u] \in Setup => registry[chargerOf[u]] = u /\ st[u].in_progress

\* While a server listens, the directory it serves exists: no setup that fails, close
\* that is under way or start removes the image under a charger that may still fetch
\* it. Only the stop handler does: once it has closed the proxies it found, it removes
\* the directories of the updates it did not find, while Home Assistant still runs.
ServedFileExists ==
    \A u \in Attempts : Listening(u) => dir[u] \/ (ha = "stopped" /\ u \in missed)

\* The timeout of async_expire tells a charger that never came from an
\* installation that was not confirmed: "ftp_unreachable" only if no RETR was
\* ever answered, "installation_unconfirmed" only if one was.
TimeoutVerdict ==
    \A u \in Attempts :
        /\ st[u].error = "ftp_unreachable" => ~served[u]
        /\ st[u].error = "installation_unconfirmed" => served[u]

\* Two attempts for one charger are never both being prepared or waiting for the
\* charger to begin: the charger is sent a new location only when no other
\* location is waiting to be fetched.
OneAttemptAwaitsCharger ==
    \A u, v \in Attempts :
        (/\ chargerOf[u] = chargerOf[v]
         /\ \A w \in {u, v} :
               /\ st[w].in_progress
               /\ st[w].phase \in {"preparing", "waiting_for_charger"})
        => u = v

\* The update entity reports an update as installed only for the attempt that
\* holds the slot, after the whole image was sent, and when the charger reports
\* the release the attempt asked for, which it did not report when the attempt
\* was handed to it.
InstalledIsProven ==
    [][\A u \in Attempts :
         LET c == chargerOf[u] IN
            st[u].phase # "installed" /\ st'[u].phase = "installed"
            => /\ registry[c] = u
               /\ lastPct[u] = Parts
               /\ baseline[u].target \in {None, reported'[c]}
               /\ baseline[u].initial \notin {None, reported'[c]}]_vars

-----------------------------------------------------------------------------
(***************************************************************************)
(* Liveness, under FairSpec                                                *)
(***************************************************************************)

\* Every server that listens is closed in the end: the image is exposed for a
\* bounded time (the timer armed by arm_cleanup).
ServerIsClosed ==
    \A u \in Attempts : Listening(u) ~> ~Listening(u)

\* Every downloaded image is removed from the disk in the end, however the
\* setup, the command or the transfer goes; after a crash, at the next start.
FilesAreRemoved ==
    \A u \in Attempts : dir[u] ~> (~dir[u] \/ ha = "down")

\* Every reservation ends: the update is no longer in progress, or its proxy is
\* closed.
SlotIsFreed ==
    \A u \in Attempts :
        st[u].in_progress ~> (~st[u].in_progress \/ closing[u] # "open")

\* The stop handler, which awaits one close after the other, always gets through,
\* whoever else closes the same proxies.
StopCompletes ==
    ha = "stopping" ~> ha \in {"stopped", "down"}

-----------------------------------------------------------------------------
(***************************************************************************)
(* Statements of the repository that the code does not keep                *)
(***************************************************************************)

\* running_proxies returns all proxy instances which still need cleanup.
CleanupIsComplete ==
    \A u \in Attempts : Listening(u) => u \in RunningProxies

\* The stop handler closes live proxies and removes files left by an earlier process,
\* not the files of an update that goes on.
SweepSparesUpdates ==
    ha = "stopped" => \A u \in missed : stage[u] \notin Setup /\ ~Listening(u)

\* Only one update can be active per charger.
OneUpdatePerCharger ==
    \A u, v \in Attempts :
        (chargerOf[u] = chargerOf[v] /\ st[u].in_progress /\ st[v].in_progress)
        => u = v

\* A user who is told that an update is in progress can wait until it finishes.
BusyEnds ==
    \A c \in Chargers : Busy(c) ~> ~Busy(c)
=============================================================================
