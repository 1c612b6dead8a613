------------------------- MODULE FirmwareProxyProofs -------------------------
(***************************************************************************)
(* Type correctness and the safety properties of FirmwareProxy, for any    *)
(* number of attempts, chargers, releases and progress steps, with         *)
(* cancelled callers and crashes.                                          *)
(***************************************************************************)
EXTENDS FirmwareProxy, TLAPS

-----------------------------------------------------------------------------
(***************************************************************************)
(* Lemmas about the operators of firmware_proxy_state.py and report_transfer *)
(***************************************************************************)

\* update_transfer yields a state object.
LEMMA UpdateTransferType ==
    ASSUME NEW s \in UpdateState, NEW phase \in Phase, NEW error \in Error
    PROVE  /\ UpdateTransfer(s, phase, error) \in UpdateState
           /\ UpdateTransfer(s, phase, error).phase = phase
           /\ UpdateTransfer(s, phase, error).error = error
           /\ UpdateTransfer(s, phase, error).proxy = s.proxy
           /\ UpdateTransfer(s, phase, error).in_progress
                = (phase \notin {"error", "installed"})
  BY DEF UpdateTransfer, UpdateState

\* release_proxy never starts an update; it keeps the phase and the error, or it
\* ends an update that was in progress with the given error.
LEMMA ReleasedType ==
    ASSUME TypeOK, NEW u \in Attempts, NEW w \in BOOLEAN, NEW error \in Error
    PROVE  /\ Released(u, w, error) \in UpdateState
           /\ Released(u, w, error).in_progress => st[u].in_progress
           /\ Released(u, w, error).proxy => st[u].proxy
           /\ \/ /\ Released(u, w, error).phase = st[u].phase
                 /\ Released(u, w, error).error = st[u].error
              \/ /\ Released(u, w, error).phase = "error"
                 /\ Released(u, w, error).error = error
                 /\ st[u].in_progress
                 /\ error # "none"
  <1>1. st[u] \in UpdateState
    BY DEF TypeOK
  <1>2. CASE registry[chargerOf[u]] # u \/ (w /\ ~st[u].proxy)
    BY <1>1, <1>2 DEF Released
  <1>3. CASE ~(registry[chargerOf[u]] # u \/ (w /\ ~st[u].proxy))
    BY <1>1, <1>3 DEF Released, UpdateState, Phase
  <1>4. QED
    BY <1>2, <1>3

\* report_transfer either is silent or passes its arguments to update_transfer.
LEMMA ReportEffect ==
    ASSUME TypeOK, NEW u \in Attempts, NEW phase \in Phase, NEW pct \in 0..Parts,
           NEW error \in Error, Report(u, phase, pct, error)
    PROVE  /\ st' \in [Attempts -> UpdateState]
           /\ lastPct' \in [Attempts -> -1..Parts]
           /\ \A v \in Attempts \ {u} : st'[v] = st[v] /\ lastPct'[v] = lastPct[v]
           /\ st'[u].proxy = st[u].proxy
           /\ \/ /\ phase = "downloading"
                 /\ pct = lastPct[u]
                 /\ st'[u] = st[u]
                 /\ lastPct'[u] = lastPct[u]
              \/ /\ st'[u].phase = phase
                 /\ st'[u].error = error
                 /\ st'[u].in_progress = (phase \notin {"error", "installed"})
                 /\ lastPct'[u] = pct
  <1>1. st[u] \in UpdateState
    BY DEF TypeOK
  <1>2. CASE phase = "downloading" /\ pct = lastPct[u]
    BY <1>1, <1>2 DEF Report, TypeOK
  <1>3. CASE ~(phase = "downloading" /\ pct = lastPct[u])
    <2>1. /\ lastPct' = [lastPct EXCEPT ![u] = pct]
          /\ st' = [st EXCEPT ![u] = UpdateTransfer(st[u], phase, error)]
      BY <1>3 DEF Report
    <2>2. UpdateTransfer(st[u], phase, error) \in UpdateState
      BY <1>1, UpdateTransferType
    <2>3. lastPct' \in [Attempts -> -1..Parts]
      BY <2>1, ConstantsAssumption DEF TypeOK
    <2>4. QED
      BY <1>1, <2>1, <2>2, <2>3, UpdateTransferType DEF TypeOK
  <1>4. QED
    BY <1>2, <1>3

-----------------------------------------------------------------------------
(***************************************************************************)
(* Type correctness                                                        *)
(***************************************************************************)

\* The initial state is typed.
LEMMA InitType == Init => TypeOK
  <1> SUFFICES ASSUME Init PROVE TypeOK
    OBVIOUS
  <1>1. NoState \in UpdateState
    BY DEF NoState, NewState, UpdateState, Phase, Error
  <1>2. NoBaseline \in [initial: Versions \cup {None}, target: Versions \cup {None}]
    BY DEF NoBaseline
  <1>3. QED
    BY <1>1, <1>2, ConstantsAssumption DEF Init, TypeOK, Stage

\* The caller's steps preserve the types.
LEMMA CallerType ==
    ASSUME TypeOK, NEW u \in Attempts, Caller(u)
    PROVE  TypeOK'
  <1> USE DEF TypeOK, setupVars, ftpVars, stopVars
  <1>1. CASE Reserve(u)
    <2>1. NewState \in UpdateState
      BY DEF NewState, UpdateState, Phase, Error
    <2>2. QED
      BY <1>1, <2>1 DEF Reserve, Stage, Setup
  <1>2. CASE Refuse(u)
    BY <1>2 DEF Refuse, Stage
  <1>3. CASE Proceed(u)
    BY <1>3 DEF Proceed, Stage, Setup
  <1>4. CASE Activate(u)
    <2>1. st[u] \in UpdateState
      OBVIOUS
    <2>2. Attached(st[u]) \in UpdateState
      BY <2>1 DEF Attached, UpdateState, Phase
    <2>3. QED
      BY <1>4, <2>2 DEF Activate, Stage, Activated
  <1>5. CASE SetupFails(u) \/ SetupCancelled(u)
    <2>1. Released(u, FALSE, "none") \in UpdateState
      BY ReleasedType DEF Error
    <2>2. PICK next \in {"aborting", "aborting_race", "over"} : Abort(u, next)
      BY <1>5 DEF SetupFails, SetupCancelled
    <2>3. dir' \in [Attempts -> BOOLEAN]
      BY <1>5 DEF SetupFails, SetupCancelled
    <2>4. QED
      BY <2>1, <2>2, <2>3 DEF Abort, Stage
  <1>6. CASE RemoveAborted(u)
    BY <1>6 DEF RemoveAborted, Stage
  <1>7. CASE CommandAccepted(u)
    BY <1>7 DEF CommandAccepted, Stage, Activated
  <1>8. CASE CommandFailed(u)
    <2>1. Released(u, TRUE, "firmware_command_failed") \in UpdateState
      BY ReleasedType DEF Error
    <2>2. QED
      BY <1>8, <2>1 DEF CommandFailed, Close, Stage, Activated
  <1>9. CASE CommandCancelled(u)
    BY <1>9 DEF CommandCancelled, Stage, Activated
  <1>10. CASE Expire(u)
    <2>1. \A e \in Error : Released(u, TRUE, e) \in UpdateState
      BY ReleasedType
    <2>2. QED
      BY <1>10, <2>1 DEF Expire, Close, Error
  <1>11. CASE CloseCancelled(u)
    BY <1>11 DEF CloseCancelled, Stage, Activated
  <1>12. CASE RemoveDirectory(u)
    BY <1>12 DEF RemoveDirectory
  <1>13. QED
    BY <1>1, <1>2, <1>3, <1>4, <1>5, <1>6, <1>7, <1>8, <1>9, <1>10, <1>11, <1>12
       DEF Caller

\* What a step of the FTP session does to the variables other than st and
\* lastPct, which ReportEffect describes.
LEMMA FtpFrame ==
    ASSUME TypeOK, NEW u \in Attempts, Ftp(u)
    PROVE  /\ UNCHANGED <<ha, registry, chargerOf, stage, dir, toClose, current,
                          baseline, reported, missed>>
           /\ closing' \in [Attempts -> {"open", "server", "drained", "files", "done"}]
           /\ session' \in [Attempts -> {"none", "requested", "waiting", "sending"}]
           /\ sent' \in [Attempts -> 0..Parts]
           /\ served' \in [Attempts -> BOOLEAN]
           /\ \A v \in Attempts \ {u} :
                 closing'[v] = closing[v] /\ session'[v] = session[v]
                 /\ served'[v] = served[v]
           /\ closing[u] = "open" <=> closing'[u] = "open"
           /\ Listening(u) \/ closing[u] \in {"server", "drained"}
  <1> USE DEF TypeOK, ftpFrame, stopVars, SessionStep, EndSession, Listening
  <1>1. CASE Retr(u)
    BY <1>1 DEF Retr
  <1>2. CASE RetrStarts(u)
    BY <1>2 DEF RetrStarts
  <1>3. CASE DataOpened(u)
    BY <1>3 DEF DataOpened
  <1>4. CASE DataRefused(u)
    BY <1>4 DEF DataRefused
  <1>5. CASE Progress(u)
    <2>1. sent[u] + 1 \in 0..Parts
      BY <1>5, ConstantsAssumption DEF Progress
    <2>2. QED
      BY <1>5, <2>1 DEF Progress
  <1>6. CASE TransferDone(u)
    BY <1>6, ConstantsAssumption DEF TransferDone
  <1>7. CASE SessionLost(u)
    BY <1>7, ConstantsAssumption DEF SessionLost
  <1>8. CASE ServerClosed(u)
    BY <1>8, ConstantsAssumption DEF ServerClosed
  <1>9. QED
    BY <1>1, <1>2, <1>3, <1>4, <1>5, <1>6, <1>7, <1>8 DEF Ftp

\* The steps of an FTP session keep the types.
LEMMA FtpType ==
    ASSUME TypeOK, NEW u \in Attempts, Ftp(u)
    PROVE  /\ TypeOK'
           /\ \A v \in Attempts \ {u} : st'[v] = st[v] /\ lastPct'[v] = lastPct[v]
           /\ st'[u].proxy = st[u].proxy
  <1>1. /\ st' \in [Attempts -> UpdateState]
        /\ lastPct' \in [Attempts -> -1..Parts]
        /\ \A v \in Attempts \ {u} : st'[v] = st[v] /\ lastPct'[v] = lastPct[v]
        /\ st'[u].proxy = st[u].proxy
    <2>1. CASE \E phase \in Phase, pct \in 0..Parts, error \in Error :
                  Report(u, phase, pct, error)
      BY <2>1, ReportEffect
    <2>2. CASE UNCHANGED <<st, lastPct>>
      BY <2>2 DEF TypeOK
    <2>3. CASE RetrStarts(u)
      BY <2>1, <2>3, ConstantsAssumption DEF RetrStarts, Phase, Error
    <2>4. CASE Retr(u) \/ DataOpened(u)
      BY <2>2, <2>4 DEF Retr, DataOpened
    <2>5. CASE DataRefused(u)
      BY <2>1, <2>5, ConstantsAssumption DEF DataRefused, Phase, Error
    <2>6. CASE Progress(u)
      <3>1. sent[u] + 1 \in 0..Parts
        BY <2>6, ConstantsAssumption DEF Progress, TypeOK
      <3>2. QED
        BY <2>1, <2>6, <3>1 DEF Progress, Phase, Error
    <2>7. CASE TransferDone(u)
      BY <2>1, <2>7, ConstantsAssumption DEF TransferDone, Phase, Error
    <2>8. CASE EndSession(u)
      <3>1. sent[u] \in 0..Parts
        BY DEF TypeOK
      <3>2. QED
        BY <2>1, <2>2, <2>8, <3>1 DEF EndSession, Phase, Error
    <2>9. QED
      BY <2>3, <2>4, <2>5, <2>6, <2>7, <2>8 DEF Ftp, SessionLost, ServerClosed
  <1>2. QED
    BY <1>1, FtpFrame DEF TypeOK

\* The stop handler, a crash and the start keep the types.
LEMMA SystemType ==
    ASSUME TypeOK,
           \/ \E u \in Attempts : StopCloses(u)
           \/ \E c \in Chargers : FullRefresh(c)
           \/ BeginStop \/ FinishStop \/ Exit \/ Crash \/ Boot
    PROVE  TypeOK'
  <1> USE DEF TypeOK, setupVars, ftpVars, stopVars
  <1>1. ASSUME NEW u \in Attempts, StopCloses(u)
        PROVE  TypeOK'
    <2>1. Released(u, TRUE, "none") \in UpdateState
      BY ReleasedType DEF Error
    <2>2. QED
      BY <1>1, <2>1 DEF StopCloses, Close
  <1>2. ASSUME NEW c \in Chargers, FullRefresh(c)
        PROVE  TypeOK'
    <2>1. ASSUME NEW u \in Attempts
          PROVE  UpdateTransfer(st[u], "installed", "none") \in UpdateState
      <3>1. st[u] \in UpdateState
        OBVIOUS
      <3>2. QED
        BY <3>1, UpdateTransferType DEF Phase, Error
    <2>2. st' \in [Attempts -> UpdateState]
      BY <1>2, <2>1 DEF FullRefresh
    <2>3. QED
      BY <1>2, <2>2 DEF FullRefresh
  <1>3. CASE BeginStop
    BY <1>3 DEF BeginStop, RunningProxies
  <1>f. CASE FinishStop
    <2>1. /\ ha' = "stopped" /\ current' = None
          /\ \E kept \in SUBSET Attempts :
                dir' = [u \in Attempts |-> dir[u] /\ u \in kept]
          /\ missed' \subseteq missed
      BY <1>f DEF FinishStop
    <2>2. dir' \in [Attempts -> BOOLEAN]
      BY <2>1
    <2>3. UNCHANGED <<registry, chargerOf, baseline, stage, st, closing, toClose, session,
                      sent, lastPct, served, reported>>
      BY <1>f DEF FinishStop
    <2> QED
      BY <2>1, <2>2, <2>3
  <1>4. CASE Exit \/ Crash
    <2>1. NoState \in UpdateState
      BY DEF NoState, NewState, UpdateState, Phase, Error
    <2>2. NoBaseline \in [initial: Versions \cup {None}, target: Versions \cup {None}]
      BY DEF NoBaseline
    <2>3. ProcessEnds /\ dir' \in [Attempts -> BOOLEAN]
      BY <1>4 DEF Exit, Crash, ProcessEnds
    <2>4. stage' \in [Attempts -> Stage]
      BY <2>3 DEF ProcessEnds, Stage
    <2>5. st' \in [Attempts -> UpdateState]
      BY <2>1, <2>3 DEF ProcessEnds
    <2>6. baseline' \in [Attempts -> [initial: Versions \cup {None},
                                      target: Versions \cup {None}]]
      BY <2>2, <2>3 DEF ProcessEnds
    <2>7. QED
      BY <2>3, <2>4, <2>5, <2>6, ConstantsAssumption DEF ProcessEnds
  <1>5. CASE Boot
    BY <1>5 DEF Boot
  <1>6. QED
    BY <1>1, <1>2, <1>3, <1>f, <1>4, <1>5

\* Every step keeps the types.
LEMMA NextType == TypeOK /\ [Next]_vars => TypeOK'
  <1> SUFFICES ASSUME TypeOK, [Next]_vars PROVE TypeOK'
    OBVIOUS
  <1>1. CASE UNCHANGED vars
    BY <1>1 DEF vars, TypeOK
  <1>2. CASE Next
    BY <1>2, CallerType, FtpType, SystemType DEF Next
  <1>3. QED
    BY <1>1, <1>2

\* Every variable of the bridge keeps its type: a transfer never counts past the
\* end of the image and every phase and error is one the entity can show.
THEOREM TypeCorrect == Spec => []TypeOK
  BY InitType, NextType, PTL DEF Spec

-----------------------------------------------------------------------------
(***************************************************************************)
(* The inductive invariant.  The safety properties are not inductive: an   *)
(* attempt keeps its slot during the setup because no report and no proof  *)
(* of installation can touch its state before its server runs, and the     *)
(* verdict is right because a server that was never asked for the image    *)
(* still waits for its charger.                                            *)
(***************************************************************************)

Fresh(u) == stage[u] \in Setup \cup {"idle"}

\* Nothing has happened yet to an attempt whose server does not run.
FreshInv(u) ==
    Fresh(u) =>
        /\ closing[u] = "open" /\ u \notin toClose
        /\ ~st[u].proxy /\ st[u].phase = "preparing" /\ st[u].error = "none"
        /\ session[u] = "none" /\ lastPct[u] = -1 /\ ~served[u]

\* During the setup the attempt holds its slot.
SlotInv(u) ==
    stage[u] \in Setup => registry[chargerOf[u]] = u /\ st[u].in_progress

\* The stop handler did not find the attempt and has removed its directory.
Swept(u) == ha = "stopped" /\ u \in missed

\* The directory exists from mkdtemp until the proxy closes.
FileInv(u) ==
    stage[u] \in {"writing", "starting"} \/ Listening(u) => dir[u] \/ Swept(u)

\* A proxy that the stop handler found waits for its close, or closes.
FoundInv(u) ==
    ha = "stopping" /\ u \notin missed => u \in toClose \/ closing[u] # "open"

\* No coroutine survives its process.
DownInv(u) ==
    ha = "down" => stage[u] \in {"idle", "gone"}

\* An update that is prepared or waits for its charger holds the slot.
WaitInv(u) ==
    /\ st[u].in_progress
    /\ st[u].phase \in {"preparing", "waiting_for_charger"}
    => registry[chargerOf[u]] = u

\* What the state object says of the session.
ServedInv(u) ==
    /\ st[u].phase = "waiting_for_charger" => ~served[u]
    /\ session[u] \in {"waiting", "sending"} => served[u]
    /\ lastPct[u] # -1 => served[u]
    /\ Listening(u) => st[u].phase = "waiting_for_charger" \/ served[u]
    /\ st[u].error = "ftp_unreachable" => ~served[u]
    /\ st[u].error = "installation_unconfirmed" => served[u]

AttemptInv(u) ==
    /\ FreshInv(u) /\ SlotInv(u) /\ FileInv(u) /\ FoundInv(u)
    /\ DownInv(u) /\ WaitInv(u) /\ ServedInv(u)

IInv == TypeOK /\ \A u \in Attempts : AttemptInv(u)

\* The initial state satisfies the invariant.
LEMMA InitInv == Init => IInv
  <1> SUFFICES ASSUME Init PROVE IInv
    OBVIOUS
  <1>1. TypeOK
    BY InitType
  <1>2. ASSUME NEW u \in Attempts
        PROVE  AttemptInv(u)
    <2>1. /\ stage[u] = "idle" /\ closing[u] = "open" /\ u \notin toClose
          /\ session[u] = "none" /\ lastPct[u] = -1 /\ ~served[u]
          /\ st[u] = NoState /\ ha = "running"
      BY DEF Init
    <2>2. /\ NoState.in_progress = FALSE /\ NoState.proxy = FALSE
          /\ NoState.phase = "preparing" /\ NoState.error = "none"
      BY DEF NoState, NewState
    <2>3. QED
      BY <2>1, <2>2
         DEF AttemptInv, FreshInv, SlotInv, FileInv, FoundInv, Swept, DownInv,
             WaitInv, ServedInv, Fresh, Listening, Setup, Activated
  <1>3. QED
    BY <1>1, <1>2 DEF IInv

\* A step that touches one attempt only keeps the others as they are.
SameFor(v) ==
    /\ stage'[v] = stage[v] /\ st'[v] = st[v] /\ closing'[v] = closing[v]
    /\ session'[v] = session[v] /\ lastPct'[v] = lastPct[v]
    /\ served'[v] = served[v] /\ dir'[v] = dir[v]
    /\ v \in toClose' <=> v \in toClose

\* A step that leaves an attempt alone keeps what the invariant says of it.
LEMMA LocalStep ==
    ASSUME NEW u \in Attempts, NEW v \in Attempts \ {u}, AttemptInv(v),
           SameFor(v), chargerOf' = chargerOf, ha' = ha, missed' = missed,
           registry[chargerOf[v]] = v => registry'[chargerOf[v]] = v
    PROVE  AttemptInv(v)'
  BY DEF AttemptInv, FreshInv, SlotInv, FileInv, FoundInv, Swept, DownInv, WaitInv,
         ServedInv, Fresh, Listening, SameFor

\* A step of an attempt whose server does not run yet, or of its caller
LEMMA CallerInv ==
    ASSUME IInv, NEW u \in Attempts, Caller(u)
    PROVE  \A v \in Attempts : AttemptInv(v)'
  <1> USE DEF setupVars, ftpVars, stopVars, SameFor
  <1>a. TypeOK /\ AttemptInv(u)
    BY DEF IInv
  <1>b. ASSUME \A v \in Attempts \ {u} : SameFor(v),
               UNCHANGED <<ha, chargerOf, registry, missed>>, AttemptInv(u)'
        PROVE  \A v \in Attempts : AttemptInv(v)'
    BY <1>b, LocalStep DEF IInv
  <1>c. ASSUME UNCHANGED <<ha, missed, registry, chargerOf, toClose, session, lastPct,
                          served>>,
               \A v \in Attempts \ {u} : /\ stage'[v] = stage[v] /\ st'[v] = st[v]
                                         /\ closing'[v] = closing[v] /\ dir'[v] = dir[v]
        PROVE  \A v \in Attempts \ {u} : SameFor(v)
    BY <1>c
  <1>1. CASE Reserve(u)
    <2>1. /\ NewState.in_progress = TRUE /\ NewState.proxy = FALSE
          /\ NewState.phase = "preparing" /\ NewState.error = "none"
      BY DEF NewState
    <2>2. /\ st'[u] = NewState /\ stage'[u] = "fetching" /\ stage[u] = "idle"
          /\ registry'[chargerOf[u]] = u
          /\ UNCHANGED <<ha, missed, chargerOf, closing, dir, session, lastPct, served,
                         toClose>>
          /\ \A v \in Attempts \ {u} : stage'[v] = stage[v] /\ st'[v] = st[v]
          /\ \A c \in Chargers \ {chargerOf[u]} : registry'[c] = registry[c]
          /\ ~Busy(chargerOf[u]) /\ ha # "down"
      BY <1>1, <1>a DEF Reserve, TypeOK
    <2>3. AttemptInv(u)'
      BY <1>a, <2>1, <2>2
         DEF AttemptInv, FreshInv, SlotInv, FileInv, FoundInv, Swept, DownInv,
             WaitInv, ServedInv, Fresh, Listening, Setup, Activated
    <2>4. ASSUME NEW v \in Attempts \ {u}
          PROVE  AttemptInv(v)'
      <3>1. AttemptInv(v) /\ chargerOf[v] \in Chargers
        BY <1>a DEF IInv, TypeOK
      <3>2. CASE chargerOf[v] # chargerOf[u]
        BY <2>2, <3>1, <3>2, LocalStep
      <3>3. CASE chargerOf[v] = chargerOf[u]
        <4>1. ~(registry[chargerOf[v]] = v /\ st[v].in_progress)
          BY <2>2, <3>3, ConstantsAssumption DEF Busy
        <4>2. stage[v] \notin Setup /\ ~(/\ st[v].in_progress
                 /\ st[v].phase \in {"preparing", "waiting_for_charger"})
          BY <3>1, <4>1 DEF AttemptInv, SlotInv, WaitInv
        <4>3. QED
          BY <2>2, <3>1, <4>2
             DEF AttemptInv, FreshInv, SlotInv, FileInv, FoundInv, Swept, DownInv,
                 WaitInv, ServedInv, Fresh, Listening
      <3>4. QED
        BY <3>2, <3>3
    <2>5. QED
      BY <2>3, <2>4
  <1>2. CASE Refuse(u) \/ CommandAccepted(u) \/ CommandCancelled(u) \/ CloseCancelled(u)
    <2>1. /\ UNCHANGED <<ha, missed, registry, chargerOf, st, closing, dir, session, lastPct,
                         served, toClose>>
          /\ \A v \in Attempts \ {u} : stage'[v] = stage[v]
          /\ \/ stage[u] = "idle" /\ stage'[u] = "refused" /\ ha # "down"
             \/ stage[u] = "commanding" /\ stage'[u] \in {"armed", "unarmed"}
             \/ stage[u] = "failed" /\ stage'[u] = "cut"
      BY <1>2, <1>a DEF Refuse, CommandAccepted, CommandCancelled, CloseCancelled,
                        TypeOK
    <2>2. AttemptInv(u)'
      BY <1>a, <2>1
         DEF AttemptInv, FreshInv, SlotInv, FileInv, FoundInv, Swept, DownInv,
             WaitInv, ServedInv, Fresh, Listening, Setup, Activated
    <2>3. QED
      BY <1>b, <1>c, <2>1, <2>2
  <1>3. CASE Proceed(u)
    <2>1. /\ UNCHANGED <<ha, missed, registry, chargerOf, st, closing, session, lastPct,
                         served, toClose>>
          /\ \A v \in Attempts \ {u} : stage'[v] = stage[v] /\ dir'[v] = dir[v]
          /\ \/ stage[u] = "fetching" /\ stage'[u] = "making"
             \/ stage[u] = "making" /\ stage'[u] = "writing"
             \/ stage[u] = "writing" /\ stage'[u] = "starting"
          /\ dir'[u] = (dir[u] \/ stage[u] = "making")
      BY <1>3, <1>a DEF Proceed, TypeOK
    <2>2. AttemptInv(u)'
      BY <1>a, <2>1
         DEF AttemptInv, FreshInv, SlotInv, FileInv, FoundInv, Swept, DownInv,
             WaitInv, ServedInv, Fresh, Listening, Setup, Activated
    <2>3. QED
      BY <1>b, <1>c, <2>1, <2>2
  <1>4. CASE Activate(u)
    <2>1. st[u] \in UpdateState
      BY <1>a DEF TypeOK
    <2>2. /\ Attached(st[u]).phase = "waiting_for_charger"
          /\ Attached(st[u]).error = st[u].error
          /\ Attached(st[u]).in_progress = st[u].in_progress
      BY <2>1 DEF Attached, UpdateState
    <2>3. /\ UNCHANGED <<ha, missed, registry, chargerOf, closing, dir, session, lastPct,
                         served, toClose>>
          /\ \A v \in Attempts \ {u} : stage'[v] = stage[v] /\ st'[v] = st[v]
          /\ stage[u] = "starting" /\ stage'[u] = "commanding"
          /\ st'[u] = Attached(st[u])
      BY <1>4, <1>a DEF Activate, TypeOK
    <2>4. AttemptInv(u)'
      BY <1>a, <2>2, <2>3
         DEF AttemptInv, FreshInv, SlotInv, FileInv, FoundInv, Swept, DownInv,
             WaitInv, ServedInv, Fresh, Listening, Setup, Activated
    <2>5. QED
      BY <1>b, <1>c, <2>3, <2>4
  <1>5. CASE SetupFails(u) \/ SetupCancelled(u) \/ RemoveAborted(u)
    <2>1. /\ UNCHANGED <<ha, missed, registry, chargerOf, closing, session, lastPct, served,
                         toClose>>
          /\ \A v \in Attempts \ {u} : /\ stage'[v] = stage[v] /\ st'[v] = st[v]
                                       /\ dir'[v] = dir[v]
          /\ stage[u] \in Setup \cup {"aborting", "aborting_race"}
          /\ stage'[u] \in {"aborting", "aborting_race", "over"}
          /\ st'[u] \in {st[u], Released(u, FALSE, "none")}
      BY <1>5, <1>a DEF SetupFails, SetupCancelled, RemoveAborted, Abort, TypeOK
    <2>r. /\ Released(u, FALSE, "none").phase = st[u].phase
          /\ Released(u, FALSE, "none").error = st[u].error
          /\ Released(u, FALSE, "none").in_progress => st[u].in_progress
      BY <1>a, ReleasedType DEF Error
    <2>2. /\ st'[u].phase = st[u].phase /\ st'[u].error = st[u].error
          /\ st'[u].in_progress => st[u].in_progress
      BY <2>1, <2>r
    <2>3. AttemptInv(u)'
      BY <1>a, <2>1, <2>2
         DEF AttemptInv, FreshInv, SlotInv, FileInv, FoundInv, Swept, DownInv,
             WaitInv, ServedInv, Fresh, Listening, Setup, Activated
    <2>4. QED
      BY <1>b, <1>c, <2>1, <2>3
  <1>6. CASE CommandFailed(u)
    <2>1. /\ UNCHANGED <<ha, missed, registry, chargerOf, dir, session, lastPct, served,
                         toClose>>
          /\ \A v \in Attempts \ {u} : /\ stage'[v] = stage[v] /\ st'[v] = st[v]
                                       /\ closing'[v] = closing[v]
          /\ stage[u] = "commanding" /\ stage'[u] \in {"failed", "over"}
          /\ closing'[u] # "open"
          /\ st'[u] \in {st[u], Released(u, TRUE, "firmware_command_failed")}
      BY <1>6, <1>a DEF CommandFailed, Close, TypeOK
    <2> DEFINE r == Released(u, TRUE, "firmware_command_failed")
    <2>r. /\ \/ r.phase = st[u].phase /\ r.error = st[u].error
             \/ r.phase = "error" /\ r.error = "firmware_command_failed"
          /\ r.in_progress => st[u].in_progress
      BY <1>a, ReleasedType DEF Error
    <2>2. /\ \/ st'[u].phase = st[u].phase /\ st'[u].error = st[u].error
             \/ st'[u].phase = "error" /\ st'[u].error = "firmware_command_failed"
          /\ st'[u].in_progress => st[u].in_progress
      BY <2>1, <2>r
    <2>3. AttemptInv(u)'
      BY <1>a, <2>1, <2>2
         DEF AttemptInv, FreshInv, SlotInv, FileInv, FoundInv, Swept, DownInv,
             WaitInv, ServedInv, Fresh, Listening, Setup, Activated
    <2>4. QED
      BY <1>b, <1>c, <2>1, <2>3
  <1>7. CASE Expire(u)
    <2>1. PICK error \in {"ftp_unreachable", "installation_unconfirmed"} :
             /\ st'[u] = Released(u, TRUE, error)
             /\ error = "ftp_unreachable" <=> st[u].phase = "waiting_for_charger"
      BY <1>7, <1>a DEF Expire, Close, TypeOK
    <2>2. /\ UNCHANGED <<ha, missed, registry, chargerOf, stage, dir, session, lastPct, served,
                         toClose>>
          /\ \A v \in Attempts \ {u} : st'[v] = st[v] /\ closing'[v] = closing[v]
          /\ stage[u] = "armed" /\ closing[u] = "open" /\ closing'[u] = "server"
      BY <1>7, <1>a DEF Expire, Close, TypeOK
    <2> DEFINE r == Released(u, TRUE, error)
    <2>r. /\ \/ r.phase = st[u].phase /\ r.error = st[u].error
             \/ r.phase = "error" /\ r.error = error
          /\ r.in_progress => st[u].in_progress
      <3>1. error \in Error
        BY DEF Error
      <3>2. QED
        BY <1>a, <3>1, ReleasedType
    <2>3. /\ \/ st'[u].phase = st[u].phase /\ st'[u].error = st[u].error
             \/ st'[u].phase = "error" /\ st'[u].error = error
          /\ st'[u].in_progress => st[u].in_progress
      BY <2>1, <2>r
    <2>4. AttemptInv(u)'
      BY <1>a, <2>1, <2>2, <2>3
         DEF AttemptInv, FreshInv, SlotInv, FileInv, FoundInv, Swept, DownInv,
             WaitInv, ServedInv, Fresh, Listening, Setup, Activated
    <2>5. QED
      BY <1>b, <1>c, <2>2, <2>4
  <1>8. CASE RemoveDirectory(u)
    <2>1. /\ UNCHANGED <<ha, missed, registry, chargerOf, stage, st, session, lastPct, served,
                         toClose>>
          /\ \A v \in Attempts \ {u} : dir'[v] = dir[v] /\ closing'[v] = closing[v]
          /\ closing[u] = "files" /\ closing'[u] = "done"
      BY <1>8, <1>a DEF RemoveDirectory, TypeOK
    <2>2. AttemptInv(u)'
      BY <1>a, <2>1
         DEF AttemptInv, FreshInv, SlotInv, FileInv, FoundInv, Swept, DownInv,
             WaitInv, ServedInv, Fresh, Listening, Setup, Activated
    <2>3. QED
      BY <1>b, <1>c, <2>1, <2>2
  <1>9. QED
    BY <1>1, <1>2, <1>3, <1>4, <1>5, <1>6, <1>7, <1>8 DEF Caller

\* What a step of the FTP session does to the state of its attempt.
LEMMA FtpEffect ==
    ASSUME IInv, NEW u \in Attempts, Ftp(u)
    PROVE  /\ \/ st'[u] = st[u]
              \/ /\ st'[u].phase \notin {"preparing", "waiting_for_charger"}
                 /\ st'[u].error \in {"none", "transfer_failed"}
                 /\ served'[u]
           /\ \/ served'[u] = served[u]
              \/ /\ served'[u]
                 /\ st'[u].phase = "downloading"
                 /\ st'[u].error = "none"
           /\ session'[u] \in {"waiting", "sending"} => served'[u]
           /\ lastPct'[u] # -1 => served'[u]
  <1> USE DEF ServedInv
  <1>a. /\ TypeOK /\ st[u] \in UpdateState /\ ServedInv(u)
        /\ sent[u] \in 0..Parts
    BY DEF IInv, AttemptInv, TypeOK
  <1>b. ASSUME NEW phase \in Phase, NEW pct \in 0..Parts, NEW error \in Error,
               Report(u, phase, pct, error)
        PROVE  \/ /\ pct = lastPct[u]
                  /\ phase = "downloading"
                  /\ st'[u] = st[u]
                  /\ lastPct'[u] = lastPct[u]
               \/ st'[u].phase = phase /\ st'[u].error = error
    BY <1>a, <1>b, ReportEffect
  <1>1. CASE Retr(u)
    BY <1>a, <1>1 DEF Retr, TypeOK
  <1>2. CASE RetrStarts(u)
    <2>1. /\ Report(u, "downloading", 0, "none")
          /\ served'[u] = TRUE /\ served[u] \in BOOLEAN
      BY <1>a, <1>2 DEF RetrStarts, TypeOK
    <2>2. \/ lastPct[u] = 0 /\ st'[u] = st[u]
          \/ st'[u].phase = "downloading" /\ st'[u].error = "none"
      BY <1>a, <1>b, <2>1, ConstantsAssumption DEF Phase, Error
    <2>3. lastPct[u] = 0 => served[u]
      BY <1>a
    <2>4. lastPct[u] = 0 => served'[u] = served[u]
      BY <2>1, <2>3
    <2>5. QED
      BY <2>1, <2>2, <2>4
  <1>3. CASE DataOpened(u)
    BY <1>a, <1>3 DEF DataOpened, TypeOK
  <1>4. CASE DataRefused(u)
    <2>1. /\ Report(u, "error", 0, "transfer_failed")
          /\ served' = served /\ served[u] /\ session'[u] = "none"
      BY <1>a, <1>4 DEF DataRefused, TypeOK
    <2>2. st'[u].phase = "error" /\ st'[u].error = "transfer_failed"
      BY <1>a, <1>b, <2>1, ConstantsAssumption DEF Phase, Error
    <2>3. QED
      BY <2>1, <2>2
  <1>5. CASE Progress(u)
    <2>1. /\ Report(u, "downloading", sent[u] + 1, "none")
          /\ served' = served /\ served[u]
          /\ sent[u] + 1 \in 0..Parts
      BY <1>a, <1>5, ConstantsAssumption DEF Progress
    <2>2. \/ st'[u] = st[u]
          \/ st'[u].phase = "downloading" /\ st'[u].error = "none"
      BY <1>a, <1>b, <2>1 DEF Phase, Error
    <2>3. QED
      BY <2>1, <2>2
  <1>6. CASE TransferDone(u)
    <2>1. /\ Report(u, "waiting_for_installation", Parts, "none")
          /\ served' = served /\ served[u]
      BY <1>a, <1>6 DEF TransferDone
    <2>2. st'[u].phase = "waiting_for_installation" /\ st'[u].error = "none"
      BY <1>a, <1>b, <2>1, ConstantsAssumption DEF Phase, Error
    <2>3. QED
      BY <2>1, <2>2
  <1>7. CASE EndSession(u) /\ served' = served
    <2>1. CASE session[u] = "sending"
      <3>1. Report(u, "error", sent[u], "transfer_failed") /\ served[u]
        BY <1>a, <1>7, <2>1 DEF EndSession
      <3>2. st'[u].phase = "error" /\ st'[u].error = "transfer_failed"
        BY <1>a, <1>b, <3>1 DEF Phase, Error
      <3>3. QED
        BY <1>7, <3>1, <3>2
    <2>2. CASE session[u] # "sending"
      BY <1>a, <1>7, <2>2 DEF EndSession, TypeOK
    <2>3. QED
      BY <2>1, <2>2
  <1>8. QED
    BY <1>1, <1>2, <1>3, <1>4, <1>5, <1>6, <1>7 DEF Ftp, SessionLost, ServerClosed

\* The steps of an FTP session keep the invariant.
LEMMA FtpInv ==
    ASSUME IInv, NEW u \in Attempts, Ftp(u)
    PROVE  \A v \in Attempts : AttemptInv(v)'
  <1>a. TypeOK /\ AttemptInv(u)
    BY DEF IInv
  <1>1. ASSUME NEW v \in Attempts \ {u}
        PROVE  AttemptInv(v)'
    <2>1. SameFor(v) /\ UNCHANGED <<ha, chargerOf, registry, missed>>
      BY <1>a, FtpFrame, FtpType DEF SameFor
    <2>2. QED
      BY <2>1, LocalStep DEF IInv
  <1>2. AttemptInv(u)'
    <2>1. ~Fresh(u)
      BY <1>a, FtpFrame
         DEF AttemptInv, FreshInv, Fresh, Listening, Setup, Activated
    <2>2. /\ UNCHANGED <<ha, registry, chargerOf, stage, dir, toClose, missed>>
          /\ closing[u] = "open" <=> closing'[u] = "open"
      BY <1>a, FtpFrame
    <2>3. stage[u] \notin Setup
      BY <2>1 DEF Fresh
    <2>4. st'[u].phase \in {"preparing", "waiting_for_charger"} => st'[u] = st[u]
      BY FtpEffect
    <2>5. ServedInv(u)'
      BY <1>a, <2>2, FtpEffect DEF AttemptInv, ServedInv, Listening
    <2>6. QED
      BY <1>a, <2>1, <2>2, <2>3, <2>4, <2>5
         DEF AttemptInv, FreshInv, SlotInv, FileInv, FoundInv, Swept, DownInv,
             WaitInv, Fresh, Listening
  <1>3. QED
    BY <1>1, <1>2

\* The steps of the coordinator and of Home Assistant itself
LEMMA SystemInv ==
    ASSUME IInv,
           \/ \E u \in Attempts : StopCloses(u)
           \/ \E c \in Chargers : FullRefresh(c)
           \/ BeginStop \/ FinishStop \/ Exit \/ Crash \/ Boot
    PROVE  \A v \in Attempts : AttemptInv(v)'
  <1> USE DEF setupVars, ftpVars, stopVars
  <1>a. TypeOK /\ \A v \in Attempts : AttemptInv(v)
    BY DEF IInv
  <1>1. ASSUME NEW u \in Attempts, StopCloses(u), NEW v \in Attempts
        PROVE  AttemptInv(v)'
    <2> DEFINE r == Released(u, TRUE, "none")
    <2>1. /\ r.phase = st[u].phase /\ r.error = st[u].error
          /\ r.in_progress => st[u].in_progress
          /\ r.proxy => st[u].proxy
      <3>1. "none" \in Error
        BY DEF Error
      <3>2. QED
        BY <1>a, <3>1, ReleasedType
    <2>2. /\ UNCHANGED <<registry, chargerOf, stage, dir, session, lastPct, served, ha,
                         missed>>
          /\ toClose' = toClose \ {u} /\ u \in toClose
          /\ v # u => st'[v] = st[v] /\ closing'[v] = closing[v]
          /\ st'[u] \in {st[u], r}
          /\ closing'[u] # "open"
      BY <1>1, <1>a DEF StopCloses, Close, TypeOK
    <2>3. CASE v = u
      <3>1. /\ st'[u].phase = st[u].phase /\ st'[u].error = st[u].error
            /\ st'[u].in_progress => st[u].in_progress
        BY <2>1, <2>2
      <3>2. AttemptInv(u) /\ ~Fresh(u)
        BY <1>a, <2>2 DEF AttemptInv, FreshInv
      <3>3. AttemptInv(u)'
        BY <2>2, <3>1, <3>2
         DEF AttemptInv, FreshInv, SlotInv, FileInv, FoundInv, Swept, DownInv,
             WaitInv, ServedInv, Fresh, Listening
      <3>4. QED
        BY <2>3, <3>3
    <2>4. CASE v # u
      BY <1>a, <2>2, <2>4, LocalStep DEF SameFor
    <2>5. QED
      BY <2>3, <2>4
  <1>2. ASSUME NEW c \in Chargers, FullRefresh(c), NEW v \in Attempts
        PROVE  AttemptInv(v)'
    <2>1. UNCHANGED <<registry, chargerOf, stage, dir, session, lastPct, served, ha,
                      closing, toClose, missed>>
      BY <1>2 DEF FullRefresh
    <2>2. CASE st'[v] = st[v]
      BY <1>a, <2>1, <2>2
         DEF AttemptInv, FreshInv, SlotInv, FileInv, FoundInv, Swept, DownInv,
             WaitInv, ServedInv, Fresh, Listening
    <2>3. CASE st'[v] # st[v]
      <3>1. /\ st'[v] = UpdateTransfer(st[v], "installed", "none")
            /\ st[v].phase = "waiting_for_installation"
        BY <1>2, <1>a, <2>3 DEF FullRefresh, Proven, TypeOK
      <3>2. st[v] \in UpdateState /\ served[v] \in BOOLEAN
        BY <1>a DEF TypeOK
      <3>3. st'[v].phase = "installed" /\ st'[v].error = "none"
        BY <3>1, <3>2, UpdateTransferType DEF Phase, Error
      <3>4. ~Fresh(v)
        BY <1>a, <3>1 DEF AttemptInv, FreshInv
      <3>5. QED
        BY <1>a, <2>1, <3>1, <3>3, <3>4
           DEF AttemptInv, FreshInv, SlotInv, FileInv, FoundInv, Swept, DownInv,
               WaitInv, ServedInv, Fresh, Listening
    <2>4. QED
      BY <2>2, <2>3
  <1>3. ASSUME BeginStop, NEW v \in Attempts
        PROVE  AttemptInv(v)'
    <2>1. /\ UNCHANGED <<registry, chargerOf, stage, dir, session, lastPct, served,
                         closing, st>>
          /\ ha = "running" /\ ha' = "stopping"
          /\ v \in toClose' => st[v].proxy
          /\ v \in toClose' \/ v \in missed'
      BY <1>3 DEF BeginStop, RunningProxies
    <2>2. QED
      BY <1>a, <2>1
         DEF AttemptInv, FreshInv, SlotInv, FileInv, FoundInv, Swept, DownInv,
             WaitInv, ServedInv, Fresh, Listening
  <1>f. ASSUME FinishStop, NEW v \in Attempts
        PROVE  AttemptInv(v)'
    <2>1. /\ UNCHANGED <<registry, chargerOf, stage, session, lastPct, served, closing, st,
                         toClose>>
          /\ ha = "stopping" /\ ha' = "stopped" /\ toClose = {}
          /\ v \in missed /\ dir[v] => dir'[v] \/ v \in missed'
      BY <1>f DEF FinishStop
    <2>2. stage[v] \in {"writing", "starting"} \/ Listening(v) => v \in missed /\ dir[v]
      BY <1>a, <2>1
         DEF AttemptInv, FileInv, FoundInv, Swept, FreshInv, Fresh, Listening, Setup
    <2> QED
      BY <1>a, <2>1, <2>2
         DEF AttemptInv, FreshInv, SlotInv, FileInv, FoundInv, Swept, DownInv, WaitInv,
             ServedInv, Fresh, Listening
  <1>4. ASSUME Exit \/ Crash, NEW v \in Attempts
        PROVE  AttemptInv(v)'
    <2>1. ProcessEnds
      BY <1>4 DEF Exit, Crash
    <2>2. /\ stage'[v] \in {"idle", "gone"} /\ st'[v] = NoState
          /\ closing'[v] = "open" /\ session'[v] = "none" /\ lastPct'[v] = -1
          /\ served'[v] = FALSE /\ toClose' = {} /\ ha' = "down"
      BY <2>1 DEF ProcessEnds
    <2>3. /\ NoState.in_progress = FALSE /\ NoState.proxy = FALSE
          /\ NoState.phase = "preparing" /\ NoState.error = "none"
      BY DEF NoState, NewState
    <2>4. QED
      BY <2>2, <2>3
         DEF AttemptInv, FreshInv, SlotInv, FileInv, FoundInv, Swept, DownInv,
             WaitInv, ServedInv, Fresh, Listening, Setup, Activated
  <1>5. ASSUME Boot, NEW v \in Attempts
        PROVE  AttemptInv(v)'
    <2>1. /\ UNCHANGED <<registry, chargerOf, stage, session, lastPct, served,
                         closing, st, toClose>>
          /\ ha = "down" /\ ha' = "running"
      BY <1>5 DEF Boot
    <2>2. QED
      BY <1>a, <2>1
         DEF AttemptInv, FreshInv, SlotInv, FileInv, FoundInv, Swept, DownInv,
             WaitInv, ServedInv, Fresh, Listening, Setup, Activated
  <1>6. QED
    BY <1>1, <1>2, <1>3, <1>f, <1>4, <1>5

\* Every step keeps the invariant.
LEMMA NextInv == IInv /\ [Next]_vars => IInv'
  <1> SUFFICES ASSUME IInv, [Next]_vars PROVE IInv'
    OBVIOUS
  <1>1. TypeOK'
    BY NextType DEF IInv
  <1>2. CASE UNCHANGED vars
    BY <1>1, <1>2
       DEF vars, IInv, AttemptInv, FreshInv, SlotInv, FileInv, FoundInv, Swept,
           DownInv, WaitInv, ServedInv, Fresh, Listening
  <1>3. CASE Next
    <2>1. \A v \in Attempts : AttemptInv(v)'
      BY <1>3, CallerInv, FtpInv, SystemInv DEF Next
    <2>2. QED
      BY <1>1, <2>1 DEF IInv
  <1>4. QED
    BY <1>2, <1>3

\* Every proxy, in every phase of its life, agrees with the registry entry,
\* the directory, the server and the timer that belong to it: the invariant the
\* safety theorems below are read from.
THEOREM Invariant == Spec => []IInv
  BY InitInv, NextInv, PTL DEF Spec

-----------------------------------------------------------------------------
(***************************************************************************)
(* The safety properties                                                   *)
(***************************************************************************)

\* reserve_proxy, release_proxy and proxy_is_active keep a charger's slot with
\* the attempt that prepares an update, whatever other attempts, transfers and
\* refreshes do meanwhile.
THEOREM SetupHoldsSlot == Spec => []SlotHeldDuringSetup
  <1>1. IInv => SlotHeldDuringSetup
    BY DEF IInv, AttemptInv, SlotInv, SlotHeldDuringSetup
  <1>2. QED
    BY <1>1, Invariant, PTL

\* No cleanup, of an aborted setup, of a close or of a start of Home Assistant,
\* removes the directory of a server that still listens; the stop handler, which goes
\* on to _remove_stale_directories while Home Assistant still runs, removes it only of
\* the updates that running_proxies did not list.
THEOREM ServedDirectoryExists == Spec => []ServedFileExists
  <1>1. IInv => ServedFileExists
    BY DEF IInv, AttemptInv, FileInv, Swept, ServedFileExists
  <1>2. QED
    BY <1>1, Invariant, PTL

\* When the 15 minutes of the bridge are over, the error tells whether the
\* charger ever fetched the image.
THEOREM VerdictIsRight == Spec => []TimeoutVerdict
  <1>1. IInv => TimeoutVerdict
    BY DEF IInv, AttemptInv, ServedInv, TimeoutVerdict
  <1>2. QED
    BY <1>1, Invariant, PTL

\* Of all attempts for a charger at most one is being prepared or waits for the
\* charger to fetch its image.
THEOREM OneAwaitsCharger == Spec => []OneAttemptAwaitsCharger
  <1>1. IInv => OneAttemptAwaitsCharger
    BY DEF IInv, AttemptInv, WaitInv, OneAttemptAwaitsCharger
  <1>2. QED
    BY <1>1, Invariant, PTL

-----------------------------------------------------------------------------
(***************************************************************************)
(* Installation.  The proof is put together by three tasks: the transfer   *)
(* says that the image was sent, the caller what was asked for, and a      *)
(* refresh what runs now.                                                  *)
(***************************************************************************)

\* What a state says of its transfer and the registry of its state
InstallInv ==
    /\ TypeOK
    /\ \A c \in Chargers : registry[c] # None => chargerOf[registry[c]] = c
    /\ \A u \in Attempts :
          st[u].phase = "waiting_for_installation" => lastPct[u] = Parts

\* A refresh that read a version finds the proof of an installation.
ProvenNow(u) ==
    \E c \in Chargers : /\ registry[c] = u /\ Proven(u, reported'[c])
                        /\ UNCHANGED <<lastPct, baseline>>

\* How a step may move the phase of an update
PhaseMoves(u) ==
    \/ st'[u].phase = st[u].phase /\ lastPct'[u] = lastPct[u]
    \/ st'[u].phase \notin {"waiting_for_installation", "installed"}
    \/ st'[u].phase = "waiting_for_installation" /\ lastPct'[u] = Parts
    \/ st'[u].phase = "installed" /\ ProvenNow(u)

\* The caller and the stop handler move no update to its installation.
LEMMA CallerMoves ==
    ASSUME TypeOK, NEW u \in Attempts, NEW v \in Attempts, Caller(u) \/ StopCloses(u)
    PROVE  PhaseMoves(v)
  <1> USE DEF TypeOK, setupVars, ftpVars, stopVars, PhaseMoves
  <1>1. lastPct' = lastPct
    BY DEF Caller, Reserve, Refuse, Proceed, Activate, SetupFails, SetupCancelled,
           Abort, RemoveAborted, CommandAccepted, CommandFailed, CommandCancelled,
           Expire, CloseCancelled, RemoveDirectory, StopCloses
  <1>2. CASE st' = st
    BY <1>1, <1>2
  <1>3. CASE Reserve(u)
    <2>1. NewState.phase = "preparing"
      BY DEF NewState
    <2> QED
      BY <1>1, <1>3, <2>1 DEF Reserve
  <1>4. CASE Activate(u)
    <2>1. Attached(st[u]).phase = "waiting_for_charger"
      <3>1. st[u] \in UpdateState
        OBVIOUS
      <3> QED
        BY <3>1 DEF Attached, UpdateState
    <2> QED
      BY <1>1, <1>4, <2>1 DEF Activate
  <1>5. ASSUME NEW w \in BOOLEAN, NEW error \in Error,
               st' = [st EXCEPT ![u] = Released(u, w, error)]
        PROVE  PhaseMoves(v)
    BY <1>1, <1>5, ReleasedType
  <1>6. CASE SetupFails(u) \/ SetupCancelled(u)
    BY <1>5, <1>6 DEF SetupFails, SetupCancelled, Abort, Error
  <1>7. CASE CommandFailed(u) \/ Expire(u) \/ StopCloses(u)
    <2>1. PICK error \in Error : Close(u, error)
      BY <1>7 DEF CommandFailed, Expire, StopCloses, Error
    <2> QED
      BY <1>2, <1>5, <2>1 DEF Close
  <1> QED
    BY <1>2, <1>3, <1>4, <1>6, <1>7
       DEF Caller, Refuse, Proceed, RemoveAborted, CommandAccepted, CommandCancelled,
           CloseCancelled, RemoveDirectory

\* A session moves an update to its installation with the last block only.
LEMMA FtpMoves ==
    ASSUME TypeOK, NEW u \in Attempts, NEW v \in Attempts, Ftp(u)
    PROVE  PhaseMoves(v)
  <1> USE DEF PhaseMoves
  <1>1. CASE v # u
    BY <1>1, FtpType
  <1>2. ASSUME NEW phase \in Phase, NEW pct \in 0..Parts, NEW error \in Error,
               Report(u, phase, pct, error),
               phase # "installed", phase = "waiting_for_installation" => pct = Parts
        PROVE  PhaseMoves(v)
    BY <1>1, <1>2, ReportEffect
  <1>3. CASE UNCHANGED <<st, lastPct>>
    BY <1>3
  <1>4. CASE RetrStarts(u) \/ DataRefused(u)
    BY <1>2, <1>4, ConstantsAssumption DEF RetrStarts, DataRefused, Phase, Error
  <1>5. CASE Progress(u)
    <2>1. sent[u] + 1 \in 0..Parts
      BY <1>5, ConstantsAssumption DEF Progress, TypeOK
    <2> QED
      BY <1>2, <1>5, <2>1 DEF Progress, Phase, Error
  <1>6. CASE TransferDone(u)
    BY <1>2, <1>6, ConstantsAssumption DEF TransferDone, Phase, Error
  <1>7. CASE EndSession(u)
    <2>1. sent[u] \in 0..Parts
      BY DEF TypeOK
    <2> QED
      BY <1>2, <1>3, <1>7, <2>1 DEF EndSession, Phase, Error
  <1> QED
    BY <1>1, <1>3, <1>4, <1>5, <1>6, <1>7
       DEF Ftp, Retr, DataOpened, SessionLost, ServerClosed

LEMMA StepMoves ==
    ASSUME TypeOK, [Next]_vars, NEW v \in Attempts
    PROVE  PhaseMoves(v)
  <1> USE DEF PhaseMoves
  <1>1. CASE UNCHANGED <<st, lastPct>>
    BY <1>1
  <1>2. ASSUME NEW c \in Chargers, FullRefresh(c)
        PROVE  PhaseMoves(v)
    <2>1. UNCHANGED <<lastPct, baseline>> /\ reported' \in [Chargers -> Versions \cup {None}]
      BY <1>2, SystemType DEF FullRefresh, ftpVars, setupVars, TypeOK
    <2>2. PICK installed \in Versions :
             /\ reported' = [reported EXCEPT ![c] = installed]
             /\ IF registry[c] # None /\ Proven(registry[c], installed)
                THEN st' = [st EXCEPT ![registry[c]] =
                               UpdateTransfer(@, "installed", "none")]
                ELSE UNCHANGED st
      BY <1>2 DEF FullRefresh
    <2>3. reported'[c] = installed
      BY <2>2 DEF TypeOK
    <2>4. CASE registry[c] = v /\ v # None /\ Proven(v, installed)
      <3>1. st[v] \in UpdateState
        BY DEF TypeOK
      <3>2. st'[v].phase = "installed"
        BY <2>2, <2>4, <3>1, UpdateTransferType DEF TypeOK, Phase, Error
      <3> QED
        BY <2>1, <2>3, <2>4, <3>2 DEF ProvenNow
    <2>5. CASE ~(registry[c] = v /\ v # None /\ Proven(v, installed))
      <3>1. st'[v] = st[v]
        BY <2>2, <2>5, ConstantsAssumption DEF TypeOK
      <3> QED
        BY <2>1, <3>1
    <2> QED
      BY <2>4, <2>5
  <1>3. CASE Exit \/ Crash
    <2>1. st'[v] = NoState
      BY <1>3 DEF Exit, Crash, ProcessEnds
    <2>2. NoState.phase = "preparing"
      BY DEF NoState, NewState
    <2> QED
      BY <2>1, <2>2
  <1> QED
    BY <1>1, <1>2, <1>3, CallerMoves, FtpMoves
       DEF Next, BeginStop, FinishStop, Boot, ftpVars, vars

LEMMA InstallHolds == InstallInv /\ [Next]_vars => InstallInv'
  <1> SUFFICES ASSUME InstallInv, [Next]_vars PROVE InstallInv'
    OBVIOUS
  <1>1. TypeOK /\ TypeOK'
    BY NextType DEF InstallInv
  <1>2. ASSUME NEW c \in Chargers, registry'[c] # None
        PROVE  chargerOf'[registry'[c]] = c
    <2>1. chargerOf' = chargerOf
      BY DEF Next, vars, Caller, Ftp, Reserve, Refuse, Proceed, Activate, SetupFails,
             SetupCancelled, Abort, RemoveAborted, CommandAccepted, CommandFailed,
             CommandCancelled, Expire, CloseCancelled, RemoveDirectory, Retr, RetrStarts,
             DataOpened, DataRefused, Progress, TransferDone, SessionLost, ServerClosed,
             ftpFrame, StopCloses, FullRefresh, BeginStop, FinishStop, Exit, Crash,
             Boot,
             ProcessEnds, setupVars
    <2>2. CASE registry'[c] = registry[c]
      BY <1>2, <2>1, <2>2 DEF InstallInv
    <2>3. CASE \E u \in Attempts : Reserve(u)
      <3>1. PICK u \in Attempts : registry' = [registry EXCEPT ![chargerOf[u]] = u]
        BY <2>3 DEF Reserve
      <3> QED
        BY <1>1, <2>1, <2>2, <3>1 DEF TypeOK
    <2>4. CASE ProcessEnds
      BY <1>2, <2>4 DEF ProcessEnds
    <2>5. CASE registry' = registry
      BY <2>2, <2>5
    <2> QED
      BY <2>3, <2>4, <2>5
         DEF Next, vars, Caller, Ftp, Refuse, Proceed, Activate, SetupFails,
             SetupCancelled, Abort, RemoveAborted, CommandAccepted, CommandFailed,
             CommandCancelled, Expire, CloseCancelled, RemoveDirectory, Retr, RetrStarts,
             DataOpened, DataRefused, Progress, TransferDone, SessionLost, ServerClosed,
             ftpFrame, StopCloses, FullRefresh, BeginStop, FinishStop, Exit, Crash,
             Boot,
             setupVars
  <1>3. ASSUME NEW u \in Attempts, st'[u].phase = "waiting_for_installation"
        PROVE  lastPct'[u] = Parts
    <2>1. PhaseMoves(u)
      BY <1>1, StepMoves
    <2> QED
      BY <1>3, <2>1 DEF PhaseMoves, InstallInv
  <1> QED
    BY <1>1, <1>2, <1>3 DEF InstallInv

\* _handle_coordinator_update of the update entity reports an update as installed only
\* on the proof that the image was sent and that the charger runs what was asked for.
THEOREM InstallationIsProven == Spec => InstalledIsProven
  <1> DEFINE ProvenStep ==
        \A u \in Attempts :
          LET c == chargerOf[u] IN
             st[u].phase # "installed" /\ st'[u].phase = "installed"
             => /\ registry[c] = u
                /\ lastPct[u] = Parts
                /\ baseline[u].target \in {None, reported'[c]}
                /\ baseline[u].initial \notin {None, reported'[c]}
  <1>1. Init => InstallInv
    <2> SUFFICES ASSUME Init PROVE InstallInv
      OBVIOUS
    <2>1. \A u \in Attempts : st[u].phase = "preparing"
      BY DEF Init, NoState, NewState
    <2> QED
      BY <2>1, InitType DEF Init, InstallInv
  <1>2. InstallInv /\ [Next]_vars => [ProvenStep]_vars
    <2> SUFFICES ASSUME InstallInv, [Next]_vars, NEW u \in Attempts,
                        st[u].phase # "installed", st'[u].phase = "installed"
                 PROVE  /\ registry[chargerOf[u]] = u
                        /\ lastPct[u] = Parts
                        /\ baseline[u].target \in {None, reported'[chargerOf[u]]}
                        /\ baseline[u].initial \notin {None, reported'[chargerOf[u]]}
      OBVIOUS
    <2>1. ProvenNow(u)
      BY StepMoves DEF InstallInv, PhaseMoves
    <2>2. PICK c \in Chargers : registry[c] = u /\ Proven(u, reported'[c])
      BY <2>1 DEF ProvenNow
    <2>3. chargerOf[u] = c
      BY <2>2, ConstantsAssumption DEF InstallInv
    <2> QED
      BY <2>2, <2>3 DEF Proven, InstallInv
  <1> QED
    BY <1>1, <1>2, InstallHolds, PTL DEF Spec, InstalledIsProven

-----------------------------------------------------------------------------
(***************************************************************************)
(* What is left to do.  That servers close, files go and slots are freed   *)
(* under fairness is for TLC; what makes it true is proved here: whatever  *)
(* is still open has a task, a timer or a close under way that will end    *)
(* it, only a cancelled caller leaves something that has none, and no task *)
(* ever goes back.                                                         *)
(***************************************************************************)

\* An attempt that has no directory, no open close and no slot has none yet, or
\* has none any more.
ClosingInv(u) ==
    /\ stage[u] \in {"idle", "refused", "aborting", "aborting_race", "gone"} =>
          closing[u] = "open"
    /\ stage[u] \in {"failed", "cut"} => closing[u] # "open"
    /\ closing[u] = "files" => stage[u] # "cut"

\* Only a cancelled caller gets where nobody closes or removes for it.
CancelledInv(u) ==
    stage[u] \in {"aborting_race", "cut", "unarmed"} => AllowCancel

\* Who has a directory has a close to come, or was cancelled.
DirectoryInv(u) ==
    /\ stage[u] \in {"idle", "refused", "fetching", "making"} => ~dir[u]
    /\ closing[u] = "done" /\ dir[u] => stage[u] = "cut"
    /\ stage[u] = "over" /\ closing[u] = "open" /\ dir[u] => AllowCancel
    /\ stage[u] = "gone" /\ dir[u] => ha = "down"

\* A coroutine that ended without a proxy has given its slot back. The state object
\* of a server that listens knows its proxy, and no state has one before its server
\* has started.
HolderInv(u) ==
    /\ /\ stage[u] \in {"idle", "refused", "aborting", "aborting_race", "gone", "over"}
       /\ closing[u] = "open"
       => ~st[u].in_progress
    /\ Listening(u) => st[u].proxy
    /\ st[u].proxy \/ u \in toClose => stage[u] \in Activated \cup {"over"}

KeeperInv(u) == ClosingInv(u) /\ CancelledInv(u) /\ DirectoryInv(u) /\ HolderInv(u)

\* The stop handler waits only for a close that has begun.
StopInv == current # None => closing[current] # "open"

WorkInv == IInv /\ StopInv /\ \A u \in Attempts : KeeperInv(u)

\* The initial state satisfies the invariant.
LEMMA InitWork == Init => WorkInv
  <1> SUFFICES ASSUME Init PROVE WorkInv
    OBVIOUS
  <1>1. ASSUME NEW u \in Attempts
        PROVE  KeeperInv(u)
    <2>1. /\ stage[u] = "idle" /\ closing[u] = "open" /\ dir[u] = FALSE
          /\ st[u] = NoState
      BY DEF Init
    <2>2. NoState.in_progress = FALSE /\ NoState.proxy = FALSE /\ u \notin toClose
      BY DEF Init, NoState, NewState
    <2> QED
      BY <2>1, <2>2 DEF KeeperInv, ClosingInv, CancelledInv, DirectoryInv, HolderInv,
                        Listening, Activated
  <1> QED
    BY <1>1, InitInv DEF WorkInv, StopInv, Init

\* A release by the attempt that holds the slot ends its update.
LEMMA ReleaseEnds ==
    ASSUME TypeOK, NEW u \in Attempts, registry[chargerOf[u]] = u, NEW error \in Error
    PROVE  ~Released(u, FALSE, error).in_progress
  <1>1. st[u] \in UpdateState
    BY DEF TypeOK
  <1> QED
    BY <1>1 DEF Released, UpdateState

\* A step that touches one attempt only keeps the others' keepers.
LEMMA OthersKeep ==
    ASSUME NEW v \in Attempts, KeeperInv(v), ha' = ha,
           UNCHANGED <<stage[v], closing[v], dir[v], st[v].in_progress, st[v].proxy>>,
           v \in toClose' => v \in toClose
    PROVE  KeeperInv(v)'
  BY DEF KeeperInv, ClosingInv, CancelledInv, DirectoryInv, HolderInv, Listening

\* What a step of the caller does to the stage, the close, the files and the slot
\* of its attempt.
LEMMA CallerWork ==
    ASSUME WorkInv, NEW u \in Attempts, Caller(u)
    PROVE  /\ \A v \in Attempts : KeeperInv(v)'
           /\ ha' = ha /\ current' = current
           /\ \A v \in Attempts : closing[v] # "open" => closing'[v] # "open"
  <1> USE DEF setupVars, ftpVars, stopVars
  <1> DEFINE Others == \A v \in Attempts \ {u} :
                          UNCHANGED <<stage[v], closing[v], dir[v], st[v]>>
  <1>a. TypeOK /\ AttemptInv(u) /\ KeeperInv(u) /\ st[u] \in UpdateState
    BY DEF WorkInv, IInv, TypeOK
  <1>b. ASSUME Others, UNCHANGED <<ha, current, toClose>>, KeeperInv(u)',
               closing[u] # "open" => closing'[u] # "open"
        PROVE  /\ \A v \in Attempts : KeeperInv(v)'
               /\ ha' = ha /\ current' = current
               /\ \A v \in Attempts : closing[v] # "open" => closing'[v] # "open"
    <2>1. ASSUME NEW v \in Attempts \ {u}
          PROVE  KeeperInv(v)'
      BY <1>b, OthersKeep DEF WorkInv
    <2> QED
      BY <1>b, <2>1
  <1> USE DEF KeeperInv, ClosingInv, CancelledInv, DirectoryInv, HolderInv, Listening,
              Setup, Activated
  <1>1. CASE Reserve(u)
    <2>1. /\ stage[u] = "idle" /\ stage'[u] = "fetching" /\ Others
          /\ UNCHANGED <<ha, toClose, current, closing, dir>> /\ st'[u] = NewState
      BY <1>1, <1>a DEF Reserve, TypeOK
    <2>n. ~NewState.proxy /\ u \notin toClose
      BY <1>a, <2>1 DEF NewState, AttemptInv, FreshInv, Fresh
    <2>2. KeeperInv(u)'
      BY <1>a, <2>1, <2>n
    <2> QED
      BY <1>b, <2>1, <2>2
  <1>2. CASE \/ Refuse(u) \/ Proceed(u) \/ CommandAccepted(u) \/ CommandCancelled(u)
             \/ CloseCancelled(u)
    <2>1. /\ Others /\ UNCHANGED <<ha, toClose, current, closing, st>>
          /\ \/ stage[u] = "idle" /\ stage'[u] = "refused" /\ dir' = dir
             \/ stage[u] = "fetching" /\ stage'[u] = "making" /\ dir'[u] = dir[u]
             \/ stage[u] = "making" /\ stage'[u] = "writing"
             \/ stage[u] = "writing" /\ stage'[u] = "starting" /\ dir'[u] = dir[u]
             \/ stage[u] = "commanding" /\ stage'[u] = "armed" /\ dir' = dir
             \/ /\ stage[u] = "commanding" /\ stage'[u] = "unarmed" /\ dir' = dir
                /\ AllowCancel
             \/ /\ stage[u] = "failed" /\ stage'[u] = "cut" /\ dir' = dir
                /\ AllowCancel /\ closing[u] \in {"server", "drained"}
      BY <1>2, <1>a
         DEF Refuse, Proceed, CommandAccepted, CommandCancelled, CloseCancelled, TypeOK
    <2>2. closing[u] = "open" \/ stage[u] \notin Setup \cup {"idle"}
      BY <1>a DEF AttemptInv, FreshInv, Fresh
    <2>3. KeeperInv(u)'
      BY <1>a, <2>1, <2>2
    <2> QED
      BY <1>b, <2>1, <2>3
  <1>3. CASE Activate(u)
    <2>1. /\ stage[u] = "starting" /\ stage'[u] = "commanding" /\ Others
          /\ st'[u] = Attached(st[u]) /\ UNCHANGED <<ha, toClose, current, closing, dir>>
      BY <1>3, <1>a DEF Activate, TypeOK
    <2>2. Attached(st[u]).proxy
      BY <1>a DEF Attached, UpdateState
    <2>3. closing[u] = "open"
      BY <1>a, <2>1 DEF AttemptInv, FreshInv, Fresh
    <2>4. KeeperInv(u)'
      BY <1>a, <2>1, <2>2, <2>3
    <2> QED
      BY <1>b, <2>1, <2>4
  <1>4. CASE SetupFails(u) \/ SetupCancelled(u)
    <2>1. /\ stage[u] \in Setup /\ Others /\ UNCHANGED <<ha, toClose, current, closing>>
          /\ st'[u] = Released(u, FALSE, "none")
          /\ \/ /\ stage[u] \in {"fetching", "making"} /\ stage'[u] = "over"
                /\ dir'[u] = dir[u]
             \/ /\ stage[u] \in {"writing", "starting"} /\ stage'[u] = "aborting"
             \/ /\ stage'[u] \in {"aborting_race", "over"} /\ AllowCancel
      BY <1>4, <1>a DEF SetupFails, SetupCancelled, Abort, TypeOK
    <2>2. ~st'[u].in_progress /\ ~st'[u].proxy
      BY <1>a, <2>1, ReleaseEnds, ReleasedType
         DEF AttemptInv, SlotInv, FreshInv, Fresh, Error
    <2>3. closing[u] = "open"
      BY <1>a, <2>1 DEF AttemptInv, FreshInv, Fresh
    <2>4. KeeperInv(u)'
      BY <1>a, <2>1, <2>2, <2>3
    <2> QED
      BY <1>b, <2>1, <2>4
  <1>5. CASE RemoveAborted(u)
    <2>1. /\ stage[u] \in {"aborting", "aborting_race"} /\ stage'[u] = "over" /\ Others
          /\ stage[u] = "aborting" => ~dir'[u]
          /\ UNCHANGED <<ha, toClose, current, closing, st>>
      BY <1>5, <1>a DEF RemoveAborted, TypeOK
    <2>2. KeeperInv(u)'
      BY <1>a, <2>1
    <2> QED
      BY <1>b, <2>1, <2>2
  <1>6. CASE CommandFailed(u) \/ Expire(u)
    <2>1. /\ stage[u] \in {"commanding", "armed"} /\ Others
          /\ \/ closing[u] = "open" /\ closing'[u] = "server" /\ stage'[u] \in {"failed", "armed"}
             \/ closing[u] # "open" /\ closing'[u] = closing[u] /\ stage'[u] = "over"
          /\ UNCHANGED <<ha, toClose, current, dir>>
      BY <1>6, <1>a DEF CommandFailed, Expire, Close, TypeOK
    <2>2. KeeperInv(u)'
      BY <1>a, <2>1
    <2> QED
      BY <1>b, <2>1, <2>2
  <1>7. CASE RemoveDirectory(u)
    <2>1. /\ closing[u] = "files" /\ closing'[u] = "done" /\ ~dir'[u] /\ Others
          /\ UNCHANGED <<ha, toClose, current, stage, st>>
      BY <1>7, <1>a DEF RemoveDirectory, TypeOK
    <2>2. KeeperInv(u)'
      BY <1>a, <2>1
    <2> QED
      BY <1>b, <2>1, <2>2
  <1> QED
    BY <1>1, <1>2, <1>3, <1>4, <1>5, <1>6, <1>7 DEF Caller

\* A session leaves the files alone, and reports only what its own server or the
\* close of that server lets it report.
LEMMA FtpWork ==
    ASSUME WorkInv, NEW u \in Attempts, Ftp(u)
    PROVE  /\ \A v \in Attempts : KeeperInv(v)'
           /\ ha' = ha /\ current' = current
           /\ \A v \in Attempts : closing[v] # "open" => closing'[v] # "open"
  <1>a. TypeOK /\ KeeperInv(u)
    BY DEF WorkInv, IInv
  <1>1. ASSUME NEW v \in Attempts \ {u}
        PROVE  KeeperInv(v)'
    BY <1>a, FtpFrame, FtpType, OthersKeep DEF WorkInv
  <1>2. /\ UNCHANGED <<ha, stage, dir, toClose, current>>
        /\ closing[u] = "open" <=> closing'[u] = "open"
        /\ Listening(u) \/ closing[u] \in {"server", "drained"}
        /\ st'[u].proxy = st[u].proxy
    BY <1>a, FtpFrame, FtpType
  <1>3. /\ closing'[u] = "files" => stage[u] # "cut"
        /\ closing'[u] = "done" => stage[u] = "cut"
    <2>1. ASSUME SessionStep(u) \/ Retr(u)
          PROVE  closing'[u] \in {"open", "drained"}
      BY <1>a, <2>1 DEF SessionStep, Retr, Listening, TypeOK
    <2>2. CASE ServerClosed(u)
      BY <1>a, <2>2 DEF ServerClosed, TypeOK
    <2> QED
      BY <2>1, <2>2
         DEF Ftp, RetrStarts, DataOpened, DataRefused, Progress, TransferDone,
             SessionLost
  <1>4. KeeperInv(u)'
    BY <1>a, <1>2, <1>3
       DEF KeeperInv, ClosingInv, CancelledInv, DirectoryInv, HolderInv, Listening,
           Activated
  <1> QED
    BY <1>a, <1>1, <1>2, <1>4, FtpFrame

\* The stop handler and the refreshes begin closes and end updates, never more.
LEMMA SystemWork ==
    ASSUME WorkInv,
           \/ \E u \in Attempts : StopCloses(u)
           \/ \E c \in Chargers : FullRefresh(c)
           \/ BeginStop \/ FinishStop \/ Exit \/ Crash \/ Boot
    PROVE  StopInv' /\ \A v \in Attempts : KeeperInv(v)'
  <1> USE DEF setupVars, ftpVars, stopVars
  <1>a. TypeOK /\ StopInv /\ \A v \in Attempts : AttemptInv(v) /\ KeeperInv(v)
    BY DEF WorkInv, IInv
  <1>1. ASSUME NEW u \in Attempts, StopCloses(u)
        PROVE  StopInv' /\ \A v \in Attempts : KeeperInv(v)'
    <2>1. /\ UNCHANGED <<ha, stage, dir>> /\ u \in toClose
          /\ toClose' \subseteq toClose
          /\ \A v \in Attempts \ {u} : st'[v] = st[v] /\ closing'[v] = closing[v]
          /\ \/ closing[u] = "open" /\ closing'[u] = "server" /\ current' = u
             \/ closing[u] # "open" /\ UNCHANGED <<closing, st>> /\ current' = None
      BY <1>1, <1>a DEF StopCloses, Close, TypeOK
    <2>2. ASSUME NEW v \in Attempts \ {u}
          PROVE  KeeperInv(v)'
      BY <1>a, <2>1, OthersKeep
    <2>3. stage[u] \in Activated \cup {"over"}
      BY <1>a, <2>1 DEF KeeperInv, HolderInv
    <2>4. KeeperInv(u)'
      BY <1>a, <2>1, <2>3
         DEF KeeperInv, ClosingInv, CancelledInv, DirectoryInv, HolderInv, Listening,
             Activated
    <2> QED
      BY <2>1, <2>2, <2>4 DEF StopInv
  <1>2. ASSUME NEW c \in Chargers, FullRefresh(c)
        PROVE  StopInv' /\ \A v \in Attempts : KeeperInv(v)'
    <2>1. UNCHANGED <<ha, stage, closing, dir, toClose, current>>
      BY <1>2 DEF FullRefresh
    <2>2. ASSUME NEW v \in Attempts
          PROVE  KeeperInv(v)'
      <3>1. \/ st'[v] = st[v]
            \/ st'[v] = UpdateTransfer(st[v], "installed", "none")
        BY <1>2, <1>a DEF FullRefresh, TypeOK
      <3>2. st[v] \in UpdateState
        BY <1>a DEF TypeOK
      <3>u. /\ UpdateTransfer(st[v], "installed", "none").proxy = st[v].proxy
            /\ ~UpdateTransfer(st[v], "installed", "none").in_progress
        BY <3>2 DEF UpdateTransfer, UpdateState
      <3>3. /\ st'[v].proxy = st[v].proxy
            /\ st'[v].in_progress => st[v].in_progress
        BY <3>1, <3>u
      <3> QED
        BY <1>a, <2>1, <3>3
           DEF KeeperInv, ClosingInv, CancelledInv, DirectoryInv, HolderInv, Listening
    <2> QED
      BY <1>a, <2>1, <2>2 DEF StopInv
  <1>3. CASE BeginStop
    <2>1. /\ UNCHANGED <<stage, st, closing, dir, current>> /\ ha = "running"
          /\ ha' = "stopping" /\ \A v \in toClose' : st[v].proxy
      BY <1>3 DEF BeginStop, RunningProxies
    <2> QED
      BY <1>a, <2>1
         DEF StopInv, KeeperInv, ClosingInv, CancelledInv, DirectoryInv, HolderInv,
             Listening
  <1>f. CASE FinishStop
    <2>1. /\ UNCHANGED <<stage, st, closing, toClose>> /\ ha' = "stopped"
          /\ ha = "stopping" /\ current' = None
          /\ \A v \in Attempts : dir'[v] => dir[v]
      BY <1>f, <1>a DEF FinishStop, TypeOK
    <2> QED
      BY <1>a, <2>1
         DEF StopInv, KeeperInv, ClosingInv, CancelledInv, DirectoryInv, HolderInv,
             Listening
  <1>4. CASE Exit \/ Crash
    <2>1. ProcessEnds /\ \A v \in Attempts : dir'[v] => dir[v]
      BY <1>4 DEF Exit, Crash, ProcessEnds
    <2>2. NoState.in_progress = FALSE /\ NoState.proxy = FALSE
      BY DEF NoState, NewState
    <2>3. ASSUME NEW v \in Attempts
          PROVE  KeeperInv(v)'
      <3>1. /\ toClose' = {}
            /\ stage'[v] = IF stage[v] = "idle" THEN "idle" ELSE "gone"
            /\ st'[v] = NoState /\ closing'[v] = "open" /\ ha' = "down"
        BY <2>1 DEF ProcessEnds
      <3> QED
        BY <1>a, <2>1, <2>2, <3>1
           DEF KeeperInv, ClosingInv, CancelledInv, DirectoryInv, HolderInv, Listening,
               Activated
    <2> QED
      BY <2>1, <2>3 DEF ProcessEnds, StopInv
  <1>5. CASE Boot
    <2>1. /\ UNCHANGED <<stage, st, closing, toClose, current>>
          /\ \A v \in Attempts : ~dir'[v]
      BY <1>5 DEF Boot
    <2> QED
      BY <1>a, <2>1
         DEF StopInv, KeeperInv, ClosingInv, CancelledInv, DirectoryInv, HolderInv,
             Listening
  <1> QED
    BY <1>1, <1>2, <1>3, <1>f, <1>4, <1>5

\* Every step keeps the invariant.
LEMMA NextWork == WorkInv /\ [Next]_vars => WorkInv'
  <1> SUFFICES ASSUME WorkInv, [Next]_vars PROVE WorkInv'
    OBVIOUS
  <1>1. IInv' /\ TypeOK
    BY NextInv DEF WorkInv, IInv
  <1>2. CASE UNCHANGED vars
    BY <1>1, <1>2
       DEF vars, WorkInv, StopInv, KeeperInv, ClosingInv, CancelledInv, DirectoryInv,
           HolderInv, Listening
  <1>3. ASSUME NEW u \in Attempts, Caller(u) \/ Ftp(u)
        PROVE  WorkInv'
    BY <1>1, <1>3, CallerWork, FtpWork DEF WorkInv, StopInv, TypeOK
  <1>4. CASE Next
    BY <1>1, <1>3, <1>4, SystemWork DEF Next, WorkInv
  <1> QED
    BY <1>2, <1>4

\* The keepers belong to the invariant that every reachable state satisfies.
LEMMA WorkHolds == Spec => []WorkInv
  BY InitWork, NextWork, PTL DEF Spec

\* While the caller or the expiry timer of an attempt is there, it will close.
WillClose(u) == closing[u] = "open" /\ stage[u] \in {"commanding", "armed"}

\* A close is under way that goes on to the rmtree.
Closes(u) == closing[u] \in {"server", "drained", "files"} /\ stage[u] # "cut"

\* An image on the disk of a running Home Assistant
FilesHaveKeeper(u) ==
    dir[u] /\ ha # "down" =>
        \/ stage[u] \in {"writing", "starting", "aborting"}
        \/ WillClose(u) \/ Closes(u)
        \/ AllowCancel /\ stage[u] \in {"aborting_race", "cut", "unarmed", "over"}

\* A server that listens
ServerHasKeeper(u) ==
    Listening(u) => WillClose(u) \/ (AllowCancel /\ stage[u] = "unarmed")

\* A slot that is in use and whose close has not begun
SlotHasKeeper(u) ==
    st[u].in_progress /\ closing[u] = "open" =>
        \/ stage[u] \in Setup \/ WillClose(u)
        \/ AllowCancel /\ stage[u] = "unarmed"

\* Safety half of FilesAreRemoved: as long as a directory exists, a step of the setup
\* that hands it on or removes it, the command, the timer or a close that goes on to
\* the rmtree is ahead. Only CancelledError, which passes the except branches of
\* async_start_firmware_update and the awaits of async_close, leaves files behind.
THEOREM FilesAreCaredFor == Spec => [](\A u \in Attempts : FilesHaveKeeper(u))
  <1>1. WorkInv => \A u \in Attempts : FilesHaveKeeper(u)
    <2> SUFFICES ASSUME WorkInv, NEW u \in Attempts
                 PROVE  FilesHaveKeeper(u)
      OBVIOUS
    <2>1. TypeOK /\ AttemptInv(u) /\ KeeperInv(u)
      BY DEF WorkInv, IInv
    <2>2. /\ stage[u] \in Stage
          /\ closing[u] \in {"open", "server", "drained", "files", "done"}
      BY <2>1 DEF TypeOK
    <2> QED
      BY <2>1, <2>2
         DEF FilesHaveKeeper, WillClose, Closes, Stage, Setup, Activated, KeeperInv,
             ClosingInv, CancelledInv, DirectoryInv, AttemptInv, FileInv, FoundInv, Swept, DownInv
  <1> QED
    BY <1>1, WorkHolds, PTL

\* Safety half of ServerIsClosed: while a server listens, the command is awaited or
\* the timer of arm_cleanup runs, unless the caller was cancelled with the command.
THEOREM ServersAreCaredFor == Spec => [](\A u \in Attempts : ServerHasKeeper(u))
  <1>1. WorkInv => \A u \in Attempts : ServerHasKeeper(u)
    BY DEF WorkInv, IInv, KeeperInv, ClosingInv, CancelledInv, ServerHasKeeper,
           WillClose, Listening, Activated
  <1> QED
    BY <1>1, WorkHolds, PTL

\* Safety half of SlotIsFreed: a slot that proxy_is_active reports as taken is being
\* set up, commanded or timed, or its close has begun; again only a caller that was
\* cancelled with the command leaves it taken.
THEOREM SlotsAreCaredFor == Spec => [](\A u \in Attempts : SlotHasKeeper(u))
  <1>1. WorkInv => \A u \in Attempts : SlotHasKeeper(u)
    <2> SUFFICES ASSUME WorkInv, NEW u \in Attempts
                 PROVE  SlotHasKeeper(u)
      OBVIOUS
    <2>1. KeeperInv(u) /\ stage[u] \in Stage
      BY DEF WorkInv, IInv, TypeOK
    <2> QED
      BY <2>1 DEF SlotHasKeeper, WillClose, Stage, Setup, Activated, KeeperInv,
                  ClosingInv, CancelledInv, HolderInv
  <1> QED
    BY <1>1, WorkHolds, PTL

\* The servers that running_proxies does not find
Unlisted(u) == Listening(u) /\ u \notin RunningProxies

\* What is known of a server the stop handler misses
Superseded(u) ==
    Unlisted(u) =>
        /\ registry[chargerOf[u]] # u
        /\ ~ /\ st[u].in_progress
             /\ st[u].phase \in {"preparing", "waiting_for_charger"}

\* running_proxies misses a server only because another attempt has taken its
\* charger's entry, never one whose charger has yet to fetch the image.
THEOREM OnlySupersededAreMissed == Spec => [](\A u \in Attempts : Superseded(u))
  <1>1. WorkInv => \A u \in Attempts : Superseded(u)
    BY DEF WorkInv, IInv, AttemptInv, WaitInv, KeeperInv, HolderInv, Superseded,
           Unlisted, RunningProxies
  <1> QED
    BY <1>1, WorkHolds, PTL

\* What async_cleanup_firmware_proxies awaits: nothing, or a close whose server or
\* rmtree will end it.
StopHasKeeper ==
    \/ StopIdle
    \/ closing[current] \in {"server", "drained"}
    \/ closing[current] = "files" /\ stage[current] # "cut"

\* Safety half of StopCompletes: the stop handler never waits for a close that has not
\* begun or that was cut off, whoever else closed the proxy before it.
THEOREM StopIsNotBlocked == Spec => []StopHasKeeper
  <1>1. WorkInv => StopHasKeeper
    BY ConstantsAssumption
       DEF WorkInv, IInv, TypeOK, StopInv, KeeperInv, ClosingInv, StopHasKeeper,
           StopIdle
  <1> QED
    BY <1>1, WorkHolds, PTL

-----------------------------------------------------------------------------
(***************************************************************************)
(* No way back.  The stages of an attempt and of its close are ordered;    *)
(* with the theorems above, an attempt can only be kept from its end by a  *)
(* step that is never taken.                                               *)
(***************************************************************************)

\* How far the coroutine and the close of an attempt have got
StageRank(s) ==
    CASE s = "idle" -> 0
      [] s = "fetching" -> 1
      [] s = "making" -> 2
      [] s = "writing" -> 3
      [] s = "starting" -> 4
      [] s = "commanding" -> 5
      [] s \in {"armed", "unarmed", "failed", "aborting", "aborting_race"} -> 6
      [] s \in {"cut", "over", "refused", "gone"} -> 7

ClosingRank(k) ==
    CASE k = "open" -> 0 [] k = "server" -> 1 [] k = "drained" -> 2
      [] k = "files" -> 3 [] k = "done" -> 4

Rank(u) == StageRank(stage[u]) + ClosingRank(closing[u])

\* Every step of a caller, a timer or a close brings its own attempt forward, and
\* no step takes any attempt back.
Forward ==
    \A u \in Attempts :
        /\ Rank(u)' >= Rank(u)
        /\ Caller(u) \/ ServerClosed(u) => Rank(u)' > Rank(u)

\* Every attempt, short of the end of the process, takes boundedly many steps: the
\* setup, the command and async_close never start over, whoever calls them again.
THEOREM AttemptsOnlyAdvance == Spec => [][ProcessEnds \/ Forward]_vars
  <1> USE DEF setupVars, ftpVars, stopVars
  <1>r. /\ \A s \in Stage : StageRank(s) \in Int
        /\ \A k \in {"open", "server", "drained", "files", "done"} :
              ClosingRank(k) \in Int
    BY DEF StageRank, ClosingRank, Stage, Setup, Activated
  <1>s. TypeOK => \A u \in Attempts :
           StageRank(stage[u]) \in Int /\ ClosingRank(closing[u]) \in Int
    BY <1>r DEF TypeOK
  <1>1. ASSUME TypeOK, NEW u \in Attempts, Caller(u)
        PROVE  /\ Rank(u)' > Rank(u)
               /\ \A v \in Attempts \ {u} : Rank(v)' = Rank(v)
    <2>1. \A v \in Attempts \ {u} : stage'[v] = stage[v] /\ closing'[v] = closing[v]
      BY <1>1
         DEF Caller, Reserve, Refuse, Proceed, Activate, SetupFails, SetupCancelled,
             Abort, RemoveAborted, CommandAccepted, CommandFailed, CommandCancelled,
             Expire, CloseCancelled, RemoveDirectory, Close, TypeOK
    <2>2. \/ closing' = closing /\ StageRank(stage'[u]) > StageRank(stage[u])
          \/ stage' = stage /\ ClosingRank(closing'[u]) > ClosingRank(closing[u])
          \/ /\ ClosingRank(closing'[u]) > ClosingRank(closing[u])
             /\ StageRank(stage'[u]) > StageRank(stage[u])
      <3>1. CASE Reserve(u)
        BY <1>1, <3>1 DEF Reserve, TypeOK, StageRank
      <3>2. CASE Refuse(u)
        BY <1>1, <3>2 DEF Refuse, TypeOK, StageRank
      <3>3. CASE Proceed(u)
        BY <1>1, <3>3 DEF Proceed, TypeOK, StageRank
      <3>4. CASE Activate(u)
        BY <1>1, <3>4 DEF Activate, TypeOK, StageRank
      <3>5. CASE SetupFails(u) \/ SetupCancelled(u)
        <4>1. /\ stage[u] \in Setup /\ closing' = closing
              /\ stage'[u] \in {"aborting", "aborting_race", "over"}
          BY <1>1, <3>5 DEF SetupFails, SetupCancelled, Abort, TypeOK
        <4> QED
          BY <4>1 DEF StageRank, Setup
      <3>6. CASE RemoveAborted(u)
        BY <1>1, <3>6 DEF RemoveAborted, TypeOK, StageRank
      <3>7. CASE CommandAccepted(u) \/ CommandCancelled(u)
        BY <1>1, <3>7 DEF CommandAccepted, CommandCancelled, TypeOK, StageRank
      <3>8. CASE CommandFailed(u)
        <4>1. /\ stage[u] = "commanding"
              /\ \/ /\ stage'[u] = "failed" /\ closing[u] = "open"
                    /\ closing'[u] = "server"
                 \/ stage'[u] = "over" /\ closing' = closing
          BY <1>1, <3>8 DEF CommandFailed, Close, TypeOK
        <4> QED
          BY <4>1 DEF StageRank, ClosingRank
      <3>9. CASE Expire(u)
        BY <1>1, <3>9 DEF Expire, Close, TypeOK, ClosingRank
      <3>10. CASE CloseCancelled(u)
        BY <1>1, <3>10 DEF CloseCancelled, TypeOK, StageRank
      <3>11. CASE RemoveDirectory(u)
        BY <1>1, <3>11 DEF RemoveDirectory, TypeOK, ClosingRank
      <3> QED
        BY <1>1, <3>1, <3>2, <3>3, <3>4, <3>5, <3>6, <3>7, <3>8, <3>9, <3>10, <3>11
           DEF Caller
    <2>3. TypeOK'
      BY <1>1, CallerType
    <2>4. /\ StageRank(stage[u]) \in Int /\ ClosingRank(closing[u]) \in Int
          /\ StageRank(stage'[u]) \in Int /\ ClosingRank(closing'[u]) \in Int
      BY <1>1, <1>r, <2>3 DEF TypeOK
    <2> QED
      BY <2>1, <2>2, <2>4 DEF Rank
  <1>2. ASSUME TypeOK, NEW u \in Attempts, Ftp(u)
        PROVE  /\ Rank(u)' >= Rank(u) /\ (ServerClosed(u) => Rank(u)' > Rank(u))
               /\ \A v \in Attempts \ {u} : Rank(v)' = Rank(v)
    <2>1. /\ \A v \in Attempts \ {u} : stage'[v] = stage[v] /\ closing'[v] = closing[v]
          /\ stage'[u] = stage[u]
      BY <1>2, FtpFrame
    <2>2. /\ ClosingRank(closing'[u]) >= ClosingRank(closing[u])
          /\ ServerClosed(u) => ClosingRank(closing'[u]) > ClosingRank(closing[u])
      <3>1. CASE ServerClosed(u)
        BY <1>2, <3>1 DEF ServerClosed, TypeOK, ClosingRank
      <3>2. CASE closing'[u] = closing[u] /\ ~ServerClosed(u)
        BY <1>2, <1>s, <3>2
      <3>3. CASE SessionStep(u) /\ ~ServerClosed(u)
        BY <1>2, <1>s, <3>2, <3>3 DEF SessionStep, TypeOK, ClosingRank
      <3> QED
        BY <1>2, <3>1, <3>2, <3>3
           DEF Ftp, Retr, RetrStarts, DataOpened, DataRefused, Progress, TransferDone,
               SessionLost
    <2>3. TypeOK'
      BY <1>2, FtpType
    <2>4. /\ StageRank(stage[u]) \in Int /\ ClosingRank(closing[u]) \in Int
          /\ StageRank(stage'[u]) \in Int /\ ClosingRank(closing'[u]) \in Int
      BY <1>2, <1>r, <2>3 DEF TypeOK
    <2> QED
      BY <2>1, <2>2, <2>4 DEF Rank
  <1>3. TypeOK /\ [Next]_vars => [ProcessEnds \/ Forward]_vars
    <2> SUFFICES ASSUME TypeOK, Next, ~ProcessEnds, NEW u \in Attempts
                 PROVE  /\ Rank(u)' >= Rank(u)
                        /\ Caller(u) \/ ServerClosed(u) => Rank(u)' > Rank(u)
      BY DEF Forward
    <2>i. Rank(u) \in Int /\ Rank(u)' \in Int
      <3>1. TypeOK'
        BY NextType
      <3>2. /\ stage'[u] \in Stage
            /\ closing'[u] \in {"open", "server", "drained", "files", "done"}
        BY <3>1 DEF TypeOK
      <3>3. StageRank(stage'[u]) \in Int /\ ClosingRank(closing'[u]) \in Int
        BY <3>2, <1>r
      <3>4. StageRank(stage[u]) \in Int /\ ClosingRank(closing[u]) \in Int
        BY <1>s
      <3> QED
        BY <3>3, <3>4 DEF Rank
    <2>1. CASE Caller(u) \/ ServerClosed(u)
      <3>1. Rank(u)' > Rank(u)
        BY <2>1, <1>1, <1>2 DEF Ftp
      <3> QED
        BY <2>i, <3>1
    <2>2. ASSUME ~Caller(u), ~ServerClosed(u)
          PROVE  Rank(u)' >= Rank(u)
      <3>1. Rank(u) \in Int
        BY <2>i
      <3>2. CASE \E v \in Attempts : Caller(v) \/ Ftp(v)
        BY <1>1, <1>2, <2>2, <3>1, <3>2
      <3>3. ASSUME NEW v \in Attempts, StopCloses(v)
            PROVE  Rank(u)' >= Rank(u)
        <4>1. /\ stage' = stage
              /\ \/ closing'[u] = closing[u]
                 \/ closing[u] = "open" /\ closing'[u] = "server"
          BY <3>3 DEF StopCloses, Close, TypeOK
        <4>2. StageRank(stage[u]) \in Int /\ ClosingRank(closing[u]) \in Int
          BY <1>s
        <4>3. CASE closing'[u] = closing[u]
          BY <2>i, <4>1, <4>3 DEF Rank
        <4>4. CASE closing[u] = "open" /\ closing'[u] = "server"
          <5>1. ClosingRank("open") = 0 /\ ClosingRank("server") = 1
            BY DEF ClosingRank
          <5> QED
            BY <4>1, <4>2, <4>4, <5>1 DEF Rank
        <4> QED
          BY <4>1, <4>3, <4>4
      <3>4. CASE stage' = stage /\ closing' = closing
        BY <3>1, <3>4 DEF Rank
      <3> QED
        BY <3>2, <3>3, <3>4
           DEF Next, FullRefresh, BeginStop, FinishStop, Exit, Crash, Boot
    <2> QED
      BY <2>1, <2>2
  <1> QED
    BY <1>3, TypeCorrect, PTL DEF Spec

-----------------------------------------------------------------------------
(***************************************************************************)
(* How an update that was over can be in progress again                    *)
(***************************************************************************)

\* By a reservation, by a report of a server that listens, or by the one report that
\* the cancelled session still makes while its server closes
MayRevive(u) ==
    \/ stage[u] = "idle"
    \/ Listening(u)
    \/ closing[u] = "server" /\ closing'[u] = "drained"

Revives(u) == ~st[u].in_progress /\ st'[u].in_progress

\* release_proxy and _async_expire are not the last word of an update: the worker of
\* its FTP session may report once more.  But it is once: when that step is taken,
\* and when the server is closed, nothing sets the state in progress again.
THEOREM ReleasedRevivesOnce ==
    Spec => [][\A u \in Attempts : Revives(u) => MayRevive(u)]_vars
  <1> USE DEF Revives, MayRevive, setupVars, ftpVars, stopVars
  <1>1. ASSUME TypeOK, NEW v \in Attempts, Caller(v) \/ StopCloses(v),
               NEW u \in Attempts, Revives(u)
        PROVE  MayRevive(u)
    <2>1. ASSUME NEW w \in BOOLEAN, NEW error \in Error,
                 st' = [st EXCEPT ![v] = Released(v, w, error)]
          PROVE  FALSE
      BY <1>1, <2>1, ReleasedType DEF TypeOK
    <2>2. CASE Reserve(v)
      BY <1>1, <2>2 DEF Reserve, TypeOK
    <2>3. CASE Activate(v)
      <3>1. st[v] \in UpdateState
        BY <1>1 DEF TypeOK
      <3>2. Attached(st[v]).in_progress = st[v].in_progress
        BY <3>1 DEF Attached, UpdateState
      <3> QED
        BY <1>1, <2>3, <3>2 DEF Activate, TypeOK
    <2>4. CASE SetupFails(v) \/ SetupCancelled(v)
      BY <2>1, <2>4 DEF SetupFails, SetupCancelled, Abort, Error
    <2>5. CASE CommandFailed(v) \/ Expire(v) \/ StopCloses(v)
      <3>1. PICK error \in Error : Close(v, error)
        BY <2>5 DEF CommandFailed, Expire, StopCloses, Error
      <3> QED
        BY <1>1, <2>1, <3>1 DEF Close
    <2> QED
      BY <1>1, <2>2, <2>3, <2>4, <2>5
         DEF Caller, Refuse, Proceed, RemoveAborted, CommandAccepted, CommandCancelled,
             CloseCancelled, RemoveDirectory
  <1>2. ASSUME TypeOK, NEW v \in Attempts, Ftp(v), NEW u \in Attempts, Revives(u)
        PROVE  MayRevive(u)
    <2>1. u = v
      BY <1>2, FtpType
    <2>2. ~Retr(v)
      BY <1>2 DEF Retr
    <2>3. CASE SessionStep(v)
      BY <1>2, <2>1, <2>3 DEF SessionStep, TypeOK
    <2>4. CASE ServerClosed(v)
      <3>1. sent[v] \in 0..Parts
        BY <1>2 DEF TypeOK
      <3>2. Report(v, "error", sent[v], "transfer_failed")
        BY <1>2, <2>4 DEF ServerClosed, EndSession
      <3>3. ~st'[v].in_progress
        BY <1>2, <3>1, <3>2, ReportEffect DEF Phase, Error
      <3> QED
        BY <1>2, <2>1, <3>3
    <2> QED
      BY <1>2, <2>2, <2>3, <2>4
         DEF Ftp, RetrStarts, DataOpened, DataRefused, Progress, TransferDone,
             SessionLost
  <1>3. ASSUME TypeOK, NEW c \in Chargers, FullRefresh(c), NEW u \in Attempts, Revives(u)
        PROVE  FALSE
    <2>1. st'[u] = UpdateTransfer(st[u], "installed", "none") /\ st[u] \in UpdateState
      BY <1>3 DEF FullRefresh, TypeOK
    <2> QED
      BY <1>3, <2>1 DEF UpdateTransfer, UpdateState
  <1>4. ASSUME Exit \/ Crash, NEW u \in Attempts
        PROVE  ~st'[u].in_progress
    <2>1. st'[u] = NoState
      BY <1>4 DEF Exit, Crash, ProcessEnds
    <2> QED
      BY <2>1 DEF NoState, NewState
  <1>5. TypeOK /\ [Next]_vars => [\A u \in Attempts : Revives(u) => MayRevive(u)]_vars
    BY <1>1, <1>2, <1>3, <1>4 DEF Next, BeginStop, FinishStop, Boot
  <1> QED
    BY <1>5, TypeCorrect, PTL DEF Spec
=============================================================================
