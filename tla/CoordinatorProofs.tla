------------------------- MODULE CoordinatorProofs -------------------------
(***************************************************************************)
(* Type correctness and the safety properties of Coordinator, for any      *)
(* number of tasks, limits, firmware versions and reloads.                 *)
(***************************************************************************)
EXTENDS Coordinator, TLAPS

-----------------------------------------------------------------------------
(***************************************************************************)
(* Lemmas about the values of the model                                    *)
(***************************************************************************)

\* The records of Init are of their types.
LEMMA NullTypes == NoData \in Data /\ NoRefresh \in Refresh /\ Idle.step = "idle"
  <1>1. NoData \in Data
    BY DEF NoData, Data, Limits
  <1>2. QED
    BY <1>1 DEF NoRefresh, Refresh, Idle

\* A marker made from the entry forgets that a reset was sent.
LEMMA FromEntryType ==
    ASSUME NEW r \in BOOLEAN, NEW f \in Versions \cup {None}
    PROVE  /\ FromEntry([required |-> r, firmware |-> f]) \in Marker
           /\ FromEntry([required |-> r, firmware |-> f]).required = r
           /\ FromEntry([required |-> r, firmware |-> f]).firmware = f
           /\ FromEntry([required |-> r, firmware |-> f]).pending = FALSE
           /\ FromEntry([required |-> r, firmware |-> f]).disconnected = FALSE
  BY DEF FromEntry, Marker

\* The requests that write a limit or the LED carry what they write.
LEMMA RequestType ==
    ASSUME NEW r \in Request
    PROVE  /\ r.kind = "limit" => r.key \in Limits /\ r.value \in Values
           /\ r.kind = "led" => r.value \in Values
           /\ r.kind \in Operations
  BY DEF Request

\* A task that is not idle has a request.
LEMMA BusyWriter ==
    ASSUME NEW r \in Writer, r.step # "idle"
    PROVE  r \in [step: WriterStep, request: Request, on: Lives]
  BY DEF Writer, Idle

\* GoTo moves one task only.
LEMMA GoToType ==
    ASSUME TypeOK, NEW w \in Writers, writer[w].step # "idle",
           NEW step \in WriterStep, GoTo(w, step)
    PROVE  writer' \in [Writers -> Writer]
  <1>1. writer[w] \in [step: WriterStep, request: Request, on: Lives]
    BY BusyWriter DEF TypeOK
  <1>2. [writer[w] EXCEPT !.step = step] \in Writer
    BY <1>1 DEF Writer
  <1>3. QED
    BY <1>2 DEF GoTo, TypeOK

\* The end of a task frees the lock it held and forgets its request.
LEMMA EndType ==
    ASSUME TypeOK, NEW w \in Writers, End(w)
    PROVE  /\ writer' \in [Writers -> Writer]
           /\ lock' \in [Lives -> Writers \cup {Refresher, None}]
  BY DEF End, Unlock, Writer, TypeOK

-----------------------------------------------------------------------------
(***************************************************************************)
(* Type correctness                                                        *)
(***************************************************************************)

\* The initial state is typed.
LEMMA InitType == Init => TypeOK
  <1> SUFFICES ASSUME Init PROVE TypeOK
    OBVIOUS
  <1>1. FromEntry(entry) \in Marker
    BY FromEntryType DEF Init
  <1>2. live \in Lives /\ Idle \in Writer
    BY ConstantsAssumption DEF Init, Lives, Writer
  <1>3. marker \in [Lives -> Marker]
    BY <1>1 DEF Init
  <1>4. QED
    BY <1>2, <1>3, NullTypes DEF Init, TypeOK

\* note_response keeps the types of the marker, the entry and the data.
LEMMA NoteResponseType ==
    ASSUME TypeOK, NEW g \in Lives, NoteResponse(g)
    PROVE  /\ entry' \in [required: BOOLEAN, firmware: Versions \cup {None}]
           /\ marker' \in [Lives -> Marker]
           /\ data' \in [Lives -> Data]
           /\ accepted' \in BOOLEAN
           /\ told' \in Versions \cup {None}
           /\ evidence' \in {"none", "reset", "outage"}
           /\ overwritten' \in BOOLEAN
  <1>1. data[g] \in Data /\ data[g].boot \in Versions \cup {None}
    BY DEF TypeOK, Data
  <1>2. FromEntry(entry') \in Marker
    BY <1>1, FromEntryType DEF NoteResponse
  <1>3. [data[g] EXCEPT !.restart = TRUE] \in Data
    BY <1>1 DEF Data
  <1>4. QED
    BY <1>1, <1>2, <1>3 DEF NoteResponse, Noticed, TypeOK

\* What async_set_led writes is an LED setting.
LEMMA WantedLedType ==
    ASSUME TypeOK, NEW w \in Writers, writer[w].step # "idle", Kind(w) = "led"
    PROVE  WantedLed(w) \in Led
  <1>1. /\ writer[w].request.value \in Values
        /\ writer[w].on \in Lives
    BY BusyWriter, RequestType DEF TypeOK, Kind
  <1>2. data[writer[w].on].led \in Led \cup {None}
    BY <1>1 DEF TypeOK, Data
  <1>3. QED
    BY <1>1, <1>2 DEF WantedLed, Led

\* The steps of a task
LEMMA StepType ==
    ASSUME TypeOK, NEW w \in Writers, Step(w)
    PROVE  TypeOK'
  <1> USE DEF chargerVars, markerVars, lifeVars, unwritten, At
  <1>0. writer[w].step # "idle" => /\ writer[w].on \in Lives
                                   /\ writer[w].request \in Request
    BY BusyWriter DEF TypeOK
  <1>1. CASE Check(w)
    <2>1. UNCHANGED <<chargerVars, markerVars, data, unwritten>>
      BY <1>1 DEF Check
    <2>2. CASE GoTo(w, "write") /\ UNCHANGED lock
      <3>1. writer' \in [Writers -> Writer]
        BY <1>1, <2>2, GoToType DEF Check, WriterStep
      <3>2. QED
        BY <2>1, <2>2, <3>1 DEF TypeOK
    <2>3. CASE End(w)
      BY <2>1, <2>3, EndType DEF TypeOK
    <2>4. QED
      BY <1>1, <2>2, <2>3 DEF Check
  <1>2. ASSUME Answered(w), writer[w].step = "write"
        PROVE  /\ writer' \in [Writers -> Writer]
               /\ lock' = lock
               /\ entry' \in [required: BOOLEAN, firmware: Versions \cup {None}]
               /\ marker' \in [Lives -> Marker]
               /\ data' \in [Lives -> Data]
               /\ accepted' \in BOOLEAN
               /\ told' \in Versions \cup {None}
               /\ evidence' \in {"none", "reset", "outage"}
               /\ overwritten' \in BOOLEAN
    <2>1. writer' \in [Writers -> Writer] /\ lock' = lock
      BY <1>2, GoToType DEF Answered, WriterStep
    <2>2. CASE NoteResponse(writer[w].on)
      BY <1>0, <1>2, <2>1, <2>2, NoteResponseType
    <2>3. CASE UNCHANGED <<markerVars, data>>
      BY <2>1, <2>3 DEF TypeOK
    <2>4. QED
      BY <1>2, <2>2, <2>3 DEF Answered
  <1>3. CASE WriteLimit(w)
    <2>1. /\ writer[w].step = "write"
          /\ UNCHANGED <<led, boot, unwritten>>
      BY <1>3 DEF WriteLimit
    <2>2. StoredLimit(writer[w].request) \in [Limits -> Values]
      BY <1>0, <1>3, RequestType DEF WriteLimit, StoredLimit, Kind, TypeOK
    <2>3. CASE limits' = StoredLimit(writer[w].request) /\ Answered(w)
      BY <1>2, <2>1, <2>2, <2>3 DEF TypeOK
    <2>4. CASE GoTo(w, "verify") /\ UNCHANGED <<limits, lock, markerVars, data>>
      <3>1. writer' \in [Writers -> Writer]
        BY <2>1, <2>4, GoToType DEF WriterStep
      <3>2. QED
        BY <2>1, <2>4, <3>1 DEF TypeOK
    <2>5. CASE /\ limits' \in {limits, StoredLimit(writer[w].request)}
               /\ End(w)
               /\ UNCHANGED <<markerVars, data>>
      BY <2>1, <2>2, <2>5, EndType DEF TypeOK
    <2>6. QED
      BY <1>3, <2>3, <2>4, <2>5 DEF WriteLimit
  <1>4. CASE WriteBundle(w)
    <2>1. writer[w].step = "write" /\ UNCHANGED <<chargerVars, unwritten>>
      BY <1>4 DEF WriteBundle
    <2>2. CASE Answered(w)
      BY <1>2, <2>1, <2>2 DEF TypeOK
    <2>3. CASE ~Answered(w)
      <3>1. /\ UNCHANGED <<entry, marker, told, evidence, overwritten, data>>
            /\ accepted' \in {accepted, TRUE}
        BY <1>4, <2>3 DEF WriteBundle
      <3>2. /\ writer' \in [Writers -> Writer]
            /\ lock' \in [Lives -> Writers \cup {Refresher, None}]
        <4>1. CASE End(w)
          BY <4>1, EndType, <2>1
        <4>2. CASE GoTo(w, "verify") /\ UNCHANGED lock
          BY <2>1, <4>2, GoToType DEF WriterStep, TypeOK
        <4>3. QED
          BY <1>4, <2>3, <4>1, <4>2 DEF WriteBundle
      <3>3. QED
        BY <2>1, <3>1, <3>2 DEF TypeOK
    <2>4. QED
      BY <2>2, <2>3
  <1>5. CASE WriteLed(w)
    <2>1. /\ UNCHANGED <<limits, boot, markerVars, data, unwritten>>
          /\ writer[w].step = "write"
          /\ led' \in {led, WantedLed(w)}
      BY <1>5 DEF WriteLed
    <2>2. led' \in Led
      BY <1>5, <2>1, WantedLedType DEF WriteLed, TypeOK
    <2>3. /\ writer' \in [Writers -> Writer]
          /\ lock' \in [Lives -> Writers \cup {Refresher, None}]
      <3>1. CASE End(w)
        BY <2>1, <3>1, EndType
      <3>2. CASE GoTo(w, "verify") /\ UNCHANGED lock
        BY <2>1, <3>2, GoToType DEF WriterStep, TypeOK
      <3>3. QED
        BY <1>5, <3>1, <3>2 DEF WriteLed
    <2>4. QED
      BY <2>1, <2>2, <2>3 DEF TypeOK
  <1>6. CASE Verify(w)
    <2>1. /\ UNCHANGED <<chargerVars, markerVars, unwritten>>
          /\ writer[w].step = "verify"
      BY <1>6 DEF Verify
    <2>2. CASE ReadBackFails(w)
      BY <2>1, <2>2, EndType DEF ReadBackFails, TypeOK
    <2>3. CASE Publish(w)
      <3> DEFINE g == writer[w].on
                 r == writer[w].request
      <3>1. g \in Lives /\ r \in Request /\ data[g] \in Data
        BY <1>0, <2>1 DEF TypeOK
      <3>2. CASE r.kind = "limit"
        <4>1. r.key \in Limits /\ r.value \in Values
          BY <3>1, <3>2, RequestType
        <4>2. [data[g].limits EXCEPT ![r.key] = r.value]
                \in [Limits -> Values \cup {None}]
          BY <3>1, <4>1 DEF Data
        <4>3. [data[g] EXCEPT !.limits = [data[g].limits EXCEPT ![r.key] = r.value]]
                \in Data
          BY <3>1, <4>2 DEF Data
        <4>4. data' = [data EXCEPT ![g] =
                [data[g] EXCEPT !.limits = [data[g].limits EXCEPT ![r.key] = r.value]]]
          BY <2>3, <3>1, <3>2 DEF Publish, TypeOK
        <4>5. data' \in [Lives -> Data]
          BY <3>1, <4>3, <4>4 DEF TypeOK
        <4>6. End(w)
          BY <2>3, <3>2 DEF Publish
        <4>7. QED
          BY <2>1, <4>5, <4>6, EndType DEF TypeOK
      <3>3. CASE r.kind = "led"
        <4>1. [data[g] EXCEPT !.led = led] \in Data
          BY <3>1 DEF Data, TypeOK
        <4>2. data' \in [Lives -> Data] /\ End(w)
          BY <2>3, <3>1, <3>3, <4>1 DEF Publish, TypeOK
        <4>3. QED
          BY <2>1, <4>2, EndType DEF TypeOK
      <3>4. CASE r.kind \notin {"limit", "led"}
        <4>1. data' = data
          BY <2>3, <3>4 DEF Publish
        <4>3. /\ writer' \in [Writers -> Writer]
              /\ lock' \in [Lives -> Writers \cup {Refresher, None}]
          <5>1. CASE End(w)
            BY <2>1, <5>1, EndType
          <5>2. CASE GoTo(w, "refresh") /\ Unlock(g)
            BY <2>1, <5>2, GoToType DEF WriterStep, Unlock, TypeOK
          <5>3. QED
            BY <2>3, <5>1, <5>2 DEF Publish
        <4>4. QED
          BY <2>1, <4>1, <4>3 DEF TypeOK
      <3>5. QED
        BY <3>2, <3>3, <3>4
    <2>4. QED
      BY <1>6, <2>2, <2>3 DEF Verify
  <1>7. CASE Restart(w)
    <2>1. /\ End(w)
          /\ UNCHANGED <<chargerVars, lifeVars, entry, accepted, told, overwritten, data,
                         refresh>>
      BY <1>7 DEF Restart
    <2>2. writer[w].on \in Lives /\ marker[writer[w].on] \in Marker
      BY <1>0, <1>7 DEF Restart, TypeOK
    <2>3. [marker[writer[w].on] EXCEPT !.pending = TRUE, !.disconnected = FALSE] \in Marker
      BY <2>2 DEF Marker
    <2>4. /\ marker' \in [Lives -> Marker]
          /\ full' \in [Lives -> BOOLEAN]
          /\ evidence' \in {"none", "reset", "outage"}
          /\ owed' \in {"no", "new", "taken", "lost"}
      <3>1. CASE UNCHANGED <<marker, full, evidence, owed>>
        BY <3>1 DEF TypeOK
      <3>2. CASE ~ UNCHANGED <<marker, full, evidence, owed>>
        <4>1. /\ marker' = [marker EXCEPT ![writer[w].on] =
                  [marker[writer[w].on] EXCEPT !.pending = TRUE, !.disconnected = FALSE]]
              /\ full' = [full EXCEPT ![writer[w].on] = TRUE]
              /\ evidence' \in {"reset", evidence}
              /\ owed' \in {"new", owed}
          BY <1>7, <2>2, <3>2 DEF Restart, TypeOK
        <4>2. marker' \in [Lives -> Marker]
          BY <2>2, <2>3, <4>1 DEF TypeOK
        <4>3. QED
          BY <4>1, <4>2 DEF TypeOK
      <3>3. QED
        BY <3>1, <3>2
    <2>5. QED
      BY <2>1, <2>4, EndType DEF TypeOK
  <1>8. CASE Command(w)
    <2>1. /\ UNCHANGED <<chargerVars, markerVars, data, unwritten>>
          /\ writer[w].step = "write"
      BY <1>8 DEF Command
    <2>2. /\ writer' \in [Writers -> Writer]
          /\ lock' \in [Lives -> Writers \cup {Refresher, None}]
      <3>1. CASE End(w)
        BY <2>1, <3>1, EndType
      <3>2. CASE GoTo(w, "refresh") /\ Unlock(writer[w].on)
        BY <2>1, <3>2, GoToType DEF WriterStep, Unlock, TypeOK
      <3>3. QED
        BY <1>8, <3>1, <3>2 DEF Command
    <2>3. QED
      BY <2>1, <2>2 DEF TypeOK
  <1>9. CASE AskRefresh(w)
    <2>1. /\ UNCHANGED <<chargerVars, markerVars, lifeVars, data, lock>>
          /\ owed' \in {"no", "new", "taken", "lost"}
      BY <1>9 DEF AskRefresh, TypeOK
    <2>2. writer[w].step = "refresh" /\ writer[w].on \in Lives
      BY <1>0, <1>9 DEF AskRefresh
    <2>3. writer' \in [Writers -> Writer]
      BY <1>9, <2>2, GoToType DEF AskRefresh, WriterStep, Writer, TypeOK
    <2>4. full' \in [Lives -> BOOLEAN] /\ refresh' \in [Lives -> Refresh]
      <3>1. [step |-> "waiting", full |-> TRUE, previous |-> data[writer[w].on]] \in Refresh
        BY <2>2 DEF Refresh, TypeOK
      <3>2. full \in [Lives -> BOOLEAN] /\ refresh \in [Lives -> Refresh]
        BY DEF TypeOK
      <3>3. full' \in [Lives -> BOOLEAN]
        BY <1>9, <2>2, <3>2 DEF AskRefresh, TakeRefresh
      <3>4. refresh' \in [Lives -> Refresh]
        BY <1>9, <2>2, <3>1, <3>2 DEF AskRefresh, TakeRefresh
      <3>5. QED
        BY <3>3, <3>4
    <2>5. QED
      BY <2>1, <2>3, <2>4 DEF TypeOK
  <1>10. CASE WriteWifi(w)
    <2>1. /\ writer[w].step = "write" /\ End(w)
          /\ UNCHANGED <<chargerVars, unwritten>>
      BY <1>10 DEF WriteWifi
    <2>2. CASE NoteResponse(writer[w].on)
      BY <1>0, <2>1, <2>2, NoteResponseType, EndType DEF TypeOK
    <2>3. CASE WithoutNotice
      BY <2>1, <2>3, EndType DEF WithoutNotice, TypeOK
    <2>4. QED
      BY <1>10, <2>2, <2>3 DEF WriteWifi
  <1>11. \/ Check(w) \/ WriteLimit(w) \/ WriteBundle(w) \/ WriteWifi(w) \/ WriteLed(w)
         \/ Verify(w) \/ Restart(w) \/ Command(w) \/ AskRefresh(w)
    BY Zenon DEF Step
  <1>12. QED
    BY <1>11, <1>1, <1>3, <1>4, <1>5, <1>6, <1>7, <1>8, <1>9, <1>10

\* What a refresh reads is data, whichever values it misses.
LEMMA SnapshotType ==
    ASSUME TypeOK, NEW g \in Lives, NEW missed
    PROVE  /\ Snapshot(g, missed) \in Data
           /\ Snapshot(g, missed).restart = refresh[g].previous.restart
  <1>1. refresh[g].previous \in Data
    BY DEF TypeOK, Refresh
  <1>2. Snapshot(g, missed).limits \in [Limits -> Values \cup {None}]
    BY <1>1 DEF Snapshot, TypeOK, Data
  <1>3. /\ Snapshot(g, missed).boot \in Versions \cup {None}
        /\ Snapshot(g, missed).led \in Led \cup {None}
        /\ Snapshot(g, missed).restart \in BOOLEAN
        /\ Snapshot(g, missed).restart = refresh[g].previous.restart
    BY <1>1 DEF Snapshot, TypeOK, Data
  <1>4. QED
    BY <1>2, <1>3 DEF Snapshot, Data

\* The end of a refresh frees the lock and lets its waiters end.
LEMMA EndRefreshType ==
    ASSUME TypeOK, NEW g \in Lives, EndRefresh(g)
    PROVE  /\ refresh' \in [Lives -> Refresh]
           /\ lock' \in [Lives -> Writers \cup {Refresher, None}]
           /\ writer' \in [Writers -> Writer]
  BY NullTypes DEF EndRefresh, RefreshOver, Unlock, Writer, TypeOK

\* The steps of a refresh
LEMMA RefreshType ==
    ASSUME TypeOK,
           StartRefresh \/ \E g \in Lives :
             \/ AcquireRefresh(g) \/ RefreshSucceeds(g) \/ RefreshFails(g)
             \/ RefreshCancelled(g)
    PROVE  TypeOK'
  <1> USE DEF chargerVars, markerVars, lifeVars
  <1>1. CASE StartRefresh
    <2>1. PICK due \in BOOLEAN : TakeRefresh(live, full[live] \/ due)
      BY <1>1 DEF StartRefresh
    <2>2. live \in Lives /\ (full[live] \/ due) \in BOOLEAN /\ data[live] \in Data
      BY DEF TypeOK
    <2>3. [step |-> "waiting", full |-> full[live] \/ due, previous |-> data[live]]
            \in Refresh
      BY <2>2 DEF Refresh
    <2>4. /\ refresh' \in [Lives -> Refresh]
          /\ full' \in [Lives -> BOOLEAN]
      BY <2>1, <2>2, <2>3 DEF TakeRefresh, TypeOK
    <2>5. /\ owed' \in {"taken", owed}
          /\ UNCHANGED <<chargerVars, markerVars, lifeVars, data, lock, writer>>
      BY <1>1 DEF StartRefresh
    <2>6. QED
      BY <2>4, <2>5 DEF TypeOK
  <1>2. ASSUME NEW g \in Lives, AcquireRefresh(g)
        PROVE  TypeOK'
    <2>1. [refresh[g] EXCEPT !.step = "reading"] \in Refresh
      BY DEF TypeOK, Refresh
    <2>2. QED
      BY <1>2, <2>1 DEF AcquireRefresh, TypeOK
  <1>3. ASSUME NEW g \in Lives, RefreshSucceeds(g)
        PROVE  TypeOK'
    <2>1. PICK missed \in SUBSET MayMiss :
            LET read == Snapshot(g, missed)
                m == marker[g]
                confirmed == Confirmed(m, read.boot)
                required == (m.required \/ read.restart) /\ ~confirmed
                firmware == IF confirmed THEN None ELSE m.firmware
            IN  /\ entry' = [required |-> required, firmware |-> firmware]
                /\ marker' = [marker EXCEPT ![g] =
                                IF confirmed THEN FromEntry(entry')
                                ELSE [m EXCEPT !.required = required]]
                /\ data' = [data EXCEPT ![g] = [read EXCEPT !.restart = required]]
      BY <1>3 DEF RefreshSucceeds
    <2> DEFINE read == Snapshot(g, missed)
               m == marker[g]
               confirmed == Confirmed(m, read.boot)
               required == (m.required \/ read.restart) /\ ~confirmed
               firmware == IF confirmed THEN None ELSE m.firmware
    <2>2. read \in Data /\ m \in Marker /\ read.restart \in BOOLEAN
      BY SnapshotType DEF TypeOK, Data
    <2>3. required \in BOOLEAN /\ firmware \in Versions \cup {None}
      BY <2>2 DEF Marker
    <2>4. /\ entry' = [required |-> required, firmware |-> firmware]
          /\ marker' = [marker EXCEPT ![g] = IF confirmed THEN FromEntry(entry')
                                             ELSE [m EXCEPT !.required = required]]
          /\ data' = [data EXCEPT ![g] = [read EXCEPT !.restart = required]]
      BY <2>1
    <2> HIDE DEF confirmed, required, firmware, read
    <2>5. entry' \in [required: BOOLEAN, firmware: Versions \cup {None}]
      BY <2>3, <2>4
    <2>6. FromEntry(entry') \in Marker
      BY <2>3, <2>4, FromEntryType
    <2>7. [m EXCEPT !.required = required] \in Marker
      BY <2>2, <2>3 DEF Marker
    <2>8. marker' \in [Lives -> Marker]
      BY <2>4, <2>6, <2>7 DEF TypeOK
    <2>9. [read EXCEPT !.restart = required] \in Data
      BY <2>2, <2>3 DEF Data
    <2>10. data' \in [Lives -> Data]
      BY <2>4, <2>9 DEF TypeOK
    <2>11. /\ EndRefresh(g)
           /\ ready' = [ready EXCEPT ![g] = TRUE]
           /\ owed' \in {"no", owed}
           /\ overwritten' \in BOOLEAN
           /\ UNCHANGED <<chargerVars, live, full, accepted, told, evidence>>
      BY <1>3 DEF RefreshSucceeds, TypeOK
    <2>12. QED
      BY <2>5, <2>8, <2>10, <2>11, EndRefreshType DEF TypeOK
  <1>4. ASSUME NEW g \in Lives, RefreshFails(g)
        PROVE  TypeOK'
    <2>1. PICK error \in Failures :
            /\ marker' = [marker EXCEPT ![g] =
                  IF ready[g]
                  THEN [marker[g] EXCEPT !.disconnected =
                          IF Disconnects(marker[g], error) THEN TRUE ELSE @]
                  ELSE FromEntry(entry)]
            /\ evidence' = IF evidence = "reset" /\ error = "connection"
                           THEN "outage" ELSE evidence
      BY <1>4 DEF RefreshFails
    <2>2. [marker[g] EXCEPT !.disconnected =
             IF Disconnects(marker[g], error) THEN TRUE ELSE @] \in Marker
      <3>1. marker[g] \in Marker
        BY DEF TypeOK
      <3>2. CASE Disconnects(marker[g], error)
        BY <3>1, <3>2 DEF Marker
      <3>3. CASE ~Disconnects(marker[g], error)
        BY <3>1, <3>3 DEF Marker
      <3>4. QED
        BY <3>2, <3>3
    <2>3. FromEntry(entry) \in Marker
      BY DEF FromEntry, Marker, TypeOK
    <2>4. marker' \in [Lives -> Marker] /\ evidence' \in {"outage", evidence}
      BY <2>1, <2>2, <2>3 DEF TypeOK
    <2>5. RequestedAgain(g) \in BOOLEAN
      BY DEF RequestedAgain, TypeOK, Refresh
    <2>6. /\ EndRefresh(g)
          /\ full' = [full EXCEPT ![g] = RequestedAgain(g)]
          /\ owed' \in {"new", owed}
          /\ UNCHANGED <<chargerVars, lifeVars, data, entry, accepted, told, overwritten>>
      BY <1>4 DEF RefreshFails
    <2>7. QED
      BY <2>4, <2>5, <2>6, EndRefreshType DEF TypeOK
  <1>5. ASSUME NEW g \in Lives, RefreshCancelled(g)
        PROVE  TypeOK'
    <2>1. /\ owed' \in {"lost", owed}
          /\ UNCHANGED <<chargerVars, markerVars, lifeVars, data, full>>
      BY <1>5 DEF RefreshCancelled
    <2>2. /\ refresh' \in [Lives -> Refresh]
          /\ lock' \in [Lives -> Writers \cup {Refresher, None}]
          /\ writer' \in [Writers -> Writer]
      <3>1. CASE EndRefresh(g)
        BY <3>1, EndRefreshType
      <3>2. CASE RefreshOver(g) /\ UNCHANGED lock
        BY <3>2, NullTypes DEF RefreshOver, Writer, TypeOK
      <3>3. QED
        BY <1>5, <3>1, <3>2 DEF RefreshCancelled
    <2>3. QED
      BY <2>1, <2>2 DEF TypeOK
  <1>6. QED
    BY <1>1, <1>2, <1>3, <1>4, <1>5

\* A task begins, gets the lock, or is cancelled while it waits for the lock.
LEMMA BeginType ==
    ASSUME TypeOK, NEW w \in Writers, Begin(w) \/ Acquire(w) \/ Cancel(w)
    PROVE  TypeOK'
  <1> USE DEF chargerVars, markerVars, lifeVars
  <1>1. CASE Begin(w)
    <2>1. PICK r \in Request : writer' = [writer EXCEPT ![w] =
            [step |-> IF r.kind = "refresh" THEN "refresh" ELSE "waiting",
             request |-> r, on |-> live]]
      BY <1>1 DEF Begin
    <2>2. writer' \in [Writers -> Writer]
      BY <2>1 DEF TypeOK, Writer, WriterStep
    <2>3. QED
      BY <1>1, <2>2 DEF Begin, TypeOK
  <1>2. CASE Acquire(w)
    <2>1. writer[w].step = "waiting" /\ writer[w].on \in Lives
      BY <1>2, BusyWriter DEF Acquire, At, TypeOK
    <2>2. GoTo(w, IF Kind(w) = "limit" THEN "check" ELSE "write")
      BY <1>2 DEF Acquire
    <2>3. writer' \in [Writers -> Writer]
      BY <2>1, <2>2, GoToType DEF WriterStep
    <2>4. QED
      BY <1>2, <2>1, <2>3 DEF Acquire, TypeOK
  <1>3. CASE Cancel(w)
    BY <1>3 DEF Cancel, TypeOK, Writer
  <1>4. QED
    BY <1>1, <1>2, <1>3

\* Every step keeps the types.
LEMMA NextType == TypeOK /\ [Next]_vars => TypeOK'
  <1> SUFFICES ASSUME TypeOK, [Next]_vars PROVE TypeOK'
    OBVIOUS
  <1> USE DEF chargerVars, lifeVars
  <1>1. CASE Reload
    <2>1. live + 1 \in Lives
      BY <1>1, ConstantsAssumption DEF Reload, Lives, TypeOK
    <2>2. FromEntry(entry) \in Marker
      BY DEF FromEntry, Marker, TypeOK
    <2>3. QED
      BY <1>1, <2>1, <2>2 DEF Reload, TypeOK
  <1>2. CASE ChargerRestarts
    BY <1>2 DEF ChargerRestarts, TypeOK
  <1>3. CASE UNCHANGED vars
    BY <1>3 DEF vars, TypeOK
  <1>4. QED
    BY <1>1, <1>2, <1>3, BeginType, StepType, RefreshType DEF Next

\* Every value the coordinator, its entry and its tasks hold is of its type,
\* whatever the tasks, the charger, the failures and the reloads.
THEOREM TypeCorrect == Spec => []TypeOK
  <1>1. QED
    BY InitType, NextType, PTL DEF Spec

-----------------------------------------------------------------------------
(***************************************************************************)
(* What the steps of a task leave alone                                    *)
(***************************************************************************)

\* A task keeps its coordinator and its request until it ends.
Keeps(u) ==
    \/ writer'[u] = Idle
    \/ /\ writer[u].step # "idle"
       /\ writer'[u].on = writer[u].on
       /\ writer'[u].request = writer[u].request

\* A step of a task other than Begin moves that task alone, and it keeps its
\* coordinator and its request.
LEMMA TaskMoves ==
    ASSUME TypeOK, NEW w \in Writers, Acquire(w) \/ Cancel(w) \/ Step(w)
    PROVE  /\ writer[w].step # "idle"
           /\ Keeps(w)
           /\ \A u \in Writers \ {w} : writer'[u] = writer[u]
  <1>1. ASSUME NEW step \in WriterStep, GoTo(w, step), writer[w].step # "idle"
        PROVE  Keeps(w) /\ \A u \in Writers \ {w} : writer'[u] = writer[u]
    BY <1>1, BusyWriter DEF GoTo, TypeOK, Keeps
  <1>2. ASSUME End(w) \/ writer' = [writer EXCEPT ![w] = Idle]
        PROVE  Keeps(w) /\ \A u \in Writers \ {w} : writer'[u] = writer[u]
    BY <1>2 DEF End, TypeOK, Keeps
  <1>3. writer[w].step # "idle"
    BY DEF Acquire, Cancel, Step, Check, WriteLimit, WriteBundle, WriteWifi, WriteLed,
           Verify, Restart, Command, AskRefresh, At
  <1>4. \/ End(w) \/ writer' = [writer EXCEPT ![w] = Idle]
        \/ \E step \in WriterStep : GoTo(w, step)
    <2>1. CASE Acquire(w)
      BY <2>1 DEF Acquire, WriterStep
    <2>2. CASE Check(w)
      BY <2>2 DEF Check, WriterStep
    <2>3. CASE WriteLimit(w)
      BY <2>3 DEF WriteLimit, Answered, WriterStep
    <2>4. CASE WriteBundle(w)
      BY <2>4 DEF WriteBundle, Answered, WriterStep
    <2>5. CASE WriteLed(w)
      BY <2>5 DEF WriteLed, WriterStep
    <2>6. CASE Verify(w)
      BY <2>6 DEF Verify, ReadBackFails, Publish, WriterStep
    <2>7. CASE Restart(w)
      BY <2>7 DEF Restart
    <2>8. CASE Command(w)
      BY <2>8 DEF Command, WriterStep
    <2>9. CASE AskRefresh(w)
      BY <2>9 DEF AskRefresh, WriterStep
    <2>10. CASE WriteWifi(w)
      BY <2>10 DEF WriteWifi
    <2>11. CASE Cancel(w)
      BY <2>11 DEF Cancel
    <2>12. QED
      BY <2>1, <2>2, <2>3, <2>4, <2>5, <2>6, <2>7, <2>8, <2>9, <2>10, <2>11 DEF Step
  <1>5. QED
    BY <1>1, <1>2, <1>3, <1>4

\* Of the steps of a task, only a restart and a refresh request touch the request
\* for a full refresh.
LEMMA TaskFrame ==
    ASSUME NEW w \in Writers, Begin(w) \/ Acquire(w) \/ Cancel(w) \/ Step(w)
    PROVE  /\ UNCHANGED <<live, ready>>
           /\ Restart(w) \/ AskRefresh(w) \/ UNCHANGED <<full, owed>>
           /\ AskRefresh(w) \/ UNCHANGED refresh
  BY DEF Begin, Acquire, Cancel, Step, Check, WriteLimit, WriteBundle, WriteWifi,
         WriteLed, Verify, Restart, Command, AskRefresh, unwritten, lifeVars

\* Every task, idle or not, names a coordinator.
LEMMA OnType ==
    ASSUME TypeOK, NEW w \in Writers
    PROVE  writer[w].on \in Lives
  BY ConstantsAssumption DEF TypeOK, Writer, Idle, Lives

\* A restart or a refresh request touches its own coordinator only, and what it
\* does there is a request for a full refresh or a refresh that reads everything.
LEMMA RequestFrame ==
    ASSUME TypeOK, NEW w \in Writers, Restart(w) \/ AskRefresh(w)
    PROVE  LET g == writer[w].on
           IN  /\ \A h \in Lives \ {g} : full'[h] = full[h] /\ refresh'[h] = refresh[h]
               /\ \/ UNCHANGED <<full, refresh, owed>>
                  \/ /\ full'[g] = TRUE
                     /\ refresh' = refresh
                     /\ owed' = IF g = live THEN "new" ELSE owed
                  \/ /\ g = live
                     /\ refresh'[g] = [step |-> "waiting", full |-> TRUE,
                                       previous |-> data[g]]
                     /\ owed' = "taken"
  <1> DEFINE g == writer[w].on
  <1>1. g \in Lives
    BY OnType
  <1>2. CASE full' = [full EXCEPT ![g] = TRUE] /\ refresh' = refresh
             /\ owed' = IF g = live THEN "new" ELSE owed
    BY <1>1, <1>2 DEF TypeOK
  <1>3. CASE UNCHANGED <<full, refresh, owed>>
    BY <1>3
  <1>4. CASE g = live /\ TakeRefresh(g, TRUE) /\ owed' = "taken"
    BY <1>1, <1>4 DEF TakeRefresh, TypeOK
  <1>5. QED
    <2>1. CASE Restart(w)
      BY <2>1, <1>2, <1>3 DEF Restart
    <2>2. CASE AskRefresh(w)
      BY <2>2, <1>2, <1>4 DEF AskRefresh
    <2>3. QED
      BY <2>1, <2>2

\* The end of a refresh concerns one coordinator, and ends the tasks that wait.
LEMMA RefreshFrame ==
    ASSUME TypeOK, NEW g \in Lives,
           \/ AcquireRefresh(g) \/ RefreshSucceeds(g) \/ RefreshFails(g)
           \/ RefreshCancelled(g)
    PROVE  /\ refresh[g].step # "idle"
           /\ live' = live
           /\ \A h \in Lives \ {g} : /\ refresh'[h] = refresh[h]
                                     /\ full'[h] = full[h]
                                     /\ ready'[h] = ready[h]
           /\ \A w \in Writers : writer'[w] \in {writer[w], Idle}
  <1>1. CASE AcquireRefresh(g)
    BY <1>1 DEF AcquireRefresh, lifeVars, TypeOK
  <1>2. CASE RefreshSucceeds(g) \/ RefreshFails(g) \/ RefreshCancelled(g)
    <2>1. refresh[g].step # "idle" /\ RefreshOver(g)
      BY <1>2 DEF RefreshSucceeds, RefreshFails, RefreshCancelled, EndRefresh
    <2>2. /\ \A h \in Lives \ {g} : refresh'[h] = refresh[h]
          /\ \A w \in Writers : writer'[w] \in {writer[w], Idle}
      BY <2>1 DEF RefreshOver, TypeOK
    <2>3. /\ live' = live
          /\ full' \in {full, [full EXCEPT ![g] = RequestedAgain(g)]}
          /\ ready' \in {ready, [ready EXCEPT ![g] = TRUE]}
      BY <1>2 DEF RefreshSucceeds, RefreshFails, RefreshCancelled, lifeVars
    <2>4. QED
      BY <2>1, <2>2, <2>3 DEF TypeOK
  <1>3. QED
    BY <1>1, <1>2

-----------------------------------------------------------------------------
(***************************************************************************)
(* A request for a full refresh is kept                                    *)
(***************************************************************************)

\* The coordinators to come are untouched, and no task runs on them.
Future ==
    /\ \A g \in Lives : g > live => full[g] /\ refresh[g].step = "idle" /\ ~ready[g]
    /\ \A w \in Writers : writer[w].on <= live

\* Initially nothing belongs to a later coordinator.
LEMMA FutureInit == Init => Future
  BY ConstantsAssumption DEF Init, Future, NoRefresh, Idle, Lives

\* No step makes a task or a refresh of a coordinator that is not loaded yet.
LEMMA FutureStep ==
    ASSUME TypeOK, Future, Next
    PROVE  Future'
  <1> live \in Nat /\ live \in Lives /\ 1 <= live
    BY ConstantsAssumption DEF TypeOK, Lives
  <1>1. ASSUME NEW w \in Writers, Begin(w) \/ Acquire(w) \/ Cancel(w) \/ Step(w)
        PROVE  Future'
    <2>1. \A u \in Writers : writer'[u].on <= live
      <3>1. CASE Begin(w)
        <4>1. PICK r \in Request : writer' = [writer EXCEPT ![w] =
                [step |-> IF r.kind = "refresh" THEN "refresh" ELSE "waiting",
                 request |-> r, on |-> live]]
          BY <3>1 DEF Begin
        <4>2. QED
          BY <4>1 DEF Future, TypeOK
      <3>2. CASE Acquire(w) \/ Cancel(w) \/ Step(w)
        BY <3>2, TaskMoves DEF Keeps, Future, Idle
      <3>3. QED
        BY <1>1, <3>1, <3>2
    <2>2. live' = live /\ ready' = ready
      BY <1>1, TaskFrame
    <2>3. CASE UNCHANGED <<full, refresh>>
      BY <2>1, <2>2, <2>3 DEF Future
    <2>4. CASE Restart(w) \/ AskRefresh(w)
      <3>1. writer[w].on \in Lives /\ writer[w].on <= live
        BY OnType DEF Future
      <3>2. \A g \in Lives : g > live => full'[g] = full[g] /\ refresh'[g] = refresh[g]
        <4>1. \A g \in Lives : g > live => g # writer[w].on
          BY <3>1 DEF Lives
        <4>2. QED
          BY <2>4, <4>1, RequestFrame
      <3>3. QED
        BY <2>1, <2>2, <3>2 DEF Future
    <2>5. QED
      BY <1>1, <2>3, <2>4, TaskFrame
  <1>2. CASE StartRefresh
    BY <1>2 DEF StartRefresh, TakeRefresh, Future, lifeVars, TypeOK
  <1>3. ASSUME NEW g \in Lives,
               \/ AcquireRefresh(g) \/ RefreshSucceeds(g) \/ RefreshFails(g)
               \/ RefreshCancelled(g)
        PROVE  Future'
    <2>1. ~(g > live)
      BY <1>3, RefreshFrame DEF Future
    <2>2. \A w \in Writers : writer'[w].on <= live
      BY <1>3, RefreshFrame DEF Idle, Future
    <2>3. QED
      BY <1>3, <2>1, <2>2, RefreshFrame DEF Future
  <1>4. CASE Reload
    <2>1. live' = live + 1 /\ UNCHANGED <<ready, full, refresh, writer>>
      BY <1>4 DEF Reload
    <2>2. \A g \in Lives : g > live + 1 => g > live
      BY DEF Lives
    <2>3. \A w \in Writers : writer[w].on <= live + 1
      <3>1. \A w \in Writers : writer[w].on \in Nat
        BY OnType DEF Lives
      <3>2. QED
        BY <3>1 DEF Future
    <2>4. QED
      BY <2>1, <2>2, <2>3 DEF Future
  <1>5. CASE ChargerRestarts
    BY <1>5 DEF ChargerRestarts, Future, lifeVars
  <1>6. QED
    BY <1>1, <1>2, <1>3, <1>4, <1>5 DEF Next

\* Every step keeps a requested full refresh.
LEMMA RequestStep ==
    ASSUME TypeOK, Future, FullRequestKept, Next
    PROVE  FullRequestKept'
  <1> live \in Lives
    BY DEF TypeOK
  <1>1. ASSUME NEW w \in Writers, Begin(w) \/ Acquire(w) \/ Cancel(w) \/ Step(w)
        PROVE  FullRequestKept'
    <2>1. live' = live
      BY <1>1, TaskFrame
    <2>2. CASE UNCHANGED <<full, owed, refresh>>
      BY <2>1, <2>2 DEF FullRequestKept
    <2>3. CASE Restart(w) \/ AskRefresh(w)
      <3> DEFINE g == writer[w].on
      <3>1. CASE g = live
        <4>1. CASE full'[live] = TRUE /\ refresh' = refresh /\ owed' = "new"
          BY <2>1, <4>1 DEF FullRequestKept
        <4>2. CASE /\ refresh'[live] = [step |-> "waiting", full |-> TRUE,
                                        previous |-> data[live]]
                   /\ owed' = "taken"
          <5>1. refresh'[live].step = "waiting" /\ refresh'[live].full = TRUE
            BY <4>2
          <5>2. QED
            BY <2>1, <4>2, <5>1 DEF FullRequestKept
        <4>3. QED
          BY <2>2, <2>3, <3>1, <4>1, <4>2, RequestFrame
      <3>2. CASE g # live
        <4>1. full'[live] = full[live] /\ refresh'[live] = refresh[live]
          BY <2>3, <3>2, RequestFrame
        <4>2. owed' = owed
          BY <2>3, <3>2, RequestFrame
        <4>3. QED
          BY <2>1, <4>1, <4>2 DEF FullRequestKept
      <3>3. QED
        BY <3>1, <3>2
    <2>4. QED
      BY <1>1, <2>2, <2>3, TaskFrame
  <1>2. CASE StartRefresh
    <2>1. PICK due \in BOOLEAN : TakeRefresh(live, full[live] \/ due)
      BY <1>2 DEF StartRefresh
    <2>2. /\ refresh'[live].step = "waiting"
          /\ refresh'[live].full = (full[live] \/ due)
      BY <2>1 DEF TakeRefresh, TypeOK
    <2>3. /\ owed' = IF owed = "new" THEN "taken" ELSE owed
          /\ live' = live
          /\ refresh[live].step = "idle"
      BY <1>2 DEF StartRefresh, lifeVars
    <2>4. owed' # "new"
      BY <2>3
    <2>5. owed' = "taken" => owed = "new"
      BY <2>3 DEF FullRequestKept
    <2>6. QED
      BY <2>2, <2>3, <2>4, <2>5 DEF FullRequestKept
  <1>3. ASSUME NEW g \in Lives,
               \/ AcquireRefresh(g) \/ RefreshSucceeds(g) \/ RefreshFails(g)
               \/ RefreshCancelled(g)
        PROVE  FullRequestKept'
    <2>1. CASE AcquireRefresh(g)
      <3>1. refresh'[live].step # "idle" \/ refresh[live].step = "idle"
        BY <2>1 DEF AcquireRefresh, TypeOK, Refresh
      <3>2. refresh'[live].full = refresh[live].full
        BY <2>1 DEF AcquireRefresh, TypeOK, Refresh
      <3>3. QED
        BY <2>1, <3>1, <3>2 DEF AcquireRefresh, FullRequestKept, lifeVars
    <2>2. CASE RefreshSucceeds(g)
      <3>1. /\ UNCHANGED <<live, full>>
            /\ owed' = IF g = live /\ refresh[g].full /\ owed # "new"
                       THEN "no" ELSE owed
            /\ refresh' = [refresh EXCEPT ![g] = NoRefresh]
        BY <2>2 DEF RefreshSucceeds, EndRefresh, RefreshOver
      <3>2. CASE g = live
        BY <3>1, <3>2 DEF FullRequestKept
      <3>3. CASE g # live
        <4>1. refresh'[live] = refresh[live] /\ owed' = owed
          BY <3>1, <3>3 DEF TypeOK
        <4>2. QED
          BY <3>1, <4>1 DEF FullRequestKept
      <3>4. QED
        BY <3>2, <3>3
    <2>3. CASE RefreshFails(g)
      <3>1. /\ live' = live
            /\ full' = [full EXCEPT ![g] = RequestedAgain(g)]
            /\ owed' = IF g = live /\ owed = "taken" THEN "new" ELSE owed
            /\ refresh' = [refresh EXCEPT ![g] = NoRefresh]
        BY <2>3 DEF RefreshFails, EndRefresh, RefreshOver, lifeVars
      <3>2. CASE g = live
        <4>1. owed' # "taken" /\ full'[live] = RequestedAgain(live)
          BY <3>1, <3>2 DEF TypeOK
        <4>2. owed' = "new" => owed = "new" \/ owed = "taken"
          BY <3>1
        <4>3. owed \in {"new", "taken"} => RequestedAgain(live)
          BY DEF RequestedAgain, FullRequestKept
        <4>4. QED
          BY <3>1, <4>1, <4>2, <4>3 DEF FullRequestKept
      <3>3. CASE g # live
        <4>1. refresh'[live] = refresh[live] /\ owed' = owed /\ full'[live] = full[live]
          BY <3>1, <3>3 DEF TypeOK
        <4>2. QED
          BY <3>1, <4>1 DEF FullRequestKept
      <3>4. QED
        BY <3>2, <3>3
    <2>4. CASE RefreshCancelled(g)
      <3>1. /\ UNCHANGED <<live, full>>
            /\ owed' = IF g = live /\ owed = "taken" THEN "lost" ELSE owed
            /\ refresh' = [refresh EXCEPT ![g] = NoRefresh]
        BY <2>4 DEF RefreshCancelled, EndRefresh, RefreshOver, lifeVars
      <3>2. g # live => refresh'[live] = refresh[live]
        BY <3>1 DEF TypeOK
      <3>3. QED
        BY <3>1, <3>2 DEF FullRequestKept
    <2>5. QED
      BY <1>3, <2>1, <2>2, <2>3, <2>4
  <1>4. CASE Reload
    <2>1. live' = live + 1 /\ owed' = "new" /\ full' = full /\ live + 1 \in Lives
      BY <1>4, ConstantsAssumption DEF Reload, Lives
    <2>2. live + 1 > live
      BY DEF Lives
    <2>3. full[live + 1]
      BY <2>1, <2>2 DEF Future
    <2>4. QED
      BY <2>1, <2>3 DEF FullRequestKept
  <1>5. CASE ChargerRestarts
    BY <1>5 DEF ChargerRestarts, FullRequestKept, lifeVars
  <1>6. QED
    BY <1>1, <1>2, <1>3, <1>4, <1>5 DEF Next

\* However the tasks, the refreshes, their failures, cancellations and the reloads
\* interleave, a requested full refresh is still flagged, or a refresh that reads
\* everything is under way; only a cancelled refresh takes its request with it.
THEOREM FullRequestIsKept == Spec => []FullRequestKept
  <1> DEFINE I == TypeOK /\ Future /\ FullRequestKept
  <1>1. Init => I
    <2>1. Init => live = 1 /\ owed = "new" /\ full = [g \in Lives |-> TRUE] /\ 1 \in Lives
      BY ConstantsAssumption DEF Init, Lives
    <2>2. QED
      BY <2>1, InitType, FutureInit DEF FullRequestKept
  <1>2. I /\ [Next]_vars => I'
    <2>1. CASE Next
      BY <2>1, NextType, FutureStep, RequestStep
    <2>2. CASE UNCHANGED vars
      BY <2>2, NextType DEF vars, Future, FullRequestKept
    <2>3. QED
      BY <2>1, <2>2
  <1>3. QED
    BY <1>1, <1>2, PTL DEF Spec

-----------------------------------------------------------------------------
(***************************************************************************)
(* The limits stay ordered, when a reload waits for the tasks              *)
(***************************************************************************)

\* Without a reload under way, everything runs on the live coordinator.
OnLive ==
    /\ \A w \in Writers : writer[w].step # "idle" => writer[w].on = live
    /\ \A g \in Lives : refresh[g].step # "idle" => g = live

\* Initially every task and refresh is of the live coordinator.
LEMMA OnLiveInit == Init => OnLive
  BY NullTypes DEF Init, OnLive, NoRefresh

\* Without a reload under a running action that remains so.
LEMMA OnLiveStep ==
    ASSUME TypeOK, OnLive, Next, ~ReloadBusy
    PROVE  OnLive'
  <1>1. ASSUME NEW w \in Writers, Begin(w) \/ Acquire(w) \/ Cancel(w) \/ Step(w)
        PROVE  OnLive'
    <2>1. live' = live
      BY <1>1, TaskFrame
    <2>2. \A u \in Writers : writer'[u].step # "idle" => writer'[u].on = live
      <3>1. CASE Begin(w)
        <4>1. PICK r \in Request : writer' = [writer EXCEPT ![w] =
                [step |-> IF r.kind = "refresh" THEN "refresh" ELSE "waiting",
                 request |-> r, on |-> live]]
          BY <3>1 DEF Begin
        <4>2. QED
          BY <4>1 DEF OnLive, TypeOK
      <3>2. CASE Acquire(w) \/ Cancel(w) \/ Step(w)
        BY <3>2, TaskMoves, NullTypes DEF Keeps, OnLive
      <3>3. QED
        BY <1>1, <3>1, <3>2
    <2>3. \A g \in Lives : refresh'[g].step # "idle" => g = live
      <3>1. CASE UNCHANGED refresh
        BY <3>1 DEF OnLive
      <3>2. CASE AskRefresh(w)
        <4>1. writer[w].on = live
          BY <3>2 DEF AskRefresh, At, OnLive
        <4>2. QED
          BY <3>2, <4>1, RequestFrame DEF OnLive
      <3>3. QED
        BY <1>1, <3>1, <3>2, TaskFrame
    <2>4. QED
      BY <2>1, <2>2, <2>3 DEF OnLive
  <1>2. CASE StartRefresh
    BY <1>2 DEF StartRefresh, TakeRefresh, OnLive, lifeVars, TypeOK
  <1>3. ASSUME NEW g \in Lives,
               \/ AcquireRefresh(g) \/ RefreshSucceeds(g) \/ RefreshFails(g)
               \/ RefreshCancelled(g)
        PROVE  OnLive'
    <2>1. g = live /\ live' = live
      BY <1>3, RefreshFrame DEF OnLive
    <2>2. \A h \in Lives : refresh'[h].step # "idle" => h = live
      BY <1>3, <2>1, RefreshFrame DEF OnLive
    <2>3. \A w \in Writers : writer'[w].step # "idle" => writer'[w].on = live
      BY <1>3, RefreshFrame, NullTypes DEF OnLive
    <2>4. QED
      BY <2>1, <2>2, <2>3 DEF OnLive
  <1>4. CASE Reload
    <2>1. \A w \in Writers : writer'[w].step = "idle"
      BY <1>4 DEF Reload, At
    <2>2. \A g \in Lives : refresh'[g].step = "idle"
      BY <1>4 DEF Reload, OnLive
    <2>3. QED
      BY <2>1, <2>2 DEF OnLive
  <1>5. CASE ChargerRestarts
    BY <1>5 DEF ChargerRestarts, OnLive, lifeVars
  <1>6. QED
    BY <1>1, <1>2, <1>3, <1>4, <1>5 DEF Next

\* A task between its check and the end of its read-back owns the lock.
InTransaction(w) == writer[w].step \in {"check", "write", "verify"}

\* The check of a limit is still good when the limit is written.
LimitsInv ==
    /\ LimitsOrdered
    /\ \A w \in Writers : InTransaction(w) => lock[writer[w].on] = w
    /\ \A g \in Lives : refresh[g].step = "reading" => lock[g] = Refresher
    /\ \A w \in Writers : At(w, "check") => Kind(w) = "limit"
    /\ \A w \in Writers :
          At(w, "write") /\ Kind(w) = "limit"
          => LET r == writer[w].request IN ~Conflict(r, limits[Other(r.key)])

\* Two tasks of one coordinator are never both in a transaction.
LEMMA OneTransaction ==
    ASSUME OnLive, LimitsInv,
           NEW w \in Writers, NEW u \in Writers, InTransaction(w), InTransaction(u)
    PROVE  u = w
  BY DEF OnLive, LimitsInv, InTransaction

\* The lock changes hands only through its owner, and the limits are written only
\* by a task in a transaction.
LEMMA LimitsFrame ==
    ASSUME NEW w \in Writers, Step(w)
    PROVE  /\ WriteLimit(w) \/ UNCHANGED limits
           /\ UNCHANGED lock \/ (Unlock(writer[w].on) /\ InTransaction(w))
  <1> USE DEF End, GoTo, chargerVars, markerVars, lifeVars, unwritten, At, InTransaction
  <1>1. CASE Check(w)
    BY <1>1 DEF Check
  <1>2. CASE WriteLimit(w)
    BY <1>2 DEF WriteLimit, Answered
  <1>3. CASE WriteBundle(w)
    BY <1>3 DEF WriteBundle, Answered
  <1>4. CASE WriteLed(w)
    BY <1>4 DEF WriteLed
  <1>5. CASE Verify(w)
    BY <1>5 DEF Verify, ReadBackFails, Publish
  <1>6. CASE Restart(w)
    BY <1>6 DEF Restart
  <1>7. CASE Command(w)
    BY <1>7 DEF Command
  <1>8. CASE AskRefresh(w)
    BY <1>8 DEF AskRefresh
  <1>9. CASE WriteWifi(w)
    BY <1>9 DEF WriteWifi
  <1>10. QED
    BY <1>1, <1>2, <1>3, <1>4, <1>5, <1>6, <1>7, <1>8, <1>9 DEF Step

\* Where a step of a task leads: it ends, waits for the refresh, or goes on in its
\* transaction; only a check that found no conflict leads to the write.
LEMMA StepLeads ==
    ASSUME TypeOK, NEW w \in Writers, Step(w)
    PROVE  LET r == writer[w].request IN
           \/ writer'[w].step \in {"idle", "refresh", "refreshing"}
           \/ /\ writer'[w].step = "write"
              /\ UNCHANGED lock
              /\ At(w, "check")
              /\ r.key \in Limits /\ MayMiss \cap Limits = {}
                 => ~Conflict(r, limits[Other(r.key)])
           \/ writer'[w].step = "verify" /\ UNCHANGED lock /\ At(w, "write")
  <1>1. ASSUME NEW step \in WriterStep, GoTo(w, step)
        PROVE  writer'[w].step = step
    BY <1>1, TaskMoves, BusyWriter DEF GoTo, TypeOK
  <1>2. ASSUME End(w) PROVE writer'[w].step = "idle"
    BY <1>2, NullTypes DEF End, TypeOK
  <1> USE DEF WriterStep
  <1>3. CASE Check(w)
    <2>1. At(w, "check")
      BY <1>3 DEF Check
    <2> DEFINE r == writer[w].request
    <2>2. CASE ~Conflict(r, limits[Other(r.key)]) /\ GoTo(w, "write") /\ UNCHANGED lock
      BY <1>1, <2>1, <2>2
    <2>3. CASE Other(r.key) \in MayMiss /\ GoTo(w, "write") /\ UNCHANGED lock
      BY <1>1, <2>1, <2>3 DEF Other, Limits
    <2>4. CASE End(w)
      BY <1>2, <2>4
    <2>5. QED
      BY <1>3, <2>2, <2>3, <2>4 DEF Check
  <1>4. CASE At(w, "write") /\ GoTo(w, "verify") /\ UNCHANGED lock
    BY <1>1, <1>4
  <1>5. CASE End(w) \/ GoTo(w, "refresh") \/ GoTo(w, "refreshing")
    BY <1>1, <1>2, <1>5
  <1>6. CASE WriteLimit(w)
    BY <1>4, <1>5, <1>6 DEF WriteLimit, Answered
  <1>7. CASE WriteBundle(w)
    BY <1>4, <1>5, <1>7 DEF WriteBundle, Answered
  <1>8. CASE WriteLed(w)
    BY <1>4, <1>5, <1>8 DEF WriteLed
  <1>9. CASE Verify(w)
    BY <1>5, <1>9 DEF Verify, ReadBackFails, Publish
  <1>10. CASE Restart(w)
    BY <1>5, <1>10 DEF Restart
  <1>11. CASE Command(w)
    BY <1>5, <1>11 DEF Command
  <1>12. CASE AskRefresh(w)
    <2>1. writer' = [writer EXCEPT ![w] = Idle] => writer'[w].step = "idle"
      BY NullTypes DEF TypeOK
    <2>2. QED
      BY <1>5, <1>12, <2>1 DEF AskRefresh
  <1>13. CASE WriteWifi(w)
    BY <1>5, <1>13 DEF WriteWifi
  <1>14. QED
    BY <1>3, <1>6, <1>7, <1>8, <1>9, <1>10, <1>11, <1>12, <1>13 DEF Step

\* Writing a limit that does not conflict with the stored other one keeps the order.
LEMMA WriteKeepsOrder ==
    ASSUME TypeOK, LimitsInv, NEW w \in Writers, WriteLimit(w)
    PROVE  LimitsOrdered'
  <1> DEFINE r == writer[w].request
  <1>1. At(w, "write") /\ Kind(w) = "limit"
    BY DEF WriteLimit
  <1>2. r.key \in Limits /\ r.value \in Values
    BY <1>1, BusyWriter, RequestType DEF TypeOK, At, Kind
  <1>3. ~Conflict(r, limits[Other(r.key)])
    BY <1>1 DEF LimitsInv
  <1>4. CASE limits' = limits
    BY <1>4 DEF LimitsInv, LimitsOrdered
  <1>5. CASE limits' = StoredLimit(r)
    <2>1. \A k \in Limits : limits[k] \in Nat /\ limits[k] # None
      BY ConstantsAssumption DEF TypeOK, Values
    <2>2. r.value \in Nat
      BY <1>2 DEF Values
    <2>3. CASE r.key = "min"
      <3>1. limits'["min"] = r.value /\ limits'["max"] = limits["max"]
        BY <1>5, <2>3 DEF StoredLimit, TypeOK, Limits
      <3>2. r.value <= limits["max"]
        BY <1>3, <2>1, <2>2, <2>3 DEF Conflict, Other, Limits
      <3>3. QED
        BY <3>1, <3>2 DEF LimitsOrdered
    <2>4. CASE r.key = "max"
      <3>1. limits'["max"] = r.value /\ limits'["min"] = limits["min"]
        BY <1>5, <2>4 DEF StoredLimit, TypeOK, Limits
      <3>2. limits["min"] <= r.value
        BY <1>3, <2>1, <2>2, <2>4 DEF Conflict, Other, Limits
      <3>3. QED
        BY <3>1, <3>2 DEF LimitsOrdered
    <2>5. QED
      BY <1>2, <2>3, <2>4 DEF Limits
  <1>6. QED
    BY <1>4, <1>5 DEF WriteLimit

\* Every step keeps the order of the limits and what makes it inductive.
LEMMA LimitsStep ==
    ASSUME TypeOK, OnLive, LimitsInv, Next, MayMiss \cap Limits = {}
    PROVE  LimitsInv'
  <1> USE DEF InTransaction
  <1>1. ASSUME NEW w \in Writers, Step(w)
        PROVE  LimitsInv'
    <2> DEFINE r == writer[w].request
    <2>1. /\ writer[w].step # "idle"
          /\ Keeps(w)
          /\ \A u \in Writers \ {w} : writer'[u] = writer[u]
      BY <1>1, TaskMoves
    <2>2. LimitsOrdered'
      <3>1. CASE UNCHANGED limits
        BY <3>1 DEF LimitsInv, LimitsOrdered
      <3>2. CASE WriteLimit(w)
        BY <3>2, WriteKeepsOrder
      <3>3. QED
        BY <1>1, <3>1, <3>2, LimitsFrame
    <2>3. ASSUME NEW u \in Writers, u # w, InTransaction(u)
          PROVE  lock'[writer'[u].on] = u /\ ~InTransaction(w)
      <3>1. ~InTransaction(w)
        BY <2>3, OneTransaction
      <3>2. UNCHANGED lock
        BY <1>1, <3>1, LimitsFrame
      <3>3. QED
        BY <2>1, <2>3, <3>1, <3>2 DEF LimitsInv
    <2>4. writer'[w].step \in {"write", "verify"} => /\ lock' = lock
                                                    /\ InTransaction(w)
                                                    /\ writer'[w].on = writer[w].on
                                                    /\ writer'[w].request = r
      BY <1>1, <2>1, StepLeads, NullTypes DEF Keeps, At
    <2>5. writer'[w].step # "check" /\ writer'[w].step # "waiting"
      BY <1>1, StepLeads
    <2>6. \A u \in Writers : InTransaction(u)' => lock'[writer'[u].on] = u
      <3>1. InTransaction(w)' => lock'[writer'[w].on] = w
        BY <2>4, <2>5 DEF LimitsInv
      <3>2. QED
        BY <2>1, <2>3, <3>1
    <2>7. \A u \in Writers : At(u, "check")' => Kind(u)' = "limit"
      BY <2>1, <2>5 DEF LimitsInv, At, Kind
    <2>8. ASSUME NEW u \in Writers, At(u, "write")', Kind(u)' = "limit"
          PROVE  ~Conflict(writer[u].request, limits[Other(writer[u].request.key)])'
      <3>1. CASE u # w
        <4>1. At(u, "write") /\ Kind(u) = "limit" /\ writer'[u] = writer[u]
          BY <2>1, <2>8, <3>1 DEF At, Kind
        <4>2. ~WriteLimit(w)
          BY <2>3, <3>1, <4>1 DEF At, WriteLimit
        <4>3. limits' = limits
          BY <1>1, <4>2, LimitsFrame
        <4>4. QED
          BY <4>1, <4>3 DEF LimitsInv
      <3>2. CASE u = w
        <4>1. writer'[w].request = r /\ At(w, "check")
          BY <1>1, <2>4, <2>8, <3>2, StepLeads DEF At
        <4>2. Kind(w) = "limit" /\ limits' = limits
          BY <1>1, <4>1, LimitsFrame DEF LimitsInv, WriteLimit, At
        <4>3. r.key \in Limits
          BY <4>1, <4>2, BusyWriter, RequestType DEF TypeOK, At, Kind
        <4>4. ~Conflict(r, limits[Other(r.key)])
          BY <1>1, <2>8, <3>2, <4>3, StepLeads DEF At
        <4>5. QED
          BY <3>2, <4>1, <4>2, <4>4
      <3>3. QED
        BY <3>1, <3>2
    <2>9. ASSUME NEW g \in Lives, refresh'[g].step = "reading"
          PROVE  lock'[g] = Refresher
      <3>1. refresh[g].step = "reading"
        <4>1. CASE AskRefresh(w)
          <5>1. refresh'[g] = refresh[g] \/ refresh'[g].step = "waiting"
            <6>1. CASE g = writer[w].on
              <7>1. refresh'[g] = refresh[g] \/
                    refresh'[g] = [step |-> "waiting", full |-> TRUE, previous |-> data[g]]
                BY <4>1, <6>1, RequestFrame
              <7>2. QED
                BY <7>1
            <6>2. CASE g # writer[w].on
              BY <4>1, <6>2, RequestFrame
            <6>3. QED
              BY <6>1, <6>2
          <5>2. QED
            BY <2>9, <5>1
        <4>2. QED
          BY <1>1, <2>9, <4>1, TaskFrame
      <3>2. lock[g] = Refresher /\ Refresher \notin Writers
        BY <3>1, ConstantsAssumption DEF LimitsInv
      <3>3. CASE Unlock(writer[w].on) /\ InTransaction(w)
        <4>1. writer[w].on # g
          BY <3>2, <3>3 DEF LimitsInv
        <4>2. QED
          BY <3>2, <3>3, <4>1 DEF Unlock, TypeOK
      <3>4. QED
        BY <1>1, <3>2, <3>3, LimitsFrame
    <2>10. QED
      BY <2>2, <2>6, <2>7, <2>8, <2>9 DEF LimitsInv
  <1>2. ASSUME NEW w \in Writers, Acquire(w)
        PROVE  LimitsInv'
    <2>1. /\ At(w, "waiting")
          /\ lock[writer[w].on] = None
          /\ lock' = [lock EXCEPT ![writer[w].on] = w]
          /\ GoTo(w, IF Kind(w) = "limit" THEN "check" ELSE "write")
          /\ limits' = limits
      BY <1>2 DEF Acquire, chargerVars
    <2>2. /\ writer'[w].step = IF Kind(w) = "limit" THEN "check" ELSE "write"
          /\ writer'[w].on = writer[w].on
          /\ writer'[w].request = writer[w].request
          /\ \A u \in Writers \ {w} : writer'[u] = writer[u]
      BY <2>1, BusyWriter DEF GoTo, TypeOK, At
    <2>3. ASSUME NEW u \in Writers, u # w
          PROVE  ~InTransaction(u)
      <3>1. InTransaction(u) => writer[u].on = writer[w].on
        BY <2>1 DEF OnLive, At
      <3>2. None \notin Writers
        BY ConstantsAssumption
      <3>3. QED
        BY <2>1, <3>1, <3>2 DEF LimitsInv
    <2>4. lock'[writer[w].on] = w
      BY <2>1, OnType DEF TypeOK
    <2>5. \A u \in Writers : InTransaction(u)' => lock'[writer'[u].on] = u
      BY <2>2, <2>3, <2>4
    <2>6. \A u \in Writers : At(u, "check")' => Kind(u)' = "limit"
      BY <2>2 DEF LimitsInv, At, Kind
    <2>7. \A u \in Writers : At(u, "write")' => Kind(u)' # "limit"
      BY <2>2, <2>3 DEF At, Kind
    <2>8. LimitsOrdered'
      BY <2>1 DEF LimitsInv, LimitsOrdered
    <2>9. \A g \in Lives : refresh'[g].step = "reading" => lock'[g] = Refresher
      <3>1. refresh' = refresh /\ None # Refresher
        BY <1>2, ConstantsAssumption DEF Acquire
      <3>2. QED
        BY <2>1, <3>1 DEF LimitsInv, TypeOK
    <2>10. QED
      BY <2>5, <2>6, <2>7, <2>8, <2>9 DEF LimitsInv
  <1>3. ASSUME NEW w \in Writers, Begin(w)
        PROVE  LimitsInv'
    <2>1. PICK r \in Request : writer' = [writer EXCEPT ![w] =
            [step |-> IF r.kind = "refresh" THEN "refresh" ELSE "waiting",
             request |-> r, on |-> live]]
      BY <1>3 DEF Begin
    <2>2. /\ writer'[w].step \in {"waiting", "refresh"}
          /\ \A u \in Writers \ {w} : writer'[u] = writer[u]
          /\ UNCHANGED <<lock, limits, refresh>>
      BY <1>3, <2>1 DEF Begin, TypeOK, chargerVars
    <2>3. LimitsOrdered'
      BY <2>2 DEF LimitsInv, LimitsOrdered
    <2>4. \A u \in Writers : writer'[u].step \in {"check", "write", "verify"} =>
                               writer'[u] = writer[u]
      BY <2>2
    <2>5. QED
      BY <2>2, <2>3, <2>4 DEF LimitsInv, At, Kind
  <1>4. CASE \/ StartRefresh
             \/ \E g \in Lives :
                  \/ AcquireRefresh(g) \/ RefreshSucceeds(g) \/ RefreshFails(g)
                  \/ RefreshCancelled(g)
    <2>1. limits' = limits
      BY <1>4 DEF StartRefresh, AcquireRefresh, RefreshSucceeds, RefreshFails,
                  RefreshCancelled, chargerVars
    <2>2. \A u \in Writers : writer'[u].step # "idle" => writer'[u] = writer[u]
      BY <1>4, RefreshFrame, NullTypes DEF StartRefresh
    <2>3. ASSUME NEW g \in Lives, AcquireRefresh(g) \/ EndRefresh(g)
          PROVE  /\ \A u \in Writers : InTransaction(u) => writer[u].on # g
                 /\ \A h \in Lives \ {g} : lock'[h] = lock[h] /\ refresh'[h] = refresh[h]
                 /\ refresh'[g].step = "reading" => lock'[g] = Refresher
      <3>1. lock[g] \in {None, Refresher}
        BY <2>3 DEF LimitsInv, AcquireRefresh, EndRefresh
      <3>2. \A u \in Writers : InTransaction(u) => writer[u].on # g
        BY <3>1, ConstantsAssumption DEF LimitsInv
      <3>3. CASE AcquireRefresh(g)
        BY <3>2, <3>3 DEF AcquireRefresh, TypeOK
      <3>4. CASE EndRefresh(g)
        BY <3>2, <3>4, NullTypes DEF EndRefresh, RefreshOver, Unlock, NoRefresh, TypeOK
      <3>5. QED
        BY <2>3, <3>3, <3>4
    <2>4. CASE lock' = lock /\ StartRefresh
      <3>1. \A g \in Lives : refresh'[g].step = "reading" => refresh[g].step = "reading"
        BY <2>4 DEF StartRefresh, TakeRefresh, TypeOK
      <3>2. QED
        BY <2>1, <2>2, <2>4, <3>1 DEF LimitsInv, LimitsOrdered, At, Kind
    <2>5. ASSUME NEW g \in Lives, AcquireRefresh(g) \/ EndRefresh(g)
          PROVE  LimitsInv'
      <3>1. \A u \in Writers : InTransaction(u)' => lock'[writer'[u].on] = u
        <4>1. \A u \in Writers : InTransaction(u)' => InTransaction(u) /\ writer'[u] = writer[u]
          BY <2>2
        <4>2. \A u \in Writers : InTransaction(u) => lock'[writer[u].on] = u
          BY <2>3, <2>5, OnType DEF LimitsInv
        <4>3. QED
          BY <4>1, <4>2
      <3>2. \A h \in Lives : refresh'[h].step = "reading" => lock'[h] = Refresher
        BY <2>3, <2>5 DEF LimitsInv
      <3>3. LimitsOrdered'
        BY <2>1 DEF LimitsInv, LimitsOrdered
      <3>4. QED
        BY <2>1, <2>2, <3>1, <3>2, <3>3 DEF LimitsInv, At, Kind
    <2>6. ASSUME NEW g \in Lives, RefreshOver(g), UNCHANGED lock
          PROVE  LimitsInv'
      <3>1. \A h \in Lives : refresh'[h].step = "reading" => refresh[h].step = "reading"
        BY <2>6, NullTypes DEF RefreshOver, NoRefresh, TypeOK
      <3>2. QED
        BY <2>1, <2>2, <2>6, <3>1 DEF LimitsInv, LimitsOrdered, At, Kind
    <2>7. QED
      BY <1>4, <2>4, <2>5, <2>6
         DEF StartRefresh, RefreshSucceeds, RefreshFails, RefreshCancelled
  <1>5. CASE Reload \/ ChargerRestarts
    BY <1>5 DEF Reload, ChargerRestarts, chargerVars, LimitsInv, LimitsOrdered, At, Kind
  <1>6. ASSUME NEW w \in Writers, Cancel(w)
        PROVE  LimitsInv'
    <2>1. UNCHANGED <<limits, lock, refresh>>
      BY <1>6 DEF Cancel, chargerVars
    <2>2. \A u \in Writers : writer'[u].step # "idle" => writer'[u] = writer[u]
      BY <1>6, NullTypes DEF Cancel, TypeOK
    <2>3. QED
      BY <2>1, <2>2 DEF LimitsInv, LimitsOrdered, At, Kind
  <1>7. QED
    BY <1>1, <1>2, <1>3, <1>4, <1>5, <1>6 DEF Next

\* When a reload waits for the tasks and the reads of the limits succeed, no
\* number of tasks that write one limit each, with writes that fail or are lost,
\* leaves the charger with a minimum above its maximum.
THEOREM LimitsStayOrdered ==
    ASSUME ~ReloadBusy, MayMiss \cap Limits = {}
    PROVE  Spec => []LimitsOrdered
  <1> DEFINE I == TypeOK /\ OnLive /\ LimitsInv
  <1>1. Init => I
    <2>1. Init => LimitsInv
      BY NullTypes DEF Init, LimitsInv, LimitsOrdered, InTransaction, At, NoRefresh
    <2>2. QED
      BY <2>1, InitType, OnLiveInit
  <1>2. I /\ [Next]_vars => I'
    <2>1. CASE Next
      BY <2>1, NextType, OnLiveStep, LimitsStep
    <2>2. CASE UNCHANGED vars
      BY <2>2, NextType DEF vars, OnLive, LimitsInv, LimitsOrdered, InTransaction, At, Kind
    <2>3. QED
      BY <2>1, <2>2
  <1>3. I => LimitsOrdered
    BY DEF LimitsInv
  <1>4. QED
    BY <1>1, <1>2, <1>3, PTL DEF Spec

-----------------------------------------------------------------------------
(***************************************************************************)
(* Who has the lock is at work, whatever reloads come                      *)
(***************************************************************************)

Holds(w, g) == InTransaction(w) /\ writer[w].on = g

\* On each coordinator's client the lock is with the task that is between its first
\* session and its last, or with the refresh that reads, and with nobody otherwise;
\* and a task that waits for a refresh has one to wait for.
LockInv ==
    /\ \A w \in Writers : InTransaction(w) => lock[writer[w].on] = w
    /\ \A g \in Lives :
          /\ refresh[g].step = "reading" <=> lock[g] = Refresher
          /\ lock[g] \in Writers => Holds(lock[g], g)
    /\ \A w \in Writers : At(w, "refreshing") => refresh[writer[w].on].step # "idle"

\* Initially every lock is free.
LEMMA LockInit == Init => LockInv
  BY NullTypes, ConstantsAssumption DEF Init, LockInv, InTransaction, NoRefresh, At

\* A step leaves a task in its transaction with the lock, or releases the lock with the
\* end of the transaction; only asking for a refresh, outside of it, makes a task wait
\* for the refresh it started.
LEMMA StepReleases ==
    ASSUME TypeOK, NEW w \in Writers, Step(w)
    PROVE  /\ writer'[w].step # "idle" => writer'[w].on = writer[w].on
           /\ IF InTransaction(w)
              THEN \/ InTransaction(w)' /\ UNCHANGED lock
                   \/ writer'[w].step \in {"idle", "refresh"} /\ Unlock(writer[w].on)
              ELSE /\ UNCHANGED lock
                   /\ writer'[w].step \in {"idle", "refreshing"}
                   /\ writer'[w].step = "refreshing" => TakeRefresh(writer[w].on, TRUE)
  <1>1. writer'[w].step # "idle" => writer'[w].on = writer[w].on
    BY TaskMoves, NullTypes DEF Keeps
  <1>2. ASSUME NEW step \in WriterStep, GoTo(w, step) PROVE writer'[w].step = step
    BY <1>2, TaskMoves, BusyWriter DEF GoTo, TypeOK
  <1>3. writer' = [writer EXCEPT ![w] = Idle] => writer'[w].step = "idle"
    BY NullTypes DEF TypeOK
  <1>4. CASE AskRefresh(w)
    <2>1. GoTo(w, "refreshing") => writer'[w].step = "refreshing"
      BY <1>2 DEF WriterStep
    <2>2. QED
      BY <1>1, <1>3, <1>4, <2>1 DEF AskRefresh, At, InTransaction
  <1>5. CASE ~AskRefresh(w)
    <2> DEFINE Goes == writer'[w].step \in {"write", "verify"} /\ UNCHANGED lock
               Ends == writer'[w].step \in {"idle", "refresh"} /\ Unlock(writer[w].on)
    <2>1. InTransaction(w)
      BY <1>5 DEF Step, Check, WriteLimit, WriteBundle, WriteWifi, WriteLed, Verify,
                  Restart, Command, At, InTransaction
    <2>2. (GoTo(w, "write") \/ GoTo(w, "verify")) /\ UNCHANGED lock => Goes
      BY <1>2 DEF WriterStep
    <2>3. End(w) => Ends
      BY <1>3 DEF End
    <2>4. GoTo(w, "refresh") /\ Unlock(writer[w].on) => Ends
      BY <1>2 DEF WriterStep
    <2> HIDE DEF Goes, Ends
    <2>5. Goes \/ Ends
      <3>1. CASE Check(w)
        BY <2>2, <2>3, <3>1 DEF Check
      <3>2. CASE WriteLimit(w)
        BY <2>2, <2>3, <3>2 DEF WriteLimit, Answered
      <3>3. CASE WriteBundle(w)
        BY <2>2, <2>3, <3>3 DEF WriteBundle, Answered
      <3>4. CASE WriteWifi(w)
        BY <2>3, <3>4 DEF WriteWifi
      <3>5. CASE WriteLed(w)
        BY <2>2, <2>3, <3>5 DEF WriteLed
      <3>6. CASE Verify(w)
        BY <2>3, <2>4, <3>6 DEF Verify, ReadBackFails, Publish
      <3>7. CASE Restart(w)
        BY <2>3, <3>7 DEF Restart
      <3>8. CASE Command(w)
        BY <2>3, <2>4, <3>8 DEF Command
      <3>9. QED
        BY <1>5, <3>1, <3>2, <3>3, <3>4, <3>5, <3>6, <3>7, <3>8 DEF Step
    <2>6. QED
      BY <1>1, <2>1, <2>5 DEF Goes, Ends, InTransaction
  <1>6. QED
    BY <1>4, <1>5

\* A step of a task concerns the lock of its own coordinator alone.
LEMMA LockTaskStep ==
    ASSUME TypeOK, LockInv, NEW w \in Writers, Step(w)
    PROVE  LockInv'
  <1> DEFINE g == writer[w].on
  <1>1. /\ g \in Lives /\ writer[w].step # "idle" /\ Refresher \notin Writers
        /\ None \notin Writers /\ None # Refresher
        /\ \A u \in Writers \ {w} : writer'[u] = writer[u]
    BY TaskMoves, OnType, ConstantsAssumption
  <1>2. \/ UNCHANGED lock /\ (InTransaction(w)' <=> InTransaction(w))
        \/ /\ InTransaction(w) /\ ~InTransaction(w)'
           /\ lock'[g] = None /\ \A h \in Lives \ {g} : lock'[h] = lock[h]
    BY <1>1, StepReleases DEF Unlock, TypeOK, InTransaction
  <1>3. InTransaction(w)' => writer'[w].on = g
    BY StepReleases DEF InTransaction
  <1>4. ASSUME NEW h \in Lives
        PROVE  /\ refresh'[h].step = "reading" <=> refresh[h].step = "reading"
               /\ refresh[h].step # "idle" => refresh'[h].step # "idle"
    <2>1. CASE AskRefresh(w)
      <3>1. \/ refresh'[h] = refresh[h]
            \/ /\ h = live /\ TakeRefresh(live, TRUE) /\ refresh[live].step = "idle"
        BY <2>1 DEF AskRefresh, TakeRefresh, TypeOK
      <3>2. CASE h = live /\ TakeRefresh(live, TRUE) /\ refresh[live].step = "idle"
        BY <3>2 DEF TakeRefresh, TypeOK
      <3>3. QED
        BY <3>1, <3>2
    <2>2. QED
      BY <2>1, TaskFrame
  <1>5. \A u \in Writers : InTransaction(u)' => lock'[writer'[u].on] = u
    <2>1. ASSUME NEW u \in Writers, InTransaction(u)' PROVE lock'[writer'[u].on] = u
      <3>1. CASE u = w
        BY <1>2, <1>3, <2>1, <3>1 DEF LockInv
      <3>2. CASE u # w
        <4>1. writer'[u] = writer[u] /\ InTransaction(u) /\ writer[u].on \in Lives
          BY <1>1, <2>1, <3>2, OnType DEF InTransaction
        <4>2. lock[writer[u].on] = u
          BY <4>1 DEF LockInv
        <4>3. InTransaction(w) => writer[u].on # g
          BY <3>2, <4>2 DEF LockInv
        <4>4. QED
          BY <1>2, <4>1, <4>2, <4>3
      <3>3. QED
        BY <3>1, <3>2
    <2>2. QED
      BY <2>1
  <1>6. ASSUME NEW h \in Lives
        PROVE  /\ refresh'[h].step = "reading" <=> lock'[h] = Refresher
               /\ lock'[h] \in Writers => Holds(lock[h], h)'
    <2>1. /\ refresh[h].step = "reading" <=> lock[h] = Refresher
          /\ lock[h] \in Writers => Holds(lock[h], h)
      BY DEF LockInv
    <2>2. CASE UNCHANGED lock /\ (InTransaction(w)' <=> InTransaction(w))
      <3>1. ASSUME lock[h] \in Writers PROVE Holds(lock[h], h)'
        <4>1. CASE lock[h] = w
          BY <1>3, <2>1, <2>2, <4>1 DEF Holds
        <4>2. CASE lock[h] # w
          BY <1>1, <2>1, <2>2, <3>1, <4>2 DEF Holds, InTransaction
        <4>3. QED
          BY <4>1, <4>2
      <3>2. QED
        BY <1>4, <2>1, <2>2, <3>1
    <2>3. CASE InTransaction(w) /\ lock'[g] = None /\ \A k \in Lives \ {g} : lock'[k] = lock[k]
      <3>1. CASE h = g
        <4>1. lock[g] = w
          BY <2>3 DEF LockInv
        <4>2. QED
          BY <1>1, <1>4, <2>1, <2>3, <3>1, <4>1
      <3>2. CASE h # g
        <4>1. lock'[h] = lock[h]
          BY <2>3, <3>2
        <4>2. ASSUME lock[h] \in Writers PROVE Holds(lock[h], h)'
          <5>1. lock[h] # w
            BY <2>1, <3>2, <4>2 DEF Holds
          <5>2. QED
            BY <1>1, <2>1, <4>1, <4>2, <5>1 DEF Holds, InTransaction
        <4>3. QED
          BY <1>4, <2>1, <4>1, <4>2
      <3>3. QED
        BY <3>1, <3>2
    <2>4. QED
      BY <1>2, <2>2, <2>3
  <1>7. ASSUME NEW u \in Writers, At(u, "refreshing")'
        PROVE  refresh'[writer'[u].on].step # "idle"
    <2>1. CASE u # w
      <3>1. writer'[u] = writer[u] /\ At(u, "refreshing") /\ writer[u].on \in Lives
        BY <1>1, <1>7, <2>1, OnType DEF At
      <3>2. QED
        BY <1>4, <3>1 DEF LockInv
    <2>2. CASE u = w
      <3>1. /\ TakeRefresh(g, TRUE) /\ writer'[w].on = g
        BY <1>7, <2>2, StepReleases DEF At, InTransaction
      <3>2. QED
        BY <1>1, <2>2, <3>1 DEF TakeRefresh, TypeOK
    <2>3. QED
      BY <2>1, <2>2
  <1>8. QED
    BY <1>5, <1>6, <1>7 DEF LockInv

\* So do the other steps: a lock is taken only when it is free, and given back by the
\* refresh that took it, with the tasks that wait for it going on.
LEMMA LockStep ==
    ASSUME TypeOK, LockInv, [Next]_vars
    PROVE  LockInv'
  <1> Refresher \notin Writers /\ None \notin Writers /\ None # Refresher
    BY ConstantsAssumption
  <1>1. CASE UNCHANGED vars
    BY <1>1 DEF vars, LockInv, Holds, InTransaction, At
  <1>2. ASSUME NEW w \in Writers, Begin(w) PROVE LockInv'
    <2>1. PICK r \in Request : writer' = [writer EXCEPT ![w] =
            [step |-> IF r.kind = "refresh" THEN "refresh" ELSE "waiting",
             request |-> r, on |-> live]]
      BY <1>2 DEF Begin
    <2>2. /\ writer'[w].step \in {"waiting", "refresh"}
          /\ \A u \in Writers \ {w} : writer'[u] = writer[u]
          /\ UNCHANGED <<lock, refresh>> /\ writer[w].step = "idle"
      BY <1>2, <2>1 DEF Begin, At, TypeOK
    <2>3. QED
      BY <2>2 DEF LockInv, Holds, InTransaction, At
  <1>3. ASSUME NEW w \in Writers, Acquire(w) PROVE LockInv'
    <2> DEFINE g == writer[w].on
    <2>1. /\ g \in Lives /\ lock[g] = None /\ writer[w].step = "waiting"
          /\ lock'[g] = w /\ \A h \in Lives \ {g} : lock'[h] = lock[h]
          /\ UNCHANGED refresh
      BY <1>3, OnType DEF Acquire, At, TypeOK
    <2>2. /\ writer'[w].step \in {"check", "write"} /\ writer'[w].on = g
          /\ \A u \in Writers \ {w} : writer'[u] = writer[u]
      BY <1>3, BusyWriter DEF Acquire, GoTo, At, TypeOK
    <2>3. \A u \in Writers : InTransaction(u) => writer[u].on # g /\ writer[u].on \in Lives
      BY <2>1, OnType DEF LockInv
    <2>4. \A u \in Writers : InTransaction(u)' => lock'[writer'[u].on] = u
      BY <2>1, <2>2, <2>3 DEF LockInv, InTransaction
    <2>5. \A h \in Lives : /\ refresh'[h].step = "reading" <=> lock'[h] = Refresher
                           /\ lock'[h] \in Writers => Holds(lock[h], h)'
      BY <2>1, <2>2 DEF LockInv, Holds, InTransaction
    <2>6. \A u \in Writers : At(u, "refreshing")' => refresh'[writer'[u].on].step # "idle"
      BY <2>1, <2>2 DEF LockInv, At
    <2>7. QED
      BY <2>4, <2>5, <2>6 DEF LockInv
  <1>4. CASE StartRefresh
    <2>1. /\ UNCHANGED <<lock, writer>> /\ refresh[live].step = "idle" /\ live \in Lives
          /\ refresh'[live].step = "waiting"
          /\ \A h \in Lives \ {live} : refresh'[h] = refresh[h]
      BY <1>4 DEF StartRefresh, TakeRefresh, TypeOK
    <2>2. \A u \in Writers : writer[u].on \in Lives
      BY OnType
    <2>3. \A h \in Lives : /\ refresh'[h].step = "reading" <=> refresh[h].step = "reading"
                           /\ refresh[h].step # "idle" => refresh'[h].step # "idle"
      BY <2>1
    <2>4. QED
      BY <2>1, <2>2, <2>3 DEF LockInv, Holds, InTransaction, At
  <1>5. ASSUME NEW g \in Lives, AcquireRefresh(g) PROVE LockInv'
    <2>1. /\ lock[g] = None /\ refresh[g].step = "waiting" /\ UNCHANGED writer
          /\ lock'[g] = Refresher /\ \A h \in Lives \ {g} : lock'[h] = lock[h]
          /\ refresh'[g].step = "reading" /\ \A h \in Lives \ {g} : refresh'[h] = refresh[h]
      BY <1>5 DEF AcquireRefresh, TypeOK
    <2>2. \A u \in Writers : /\ writer[u].on \in Lives
                             /\ InTransaction(u) => writer[u].on # g
      BY <2>1, OnType DEF LockInv
    <2>3. QED
      BY <2>1, <2>2 DEF LockInv, Holds, InTransaction, At
  <1>6. ASSUME NEW g \in Lives, EndRefresh(g) PROVE LockInv'
    <2>1. /\ lock[g] = Refresher /\ refresh[g].step = "reading"
          /\ lock'[g] = None /\ \A h \in Lives \ {g} : lock'[h] = lock[h]
          /\ refresh'[g].step = "idle" /\ \A h \in Lives \ {g} : refresh'[h] = refresh[h]
      BY <1>6, NullTypes
         DEF EndRefresh, RefreshOver, Unlock, NoRefresh, TypeOK, LockInv
    <2>2. \A u \in Writers : /\ writer[u].on \in Lives
                             /\ InTransaction(u) => writer[u].on # g
      BY <2>1, OnType DEF LockInv
    <2>3. \A u \in Writers : writer'[u] = IF At(u, "refreshing") /\ writer[u].on = g
                                          THEN Idle ELSE writer[u]
      BY <1>6 DEF EndRefresh, RefreshOver, Awaits
    <2>4. \A u \in Writers : /\ InTransaction(u)' <=> InTransaction(u)
                             /\ InTransaction(u) => writer'[u] = writer[u]
                             /\ At(u, "refreshing")' => /\ At(u, "refreshing")
                                                        /\ writer'[u] = writer[u]
                                                        /\ writer[u].on # g
      BY <2>3, NullTypes DEF InTransaction, At
    <2>5. \A u \in Writers : InTransaction(u)' => lock'[writer'[u].on] = u
      BY <2>1, <2>2, <2>4 DEF LockInv
    <2>6. \A h \in Lives : /\ refresh'[h].step = "reading" <=> lock'[h] = Refresher
                           /\ lock'[h] \in Writers => Holds(lock[h], h)'
      BY <2>1, <2>4 DEF LockInv, Holds
    <2>7. \A u \in Writers : At(u, "refreshing")' => refresh'[writer'[u].on].step # "idle"
      BY <2>1, <2>2, <2>4 DEF LockInv
    <2>8. QED
      BY <2>5, <2>6, <2>7 DEF LockInv
  <1>7. CASE Reload \/ ChargerRestarts
    BY <1>7 DEF Reload, ChargerRestarts, LockInv, Holds, InTransaction, At
  <1>8. ASSUME NEW w \in Writers, Cancel(w) PROVE LockInv'
    <2>1. UNCHANGED <<lock, refresh>>
      BY <1>8 DEF Cancel
    <2>2. /\ \A u \in Writers : writer'[u].step # "idle" => writer'[u] = writer[u]
          /\ \A u \in Writers : InTransaction(u) => writer'[u] = writer[u]
      BY <1>8, NullTypes DEF Cancel, TypeOK, At, InTransaction
    <2>3. QED
      BY <2>1, <2>2 DEF LockInv, Holds, InTransaction, At
  <1>9. ASSUME NEW g \in Lives, refresh[g].step = "waiting", RefreshOver(g), UNCHANGED lock
        PROVE  LockInv'
    <2>1. /\ refresh'[g].step = "idle"
          /\ \A h \in Lives \ {g} : refresh'[h] = refresh[h]
      BY <1>9, NullTypes DEF RefreshOver, NoRefresh, TypeOK
    <2>2. \A u \in Writers : /\ writer[u].on \in Lives
                             /\ InTransaction(u)' <=> InTransaction(u)
                             /\ InTransaction(u) => writer'[u] = writer[u]
                             /\ At(u, "refreshing")' => /\ At(u, "refreshing")
                                                        /\ writer'[u] = writer[u]
                                                        /\ writer[u].on # g
      BY <1>9, OnType, NullTypes DEF RefreshOver, Awaits, InTransaction, At
    <2>3. \A h \in Lives : refresh'[h].step = "reading" <=> refresh[h].step = "reading"
      BY <1>9, <2>1
    <2>4. QED
      BY <1>9, <2>1, <2>2, <2>3 DEF LockInv, Holds
  <1>10. QED
    BY <1>1, <1>2, <1>3, <1>4, <1>5, <1>6, <1>7, <1>8, <1>9, LockTaskStep
       DEF Next, RefreshSucceeds, RefreshFails, RefreshCancelled

\* However many tasks, reloads and failures there are: a client's lock is never left
\* with a task that is over or waits for something, and each session of an operation
\* is the only one of its client.
THEOREM LockIsWithItsWorker == Spec => [](TypeOK /\ LockInv)
  <1>1. TypeOK /\ LockInv /\ [Next]_vars => TypeOK' /\ LockInv'
    BY NextType, LockStep
  <1>2. QED
    BY <1>1, InitType, LockInit, PTL DEF Spec

\* Who can act on coordinator g without waiting: the owner of its lock, or whoever
\* takes the lock next.
CanGoOn(g) ==
    \/ lock[g] = None
    \/ refresh[g].step = "reading"
    \/ \E u \in Writers : lock[g] = u /\ Holds(u, g)

\* A task that waits, waits for somebody else.
Unblocked(w) ==
    \/ At(w, "idle") \/ At(w, "refresh") \/ InTransaction(w)
    \/ At(w, "waiting") /\ CanGoOn(writer[w].on) /\ lock[writer[w].on] # w
    \/ /\ At(w, "refreshing") /\ CanGoOn(writer[w].on) /\ lock[writer[w].on] # w
       /\ refresh[writer[w].on].step \in {"waiting", "reading"}

\* The safety half of EveryTaskEnds, for any tasks, operations and reloads: a task is
\* between two of its own steps, or waits for a lock or a refresh of its coordinator
\* that is not itself waiting for the task. No two of them wait for each other.
THEOREM NobodyWaitsForHimself == Spec => [](\A w \in Writers : Unblocked(w))
  <1>1. ASSUME TypeOK, LockInv, NEW w \in Writers
        PROVE  Unblocked(w)
    <2> DEFINE g == writer[w].on
    <2>1. g \in Lives /\ refresh[g].step \in {"idle", "waiting", "reading"}
      BY <1>1, OnType DEF TypeOK, Refresh
    <2>2. CanGoOn(g)
      BY <1>1, <2>1 DEF CanGoOn, LockInv, TypeOK
    <2>3. lock[g] = w => InTransaction(w)
      BY <1>1, <2>1 DEF LockInv, Holds
    <2>4. writer[w].step \in WriterStep \cup {"idle"}
      BY <1>1 DEF TypeOK, Writer, Idle
    <2>5. QED
      BY <1>1, <2>1, <2>2, <2>3, <2>4 DEF LockInv, WriterStep, InTransaction, At, Unblocked
  <1>2. TypeOK /\ LockInv => \A w \in Writers : Unblocked(w)
    BY <1>1
  <1>3. QED
    BY <1>2, LockIsWithItsWorker, PTL

\* The transaction of one coordinator's client, as SerialOperations has it; that only
\* its owner has a BLE session is in the sessions being single steps.
Serial(g) == INSTANCE SerialOperations WITH
    Tasks <- Writers \cup {Refresher}, NoTask <- None, holder <- lock[g], using <- {}

\* A lock is taken when it is free and then released before it is taken again.
LEMMA LockMoves ==
    ASSUME TypeOK, LockInv, [Next]_vars, NEW g \in Lives
    PROVE  lock'[g] = lock[g] \/ lock[g] = None \/ lock'[g] = None
  <1>1. ASSUME NEW w \in Writers, Step(w)
        PROVE  lock' = lock \/ lock' = [lock EXCEPT ![writer[w].on] = None]
    BY <1>1, LimitsFrame DEF Unlock
  <1>2. ASSUME NEW w \in Writers, Acquire(w)
        PROVE  lock[g] = None \/ lock'[g] = lock[g]
    BY <1>2, OnType DEF Acquire, TypeOK
  <1>3. ASSUME NEW h \in Lives, AcquireRefresh(h)
        PROVE  lock[g] = None \/ lock'[g] = lock[g]
    BY <1>3 DEF AcquireRefresh, TypeOK
  <1>4. ASSUME NEW h \in Lives,
               RefreshSucceeds(h) \/ RefreshFails(h) \/ RefreshCancelled(h)
        PROVE  lock' = lock \/ lock' = [lock EXCEPT ![h] = None]
    BY <1>4 DEF RefreshSucceeds, RefreshFails, RefreshCancelled, EndRefresh, Unlock
  <1>5. \/ StartRefresh \/ Reload \/ ChargerRestarts
        \/ \E w \in Writers : Begin(w) \/ Cancel(w)
        => lock' = lock
    BY DEF StartRefresh, Reload, ChargerRestarts, Begin, Cancel
  <1>6. QED
    BY <1>1, <1>2, <1>3, <1>4, <1>5, OnType DEF Next, vars, TypeOK

\* The lock that Coordinator takes for granted is the transaction of client.py as
\* BleTransaction is shown to provide it: both implement SerialOperations.
THEOREM LockIsSerial ==
    ASSUME NEW g \in Lives
    PROVE  Spec => Serial(g)!Spec
  <1>1. Init => Serial(g)!Init
    BY DEF Init, Serial!Init
  <1>2. TypeOK /\ LockInv /\ [Next]_vars => [Serial(g)!Next]_(Serial(g)!operation)
    <2> SUFFICES ASSUME TypeOK, LockInv, [Next]_vars
                 PROVE  Serial(g)!Next \/ UNCHANGED lock[g]
      BY DEF Serial!operation
    <2>1. /\ lock[g] \in Writers \cup {Refresher, None}
          /\ lock'[g] \in Writers \cup {Refresher, None}
      BY NextType DEF TypeOK
    <2>2. CASE lock[g] = None /\ lock'[g] # None
      <3>1. Serial(g)!Begin(lock'[g])
        BY <2>2 DEF Serial!Begin
      <3>2. QED
        BY <2>1, <2>2, <3>1 DEF Serial!Next
    <2>3. CASE lock[g] # None /\ lock'[g] = None
      <3>1. Serial(g)!End(lock[g])
        BY <2>3 DEF Serial!End
      <3>2. QED
        BY <2>1, <2>3, <3>1 DEF Serial!Next
    <2>4. QED
      BY <2>2, <2>3, LockMoves
  <1>3. QED
    BY <1>1, <1>2, LockIsWithItsWorker, PTL DEF Spec, Serial!Spec

-----------------------------------------------------------------------------
(***************************************************************************)
(* The restart notice, whatever reloads come                               *)
(***************************************************************************)

\* What the live coordinator knows of the restart is what is persisted, and what
\* it takes for evidence was seen.
NoticeInv ==
    /\ entry.required = marker[live].required
    /\ entry.firmware = marker[live].firmware
    /\ ready[live] => data[live].restart = entry.required
    /\ marker[live].pending => evidence # "none"
    /\ marker[live].pending /\ marker[live].disconnected => evidence = "outage"
    /\ marker[live].firmware # None => told = marker[live].firmware

\* Initially the marker, the entry and the shown notice agree.
LEMMA NoticeInit == Init => NoticeInv
  <1> SUFFICES ASSUME Init PROVE NoticeInv
    OBVIOUS
  <1>1. live \in Lives
    BY ConstantsAssumption DEF Init, Lives
  <1>2. marker[live] = FromEntry(entry)
    BY <1>1 DEF Init
  <1>3. QED
    BY <1>1, <1>2 DEF Init, FromEntry, NoticeInv

\* It holds until an unloaded coordinator writes the entry.
NoticeHeld == overwritten \/ NoticeInv

\* The steps that leave the notice of the live coordinator alone; evidence may be added.
Quiet == /\ UNCHANGED <<live, entry, told, overwritten>>
         /\ ready'[live] = ready[live]
         /\ marker'[live] = marker[live]
         /\ evidence' \in {evidence, IF evidence = "none" THEN "reset" ELSE "outage"}
         /\ data'[live].restart = data[live].restart

\* A step that leaves the markers, the entry and the shown notice alone keeps their agreement.
LEMMA QuietStep ==
    ASSUME TypeOK, NoticeHeld, Quiet
    PROVE  NoticeHeld'
  BY DEF Quiet, NoticeHeld, NoticeInv, TypeOK

\* A task leaves the notice alone, notes that a restart is required, or notes that
\* a reset was sent.
LEMMA TaskNotice ==
    ASSUME TypeOK, NEW w \in Writers, Begin(w) \/ Acquire(w) \/ Cancel(w) \/ Step(w)
    PROVE  Quiet \/ Restart(w) \/ (NoteResponse(writer[w].on) /\ UNCHANGED <<live, ready>>)
  <1> USE DEF chargerVars, markerVars, lifeVars, unwritten
  <1>1. live' = live /\ ready' = ready
    BY TaskFrame
  <1>2. CASE UNCHANGED <<markerVars, data>>
    BY <1>1, <1>2 DEF Quiet
  <1>3. CASE Answered(w)
    BY <1>1, <1>2, <1>3 DEF Answered
  <1>4. CASE WriteBundle(w)
    BY <1>1, <1>3, <1>4 DEF WriteBundle, Quiet
  <1>5. CASE WriteLimit(w)
    BY <1>2, <1>3, <1>5 DEF WriteLimit
  <1>6. CASE Verify(w)
    <2>1. UNCHANGED markerVars
      BY <1>6 DEF Verify
    <2>2. CASE UNCHANGED data
      BY <1>2, <2>1, <2>2
    <2>3. CASE Publish(w)
      <3> DEFINE g == writer[w].on
                 r == writer[w].request
      <3>1. live \in Lives /\ g \in Lives /\ data[live] \in Data
        BY OnType DEF TypeOK
      <3>2. CASE r.kind = "limit"
        <4>1. data' = [data EXCEPT ![g].limits = [@ EXCEPT ![r.key] = r.value]]
          BY <2>3, <3>2 DEF Publish
        <4>2. data'[live].restart = data[live].restart
          BY <3>1, <4>1 DEF TypeOK, Data
        <4>3. QED
          BY <1>1, <2>1, <4>2 DEF Quiet
      <3>3. CASE r.kind = "led"
        <4>1. data' = [data EXCEPT ![g].led = led]
          BY <2>3, <3>3 DEF Publish
        <4>2. data'[live].restart = data[live].restart
          BY <3>1, <4>1 DEF TypeOK, Data
        <4>3. QED
          BY <1>1, <2>1, <4>2 DEF Quiet
      <3>4. CASE r.kind \notin {"limit", "led"}
        BY <1>2, <2>1, <2>3, <3>4 DEF Publish
      <3>5. QED
        BY <3>2, <3>3, <3>4
    <2>4. QED
      BY <1>6, <2>2, <2>3 DEF Verify, ReadBackFails
  <1>7. CASE \/ Begin(w) \/ Acquire(w) \/ Cancel(w) \/ Check(w) \/ WriteLed(w)
             \/ Command(w) \/ AskRefresh(w)
    BY <1>2, <1>7 DEF Begin, Acquire, Cancel, Check, WriteLed, Command, AskRefresh
  <1>8. CASE WriteWifi(w)
    BY <1>1, <1>8 DEF WriteWifi, WithoutNotice, Quiet
  <1>9. QED
    BY <1>4, <1>5, <1>6, <1>7, <1>8 DEF Step

\* note_response makes marker, entry and shown notice agree.
LEMMA NoteResponseNotice ==
    ASSUME TypeOK, NoteResponse(live), UNCHANGED <<live, ready>>
    PROVE  NoticeInv' /\ entry'.required
  <1>1. live \in Lives /\ data[live] \in Data /\ data[live].boot \in Versions \cup {None}
    BY DEF TypeOK, Data
  <1>2. entry' = [required |-> TRUE, firmware |-> data[live].boot]
    BY DEF NoteResponse
  <1>3. marker'[live] = FromEntry(entry')
    BY <1>1 DEF NoteResponse, TypeOK
  <1>4. /\ marker'[live].required = TRUE
        /\ marker'[live].firmware = data[live].boot
        /\ marker'[live].pending = FALSE
    BY <1>2, <1>3 DEF FromEntry
  <1>5. data'[live].restart = TRUE
    BY <1>1 DEF NoteResponse, TypeOK, Data
  <1>6. entry'.required = TRUE /\ entry'.firmware = data[live].boot
    BY <1>2
  <1>7. told' = data[live].boot /\ UNCHANGED <<live, ready>>
    BY DEF NoteResponse, Noticed
  <1>8. NoticeInv'
    BY <1>4, <1>5, <1>6, <1>7 DEF NoticeInv
  <1>9. QED
    BY <1>6, <1>8

\* A restart request of the live coordinator keeps that agreement.
LEMMA RestartNotice ==
    ASSUME TypeOK, NoticeInv, NEW w \in Writers, Restart(w), writer[w].on = live
    PROVE  NoticeInv'
  <1>1. live \in Lives /\ writer[w].on = live /\ marker[live] \in Marker
    BY DEF TypeOK
  <1>2. UNCHANGED <<live, ready, entry, told, data>>
    BY DEF Restart, lifeVars
  <1>3. CASE UNCHANGED <<marker, evidence>>
    BY <1>2, <1>3 DEF NoticeInv
  <1>4. CASE /\ marker' = [marker EXCEPT ![writer[w].on].pending = TRUE,
                                         ![writer[w].on].disconnected = FALSE]
             /\ evidence' = IF evidence = "none" THEN "reset" ELSE evidence
    <2>1. /\ marker'[live].required = marker[live].required
          /\ marker'[live].firmware = marker[live].firmware
          /\ marker'[live].disconnected = FALSE
      BY <1>1, <1>4 DEF TypeOK, Marker
    <2>2. evidence' # "none"
      BY <1>4
    <2>3. QED
      BY <1>2, <2>1, <2>2 DEF NoticeInv
  <1>5. QED
    BY <1>3, <1>4 DEF Restart

\* A refresh that succeeds clears the notice on evidence only.
LEMMA SuccessNotice ==
    ASSUME TypeOK, NoticeInv, RefreshSucceeds(live)
    PROVE  /\ NoticeInv'
           /\ entry.required /\ ~entry'.required
              => \/ evidence = "outage"
                 \/ told # None /\ data'[live].boot \notin {None, told}
  <1>0. live \in Lives
    BY DEF TypeOK
  <1>1. PICK missed \in SUBSET MayMiss :
          LET read == Snapshot(live, missed)
              m == marker[live]
              confirmed == Confirmed(m, read.boot)
              required == (m.required \/ read.restart) /\ ~confirmed
              firmware == IF confirmed THEN None ELSE m.firmware
          IN  /\ entry' = [required |-> required, firmware |-> firmware]
              /\ marker' = [marker EXCEPT ![live] =
                              IF confirmed THEN FromEntry(entry')
                              ELSE [m EXCEPT !.required = required]]
              /\ data' = [data EXCEPT ![live] = [read EXCEPT !.restart = required]]
    BY DEF RefreshSucceeds
  <1> DEFINE read == Snapshot(live, missed)
             m == marker[live]
             confirmed == Confirmed(m, read.boot)
             required == (m.required \/ read.restart) /\ ~confirmed
  <1>2. /\ read \in Data /\ m \in Marker
        /\ required \in BOOLEAN
    BY <1>0, SnapshotType DEF TypeOK
  <1>3. /\ entry'.required = required
        /\ entry'.firmware = IF confirmed THEN None ELSE m.firmware
        /\ marker'[live] = IF confirmed THEN FromEntry(entry')
                                        ELSE [m EXCEPT !.required = required]
        /\ data'[live] = [read EXCEPT !.restart = required]
    BY <1>0, <1>1 DEF TypeOK
  <1>4. confirmed => required = FALSE
    OBVIOUS
  <1>5. /\ confirmed => evidence = "outage"
                        \/ (m.firmware # None /\ read.boot \notin {None, m.firmware})
        /\ m.firmware # None => told = m.firmware
        /\ ~confirmed => required = (m.required \/ read.restart)
    BY DEF Confirmed, NoticeInv
  <1>6. /\ entry.required = m.required
        /\ UNCHANGED <<live, told, evidence>>
    BY DEF RefreshSucceeds, NoticeInv
  <1> HIDE DEF confirmed, required, read
  <1>7. data'[live].restart = required /\ data'[live].boot = read.boot
    BY <1>2, <1>3 DEF Data
  <1>8. NoticeInv'
    <2>1. CASE confirmed
      <3>1. marker'[live] = FromEntry(entry')
        BY <1>3, <2>1
      <3>2. /\ marker'[live].required = entry'.required
            /\ marker'[live].firmware = entry'.firmware
            /\ marker'[live].pending = FALSE
        BY <3>1 DEF FromEntry
      <3>3. entry'.firmware = None
        BY <1>3, <2>1
      <3>4. QED
        BY <1>3, <1>6, <1>7, <3>2, <3>3 DEF NoticeInv
    <2>2. CASE ~confirmed
      <3>1. /\ marker'[live].required = required
            /\ marker'[live].firmware = m.firmware
            /\ marker'[live].pending = m.pending
            /\ marker'[live].disconnected = m.disconnected
        BY <1>2, <1>3, <2>2 DEF Marker
      <3>2. entry'.firmware = m.firmware
        BY <1>3, <2>2
      <3>3. QED
        BY <1>3, <1>6, <1>7, <3>1, <3>2 DEF NoticeInv
    <2>3. QED
      BY <2>1, <2>2
  <1>9. entry.required /\ ~entry'.required
        => \/ evidence = "outage"
           \/ told # None /\ data'[live].boot \notin {None, told}
    <2>1. CASE confirmed
      BY <1>5, <1>7, <2>1
    <2>2. CASE ~confirmed
      BY <1>3, <1>5, <1>6, <2>2
    <2>3. QED
      BY <2>1, <2>2
  <1>10. QED
    BY <1>8, <1>9

\* A failed refresh keeps the agreement of marker, entry and shown notice.
LEMMA FailureNotice ==
    ASSUME TypeOK, NoticeInv, RefreshFails(live)
    PROVE  NoticeInv'
  <1>0. live \in Lives /\ marker[live] \in Marker
    BY DEF TypeOK
  <1>1. PICK error \in Failures :
          /\ marker' = [marker EXCEPT ![live] =
                IF ready[live]
                THEN [marker[live] EXCEPT !.disconnected =
                        IF Disconnects(marker[live], error) THEN TRUE ELSE @]
                ELSE FromEntry(entry)]
          /\ evidence' = IF evidence = "reset" /\ error = "connection"
                         THEN "outage" ELSE evidence
    BY DEF RefreshFails
  <1>2. UNCHANGED <<live, ready, data, entry, told>>
    BY DEF RefreshFails, lifeVars
  <1>3. CASE ~ready[live]
    <2>1. marker'[live] = FromEntry(entry)
      BY <1>0, <1>1, <1>3 DEF TypeOK
    <2>2. /\ marker'[live].required = entry.required
          /\ marker'[live].firmware = entry.firmware
          /\ marker'[live].pending = FALSE
      BY <2>1 DEF FromEntry
    <2>3. QED
      BY <1>2, <1>3, <2>2 DEF NoticeInv
  <1>4. CASE ready[live]
    <2>1. marker'[live] = [marker[live] EXCEPT !.disconnected =
            IF Disconnects(marker[live], error) THEN TRUE ELSE marker[live].disconnected]
      BY <1>0, <1>1, <1>4 DEF TypeOK
    <2>2. /\ marker'[live].required = marker[live].required
          /\ marker'[live].firmware = marker[live].firmware
          /\ marker'[live].pending = marker[live].pending
      BY <1>0, <2>1 DEF Marker
    <2>3. marker[live].pending /\ marker'[live].disconnected => evidence' = "outage"
      <3>1. CASE Disconnects(marker[live], error)
        <4>1. error = "connection" /\ marker[live].pending
          BY <3>1 DEF Disconnects
        <4>2. evidence \in {"none", "reset", "outage"} /\ evidence # "none"
          BY <4>1 DEF TypeOK, NoticeInv
        <4>3. QED
          BY <1>1, <4>1, <4>2
      <3>2. CASE ~Disconnects(marker[live], error)
        <4>1. marker'[live].disconnected = marker[live].disconnected
          BY <1>0, <2>1, <3>2 DEF Marker
        <4>2. QED
          BY <1>1, <4>1 DEF NoticeInv
      <3>3. QED
        BY <3>1, <3>2
    <2>4. marker[live].pending => evidence' # "none"
      BY <1>1 DEF NoticeInv
    <2>5. QED
      BY <1>2, <2>2, <2>3, <2>4 DEF NoticeInv
  <1>5. QED
    BY <1>3, <1>4

\* What goes on of an unloaded coordinator leaves the live one's notice alone, or
\* writes the entry.
LEMMA OldNotice ==
    ASSUME TypeOK, NEW g \in Lives, g # live, RefreshSucceeds(g) \/ RefreshFails(g)
    PROVE  Quiet \/ overwritten'
  <1>1. live \in Lives
    BY DEF TypeOK
  <1>2. CASE RefreshSucceeds(g)
    <2>1. /\ marker'[live] = marker[live]
          /\ data'[live] = data[live]
          /\ ready'[live] = ready[live]
      BY <1>1, <1>2 DEF RefreshSucceeds, TypeOK
    <2>2. overwritten' \/ (entry' = entry /\ overwritten' = overwritten)
      BY <1>2 DEF RefreshSucceeds, TypeOK
    <2>3. UNCHANGED <<live, told, evidence>>
      BY <1>2 DEF RefreshSucceeds
    <2>4. QED
      BY <2>1, <2>2, <2>3 DEF Quiet
  <1>3. CASE RefreshFails(g)
    <2>1. /\ marker'[live] = marker[live]
          /\ evidence' \in {evidence, IF evidence = "none" THEN "reset" ELSE "outage"}
      BY <1>1, <1>3 DEF RefreshFails, TypeOK
    <2>2. QED
      BY <1>3, <2>1 DEF RefreshFails, Quiet, lifeVars
  <1>4. QED
    BY <1>2, <1>3

\* The clause of NoticeClearedOnEvidence.
Cleared ==
    entry.required /\ ~entry'.required
    => \/ overwritten'
       \/ \E g \in Lives :
             /\ refresh[g].step = "reading" /\ refresh'[g].step = "idle"
             /\ \/ evidence = "outage"
                \/ told # None /\ data'[g].boot \notin {None, told}

\* Every step keeps that agreement.
LEMMA NoticeStep ==
    ASSUME TypeOK, Future, NoticeHeld, Next
    PROVE  NoticeHeld' /\ Cleared
  <1> live \in Lives
    BY DEF TypeOK
  <1>1. CASE Quiet
    BY <1>1, QuietStep DEF Quiet, Cleared
  <1>2. CASE overwritten'
    BY <1>2 DEF NoticeHeld, Cleared
  <1>3. CASE UNCHANGED <<live, ready, entry, marker, told, evidence, overwritten, data>>
    BY <1>1, <1>3 DEF Quiet
  <1>4. ASSUME NEW w \in Writers, Begin(w) \/ Acquire(w) \/ Cancel(w) \/ Step(w)
        PROVE  NoticeHeld' /\ Cleared
    <2>1. CASE Restart(w)
      <3>1. UNCHANGED <<live, ready, entry, told, overwritten, data>>
        BY <2>1 DEF Restart, lifeVars
      <3>2. CASE writer[w].on = live
        BY <2>1, <3>1, <3>2, RestartNotice DEF NoticeHeld, Cleared
      <3>3. CASE writer[w].on # live
        <4>1. marker'[live] = marker[live]
          BY <2>1, <3>3 DEF Restart, TypeOK
        <4>2. evidence' \in {evidence, IF evidence = "none" THEN "reset" ELSE "outage"}
          BY <2>1 DEF Restart
        <4>3. QED
          BY <1>1, <3>1, <4>1, <4>2 DEF Quiet
      <3>4. QED
        BY <3>2, <3>3
    <2>2. CASE NoteResponse(writer[w].on) /\ UNCHANGED <<live, ready>>
      <3>1. CASE writer[w].on = live
        BY <2>2, <3>1, NoteResponseNotice DEF NoticeHeld, Cleared
      <3>2. CASE writer[w].on # live
        BY <1>2, <2>2, <3>2 DEF NoteResponse, Noticed
      <3>3. QED
        BY <3>1, <3>2
    <2>3. QED
      BY <1>1, <1>4, <2>1, <2>2, TaskNotice
  <1>5. CASE StartRefresh
    BY <1>3, <1>5 DEF StartRefresh, lifeVars, markerVars
  <1>6. ASSUME NEW g \in Lives, AcquireRefresh(g) \/ RefreshCancelled(g)
        PROVE  NoticeHeld' /\ Cleared
    BY <1>3, <1>6 DEF AcquireRefresh, RefreshCancelled, lifeVars, markerVars
  <1>7. ASSUME NEW g \in Lives, RefreshSucceeds(g) \/ RefreshFails(g)
        PROVE  NoticeHeld' /\ Cleared
    <2>1. CASE g # live
      BY <1>1, <1>2, <1>7, <2>1, OldNotice
    <2>2. CASE g = live /\ RefreshSucceeds(g)
      <3>1. overwritten' = overwritten \/ overwritten'
        BY <2>2 DEF RefreshSucceeds, TypeOK
      <3>2. CASE ~overwritten
        <4>1. NoticeInv
          BY <3>2 DEF NoticeHeld
        <4>2. refresh[g].step = "reading" /\ refresh'[g].step = "idle"
          BY <2>2, NullTypes
             DEF RefreshSucceeds, EndRefresh, RefreshOver, NoRefresh, TypeOK
        <4>3. QED
          BY <2>2, <4>1, <4>2, SuccessNotice DEF NoticeHeld, Cleared
      <3>3. CASE overwritten
        BY <1>2, <2>2, <3>3 DEF RefreshSucceeds
      <3>4. QED
        BY <3>2, <3>3
    <2>3. CASE g = live /\ RefreshFails(g)
      <3>1. UNCHANGED <<entry, overwritten>>
        BY <2>3 DEF RefreshFails
      <3>2. QED
        BY <2>3, <3>1, FailureNotice DEF NoticeHeld, Cleared
    <2>4. QED
      BY <1>7, <2>1, <2>2, <2>3
  <1>8. CASE Reload
    <2>1. live + 1 \in Lives
      BY <1>8, ConstantsAssumption DEF Reload, Lives, TypeOK
    <2>2. marker'[live + 1] = FromEntry(entry) /\ live' = live + 1
      BY <1>8, <2>1 DEF Reload, TypeOK
    <2>3. /\ marker'[live'].required = entry.required
          /\ marker'[live'].firmware = entry.firmware
          /\ marker'[live'].pending = FALSE
      BY <2>2 DEF FromEntry
    <2>4. ~ready'[live']
      <3>1. live + 1 > live
        BY DEF TypeOK, Lives
      <3>2. QED
        BY <1>8, <2>1, <3>1 DEF Reload, Future
    <2>5. QED
      BY <1>8, <2>3, <2>4 DEF Reload, NoticeHeld, NoticeInv, Cleared
  <1>9. CASE ChargerRestarts
    BY <1>3, <1>9 DEF ChargerRestarts, lifeVars
  <1>10. QED
    BY <1>4, <1>5, <1>6, <1>7, <1>8, <1>9 DEF Next

\* The notice and what it rests on, in every state, and what clears it in every step
LEMMA NoticeAlways ==
    Spec => [](TypeOK /\ Future /\ NoticeHeld) /\ [][Cleared]_vars
  <1> DEFINE I == TypeOK /\ Future /\ NoticeHeld
  <1>1. Init => I
    BY InitType, FutureInit, NoticeInit DEF NoticeHeld
  <1>2. I /\ [Next]_vars => I' /\ [Cleared]_vars
    <2>1. CASE Next
      BY <2>1, NextType, FutureStep, NoticeStep
    <2>2. CASE UNCHANGED vars
      BY <2>2, NextType DEF vars, Future, NoticeHeld, NoticeInv
    <2>3. QED
      BY <2>1, <2>2
  <1>3. QED
    BY <1>1, <1>2, PTL DEF Spec

\* What the live coordinator shows of a pending restart is what the config entry holds,
\* also when a reload comes while a task or a refresh of the old coordinator runs on,
\* until that one writes the entry.
THEOREM NoticePersists == Spec => []NoticeIsPersisted
  <1>1. NoticeHeld => NoticeIsPersisted
    BY DEF NoticeHeld, NoticeInv, NoticeIsPersisted
  <1>2. QED
    BY <1>1, NoticeAlways, PTL

\* Only a refresh clears the persisted notice, after an outage that followed a reset or
\* with another firmware version, whenever reloads come, unless a coordinator that was
\* unloaded has written the entry.
THEOREM NoticeNeedsEvidence == Spec => NoticeClearedOnEvidence
  <1>1. QED
    BY NoticeAlways, PTL DEF NoticeClearedOnEvidence, Cleared
-----------------------------------------------------------------------------
(***************************************************************************)
(* The LED's schedule                                                      *)
(***************************************************************************)

\* When every poll reads the LED: a coordinator that is ready has read it, its cached
\* schedule is the one in the charger, and tasks run on ready coordinators only.
LedInv ==
    /\ \A g \in Lives :
          ready[g] => /\ data[g].led # None
                      /\ data[g].led.schedule = led.schedule
    /\ \A w \in Writers : writer[w].step # "idle" => ready[writer[w].on]

\* When a reload waits for the tasks: what the live coordinator knows of the schedule,
\* if it knows one, is right, and the coordinators to come know nothing.
LedKnown ==
    /\ data[live].led # None => data[live].led.schedule = led.schedule
    /\ \A g \in Lives : g > live => data[g].led = None

\* The clause of LedScheduleKept.
ScheduleKept ==
    led'.schedule # led.schedule
    => \E w \in Writers :
          /\ At(w, "write") /\ Kind(w) = "led"
          /\ data[writer[w].on].led = None
          /\ led'.schedule = "default"

\* A step of a task leaves the cached LED as it was, or its own coordinator stores what
\* it verified.
LEMMA TaskLed ==
    ASSUME TypeOK, NEW w \in Writers, Acquire(w) \/ Cancel(w) \/ Step(w)
    PROVE  /\ WriteLed(w) \/ UNCHANGED led
           /\ \A g \in Lives : \/ data'[g].led = data[g].led
                               \/ /\ data'[g].led = led /\ UNCHANGED led
                                  /\ g = writer[w].on
  <1> USE DEF chargerVars, markerVars, unwritten
  <1>1. CASE UNCHANGED data
    BY <1>1 DEF Acquire, Cancel, Step, Check, WriteLimit, WriteBundle, WriteWifi,
                WriteLed, Verify, Restart, Command, AskRefresh
  <1>2. ASSUME NEW g \in Lives, NoteResponse(g)
        PROVE  \A h \in Lives : data'[h].led = data[h].led
    <2>1. [data[g] EXCEPT !.restart = TRUE].led = data[g].led
      BY DEF TypeOK, Data
    <2> QED
      BY <1>2, <2>1 DEF NoteResponse, TypeOK
  <1>3. ASSUME Answered(w), UNCHANGED led
        PROVE  \A g \in Lives : data'[g].led = data[g].led
    <2>1. CASE NoteResponse(writer[w].on)
      BY <1>2, <2>1, OnType
    <2> QED
      BY <1>3, <2>1 DEF Answered
  <1>4. CASE WriteLimit(w)
    BY <1>1, <1>3, <1>4 DEF WriteLimit
  <1>5. CASE WriteBundle(w)
    BY <1>1, <1>3, <1>5 DEF WriteBundle
  <1>6. CASE WriteWifi(w)
    <2>1. CASE NoteResponse(writer[w].on)
      BY <1>2, <1>6, <2>1, OnType DEF WriteWifi
    <2> QED
      BY <1>1, <1>6, <2>1 DEF WriteWifi, WithoutNotice
  <1>7. CASE Verify(w)
    <2> DEFINE g == writer[w].on
    <2>1. led' = led
      BY <1>7 DEF Verify
    <2>2. CASE Publish(w)
      <3>1. g \in Lives /\ data[g] \in Data
        BY OnType DEF TypeOK
      <3>2. CASE Kind(w) = "limit"
        BY <2>1, <2>2, <3>1, <3>2 DEF Publish, Kind, TypeOK, Data
      <3>3. CASE Kind(w) = "led"
        BY <2>1, <2>2, <3>1, <3>3 DEF Publish, Kind, TypeOK, Data
      <3>4. CASE Kind(w) \notin {"limit", "led"}
        BY <1>1, <2>2, <3>4 DEF Publish, Kind
      <3> QED
        BY <3>2, <3>3, <3>4
    <2> QED
      BY <1>1, <1>7, <2>2 DEF Verify, ReadBackFails
  <1> QED
    BY <1>1, <1>4, <1>5, <1>6, <1>7
       DEF Acquire, Cancel, Step, Check, WriteLed, Restart, Command, AskRefresh

\* The end of a refresh leaves the cached LED as it was, or stores what it read: the LED
\* of the charger, or nothing where the poll missed it.
LEMMA RefreshLed ==
    ASSUME TypeOK, NEW g \in Lives,
           \/ AcquireRefresh(g) \/ RefreshSucceeds(g) \/ RefreshFails(g)
           \/ RefreshCancelled(g)
    PROVE  /\ UNCHANGED led
           /\ \A h \in Lives : \/ data'[h] = data[h] /\ ready'[h] = ready[h]
                               \/ /\ h = g
                                  /\ \/ data'[h].led = led
                                     \/ data'[h].led = None /\ "led" \in MayMiss
  <1>1. led' = led
    BY DEF AcquireRefresh, RefreshSucceeds, RefreshFails, RefreshCancelled, chargerVars
  <1>2. CASE RefreshSucceeds(g)
    <2>1. PICK missed \in SUBSET MayMiss, required \in BOOLEAN :
            data' = [data EXCEPT ![g] = [Snapshot(g, missed) EXCEPT !.restart = required]]
      <3>1. \A m \in SUBSET MayMiss :
              /\ Snapshot(g, m) \in Data
              /\ Confirmed(marker[g], Snapshot(g, m).boot) \in BOOLEAN
        BY SnapshotType DEF Confirmed
      <3> QED
        BY <1>2, <3>1 DEF RefreshSucceeds, TypeOK, Data, Marker
    <2>2. [Snapshot(g, missed) EXCEPT !.restart = required].led
            = IF "led" \in missed THEN None ELSE led
      BY DEF Snapshot
    <2>3. \A h \in Lives \ {g} : ready'[h] = ready[h]
      BY <1>2 DEF RefreshSucceeds, TypeOK
    <2> QED
      BY <1>1, <2>1, <2>2, <2>3 DEF TypeOK
  <1> QED
    BY <1>1, <1>2 DEF AcquireRefresh, RefreshFails, RefreshCancelled, lifeVars

\* Every step keeps the schedule in the charger, and what is known of it.
LEMMA LedStep ==
    ASSUME TypeOK, LedInv, Next, "led" \notin MayMiss, None \notin Led
    PROVE  LedInv' /\ led'.schedule = led.schedule
  <1> USE DEF chargerVars, markerVars, lifeVars
  <1>1. led \in Led /\ led # None
    BY DEF TypeOK
  <1>2. CASE UNCHANGED <<led, data, ready, writer>>
    BY <1>2 DEF LedInv
  <1>3. ASSUME NEW w \in Writers, Begin(w)
        PROVE  LedInv' /\ led'.schedule = led.schedule
    <2>1. UNCHANGED <<led, data, ready, live>> /\ ready[live]
      BY <1>3 DEF Begin
    <2>2. \A u \in Writers : writer'[u] = writer[u] \/ writer'[u].on = live
      BY <1>3 DEF Begin, TypeOK
    <2> QED
      BY <2>1, <2>2 DEF LedInv
  <1>4. ASSUME NEW w \in Writers, Acquire(w) \/ Cancel(w) \/ Step(w)
        PROVE  LedInv' /\ led'.schedule = led.schedule
    <2>1. ready' = ready
      BY <1>4, TaskFrame
    <2>2. writer[w].step # "idle" /\ writer[w].on \in Lives
      BY <1>4, TaskMoves, OnType
    <2>3. WantedLed(w).schedule = led.schedule
      BY <2>2 DEF LedInv, WantedLed
    <2>4. led'.schedule = led.schedule
      BY <1>4, <2>3, TaskLed DEF WriteLed
    <2>5. ASSUME NEW g \in Lives, ready'[g]
          PROVE  data'[g].led # None /\ data'[g].led.schedule = led'.schedule
      BY <1>1, <1>4, <2>1, <2>4, <2>5, TaskLed DEF LedInv
    <2>6. ASSUME NEW u \in Writers, writer'[u].step # "idle"
          PROVE  ready'[writer'[u].on]
      <3>1. CASE u = w
        <4>1. writer'[w].on = writer[w].on
          BY <1>4, <2>6, <3>1, TaskMoves, NullTypes DEF Keeps
        <4> QED
          BY <2>1, <2>2, <3>1, <4>1 DEF LedInv
      <3>2. CASE u # w
        <4>1. writer'[u] = writer[u]
          BY <1>4, <3>2, TaskMoves
        <4> QED
          BY <2>1, <2>6, <4>1 DEF LedInv
      <3> QED
        BY <3>1, <3>2
    <2> QED
      BY <2>4, <2>5, <2>6 DEF LedInv
  <1>5. CASE StartRefresh
    BY <1>2, <1>5 DEF StartRefresh
  <1>6. ASSUME NEW g \in Lives,
               \/ AcquireRefresh(g) \/ RefreshSucceeds(g) \/ RefreshFails(g)
               \/ RefreshCancelled(g)
        PROVE  LedInv' /\ led'.schedule = led.schedule
    <2>1. led' = led
      BY <1>6, RefreshLed
    <2>2. \A h \in Lives : ready[h] => ready'[h]
      BY <1>6 DEF AcquireRefresh, RefreshSucceeds, RefreshFails, RefreshCancelled, TypeOK
    <2>3. \A h \in Lives : \/ data'[h] = data[h] /\ ready'[h] = ready[h]
                           \/ data'[h].led = led
      BY <1>6, RefreshLed
    <2>4. \A u \in Writers : writer'[u] \in {writer[u], Idle}
      BY <1>6, RefreshFrame
    <2>5. ASSUME NEW u \in Writers, writer'[u].step # "idle"
          PROVE  ready'[writer'[u].on]
      <3>1. writer'[u] = writer[u]
        BY <2>4, <2>5, NullTypes
      <3> QED
        BY <2>2, <2>5, <3>1, OnType DEF LedInv
    <2>6. ASSUME NEW h \in Lives, ready'[h]
          PROVE  data'[h].led # None /\ data'[h].led.schedule = led.schedule
      BY <1>1, <2>3, <2>6 DEF LedInv
    <2> QED
      BY <2>1, <2>5, <2>6 DEF LedInv
  <1>7. CASE Reload
    BY <1>2, <1>7 DEF Reload
  <1>8. CASE ChargerRestarts
    BY <1>2, <1>8 DEF ChargerRestarts
  <1> QED
    BY <1>3, <1>4, <1>5, <1>6, <1>7, <1>8 DEF Next

\* Every step but a write that finds no LED in the cache keeps what is known.
LEMMA KnownStep ==
    ASSUME TypeOK, OnLive, LedKnown, Next, ~ReloadBusy, None \notin Led
    PROVE  LedKnown' /\ ScheduleKept
  <1> live \in Lives /\ led \in Led /\ led # None
    BY DEF TypeOK
  <1>1. CASE UNCHANGED <<led, data, live>>
    BY <1>1 DEF LedKnown, ScheduleKept
  <1>2. ASSUME NEW w \in Writers, Acquire(w) \/ Cancel(w) \/ Step(w)
        PROVE  LedKnown' /\ ScheduleKept
    <2>1. live' = live /\ writer[w].on = live
      BY <1>2, TaskFrame, TaskMoves DEF OnLive
    <2>2. \A g \in Lives : g > live => g # live
      BY DEF Lives
    <2>3. \A g \in Lives : g > live => data'[g].led = None
      BY <1>2, <2>1, <2>2, TaskLed DEF LedKnown
    <2>4. CASE WriteLed(w)
      <3>1. /\ At(w, "write") /\ Kind(w) = "led" /\ data' = data
            /\ led' \in {led, WantedLed(w)}
        BY <2>4 DEF WriteLed
      <3>2. CASE data[live].led = None
        BY <2>1, <2>3, <3>1, <3>2 DEF WantedLed, LedKnown, ScheduleKept
      <3>3. CASE data[live].led # None
        <4>1. led'.schedule = led.schedule
          BY <2>1, <3>1, <3>3 DEF WantedLed, LedKnown
        <4>2. QED
          BY <2>1, <2>3, <3>1, <4>1 DEF LedKnown, ScheduleKept
      <3>4. QED
        BY <3>2, <3>3
    <2>5. CASE UNCHANGED led
      BY <1>2, <2>1, <2>3, <2>5, TaskLed DEF LedKnown, ScheduleKept
    <2>6. QED
      BY <1>2, <2>4, <2>5, TaskLed
  <1>3. ASSUME NEW g \in Lives,
               \/ AcquireRefresh(g) \/ RefreshSucceeds(g) \/ RefreshFails(g)
               \/ RefreshCancelled(g)
        PROVE  LedKnown' /\ ScheduleKept
    <2>1. g = live /\ live' = live
      BY <1>3, RefreshFrame DEF OnLive
    <2>2. \A h \in Lives : h > live => h # live
      BY DEF Lives
    <2>3. QED
      BY <1>3, <2>1, <2>2, RefreshLed DEF LedKnown, ScheduleKept
  <1>4. CASE Reload
    <2>1. live' = live + 1 /\ live + 1 \in Lives /\ UNCHANGED <<data, led>>
      BY <1>4, ConstantsAssumption DEF Reload, Lives, chargerVars
    <2>2. live + 1 > live /\ \A g \in Lives : g > live + 1 => g > live
      BY DEF Lives
    <2>3. QED
      BY <2>1, <2>2 DEF LedKnown, ScheduleKept
  <1>5. ASSUME NEW w \in Writers, Begin(w)
        PROVE  LedKnown' /\ ScheduleKept
    BY <1>1, <1>5 DEF Begin, chargerVars, lifeVars
  <1>6. CASE StartRefresh \/ ChargerRestarts
    BY <1>1, <1>6 DEF StartRefresh, ChargerRestarts, chargerVars, lifeVars
  <1>7. QED
    BY <1>2, <1>3, <1>4, <1>5, <1>6 DEF Next

\* async_set_led writes the schedule the charger has, or the default one when the cached
\* data have no LED, whichever sessions fail or are cancelled. The one case left out is a
\* reload under a running action where, besides, a poll may miss the LED: the action of
\* the old coordinator then may know a schedule that the new one has replaced.
THEOREM ScheduleIsKept ==
    ASSUME ~ReloadBusy \/ "led" \notin MayMiss, None \notin Led
    PROVE  Spec => LedScheduleKept
  <1>1. CASE "led" \notin MayMiss
    <2> DEFINE I == TypeOK /\ LedInv
    <2>1. Init => I
      BY InitType, NullTypes DEF Init, LedInv
    <2>2. I /\ [Next]_vars => I' /\ [ScheduleKept]_vars
      <3>1. CASE Next
        BY <1>1, <3>1, NextType, LedStep DEF ScheduleKept
      <3>2. CASE UNCHANGED vars
        BY <3>2, NextType DEF vars, LedInv
      <3> QED
        BY <3>1, <3>2
    <2> QED
      BY <2>1, <2>2, PTL DEF Spec, LedScheduleKept, ScheduleKept
  <1>2. CASE ~ReloadBusy
    <2> DEFINE I == TypeOK /\ OnLive /\ LedKnown
    <2>1. Init => I
      <3>1. Init => LedKnown
        BY ConstantsAssumption DEF Init, LedKnown, NoData, Lives
      <3> QED
        BY <3>1, InitType, OnLiveInit
    <2>2. I /\ [Next]_vars => I' /\ [ScheduleKept]_vars
      <3>1. CASE Next
        BY <1>2, <3>1, NextType, OnLiveStep, KnownStep
      <3>2. CASE UNCHANGED vars
        BY <3>2, NextType DEF vars, OnLive, LedKnown
      <3> QED
        BY <3>1, <3>2
    <2> QED
      BY <2>1, <2>2, PTL DEF Spec, LedScheduleKept, ScheduleKept
  <1> QED
    BY <1>1, <1>2
=============================================================================
