-------------------------- MODULE EntryFlowProofs --------------------------
(***************************************************************************)
(* What EntryFlow promises for any number of forms and codes.  The forms   *)
(* that set a charger up know that there is no entry with a unique id      *)
(* (FormsFit): the one that creates it aborts the others that took the     *)
(* unique id.  An entry without a unique id may stand beside it, so a step *)
(* of the life of one entry has to leave the other and its form alone.     *)
(***************************************************************************)
EXTENDS EntryFlow, TLAPS

\* A form that took a unique id to set the charger up has no entry with one beside it; a
\* form that asks for a new code has its entry, and an entry's own form asks for no other.
FormFits(f, g) ==
    /\ g.source = "none" => g = NoForm
    /\ g.step = "validating" => g.code \in Codes /\ g.id # None
    /\ g.source \in Updating => g.id \in Ids /\ Exists(g.id) /\ (f \in Ids => g.id = f)
    /\ g.source \in Opening /\ g.id # None =>
         g.id = "upper" /\ ~Exists("upper") /\ ~Exists("mixed")

FormsFit == \A f \in AllForms : FormFits(f, form[f])

\* At most one entry has a unique id.
OneNamed == ~(Exists("upper") /\ Exists("mixed"))

\* A new coordinator has not met a wrong code yet.
SettingUpPolls ==
    \A id \in Ids : SettingUp(id) => entry[id].polling

IInv ==
    /\ TypeOK
    /\ SettingUpPolls
    /\ OneNamed
    /\ FormsFit
    /\ WrongCodeIsAnnounced

-----------------------------------------------------------------------------
(***************************************************************************)
(* Steps of the entry's life                                               *)
(***************************************************************************)

LEMMA StartingIsEntry ==
    ASSUME NEW e \in Entry
    PROVE  /\ Starting(e) \in Entry
           /\ Starting(e).code = e.code
           /\ Starting(e).state = "setup" /\ Starting(e).polling
           /\ [Starting(e) EXCEPT !.reload = FALSE] \in Entry
           /\ [Starting(e) EXCEPT !.reload = FALSE].code = e.code
           /\ [Starting(e) EXCEPT !.reload = FALSE].state = "setup"
           /\ [Starting(e) EXCEPT !.reload = FALSE].polling
  BY DEF Starting, Entry

LEMMA NewIsEntry ==
    ASSUME NEW code \in Codes
    PROVE  NewEntry(code) \in Entry /\ NewEntry(code).state = "setup"
           /\ NewEntry(code).polling
  BY DEF NewEntry, Entry

\* After a refusal a form asks for a new code; the other forms are as before.
LEMMA AskingOpens ==
    ASSUME IInv, NEW id \in Ids, Exists(id), form' = AskForCode(id)
    PROVE  /\ Asking(id)' # {}
           /\ form' \in [AllForms -> Form]
           /\ \A f \in AllForms : form'[f] = form[f]
                                  \/ (f = id /\ form'[f] = Opened("reauth", id))
           /\ \A j \in Ids : Asking(j) \subseteq Asking(j)'
  <1> USE DEF IInv, TypeOK
  <1>1. CASE Asking(id) = {}
    <2>1. form' = [form EXCEPT ![id] = Opened("reauth", id)]
      BY <1>1 DEF AskForCode
    <2>2. Opened("reauth", id) \in Form /\ Opened("reauth", id).source = "reauth"
          /\ Opened("reauth", id).id = id
      BY DEF Opened, NoForm, Form, Updating
    <2>3. id \in AllForms /\ form'[id] = Opened("reauth", id)
      BY <2>1 DEF AllForms
    <2>4. id \in Asking(id)'
      BY <2>2, <2>3 DEF Asking, Updating
    <2>5. ASSUME NEW j \in Ids, NEW f \in Asking(j)
          PROVE  f \in Asking(j)'
      <3>1. f \in AllForms /\ form[f].source \in Updating /\ form[f].id = j /\ j # id
        BY <1>1, <2>5 DEF Asking
      <3>2. f # id
        BY <3>1 DEF FormsFit, FormFits
      <3> QED
        BY <2>1, <3>1, <3>2 DEF Asking
    <2> QED
      BY <2>1, <2>2, <2>3, <2>4, <2>5
  <1>2. CASE Asking(id) # {}
    BY <1>2 DEF AskForCode, Asking
  <1> QED
    BY <1>1, <1>2

\* The state of an entry of its own changes, and at most the form for a new code is
\* opened: the invariant stays if a refused entry remains announced.
LEMMA LifeKeeps ==
    ASSUME IInv, NEW id \in Ids, Exists(id), NEW e \in Entry,
           entry' = [entry EXCEPT ![id] = e],
           form' = form \/ form' = AskForCode(id),
           charger' \in Codes, changes' \in 0..MaxChanges,
           stale' \subseteq Ids \X Codes,
           closed' \subseteq Ids, closed \ {id} \subseteq closed',
           e.state = "setup" => e.polling,
           Refused(id)' => Asking(id)' # {} \/ e.reload \/ id \in closed'
    PROVE  IInv'
  <1> USE DEF IInv
  <1>1. entry \in [Ids -> Entry \cup {None}] /\ form \in [AllForms -> Form]
    BY DEF TypeOK
  <1>2. /\ entry' \in [Ids -> Entry \cup {None}] /\ entry'[id] = e
        /\ \A j \in Ids : j # id => entry'[j] = entry[j]
    BY <1>1
  <1>3. \A j \in Ids : Exists(j)' <=> Exists(j)
    BY <1>1, <1>2, NoneAssumption DEF Exists
  <1>4. form' \in [AllForms -> Form]
    BY <1>1, AskingOpens
  <1>5. /\ \A f \in AllForms : form'[f] = form[f]
                               \/ (f = id /\ form'[f] = Opened("reauth", id))
        /\ \A j \in Ids : Asking(j) \subseteq Asking(j)'
    BY AskingOpens DEF Asking
  <1>6. FormsFit'
    <2> SUFFICES ASSUME NEW f \in AllForms
                 PROVE  FormFits(f, form[f])'
      BY DEF FormsFit
    <2>1. Exists("upper")' = Exists("upper") /\ Exists("mixed")' = Exists("mixed")
      BY <1>3 DEF Ids, Exists
    <2>2. CASE form'[f] = form[f]
      BY <1>1, <1>3, <2>1, <2>2 DEF FormsFit, FormFits, Form
    <2>3. CASE f = id /\ form'[f] = Opened("reauth", id)
      BY <1>3, <2>3 DEF FormFits, Opened, NoForm, Updating, Opening
    <2> QED
      BY <1>5, <2>2, <2>3
  <1>7. WrongCodeIsAnnounced'
    <2> SUFFICES ASSUME NEW j \in Ids, Refused(j)'
                 PROVE  (Asking(j) # {} \/ entry[j].reload \/ j \in closed)'
      BY DEF WrongCodeIsAnnounced
    <2>1. CASE j = id
      BY <1>2, <2>1
    <2>2. CASE j # id
      BY <1>2, <1>3, <1>5, <2>2 DEF WrongCodeIsAnnounced, Refused
    <2> QED
      BY <2>1, <2>2
  <1>8. OneNamed'
    BY <1>3 DEF OneNamed, Ids
  <1>9. TypeOK'
    BY <1>2, <1>4 DEF TypeOK
  <1>10. SettingUpPolls'
    BY <1>2, <1>3 DEF SettingUpPolls, SettingUp
  <1> QED
    BY <1>6, <1>7, <1>8, <1>9, <1>10

LEMMA LoadHolds ==
    ASSUME IInv, NEW id \in Ids, Load(id)
    PROVE  IInv'
  <1> DEFINE e == [entry[id] EXCEPT !.state = "loaded"]
  <1>1. Exists(id) /\ entry[id] \in Entry /\ entry[id].polling
    BY DEF Load, SettingUp, SettingUpPolls, Exists, IInv, TypeOK
  <1>2. /\ entry' = [entry EXCEPT ![id] = e] /\ form' = form
        /\ charger' = charger /\ changes' = changes /\ stale' = stale /\ closed' = closed
    BY DEF Load
  <1>3. e \in Entry /\ e.state = "loaded" /\ e.polling
    BY <1>1 DEF Entry
  <1> HIDE DEF e
  <1>4. entry'[id] = e
    BY <1>2 DEF IInv, TypeOK
  <1>5. ~Refused(id)'
    BY <1>3, <1>4 DEF Refused
  <1> QED
    BY <1>1, <1>2, <1>3, <1>5, LifeKeeps DEF IInv, TypeOK

LEMMA FailSetupHolds ==
    ASSUME IInv, NEW id \in Ids, FailSetup(id)
    PROVE  IInv'
  <1> DEFINE e == [entry[id] EXCEPT !.state = "error"]
  <1>1. Exists(id) /\ entry[id] \in Entry
    BY DEF FailSetup, SettingUp, Exists, IInv, TypeOK
  <1>2. /\ entry' = [entry EXCEPT ![id] = e] /\ form' = AskForCode(id)
        /\ charger' = charger /\ changes' = changes /\ stale' = stale
        /\ closed' = closed \ {id}
    BY DEF FailSetup
  <1>3. e \in Entry /\ e.state = "error"
    BY <1>1 DEF Entry
  <1> HIDE DEF e
  <1>4. Asking(id)' # {}
    BY <1>1, <1>2, AskingOpens
  <1> QED
    BY <1>1, <1>2, <1>3, <1>4, LifeKeeps DEF IInv, TypeOK

LEMMA DeferSetupHolds ==
    ASSUME IInv, NEW id \in Ids, DeferSetup(id)
    PROVE  IInv'
  <1> DEFINE e == [entry[id] EXCEPT !.state = "retry"]
  <1>1. Exists(id) /\ entry[id] \in Entry
    BY DEF DeferSetup, SettingUp, Exists, IInv, TypeOK
  <1>2. /\ entry' = [entry EXCEPT ![id] = e] /\ form' = form
        /\ charger' = charger /\ changes' = changes /\ stale' = stale /\ closed' = closed
    BY DEF DeferSetup
  <1>3. e \in Entry /\ e.state = "retry"
    BY <1>1 DEF Entry
  <1> HIDE DEF e
  <1>4. entry'[id] = e
    BY <1>2 DEF IInv, TypeOK
  <1>5. ~Refused(id)'
    BY <1>3, <1>4 DEF Refused
  <1> QED
    BY <1>1, <1>2, <1>3, <1>5, LifeKeeps DEF IInv, TypeOK

\* A set-up that begins again, after a while or after an unload
LEMMA RetryHolds ==
    ASSUME IInv, NEW id \in Ids, Retry(id) \/ FinishUnload(id)
    PROVE  IInv'
  <1>1. Exists(id) /\ entry[id] \in Entry
    BY DEF Retry, FinishUnload, Exists, IInv, TypeOK
  <1>2. /\ entry' = [entry EXCEPT ![id] = Starting(entry[id])] /\ form' = form
        /\ charger' = charger /\ changes' = changes /\ stale' = stale /\ closed' = closed
    BY DEF Retry, FinishUnload
  <1>3. /\ Starting(entry[id]) \in Entry
        /\ Starting(entry[id]).state = "setup" /\ Starting(entry[id]).polling
    BY <1>1, StartingIsEntry
  <1>4. entry'[id] = Starting(entry[id])
    BY <1>2 DEF IInv, TypeOK
  <1>5. ~Refused(id)'
    BY <1>3, <1>4 DEF Refused
  <1> QED
    BY <1>1, <1>2, <1>3, <1>5, LifeKeeps DEF IInv, TypeOK

LEMMA RefreshHolds ==
    ASSUME IInv, NEW id \in Ids, Refresh(id)
    PROVE  IInv'
  <1> DEFINE right == entry[id].client = charger
  <1> DEFINE e == [entry[id] EXCEPT !.polling = right]
  <1>1. Exists(id) /\ entry[id] \in Entry /\ entry[id].state = "loaded"
    BY DEF Refresh, Loaded, Exists, IInv, TypeOK
  <1>2. /\ entry' = [entry EXCEPT ![id] = e]
        /\ form' = IF right THEN form ELSE AskForCode(id)
        /\ charger' = charger /\ changes' = changes /\ stale' = stale
    BY DEF Refresh
  <1>3. closed' \subseteq Ids /\ closed \ {id} \subseteq closed'
    BY DEF Refresh, IInv, TypeOK
  <1>4. right \in BOOLEAN
    OBVIOUS
  <1> HIDE DEF right
  <1>5. e \in Entry /\ e.state = "loaded" /\ e.polling = right
    BY <1>1, <1>4 DEF Entry
  <1> HIDE DEF e
  <1>6. entry'[id] = e
    BY <1>2 DEF IInv, TypeOK
  <1>7. CASE right
    <2>1. ~Refused(id)'
      BY <1>5, <1>6, <1>7 DEF Refused
    <2> QED
      BY <1>1, <1>2, <1>3, <1>5, <1>7, <2>1, LifeKeeps DEF IInv, TypeOK
  <1>8. CASE ~right
    <2>1. form' = AskForCode(id)
      BY <1>2, <1>8
    <2>2. Asking(id)' # {}
      BY <1>1, <2>1, AskingOpens
    <2> QED
      BY <1>1, <1>2, <1>3, <1>5, <2>1, <2>2, LifeKeeps DEF IInv, TypeOK
  <1> QED
    BY <1>7, <1>8

\* An operation of the client is refused, now or by an earlier load of the entry.
LEMMA RefusalHolds ==
    ASSUME IInv, NEW id \in Ids, NEW code \in Codes,
           ActionRefused(id) \/ StaleEnds(id, code)
    PROVE  IInv'
  <1>1. Exists(id) /\ entry[id] \in Entry
    BY DEF ActionRefused, StaleEnds, Loaded, Exists, IInv, TypeOK
  <1>2. /\ entry' = entry /\ entry' = [entry EXCEPT ![id] = entry[id]]
        /\ charger' = charger /\ changes' = changes /\ stale' \subseteq stale
    BY DEF ActionRefused, StaleEnds, IInv, TypeOK
  <1>3. closed' \subseteq Ids /\ closed \ {id} \subseteq closed'
    BY DEF ActionRefused, StaleEnds, IInv, TypeOK
  <1>4. entry[id].state = "setup" => entry[id].polling
    BY <1>1 DEF IInv, SettingUpPolls, SettingUp
  <1>5. \/ form' = AskForCode(id)
        \/ form' = form /\ closed' = closed
    BY DEF ActionRefused, StaleEnds
  <1>6. CASE form' = AskForCode(id)
    <2>1. Asking(id)' # {}
      BY <1>1, <1>6, AskingOpens
    <2> QED
      BY <1>1, <1>2, <1>3, <1>4, <1>6, <2>1, LifeKeeps DEF IInv, TypeOK
  <1>7. CASE form' = form /\ closed' = closed
    <2>1. Refused(id)' => Asking(id)' # {} \/ entry[id].reload \/ id \in closed'
      BY <1>2, <1>7 DEF IInv, WrongCodeIsAnnounced, Refused, Exists, Asking
    <2> QED
      BY <1>1, <1>2, <1>3, <1>4, <1>7, <2>1, LifeKeeps DEF IInv, TypeOK
  <1> QED
    BY <1>5, <1>6, <1>7

LEMMA SyncNoticeHolds ==
    ASSUME IInv, NEW id \in Ids, SyncNotice(id)
    PROVE  IInv'
  <1> DEFINE e == [entry[id] EXCEPT !.restart = ~entry[id].restart]
  <1>1. Exists(id) /\ entry[id] \in Entry /\ entry[id].state = "loaded"
    BY DEF SyncNotice, Loaded, Exists, IInv, TypeOK
  <1>2. /\ entry' = [entry EXCEPT ![id] = e] /\ form' = form
        /\ charger' = charger /\ changes' = changes /\ stale' = stale /\ closed' = closed
    BY DEF SyncNotice
  <1>3. /\ e \in Entry /\ e.state = "loaded" /\ e.polling = entry[id].polling
        /\ e.reload = entry[id].reload
    BY <1>1 DEF Entry
  <1> HIDE DEF e
  <1>4. entry'[id] = e
    BY <1>2 DEF IInv, TypeOK
  <1>5. Refused(id)' => Refused(id)
    BY <1>1, <1>3, <1>4 DEF Refused
  <1>6. Refused(id)' => Asking(id)' # {} \/ e.reload \/ id \in closed'
    BY <1>2, <1>3, <1>5 DEF IInv, WrongCodeIsAnnounced, Asking
  <1> QED
    BY <1>1, <1>2, <1>3, <1>6, LifeKeeps DEF IInv, TypeOK

LEMMA RequestReloadHolds ==
    ASSUME IInv, NEW id \in Ids, RequestReload(id)
    PROVE  IInv'
  <1> DEFINE e == [entry[id] EXCEPT !.reload = TRUE]
  <1>1. Exists(id) /\ entry[id] \in Entry
    BY DEF RequestReload, Exists, IInv, TypeOK
  <1>2. /\ entry' = [entry EXCEPT ![id] = e] /\ form' = form
        /\ charger' = charger /\ changes' = changes /\ stale' = stale /\ closed' = closed
    BY DEF RequestReload
  <1>3. entry[id].state = "setup" => entry[id].polling
    BY <1>1 DEF IInv, SettingUpPolls, SettingUp
  <1>4. e \in Entry /\ e.reload /\ (e.state = "setup" => e.polling)
    BY <1>1, <1>3 DEF Entry
  <1> HIDE DEF e
  <1> QED
    BY <1>1, <1>2, <1>4, LifeKeeps DEF IInv, TypeOK

LEMMA ReloadHolds ==
    ASSUME IInv, NEW id \in Ids, Reload(id)
    PROVE  IInv'
  <1> DEFINE e == IF Loaded(id)
                  THEN [entry[id] EXCEPT !.state = "unloading", !.reload = FALSE]
                  ELSE [Starting(entry[id]) EXCEPT !.reload = FALSE]
  <1>1. Exists(id) /\ entry[id] \in Entry
    BY DEF Reload, Settled, Exists, IInv, TypeOK
  <1>2. /\ entry' = [entry EXCEPT ![id] = e] /\ form' = form
        /\ charger' = charger /\ changes' = changes /\ closed' = closed \ {id}
    BY DEF Reload
  <1>3. stale' \subseteq Ids \X Codes
    <2>1. entry[id].client \in Codes
      BY <1>1 DEF Entry
    <2> QED
      BY <2>1 DEF Reload, IInv, TypeOK
  <1>4. e \in Entry /\ e.state \in {"setup", "unloading"} /\ (e.state = "setup" => e.polling)
    <2>1. CASE Loaded(id)
      BY <1>1, <2>1 DEF Entry
    <2>2. CASE ~Loaded(id)
      BY <1>1, <2>2, StartingIsEntry
    <2> QED
      BY <2>1, <2>2
  <1> HIDE DEF e
  <1>5. entry'[id] = e
    BY <1>2 DEF IInv, TypeOK
  <1>6. ~Refused(id)'
    BY <1>4, <1>5 DEF Refused
  <1> QED
    BY <1>1, <1>2, <1>3, <1>4, <1>6, LifeKeeps DEF IInv, TypeOK

\* The entry goes with the forms that ask for its code.
LEMMA RemoveHolds ==
    ASSUME IInv, NEW id \in Ids, Remove(id)
    PROVE  IInv'
  <1> USE DEF IInv
  <1>1. /\ entry \in [Ids -> Entry \cup {None}] /\ form \in [AllForms -> Form]
        /\ Exists(id)
    BY DEF TypeOK, Remove, Settled
  <1>2. /\ entry' = [entry EXCEPT ![id] = None]
        /\ form' = [f \in AllForms |-> IF f \in Asking(id) THEN NoForm ELSE form[f]]
        /\ charger' = charger /\ changes' = changes
        /\ stale' = {s \in stale : s[1] # id} /\ closed' = closed \ {id}
    BY DEF Remove
  <1>3. /\ entry' \in [Ids -> Entry \cup {None}] /\ entry'[id] = None
        /\ \A j \in Ids : j # id => entry'[j] = entry[j]
    BY <1>1, <1>2
  <1>4. \A j \in Ids : Exists(j)' <=> j # id /\ Exists(j)
    BY <1>3 DEF Exists
  <1>5. NoForm \in Form
    BY DEF NoForm, Form
  <1>6. form' \in [AllForms -> Form]
    BY <1>1, <1>2, <1>5
  <1>7. \A f \in AllForms : IF f \in Asking(id) THEN form'[f] = NoForm
                                                ELSE form'[f] = form[f]
    BY <1>2
  <1>8. FormsFit'
    <2> SUFFICES ASSUME NEW f \in AllForms
                 PROVE  FormFits(f, form[f])'
      BY DEF FormsFit
    <2>1. CASE f \in Asking(id)
      <3>1. form'[f] = NoForm
        BY <1>7, <2>1
      <3> QED
        BY <3>1 DEF FormFits, NoForm, Updating, Opening
    <2>2. CASE f \notin Asking(id)
      <3>1. form'[f] = form[f]
        BY <1>7, <2>2
      <3>2. form[f].source \in Updating => form[f].id # id
        BY <2>2 DEF Asking
      <3>3. "upper" \in Ids /\ "mixed" \in Ids
        BY DEF Ids
      <3> QED
        BY <1>4, <3>1, <3>2, <3>3 DEF FormsFit, FormFits
    <2> QED
      BY <2>1, <2>2
  <1>9. WrongCodeIsAnnounced'
    <2> SUFFICES ASSUME NEW j \in Ids, Refused(j)'
                 PROVE  (Asking(j) # {} \/ entry[j].reload \/ j \in closed)'
      BY DEF WrongCodeIsAnnounced
    <2>1. j # id /\ Refused(j) /\ entry'[j] = entry[j]
      BY <1>3, <1>4 DEF Refused
    <2>2. \A f \in Asking(j) : f \in Asking(j)'
      BY <1>7, <2>1 DEF Asking
    <2> QED
      BY <1>2, <2>1, <2>2 DEF WrongCodeIsAnnounced
  <1>10. SettingUpPolls'
    BY <1>3, <1>4 DEF SettingUpPolls, SettingUp
  <1>11. OneNamed'
    BY <1>4 DEF OneNamed, Ids
  <1> QED
    BY <1>2, <1>3, <1>6, <1>8, <1>9, <1>10, <1>11 DEF TypeOK

LEMMA RestartHolds ==
    ASSUME IInv, Restart
    PROVE  IInv'
  <1> USE DEF IInv
  <1>1. /\ entry' = [id \in Ids |-> IF Exists(id)
                                    THEN [Starting(entry[id]) EXCEPT !.reload = FALSE]
                                    ELSE None]
        /\ form' = [f \in AllForms |-> NoForm]
        /\ charger' = charger /\ changes' = changes /\ stale' = {} /\ closed' = {}
    BY DEF Restart
  <1>2. \A id \in Ids : Exists(id) => entry[id] \in Entry
    BY DEF TypeOK, Exists
  <1>3. \A id \in Ids : Exists(id) => /\ entry'[id] \in Entry
                                      /\ entry'[id].state = "setup"
                                      /\ entry'[id].polling
    BY <1>1, <1>2, StartingIsEntry
  <1>4. \A id \in Ids : ~Exists(id) => entry'[id] = None
    BY <1>1
  <1>5. entry' \in [Ids -> Entry \cup {None}]
    <2>1. \A id \in Ids : entry'[id] \in Entry \cup {None}
      BY <1>3, <1>4
    <2> QED
      BY <1>1, <2>1
  <1>6. \A id \in Ids : Exists(id)' => Exists(id)
    BY <1>4 DEF Exists
  <1>7. NoForm \in Form /\ form' \in [AllForms -> Form]
    BY <1>1 DEF NoForm, Form
  <1>8. FormsFit'
    BY <1>1 DEF FormsFit, FormFits, NoForm, Updating, Opening
  <1>9. OneNamed'
    BY <1>6 DEF OneNamed, Ids
  <1>10. SettingUpPolls' /\ WrongCodeIsAnnounced'
    BY <1>3, <1>6 DEF SettingUpPolls, SettingUp, WrongCodeIsAnnounced, Refused
  <1> QED
    BY <1>1, <1>5, <1>7, <1>8, <1>9, <1>10 DEF TypeOK

LEMMA ChangeCodeHolds ==
    ASSUME IInv, NEW code \in Codes, ChangeCode(code)
    PROVE  IInv'
  <1>1. /\ UNCHANGED <<entry, form, stale, closed>>
        /\ charger' \in Codes /\ changes' \in 0..MaxChanges
    BY EntryFlowAssumption DEF ChangeCode, IInv, TypeOK
  <1> QED
    BY <1>1 DEF IInv, TypeOK, OneNamed, FormsFit, FormFits, SettingUpPolls,
                SettingUp, WrongCodeIsAnnounced, Refused, Exists, Asking

-----------------------------------------------------------------------------
(***************************************************************************)
(* Steps of the forms                                                      *)
(***************************************************************************)

\* A form changes and the entries stay: the invariant asks only that the form fits
\* and that a refused entry remains announced.
LEMMA FormKeeps ==
    ASSUME IInv, NEW f \in AllForms, NEW g \in Form, FormFits(f, g),
           form' = [form EXCEPT ![f] = g],
           UNCHANGED <<charger, changes, entry, stale>>, closed' \subseteq Ids,
           \A id \in Ids : Refused(id) =>
             Asking(id)' # {} \/ entry[id].reload \/ id \in closed'
    PROVE  IInv'
  <1> USE DEF IInv
  <1>1. form \in [AllForms -> Form]
    BY DEF TypeOK
  <1>2. form' \in [AllForms -> Form]
    BY <1>1
  <1>3. FormsFit'
    <2>1. ASSUME NEW h \in AllForms
          PROVE  FormFits(h, form'[h])
      BY <1>1 DEF FormsFit
    <2>2. ASSUME NEW h \in AllForms
          PROVE  FormFits(h, form[h])'
      BY <2>1 DEF FormFits, Exists
    <2> QED
      BY <2>2 DEF FormsFit
  <1>4. WrongCodeIsAnnounced'
    BY DEF WrongCodeIsAnnounced, Refused, Exists
  <1> QED
    BY <1>2, <1>3, <1>4 DEF TypeOK, OneNamed, SettingUpPolls, SettingUp, Exists

\* A form that goes on asking for the code it asked for leaves the entry announced.
LEMMA StillAnnounced ==
    ASSUME IInv, NEW f \in AllForms, NEW g \in Form,
           form' = [form EXCEPT ![f] = g], closed' = closed,
           form[f].source \in Updating => g.source \in Updating /\ g.id = form[f].id
    PROVE  \A id \in Ids : Refused(id) =>
             Asking(id)' # {} \/ entry[id].reload \/ id \in closed'
  <1> SUFFICES ASSUME NEW id \in Ids, Refused(id)
               PROVE  Asking(id)' # {} \/ entry[id].reload \/ id \in closed'
    OBVIOUS
  <1>1. form \in [AllForms -> Form]
    BY DEF IInv, TypeOK
  <1>2. Asking(id) \subseteq Asking(id)'
    BY <1>1 DEF Asking
  <1> QED
    BY <1>2 DEF IInv, WrongCodeIsAnnounced

LEMMA OpenedFits ==
    ASSUME NEW source \in Opening \cup Updating, NEW id \in Ids \cup {None}
    PROVE  /\ Opened(source, id) \in Form
           /\ Opened(source, id).source = source /\ Opened(source, id).id = id
           /\ Opened(source, id).step = "form"
  BY DEF Opened, NoForm, Form, Opening, Updating

\* Without an entry under its unique id the charger has none with a unique id.
LEMMA NoNamedEntry ==
    ASSUME ~Exists(ExistingId)
    PROVE  ExistingId = "upper" /\ ~Exists("upper") /\ ~Exists("mixed")
  BY DEF ExistingId

LEMMA DiscoverHolds ==
    ASSUME IInv, NEW f \in Forms, Discover(f)
    PROVE  IInv'
  <1> DEFINE g == Opened("bluetooth", ExistingId)
  <1>1. f \in AllForms
    BY DEF AllForms
  <1>2. ExistingId = "upper" /\ ~Exists("upper") /\ ~Exists("mixed")
    BY NoNamedEntry DEF Discover
  <1>3. g \in Form /\ g.source = "bluetooth" /\ g.id = "upper" /\ g.step = "form"
    BY <1>2, OpenedFits DEF Ids, Opening
  <1>4. FormFits(f, g)
    BY <1>2, <1>3 DEF FormFits, Updating
  <1>5. form' = [form EXCEPT ![f] = g] /\ UNCHANGED <<charger, changes, entry, stale, closed>>
    BY DEF Discover
  <1> HIDE DEF g
  <1>6. form[f].source \notin Updating
    BY DEF Discover, NoForm, Updating
  <1>7. \A j \in Ids : Refused(j) => Asking(j)' # {} \/ entry[j].reload \/ j \in closed'
    BY <1>1, <1>3, <1>5, <1>6, StillAnnounced
  <1> QED
    BY <1>1, <1>3, <1>4, <1>5, <1>7, FormKeeps DEF IInv, TypeOK

LEMMA OpenFormHolds ==
    ASSUME IInv, NEW f \in Forms, OpenForm(f)
    PROVE  IInv'
  <1>1. f \in AllForms /\ form[f].source \notin Updating
    BY DEF AllForms, OpenForm, NoForm, Updating
  <1>2. PICK source \in {"user", "reconfigure"}, id \in Ids \cup {None} :
          /\ form' = [form EXCEPT ![f] = Opened(source, id)]
          /\ source = "user" => id = None
          /\ source = "reconfigure" => id \in Ids /\ Exists(id)
    BY DEF OpenForm
  <1> DEFINE g == Opened(source, id)
  <1>3. g \in Form /\ g.source = source /\ g.id = id /\ g.step = "form"
    BY OpenedFits DEF Opening, Updating
  <1>4. FormFits(f, g)
    BY <1>2, <1>3, FormsAssumption DEF FormFits, Updating, Opening
  <1>5. form' = [form EXCEPT ![f] = g] /\ UNCHANGED <<charger, changes, entry, stale, closed>>
    BY <1>2 DEF OpenForm
  <1> HIDE DEF g
  <1>6. \A j \in Ids : Refused(j) => Asking(j)' # {} \/ entry[j].reload \/ j \in closed'
    BY <1>1, <1>3, <1>5, StillAnnounced
  <1> QED
    BY <1>1, <1>3, <1>4, <1>5, <1>6, FormKeeps DEF IInv, TypeOK

LEMMA SubmitHolds ==
    ASSUME IInv, NEW f \in AllForms, NEW code \in Codes, Submit(f, code)
    PROVE  IInv'
  <1> DEFINE old == form[f]
  <1> DEFINE g == IF old.source \in Updating
                  THEN [old EXCEPT !.step = "validating", !.code = code]
                  ELSE IF Exists(ExistingId) THEN NoForm
                  ELSE [old EXCEPT !.step = "validating", !.code = code, !.id = ExistingId]
  <1>1. old \in Form /\ FormFits(f, old) /\ old # NoForm
    BY DEF Submit, IInv, TypeOK, FormsFit
  <1>2. form' = [form EXCEPT ![f] = g] /\ UNCHANGED <<charger, changes, entry, stale, closed>>
    BY DEF Submit
  <1>3. /\ g \in Form /\ FormFits(f, g)
        /\ old.source \in Updating => g.source \in Updating /\ g.id = old.id
    <2>1. CASE old.source \in Updating
      <3>1. /\ g = [old EXCEPT !.step = "validating", !.code = code]
            /\ old.id \in Ids /\ Exists(old.id) /\ (f \in Ids => old.id = f)
        BY <1>1, <2>1 DEF FormFits
      <3>2. /\ g \in Form /\ g.source = old.source /\ g.id = old.id
            /\ g.step = "validating" /\ g.code = code
        BY <1>1, <3>1 DEF Form
      <3> QED
        BY <2>1, <3>1, <3>2, NoneAssumption DEF FormFits, Updating, Opening
    <2>2. CASE old.source \notin Updating /\ Exists(ExistingId)
      BY <2>2 DEF NoForm, Form, FormFits, Updating, Opening
    <2>3. CASE old.source \notin Updating /\ ~Exists(ExistingId)
      <3>1. ExistingId = "upper" /\ ~Exists("upper") /\ ~Exists("mixed")
        BY <2>3, NoNamedEntry
      <3>2. g = [old EXCEPT !.step = "validating", !.code = code, !.id = "upper"]
        BY <2>3, <3>1
      <3>3. /\ g \in Form /\ g.source = old.source /\ g.id = "upper"
            /\ g.step = "validating" /\ g.code = code
        BY <1>1, <3>2 DEF Form, Ids
      <3>4. old.source \in Opening
        BY <1>1, <2>3 DEF FormFits, Form
      <3> QED
        BY <2>3, <3>1, <3>3, <3>4, NoneAssumption DEF FormFits, Opening, Ids
    <2> QED
      BY <2>1, <2>2, <2>3
  <1> HIDE DEF g
  <1>4. \A j \in Ids : Refused(j) => Asking(j)' # {} \/ entry[j].reload \/ j \in closed'
    BY <1>2, <1>3, StillAnnounced
  <1> QED
    BY <1>2, <1>3, <1>4, FormKeeps DEF IInv, TypeOK

LEMMA RefuseHolds ==
    ASSUME IInv, NEW f \in AllForms, Refuse(f)
    PROVE  IInv'
  <1> DEFINE old == form[f]
  <1> DEFINE g == [old EXCEPT !.step = "form", !.code = None]
  <1>1. old \in Form /\ FormFits(f, old) /\ old.step = "validating"
    BY DEF Refuse, IInv, TypeOK, FormsFit
  <1>2. g \in Form /\ g.source = old.source /\ g.id = old.id /\ g.step = "form"
    BY <1>1 DEF Form
  <1>3. old.source # "none"
    BY <1>1, NoneAssumption, EntryFlowAssumption DEF FormFits, NoForm
  <1>4. FormFits(f, g)
    BY <1>1, <1>2, <1>3 DEF FormFits
  <1>5. form' = [form EXCEPT ![f] = g] /\ UNCHANGED <<charger, changes, entry, stale, closed>>
    BY DEF Refuse, IInv, TypeOK
  <1> HIDE DEF g
  <1>6. \A j \in Ids : Refused(j) => Asking(j)' # {} \/ entry[j].reload \/ j \in closed'
    BY <1>2, <1>5, StillAnnounced
  <1> QED
    BY <1>2, <1>4, <1>5, <1>6, FormKeeps DEF IInv, TypeOK

LEMMA DismissHolds ==
    ASSUME IInv, NEW f \in AllForms, Dismiss(f)
    PROVE  IInv'
  <1>1. /\ form \in [AllForms -> Form] /\ form' = [form EXCEPT ![f] = NoForm]
        /\ closed' = closed \cup {id \in Ids : f \in Asking(id) /\ Refused(id)}
        /\ UNCHANGED <<charger, changes, entry, stale>>
    BY DEF Dismiss, IInv, TypeOK
  <1>2. closed' \subseteq Ids
    BY <1>1 DEF IInv, TypeOK
  <1>3. NoForm \in Form /\ FormFits(f, NoForm)
    BY DEF NoForm, Form, FormFits, Updating, Opening
  <1>4. ASSUME NEW id \in Ids, Refused(id)
        PROVE  Asking(id)' # {} \/ entry[id].reload \/ id \in closed'
    <2>1. CASE f \in Asking(id)
      BY <1>1, <1>4, <2>1
    <2>2. CASE f \notin Asking(id)
      <3>1. Asking(id) \subseteq Asking(id)'
        BY <1>1, <2>2 DEF Asking
      <3>2. id \in closed => id \in closed'
        BY <1>1
      <3> QED
        BY <1>4, <3>1, <3>2 DEF IInv, WrongCodeIsAnnounced
    <2> QED
      BY <2>1, <2>2
  <1> QED
    BY <1>1, <1>2, <1>3, <1>4, FormKeeps

\* The first form whose code is accepted creates the only entry with a unique id.
LEMMA CreateHolds ==
    ASSUME IInv, NEW f \in AllForms, Create(f)
    PROVE  IInv'
  <1> USE DEF IInv
  <1> DEFINE e == NewEntry(form[f].code)
  <1>1. /\ entry \in [Ids -> Entry \cup {None}] /\ form \in [AllForms -> Form]
        /\ FormFits(f, form[f]) /\ form[f].source \in Opening
        /\ form[f].step = "validating" /\ form[f].code \in Codes
    BY DEF TypeOK, FormsFit, FormFits, Create, Validated
  <1>2. form[f].id = "upper" /\ form[f].id \in Ids /\ ~Exists("upper") /\ ~Exists("mixed")
    BY <1>1 DEF FormFits, Ids
  <1>3. /\ entry' = [entry EXCEPT !["upper"] = e]
        /\ form' = [h \in AllForms |-> IF form[h].id = "upper" THEN NoForm ELSE form[h]]
        /\ charger' = charger /\ changes' = changes /\ stale' = stale /\ closed' = closed
    BY <1>2 DEF Create
  <1>4. e \in Entry /\ e.state = "setup" /\ e.polling
    BY <1>1, NewIsEntry
  <1> HIDE DEF e
  <1>5. /\ entry' \in [Ids -> Entry \cup {None}] /\ entry'["upper"] = e
        /\ \A id \in Ids : id # "upper" => entry'[id] = entry[id]
    BY <1>1, <1>2, <1>3, <1>4
  <1>6. ~Exists("mixed")' /\ \A id \in Ids : Exists(id) => Exists(id)'
    BY <1>2, <1>4, <1>5, NoneAssumption DEF Exists, Ids
  <1>7. NoForm \in Form
    BY DEF NoForm, Form
  <1>8. form' \in [AllForms -> Form]
    BY <1>1, <1>3, <1>7
  <1>9. FormsFit'
    <2> SUFFICES ASSUME NEW h \in AllForms
                 PROVE  FormFits(h, form[h])'
      BY DEF FormsFit
    <2>1. CASE form'[h] = NoForm
      BY <2>1 DEF FormFits, NoForm, Updating, Opening
    <2>2. CASE form[h].id # "upper" /\ form'[h] = form[h]
      <3>1. FormFits(h, form[h])
        BY DEF FormsFit
      <3>2. form[h].source \in Opening => form[h].id = None
        BY <2>2, <3>1 DEF FormFits
      <3>3. form'[h].source \in Updating => form'[h].id \in Ids /\ Exists(form[h].id)'
        BY <1>6, <2>2, <3>1 DEF FormFits, Exists
      <3> QED
        BY <2>2, <3>1, <3>2, <3>3 DEF FormFits
    <2> QED
      BY <1>3, <2>1, <2>2
  <1>10. WrongCodeIsAnnounced'
    <2> SUFFICES ASSUME NEW id \in Ids, Refused(id)'
                 PROVE  (Asking(id) # {} \/ entry[id].reload \/ id \in closed)'
      BY DEF WrongCodeIsAnnounced
    <2>1. id # "upper"
      BY <1>4, <1>5 DEF Refused
    <2>2. Refused(id) /\ entry'[id] = entry[id]
      BY <1>5, <2>1 DEF Refused, Exists
    <2>3. \A h \in Asking(id) : h \in Asking(id)'
      BY <1>3, <2>1 DEF Asking
    <2> QED
      BY <1>3, <2>2, <2>3 DEF WrongCodeIsAnnounced
  <1>11. OneNamed' /\ SettingUpPolls'
    BY <1>4, <1>5, <1>6 DEF OneNamed, SettingUpPolls, SettingUp, Exists
  <1> QED
    BY <1>3, <1>5, <1>8, <1>9, <1>10, <1>11 DEF TypeOK

LEMMA UpdateHolds ==
    ASSUME IInv, NEW f \in AllForms, Update(f)
    PROVE  IInv'
  <1> USE DEF IInv
  <1> DEFINE id == form[f].id
  <1> DEFINE e == [entry[id] EXCEPT !.code = form[f].code, !.reload = TRUE]
  <1>1. /\ entry \in [Ids -> Entry \cup {None}] /\ form \in [AllForms -> Form]
        /\ id \in Ids /\ Exists(id) /\ entry[id] \in Entry /\ form[f].code \in Codes
    BY DEF TypeOK, FormsFit, FormFits, Update, Validated, Exists
  <1>2. /\ entry' = [entry EXCEPT ![id] = e] /\ form' = [form EXCEPT ![f] = NoForm]
        /\ charger' = charger /\ changes' = changes /\ stale' = stale /\ closed' = closed
    BY DEF Update
  <1>3. /\ e \in Entry /\ e.reload /\ e.state = entry[id].state
        /\ e.polling = entry[id].polling
    BY <1>1 DEF Entry
  <1> HIDE DEF e, id
  <1>4. entry' \in [Ids -> Entry \cup {None}] /\ entry'[id] = e
    BY <1>1, <1>2, <1>3
  <1>5. \A j \in Ids : (Exists(j)' <=> Exists(j)) /\ (j # id => entry'[j] = entry[j])
    BY <1>1, <1>2, <1>3, NoneAssumption DEF Exists
  <1>6. NoForm \in Form /\ form' \in [AllForms -> Form]
    BY <1>1, <1>2 DEF NoForm, Form
  <1>7. FormsFit'
    <2> SUFFICES ASSUME NEW h \in AllForms
                 PROVE  FormFits(h, form[h])'
      BY DEF FormsFit
    <2>1. CASE form'[h] = NoForm
      BY <2>1 DEF FormFits, NoForm, Updating, Opening
    <2>2. CASE form'[h] = form[h]
      <3>1. (Exists("upper")' <=> Exists("upper")) /\ (Exists("mixed")' <=> Exists("mixed"))
        BY <1>5 DEF Ids
      <3> QED
        BY <1>5, <2>2, <3>1 DEF FormsFit, FormFits
    <2> QED
      BY <1>1, <1>2, <2>1, <2>2
  <1>8. WrongCodeIsAnnounced'
    <2> SUFFICES ASSUME NEW j \in Ids, Refused(j)'
                 PROVE  (Asking(j) # {} \/ entry[j].reload \/ j \in closed)'
      BY DEF WrongCodeIsAnnounced
    <2>1. CASE j = id
      BY <1>3, <1>4, <2>1
    <2>2. CASE j # id
      <3>1. Refused(j) /\ entry'[j] = entry[j]
        BY <1>5, <2>2 DEF Refused
      <3>2. \A h \in Asking(j) : h # f
        BY <2>2 DEF Asking, id
      <3>3. \A h \in Asking(j) : h \in Asking(j)'
        BY <1>1, <1>2, <3>2 DEF Asking
      <3> QED
        BY <1>2, <3>1, <3>3 DEF WrongCodeIsAnnounced
    <2> QED
      BY <2>1, <2>2
  <1>9. SettingUpPolls'
    BY <1>1, <1>3, <1>4, <1>5 DEF SettingUpPolls, SettingUp
  <1>10. OneNamed'
    BY <1>5 DEF OneNamed, Ids
  <1> QED
    BY <1>2, <1>4, <1>6, <1>7, <1>8, <1>9, <1>10 DEF TypeOK

LEMMA InitHolds == Init => IInv
  <1> SUFFICES ASSUME Init
               PROVE  IInv
    OBVIOUS
  <1>1. NewEntry(charger) \in Entry /\ NewEntry(charger).state = "setup"
        /\ NewEntry(charger).polling
    BY NewIsEntry DEF Init
  <1>2. /\ entry \in [Ids -> Entry \cup {None}]
        /\ \A id \in Ids : Exists(id) => id # "upper" /\ entry[id] = NewEntry(charger)
    BY <1>1 DEF Init, Exists
  <1>3. NoForm \in Form /\ \A f \in AllForms : FormFits(f, NoForm)
    BY DEF NoForm, Form, FormFits, Updating, Opening
  <1>4. form \in [AllForms -> Form] /\ FormsFit
    BY <1>3 DEF Init, FormsFit
  <1>5. OneNamed /\ SettingUpPolls /\ WrongCodeIsAnnounced
    BY <1>1, <1>2 DEF OneNamed, Ids, SettingUpPolls, SettingUp,
                      WrongCodeIsAnnounced, Refused
  <1>6. /\ charger \in Codes /\ changes \in 0..MaxChanges
        /\ stale \subseteq Ids \X Codes /\ closed \subseteq Ids
    <2>1. changes = 0 /\ charger \in Codes /\ stale = {} /\ closed = {}
      BY DEF Init
    <2>2. changes \in 0..MaxChanges
      BY <2>1, EntryFlowAssumption
    <2> QED
      BY <2>1, <2>2
  <1> QED
    BY <1>2, <1>4, <1>5, <1>6 DEF IInv, TypeOK

LEMMA StepHolds == IInv /\ [Next]_flow => IInv'
  <1> SUFFICES ASSUME IInv, [Next]_flow
               PROVE  IInv'
    OBVIOUS
  <1>1. CASE FormStep
    <2>1. ASSUME NEW f \in Forms, Discover(f) \/ OpenForm(f)
          PROVE  IInv'
      BY <2>1, DiscoverHolds, OpenFormHolds
    <2>2. ASSUME NEW f \in AllForms,
                 \/ \E code \in Codes : Submit(f, code)
                 \/ Refuse(f) \/ Create(f) \/ Update(f) \/ Dismiss(f)
          PROVE  IInv'
      BY <2>2, SubmitHolds, RefuseHolds, CreateHolds, UpdateHolds, DismissHolds
    <2> QED
      BY <1>1, <2>1, <2>2 DEF FormStep
  <1>2. CASE LifeStep
    <2>1. ASSUME NEW id \in Ids,
                 FailSetup(id) \/ DeferSetup(id) \/ Retry(id) \/ FinishUnload(id)
          PROVE  IInv'
      BY <2>1, FailSetupHolds, DeferSetupHolds, RetryHolds
    <2>2. ASSUME NEW id \in Ids,
                 \/ Refresh(id) \/ SyncNotice(id) \/ RequestReload(id)
          PROVE  IInv'
      BY <2>2, RefreshHolds, SyncNoticeHolds, RequestReloadHolds
    <2>3. ASSUME NEW id \in Ids,
                 ActionRefused(id) \/ \E code \in Codes : StaleEnds(id, code)
          PROVE  IInv'
      <3>1. charger \in Codes
        BY DEF IInv, TypeOK
      <3> QED
        BY <2>3, <3>1, RefusalHolds
    <2> QED
      BY <1>2, <2>1, <2>2, <2>3 DEF LifeStep
  <1>3. CASE LoadStep
    BY <1>3, LoadHolds, ReloadHolds, RemoveHolds DEF LoadStep
  <1>4. CASE Restart
    BY <1>4, RestartHolds
  <1>5. CASE \E code \in Codes : ChangeCode(code)
    BY <1>5, ChangeCodeHolds
  <1>6. CASE UNCHANGED flow
    BY <1>6 DEF flow, IInv, TypeOK, OneNamed, FormsFit, FormFits,
                SettingUpPolls, SettingUp, WrongCodeIsAnnounced, Refused, Exists, Asking
  <1> QED
    BY <1>1, <1>2, <1>3, <1>4, <1>5, <1>6 DEF Next

-----------------------------------------------------------------------------
(***************************************************************************)
(* A step that changes a code                                              *)
(***************************************************************************)

CodeChangeIsChecked(id) ==
    (Exists(id) /\ Exists(id)' /\ entry'[id].code # entry[id].code) =>
        /\ entry'[id].code = charger
        /\ \E f \in Asking(id) : form[f].code = charger /\ form'[f] = NoForm

\* The life of an entry leaves its code alone.
LEMMA LifeKeepsCode ==
    ASSUME TypeOK, LifeStep, NEW id \in Ids, Exists(id), Exists(id)'
    PROVE  entry'[id].code = entry[id].code
  <1>1. entry \in [Ids -> Entry \cup {None}] /\ entry[id] \in Entry
    BY DEF TypeOK, Exists
  <1>2. PICK j \in Ids :
          \/ FailSetup(j) \/ DeferSetup(j) \/ Retry(j)
          \/ Refresh(j) \/ ActionRefused(j) \/ SyncNotice(j)
          \/ RequestReload(j) \/ FinishUnload(j)
          \/ \E code \in Codes : StaleEnds(j, code)
    BY DEF LifeStep
  <1>3. CASE j # id
    BY <1>1, <1>2, <1>3 DEF FailSetup, DeferSetup, Retry, Refresh, ActionRefused,
        SyncNotice, RequestReload, FinishUnload, StaleEnds
  <1>4. CASE FailSetup(id)
    BY <1>1, <1>4 DEF FailSetup, Entry
  <1>5. CASE DeferSetup(id)
    BY <1>1, <1>5 DEF DeferSetup, Entry
  <1>6. CASE Retry(id) \/ FinishUnload(id)
    BY <1>1, <1>6, StartingIsEntry DEF Retry, FinishUnload
  <1>7. CASE Refresh(id)
    BY <1>1, <1>7 DEF Refresh, Entry
  <1>8. CASE ActionRefused(id) \/ \E code \in Codes : StaleEnds(id, code)
    BY <1>8 DEF ActionRefused, StaleEnds
  <1>9. CASE SyncNotice(id)
    BY <1>1, <1>9 DEF SyncNotice, Entry
  <1>10. CASE RequestReload(id)
    BY <1>1, <1>10 DEF RequestReload, Entry
  <1> QED
    BY <1>2, <1>3, <1>4, <1>5, <1>6, <1>7, <1>8, <1>9, <1>10

LEMMA LoadKeepsCode ==
    ASSUME TypeOK, LoadStep \/ Restart, NEW id \in Ids, Exists(id), Exists(id)'
    PROVE  entry'[id].code = entry[id].code
  <1>1. entry \in [Ids -> Entry \cup {None}] /\ entry[id] \in Entry
    BY DEF TypeOK, Exists
  <1>2. CASE Restart
    <2>1. entry'[id] = [Starting(entry[id]) EXCEPT !.reload = FALSE]
      BY <1>2 DEF Restart
    <2> QED
      BY <1>1, <2>1, StartingIsEntry
  <1>3. CASE LoadStep
    <2>1. PICK j \in Ids : Load(j) \/ Reload(j) \/ Remove(j)
      BY <1>3 DEF LoadStep
    <2>2. CASE j # id
      BY <1>1, <2>1, <2>2 DEF Load, Reload, Remove
    <2>3. CASE Load(id)
      BY <1>1, <2>3 DEF Load, Entry
    <2>4. CASE Reload(id) /\ Loaded(id)
      BY <1>1, <2>4 DEF Reload, Entry
    <2>5. CASE Reload(id) /\ ~Loaded(id)
      <3>1. entry'[id] = [Starting(entry[id]) EXCEPT !.reload = FALSE]
        BY <1>1, <2>5 DEF Reload
      <3> QED
        BY <1>1, <3>1, StartingIsEntry
    <2>6. CASE Remove(id)
      BY <1>1, <2>6 DEF Remove, Exists
    <2> QED
      BY <2>1, <2>2, <2>3, <2>4, <2>5, <2>6
  <1> QED
    BY <1>2, <1>3

LEMMA FormChangesAreChecked ==
    ASSUME IInv, FormStep, NEW id \in Ids
    PROVE  CodeChangeIsChecked(id)
  <1> SUFFICES ASSUME Exists(id), Exists(id)', entry'[id].code # entry[id].code
               PROVE  /\ entry'[id].code = charger
                      /\ \E f \in Asking(id) : form[f].code = charger /\ form'[f] = NoForm
    BY DEF CodeChangeIsChecked
  <1>1. /\ entry \in [Ids -> Entry \cup {None}] /\ entry[id] \in Entry
        /\ form \in [AllForms -> Form]
    BY DEF IInv, TypeOK, Exists
  <1>2. PICK f \in AllForms : Create(f) \/ Update(f)
    BY DEF FormStep, AllForms, Discover, OpenForm, Submit, Refuse, Dismiss
  <1>3. CASE Create(f)
    <2>1. form[f].id = "upper" /\ ~Exists("upper")
      BY <1>3 DEF IInv, FormsFit, FormFits, Create, Validated
    <2> QED
      BY <1>1, <1>3, <2>1 DEF Create
  <1>4. CASE Update(f)
    <2>1. /\ entry' = [entry EXCEPT ![form[f].id] =
                         [@ EXCEPT !.code = form[f].code, !.reload = TRUE]]
          /\ form' = [form EXCEPT ![f] = NoForm]
          /\ form[f].source \in Updating /\ form[f].code = charger
      BY <1>4 DEF Update, Validated
    <2>2. form[f].id = id
      BY <1>1, <2>1
    <2>3. entry'[id].code = charger
      BY <1>1, <2>1, <2>2 DEF Entry
    <2>4. f \in Asking(id) /\ form'[f] = NoForm
      BY <1>1, <2>1, <2>2 DEF Asking
    <2> QED
      BY <2>1, <2>3, <2>4
  <1> QED
    BY <1>2, <1>3, <1>4

LEMMA ChangesAreChecked ==
    ASSUME IInv, [Next]_flow
    PROVE  \A id \in Ids : CodeChangeIsChecked(id)
  <1> SUFFICES ASSUME NEW id \in Ids
               PROVE  CodeChangeIsChecked(id)
    OBVIOUS
  <1>1. CASE FormStep
    BY <1>1, FormChangesAreChecked
  <1>2. CASE LifeStep
    BY <1>2, LifeKeepsCode DEF CodeChangeIsChecked, IInv
  <1>3. CASE LoadStep \/ Restart
    BY <1>3, LoadKeepsCode DEF CodeChangeIsChecked, IInv
  <1>4. CASE UNCHANGED entry
    BY <1>4 DEF CodeChangeIsChecked
  <1>5. CASE \E code \in Codes : ChangeCode(code)
    BY <1>4, <1>5 DEF ChangeCode
  <1>6. CASE UNCHANGED flow
    BY <1>4, <1>6 DEF flow
  <1> QED
    BY <1>1, <1>2, <1>3, <1>5, <1>6 DEF Next

-----------------------------------------------------------------------------
\* The forms and the entry fit together in every reachable state.
THEOREM InvariantHolds == Spec => []IInv
  BY InitHolds, StepHolds, PTL DEF Spec

\* Every reachable state of the forms and the entry is well typed.
THEOREM TypeCorrect == Spec => []TypeOK
  <1>1. IInv => TypeOK
    BY DEF IInv
  <1> QED
    BY <1>1, InvariantHolds, PTL

\* Manual set-up that races with discovery leaves one entry, as the comment in
\* async_step_user expects, and replaces none, for any number of forms.  An older entry
\* without a unique id is not counted: the forms do not see it.
THEOREM ChargerHasOneEntry == Spec => []OneEntryPerCharger
  <1>1. IInv => OneEntryPerCharger
    BY DEF IInv, OneNamed, FormsFit, FormFits, OneEntryPerCharger, Ids
  <1> QED
    BY <1>1, InvariantHolds, PTL

\* An entry that a wrong code stopped is announced to the user, unless the user
\* closed the form that stood for it.
THEOREM RefusalIsAnnounced == Spec => []WrongCodeIsAnnounced
  <1>1. IInv => WrongCodeIsAnnounced
    BY DEF IInv
  <1> QED
    BY <1>1, InvariantHolds, PTL

\* The code of an entry changes only to one the charger has just accepted.
THEOREM CodesAreChecked == Spec => CodeChangesAreChecked
  <1>1. IInv /\ [Next]_flow => [\A id \in Ids : CodeChangeIsChecked(id)]_flow
    BY ChangesAreChecked
  <1>2. Spec => [][\A id \in Ids : CodeChangeIsChecked(id)]_flow
    BY <1>1, InvariantHolds, PTL DEF Spec
  <1> QED
    BY <1>2 DEF CodeChangesAreChecked, CodeChangeIsChecked

-----------------------------------------------------------------------------
(***************************************************************************)
(* The stored code and the client.  CodeTakesEffect promises that a code   *)
(* that was stored is tried in the end; what must hold for that at every   *)
(* moment is that an entry whose client still uses another code has the    *)
(* set-up that makes a new client ahead of it.                             *)
(***************************************************************************)

\* An entry that neither starts anew nor is to be reloaded runs with its own code.
CodeInUse(e) ==
    e.state \in {"setup", "loaded", "error"} /\ ~e.reload => e.client = e.code

ClientFits == \A id \in Ids : Exists(id) => CodeInUse(entry[id])

\* How a step may change an entry: code, client and reload stay and the entry gets no
\* further than it was; it starts with its code; or a reload is due.
EntryMoves(e, d) ==
    \/ /\ d.code = e.code /\ d.client = e.client /\ d.reload = e.reload
       /\ d.state \in {"setup", "loaded", "error"} =>
             e.state \in {"setup", "loaded", "error"}
    \/ d.client = d.code
    \/ d.reload
    \/ d.state \in {"retry", "unloading"}

LEMMA LifeMoves ==
    ASSUME TypeOK, LifeStep \/ LoadStep \/ Restart, NEW id \in Ids, Exists(id)'
    PROVE  Exists(id) /\ EntryMoves(entry[id], entry'[id])
  <1> USE DEF Exists, EntryMoves
  <1>1. entry \in [Ids -> Entry \cup {None}]
    BY DEF TypeOK
  <1>2. entry[id] # None => /\ Starting(entry[id]).client = Starting(entry[id]).code
                            /\ [Starting(entry[id]) EXCEPT !.reload = FALSE].client
                                 = [Starting(entry[id]) EXCEPT !.reload = FALSE].code
    BY <1>1 DEF Starting, Entry
  <1>3. ASSUME NEW i \in Ids,
               \/ FailSetup(i) \/ DeferSetup(i) \/ Refresh(i) \/ SyncNotice(i)
               \/ RequestReload(i) \/ Load(i)
        PROVE  Exists(id) /\ EntryMoves(entry[id], entry'[id])
    BY <1>1, <1>3, NoneAssumption
       DEF FailSetup, DeferSetup, Refresh, SyncNotice, RequestReload, Load, Loaded,
           SettingUp, Entry
  <1>4. ASSUME NEW i \in Ids, Retry(i) \/ FinishUnload(i)
        PROVE  Exists(id) /\ EntryMoves(entry[id], entry'[id])
    BY <1>1, <1>2, <1>4 DEF Retry, FinishUnload
  <1>5. ASSUME NEW i \in Ids, Reload(i)
        PROVE  Exists(id) /\ EntryMoves(entry[id], entry'[id])
    <2>1. CASE Loaded(i)
      BY <1>1, <1>5, <2>1 DEF Reload, Loaded, Settled, Entry
    <2>2. CASE ~Loaded(i)
      BY <1>1, <1>2, <1>5, <2>2 DEF Reload, Settled
    <2> QED
      BY <2>1, <2>2
  <1>6. ASSUME NEW i \in Ids, Remove(i)
        PROVE  Exists(id) /\ EntryMoves(entry[id], entry'[id])
    BY <1>1, <1>6 DEF Remove
  <1>7. CASE entry' = entry
    BY <1>7
  <1>8. CASE Restart
    <2>1. entry'[id] = IF entry[id] # None
                       THEN [Starting(entry[id]) EXCEPT !.reload = FALSE] ELSE None
      BY <1>8 DEF Restart
    <2> QED
      BY <1>2, <2>1
  <1> QED
    BY <1>3, <1>4, <1>5, <1>6, <1>7, <1>8
       DEF LifeStep, LoadStep, ActionRefused, StaleEnds

LEMMA ClientKeeps == IInv /\ ClientFits /\ [Next]_flow => ClientFits'
  <1> SUFFICES ASSUME IInv, ClientFits, [Next]_flow, NEW id \in Ids, Exists(id)'
               PROVE  CodeInUse(entry'[id])
    BY DEF ClientFits, CodeInUse, Exists
  <1> USE DEF Exists, CodeInUse
  <1>1. entry \in [Ids -> Entry \cup {None}] /\ TypeOK
    BY DEF IInv, TypeOK
  <1>2. CASE entry'[id] = entry[id]
    BY <1>2 DEF ClientFits
  <1>3. CASE LifeStep \/ LoadStep \/ Restart
    <2>1. Exists(id) /\ EntryMoves(entry[id], entry'[id])
      BY <1>1, <1>3, LifeMoves
    <2> QED
      BY <2>1 DEF ClientFits, EntryMoves
  <1>4. ASSUME NEW f \in AllForms, Create(f)
        PROVE  CodeInUse(entry'[id])
    <2>1. NewEntry(form[f].code).client = NewEntry(form[f].code).code
      BY DEF NewEntry
    <2> QED
      BY <1>1, <1>2, <1>4, <2>1 DEF Create
  <1>5. ASSUME NEW f \in AllForms, Update(f)
        PROVE  CodeInUse(entry'[id])
    <2>1. FormFits(f, form[f]) /\ form[f].source \in Updating
      BY <1>5 DEF IInv, FormsFit, Update
    <2>2. form[f].id \in Ids /\ entry[form[f].id] \in Entry
      BY <1>1, <2>1 DEF FormFits
    <2>3. entry'[form[f].id].reload
      BY <1>1, <1>5, <2>2 DEF Update, Entry
    <2>4. id # form[f].id => entry'[id] = entry[id]
      BY <1>1, <1>5 DEF Update
    <2> QED
      BY <1>2, <2>3, <2>4
  <1>6. CASE UNCHANGED entry
    BY <1>2, <1>6
  <1>7. CASE FormStep
    <2>1. PICK f \in AllForms :
             \/ Discover(f) \/ OpenForm(f) \/ (\E code \in Codes : Submit(f, code))
             \/ Refuse(f) \/ Create(f) \/ Update(f) \/ Dismiss(f)
      BY <1>7 DEF FormStep
    <2>2. CASE Discover(f) \/ OpenForm(f) \/ Refuse(f) \/ Dismiss(f)
      BY <1>6, <2>2 DEF Discover, OpenForm, Refuse, Dismiss
    <2>3. CASE \E code \in Codes : Submit(f, code)
      BY <1>6, <2>3 DEF Submit
    <2> QED
      BY <1>4, <1>5, <2>1, <2>2, <2>3
  <1> QED
    BY <1>3, <1>6, <1>7 DEF Next, ChangeCode, flow

\* Safety half of CodeTakesEffect: as long as an entry's client uses another code than
\* the one stored, a reload is requested, or a retry or the end of an unload makes a new
\* client; no coordinator settles with a code that a form has replaced.
THEOREM NewCodeIsDue == Spec => []ClientFits
  <1>1. Init => ClientFits
    <2> SUFFICES ASSUME Init, NEW id \in Ids, Exists(id)
                 PROVE  CodeInUse(entry[id])
      BY DEF ClientFits
    <2>1. entry[id] = NewEntry(charger)
      BY DEF Init, Exists
    <2> QED
      BY <2>1 DEF NewEntry, CodeInUse
  <1> QED
    BY <1>1, ClientKeeps, InvariantHolds, PTL DEF Spec
=============================================================================
