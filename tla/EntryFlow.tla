----------------------------- MODULE EntryFlow -----------------------------
(***************************************************************************)
(* The config entries of one charger: the forms of config_flow.py that     *)
(* create it or change its security code, its set-up, unload and reload in *)
(* __init__.py, and the authentication errors of coordinator.py and        *)
(* errors.py that ask for a new code.                                      *)
(*                                                                         *)
(* Home Assistant runs the forms and the life of the entry: which forms    *)
(* are in progress, when a form that ends another one aborts it, when an   *)
(* entry is reloaded.  A form checks a code with a client of its own,      *)
(* while the loaded entry goes on polling with the old one.                *)
(***************************************************************************)
EXTENDS Naturals

CONSTANTS
    Forms,       \* forms the user or Bluetooth discovery opens
    Codes,       \* security codes
    MaxChanges,  \* how often the charger gets another code
    None         \* no entry, no code, no unique id

ASSUME EntryFlowAssumption ==
    /\ None \notin Codes
    /\ MaxChanges \in Nat

VARIABLES
    charger,   \* the code the charger accepts
    changes,   \* how often it was changed
    entry,     \* the config entries, by unique id
    form,      \* the forms in progress
    stale,     \* entries and codes of earlier loads' clients that still run an operation
    closed     \* history: entries whose form for a new code was closed while needed

flow == <<charger, changes, entry, form, stale, closed>>

-----------------------------------------------------------------------------
(***************************************************************************)
(* Types                                                                   *)
(***************************************************************************)

\* The unique id of an entry: the charger's address, upper-cased as this version
\* stores it or in mixed case as an older one did, or none at all, as an older one did.
Ids == {"upper", "mixed", "none"}

\* An entry has one form that asks for its new code, named as the entry.
ASSUME FormsAssumption == Forms \cap Ids = {}

AllForms == Forms \cup Ids

\* client: the code of the client that runs. polling stops on a wrong code.
Entry == [code: Codes, restart: BOOLEAN, client: Codes, polling: BOOLEAN,
          reload: BOOLEAN, state: {"setup", "loaded", "retry", "error", "unloading"}]

\* No entry and no unique id are told apart from one.
ASSUME NoneAssumption == None \notin Entry /\ None \notin Ids

Opening == {"bluetooth", "user"}

Updating == {"reauth", "reconfigure"}

NoForm == [source |-> "none", id |-> None, step |-> "form", code |-> None]

Form == [source: Opening \cup Updating \cup {"none"}, id: Ids \cup {None},
         step: {"form", "validating"}, code: Codes \cup {None}]

TypeOK ==
    /\ charger \in Codes
    /\ changes \in 0..MaxChanges
    /\ entry \in [Ids -> Entry \cup {None}]
    /\ form \in [AllForms -> Form]
    /\ stale \subseteq Ids \X Codes
    /\ closed \subseteq Ids

Exists(id) == entry[id] # None

\* Mutant of Starting: the client of the previous load is used again.
Starting_OldClient(e) == [e EXCEPT !.state = "setup", !.polling = TRUE]

\* Setting an entry up makes a client with the entry's code.
Starting(e) == [e EXCEPT !.state = "setup", !.client = e.code, !.polling = TRUE]

\* Mutant of NewEntry: the client is made later.
NewEntry_NoClient(code) ==
    [code |-> code, restart |-> FALSE, client |-> None, polling |-> TRUE,
     reload |-> FALSE, state |-> "setup"]

NewEntry(code) ==
    [code |-> code, restart |-> FALSE, client |-> code, polling |-> TRUE,
     reload |-> FALSE, state |-> "setup"]

\* No entry, or one that an older version made
Init ==
    /\ charger \in Codes
    /\ changes = 0
    /\ \E old \in {{}, {"mixed"}, {"none"}} :
         entry = [id \in Ids |-> IF id \in old THEN NewEntry(charger) ELSE None]
    /\ form = [f \in AllForms |-> NoForm]
    /\ stale = {}
    /\ closed = {}

-----------------------------------------------------------------------------
(***************************************************************************)
(* Forms                                                                   *)
(***************************************************************************)

Opened(source, id) == [NoForm EXCEPT !.source = source, !.id = id]

\* The forms that ask for a new code of an entry
Asking(id) == {f \in AllForms : form[f].source \in Updating /\ form[f].id = id}

\* Mutant of ExistingId: entries of older versions are not recognised.
ExistingId_Canonical == "upper"

\* _existing_unique_id: that of an entry with the same address, however written.  For
\* an entry that has none it is the address, which is not that entry's.
ExistingId == IF Exists("mixed") THEN "mixed" ELSE "upper"

\* Discovery opens one form for a charger that has no entry.
Discover(f) ==
    /\ form[f] = NoForm
    /\ \A g \in AllForms : form[g].id # ExistingId
    /\ ~Exists(ExistingId)
    /\ form' = [form EXCEPT ![f] = Opened("bluetooth", ExistingId)]
    /\ UNCHANGED <<charger, changes, entry, stale, closed>>

OpenForm(f) ==
    /\ form[f] = NoForm
    /\ \/ form' = [form EXCEPT ![f] = Opened("user", None)]
       \/ \E id \in Ids : /\ Exists(id)
                          /\ form' = [form EXCEPT ![f] = Opened("reconfigure", id)]
    /\ UNCHANGED <<charger, changes, entry, stale, closed>>

\* A form to set a charger up takes its unique id now and gives up when there is an
\* entry; another form that is in progress for it does not matter.
Submit(f, code) ==
    /\ form[f] # NoForm /\ form[f].step = "form"
    /\ form' = [form EXCEPT ![f] =
         IF form[f].source \in Updating
         THEN [@ EXCEPT !.step = "validating", !.code = code]
         ELSE IF Exists(ExistingId) THEN NoForm
         ELSE [@ EXCEPT !.step = "validating", !.code = code, !.id = ExistingId]]
    /\ UNCHANGED <<charger, changes, entry, stale, closed>>

\* The session fails, or the code is wrong: the form is shown again.
Refuse(f) ==
    /\ form[f].step = "validating"
    /\ form' = [form EXCEPT ![f].step = "form", ![f].code = None]
    /\ UNCHANGED <<charger, changes, entry, stale, closed>>

Validated(f) ==
    /\ form[f].step = "validating"
    /\ form[f].code = charger

\* The entry is created; other forms in progress for it are aborted.
Create(f) ==
    LET id == form[f].id IN
    /\ form[f].source \in Opening
    /\ Validated(f)
    /\ entry' = [entry EXCEPT ![id] = NewEntry(form[f].code)]
    /\ form' = [g \in AllForms |-> IF form[g].id = id THEN NoForm ELSE form[g]]
    /\ UNCHANGED <<charger, changes, stale, closed>>

\* The new code is stored beside what the entry holds and a reload is scheduled.
Update(f) ==
    LET id == form[f].id IN
    /\ form[f].source \in Updating
    /\ Validated(f)
    /\ entry' = [entry EXCEPT ![id] = [@ EXCEPT !.code = form[f].code, !.reload = TRUE]]
    /\ form' = [form EXCEPT ![f] = NoForm]
    /\ UNCHANGED <<charger, changes, stale, closed>>

\* The entry knows that its code is wrong.
Refused(id) ==
    /\ Exists(id)
    /\ \/ entry[id].state = "error"
       \/ entry[id].state = "loaded" /\ ~entry[id].polling

\* The user closes a form he opened; the others stay until they are answered.
Dismiss(f) ==
    /\ form[f].source \in {"user", "reconfigure"}
    /\ form' = [form EXCEPT ![f] = NoForm]
    /\ closed' = closed \cup {id \in Ids : f \in Asking(id) /\ Refused(id)}
    /\ UNCHANGED <<charger, changes, entry, stale>>

-----------------------------------------------------------------------------
(***************************************************************************)
(* The life of the entry                                                   *)
(***************************************************************************)

\* Mutant of AskForCode: any form that is open for the charger will do.
AskForCode_AnyForm(id) ==
    IF \E f \in AllForms : form[f] # NoForm
    THEN form
    ELSE [form EXCEPT ![id] = Opened("reauth", id)]

\* async_start_reauth: nothing happens while a form for a new code is open.
AskForCode(id) ==
    IF Asking(id) = {} THEN [form EXCEPT ![id] = Opened("reauth", id)] ELSE form

SettingUp(id) == Exists(id) /\ entry[id].state = "setup"

Loaded(id) == Exists(id) /\ entry[id].state = "loaded"

\* The first refresh of the new coordinator succeeds.
Load(id) ==
    /\ SettingUp(id)
    /\ entry[id].client = charger
    /\ entry' = [entry EXCEPT ![id] = [@ EXCEPT !.state = "loaded"]]
    /\ UNCHANGED <<charger, changes, form, stale, closed>>

\* The charger refuses the code.
FailSetup(id) ==
    /\ SettingUp(id)
    /\ entry[id].client # charger
    /\ entry' = [entry EXCEPT ![id] = [@ EXCEPT !.state = "error"]]
    /\ form' = AskForCode(id)
    /\ closed' = closed \ {id}
    /\ UNCHANGED <<charger, changes, stale>>

\* The charger is not reached.
DeferSetup(id) ==
    /\ SettingUp(id)
    /\ entry' = [entry EXCEPT ![id] = [@ EXCEPT !.state = "retry"]]
    /\ UNCHANGED <<charger, changes, form, stale, closed>>

Retry(id) ==
    /\ Exists(id) /\ entry[id].state = "retry" /\ ~entry[id].reload
    /\ entry' = [entry EXCEPT ![id] = Starting(@)]
    /\ UNCHANGED <<charger, changes, form, stale, closed>>

\* A refresh that reaches the charger: a wrong code ends the polling and asks for a
\* new one. A refresh that somebody requests also runs when the polling has ended.
Refresh(id) ==
    /\ Loaded(id)
    /\ entry' = [entry EXCEPT ![id] = [@ EXCEPT !.polling = (entry[id].client = charger)]]
    /\ form' = IF entry[id].client = charger THEN form ELSE AskForCode(id)
    /\ closed' = IF entry[id].client # charger /\ Asking(id) # {}
                 THEN closed ELSE closed \ {id}
    /\ UNCHANGED <<charger, changes, stale>>

Poll(id) == Loaded(id) /\ entry[id].polling /\ Refresh(id)

\* An action of the user or a service is refused.
ActionRefused(id) ==
    /\ Loaded(id)
    /\ entry[id].client # charger
    /\ form' = AskForCode(id)
    /\ closed' = IF Asking(id) # {} THEN closed ELSE closed \ {id}
    /\ UNCHANGED <<charger, changes, entry, stale>>

\* Mutant of SyncNotice: the coordinator writes its own copy of the entry.
SyncNotice_OwnCopy(id) ==
    /\ Loaded(id)
    /\ entry' = [entry EXCEPT ![id] =
                   [@ EXCEPT !.restart = ~entry[id].restart, !.code = entry[id].client]]
    /\ UNCHANGED <<charger, changes, form, stale, closed>>

\* The coordinator stores the restart notice in the entry beside the code, which a
\* form may just have changed.
SyncNotice(id) ==
    /\ Loaded(id)
    /\ entry' = [entry EXCEPT ![id] = [@ EXCEPT !.restart = ~entry[id].restart]]
    /\ UNCHANGED <<charger, changes, form, stale, closed>>

RequestReload(id) ==
    /\ Exists(id)
    /\ entry' = [entry EXCEPT ![id] = [@ EXCEPT !.reload = TRUE]]
    /\ UNCHANGED <<charger, changes, form, stale, closed>>

Settled(id) == Exists(id) /\ entry[id].state \in {"loaded", "retry", "error"}

\* A reload waits for a set-up or an unload that runs. An action of the old
\* coordinator may go on.
Reload(id) ==
    /\ Settled(id)
    /\ entry[id].reload
    /\ entry' = [entry EXCEPT ![id] =
         IF Loaded(id) THEN [@ EXCEPT !.state = "unloading", !.reload = FALSE]
         ELSE [Starting(@) EXCEPT !.reload = FALSE]]
    /\ \/ stale' = stale
       \/ Loaded(id) /\ stale' = stale \cup {<<id, entry[id].client>>}
    /\ closed' = closed \ {id}
    /\ UNCHANGED <<charger, changes, form>>

FinishUnload(id) ==
    /\ Exists(id) /\ entry[id].state = "unloading"
    /\ entry' = [entry EXCEPT ![id] = Starting(@)]
    /\ UNCHANGED <<charger, changes, form, stale, closed>>

\* Only the forms for a new code of the entry go with it.
Remove(id) ==
    /\ Settled(id)
    /\ entry' = [entry EXCEPT ![id] = None]
    /\ form' = [f \in AllForms |-> IF f \in Asking(id) THEN NoForm ELSE form[f]]
    /\ stale' = {s \in stale : s[1] # id}
    /\ closed' = closed \ {id}
    /\ UNCHANGED <<charger, changes>>

\* Home Assistant restarts: forms and clients are gone, entries are kept.
Restart ==
    /\ entry' = [id \in Ids |-> IF Exists(id) THEN [Starting(entry[id]) EXCEPT !.reload = FALSE]
                                ELSE None]
    /\ form' = [f \in AllForms |-> NoForm]
    /\ stale' = {}
    /\ closed' = {}
    /\ UNCHANGED <<charger, changes>>

\* An action of an earlier load ends; a wrong code asks for a new one.
StaleEnds(id, code) ==
    /\ Exists(id)
    /\ <<id, code>> \in stale
    /\ stale' = stale \ {<<id, code>>}
    /\ form' = IF code = charger THEN form ELSE AskForCode(id)
    /\ closed' = IF code = charger \/ Asking(id) # {} THEN closed ELSE closed \ {id}
    /\ UNCHANGED <<charger, changes, entry>>

\* Somebody gives the charger another code.
ChangeCode(code) ==
    /\ changes < MaxChanges
    /\ code # charger
    /\ charger' = code
    /\ changes' = changes + 1
    /\ UNCHANGED <<entry, form, stale, closed>>

FormStep ==
    \E f \in AllForms :
        \/ f \in Forms /\ (Discover(f) \/ OpenForm(f))
        \/ \E code \in Codes : Submit(f, code)
        \/ Refuse(f) \/ Create(f) \/ Update(f) \/ Dismiss(f)

LifeStep ==
    \E id \in Ids :
        \/ FailSetup(id) \/ DeferSetup(id) \/ Retry(id)
        \/ Refresh(id) \/ ActionRefused(id) \/ SyncNotice(id)
        \/ RequestReload(id) \/ FinishUnload(id)
        \/ \E code \in Codes : StaleEnds(id, code)

LoadStep == \E id \in Ids : Load(id) \/ Reload(id) \/ Remove(id)

Next == FormStep \/ LifeStep \/ LoadStep \/ Restart \/ \E code \in Codes : ChangeCode(code)

\* Home Assistant runs what it has scheduled. A charger that is tried again and
\* again is reached some time.
Fairness ==
    \A id \in Ids :
        /\ WF_flow(Retry(id)) /\ WF_flow(Reload(id)) /\ WF_flow(FinishUnload(id))
        /\ WF_flow(Poll(id))
        /\ SF_flow(Load(id)) /\ SF_flow(FailSetup(id))

Spec == Init /\ [][Next]_flow

FairSpec == Spec /\ Fairness

-----------------------------------------------------------------------------
(***************************************************************************)
(* Properties                                                              *)
(***************************************************************************)

\* However the forms for one charger overlap, by hand and from Bluetooth discovery, and
\* however an older version wrote its address, it has one entry, an older one without a
\* unique id left out, and a form never goes on to replace an entry that appeared while
\* it was open.
OneEntryPerCharger ==
    /\ \A i, j \in Ids \ {"none"} : Exists(i) /\ Exists(j) => i = j
    /\ \A f \in AllForms : form[f].source \in Opening /\ form[f].step = "validating" =>
         ~Exists("upper") /\ ~Exists("mixed")

\* The code of an entry changes only to one that the charger has just accepted for
\* that entry: a refused code, a form of another entry or a coordinator that stores
\* the restart notice meanwhile does not change it.
CodeChangesAreChecked ==
    [][\A id \in Ids :
         (Exists(id) /\ Exists(id)' /\ entry'[id].code # entry[id].code) =>
             /\ entry'[id].code = charger
             /\ \E f \in Asking(id) : form[f].code = charger /\ form'[f] = NoForm]_flow

\* An entry that stopped because of a wrong code has a form that asks for a new one,
\* is about to be reloaded, or somebody closed the form that took its place.
WrongCodeIsAnnounced ==
    \A id \in Ids : Refused(id) => Asking(id) # {} \/ entry[id].reload \/ id \in closed

\* A code that was stored is tried: the entry, or what becomes of it, ends up with a
\* client that uses the code, or with another code.
CodeTakesEffect ==
    \A id \in Ids : \A code \in Codes :
        (Exists(id) /\ entry[id].code = code) ~>
            \/ ~Exists(id) \/ entry[id].code # code
            \/ entry[id].client = code /\ entry[id].state \in {"loaded", "error"}

-----------------------------------------------------------------------------
(***************************************************************************)
(* A statement that is not kept                                            *)
(***************************************************************************)

\* A charger has one entry, one without a unique id counted.
NoDuplicateEntry == \A i, j \in Ids : Exists(i) /\ Exists(j) => i = j
=============================================================================
