-------------------------- MODULE EntityDiscovery --------------------------
(***************************************************************************)
(* Which entities a charger gets: async_setup_entry of __init__.py removes *)
(* the registry entries of obsolete entities, the platforms hand the       *)
(* supported ones to Home Assistant, and async_add_supported_entities of   *)
(* entity.py listens for what the charger reports later.                   *)
(*                                                                         *)
(* Home Assistant adds what it is handed in a task of its own and keeps    *)
(* the registry over unloads and restarts.  The platforms of an entry are  *)
(* one here: each has a list and a listener of its own for its entities.   *)
(***************************************************************************)
EXTENDS Naturals, FiniteSets

CONSTANTS
    Current,   \* entities of this version: a domain, a key and what they need
    Obsolete   \* entities of older versions that this one removes

\* No two entities of this version have one unique id, and none is obsolete.
ASSUME DiscoveryAssumption ==
    /\ Current \cap Obsolete = {}
    /\ \A e, f \in Current : e.key = f.key => e = f

\* What the charger may report: a value, or that its firmware can do something
Facts == UNION {e.needs : e \in Current}

VARIABLES
    state,     \* of the entry
    registry,  \* the entity registry's entries of this config entry
    data,      \* what the coordinator's data tell of the charger
    pending,   \* entities that were not handed over yet
    adding,    \* entities that were handed over and are being added
    present,   \* entities that exist in Home Assistant
    handed,    \* history: how often each entity was handed over since the set-up
    earned     \* history: entities that were registered or were supported

vars == <<state, registry, data, pending, adding, present, handed, earned>>

TypeOK ==
    /\ state \in {"unloaded", "loaded", "unloading"}
    /\ registry \subseteq Current \cup Obsolete
    /\ data \subseteq Facts
    /\ pending \subseteq Current
    /\ adding \subseteq Current
    /\ present \subseteq Current
    /\ handed \in [Current -> Nat]
    /\ earned \subseteq Current

\* Whatever an older version left in the registry
Init ==
    /\ state = "unloaded"
    /\ registry \in SUBSET (Current \cup Obsolete)
    /\ data = {}
    /\ pending = {} /\ adding = {} /\ present = {}
    /\ handed = [e \in Current |-> 0]
    /\ earned = registry \cap Current

-----------------------------------------------------------------------------
\* The platforms' lambdas: some entities need more than their own value, such as a
\* firmware that knows cards, and several may need the same value.
Supported(e, facts) == e.needs \subseteq facts

\* The registry knows the unique id, which holds the key and not the domain.
Registered(e, known) == \E r \in known : r.key = e.key

\* Mutant of Found: what the registry knows is not restored.
Found_SupportedOnly(waiting, facts, known) == {e \in waiting : Supported(e, facts)}

Found(waiting, facts, known) ==
    {e \in waiting : Supported(e, facts) \/ Registered(e, known)}

\* Mutant of Rest: entities stay on the list.
Rest_All(waiting, found) == waiting

Rest(waiting, found) == waiting \ found

\* discover, with what is left of the list and how often entities were handed over
HandOver(waiting, before, facts, known) ==
    LET found == Found(waiting, facts, known) IN
    /\ adding' = adding \cup found
    /\ pending' = Rest(waiting, found)
    /\ handed' = [e \in Current |-> before[e] + (IF e \in found THEN 1 ELSE 0)]

\* Mutant of Reported: the restart notice counts as a capability.
Reported_WithNotice(facts) ==
    /\ data' = facts \cup {"restart_required"}
    /\ UNCHANGED earned

Reported(facts) ==
    /\ data' = facts
    /\ earned' = earned \cup {e \in Current : Supported(e, facts)}

\* Mutant of Cleaned: obsolete entries stay in the registry.
Cleaned_Nothing(known) == known

Cleaned(known) == known \ Obsolete

\* The first refresh, the clean-up of the registry, then the platforms
Setup(facts) ==
    /\ state = "unloaded"
    /\ state' = "loaded"
    /\ registry' = Cleaned(registry)
    /\ Reported(facts)
    /\ HandOver(Current, [e \in Current |-> 0], facts, Cleaned(registry))
    /\ UNCHANGED present

\* Mutant of Refresh: the list is looked at by the set-up only.
Refresh_NotHeard(facts) ==
    /\ state # "unloaded"
    /\ facts # data
    /\ Reported(facts)
    /\ UNCHANGED <<state, registry, pending, adding, present, handed>>

\* A refresh publishes data that differ. The listener goes after the platforms: it
\* also hears a refresh that ends while they are unloaded.
Refresh(facts) ==
    /\ state # "unloaded"
    /\ facts # data
    /\ Reported(facts)
    /\ HandOver(pending, handed, facts, registry)
    /\ UNCHANGED <<state, registry, present>>

\* Home Assistant adds an entity and registers it.
Add(e) ==
    /\ e \in adding
    /\ adding' = adding \ {e}
    /\ present' = present \cup {e}
    /\ registry' = registry \cup {e}
    /\ UNCHANGED <<state, data, pending, handed, earned>>

\* The platforms are unloaded with the entities they have; an entity that is just
\* being added may be caught or not.
Unload ==
    /\ state = "loaded"
    /\ state' = "unloading"
    /\ present' = {}
    /\ adding' \in SUBSET adding
    /\ UNCHANGED <<registry, data, pending, handed, earned>>

\* The tasks of the entry end, then the entry is unloaded.
FinishUnload ==
    /\ state = "unloading"
    /\ adding = {}
    /\ state' = "unloaded"
    /\ data' = {} /\ pending' = {}
    /\ UNCHANGED <<registry, adding, present, handed, earned>>

\* The user removes entities that are left in the registry.
Forget(gone) ==
    /\ state = "unloaded"
    /\ gone \subseteq registry /\ gone # {}
    /\ registry' = registry \ gone
    /\ present' = present \ gone
    /\ UNCHANGED <<state, data, pending, adding, handed, earned>>

Restart ==
    /\ state' = "unloaded"
    /\ data' = {} /\ pending' = {} /\ adding' = {} /\ present' = {}
    /\ UNCHANGED <<registry, handed, earned>>

Next ==
    \/ \E facts \in SUBSET Facts : Setup(facts) \/ Refresh(facts)
    \/ \E e \in Current : Add(e)
    \/ Unload
    \/ FinishUnload
    \/ \E gone \in SUBSET registry : Forget(gone)
    \/ Restart

Spec == Init /\ [][Next]_vars

\* Home Assistant's loop runs the tasks that add entities.
FairSpec == Spec /\ \A e \in Current : WF_vars(Add(e))

-----------------------------------------------------------------------------
(***************************************************************************)
(* Properties                                                              *)
(***************************************************************************)

\* However often and in whatever order the charger reports its capabilities, and
\* whether the registry knew the entity or learns of it while it is being added, an
\* entity is handed to Home Assistant once per set-up.
HandedOverOnce == \A e \in Current : handed[e] <= 1

\* An entity is there because the charger supported it at some time or because
\* this very entity was registered before: the leftover of another domain with the
\* same key does not bring it about.
EntityIsEarned == present \cup adding \subseteq earned

Expected(e) == state = "loaded" /\ (Supported(e, data) \/ e \in registry)

\* A capability that is reported at any time, and an entity that was there before
\* even if its value is not read now, has its entity in the end.
ExpectedEntityAppears ==
    \A e \in Current : Expected(e) ~> (e \in present \/ ~Expected(e))
=============================================================================
