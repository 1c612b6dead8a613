----------------------- MODULE EntityDiscoveryProofs -----------------------
(***************************************************************************)
(* What EntityDiscovery promises for any set of entities: each is handed   *)
(* over once per set-up and for a reason of its own.  The argument is that *)
(* an entity that is still on the list was not handed over, and that the   *)
(* registry holds, once it is cleaned, only entities that earned it.       *)
(***************************************************************************)
EXTENDS EntityDiscovery, TLAPS

\* An entity that waits on the list was not handed over since the set-up.
WaitingWasNotHanded == \A e \in pending : handed[e] = 0

\* While the entry is set up the registry knows no obsolete entity, and what it
\* knows of this version was earned.
RegistryIsEarned ==
    /\ registry \cap Current \subseteq earned
    /\ state # "unloaded" => registry \subseteq Current

IInv ==
    /\ TypeOK
    /\ HandedOverOnce
    /\ EntityIsEarned
    /\ WaitingWasNotHanded
    /\ RegistryIsEarned

-----------------------------------------------------------------------------
\* What discover finds is supported, or is registered itself.
LEMMA FoundIsEarned ==
    ASSUME NEW waiting \in SUBSET Current, NEW facts, NEW known \in SUBSET Current,
           NEW e \in Found(waiting, facts, known)
    PROVE  e \in waiting /\ (Supported(e, facts) \/ e \in known)
  BY DiscoveryAssumption DEF Found, Registered

\* Handing entities over keeps their count right and adds only earned ones.
LEMMA HandOverKeeps ==
    ASSUME TypeOK, NEW facts \in SUBSET Facts, NEW known \in SUBSET Current,
           NEW waiting \in SUBSET Current, NEW before \in [Current -> Nat],
           \A e \in Current : before[e] <= 1,
           \A e \in waiting : before[e] = 0,
           adding \subseteq earned, known \subseteq earned,
           Reported(facts), HandOver(waiting, before, facts, known)
    PROVE  /\ adding' \subseteq Current /\ adding' \subseteq earned'
           /\ pending' \subseteq Current
           /\ handed' \in [Current -> Nat]
           /\ HandedOverOnce'
           /\ WaitingWasNotHanded'
           /\ earned' \subseteq Current /\ earned \subseteq earned'
           /\ data' \subseteq Facts
  <1> DEFINE found == Found(waiting, facts, known)
  <1>1. found \subseteq waiting
    BY DEF Found
  <1>2. earned' = earned \cup {e \in Current : Supported(e, facts)} /\ data' = facts
    BY DEF Reported
  <1>3. found \subseteq earned'
    BY <1>2, FoundIsEarned
  <1>4. /\ adding' = adding \cup found
        /\ pending' = waiting \ found
        /\ handed' = [e \in Current |-> before[e] + (IF e \in found THEN 1 ELSE 0)]
    BY DEF HandOver, Rest
  <1> HIDE DEF found
  <1>5. adding' \subseteq Current /\ adding' \subseteq earned' /\ pending' \subseteq Current
    BY <1>1, <1>2, <1>3, <1>4 DEF TypeOK
  <1>6. handed' \in [Current -> Nat]
    BY <1>4
  <1>7. HandedOverOnce'
    BY <1>1, <1>4 DEF HandedOverOnce
  <1>8. WaitingWasNotHanded'
    BY <1>1, <1>4, <1>5 DEF WaitingWasNotHanded
  <1> QED
    BY <1>2, <1>5, <1>6, <1>7, <1>8 DEF TypeOK

LEMMA InitHolds == Init => IInv
  BY DEF Init, IInv, TypeOK, HandedOverOnce, EntityIsEarned, WaitingWasNotHanded,
         RegistryIsEarned

LEMMA SetupHolds ==
    ASSUME IInv, NEW facts \in SUBSET Facts, Setup(facts)
    PROVE  IInv'
  <1> USE DEF IInv
  <1> DEFINE before == [e \in Current |-> 0]
  <1> DEFINE known == Cleaned(registry)
  <1>1. known \subseteq Current /\ known \subseteq earned
    BY DEF Cleaned, TypeOK, RegistryIsEarned
  <1>2. before \in [Current -> Nat] /\ \A e \in Current : before[e] = 0
    OBVIOUS
  <1>3. /\ Reported(facts) /\ HandOver(Current, before, facts, known)
        /\ state' = "loaded" /\ registry' = known /\ present' = present
    BY DEF Setup
  <1> HIDE DEF before, known
  <1>4. adding \subseteq earned /\ present \subseteq earned
    BY DEF EntityIsEarned
  <1>5. /\ adding' \subseteq Current /\ adding' \subseteq earned'
        /\ pending' \subseteq Current /\ handed' \in [Current -> Nat]
        /\ HandedOverOnce' /\ WaitingWasNotHanded'
        /\ earned' \subseteq Current /\ earned \subseteq earned' /\ data' \subseteq Facts
    <2>1. \A e \in Current : before[e] <= 1
      BY <1>2
    <2> QED
      BY <1>1, <1>2, <1>3, <1>4, <2>1, HandOverKeeps
  <1> QED
    BY <1>1, <1>3, <1>4, <1>5 DEF TypeOK, EntityIsEarned, RegistryIsEarned

LEMMA RefreshHolds ==
    ASSUME IInv, NEW facts \in SUBSET Facts, Refresh(facts)
    PROVE  IInv'
  <1> USE DEF IInv
  <1>1. /\ Reported(facts) /\ HandOver(pending, handed, facts, registry)
        /\ state # "unloaded" /\ state' = state
        /\ registry' = registry /\ present' = present
    BY DEF Refresh
  <1>2. /\ registry \subseteq Current /\ registry \subseteq earned
        /\ adding \subseteq earned /\ present \subseteq earned
    BY <1>1 DEF RegistryIsEarned, EntityIsEarned
  <1>3. /\ adding' \subseteq Current /\ adding' \subseteq earned'
        /\ pending' \subseteq Current /\ handed' \in [Current -> Nat]
        /\ HandedOverOnce' /\ WaitingWasNotHanded'
        /\ earned' \subseteq Current /\ earned \subseteq earned' /\ data' \subseteq Facts
    BY <1>1, <1>2, HandOverKeeps DEF TypeOK, HandedOverOnce, WaitingWasNotHanded
  <1> QED
    BY <1>1, <1>2, <1>3 DEF TypeOK, EntityIsEarned, RegistryIsEarned

LEMMA AddHolds ==
    ASSUME IInv, NEW e \in Current, Add(e)
    PROVE  IInv'
  BY DEF IInv, Add, TypeOK, HandedOverOnce, EntityIsEarned, WaitingWasNotHanded,
         RegistryIsEarned

LEMMA UnloadHolds ==
    ASSUME IInv, Unload \/ FinishUnload \/ Restart
    PROVE  IInv'
  <1> USE DEF IInv, TypeOK, HandedOverOnce, EntityIsEarned, WaitingWasNotHanded,
              RegistryIsEarned
  <1>1. CASE Unload
    BY <1>1 DEF Unload
  <1>2. CASE FinishUnload
    BY <1>2 DEF FinishUnload
  <1>3. CASE Restart
    BY <1>3 DEF Restart
  <1> QED
    BY <1>1, <1>2, <1>3

LEMMA ForgetHolds ==
    ASSUME IInv, NEW gone \in SUBSET registry, Forget(gone)
    PROVE  IInv'
  BY DEF IInv, Forget, TypeOK, HandedOverOnce, EntityIsEarned, WaitingWasNotHanded,
         RegistryIsEarned

LEMMA StepHolds == IInv /\ [Next]_vars => IInv'
  <1> SUFFICES ASSUME IInv, [Next]_vars
               PROVE  IInv'
    OBVIOUS
  <1>1. ASSUME NEW facts \in SUBSET Facts, Setup(facts)
        PROVE  IInv'
    BY <1>1, SetupHolds
  <1>2. ASSUME NEW facts \in SUBSET Facts, Refresh(facts)
        PROVE  IInv'
    BY <1>2, RefreshHolds
  <1>3. ASSUME NEW e \in Current, Add(e)
        PROVE  IInv'
    BY <1>3, AddHolds
  <1>4. CASE Unload \/ FinishUnload \/ Restart
    BY <1>4, UnloadHolds
  <1>5. ASSUME NEW gone \in SUBSET registry, Forget(gone)
        PROVE  IInv'
    BY <1>5, ForgetHolds
  <1>6. CASE UNCHANGED vars
    BY <1>6 DEF vars, IInv, TypeOK, HandedOverOnce, EntityIsEarned,
                WaitingWasNotHanded, RegistryIsEarned
  <1> QED
    BY <1>1, <1>2, <1>3, <1>4, <1>5, <1>6 DEF Next

-----------------------------------------------------------------------------
\* The list, the counts and the registry fit together in every reachable state.
THEOREM InvariantHolds == Spec => []IInv
  BY InitHolds, StepHolds, PTL DEF Spec

\* Every reachable state of the discovery is well typed.
THEOREM TypeCorrect == Spec => []TypeOK
  <1>1. IInv => TypeOK
    BY DEF IInv
  <1> QED
    BY <1>1, InvariantHolds, PTL

\* entity.py's promise that a late capability does not add an entity again.
THEOREM EachIsHandedOverOnce == Spec => []HandedOverOnce
  <1>1. IInv => HandedOverOnce
    BY DEF IInv
  <1> QED
    BY <1>1, InvariantHolds, PTL

\* The clean-up in async_setup_entry is what keeps a leftover of another domain from
\* bringing back an entity that the charger does not support.
THEOREM EachIsEarned == Spec => []EntityIsEarned
  <1>1. IInv => EntityIsEarned
    BY DEF IInv
  <1> QED
    BY <1>1, InvariantHolds, PTL

-----------------------------------------------------------------------------
(***************************************************************************)
(* Nobody is left behind.  ExpectedEntityAppears is a promise for the end; *)
(* at every moment before it an expected entity is in Home Assistant's     *)
(* hands, because what waits on the list is neither supported nor          *)
(* registered.                                                             *)
(***************************************************************************)

\* Each entity is on the list, being added or present, and the list holds those for
\* which nothing speaks yet.
ListFits ==
    /\ state = "unloaded" => pending = {} /\ adding = {}
    /\ state = "loaded" => Current \subseteq pending \cup adding \cup present
    /\ pending \cap (adding \cup registry) = {}
    /\ \A e \in pending : ~Supported(e, data)

LEMMA ListHolds == IInv /\ ListFits /\ [Next]_vars => ListFits'
  <1> SUFFICES ASSUME IInv, ListFits, [Next]_vars
               PROVE  ListFits'
    OBVIOUS
  <1>t. TypeOK
    BY DEF IInv
  <1>f. ASSUME NEW waiting, NEW facts, NEW known, NEW e \in waiting \ Found(waiting, facts, known)
        PROVE  ~Supported(e, facts) /\ e \notin known
    BY <1>f DEF Found, Registered
  <1>1. ASSUME NEW facts \in SUBSET Facts, Setup(facts)
        PROVE  ListFits'
    <2>1. /\ adding' = Found(Current, facts, Cleaned(registry))
          /\ pending' = Current \ adding'
          /\ registry' = Cleaned(registry) /\ data' = facts /\ state' = "loaded"
      BY <1>1 DEF Setup, HandOver, Rest, Reported, ListFits
    <2> QED
      BY <1>f, <2>1 DEF ListFits
  <1>2. ASSUME NEW facts \in SUBSET Facts, Refresh(facts)
        PROVE  ListFits'
    <2> DEFINE found == Found(pending, facts, registry)
    <2>1. /\ adding' = adding \cup found
          /\ pending' = pending \ found
          /\ UNCHANGED <<registry, present, state>> /\ data' = facts
          /\ state # "unloaded"
      BY <1>2 DEF Refresh, HandOver, Rest, Reported
    <2>2. \A e \in pending' : ~Supported(e, facts)
      BY <1>f, <2>1
    <2> HIDE DEF found
    <2> QED
      BY <2>1, <2>2 DEF ListFits
  <1>3. ASSUME NEW e \in Current, Add(e)
        PROVE  ListFits'
    BY <1>3 DEF Add, ListFits
  <1>4. CASE Unload
    BY <1>4 DEF Unload, ListFits
  <1>5. CASE FinishUnload \/ Restart
    BY <1>5 DEF FinishUnload, Restart, ListFits
  <1>6. ASSUME NEW gone \in SUBSET registry, Forget(gone)
        PROVE  ListFits'
    BY <1>6 DEF Forget, ListFits
  <1>7. CASE UNCHANGED vars
    BY <1>7 DEF vars, ListFits
  <1> QED
    BY <1>1, <1>2, <1>3, <1>4, <1>5, <1>6, <1>7 DEF Next

UnderWay(e) == Expected(e) => e \in adding \cup present

\* Safety half of ExpectedEntityAppears: an entity that the charger supports or the
\* registry knows was handed over, whatever set-ups, refreshes, unloads and removals
\* of registry entries came before; it only remains for Home Assistant to add it.
THEOREM ExpectedIsUnderWay == Spec => [](\A e \in Current : UnderWay(e))
  <1>1. Init => ListFits
    BY DEF Init, ListFits
  <1>2. ListFits => \A e \in Current : UnderWay(e)
    BY DEF ListFits, UnderWay, Expected
  <1> QED
    BY <1>1, <1>2, ListHolds, InvariantHolds, PTL DEF Spec
=============================================================================
