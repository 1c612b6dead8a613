------------------------- MODULE MCEntityDiscovery -------------------------
(* Three entities: one in the place of an obsolete text entity, and two that *)
(* need the same value, one of them a newer firmware as well.               *)
EXTENDS EntityDiscovery

MCCurrent ==
    {[domain |-> "select", key |-> "phase_rotation", needs |-> {"phase_rotation"}],
     [domain |-> "select", key |-> "charging_mode", needs |-> {"auto_start"}],
     [domain |-> "select", key |-> "auto_start_card",
      needs |-> {"auto_start", "firmware"}]}

MCObsolete == {[domain |-> "text", key |-> "phase_rotation", needs |-> {}],
               [domain |-> "switch", key |-> "led_mode", needs |-> {}]}
=============================================================================
