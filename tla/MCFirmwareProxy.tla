-------------------------- MODULE MCFirmwareProxy --------------------------
(* Instances of FirmwareProxy for TLC.                                     *)
EXTENDS FirmwareProxy, TLC

CONSTANTS u1, u2

Symmetry == Permutations(Attempts)

\* The installation instance looks at updates whose setup succeeds and whose
\* command is accepted, while Home Assistant runs.
InstallationsOnly ==
    /\ ha = "running"
    /\ \A u \in Attempts :
          stage[u] \in Setup \cup {"idle", "commanding", "armed"}

\* Which attempt of a charger comes first does not matter: the liveness instance,
\* where TLC cannot use symmetry, calls the first one u1.
InOrder == stage[u2] # "idle" => stage[u1] # "idle"

\* The liveness instance: while Home Assistant stops, no update is where it has neither
\* a directory nor a server yet.
LiveBound ==
    /\ InOrder
    /\ ha \in {"stopping", "stopped"} =>
          \A u \in Attempts : stage[u] \notin {"fetching", "making"}
=============================================================================
