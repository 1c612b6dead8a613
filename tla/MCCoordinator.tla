--------------------------- MODULE MCCoordinator ---------------------------
(***************************************************************************)
(* Coordinator with model values for the tasks and the firmware versions.  *)
(***************************************************************************)
EXTENDS Coordinator, TLC

\* For the restart notice: the LED's schedule, which no action of that run writes, is
\* fixed; two states that differ in a history that neither of its properties, nor any
\* guard, reads (accepted, owed) count as one.
OneSchedule == led.schedule = "custom"

NoticeView == <<limits, led, boot, entry, live, ready, data, full, marker, refresh,
                lock, writer, told, evidence, overwritten>>

Symmetry == Permutations(Writers) \cup Permutations(Versions)
=============================================================================
