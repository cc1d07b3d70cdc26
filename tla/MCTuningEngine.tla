--------------------------- MODULE MCTuningEngine ---------------------------
(***************************************************************************)
(* Two helpers and three controls: the two power limits, of one driver,    *)
(* and a voltage, which is applied after them.                             *)
(***************************************************************************)
EXTENDS TuningEngine

MCControls == {"pl1", "pl2", "voltage"}
MCOrder == [c \in MCControls |-> IF c = "voltage" THEN 40 ELSE 10]

=============================================================================
