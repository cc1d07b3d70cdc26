-------------------------- MODULE MCControlDrivers --------------------------
(***************************************************************************)
(* One control of every kind, with the values at which the cases differ:   *)
(* limits on and off the step, policies with and without a common choice,  *)
(* voltages at both ends of the range, at a half unit and out of range.    *)
(***************************************************************************)
EXTENDS ControlDrivers

MCLeftovers == [c \in {"pl1", "tau", "epp", "tcc", "core", "pcore"} |->
    CASE c \in {"pl1", "tau"} -> {4}
      [] c = "epp" -> {"power"}
      [] c = "tcc" -> {2}
      [] c = "core" -> {0}
      [] OTHER -> {<<1, 1, 1>>}]

MCLimits == {0, 3, 4}
MCPowers == {1, 4}
MCOffers == {{}, {"power"}, {"power", "balance"}}
MCChoices == {"power", "balance"}
MCOffsets == {0, 1}
MCFields == {0, 2048 - 25, 2048 - 256, 2048 - 257, 5}
MCVoltages == {0, -62, -63, -128 * 37, -128 * 249, -128 * 250}
MCRatioTables == {<<40, 38, 7>>, <<40, 41, 7>>}
MCRatioVectors == {<<39, 38>>, <<38, 38>>, <<38, 39>>, <<41, 38>>}

=============================================================================
