--------------------------- MODULE MCSmokeHarness ---------------------------
(***************************************************************************)
(* Two power limits of one driver, the thermal limit of another and the    *)
(* energy preference of a third.  On one machine PL1 is above PL2, on      *)
(* another PL1 is at its minimum and PL2 is not offered, on the third only *)
(* the thermal limit and the preference are.                               *)
(***************************************************************************)
EXTENDS SmokeHarness

MCValues == -1..1

MCOrder == [c \in Controls |-> CASE c = "epp" -> 3 [] c = "tcc" -> 2 [] OTHER -> 1]

MCMachine(pl1, pl2, offered) ==
    [base |-> [c \in Controls |-> CASE c = "pl1" -> pl1 [] c = "pl2" -> pl2 [] c = "epp" -> 2 [] OTHER -> 9],
     min |-> [c \in Controls |-> 4], max |-> [c \in Controls |-> 9],
     offered |-> offered, preferences |-> {1, 2, 3}]

MCMachines == {MCMachine(6, 5, {"pl1", "pl2", "tcc"}), MCMachine(4, 6, {"pl1"}),
               MCMachine(5, 6, {"tcc", "epp"})}

=============================================================================
