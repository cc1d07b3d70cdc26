------------------------- MODULE MCCapabilityReview -------------------------
(***************************************************************************)
(* Two drivers that both report PL1, as in the tests of the discoverer, so *)
(* that the merge has to choose; the register driver reports more to the   *)
(* helper than to the application.  On the machines the bound clamps and   *)
(* rounds the same request to different values, or is unknown, so that the *)
(* kernel's control is read-only.                                          *)
(***************************************************************************)
EXTENDS CapabilityReview

MCDrivers == {"intel.powercap", "intel.msr"}

Limit(id, driver, state, m) ==
    Capability(id, state, "W", Numeric(m[id]), IF state = "supported" THEN [min |-> 0, max |-> m.bound, step |-> 2] ELSE None,
               {}, driver)

MCReports(process, d, m) ==
    IF d = "intel.powercap"
    THEN {Limit(id, d, IF m.bound > 0 THEN "supported" ELSE "read_only", m) : id \in {"pl1", "pl2"}}
    ELSE {Capability("core", IF process = "app" THEN "requires_probe" ELSE "read_only", "mV", NoValue, None, {}, d),
          Limit("pl1", d, "supported", [m EXCEPT !.bound = 6])}

MCMachines == {[pl1 |-> 2, pl2 |-> 6, bound |-> b] : b \in {3, 6}}
                  \cup {[pl1 |-> 2, pl2 |-> 4, bound |-> 6]}

MCFields == {"pl1", "pl2", "bound"}
MCLevels == 0..6

MCRequests == {[id |-> "pl1", requested |-> Numeric(5)], [id |-> "pl2", requested |-> Numeric(0)]}

\* A page that is left and reopened while runs go on; a review that anything
\* may get in the way of; a page reopened while or after the helper answers.
MCScopes == {[machines |-> MCMachines, activations |-> 2, requests |-> {}, faults |-> 1],
             [machines |-> MCMachines, activations |-> 1, requests |-> MCRequests, faults |-> 1],
             [machines |-> {[pl1 |-> 2, pl2 |-> 6, bound |-> 3]}, activations |-> 2,
              requests |-> {[id |-> "pl1", requested |-> Numeric(5)]}, faults |-> 0]}

=============================================================================
