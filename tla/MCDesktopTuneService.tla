------------------------ MODULE MCDesktopTuneService ------------------------
(***************************************************************************)
(* The sessions are interchangeable.  Every property is of the safety kind,*)
(* so the symmetry is sound.                                               *)
(***************************************************************************)
EXTENDS DesktopTuneService, TLC

Symmetry == Permutations(Clients)

=============================================================================
