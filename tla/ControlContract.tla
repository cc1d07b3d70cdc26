-------------------------- MODULE ControlContract --------------------------
(***************************************************************************)
(* What the transaction engine may assume of the driver of one control     *)
(* (tuning.Driver and tuning.PreparedOperation in internal/tuning/         *)
(* driver.go), as WriteControl and RestoreControl of TuningEngine do:      *)
(* applying may leave the control anywhere, a restore only ever moves it   *)
(* to its captured value, and a restore that succeeds has.                 *)
(***************************************************************************)

VARIABLES
    phase,      \* "idle", or the call that runs
    atCapture,  \* every attribute of the control holds its captured value
    ended       \* how the last call ended

vars == <<phase, atCapture, ended>>

Init == phase = "idle" /\ atCapture = TRUE /\ ended = "none"

Call ==
    /\ phase = "idle"
    /\ phase' \in {"apply", "restore"}
    /\ ended' = "none"
    /\ UNCHANGED atCapture

Write ==
    /\ phase = "apply"
    /\ atCapture' \in BOOLEAN
    /\ UNCHANGED <<phase, ended>>

WriteBack ==
    /\ phase = "restore"
    /\ atCapture => atCapture'
    /\ atCapture' \in BOOLEAN
    /\ UNCHANGED <<phase, ended>>

\* The call returns, with the last write still in it.
Return ==
    /\ phase # "idle"
    /\ phase' = "idle"
    /\ ended' \in {"ok", "failed"}
    /\ atCapture' \in BOOLEAN
    /\ phase = "restore" => /\ atCapture => atCapture'
                            /\ ended' = "ok" => atCapture'

\* The engine notes the outcome, or the process is killed.
Settle ==
    /\ phase' = "idle"
    /\ ended' = "none"
    /\ UNCHANGED atCapture

Next == Call \/ Write \/ WriteBack \/ Return \/ Settle

Spec == Init /\ [][Next]_vars

=============================================================================
