--------------------------- MODULE MCTuneViewModel ---------------------------
(***************************************************************************)
(* The view hides what no later step reads: how the last operation ended,  *)
(* and the record of a session nothing refers to any more.                 *)
(***************************************************************************)
EXTENDS TuneViewModel, TLC

Symmetry == Permutations(Clients) \cup Permutations(Slots)

Forgotten(c) == /\ sess[c].helper = "ended" /\ sess[c].events = <<>>
                /\ c \notin {client, op.on, closer.on}

Seen == <<tuned, [c \in Clients |-> IF Forgotten(c) THEN <<>> ELSE <<sess[c]>>],
          client, closed, recoveryNeeded, cancelled, closer, op.at, op.on,
          privileged, stream, stateVars, pageVars, calls>>

=============================================================================
