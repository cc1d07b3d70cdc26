-------------------------- MODULE LatestDispatcher --------------------------
(***************************************************************************)
(* internal/ui/components/latest.go: a dispatcher keeps at most one UI      *)
(* callback queued and renders the newest value submitted before the        *)
(* callback runs.  Each operator is one section under the dispatcher's      *)
(* mutex; handing the callback to fyne.Do happens after the mutex is left.  *)
(***************************************************************************)
EXTENDS Naturals

NewLatestDispatcher(value) ==
  [latest |-> value, pending |-> FALSE, active |-> TRUE, epoch |-> 0]

\* Faulty variant: a value submitted while a callback is queued is dropped.
Submitted_KeepsFirst(d, value) ==
  IF d.active /\ ~d.pending
  THEN [d EXCEPT !.latest = value, !.pending = TRUE] ELSE d

Submitted(d, value) ==
  IF d.active THEN [d EXCEPT !.latest = value, !.pending = TRUE] ELSE d

\* Submit hands a callback of the current epoch to the UI.
Dispatches(d) == d.active /\ ~d.pending

\* Faulty variant: the callback does not compare epochs.
Renders_AnyEpoch(d, epoch) == d.active

\* The queued callback of this epoch renders; any other one returns early.
Renders(d, epoch) == d.active /\ d.epoch = epoch

Taken(d) == [d EXCEPT !.pending = FALSE]

Cancelled(d) ==
  [d EXCEPT !.active = FALSE, !.pending = FALSE, !.epoch = @ + 1]

Resumed(d) == [d EXCEPT !.active = TRUE]
=============================================================================
