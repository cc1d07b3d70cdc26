------------------------ MODULE MCTelemetryScheduler ------------------------
(***************************************************************************)
(* Two providers with a metric each, one of them with a descriptor slower  *)
(* than what is asked, and two consumers with different intervals.         *)
(***************************************************************************)
EXTENDS TelemetryScheduler

MCSource == [m \in {"load", "power"} |-> IF m = "load" THEN "cpu" ELSE "rapl"]
MCMinGap == [m \in {"load", "power"} |-> IF m = "load" THEN 2 ELSE 0]

MCNoGap == [m \in {"load", "power"} |-> 0]

\* An overview of both metrics at the shortest interval, and a monitor of one.
MCWants == [h \in {"overview", "monitor"} |->
    IF h = "overview" THEN {[metrics |-> {"load", "power"}, interval |-> 1]}
    ELSE {[metrics |-> {"power"}, interval |-> 2]}]

\* A metric each, of different providers.
MCApart == [h \in {"overview", "monitor"} |->
    {[metrics |-> {IF h = "overview" THEN "load" ELSE "power"}, interval |-> 1]}]

=============================================================================
