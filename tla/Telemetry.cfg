SPECIFICATION Spec
CONSTANTS
    Providers = {"cpu", "rapl"}
    Hanging = {"rapl"}
    Metrics = {"load", "power"}
    Source <- MCSource
    MinGap <- MCMinGap
    Handles = {"overview", "monitor"}
    Wants <- MCWants
    MaxInterval = 2
    FirstBackoff = 2
    MaximumBackoff = 3
    FailureLimit = 2
INVARIANTS
    StopIsFinal
PROPERTIES
    SafeCadence
