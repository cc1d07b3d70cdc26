SPECIFICATION FairSpec
CONSTANTS
    Providers = {"cpu", "rapl"}
    Hanging = {"rapl"}
    Metrics = {"load", "power"}
    Source <- MCSource
    MinGap <- MCNoGap
    Handles = {"overview", "monitor"}
    Wants <- MCApart
    MaxInterval = 1
    FirstBackoff = 1
    MaximumBackoff = 1
    FailureLimit = 1
PROPERTIES
    EachIsSampled
    StreamsClose
