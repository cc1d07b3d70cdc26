---------------------------- MODULE MCStudioPages ----------------------------
(* StudioPages on small instances, one page or pair of pages at a time.      *)
EXTENDS StudioPages

Base == [pages |-> {}, metrics |-> {"load"}, values |-> {1}, samples |-> 0,
         commands |-> 0, changes |-> 0, events |-> 0, catalogs |-> 0,
         closes |-> 0]

MCScopes ==
  { \* a chart longer than its columns, the ring wrapped
    [Base EXCEPT !.pages = {"overview"}, !.values = 0 .. 2, !.samples = 6,
                 !.commands = 1],
    \* the Monitor page: selection, interval, pause, leaving
    [Base EXCEPT !.pages = {"monitor", "logs"}, !.samples = 2, !.commands = 4],
    \* two metrics whose samples come in frames of their own
    [Base EXCEPT !.pages = {"monitor"}, !.metrics = {"load", "heat"},
                 !.samples = 3, !.commands = 2],
    \* the Monitor page while the window closes
    [Base EXCEPT !.pages = {"monitor"}, !.samples = 2, !.commands = 2,
                 !.closes = 1],
    \* the Logs page left and entered again
    [Base EXCEPT !.pages = {"logs", "overview"}, !.events = 3, !.commands = 3],
    \* the Logs page entered while the window closes
    [Base EXCEPT !.pages = {"logs"}, !.events = 1, !.commands = 2,
                 !.closes = 1],
    \* the Tune page left and entered again
    [Base EXCEPT !.pages = {"tune", "logs"}, !.samples = 1, !.commands = 3,
                 !.changes = 1],
    \* the Tune view model changed from three sides, and the window closing
    [Base EXCEPT !.pages = {"tune"}, !.changes = 3, !.commands = 1],
    [Base EXCEPT !.pages = {"tune"}, !.changes = 1, !.commands = 1,
                 !.closes = 1],
    \* the Tune page entered, left by the window closing, and entered again
    [Base EXCEPT !.pages = {"tune"}, !.samples = 1, !.commands = 2,
                 !.closes = 1],
    \* a catalog that arrives while pages are shown
    [Base EXCEPT !.pages = {"overview", "monitor", "tune"}, !.samples = 2,
                 !.commands = 1, !.catalogs = 1] }
==============================================================================
