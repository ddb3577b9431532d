--------------------------- MODULE MCAsyncLogging ---------------------------
(* Logging threads and two sinks, one of which does not want the level of  *)
(* the calls until it is set to; the queue is shorter than what the        *)
(* threads post.                                                           *)
EXTENDS AsyncLogging, TLC

CONSTANTS file, console

TwoSinks == <<console, file>>

OneSink == <<file>>

ConsoleIsQuiet == (file :> 1) @@ (console :> 3)
=============================================================================
