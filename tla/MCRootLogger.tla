---------------------------- MODULE MCRootLogger ----------------------------
(* Two threads use the macros for the first time, at the same time, and    *)
(* the program adds a file sink that locks.                                *)
EXTENDS RootLogger

RootOnly == <<Root>>
=============================================================================
