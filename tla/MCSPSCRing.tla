---------------------------- MODULE MCSPSCRing ----------------------------
(* A queue asked for three elements, which gets four cells.                *)
EXTENDS SPSCRing
=============================================================================
