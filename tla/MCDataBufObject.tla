-------------------------- MODULE MCDataBufObject --------------------------
(* DataBuf with five cells and three values: every head position, a wrap   *)
(* around the end of the storage and every fill level up to full occur.    *)
EXTENDS DataBufObject
=============================================================================
