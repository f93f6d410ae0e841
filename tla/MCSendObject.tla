---------------------------- MODULE MCSendObject ----------------------------
(* Files for the runs of SendObject: up to three and a half pieces. *)
EXTENDS SendObject

CONSTANT MaxSize

AllSizes == 0 .. MaxSize
=============================================================================
