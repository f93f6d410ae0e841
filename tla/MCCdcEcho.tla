----------------------------- MODULE MCCdcEcho -----------------------------
(* Values of the constants for the runs of CdcEcho. *)
EXTENDS CdcEcho

\* Nothing, less than a packet, a packet, and a packet and a part.
SomeLengths == 0 .. 3
=============================================================================
