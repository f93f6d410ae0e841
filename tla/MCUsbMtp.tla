------------------------------ MODULE MCUsbMtp ------------------------------
(* Values of the constants for the runs of UsbMtp. *)
EXTENDS UsbMtp, TLC

Symmetry == Permutations(Tasks)
=============================================================================
