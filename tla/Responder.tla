----------------------------- MODULE Responder ------------------------------
(***************************************************************************)
(* What the MTP device promises its host and its application: an operation *)
(* that was received is carried out once and then answered, one at a time; *)
(* a device that is stopped comes to its end and can be started again.     *)
(* MtpDevice implements this.                                              *)
(*                                                                         *)
(* A bus reset of a running device breaks the connection, and so does an   *)
(* application that stops a device at work: nothing is promised to the     *)
(* host before the device has been started anew.  A broken device may not  *)
(* even survive its stop.                                                  *)
(***************************************************************************)
VARIABLES
  device,   \* "down", "up", "stopping" or "lost"
  sound,    \* the connection was not broken since the start
  request   \* of the host: "none", "received", or "answering"

vars == <<device, sound, request>>

Init == device = "down" /\ sound = TRUE /\ request = "none"

Start ==
  /\ device = "down" /\ device' = "up"
  /\ UNCHANGED <<sound, request>>

Ask ==
  /\ device = "up" /\ request = "none" /\ sound
  /\ request' = "received"
  /\ UNCHANGED <<device, sound>>

CarryOut ==
  /\ request = "received" /\ request' = "answering"
  /\ UNCHANGED <<device, sound>>

Answer ==
  /\ request = "answering" /\ request' = "none"
  /\ UNCHANGED <<device, sound>>

Break ==
  /\ sound' = FALSE /\ request' = "none"
  /\ UNCHANGED device

\* The application stops the device while the host has no request, or breaks it.
Stop ==
  /\ device = "up" /\ device' = "stopping"
  /\ \/ request = "none" /\ UNCHANGED <<sound, request>>
     \/ sound' = FALSE /\ request' = "none"

\* The device's task has ended; or the task of a broken one is given up.
End ==
  /\ device = "stopping" /\ device' = "down"
  /\ sound' = TRUE /\ request' = "none"

\* A broken device, or one that breaks with this step, does not come to its end.
Lose ==
  /\ device = "stopping" /\ device' = "lost"
  /\ sound' = FALSE /\ request' = "none"

Next == Start \/ Ask \/ CarryOut \/ Answer \/ Break \/ Stop \/ End \/ Lose

\* A sound device works on a request until it is answered, and a stop comes to
\* its end.
Fairness ==
  /\ WF_vars(sound /\ (CarryOut \/ Answer))
  /\ WF_vars(End)

Spec == Init /\ [][Next]_vars /\ Fairness
=============================================================================
