----------------------------- MODULE ByteStream -----------------------------
(***************************************************************************)
(* What a download and an upload promise: bytes are carried from one side  *)
(* to the other in order, none twice and none skipped, and one result is   *)
(* told at the end, which is "ok" only when all of them were carried.  How *)
(* they are cut into packets, halves of a buffer and file accesses is left *)
(* to GetObject and SendObject, which implement this.                      *)
(***************************************************************************)
EXTENDS Naturals, Sequences

CONSTANT First  \* the name of the first byte, a number; the next ones count on

VARIABLES
  want,     \* how many bytes there are to carry
  got,      \* those that were carried
  outcome   \* what was told: "none", "ok" or "failed"

vars == <<want, got, outcome>>

Carried(n) == [i \in 1 .. n |-> First + i - 1]

Init == want \in Nat /\ got = <<>> /\ outcome = "none"

\* After a failure a piece under way may still arrive, in its place.
Carry ==
  /\ outcome # "ok"
  /\ \E n \in Len(got) + 1 .. want : got' = Carried(n)
  /\ UNCHANGED <<want, outcome>>

Succeed ==
  /\ outcome = "none" /\ Len(got) = want
  /\ outcome' = "ok"
  /\ UNCHANGED <<want, got>>

Fail ==
  /\ outcome = "none" /\ outcome' = "failed"
  /\ UNCHANGED <<want, got>>

Next == Carry \/ Succeed \/ Fail

Spec == Init /\ [][Next]_vars

\* A result is told in the end.
FairSpec == Spec /\ WF_vars(Succeed \/ Fail)
=============================================================================
