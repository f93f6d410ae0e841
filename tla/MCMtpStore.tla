----------------------------- MODULE MCMtpStore -----------------------------
(* Values of the constants for the runs of MtpStore. *)
EXTENDS MtpStore, FiniteSetsExt, TLC

CONSTANT MaxObjects

Symmetry == Permutations(Names)

\* The folders down to a file or folder whose path does not fit the buffer.
TooDeep(name) == {[k \in 1 .. n |-> name] : n \in 1 .. MaxDepth + 1}

\* Every card with up to MaxObjects files and folders, and those with only a path that is
\* too deep.
SmallCards ==
  LET Split(objects) == {[files |-> objects \ f, folders |-> f] : f \in SUBSET objects}
      choices == UNION {kSubset(n, Paths) : n \in 0 .. MaxObjects}
                 \cup {TooDeep(name) : name \in Names}
  IN  {card \in UNION {Split(objects) : objects \in choices} : IsTree(card)}
=============================================================================
