---------------------------- MODULE MCChatStore ----------------------------
(* Instances of ChatStore for TLC: processes and nonces are model values. *)
EXTENDS ChatStore, TLC

CONSTANTS p1, p2, p3, n1, n2, n3

Symmetry == Permutations(Procs) \cup Permutations(Nonces)

\* Three processes call with one nonce, or two of them with two nonces, so that both may be
\* between storing a message and counting it; for each epoch that ends, one may follow.
Untouched(p) == pc[p] = "idle" /\ reply[p] = NoReply
ThreeOrTwo ==
  /\ lastEpoch <= 3
  /\ (\E n \in Nonces : bound[n] = NoEpoch) \/ (\E p \in Procs : Untouched(p))

\* More epochs than the liveness run opens.
OrphansSwept == \A e \in 1 .. 4 : OrphansAreSwept(e)
=============================================================================
