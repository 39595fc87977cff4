--------------------------- MODULE MCWorkerFleet ----------------------------
(* WorkerFleet for TLC.  Worker ids are interchangeable. *)
EXTENDS WorkerFleet, TLC

Spec3(key, queue, max_attempts) ==
  [key |-> key, queue |-> queue, max_attempts |-> max_attempts]

\* Jobs of the queue, with and without a key.
InQueue == {Spec3(k, q, MaxAttempts) : k \in Key \cup {None}, q \in Queue}

\* Jobs without a key, in the queue and outside it: a batch may combine them.
Unkeyed == {Spec3(None, q, MaxAttempts) : q \in Queue \cup {None}}

\* Keyed jobs that a replacement moves into and out of the queue.
Keyed == {Spec3(k, q, MaxAttempts) : k \in Key, q \in Queue \cup {None}}

Symmetry == Permutations(Worker)
=============================================================================
