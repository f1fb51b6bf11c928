----------------------------- MODULE MCDockerRuntime -----------------------------
(* Requests for the runs of DockerRuntime.                                  *)
EXTENDS DockerRuntime, TLC

Symmetry == Permutations(Sandboxes) \cup Permutations(Timers)

TimedRequest(keys) == [timed |-> TRUE, keys |-> keys, policy |-> FALSE]

\* Expirations and mounts in different sandboxes, and both in one.
Apart   == {[timed |-> TRUE, keys |-> {}, policy |-> TRUE],
            [timed |-> FALSE, keys |-> Keys, policy |-> FALSE]}
Timed1   == {[timed |-> TRUE, keys |-> {}, policy |-> TRUE]}
Together == {TimedRequest(Keys)}
=============================================================================
