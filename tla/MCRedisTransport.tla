---------------------------- MODULE MCRedisTransport ----------------------------
(* Small instances of RedisTransport for TLC.                                  *)
EXTENDS RedisTransport, TLC

CONSTANTS c1, c2, k1

One == [c \in Consumers |-> 1]
Two == [c \in Consumers |-> 2]

\* max_inflight above what an instance can have pending.
Roomy == [c \in Consumers |-> MaxEntries + 1]

Earliest == [c \in Consumers |-> 0]
Latests  == [c \in Consumers |-> Latest]

\* Subscriptions with the same options.
Twins == Permutations({c1, c2})
=============================================================================
