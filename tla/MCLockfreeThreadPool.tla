------------------------ MODULE MCLockfreeThreadPool ------------------------
(***************************************************************************)
(* Two clients and the owner, so that up to three sub-queues share the     *)
(* blocks; blocks of two items, so that a block may stay half used.        *)
(***************************************************************************)
EXTENDS LockfreeThreadPool

CONSTANTS c1, c2, owner, logger, low, high

MCClients == {c1, c2}
MCLoggers == {logger}
OneLevel  == {low}

\* flush_level_ off, as it is by default.
FlushOff == [l \in MCLoggers |-> {}]

\* The bound on the calls.
TwoCalls   == [c \in Clients |-> 2]
FirstFive  == [c \in Clients |-> IF c = c1 THEN 5 ELSE 1]
=============================================================================
