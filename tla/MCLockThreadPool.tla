-------------------------- MODULE MCLockThreadPool --------------------------
(***************************************************************************)
(* Two clients over one worker and a queue of two places,                  *)
(* so that clients, workers and the destructor all find the queue full.    *)
(***************************************************************************)
EXTENDS LockThreadPool

CONSTANTS c1, c2, owner, logger, low, high

MCClients == {c1, c2}
MCLoggers == {logger}
OneLevel  == {low}
BothLevels == {low, high}

\* flush_level_ off, as it is by default, and flush_level_ = high.
FlushOff  == [l \in MCLoggers |-> {}]
FlushHigh == [l \in MCLoggers |-> {high}]

\* The bound on the calls.
OneCall    == [c \in Clients |-> 1]
TwoCalls   == [c \in Clients |-> 2]
ThreeAndTwo == [c \in Clients |-> IF c = c1 THEN 3 ELSE 2]
=============================================================================
