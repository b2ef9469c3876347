------------------------ MODULE MCLockfreeConcurrent ------------------------
(***************************************************************************)
(* Two clients over two workers that enqueue too, when they write a        *)
(* message at the flush level, so that threads share tokens; one client    *)
(* may come with the token of an earlier pool.                             *)
(***************************************************************************)
EXTENDS LockfreeConcurrentPool

CONSTANTS c1, c2, owner, logger, low, high

TwoClients   == {c1, c2}
OneClient    == {c1}
SecondClient == {c2}
MCLoggers    == {logger}
OneLevel     == {low}
TwoLevels    == {low, high}

\* flush_level_ off, as it is by default, and flush_level_ = high.
FlushOff  == [l \in MCLoggers |-> {}]
FlushHigh == [l \in MCLoggers |-> {high}]

\* The bound on the calls.
TwoCalls == [c \in Clients |-> 2]
=============================================================================
