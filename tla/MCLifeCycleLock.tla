-------------------------- MODULE MCLifeCycleLock --------------------------
(***************************************************************************)
(* LifeCycleLock for TLC.  The assumption replays the assertions of        *)
(* singleThread in test/unit_test/lifecyclelock_unittest.cpp on the word.  *)
(***************************************************************************)
EXTENDS LifeCycleLock

ASSUME SingleThreadTest ==
  LET s4 == AddShared(NoBits)
      s6 == OrUpgraded(s4)
      s2 == SubShared(s6)
      s3 == OrUpgraded(OnlyExclusive)
      s7 == AddShared(s3)
  IN  /\ ~UpgradedOrExclusive(NoBits) /\ record(s4) = 4
      /\ record(s6) = 6 /\ ~OnlyUpgraded(s6)
      /\ record(s2) = 2 /\ ~IsExclusive(s2) /\ OnlyUpgraded(s2)
      /\ record(OnlyExclusive) = 1 /\ IsExclusive(OnlyExclusive)
      /\ record(s3) = 3 /\ UpgradedOrExclusive(s3)
      /\ record(ClearExclusive(SubShared(s7))) = 0
=============================================================================
