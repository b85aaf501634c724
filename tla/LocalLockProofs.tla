-------------------------- MODULE LocalLockProofs --------------------------
(***************************************************************************)
(* Mutual exclusion of the execution store's file lock, for any number of  *)
(* processes and any crashes.                                              *)
(*                                                                         *)
(* MutualExclusion is not inductive.  It follows from FileOfLive: a live   *)
(* process inside fn has its own token at the lock's path.  FileOfLive     *)
(* survives a rename or an unlink by name because the file removed is a    *)
(* dead process's (UnlinksJudged), a handback because no live process's    *)
(* file is ever moved (MovedOnlyDead), and the removal of a guard because  *)
(* only one live sweep does that (OneSweep).                               *)
(***************************************************************************)
EXTENDS LocalLock, TLAPS

IInv ==
    TypeOK /\ FileOfLive /\ MovedOnlyDead /\ UnlinksJudged /\ OneSweep

\* Initially no file exists and nobody is at work.
LEMMA InitIInv == Init => IInv
  BY ProcAssumption
  DEF Init, IInv, TypeOK, FileOfLive, LockOfLive,
      BreakerOfLive, GuardOfLive, MovedOnlyDead, UnlinksJudged, OneSweep, Exists, Dead, NoFile, File, Owners, Labels, AcquireLabels, ClearLabels,
      SweepLabels, Holding, Breaking, Guarding

USE ProcAssumption
    DEF TypeOK, File, Owners, NoFile, Opened, OpenExclusive, Written, RemoveOwn, Exists,
        Dead, At, Goto, Files, Look, PutLock, PutBreaker, PutGuard

\* Every step keeps every variable in its type.
LEMMA TypeStep == TypeOK /\ [Next]_vars => TypeOK'
<1> SUFFICES ASSUME TypeOK, [Next]_vars PROVE TypeOK'
  OBVIOUS
<1> USE DEF Labels, AcquireLabels, ClearLabels, SweepLabels
<1>0. CASE UNCHANGED vars
  BY <1>0 DEF vars
<1>1. ASSUME NEW p \in Proc, Judge(p) PROVE TypeOK'
  BY <1>1 DEF Judge
<1>2. ASSUME NEW p \in Proc, OpenGuard(p) PROVE TypeOK'
  BY <1>2 DEF OpenGuard
<1>3. ASSUME NEW p \in Proc, WriteGuard(p) PROVE TypeOK'
  BY <1>3 DEF WriteGuard
<1>4. ASSUME NEW p \in Proc, Rejudge(p) PROVE TypeOK'
  BY <1>4 DEF Rejudge
<1>5. ASSUME NEW p \in Proc, CheckMoved(p) PROVE TypeOK'
  BY <1>5 DEF CheckMoved
<1>6. ASSUME NEW p \in Proc, UnlinkBreaker(p) PROVE TypeOK'
  BY <1>6 DEF UnlinkBreaker
<1>7. ASSUME NEW p \in Proc, Unguard(p) PROVE TypeOK'
  BY <1>7 DEF Unguard
<1>8. ASSUME NEW p \in Proc, Top(p) PROVE TypeOK'
  BY <1>8 DEF Top
<1>9. ASSUME NEW p \in Proc, Retry(p) PROVE TypeOK'
  BY <1>9 DEF Retry
<1>10. ASSUME NEW p \in Proc, Create(p) PROVE TypeOK'
  BY <1>10 DEF Create
<1>11. ASSUME NEW p \in Proc, Write(p) PROVE TypeOK'
  BY <1>11 DEF Write
<1>12. ASSUME NEW p \in Proc, Check(p) PROVE TypeOK'
  BY <1>12 DEF Check
<1>13. ASSUME NEW p \in Proc, Backoff(p) PROVE TypeOK'
  BY <1>13 DEF Backoff
<1>14. ASSUME NEW p \in Proc, Release(p) PROVE TypeOK'
  BY <1>14 DEF Release, EndSweep
<1>15. ASSUME NEW p \in Proc, Inspect(p) PROVE TypeOK'
  BY <1>15 DEF Inspect
<1>16. ASSUME NEW p \in Proc, OpenBreaker(p) PROVE TypeOK'
  BY <1>16 DEF OpenBreaker
<1>17. ASSUME NEW p \in Proc, WriteBreaker(p) PROVE TypeOK'
  BY <1>17 DEF WriteBreaker
<1>18. ASSUME NEW p \in Proc, Recheck(p) PROVE TypeOK'
  BY <1>18 DEF Recheck
<1>19. ASSUME NEW p \in Proc, Rename(p) PROVE TypeOK'
  BY <1>19 DEF Rename
<1>20. ASSUME NEW p \in Proc, JudgeMoved(p) PROVE TypeOK'
  BY <1>20 DEF JudgeMoved, EndSweep
<1>21. ASSUME NEW p \in Proc, Unbreak(p) PROVE TypeOK'
  BY <1>21 DEF Unbreak
<1>22. ASSUME NEW p \in Proc, SweepGuard(p) PROVE TypeOK'
  BY <1>22 DEF SweepGuard
<1>23. ASSUME NEW p \in Proc, UnlinkGuard(p) PROVE TypeOK'
  BY <1>23 DEF UnlinkGuard
<1>24. ASSUME NEW p \in Proc, SweepBreaker(p) PROVE TypeOK'
  BY <1>24 DEF SweepBreaker
<1>25. ASSUME NEW p \in Proc, SweepMoved(p) PROVE TypeOK'
  BY <1>25 DEF SweepMoved
<1>26. ASSUME NEW p \in Proc, SweepLock(p) PROVE TypeOK'
  BY <1>26 DEF SweepLock
<1>27. ASSUME NEW p \in Proc, Call(p) PROVE TypeOK'
  BY <1>27 DEF Call
<1>28. ASSUME NEW p \in Proc, GiveUp(p) PROVE TypeOK'
  BY <1>28 DEF GiveUp, EndSweep
<1>29. ASSUME NEW p \in Proc, StartSweep(p) PROVE TypeOK'
  BY <1>29 DEF StartSweep
<1>30. ASSUME NEW p \in Proc, Crash(p) PROVE TypeOK'
  BY <1>30 DEF Crash
<1> QED
  BY <1>0, <1>1, <1>2, <1>3, <1>4, <1>5, <1>6, <1>7, <1>8, <1>9, <1>10,
     <1>11, <1>12, <1>13, <1>14, <1>15, <1>16, <1>17, <1>18, <1>19, <1>20,
     <1>21, <1>22, <1>23, <1>24, <1>25, <1>26, <1>27, <1>28, <1>29, <1>30
  DEF Next, Step, ClearBreaker, Acquire, Sweep

\* Every step keeps the inductive invariant.
LEMMA StepIInv == IInv /\ [Next]_vars => IInv'
<1> SUFFICES ASSUME IInv, [Next]_vars PROVE IInv'
  OBVIOUS
<1> DEFINE Rest == FileOfLive /\ MovedOnlyDead /\ UnlinksJudged /\ OneSweep
<1>t. TypeOK /\ TypeOK'
  BY TypeStep DEF IInv
<1> USE <1>t DEF IInv, FileOfLive, LockOfLive, BreakerOfLive, GuardOfLive,
        MovedOnlyDead, UnlinksJudged, OneSweep, Holding, Breaking, Guarding,
        SweepLabels, ClearLabels
<1>0. CASE UNCHANGED vars
  BY <1>0 DEF vars
<1>1. ASSUME NEW p \in Proc, Judge(p) PROVE Rest'
  BY <1>1 DEF Judge
<1>2. ASSUME NEW p \in Proc, OpenGuard(p) PROVE Rest'
  <2>1. ASSUME NEW q \in alive, q # p, guard = Opened(q) \/ guard = Written(q)
        PROVE  guard' = guard
    BY <1>2, <2>1 DEF OpenGuard
  <2>2. GuardOfLive'
    BY <1>2, <2>1 DEF OpenGuard
  <2>3. (LockOfLive /\ BreakerOfLive /\ MovedOnlyDead /\ UnlinksJudged /\ OneSweep)'
    BY <1>2 DEF OpenGuard
  <2> QED
    BY <2>2, <2>3
<1>3. ASSUME NEW p \in Proc, WriteGuard(p) PROVE Rest'
  <2>1. ASSUME NEW q \in alive, q # p, guard = Opened(q) \/ guard = Written(q)
        PROVE  guard' = guard
    BY <1>3, <2>1 DEF WriteGuard
  <2>2. GuardOfLive'
    BY <1>3, <2>1 DEF WriteGuard
  <2>3. (LockOfLive /\ BreakerOfLive /\ MovedOnlyDead /\ UnlinksJudged /\ OneSweep)'
    BY <1>3 DEF WriteGuard
  <2> QED
    BY <2>2, <2>3
<1>4. ASSUME NEW p \in Proc, Rejudge(p) PROVE Rest'
  BY <1>4 DEF Rejudge
<1>5. ASSUME NEW p \in Proc, CheckMoved(p) PROVE Rest'
  BY <1>5 DEF CheckMoved
<1>6. ASSUME NEW p \in Proc, UnlinkBreaker(p) PROVE Rest'
  BY <1>6 DEF UnlinkBreaker
<1>7. ASSUME NEW p \in Proc, Unguard(p) PROVE Rest'
  BY <1>7 DEF Unguard
<1>8. ASSUME NEW p \in Proc, Top(p) PROVE Rest'
  BY <1>8 DEF Top
<1>9. ASSUME NEW p \in Proc, Retry(p) PROVE Rest'
  BY <1>9 DEF Retry
<1>10. ASSUME NEW p \in Proc, Create(p) PROVE Rest'
  <2>1. ASSUME NEW q \in alive, q # p, lock = Opened(q) \/ lock = Written(q)
        PROVE  lock' = lock
    BY <1>10, <2>1 DEF Create
  <2>2. LockOfLive'
    BY <1>10, <2>1 DEF Create
  <2>3. (BreakerOfLive /\ GuardOfLive /\ MovedOnlyDead /\ UnlinksJudged /\ OneSweep)'
    BY <1>10 DEF Create
  <2> QED
    BY <2>2, <2>3
<1>11. ASSUME NEW p \in Proc, Write(p) PROVE Rest'
  <2>1. ASSUME NEW q \in alive, q # p, lock = Opened(q) \/ lock = Written(q)
        PROVE  lock' = lock
    BY <1>11, <2>1 DEF Write
  <2>2. LockOfLive'
    BY <1>11, <2>1 DEF Write
  <2>3. (BreakerOfLive /\ GuardOfLive /\ MovedOnlyDead /\ UnlinksJudged /\ OneSweep)'
    BY <1>11 DEF Write
  <2> QED
    BY <2>2, <2>3
<1>12. ASSUME NEW p \in Proc, Check(p) PROVE Rest'
  BY <1>12 DEF Check
<1>13. ASSUME NEW p \in Proc, Backoff(p) PROVE Rest'
  BY <1>13 DEF Backoff
<1>14. ASSUME NEW p \in Proc, Release(p) PROVE Rest'
  BY <1>14 DEF Release, EndSweep
<1>15. ASSUME NEW p \in Proc, Inspect(p) PROVE Rest'
  BY <1>15 DEF Inspect
<1>16. ASSUME NEW p \in Proc, OpenBreaker(p) PROVE Rest'
  <2>1. ASSUME NEW q \in alive, q # p, breaker = Opened(q) \/ breaker = Written(q)
        PROVE  breaker' = breaker
    BY <1>16, <2>1 DEF OpenBreaker
  <2>2. BreakerOfLive'
    BY <1>16, <2>1 DEF OpenBreaker
  <2>3. (LockOfLive /\ GuardOfLive /\ MovedOnlyDead /\ UnlinksJudged /\ OneSweep)'
    BY <1>16 DEF OpenBreaker
  <2> QED
    BY <2>2, <2>3
<1>17. ASSUME NEW p \in Proc, WriteBreaker(p) PROVE Rest'
  <2>1. ASSUME NEW q \in alive, q # p, breaker = Opened(q) \/ breaker = Written(q)
        PROVE  breaker' = breaker
    BY <1>17, <2>1 DEF WriteBreaker
  <2>2. BreakerOfLive'
    BY <1>17, <2>1 DEF WriteBreaker
  <2>3. (LockOfLive /\ GuardOfLive /\ MovedOnlyDead /\ UnlinksJudged /\ OneSweep)'
    BY <1>17 DEF WriteBreaker
  <2> QED
    BY <2>2, <2>3
<1>18. ASSUME NEW p \in Proc, Recheck(p) PROVE Rest'
  BY <1>18 DEF Recheck
<1>19. ASSUME NEW p \in Proc, Rename(p) PROVE Rest'
  BY <1>19 DEF Rename
<1>20. ASSUME NEW p \in Proc, JudgeMoved(p) PROVE Rest'
  BY <1>20 DEF JudgeMoved
<1>21. ASSUME NEW p \in Proc, Unbreak(p) PROVE Rest'
  BY <1>21 DEF Unbreak
<1>22. ASSUME NEW p \in Proc, SweepGuard(p) PROVE Rest'
  BY <1>22 DEF SweepGuard
<1>23. ASSUME NEW p \in Proc, UnlinkGuard(p) PROVE Rest'
  BY <1>23 DEF UnlinkGuard
<1>24. ASSUME NEW p \in Proc, SweepBreaker(p) PROVE Rest'
  BY <1>24 DEF SweepBreaker
<1>25. ASSUME NEW p \in Proc, SweepMoved(p) PROVE Rest'
  BY <1>25 DEF SweepMoved
<1>26. ASSUME NEW p \in Proc, SweepLock(p) PROVE Rest'
  BY <1>26 DEF SweepLock
<1>27. ASSUME NEW p \in Proc, Call(p) PROVE Rest'
  BY <1>27 DEF Call
<1>28. ASSUME NEW p \in Proc, GiveUp(p) PROVE Rest'
  BY <1>28 DEF GiveUp, EndSweep
<1>29. ASSUME NEW p \in Proc, StartSweep(p) PROVE Rest'
  BY <1>29 DEF StartSweep
<1>30. ASSUME NEW p \in Proc, Crash(p) PROVE Rest'
  BY <1>30 DEF Crash
<1> QED
  BY <1>0, <1>1, <1>2, <1>3, <1>4, <1>5, <1>6, <1>7, <1>8, <1>9, <1>10,
     <1>11, <1>12, <1>13, <1>14, <1>15, <1>16, <1>17, <1>18, <1>19, <1>20,
     <1>21, <1>22, <1>23, <1>24, <1>25, <1>26, <1>27, <1>28, <1>29, <1>30
  DEF Next, Step, ClearBreaker, Acquire, Sweep

\* IInv holds in every reachable state, for any set of processes.
LEMMA Invariance == Spec => []IInv
  BY InitIInv, StepIInv, PTL DEF Spec

\* Every variable of the lock protocol keeps its type.
THEOREM TypeCorrectness == Spec => []TypeOK
<1>1. IInv => TypeOK
  BY DEF IInv
<1> QED
  BY Invariance, <1>1, PTL

\* Two live processes are never both inside fn: a process inside fn has its
\* own token at the lock's path, and the path holds one file.
THEOREM Exclusion == Spec => []MutualExclusion
<1>1. IInv => MutualExclusion
  BY DEF IInv, MutualExclusion, FileOfLive, LockOfLive, Holding
<1> QED
  BY Invariance, <1>1, PTL

\* A live process's lock, breaker and guard are removed by itself only, however
\* slow it is and however many others die breaking locks.
THEOREM LiveKeepsFiles == Spec => []FileOfLive
<1>1. IInv => FileOfLive
  BY DEF IInv
<1> QED
  BY Invariance, <1>1, PTL

\* What is renamed or unlinked by name is what was judged dead, and no live
\* holder's lock is ever moved aside: the handback is never needed.
THEOREM RemovesOnlyDead == Spec => [](UnlinksJudged /\ MovedOnlyDead)
<1>1. IInv => UnlinksJudged /\ MovedOnlyDead
  BY DEF IInv
<1> QED
  BY Invariance, <1>1, PTL

=============================================================================
