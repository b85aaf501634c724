-------------------------- MODULE NudgeSpoolProofs --------------------------
(***************************************************************************)
(* What the spool promises, for any number of drains, workers, stalls and  *)
(* faults: no finding is lost, no job leaves unanswered and untried, and   *)
(* two drains never re-drive the job at once.                              *)
(*                                                                         *)
(* None of the three is inductive.  A removal is decided in one step and   *)
(* carried out in a later one, so each needs what the memory of a pass may *)
(* rest on: a result in dr[p].drop has been discharged (DropDischarged), a *)
(* pass that settled the job or knew its marker has an answer behind it,   *)
(* an input about to be unlinked is answered or retried (Memory, Justified *)
(* and Cleared), and only a pass past its creation of the lock has a lock  *)
(* (LockPC).                                                               *)
(***************************************************************************)
EXTENDS NudgeSpool, TLAPS

Owner == Drains \cup {NoOwner}
File == {"none", "new", "old"}
Lock == {"none", "held", "old"}
Redriving == {"locked", "pruning", "pruning copy", "copying", "spawning", "discharging",
              "releasing"}
DrainPC == {"idle", "listed", "claiming", "locking", "contending", "consuming", "done"}
           \cup Redriving
WorkerPC == {"none", "spawned", "classifying", "clearing", "exited"}

ResultType == [run : Runs, owner : Owner, old : BOOLEAN, good : BOOLEAN]
PassType == [pc : DrainPC, seen : SUBSET (Owner \X Nat), plain : BOOLEAN, copy : BOOLEAN,
             know : BOOLEAN, deferred : BOOLEAN, settled : BOOLEAN,
             drop : SUBSET Runs, take : SUBSET Runs]

TypeOK ==
    /\ plain \in File /\ copy \in File
    /\ results \subseteq ResultType
    /\ locks \in [Drains -> Lock]
    /\ marked \in BOOLEAN /\ full \in BOOLEAN
    /\ workers \in [Runs -> [of : {"plain", "copy"}, pc : WorkerPC]]
    /\ dr \in [Drains -> PassType]
    /\ answered \in BOOLEAN /\ found \in BOOLEAN /\ retried \in BOOLEAN
    /\ placed \in BOOLEAN /\ refused \in BOOLEAN /\ faults \in Nat

\* What a pass is about to remove has been discharged.
DropDischarged == \A p \in Drains : dr[p].drop # {} => Discharged

\* What a pass remembers of the session's lines is what they still say.
KnowMarked == \A p \in Drains : dr[p].know => marked

\* There is a result, or the memory of one, only once a worker has answered.
Memory ==
    /\ results # {} => answered
    /\ marked => answered
    /\ \A p \in Drains : dr[p].settled \/ dr[p].take # {} => answered
    /\ \A n \in Runs : workers[n].pc = "clearing" => answered

\* A pass that unlinks the job's input has a reason to.
Justified ==
    \A p \in Drains :
        /\ dr[p].pc = "pruning" => dr[p].settled \/ dr[p].know \/ ~dr[p].plain
        /\ dr[p].pc = "discharging" => retried

\* The original input is gone only once the job was answered or retried.
Cleared == plain = "none" => answered \/ retried

\* A lock on disk is that of a pass which created it and has not let go of it,
\* or which died.
LockPC == \A p \in Drains : locks[p] # "none" => dr[p].pc \in Redriving \cup {"contending", "done"}

\* Two passes never hold the job under unexpired locks, whoever they are.
Holds(p) == locks[p] = "held" /\ dr[p].pc \in Redriving
OneHolder == \A p, q \in Drains : Holds(p) /\ Holds(q) => p = q

IInv ==
    /\ TypeOK
    /\ DropDischarged /\ KnowMarked /\ FindingKept
    /\ Memory /\ Justified /\ Cleared
    /\ LockPC /\ OneHolder

\* Initially there is the job, its worker and nothing else.
LEMMA InitIInv == Init => IInv
<1> SUFFICES ASSUME Init PROVE IInv
  OBVIOUS
<1> USE ConstantsAssumption DEF Init, Pass, Drains
<1>1. TypeOK
  BY DEF TypeOK, File, Lock, WorkerPC, DrainPC, PassType, Owner, Runs, ResultType
<1>2. DropDischarged /\ KnowMarked /\ FindingKept
  BY DEF DropDischarged, KnowMarked, FindingKept
<1>3. Memory /\ Justified /\ Cleared
  BY DEF Memory, Justified, Cleared
<1>4. LockPC /\ OneHolder
  BY DEF LockPC, OneHolder, Holds
<1> QED
  BY <1>1, <1>2, <1>3, <1>4 DEF IInv

USE DEF files, ghosts, Goto, Swept, Exit, Fault, Working, Pass

\* The labels of a pass.
LEMMA DrainPCs ==
    /\ {"idle", "listed", "claiming", "locking", "consuming", "done"} \subseteq DrainPC
    /\ {"contending", "locked", "pruning", "pruning copy"} \subseteq DrainPC
    /\ {"copying", "spawning", "discharging", "releasing"} \subseteq DrainPC
  BY DEF DrainPC, Redriving

\* A pass that moves to a label, ends its sweep or exits is still a pass.
LEMMA GotoType ==
    ASSUME dr \in [Drains -> PassType], NEW p \in Drains, NEW pc \in DrainPC, Goto(p, pc)
    PROVE  dr' \in [Drains -> PassType]
  BY DEF PassType

\* A drain that has swept keeps its type.
LEMMA SweptType ==
    ASSUME dr \in [Drains -> PassType], NEW p \in Drains, Swept(p)
    PROVE  dr' \in [Drains -> PassType]
  BY DrainPCs DEF PassType

\* A drain that exits keeps its type.
LEMMA ExitType ==
    ASSUME dr \in [Drains -> PassType], NEW p \in Drains, Exit(p)
    PROVE  dr' \in [Drains -> PassType]
  BY DrainPCs DEF PassType

\* The results after a claim are results.
LEMMA ClaimedType ==
    ASSUME results \subseteq ResultType, NEW p \in Drains, NEW r \in results
    PROVE  Claimed(p, r) \subseteq ResultType
  BY DEF Claimed, ResultType, Owner

\* Every step keeps every variable in its type.
LEMMA TypeStep == TypeOK /\ [Next]_vars => TypeOK'
<1> SUFFICES ASSUME TypeOK, [Next]_vars PROVE TypeOK'
  OBVIOUS
<1> USE DEF File, Lock
<1>0. CASE UNCHANGED vars
  BY <1>0 DEF TypeOK, vars
<1>1. ASSUME NEW n \in Runs, ReadJob(n) PROVE TypeOK'
  BY <1>1 DEF TypeOK, ReadJob, WorkerPC
<1>2. ASSUME NEW n \in Runs, Nothing(n) PROVE TypeOK'
  BY <1>2 DEF TypeOK, Nothing, WorkerPC
<1>3. ASSUME NEW n \in Runs, Finding(n) PROVE TypeOK'
  <2>1. Result(n) \in ResultType
    BY DEF TypeOK, Result, ResultType, Owner
  <2>2. results' \subseteq ResultType
    BY <2>1, <1>3 DEF TypeOK, Finding
  <2> QED
    BY <2>2, <1>3 DEF TypeOK, Finding, WorkerPC
<1>4. ASSUME NEW n \in Runs, ClearInput(n) PROVE TypeOK'
  BY <1>4 DEF TypeOK, ClearInput, WorkerPC
<1>5. ASSUME NEW n \in Runs, WorkerFails(n) PROVE TypeOK'
  BY <1>5 DEF TypeOK, WorkerFails, WorkerPC
<1>6. ASSUME NEW r \in results, Corrupt(r) PROVE TypeOK'
  <2>1. results' \subseteq ResultType
    BY <1>6 DEF TypeOK, Corrupt, ResultType
  <2>2. found' \in BOOLEAN
    BY <1>6 DEF TypeOK, Corrupt
  <2> QED
    BY <2>1, <2>2, <1>6 DEF TypeOK, Corrupt
<1>7. ASSUME NEW p \in Drains, List(p) PROVE TypeOK'
  <2>1. {Name(r) : r \in results} \in SUBSET (Owner \X Nat)
    BY DEF TypeOK, Name, ResultType, Owner, Runs
  <2>2. (p \in Prompts /\ plain # "none") \in BOOLEAN /\ (p \in Prompts /\ copy # "none") \in BOOLEAN
    OBVIOUS
  <2> QED
    BY <2>1, <2>2, <1>7, DrainPCs DEF TypeOK, List, PassType
<1>8. ASSUME NEW p \in Drains, ReadInjected(p) PROVE TypeOK'
  <2>1. marked \in BOOLEAN
    BY DEF TypeOK
  <2>2. dr \in [Drains -> PassType] /\ dr[p] \in PassType
        /\ dr' = [dr EXCEPT ![p].know = marked, ![p].pc = "claiming"]
    BY <1>8 DEF TypeOK, ReadInjected
  <2>3. dr' \in [Drains -> PassType]
    BY <2>2, <2>1, DrainPCs DEF PassType
  <2> QED
    BY <2>3, <1>8 DEF TypeOK, ReadInjected
<1>9. ASSUME NEW p \in Drains, NEW nm \in dr[p].seen, ClaimLost(p, nm)
      PROVE  TypeOK'
  <2>1. (p \in Prompts) \in BOOLEAN
    OBVIOUS
  <2>2. dr \in [Drains -> PassType] /\ dr[p] \in PassType
        /\ dr' = [dr EXCEPT ![p].seen = @ \ {nm}, ![p].deferred = p \in Prompts]
    BY <1>9 DEF TypeOK, ClaimLost
  <2>3. dr' \in [Drains -> PassType]
    BY <2>2, <2>1 DEF PassType
  <2> QED
    BY <2>3, <1>9 DEF TypeOK, ClaimLost
<1>10. ASSUME NEW p \in Drains, NEW r \in results, ClaimFails(p, r)
      PROVE  TypeOK'
  <2>1. (p \in Prompts) \in BOOLEAN
    OBVIOUS
  <2>2. dr \in [Drains -> PassType] /\ dr[p] \in PassType
        /\ dr' = [dr EXCEPT ![p].seen = @ \ {Name(r)},
                                                           ![p].deferred = p \in Prompts]
    BY <1>10 DEF TypeOK, ClaimFails
  <2>3. dr' \in [Drains -> PassType]
    BY <2>2, <2>1 DEF PassType
  <2>4. results' \subseteq ResultType
    BY <1>10, ClaimedType DEF TypeOK, ClaimFails, Claimed
  <2> QED
    BY <2>3, <2>4, <1>10 DEF TypeOK, ClaimFails
<1>11. ASSUME NEW p \in Drains, NEW r \in results, Claim(p, r) PROVE TypeOK'
  <2> DEFINE rest == dr[p].seen \ {Name(r)}
  <2>1. dr \in [Drains -> PassType] /\ dr[p] \in PassType /\ r.run \in Runs /\ (p \in Prompts) \in BOOLEAN
    BY DEF TypeOK, ResultType
  <2>2. ASSUME dr' = [dr EXCEPT ![p].seen = rest]
        PROVE  dr' \in [Drains -> PassType]
    BY <2>1, <2>2 DEF PassType
  <2>3. ASSUME dr' = [dr EXCEPT ![p].seen = rest, ![p].settled = TRUE,
                                ![p].drop = @ \cup {r.run}]
        PROVE  dr' \in [Drains -> PassType]
    BY <2>1, <2>3 DEF PassType
  <2>4. ASSUME dr' = [dr EXCEPT ![p].seen = rest, ![p].settled = p \in Prompts,
                                ![p].take = @ \cup {r.run}]
        PROVE  dr' \in [Drains -> PassType]
    BY <2>1, <2>4 DEF PassType
  <2>5. results' \subseteq ResultType
    BY <1>11, ClaimedType DEF TypeOK, Claim
  <2> QED
    BY <2>2, <2>3, <2>4, <2>5, <1>11 DEF TypeOK, Claim
<1>12. ASSUME NEW p \in Drains, ClaimsRead(p) PROVE TypeOK'
  BY <1>12, GotoType, SweptType, DrainPCs DEF TypeOK, ClaimsRead
<1>13. ASSUME NEW p \in Drains, CreateLock(p) PROVE TypeOK'
  BY <1>13, GotoType, DrainPCs DEF TypeOK, CreateLock
<1>14. ASSUME NEW p \in Drains, LockFails(p) PROVE TypeOK'
  <2>1. faults' \in Nat
    BY <1>14 DEF TypeOK, LockFails
  <2>2. dr' \in [Drains -> PassType]
    BY <1>14, SweptType DEF TypeOK, LockFails
  <2> QED
    BY <2>1, <2>2, <1>14 DEF TypeOK, LockFails
<1>15. ASSUME NEW p \in Drains, ListLocks(p) PROVE TypeOK'
  BY <1>15, GotoType, SweptType, DrainPCs DEF TypeOK, ListLocks
<1>16. ASSUME NEW p \in Drains, Decide(p) PROVE TypeOK'
  <2>1. Verdict(p) \in DrainPC
    BY DrainPCs DEF TypeOK, Verdict
  <2> QED
    BY <1>16, <2>1, GotoType DEF TypeOK, Decide
<1>17. ASSUME NEW p \in Drains, PrunePlain(p) PROVE TypeOK'
  BY <1>17, GotoType, DrainPCs DEF TypeOK, PrunePlain
<1>18. ASSUME NEW p \in Drains, PruneCopy(p) PROVE TypeOK'
  BY <1>18, GotoType, DrainPCs DEF TypeOK, PruneCopy
<1>19. ASSUME NEW p \in Drains, Copy(p) PROVE TypeOK'
  BY <1>19, GotoType, DrainPCs DEF TypeOK, Copy
<1>20. ASSUME NEW p \in Drains, SpawnFails(p) PROVE TypeOK'
  <2>1. faults' \in Nat
    BY <1>20 DEF TypeOK, SpawnFails
  <2>2. dr' \in [Drains -> PassType]
    BY <1>20, GotoType, DrainPCs DEF TypeOK, SpawnFails
  <2> QED
    BY <2>1, <2>2, <1>20 DEF TypeOK, SpawnFails
<1>21. ASSUME NEW p \in Drains, Discharge(p) PROVE TypeOK'
  BY <1>21, GotoType, DrainPCs DEF TypeOK, Discharge
<1>22. ASSUME NEW p \in Drains, Release(p) PROVE TypeOK'
  BY <1>22, SweptType DEF TypeOK, Release
<1>23. ASSUME NEW p \in Drains, NEW n \in Runs, Spawn(p, n) PROVE TypeOK'
  BY <1>23, GotoType, DrainPCs DEF TypeOK, Spawn, WorkerPC
<1>24. ASSUME NEW p \in Drains, NEW n \in Runs, Discard(p, n) PROVE TypeOK'
  <2>1. dr \in [Drains -> PassType] /\ dr[p] \in PassType
        /\ dr' = [dr EXCEPT ![p].drop = @ \ {n}]
    BY <1>24 DEF TypeOK, Discard
  <2>2. dr' \in [Drains -> PassType]
    BY <2>1 DEF PassType
  <2>3. results' \subseteq ResultType
    BY <1>24 DEF TypeOK, Discard, Consume, Unlink
  <2> QED
    BY <2>2, <2>3, <1>24 DEF TypeOK, Discard
<1>25. ASSUME NEW p \in Drains, NEW n \in Runs, Mark(p, n) PROVE TypeOK'
  <2>1. dr \in [Drains -> PassType] /\ dr[p] \in PassType
    BY DEF TypeOK
  <2>2. ASSUME dr' = [dr EXCEPT ![p].take = @ \ {n}, ![p].drop = {n}]
        PROVE  dr' \in [Drains -> PassType]
    BY <2>1, <2>2 DEF PassType
  <2>3. ASSUME dr' = [dr EXCEPT ![p].take = @ \ {n}]
        PROVE  dr' \in [Drains -> PassType]
    BY <2>1, <2>3 DEF PassType
  <2>4. faults' \in Nat
    BY <1>25 DEF TypeOK, Mark
  <2> QED
    BY <2>2, <2>3, <2>4, <1>25 DEF TypeOK, Mark
<1>26. ASSUME NEW p \in Drains, Inject(p) PROVE TypeOK'
  BY <1>26, ExitType DEF TypeOK, Inject
<1>27. ASSUME NEW p \in Drains, NEW n \in Runs, Capture(p, n) PROVE TypeOK'
  <2> DEFINE kept == IF faults' # faults THEN {} ELSE {n}
  <2>1. dr \in [Drains -> PassType] /\ dr[p] \in PassType
        /\ dr' = [dr EXCEPT ![p].take = @ \ {n}, ![p].drop = kept]
    BY <1>27 DEF TypeOK, Capture
  <2>2. dr' \in [Drains -> PassType]
    BY <2>1 DEF PassType
  <2>3. faults' \in Nat
    BY <1>27 DEF TypeOK, Capture
  <2> QED
    BY <2>2, <2>3, <1>27 DEF TypeOK, Capture
<1>28. ASSUME NEW p \in Drains, NEW n \in Runs, ConsumeCaptured(p, n)
      PROVE  TypeOK'
  <2>1. dr \in [Drains -> PassType] /\ dr[p] \in PassType
        /\ dr' = [dr EXCEPT ![p].drop = {}]
    BY <1>28 DEF TypeOK, ConsumeCaptured
  <2>2. dr' \in [Drains -> PassType]
    BY <2>1 DEF PassType
  <2>3. results' \subseteq ResultType
    BY <1>28 DEF TypeOK, ConsumeCaptured, Unlink
  <2> QED
    BY <2>2, <2>3, <1>28 DEF TypeOK, ConsumeCaptured
<1>29. ASSUME NEW p \in Drains, EndPass(p) PROVE TypeOK'
  BY <1>29, ExitType DEF TypeOK, EndPass
<1>30. ASSUME NEW p \in Drains, Crash(p) PROVE TypeOK'
  <2>1. faults' \in Nat
    BY <1>30 DEF TypeOK, Crash
  <2>2. dr' \in [Drains -> PassType]
    BY <1>30, ExitType DEF TypeOK, Crash
  <2> QED
    BY <2>1, <2>2, <1>30 DEF TypeOK, Crash
<1>31. ASSUME ClaimHold PROVE TypeOK'
  <2>1. results' \subseteq ResultType
    <3>1. ASSUME NEW r \in results PROVE [r EXCEPT !.old = r.owner # NoOwner] \in ResultType
      <4>1. (r.owner # NoOwner) \in BOOLEAN
        OBVIOUS
      <4> QED
        BY <4>1 DEF TypeOK, ResultType
    <3> QED
      BY <3>1, <1>31 DEF TypeOK, ClaimHold, Expired
  <2> QED
    BY <2>1, <1>31 DEF TypeOK, ClaimHold, Expired
<1>32. ASSUME OrphanInput PROVE TypeOK'
  <2>1. results' \subseteq ResultType
    <3>1. ASSUME NEW r \in results PROVE [r EXCEPT !.old = r.owner # NoOwner] \in ResultType
      <4>1. (r.owner # NoOwner) \in BOOLEAN
        OBVIOUS
      <4> QED
        BY <4>1 DEF TypeOK, ResultType
    <3> QED
      BY <3>1, <1>32 DEF TypeOK, OrphanInput, Expired
  <2> QED
    BY <2>1, <1>32 DEF TypeOK, OrphanInput, Expired, Aged
<1> QED
  BY <1>0, <1>1, <1>2, <1>3, <1>4, <1>5, <1>6, <1>7, <1>8, <1>9, <1>10,
     <1>11, <1>12, <1>13, <1>14, <1>15, <1>16, <1>17, <1>18, <1>19, <1>20,
     <1>21, <1>22, <1>23, <1>24, <1>25, <1>26, <1>27, <1>28, <1>29, <1>30,
     <1>31, <1>32
  DEF Next, Worker, Drain

\* Claiming or ageing the results keeps a readable one readable.
LEMMA ClaimedGood ==
    ASSUME results \subseteq ResultType, NEW p \in Drains, NEW r \in results,
           \E o \in results : o.good
    PROVE  \E o \in Claimed(p, r) : o.good
<1>1. [r EXCEPT !.owner = p, !.old = FALSE].good = r.good
  BY DEF ResultType
<1> QED
  BY <1>1 DEF Claimed

\* A good result is left when the expired ones are swept.
LEMMA ExpiredGood ==
    ASSUME results \subseteq ResultType, Expired, \E o \in results : o.good
    PROVE  \E o \in results' : o.good
<1>1. PICK o \in results : o.good
  OBVIOUS
<1>2. [o EXCEPT !.old = o.owner # NoOwner].good
  BY <1>1 DEF ResultType
<1>3. [o EXCEPT !.old = o.owner # NoOwner] \in results'
  BY DEF Expired
<1> QED
  BY <1>2, <1>3

\* A finding stays in the spool until it is discharged: every step keeps that, and
\* keeps what it rests on.
LEMMA FindingStep == IInv /\ [Next]_vars => (DropDischarged /\ KnowMarked /\ FindingKept)'
<1> DEFINE Kept == DropDischarged /\ KnowMarked /\ FindingKept
<1> SUFFICES ASSUME IInv, [Next]_vars PROVE Kept'
  OBVIOUS
<1>t. TypeOK /\ TypeOK'
  BY TypeStep DEF IInv
<1>r. /\ dr \in [Drains -> PassType] /\ dr' \in [Drains -> PassType]
      /\ results \subseteq ResultType /\ workers \in [Runs -> [of : {"plain", "copy"}, pc : WorkerPC]]
      /\ locks \in [Drains -> Lock]
      /\ DropDischarged /\ KnowMarked /\ FindingKept
  BY <1>t DEF TypeOK, IInv
<1> USE <1>r DEF PassType, DropDischarged, KnowMarked, FindingKept, Discharged
<1>0. CASE UNCHANGED vars
  BY <1>0 DEF vars
<1>1. ASSUME NEW n \in Runs, ReadJob(n) PROVE Kept'
  BY <1>1 DEF ReadJob
<1>2. ASSUME NEW n \in Runs, Nothing(n) PROVE Kept'
  BY <1>2 DEF Nothing
<1>3. ASSUME NEW n \in Runs, Finding(n) PROVE Kept'
  <2>1. (DropDischarged /\ KnowMarked)'
    BY <1>3 DEF Finding
  <2>2. Result(n) \in results' /\ Result(n).good
    BY <1>3 DEF Finding, Result
  <2> QED
    BY <2>1, <2>2
<1>4. ASSUME NEW n \in Runs, ClearInput(n) PROVE Kept'
  BY <1>4 DEF ClearInput
<1>5. ASSUME NEW n \in Runs, WorkerFails(n) PROVE Kept'
  BY <1>5 DEF WorkerFails
<1>6. ASSUME NEW r \in results, Corrupt(r) PROVE Kept'
  BY <1>6 DEF Corrupt
<1>7. ASSUME NEW p \in Drains, List(p) PROVE Kept'
  BY <1>7 DEF List
<1>8. ASSUME NEW p \in Drains, ReadInjected(p) PROVE Kept'
  BY <1>8 DEF ReadInjected
<1>9. ASSUME NEW p \in Drains, NEW nm \in dr[p].seen, ClaimLost(p, nm)
      PROVE  Kept'
  BY <1>9 DEF ClaimLost
<1>10. ASSUME NEW p \in Drains, NEW r \in results, ClaimFails(p, r) PROVE Kept'
  <2>1. (DropDischarged /\ KnowMarked)'
    BY <1>10 DEF ClaimFails
  <2>2. results' = results \/ results' = Claimed(p, r)
    BY <1>10 DEF ClaimFails, Claimed
  <2>3. FindingKept'
    BY <1>10, <2>2, ClaimedGood DEF ClaimFails
  <2> QED
    BY <2>1, <2>3
<1>11. ASSUME NEW p \in Drains, NEW r \in results, Claim(p, r) PROVE Kept'
  <2>1. r.good => \/ results' = Claimed(p, r)
                  \/ results' = results \ {r} /\ Discharged
    BY <1>11 DEF Claim
  <2>2. ~r.good => results' = results \ {r}
    BY <1>11 DEF Claim
  <2>3. FindingKept'
    BY <1>11, <2>1, <2>2, ClaimedGood DEF Claim
  <2>4. \A q \in Drains : /\ dr'[q].know = dr[q].know
                          /\ dr'[q].drop = dr[q].drop \/ Discharged
    BY <1>11 DEF Claim
  <2>5. (DropDischarged /\ KnowMarked)'
    BY <1>11, <2>4 DEF Claim
  <2> QED
    BY <2>3, <2>5
<1>12. ASSUME NEW p \in Drains, ClaimsRead(p) PROVE Kept'
  <2>1. CASE Goto(p, "locking")
    BY <2>1, <1>12 DEF ClaimsRead
  <2>2. CASE Swept(p)
    BY <2>2, <1>12 DEF ClaimsRead
  <2> QED
    BY <2>1, <2>2, <1>12 DEF ClaimsRead
<1>13. ASSUME NEW p \in Drains, CreateLock(p) PROVE Kept'
  BY <1>13 DEF CreateLock
<1>14. ASSUME NEW p \in Drains, LockFails(p) PROVE Kept'
  BY <1>14 DEF LockFails
<1>15. ASSUME NEW p \in Drains, ListLocks(p) PROVE Kept'
  <2>1. CASE Goto(p, "locked")
    BY <2>1, <1>15 DEF ListLocks
  <2>2. CASE Swept(p)
    BY <2>2, <1>15 DEF ListLocks
  <2> QED
    BY <2>1, <2>2, <1>15 DEF ListLocks
<1>16. ASSUME NEW p \in Drains, Decide(p) PROVE Kept'
  BY <1>16 DEF Decide
<1>17. ASSUME NEW p \in Drains, PrunePlain(p) PROVE Kept'
  BY <1>17 DEF PrunePlain
<1>18. ASSUME NEW p \in Drains, PruneCopy(p) PROVE Kept'
  BY <1>18 DEF PruneCopy
<1>19. ASSUME NEW p \in Drains, Copy(p) PROVE Kept'
  BY <1>19 DEF Copy
<1>20. ASSUME NEW p \in Drains, SpawnFails(p) PROVE Kept'
  BY <1>20 DEF SpawnFails
<1>21. ASSUME NEW p \in Drains, Discharge(p) PROVE Kept'
  BY <1>21 DEF Discharge
<1>22. ASSUME NEW p \in Drains, Release(p) PROVE Kept'
  BY <1>22 DEF Release
<1>23. ASSUME NEW p \in Drains, NEW n \in Runs, Spawn(p, n) PROVE Kept'
  BY <1>23 DEF Spawn
<1>24. ASSUME NEW p \in Drains, NEW n \in Runs, Discard(p, n) PROVE Kept'
  BY <1>24 DEF Discard, Consume, Unlink
<1>25. ASSUME NEW p \in Drains, NEW n \in Runs, Mark(p, n) PROVE Kept'
  <2>1. CASE marked'
    BY <2>1, <1>25 DEF Mark
  <2>2. CASE UNCHANGED marked
    <3>1. \A q \in Drains : dr'[q].know = dr[q].know
      BY <1>25 DEF Mark
    <3>2. dr'[p].drop # {} => marked'
      BY <2>2, <1>25 DEF Mark
    <3>3. \A q \in Drains : q # p => dr'[q].drop = dr[q].drop
      BY <1>25 DEF Mark
    <3> QED
      BY <2>2, <3>1, <3>2, <3>3, <1>25 DEF Mark
  <2> QED
    BY <2>1, <2>2, <1>25 DEF Mark
<1>26. ASSUME NEW p \in Drains, Inject(p) PROVE Kept'
  BY <1>26 DEF Inject
<1>27. ASSUME NEW p \in Drains, NEW n \in Runs, Capture(p, n) PROVE Kept'
  <2>1. dr'[p].drop # {} => placed' \/ refused'
    <3>1. dr'[p].drop = IF faults' # faults THEN {} ELSE {n}
      BY <1>27 DEF Capture
    <3>2. faults + 1 # faults
      BY <1>t DEF TypeOK
    <3> QED
      BY <3>1, <3>2, <1>27 DEF Capture
  <2>2. \A q \in Drains : dr'[q].know = dr[q].know /\ (q # p => dr'[q].drop = dr[q].drop)
    BY <1>27 DEF Capture
  <2>3. Discharged => Discharged'
    BY <1>27 DEF Capture
  <2> QED
    BY <2>1, <2>2, <2>3, <1>27 DEF Capture
<1>28. ASSUME NEW p \in Drains, NEW n \in Runs, ConsumeCaptured(p, n)
      PROVE  Kept'
  BY <1>28 DEF ConsumeCaptured, Unlink
<1>29. ASSUME NEW p \in Drains, EndPass(p) PROVE Kept'
  BY <1>29 DEF EndPass
<1>30. ASSUME NEW p \in Drains, Crash(p) PROVE Kept'
  BY <1>30 DEF Crash
<1>31. ASSUME ClaimHold PROVE Kept'
  <2>1. (DropDischarged /\ KnowMarked)'
    BY <1>31 DEF ClaimHold
  <2>2. FindingKept'
    BY <1>31, ExpiredGood DEF ClaimHold
  <2> QED
    BY <2>1, <2>2
<1>32. ASSUME OrphanInput PROVE Kept'
  <2>1. (DropDischarged /\ KnowMarked)'
    BY <1>32 DEF OrphanInput
  <2>2. FindingKept'
    BY <1>32, ExpiredGood DEF OrphanInput
  <2> QED
    BY <2>1, <2>2
<1> QED
  BY <1>0, <1>1, <1>2, <1>3, <1>4, <1>5, <1>6, <1>7, <1>8, <1>9, <1>10,
     <1>11, <1>12, <1>13, <1>14, <1>15, <1>16, <1>17, <1>18, <1>19, <1>20,
     <1>21, <1>22, <1>23, <1>24, <1>25, <1>26, <1>27, <1>28, <1>29, <1>30,
     <1>31, <1>32
  DEF Next, Worker, Drain

\* An input leaves the spool with an answer or a retry behind it: every step keeps
\* that, and keeps what it rests on.
LEMMA JobStep == IInv /\ [Next]_vars => (Memory /\ Justified /\ Cleared)'
<1> DEFINE Kept == Memory /\ Justified /\ Cleared
<1> SUFFICES ASSUME IInv, [Next]_vars PROVE Kept'
  OBVIOUS
<1>t. TypeOK /\ TypeOK'
  BY TypeStep DEF IInv
<1>r. /\ dr \in [Drains -> PassType] /\ dr' \in [Drains -> PassType]
      /\ results \subseteq ResultType /\ workers \in [Runs -> [of : {"plain", "copy"}, pc : WorkerPC]]
      /\ locks \in [Drains -> Lock]
      /\ KnowMarked /\ Memory /\ Justified /\ Cleared
  BY <1>t DEF TypeOK, IInv
<1> USE <1>r DEF PassType, Memory, Justified, Cleared
<1>0. CASE UNCHANGED vars
  BY <1>0 DEF vars
<1>1. ASSUME NEW n \in Runs, ReadJob(n) PROVE Kept'
  BY <1>1 DEF ReadJob
<1>2. ASSUME NEW n \in Runs, Nothing(n) PROVE Kept'
  BY <1>2 DEF Nothing
<1>3. ASSUME NEW n \in Runs, Finding(n) PROVE Kept'
  BY <1>3 DEF Finding, Result
<1>4. ASSUME NEW n \in Runs, ClearInput(n) PROVE Kept'
  BY <1>4 DEF ClearInput
<1>5. ASSUME NEW n \in Runs, WorkerFails(n) PROVE Kept'
  BY <1>5 DEF WorkerFails
<1>6. ASSUME NEW r \in results, Corrupt(r) PROVE Kept'
  BY <1>6 DEF Corrupt
<1>7. ASSUME NEW p \in Drains, List(p) PROVE Kept'
  BY <1>7 DEF List
<1>8. ASSUME NEW p \in Drains, ReadInjected(p) PROVE Kept'
  BY <1>8 DEF ReadInjected
<1>9. ASSUME NEW p \in Drains, NEW nm \in dr[p].seen, ClaimLost(p, nm)
      PROVE  Kept'
  BY <1>9 DEF ClaimLost
<1>10. ASSUME NEW p \in Drains, NEW r \in results, ClaimFails(p, r) PROVE Kept'
  BY <1>10 DEF ClaimFails
<1>11. ASSUME NEW p \in Drains, NEW r \in results, Claim(p, r) PROVE Kept'
  BY <1>11 DEF Claim, Claimed
<1>12. ASSUME NEW p \in Drains, ClaimsRead(p) PROVE Kept'
  <2>1. CASE Goto(p, "locking")
    BY <2>1, <1>12 DEF ClaimsRead
  <2>2. CASE Swept(p)
    BY <2>2, <1>12 DEF ClaimsRead
  <2> QED
    BY <2>1, <2>2, <1>12 DEF ClaimsRead
<1>13. ASSUME NEW p \in Drains, CreateLock(p) PROVE Kept'
  BY <1>13 DEF CreateLock
<1>14. ASSUME NEW p \in Drains, LockFails(p) PROVE Kept'
  BY <1>14 DEF LockFails
<1>15. ASSUME NEW p \in Drains, ListLocks(p) PROVE Kept'
  <2>1. CASE Goto(p, "locked")
    BY <2>1, <1>15 DEF ListLocks
  <2>2. CASE Swept(p)
    BY <2>2, <1>15 DEF ListLocks
  <2> QED
    BY <2>1, <2>2, <1>15 DEF ListLocks
<1>16. ASSUME NEW p \in Drains, Decide(p) PROVE Kept'
  BY <1>16 DEF Decide, Verdict
<1>17. ASSUME NEW p \in Drains, PrunePlain(p) PROVE Kept'
  <2>1. Memory' /\ Justified'
    BY <1>17 DEF PrunePlain
  <2>2. dr[p].plain => answered
    BY <1>17 DEF PrunePlain, KnowMarked
  <2>3. Cleared'
    BY <2>2, <1>17 DEF PrunePlain
  <2> QED
    BY <2>1, <2>3
<1>18. ASSUME NEW p \in Drains, PruneCopy(p) PROVE Kept'
  BY <1>18 DEF PruneCopy
<1>19. ASSUME NEW p \in Drains, Copy(p) PROVE Kept'
  BY <1>19 DEF Copy
<1>20. ASSUME NEW p \in Drains, SpawnFails(p) PROVE Kept'
  BY <1>20 DEF SpawnFails
<1>21. ASSUME NEW p \in Drains, Discharge(p) PROVE Kept'
  BY <1>21 DEF Discharge
<1>22. ASSUME NEW p \in Drains, Release(p) PROVE Kept'
  BY <1>22 DEF Release
<1>23. ASSUME NEW p \in Drains, NEW n \in Runs, Spawn(p, n) PROVE Kept'
  BY <1>23 DEF Spawn
<1>24. ASSUME NEW p \in Drains, NEW n \in Runs, Discard(p, n) PROVE Kept'
  BY <1>24 DEF Discard, Consume, Unlink
<1>25. ASSUME NEW p \in Drains, NEW n \in Runs, Mark(p, n) PROVE Kept'
  <2>1. dr[p].take # {}
    BY <1>25 DEF Mark
  <2>2. answered
    BY <2>1
  <2>3. \A q \in Drains : dr'[q].settled = dr[q].settled /\ dr'[q].know = dr[q].know
    BY <1>25 DEF Mark
  <2>4. \A q \in Drains : dr'[q].plain = dr[q].plain /\ dr'[q].pc = dr[q].pc
    BY <1>25 DEF Mark
  <2> QED
    BY <2>2, <2>3, <2>4, <1>25 DEF Mark
<1>26. ASSUME NEW p \in Drains, Inject(p) PROVE Kept'
  BY <1>26 DEF Inject
<1>27. ASSUME NEW p \in Drains, NEW n \in Runs, Capture(p, n) PROVE Kept'
  BY <1>27 DEF Capture
<1>28. ASSUME NEW p \in Drains, NEW n \in Runs, ConsumeCaptured(p, n)
      PROVE  Kept'
  BY <1>28 DEF ConsumeCaptured, Unlink
<1>29. ASSUME NEW p \in Drains, EndPass(p) PROVE Kept'
  BY <1>29 DEF EndPass
<1>30. ASSUME NEW p \in Drains, Crash(p) PROVE Kept'
  BY <1>30 DEF Crash
<1>31. ASSUME ClaimHold PROVE Kept'
  BY <1>31 DEF ClaimHold, Expired
<1>32. ASSUME OrphanInput PROVE Kept'
  BY <1>32 DEF OrphanInput, Expired, Aged
<1> QED
  BY <1>0, <1>1, <1>2, <1>3, <1>4, <1>5, <1>6, <1>7, <1>8, <1>9, <1>10,
     <1>11, <1>12, <1>13, <1>14, <1>15, <1>16, <1>17, <1>18, <1>19, <1>20,
     <1>21, <1>22, <1>23, <1>24, <1>25, <1>26, <1>27, <1>28, <1>29, <1>30,
     <1>31, <1>32
  DEF Next, Worker, Drain

\* The lock changes hands only where it is taken or let go: a step that leaves
\* the locks alone and takes nobody past the creation keeps who holds it.
LEMMA Quiet ==
    ASSUME LockPC, OneHolder, UNCHANGED locks,
           \A q \in Drains : \/ dr'[q].pc = dr[q].pc
                             \/ dr'[q].pc = "done"
                             \/ dr[q].pc \notin Redriving \cup {"contending", "done"}
                             \/ dr[q].pc \in Redriving /\ dr'[q].pc \in Redriving
    PROVE  LockPC' /\ OneHolder'
  BY DEF LockPC, OneHolder, Holds, Redriving

\* At most one pass re-drives under an unexpired lock: every step keeps that.
LEMMA LockStep == IInv /\ [Next]_vars => (LockPC /\ OneHolder)'
<1> DEFINE Kept == LockPC /\ OneHolder
<1> SUFFICES ASSUME IInv, [Next]_vars PROVE Kept'
  OBVIOUS
<1>t. TypeOK /\ TypeOK'
  BY TypeStep DEF IInv
<1>r. /\ dr \in [Drains -> PassType] /\ dr' \in [Drains -> PassType]
      /\ results \subseteq ResultType /\ workers \in [Runs -> [of : {"plain", "copy"}, pc : WorkerPC]]
      /\ locks \in [Drains -> Lock]
      /\ LockPC /\ OneHolder
  BY <1>t DEF TypeOK, IInv
<1> USE <1>r DEF PassType
<1>0. CASE UNCHANGED vars
  BY <1>0 DEF vars, LockPC, OneHolder, Holds
<1>1. ASSUME NEW n \in Runs, ReadJob(n) PROVE Kept'
  BY <1>1, Quiet DEF ReadJob
<1>2. ASSUME NEW n \in Runs, Nothing(n) PROVE Kept'
  BY <1>2, Quiet DEF Nothing
<1>3. ASSUME NEW n \in Runs, Finding(n) PROVE Kept'
  BY <1>3, Quiet DEF Finding
<1>4. ASSUME NEW n \in Runs, ClearInput(n) PROVE Kept'
  BY <1>4, Quiet DEF ClearInput
<1>5. ASSUME NEW n \in Runs, WorkerFails(n) PROVE Kept'
  BY <1>5, Quiet DEF WorkerFails
<1>6. ASSUME NEW r \in results, Corrupt(r) PROVE Kept'
  BY <1>6, Quiet DEF Corrupt
<1>7. ASSUME NEW p \in Drains, List(p) PROVE Kept'
  <2>1. dr[p].pc = "idle" /\ dr'[p].pc = "listed" /\ UNCHANGED locks
    BY <1>7 DEF List
  <2>2. \A q \in Drains : q # p => dr'[q].pc = dr[q].pc
    BY <1>7 DEF List
  <2> QED
    BY <2>1, <2>2, Quiet DEF Redriving
<1>8. ASSUME NEW p \in Drains, ReadInjected(p) PROVE Kept'
  <2>1. dr[p].pc = "listed" /\ dr'[p].pc = "claiming" /\ UNCHANGED locks
    BY <1>8 DEF ReadInjected
  <2>2. \A q \in Drains : q # p => dr'[q].pc = dr[q].pc
    BY <1>8 DEF ReadInjected
  <2> QED
    BY <2>1, <2>2, Quiet DEF Redriving
<1>9. ASSUME NEW p \in Drains, NEW nm \in dr[p].seen, ClaimLost(p, nm)
      PROVE  Kept'
  BY <1>9, Quiet DEF ClaimLost
<1>10. ASSUME NEW p \in Drains, NEW r \in results, ClaimFails(p, r) PROVE Kept'
  BY <1>10, Quiet DEF ClaimFails
<1>11. ASSUME NEW p \in Drains, NEW r \in results, Claim(p, r) PROVE Kept'
  BY <1>11, Quiet DEF Claim
<1>12. ASSUME NEW p \in Drains, ClaimsRead(p) PROVE Kept'
  <2>1. dr[p].pc = "claiming" /\ UNCHANGED locks
    BY <1>12 DEF ClaimsRead
  <2>2. \A q \in Drains : q # p => dr'[q].pc = dr[q].pc
    BY <1>12 DEF ClaimsRead
  <2> QED
    BY <2>1, <2>2, Quiet DEF Redriving
<1>13. ASSUME NEW p \in Drains, CreateLock(p) PROVE Kept'
  <2>1. dr'[p].pc = "contending" /\ \A q \in Drains : q # p => locks'[q] = locks[q]
    BY <1>13 DEF CreateLock
  <2>2. \A q \in Drains : q # p => dr'[q].pc = dr[q].pc
    BY <1>13 DEF CreateLock
  <2>3. ~Holds(p)'
    BY <2>1 DEF Holds, Redriving
  <2>4. \A q \in Drains : q # p => Holds(q)' = Holds(q)
    BY <2>1, <2>2 DEF Holds
  <2>5. OneHolder'
    BY <2>3, <2>4 DEF OneHolder
  <2>6. LockPC'
    BY <2>1, <2>2 DEF LockPC
  <2> QED
    BY <2>5, <2>6
<1>14. ASSUME NEW p \in Drains, LockFails(p) PROVE Kept'
  <2>1. locks'[p] = "none" /\ \A q \in Drains : q # p => locks'[q] = locks[q]
    BY <1>14 DEF LockFails
  <2>2. \A q \in Drains : q # p => dr'[q].pc = dr[q].pc
    BY <1>14 DEF LockFails
  <2> QED
    BY <2>1, <2>2 DEF LockPC, OneHolder, Holds
<1>15. ASSUME NEW p \in Drains, ListLocks(p) PROVE Kept'
  <2>1. \A q \in Drains : q # p => dr'[q].pc = dr[q].pc
    BY <1>15 DEF ListLocks
  <2>2. CASE \E q \in Drains : Contends(p, q)
    <3>1. locks'[p] = "none" /\ \A q \in Drains : q # p => locks'[q] = locks[q]
      BY <2>2, <1>15 DEF ListLocks
    <3> QED
      BY <2>1, <3>1 DEF LockPC, OneHolder, Holds
  <2>3. CASE ~\E q \in Drains : Contends(p, q)
    <3>1. \A q \in Drains : q # p => ~Holds(q)
      BY <2>3 DEF Contends, Alive, Holds, Redriving
    <3>2. \A q \in Drains : locks'[q] = locks[q] \/ locks'[q] = "none"
      BY <2>3, <1>15 DEF ListLocks
    <3>3. dr'[p].pc = "locked" /\ "locked" \in Redriving
      BY <2>3, <1>15 DEF ListLocks, Redriving
    <3> QED
      BY <2>1, <3>1, <3>2, <3>3 DEF LockPC, OneHolder, Holds
  <2> QED
    BY <2>2, <2>3
<1>16. ASSUME NEW p \in Drains, Decide(p) PROVE Kept'
  <2>1. dr[p].pc = "locked" /\ dr'[p].pc \in {"pruning", "releasing", "copying"} /\ UNCHANGED locks
    BY <1>16 DEF Decide, Verdict
  <2>2. \A q \in Drains : q # p => dr'[q].pc = dr[q].pc
    BY <1>16 DEF Decide
  <2> QED
    BY <2>1, <2>2, Quiet DEF Redriving
<1>17. ASSUME NEW p \in Drains, PrunePlain(p) PROVE Kept'
  <2>1. dr[p].pc = "pruning" /\ dr'[p].pc = "pruning copy" /\ UNCHANGED locks
    BY <1>17 DEF PrunePlain
  <2>2. \A q \in Drains : q # p => dr'[q].pc = dr[q].pc
    BY <1>17 DEF PrunePlain
  <2> QED
    BY <2>1, <2>2, Quiet DEF Redriving
<1>18. ASSUME NEW p \in Drains, PruneCopy(p) PROVE Kept'
  <2>1. dr[p].pc = "pruning copy" /\ dr'[p].pc = "releasing" /\ UNCHANGED locks
    BY <1>18 DEF PruneCopy
  <2>2. \A q \in Drains : q # p => dr'[q].pc = dr[q].pc
    BY <1>18 DEF PruneCopy
  <2> QED
    BY <2>1, <2>2, Quiet DEF Redriving
<1>19. ASSUME NEW p \in Drains, Copy(p) PROVE Kept'
  <2>1. dr[p].pc = "copying" /\ dr'[p].pc \in {"spawning", "releasing"} /\ UNCHANGED locks
    BY <1>19 DEF Copy
  <2>2. \A q \in Drains : q # p => dr'[q].pc = dr[q].pc
    BY <1>19 DEF Copy
  <2> QED
    BY <2>1, <2>2, Quiet DEF Redriving
<1>20. ASSUME NEW p \in Drains, SpawnFails(p) PROVE Kept'
  <2>1. dr[p].pc = "spawning" /\ dr'[p].pc = "releasing" /\ UNCHANGED locks
    BY <1>20 DEF SpawnFails
  <2>2. \A q \in Drains : q # p => dr'[q].pc = dr[q].pc
    BY <1>20 DEF SpawnFails
  <2> QED
    BY <2>1, <2>2, Quiet DEF Redriving
<1>21. ASSUME NEW p \in Drains, Discharge(p) PROVE Kept'
  <2>1. dr[p].pc = "discharging" /\ dr'[p].pc = "releasing" /\ UNCHANGED locks
    BY <1>21 DEF Discharge
  <2>2. \A q \in Drains : q # p => dr'[q].pc = dr[q].pc
    BY <1>21 DEF Discharge
  <2> QED
    BY <2>1, <2>2, Quiet DEF Redriving
<1>22. ASSUME NEW p \in Drains, Release(p) PROVE Kept'
  <2>1. locks'[p] = "none" /\ \A q \in Drains : q # p => locks'[q] = locks[q]
    BY <1>22 DEF Release
  <2>2. \A q \in Drains : q # p => dr'[q].pc = dr[q].pc
    BY <1>22 DEF Release
  <2> QED
    BY <2>1, <2>2 DEF LockPC, OneHolder, Holds
<1>23. ASSUME NEW p \in Drains, NEW n \in Runs, Spawn(p, n) PROVE Kept'
  <2>1. dr[p].pc = "spawning" /\ dr'[p].pc = "discharging" /\ UNCHANGED locks
    BY <1>23 DEF Spawn
  <2>2. \A q \in Drains : q # p => dr'[q].pc = dr[q].pc
    BY <1>23 DEF Spawn
  <2> QED
    BY <2>1, <2>2, Quiet DEF Redriving
<1>24. ASSUME NEW p \in Drains, NEW n \in Runs, Discard(p, n) PROVE Kept'
  BY <1>24, Quiet DEF Discard
<1>25. ASSUME NEW p \in Drains, NEW n \in Runs, Mark(p, n) PROVE Kept'
  BY <1>25, Quiet DEF Mark
<1>26. ASSUME NEW p \in Drains, Inject(p) PROVE Kept'
  BY <1>26, Quiet DEF Inject
<1>27. ASSUME NEW p \in Drains, NEW n \in Runs, Capture(p, n) PROVE Kept'
  BY <1>27, Quiet DEF Capture
<1>28. ASSUME NEW p \in Drains, NEW n \in Runs, ConsumeCaptured(p, n)
      PROVE  Kept'
  <2>1. \A q \in Drains : dr'[q].pc = dr[q].pc
    BY <1>28 DEF ConsumeCaptured
  <2> QED
    BY <2>1, <1>28, Quiet DEF ConsumeCaptured
<1>29. ASSUME NEW p \in Drains, EndPass(p) PROVE Kept'
  BY <1>29, Quiet DEF EndPass
<1>30. ASSUME NEW p \in Drains, Crash(p) PROVE Kept'
  BY <1>30, Quiet DEF Crash, Alive
<1>31. ASSUME ClaimHold PROVE Kept'
  <2>1. dr' = dr /\ \A q \in Drains : /\ locks'[q] = "held" => locks[q] = "held"
                                      /\ locks'[q] # "none" => locks[q] # "none"
    BY <1>31 DEF ClaimHold, Expired
  <2> QED
    BY <2>1 DEF LockPC, OneHolder, Holds
<1>32. ASSUME OrphanInput PROVE Kept'
  <2>1. dr' = dr /\ \A q \in Drains : /\ locks'[q] = "held" => locks[q] = "held"
                                      /\ locks'[q] # "none" => locks[q] # "none"
    BY <1>32 DEF OrphanInput, Expired
  <2> QED
    BY <2>1 DEF LockPC, OneHolder, Holds
<1> QED
  BY <1>0, <1>1, <1>2, <1>3, <1>4, <1>5, <1>6, <1>7, <1>8, <1>9, <1>10,
     <1>11, <1>12, <1>13, <1>14, <1>15, <1>16, <1>17, <1>18, <1>19, <1>20,
     <1>21, <1>22, <1>23, <1>24, <1>25, <1>26, <1>27, <1>28, <1>29, <1>30,
     <1>31, <1>32
  DEF Next, Worker, Drain

\* Every step keeps the inductive invariant.
LEMMA StepIInv == IInv /\ [Next]_vars => IInv'
  BY TypeStep, FindingStep, JobStep, LockStep DEF IInv

\* Owe before you clear (spool-drain.js 361-373, distill.js 425-446): a
\* finding a worker paid for stays in the spool until it was shown, shed or
\* placed, for any drains that overlap, crash and outlast each other's claims.
THEOREM FindingIsKept == Spec => []FindingKept
<1>1. IInv => FindingKept
  BY DEF IInv
<1> QED
  BY <1>1, InitIInv, StepIInv, PTL DEF Spec

\* A job leaves the spool unanswered only once its retry was started
\* (spool-drain.js 182-204), for any crash around the re-drive.
THEOREM JobIsKept == Spec => []JobKept
<1>1. IInv => JobKept
  BY DEF IInv, Cleared, JobKept
<1> QED
  BY <1>1, InitIInv, StepIInv, PTL DEF Spec

\* Two contenders never both hold the job under unexpired stamps (spool.js
\* 371-375), for any number of prompt-time drains.
THEOREM AtMostOneRedriver == Spec => []OneRedriver
<1>1. IInv => OneRedriver
  <2> SUFFICES ASSUME IInv, NEW p \in Prompts, NEW q \in Prompts, p # q,
                      locks[p] = "held", locks[q] = "held", Alive(p), Alive(q),
                      dr[p].pc \notin {"locking", "contending"},
                      dr[q].pc \notin {"locking", "contending"}
               PROVE  FALSE
    BY DEF OneRedriver
  <2>1. p \in Drains /\ q \in Drains
    BY DEF Drains
  <2>2. Holds(p) /\ Holds(q)
    BY <2>1 DEF IInv, LockPC, Holds, Alive
  <2> QED
    BY <2>1, <2>2 DEF IInv, OneHolder
<1> QED
  BY <1>1, InitIInv, StepIInv, PTL DEF Spec
=============================================================================
