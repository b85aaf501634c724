--------------------------- MODULE WorkLoopProofs ---------------------------
(***************************************************************************)
(* A settled verdict is final, and what a supervisor observed stands: for  *)
(* any number of workers, items, runs and faults.                          *)
(*                                                                         *)
(* VerdictFrozen rests on the lease's token.  A token is handed out once   *)
(* (Unique), never ahead of the lease (Tokened), and whoever drives under  *)
(* the token the lease still has drives a run without a verdict (Owning):  *)
(* a claim is refused over a verdict, and a verdict is written only under  *)
(* the lease's token, which nobody else then drives under.                 *)
(* ObservedWins rests on the record the supervisor left: ended and not     *)
(* pending, which no derived outcome is written over (Supervised).         *)
(***************************************************************************)
EXTENDS WorkLoop, WellFoundedInduction, TLAPS

Claim == {"none", "resolved", "reported", "failed", "declined"}
How == {"done", "failed", "declined"}
RecType == [item : Items \cup {NoItem}, state : {"none", "running", "ended"}, claim : Claim,
            enforced : BOOLEAN, pending : BOOLEAN, aged : BOOLEAN,
            gate : {"none", "passed", "failed", "blocked"}]
SupType == [pc : {"none", "up", "orphan", "closed", "answered", "finished", "dead"},
            claim : Claim \cup How, enforced : BOOLEAN]
LeaseType == [token : Nat, owner : Workers \cup {NoWorker}, released : BOOLEAN,
              lapsed : BOOLEAN]
JournalType == [opened : BOOLEAN, decided : {"none", "passed", "failed"}, parked : BOOLEAN,
                due : BOOLEAN, yields : Nat]
JobType == [pc : {"none", "claim", "drive", "decided", "yielded", "file", "done"},
            escalate : BOOLEAN, token : Nat,
            result : {"none", "superseded", "interrupted", "settled", "threw", "filed"}]
LookType == [run : Runs \cup {0}, why : {"none", "pending", "idle"}, claim : Claim,
             found : BOOLEAN]

Typed ==
    /\ rec \in [Runs -> RecType]
    /\ sup \in [Runs -> SupType]
    /\ lease \in [Runs -> LeaseType]
    /\ journal \in [Runs -> JournalType]
    /\ active \in [Workers -> SUBSET Runs]
    /\ look \in [Workers -> LookType]
    /\ cand \in [Workers -> Items \cup {NoItem}]
    /\ job \in [Workers -> [Runs -> JobType]]

\* What the supervisor remembers, and what it left when it was done.
Supervision(r) ==
    /\ sup[r].pc = "closed" => sup[r].claim \in How
    /\ sup[r].pc = "answered" => sup[r].claim \in Claim
    /\ sup[r].pc = "finished" => Ended(r) /\ ~rec[r].pending

\* A run that was never dispatched has no verdict.
Unstarted(r) == rec[r].state = "none" => rec[r].gate = "none"

\* A worker asks about runs that were dispatched.
LookedAt(w) == look[w].why # "none" => look[w].run \in Runs /\ rec[look[w].run].state # "none"

\* A gate job is of a run that was dispatched.
Started(w, r) == job[w][r].pc # "none" => rec[r].state # "none"

\* A token was handed out by the lease, to whoever got past the claim.
Tokened(w, r) ==
    /\ job[w][r].token <= lease[r].token
    /\ job[w][r].pc \in {"drive", "decided", "yielded", "file"} => job[w][r].token > 0

\* Under the lease's own token a run without a verdict is driven.
Owning(w, r) == job[w][r].pc \in {"drive", "decided"} /\ OwnsRecord(w, r) => ~Settled(r)

Sound(w, r) == Started(w, r) /\ Tokened(w, r) /\ Owning(w, r)

\* A token is handed out once.
Unique == \A r \in Runs : \A v, w \in Workers :
            job[v][r].token = job[w][r].token /\ job[w][r].token > 0 => v = w

IInv ==
    /\ Typed
    /\ \A r \in Runs : Supervision(r) /\ Unstarted(r)
    /\ \A w \in Workers : LookedAt(w) /\ \A r \in Runs : Sound(w, r)
    /\ Unique

-----------------------------------------------------------------------------
\* The run record a dispatch takes is free: there is a least one.
LEMMA LeastNat == \A T : T \subseteq Nat /\ T # {} => \E x \in T : \A y \in T : ~(y < x)
<1> SUFFICES ASSUME NEW T, T \subseteq Nat, T # {} PROVE \E x \in T : \A y \in T : ~(y < x)
  OBVIOUS
<1>1. PICK x \in T : \A y \in T : ~(<<y, x>> \in OpToRel(<, Nat))
  BY NatLessThanWellFounded, WFMin
<1>2. \A y \in T : y < x => <<y, x>> \in OpToRel(<, Nat)
  BY DEF OpToRel
<1> QED
  BY <1>1, <1>2

FreeRun == CHOOSE n \in Runs : rec[n].state = "none" /\ \A m \in 1..(n - 1) : rec[m].state # "none"

\* The run a dispatch takes is one that has no record.
LEMMA FreeRunIsFree ==
    ASSUME NEW s \in Runs, rec[s].state = "none"
    PROVE  FreeRun \in Runs /\ rec[FreeRun].state = "none"
<1> DEFINE T == {n \in Runs : rec[n].state = "none"}
<1>1. T \subseteq Nat /\ s \in T
  BY ConstantsAssumption DEF Runs
<1>2. PICK x \in T : \A y \in T : ~(y < x)
  BY <1>1, LeastNat
<1>3. x \in Runs /\ x \in Nat /\ rec[x].state = "none"
  BY <1>1
<1>4. ASSUME NEW m \in 1..(x - 1) PROVE rec[m].state # "none"
  <2>1. m \in Runs /\ m < x
    BY <1>3, ConstantsAssumption DEF Runs
  <2> QED
    BY <1>2, <2>1
<1> QED
  BY <1>3, <1>4 DEF FreeRun

-----------------------------------------------------------------------------
\* Initially there is no run, no lease and no job.
LEMMA InitIInv == Init => IInv
<1> SUFFICES ASSUME Init PROVE IInv
  OBVIOUS
<1>1. NoRecord \in RecType /\ NoLook \in LookType /\ NoJob \in JobType
  BY DEF NoRecord, RecType, NoLook, LookType, NoJob, JobType, Claim
<1>2. [pc |-> "none", claim |-> "none", enforced |-> FALSE] \in SupType
  BY DEF SupType, Claim, How
<1>3. [token |-> 0, owner |-> NoWorker, released |-> FALSE, lapsed |-> FALSE] \in LeaseType
  BY DEF LeaseType
<1>4. [opened |-> FALSE, decided |-> "none", parked |-> FALSE, due |-> FALSE, yields |-> 0]
        \in JournalType
  BY DEF JournalType
<1>5. Typed
  BY <1>1, <1>2, <1>3, <1>4 DEF Init, Typed
<1>6. \A r \in Runs : Supervision(r) /\ Unstarted(r)
  BY DEF Init, Supervision, Unstarted, NoRecord
<1>7. \A w \in Workers : LookedAt(w)
  BY DEF Init, LookedAt, NoLook
<1>8. \A w \in Workers, r \in Runs : Sound(w, r)
  BY DEF Init, Sound, Started, Tokened, Owning, NoJob
<1>9. Unique
  BY DEF Init, Unique, NoJob
<1> QED
  BY <1>5, <1>6, <1>7, <1>8, <1>9 DEF IInv

\* What a step may not do to a verdict and to an observed outcome.
Frozen ==
    \A r \in Runs :
        /\ Settled(r) => rec'[r].gate = rec[r].gate
        /\ sup[r].pc = "finished" => rec'[r].claim = rec[r].claim /\ rec'[r].enforced = rec[r].enforced

\* A record that keeps its verdict, stays dispatched and stays as its supervisor
\* left it.
Kept(r) ==
    /\ rec'[r].gate = rec[r].gate
    /\ rec[r].state # "none" => rec'[r].state # "none"
    /\ sup[r].pc = "finished" => rec'[r].claim = rec[r].claim /\ rec'[r].enforced = rec[r].enforced

\* A step that hands out no token and writes no verdict.
LEMMA Steady ==
    ASSUME IInv, Typed', \A s \in Runs : Kept(s),
           \A s \in Runs : (sup'[s] = sup[s] /\ rec'[s] = rec[s]) \/ Supervision(s)',
           \A v \in Workers : look'[v] = look[v] \/ LookedAt(v)',
           \A s \in Runs : lease'[s].token = lease[s].token,
           \A v \in Workers, s \in Runs :
                \/ job'[v][s] = job[v][s]
                \/ job'[v][s].token \in {0, job[v][s].token} /\ Sound(v, s)'
    PROVE  IInv' /\ Frozen
<1>1. \A s \in Runs : Supervision(s)'
  BY DEF IInv, Supervision, Ended
<1>2. \A s \in Runs : Unstarted(s)'
  BY DEF IInv, Unstarted, Kept
<1>3. \A v \in Workers : LookedAt(v)'
  BY DEF IInv, LookedAt, Kept
<1>4. ASSUME NEW v \in Workers, NEW s \in Runs PROVE Sound(v, s)'
  <2>1. Sound(v, s) /\ Kept(s) /\ lease'[s].token = lease[s].token
    BY DEF IInv
  <2>2. CASE job'[v][s] = job[v][s]
    BY <2>1, <2>2 DEF Sound, Started, Tokened, Owning, OwnsRecord, Settled, Kept
  <2> QED
    BY <2>2
<1>5. Unique'
  <2>1. \A v \in Workers, s \in Runs : job'[v][s].token \in {0, job[v][s].token}
    OBVIOUS
  <2> QED
    BY <2>1 DEF IInv, Unique
<1>6. Frozen
  BY DEF Frozen, Kept
<1> QED
  BY <1>1, <1>2, <1>3, <1>4, <1>5, <1>6 DEF IInv

\* A step that leaves jobs and leases alone.
LEMMA RecordSteady ==
    ASSUME IInv, Typed', \A s \in Runs : Kept(s),
           \A s \in Runs : (sup'[s] = sup[s] /\ rec'[s] = rec[s]) \/ Supervision(s)',
           \A v \in Workers : look'[v] = look[v] \/ LookedAt(v)',
           UNCHANGED <<lease, job>>
    PROVE  IInv' /\ Frozen
  BY Steady

\* A record nobody wrote is kept.
LEMMA SameRecord == ASSUME NEW r \in Runs, rec'[r] = rec[r] PROVE Kept(r)
  BY DEF Kept

\* One run's record, supervisor or job is replaced.
LEMMA RecUpdate ==
    ASSUME Typed, NEW r \in Runs, NEW x \in RecType, rec' = [rec EXCEPT ![r] = x]
    PROVE  rec' \in [Runs -> RecType] /\ rec'[r] = x /\ \A s \in Runs : s # r => rec'[s] = rec[s]
<1>1. rec \in [Runs -> RecType]
  BY DEF Typed
<1> QED
  BY <1>1

\* An update of one supervisor leaves the others.
LEMMA SupUpdate ==
    ASSUME Typed, NEW r \in Runs, NEW x \in SupType, sup' = [sup EXCEPT ![r] = x]
    PROVE  sup' \in [Runs -> SupType] /\ sup'[r] = x /\ \A s \in Runs : s # r => sup'[s] = sup[s]
<1>1. sup \in [Runs -> SupType]
  BY DEF Typed
<1> QED
  BY <1>1

\* An update of one gate job leaves the others.
LEMMA JobUpdate ==
    ASSUME NEW f \in [Workers -> [Runs -> JobType]], NEW g,
           NEW w \in Workers, NEW r \in Runs, NEW x \in JobType,
           g = [f EXCEPT ![w][r] = x]
    PROVE  /\ g \in [Workers -> [Runs -> JobType]] /\ g[w][r] = x
           /\ \A v \in Workers, s \in Runs : v # w \/ s # r => g[v][s] = f[v][s]
<1>1. ASSUME NEW v \in Workers, NEW s \in Runs, v # w \/ s # r
      PROVE  g[v][s] = f[v][s]
  BY <1>1
<1> QED
  BY <1>1

\* The supervisor's label is replaced.
LEMMA SupGoto ==
    ASSUME Typed, NEW r \in Runs,
           NEW l \in {"none", "up", "orphan", "closed", "answered", "finished", "dead"},
           sup' = [sup EXCEPT ![r].pc = l]
    PROVE  /\ sup' \in [Runs -> SupType] /\ sup'[r].pc = l /\ sup'[r].claim = sup[r].claim
           /\ \A s \in Runs : s # r => sup'[s] = sup[s]
<1>1. sup \in [Runs -> SupType] /\ sup[r] \in SupType
  BY DEF Typed
<1> QED
  BY <1>1 DEF SupType

\* A job comes to its end.
LEMMA DoneDoes ==
    ASSUME Typed, NEW w \in Workers, NEW r \in Runs,
           NEW y \in {"none", "superseded", "interrupted", "settled", "threw", "filed"},
           Done(w, r, y)
    PROVE  /\ job' \in [Workers -> [Runs -> JobType]]
           /\ job'[w][r].pc = "done" /\ job'[w][r].token = job[w][r].token
           /\ \A v \in Workers, s \in Runs : v # w \/ s # r => job'[v][s] = job[v][s]
<1> DEFINE x == [job[w][r] EXCEPT !.pc = "done", !.result = y]
<1>1. job \in [Workers -> [Runs -> JobType]] /\ job[w][r] \in JobType
  BY DEF Typed
<1>2. x \in JobType /\ x.pc = "done" /\ x.token = job[w][r].token
  BY <1>1 DEF JobType
<1>3. job' = [job EXCEPT ![w][r] = x]
  BY <1>1 DEF Done
<1> HIDE DEF x
<1>4. /\ job' \in [Workers -> [Runs -> JobType]] /\ job'[w][r] = x
      /\ \A v \in Workers, s \in Runs : v # w \/ s # r => job'[v][s] = job[v][s]
  BY <1>1, <1>2, <1>3, JobUpdate
<1> QED
  BY <1>2, <1>4

-----------------------------------------------------------------------------
\* A step that touches neither record, supervisor, lease, question nor job.
LEMMA Aside ==
    ASSUME IInv, Typed', UNCHANGED <<rec, sup, lease, look, job>>
    PROVE  IInv' /\ Frozen
  BY RecordSteady DEF Kept

\* Selecting a candidate keeps the invariant.
LEMMA CandidateKeeps ==
    ASSUME IInv, NEW w \in Workers, NEW i \in Items, Candidate(w, i) PROVE IInv' /\ Frozen
  BY Aside DEF Candidate, IInv, Typed

\* An agent that resolves its item touches no record.
LEMMA ResolveKeeps ==
    ASSUME IInv, NEW r \in Runs, Resolve(r) PROVE IInv' /\ Frozen
  BY Aside DEF Resolve, IInv, Typed

\* A worker that stops following a run touches no record.
LEMMA GiveUpKeeps ==
    ASSUME IInv, NEW w \in Workers, NEW r \in Runs, GiveUp(w, r) PROVE IInv' /\ Frozen
<1>1. active' \in [Workers -> SUBSET Runs]
  BY DEF GiveUp, IInv, Typed
<1> QED
  BY <1>1, Aside DEF GiveUp, IInv, Typed

\* A worker that starts again touches no record.
LEMMA RestartKeeps ==
    ASSUME IInv, NEW w \in Workers, Restart(w) PROVE IInv' /\ Frozen
  BY Aside DEF Restart, IInv, Typed

\* A timer that fires touches only the journal.
LEMMA DueKeeps ==
    ASSUME IInv, NEW r \in Runs, Due(r) PROVE IInv' /\ Frozen
<1>1. journal \in [Runs -> JournalType] /\ journal[r] \in JournalType
  BY DEF IInv, Typed
<1>2. journal' = [journal EXCEPT ![r].due = TRUE]
  BY DEF Due
<1>3. journal' \in [Runs -> JournalType]
  BY <1>1, <1>2 DEF JournalType
<1> QED
  BY <1>3, Aside DEF Due, IInv, Typed

\* Lapsing and renewing leave the token.
LEMMA LapseMarks ==
    ASSUME Typed, NEW r \in Runs, NEW b \in BOOLEAN, lease' = [lease EXCEPT ![r].lapsed = b]
    PROVE  lease' \in [Runs -> LeaseType] /\ \A s \in Runs : lease'[s].token = lease[s].token
<1>1. lease \in [Runs -> LeaseType] /\ lease[r] \in LeaseType
  BY DEF Typed
<1> QED
  BY <1>1 DEF LeaseType

\* A lease that lapses keeps its token.
LEMMA LapseKeeps ==
    ASSUME IInv, NEW r \in Runs, Lapse(r) PROVE IInv' /\ Frozen
<1>1. lease' \in [Runs -> LeaseType] /\ \A s \in Runs : lease'[s].token = lease[s].token
  BY LapseMarks DEF Lapse, IInv
<1> QED
  BY <1>1, Steady DEF Lapse, IInv, Typed, Kept

\* A renewal keeps the token of the lease.
LEMMA RenewPipelineKeeps ==
    ASSUME IInv, NEW w \in Workers, NEW r \in Runs, RenewPipeline(w, r) PROVE IInv' /\ Frozen
<1>1. lease' \in [Runs -> LeaseType] /\ \A s \in Runs : lease'[s].token = lease[s].token
  BY LapseMarks DEF RenewPipeline, IInv
<1> QED
  BY <1>1, Steady DEF RenewPipeline, IInv, Typed, Kept

\* Asking the graph is about a run that was dispatched.
LEMMA LookKeeps ==
    ASSUME IInv, NEW w \in Workers, NEW r \in Runs, Look(w, r) PROVE IInv' /\ Frozen
<1>t. Typed /\ rec[r] \in RecType /\ look \in [Workers -> LookType]
  BY DEF IInv, Typed
<1>1. PICK f \in BOOLEAN :
        look' = [look EXCEPT ![w] = [run |-> r, found |-> f, claim |-> rec[r].claim,
                                     why |-> IF Ended(r) THEN "pending" ELSE "idle"]]
  <2>1. (rec[r].item \in resolved) \in BOOLEAN
    OBVIOUS
  <2> QED
    BY <2>1 DEF Look
<1> DEFINE x == [run |-> r, found |-> f, claim |-> rec[r].claim,
                 why |-> IF Ended(r) THEN "pending" ELSE "idle"]
<1>2. x \in LookType /\ x.run = r
  BY <1>t DEF LookType, RecType
<1> HIDE DEF x
<1>3. look' = [look EXCEPT ![w] = x]
  BY <1>1 DEF x
<1>4. /\ look' \in [Workers -> LookType] /\ look'[w] = x
      /\ \A v \in Workers : v # w => look'[v] = look[v]
  BY <1>t, <1>2, <1>3
<1>5. rec[r].state # "none"
  BY DEF Look, Looking, Ended, Running
<1>6. \A v \in Workers : look'[v] = look[v] \/ LookedAt(v)'
  BY <1>2, <1>4, <1>5 DEF LookedAt, Look
<1>7. Typed'
  BY <1>t, <1>4 DEF Look, Typed
<1> QED
  BY <1>6, <1>7, RecordSteady DEF Look, Kept

-----------------------------------------------------------------------------
\* A dispatch takes a record that was never used.
LEMMA DispatchKeeps ==
    ASSUME IInv, NEW w \in Workers, Dispatch(w) PROVE IInv' /\ Frozen
<1>t. Typed /\ cand[w] \in Items \cup {NoItem}
  BY DEF IInv, Typed
<1>c. cand' \in [Workers -> Items \cup {NoItem}]
  BY <1>t DEF Dispatch, Typed
<1>u. UNCHANGED <<lease, journal, look, job>>
  BY DEF Dispatch
<1>1. CASE UNCHANGED <<rec, sup, active>>
  BY <1>1, <1>c, <1>t, <1>u, Aside DEF Typed
<1>2. ASSUME NEW n \in Runs, rec[n].state = "none",
             rec' = [rec EXCEPT ![FreeRun] = [NoRecord EXCEPT !.item = cand[w], !.state = "running"]],
             sup' = [sup EXCEPT ![FreeRun].pc = "up"],
             active' = [active EXCEPT ![w] = @ \cup {FreeRun}]
      PROVE  IInv' /\ Frozen
  <2> DEFINE r == FreeRun
             x == [NoRecord EXCEPT !.item = cand[w], !.state = "running"]
  <2>1. r \in Runs /\ rec[r].state = "none"
    BY <1>2, FreeRunIsFree
  <2>2. rec[r].gate = "none" /\ sup[r].pc # "finished"
    BY <2>1 DEF IInv, Unstarted, Supervision, Ended
  <2>3. x \in RecType /\ x.gate = "none" /\ x.state = "running"
    BY <1>t DEF NoRecord, RecType, Claim
  <2> HIDE DEF r, x
  <2>4. /\ rec' = [rec EXCEPT ![r] = x] /\ sup' = [sup EXCEPT ![r].pc = "up"]
        /\ active' = [active EXCEPT ![w] = @ \cup {r}]
    BY <1>2 DEF r, x
  <2>5. rec' \in [Runs -> RecType] /\ rec'[r] = x /\ \A s \in Runs : s # r => rec'[s] = rec[s]
    BY <1>t, <2>1, <2>3, <2>4, RecUpdate
  <2>6. /\ sup' \in [Runs -> SupType] /\ sup'[r].pc = "up"
        /\ \A s \in Runs : s # r => sup'[s] = sup[s]
    BY <1>t, <2>1, <2>4, SupGoto
  <2>7. active' \in [Workers -> SUBSET Runs]
    BY <1>t, <2>1, <2>4 DEF Typed
  <2>8. \A s \in Runs : Kept(s)
    BY <2>2, <2>3, <2>5 DEF Kept
  <2>9. \A s \in Runs : (sup'[s] = sup[s] /\ rec'[s] = rec[s]) \/ Supervision(s)'
    BY <2>5, <2>6 DEF Supervision
  <2>10. Typed'
    BY <1>t, <1>c, <1>u, <2>5, <2>6, <2>7 DEF Typed
  <2> QED
    BY <1>u, <2>8, <2>9, <2>10, RecordSteady
<1> QED
  BY <1>1, <1>2 DEF Dispatch, FreeRun

\* The supervisor's write carries the verdict on disk.
LEMMA WriteDoes ==
    ASSUME Typed, NEW r \in Runs, NEW c \in Claim, NEW f \in BOOLEAN, NEW g \in BOOLEAN,
           WriteRecord(r, c, f, g)
    PROVE  /\ rec' \in [Runs -> RecType] /\ rec'[r].gate = rec[r].gate
           /\ rec'[r].state = "ended" /\ rec'[r].pending = g
           /\ \A s \in Runs : s # r => rec'[s] = rec[s]
<1> DEFINE y == [NoRecord EXCEPT !.item = rec[r].item, !.state = "ended", !.claim = c,
                                 !.enforced = f, !.pending = g]
           x == CarryGateFields(r, y)
<1>1. rec[r] \in RecType
  BY DEF Typed
<1>2. y \in RecType /\ y.state = "ended" /\ y.pending = g
  BY <1>1 DEF RecType, NoRecord
<1>3. x \in RecType /\ x.state = "ended" /\ x.pending = g /\ x.gate = rec[r].gate
  <2> HIDE DEF y
  <2> QED
    BY <1>1, <1>2 DEF RecType, CarryGateFields
<1>4. rec' = [rec EXCEPT ![r] = x]
  BY DEF WriteRecord
<1> HIDE DEF x
<1>5. rec' \in [Runs -> RecType] /\ rec'[r] = x /\ \A s \in Runs : s # r => rec'[s] = rec[s]
  BY <1>3, <1>4, RecUpdate
<1> QED
  BY <1>3, <1>5

\* What an exit code alone says is a claim a record can carry.
LEMMA UnenforcedIsClaim == \A how \in How : Unenforced(how) \in Claim
  BY DEF How, Claim, Unenforced

\* A supervisor's first write opens the record's provisional state.
LEMMA CloseProvisionalKeeps ==
    ASSUME IInv, NEW r \in Runs, NEW how \in How, CloseProvisional(r, how)
    PROVE  IInv' /\ Frozen
<1>t. Typed /\ sup[r].pc = "up"
  BY DEF IInv, CloseProvisional
<1> DEFINE x == [pc |-> "closed", claim |-> how, enforced |-> FALSE]
<1>1. x \in SupType /\ x.pc = "closed" /\ x.claim = how
  BY DEF SupType
<1>2. sup' = [sup EXCEPT ![r] = x]
  BY DEF CloseProvisional
<1> HIDE DEF x
<1>3. sup' \in [Runs -> SupType] /\ sup'[r] = x /\ \A s \in Runs : s # r => sup'[s] = sup[s]
  BY <1>t, <1>1, <1>2, SupUpdate
<1>4. /\ rec' \in [Runs -> RecType] /\ rec'[r].gate = rec[r].gate
      /\ rec'[r].state = "ended"
      /\ \A s \in Runs : s # r => rec'[s] = rec[s]
  <2>1. Unenforced(how) \in Claim /\ FALSE \in BOOLEAN /\ TRUE \in BOOLEAN
    BY UnenforcedIsClaim
  <2>2. WriteRecord(r, Unenforced(how), FALSE, TRUE)
    BY DEF CloseProvisional
  <2> QED
    BY <1>t, <2>1, <2>2, WriteDoes
<1>5. \A s \in Runs : Kept(s)
  BY <1>t, <1>4 DEF Kept
<1>6. \A s \in Runs : (sup'[s] = sup[s] /\ rec'[s] = rec[s]) \/ Supervision(s)'
  BY <1>1, <1>3, <1>4 DEF Supervision
<1>7. Typed'
  BY <1>t, <1>3, <1>4 DEF Typed, CloseProvisional
<1> QED
  BY <1>5, <1>6, <1>7, RecordSteady DEF CloseProvisional

\* A supervisor's second write closes the record with what the graph says.
LEMMA ApplyContractKeeps ==
    ASSUME IInv, NEW r \in Runs, ApplyContract(r) PROVE IInv' /\ Frozen
<1>t. Typed /\ sup[r].pc = "closed" /\ sup[r].claim \in How
  BY DEF IInv, ApplyContract, Supervision
<1>1. PICK c \in Claim, f \in BOOLEAN :
        sup' = [sup EXCEPT ![r] = [pc |-> "answered", enforced |-> f, claim |-> c]]
  <2>1. Unenforced(sup[r].claim) \in Claim /\ "resolved" \in Claim
    BY <1>t, UnenforcedIsClaim DEF Claim
  <2> QED
    BY <2>1 DEF ApplyContract
<1> DEFINE x == [pc |-> "answered", enforced |-> f, claim |-> c]
<1>2. x \in SupType /\ x.pc = "answered" /\ x.claim = c
  BY DEF SupType
<1>3. sup' = [sup EXCEPT ![r] = x]
  BY <1>1
<1> HIDE DEF x
<1>4. sup' \in [Runs -> SupType] /\ sup'[r] = x /\ \A s \in Runs : s # r => sup'[s] = sup[s]
  BY <1>t, <1>2, <1>3, SupUpdate
<1>5. \A s \in Runs : (sup'[s] = sup[s] /\ rec'[s] = rec[s]) \/ Supervision(s)'
  BY <1>2, <1>4 DEF Supervision, ApplyContract
<1>6. Typed'
  BY <1>t, <1>4 DEF Typed, ApplyContract
<1> QED
  BY <1>5, <1>6, RecordSteady DEF ApplyContract, Kept

\* The final write leaves an ended record that is not pending.
LEMMA CloseFinalKeeps ==
    ASSUME IInv, NEW r \in Runs, CloseFinal(r) PROVE IInv' /\ Frozen
<1>t. Typed /\ sup[r].pc = "answered" /\ sup[r].claim \in Claim /\ sup[r].enforced \in BOOLEAN
  <2>1. Typed /\ sup[r] \in SupType /\ Supervision(r) /\ sup[r].pc = "answered"
    BY DEF IInv, Typed, CloseFinal
  <2> QED
    BY <2>1 DEF Supervision, SupType
<1>1. /\ sup' \in [Runs -> SupType] /\ sup'[r].pc = "finished"
      /\ \A s \in Runs : s # r => sup'[s] = sup[s]
  BY <1>t, SupGoto DEF CloseFinal
<1>2. /\ rec' \in [Runs -> RecType] /\ rec'[r].gate = rec[r].gate
      /\ rec'[r].state = "ended" /\ rec'[r].pending = FALSE
      /\ \A s \in Runs : s # r => rec'[s] = rec[s]
  <2>1. WriteRecord(r, sup[r].claim, sup[r].enforced, FALSE) /\ FALSE \in BOOLEAN
    BY DEF CloseFinal
  <2> QED
    BY <1>t, <2>1, WriteDoes
<1>3. \A s \in Runs : Kept(s)
  BY <1>t, <1>2 DEF Kept
<1>4. \A s \in Runs : (sup'[s] = sup[s] /\ rec'[s] = rec[s]) \/ Supervision(s)'
  BY <1>1, <1>2 DEF Supervision, Ended
<1>5. Typed'
  BY <1>t, <1>1, <1>2 DEF Typed, CloseFinal
<1> QED
  BY <1>3, <1>4, <1>5, RecordSteady DEF CloseFinal

\* A supervisor that dies leaves the record as it stands.
LEMMA SupervisorDiesKeeps ==
    ASSUME IInv, NEW r \in Runs, SupervisorDies(r) PROVE IInv' /\ Frozen
<1>t. Typed
  BY DEF IInv
<1>1. PICK l \in {"orphan", "dead"} : sup' = [sup EXCEPT ![r].pc = l]
  BY DEF SupervisorDies
<1>2. /\ sup' \in [Runs -> SupType] /\ sup'[r].pc = l
      /\ \A s \in Runs : s # r => sup'[s] = sup[s]
  BY <1>t, <1>1, SupGoto
<1>3. \A s \in Runs : (sup'[s] = sup[s] /\ rec'[s] = rec[s]) \/ Supervision(s)'
  BY <1>2 DEF Supervision, SupervisorDies
<1>4. Typed'
  BY <1>t, <1>2 DEF Typed, SupervisorDies
<1> QED
  BY <1>3, <1>4, RecordSteady DEF SupervisorDies, Kept

\* A record that falls silent is otherwise unchanged.
LEMMA AgeKeeps ==
    ASSUME IInv, NEW r \in Runs, Age(r) PROVE IInv' /\ Frozen
<1> DEFINE x == [rec[r] EXCEPT !.aged = TRUE]
<1>t. Typed /\ rec[r] \in RecType /\ rec \in [Runs -> RecType] /\ Supervision(r)
  BY DEF IInv, Typed
<1>1. /\ x \in RecType /\ x.gate = rec[r].gate /\ x.state = rec[r].state
      /\ x.claim = rec[r].claim /\ x.enforced = rec[r].enforced /\ x.pending = rec[r].pending
  BY <1>t DEF RecType
<1>2. rec' = [rec EXCEPT ![r] = x]
  BY <1>t DEF Age
<1> HIDE DEF x
<1>3. rec' \in [Runs -> RecType] /\ rec'[r] = x /\ \A s \in Runs : s # r => rec'[s] = rec[s]
  BY <1>t, <1>1, <1>2, RecUpdate
<1>4. \A s \in Runs : Kept(s)
  BY <1>1, <1>3 DEF Kept
<1>5. Supervision(r)' /\ UNCHANGED sup
  BY <1>t, <1>1, <1>3 DEF Supervision, Ended, Age
<1>6. Typed'
  BY <1>t, <1>3 DEF Typed, Age
<1> QED
  BY <1>3, <1>4, <1>5, <1>6, RecordSteady DEF Age

-----------------------------------------------------------------------------
\* A derived outcome is written over nothing a supervisor left.
LEMMA CloseRunDoes ==
    ASSUME IInv, NEW r \in Runs, NEW c \in Claim, NEW f \in BOOLEAN, rec' = CloseRun(r, c, f)
    PROVE  /\ rec' \in [Runs -> RecType] /\ \A s \in Runs : Kept(s)
           /\ \A s \in Runs : s # r => rec'[s] = rec[s]
           /\ rec'[r].pending = rec[r].pending
           /\ sup[r].pc = "finished" => rec'[r] = rec[r]
<1>t. Typed /\ rec \in [Runs -> RecType] /\ rec[r] \in RecType /\ Supervision(r)
  BY DEF IInv, Typed
<1>1. CASE ~Running(r)
  BY <1>1, <1>t DEF CloseRun, Kept
<1>2. CASE Running(r)
  <2> DEFINE x == [rec[r] EXCEPT !.state = "ended", !.claim = c, !.enforced = f]
  <2>1. /\ x \in RecType /\ x.gate = rec[r].gate /\ x.state = "ended"
        /\ x.pending = rec[r].pending
    BY <1>t DEF RecType
  <2>2. rec' = [rec EXCEPT ![r] = x]
    BY <1>2, <1>t DEF CloseRun
  <2> HIDE DEF x
  <2>3. rec' \in [Runs -> RecType] /\ rec'[r] = x /\ \A s \in Runs : s # r => rec'[s] = rec[s]
    BY <1>t, <2>1, <2>2, RecUpdate
  <2>4. sup[r].pc # "finished"
    BY <1>2, <1>t DEF Supervision, Ended, Running
  <2>5. \A s \in Runs : Kept(s)
    BY <2>1, <2>3, <2>4 DEF Kept
  <2> QED
    BY <2>1, <2>3, <2>4, <2>5
<1> QED
  BY <1>1, <1>2

\* Reconciling a silent record writes no verified verdict over.
LEMMA ReconcileKeeps ==
    ASSUME IInv, NEW w \in Workers, NEW r \in Runs, Reconcile(w, r) PROVE IInv' /\ Frozen
<1>t. Typed
  BY DEF IInv
<1>1. /\ rec' \in [Runs -> RecType] /\ \A s \in Runs : Kept(s)
      /\ \A s \in Runs : s # r => rec'[s] = rec[s]
  <2>1. "failed" \in Claim /\ FALSE \in BOOLEAN
    BY DEF Claim
  <2> QED
    BY <2>1, CloseRunDoes DEF Reconcile
<1>2. /\ sup' \in [Runs -> SupType] /\ sup'[r].pc = "dead"
      /\ \A s \in Runs : s # r => sup'[s] = sup[s]
  BY <1>t, SupGoto DEF Reconcile
<1>3. \A s \in Runs : (sup'[s] = sup[s] /\ rec'[s] = rec[s]) \/ Supervision(s)'
  BY <1>1, <1>2 DEF Supervision
<1>4. Typed'
  BY <1>t, <1>1, <1>2 DEF Typed, Reconcile
<1> QED
  BY <1>1, <1>3, <1>4, RecordSteady DEF Reconcile

\* A job that is taken up, or forgotten, holds no token.
Fresh(x) == x \in JobType /\ x.token = 0 /\ x.pc \in {"none", "claim"}

\* A gate job that is only queued relies on its record being there.
LEMMA FreshIsSound ==
    ASSUME Typed', NEW w \in Workers, NEW r \in Runs, Fresh(job'[w][r]),
           job'[w][r].pc = "none" \/ rec'[r].state # "none"
    PROVE  Sound(w, r)'
<1>1. lease'[r].token \in Nat
  BY DEF Typed, LeaseType
<1> QED
  BY <1>1 DEF Fresh, Sound, Started, Tokened, Owning

\* What a harvest leaves: the run is followed no more, its gate job is queued.
LEMMA HarvestedDoes ==
    ASSUME Typed, NEW w \in Workers, NEW r \in Runs, NEW c, NEW f, Harvested(w, r, c, f)
    PROVE  /\ active' \in [Workers -> SUBSET Runs]
           /\ job' \in [Workers -> [Runs -> JobType]]
           /\ \A v \in Workers, s \in Runs : v # w \/ s # r => job'[v][s] = job[v][s]
           /\ job'[w][r] = job[w][r] \/ Fresh(job'[w][r])
<1>1. active' \in [Workers -> SUBSET Runs]
  BY DEF Harvested, Typed
<1> DEFINE x == [NoJob EXCEPT !.pc = "claim"]
<1>2. Fresh(x) /\ x \in JobType
  BY DEF Fresh, NoJob, JobType
<1>3. job \in [Workers -> [Runs -> JobType]]
  BY DEF Typed
<1> HIDE DEF x
<1>4. job' = job \/ job' = [job EXCEPT ![w][r] = x]
  BY DEF Harvested, x
<1>5. CASE job' = [job EXCEPT ![w][r] = x]
  <2>1. /\ job' \in [Workers -> [Runs -> JobType]] /\ job'[w][r] = x
        /\ \A v \in Workers, s \in Runs : v # w \/ s # r => job'[v][s] = job[v][s]
    BY <1>2, <1>3, <1>5, JobUpdate
  <2> QED
    BY <1>1, <1>2, <2>1
<1> QED
  BY <1>1, <1>3, <1>4, <1>5

\* A step that harvests a run that was dispatched.
LEMMA HarvestSteady ==
    ASSUME IInv, NEW w \in Workers, NEW r \in Runs, NEW c, NEW f, Harvested(w, r, c, f),
           rec[r].state # "none", rec' \in [Runs -> RecType], sup' \in [Runs -> SupType],
           look' \in [Workers -> LookType], \A s \in Runs : Kept(s),
           \A s \in Runs : (sup'[s] = sup[s] /\ rec'[s] = rec[s]) \/ Supervision(s)',
           \A v \in Workers : look'[v] = look[v] \/ LookedAt(v)',
           UNCHANGED <<lease, journal, cand>>
    PROVE  IInv' /\ Frozen
<1>t. Typed
  BY DEF IInv
<1>1. /\ active' \in [Workers -> SUBSET Runs] /\ job' \in [Workers -> [Runs -> JobType]]
      /\ \A v \in Workers, s \in Runs : v # w \/ s # r => job'[v][s] = job[v][s]
      /\ job'[w][r] = job[w][r] \/ Fresh(job'[w][r])
  BY <1>t, HarvestedDoes
<1>2. Typed'
  BY <1>t, <1>1 DEF Typed
<1>3. rec'[r].state # "none"
  BY DEF Kept
<1>4. ASSUME NEW v \in Workers, NEW s \in Runs
      PROVE  \/ job'[v][s] = job[v][s]
             \/ job'[v][s].token \in {0, job[v][s].token} /\ Sound(v, s)'
  <2>1. CASE v # w \/ s # r
    BY <1>1, <2>1
  <2>2. CASE v = w /\ s = r /\ Fresh(job'[w][r])
    BY <1>2, <1>3, <2>2, FreshIsSound DEF Fresh
  <2> QED
    BY <1>1, <2>1, <2>2
<1> QED
  BY <1>2, <1>4, Steady

\* A harvest keeps the invariant.
LEMMA HarvestKeeps ==
    ASSUME IInv, NEW w \in Workers, NEW r \in Runs, Harvest(w, r) PROVE IInv' /\ Frozen
  BY HarvestSteady DEF Harvest, Ended, IInv, Typed, Kept

\* A worker that is answered forgets its question.
LEMMA Answered ==
    ASSUME Typed, NEW w \in Workers, look' = [look EXCEPT ![w] = NoLook]
    PROVE  /\ look' \in [Workers -> LookType]
           /\ \A v \in Workers : look'[v] = look[v] \/ LookedAt(v)'
<1>1. NoLook \in LookType /\ NoLook.why = "none"
  BY DEF NoLook, LookType, Claim
<1>2. look \in [Workers -> LookType]
  BY DEF Typed
<1> QED
  BY <1>1, <1>2 DEF LookedAt

\* The reading of a worker is written only over a pending record.
LEMMA SettleContractKeeps ==
    ASSUME IInv, NEW w \in Workers, SettleContract(w) PROVE IInv' /\ Frozen
<1>p. PICK r \in Runs : r = look[w].run
  BY DEF IInv, SettleContract, LookedAt
<1>t. Typed /\ look[w] \in LookType /\ r \in Runs /\ rec[r].state # "none"
  BY <1>p DEF IInv, Typed, SettleContract, LookedAt
<1>r. rec \in [Runs -> RecType] /\ rec[r] \in RecType /\ Supervision(r)
  BY <1>t DEF IInv, Typed
<1>1. /\ rec' \in [Runs -> RecType] /\ \A s \in Runs : Kept(s)
      /\ \A s \in Runs : rec'[s] = rec[s] \/ Supervision(s)'
  <2>1. CASE rec' = rec
    BY <2>1, <1>r DEF Kept
  <2>2. CASE rec[r].pending /\ rec' = [rec EXCEPT ![r].claim = "resolved", ![r].enforced = TRUE, ![r].pending = FALSE]
    <3> DEFINE x == [rec[r] EXCEPT !.claim = "resolved", !.enforced = TRUE, !.pending = FALSE]
    <3>1. x \in RecType /\ x.gate = rec[r].gate /\ x.state = rec[r].state
      BY <1>r DEF RecType, Claim
    <3>2. rec' = [rec EXCEPT ![r] = x]
      BY <1>t, <1>r, <2>2
    <3> HIDE DEF x
    <3>3. rec' \in [Runs -> RecType] /\ rec'[r] = x /\ \A s \in Runs : s # r => rec'[s] = rec[s]
      BY <1>t, <3>1, <3>2, RecUpdate
    <3>4. sup[r].pc # "finished" /\ UNCHANGED sup
      BY <1>r, <2>2 DEF Supervision, SettleContract
    <3>5. \A s \in Runs : Kept(s)
      BY <3>1, <3>3, <3>4 DEF Kept
    <3>6. Supervision(r)'
      BY <1>r, <3>4 DEF Supervision
    <3> QED
      BY <3>3, <3>5, <3>6
  <2> QED
    BY <1>p, <2>1, <2>2 DEF SettleContract, SettledContract
<1>2. /\ look' \in [Workers -> LookType]
      /\ \A v \in Workers : look'[v] = look[v] \/ LookedAt(v)'
  BY <1>t, Answered DEF SettleContract
<1>3. sup' \in [Runs -> SupType] /\ UNCHANGED <<sup, lease, journal, cand>>
  BY <1>t DEF SettleContract, Typed
<1>4. \E c, f : Harvested(w, r, c, f)
  BY <1>p DEF SettleContract
<1> QED
  BY <1>t, <1>1, <1>2, <1>3, <1>4, HarvestSteady

\* Stopping an idle run keeps the invariant.
LEMMA StopIdleKeeps ==
    ASSUME IInv, NEW w \in Workers, StopIdle(w) PROVE IInv' /\ Frozen
<1>p. PICK r \in Runs : r = look[w].run
  BY DEF IInv, StopIdle, LookedAt
<1>t. Typed /\ look[w] \in LookType /\ r \in Runs /\ rec[r].state # "none" /\ Supervision(r)
  BY <1>p DEF IInv, Typed, StopIdle, LookedAt
<1>1. /\ rec' \in [Runs -> RecType] /\ \A s \in Runs : Kept(s)
      /\ \A s \in Runs : s # r => rec'[s] = rec[s]
      /\ sup[r].pc = "finished" => rec'[r] = rec[r]
  <2> DEFINE c == IF look[w].found THEN "resolved" ELSE "failed"
  <2>1. c \in Claim /\ look[w].found \in BOOLEAN
    BY <1>t DEF Claim, LookType
  <2>2. rec' = CloseRun(r, c, look[w].found)
    BY <1>p DEF StopIdle
  <2> HIDE DEF c
  <2> QED
    BY <1>t, <2>1, <2>2, CloseRunDoes
<1>2. /\ sup' \in [Runs -> SupType] /\ \A s \in Runs : s # r => sup'[s] = sup[s]
      /\ sup'[r] = sup[r] \/ (sup'[r].pc = sup[r].pc /\ sup[r].pc = "finished")
         \/ sup'[r].pc = "dead"
  <2>1. CASE UNCHANGED sup
    BY <1>t, <2>1 DEF Typed
  <2>2. CASE sup[r].pc = "finished" /\ sup' = [sup EXCEPT ![r].pc = "finished"]
    BY <1>t, <2>2, SupGoto
  <2>3. CASE sup' = [sup EXCEPT ![r].pc = "dead"]
    BY <1>t, <2>3, SupGoto
  <2> QED
    BY <1>p, <2>1, <2>2, <2>3 DEF StopIdle
<1>3. Supervision(r)'
  <2>1. CASE sup'[r].pc = "dead"
    BY <2>1 DEF Supervision
  <2>2. CASE sup[r].pc = "finished" /\ sup'[r].pc = "finished"
    BY <1>1, <1>t, <2>2 DEF Supervision, Ended
  <2>3. CASE sup'[r] = sup[r] /\ sup[r].pc # "finished"
    BY <1>t, <2>3 DEF Supervision
  <2> QED
    BY <1>2, <2>1, <2>2, <2>3
<1>4. /\ look' \in [Workers -> LookType]
      /\ \A v \in Workers : look'[v] = look[v] \/ LookedAt(v)'
  BY <1>t, Answered DEF StopIdle
<1>5. \A s \in Runs : (sup'[s] = sup[s] /\ rec'[s] = rec[s]) \/ Supervision(s)'
  BY <1>1, <1>2, <1>3
<1>6. Harvested(w, r, rec'[r].claim, rec'[r].enforced) /\ UNCHANGED <<lease, journal, cand>>
  BY <1>p DEF StopIdle
<1>7. \E c, f : Harvested(w, r, c, f)
  BY <1>6
<1> QED
  BY <1>t, <1>1, <1>2, <1>4, <1>5, <1>6, <1>7, HarvestSteady

-----------------------------------------------------------------------------
\* A step of one gate job that writes no verdict.
LEMMA JobSteady ==
    ASSUME IInv, Typed', NEW w \in Workers, NEW r \in Runs,
           \A v \in Workers, s \in Runs : v # w \/ s # r => job'[v][s] = job[v][s],
           job'[w][r].token \in {0, job[w][r].token}, Sound(w, r)',
           \A s \in Runs : lease'[s].token = lease[s].token, UNCHANGED <<rec, sup, look>>
    PROVE  IInv' /\ Frozen
<1>1. ASSUME NEW v \in Workers, NEW s \in Runs
      PROVE  \/ job'[v][s] = job[v][s]
             \/ job'[v][s].token \in {0, job[v][s].token} /\ Sound(v, s)'
  OBVIOUS
<1> QED
  BY <1>1, Steady DEF Kept

\* Adoption takes up a run that has ended.
LEMMA AdoptKeeps ==
    ASSUME IInv, NEW w \in Workers, NEW r \in Runs, Adopt(w, r) PROVE IInv' /\ Frozen
<1>t. Typed /\ job \in [Workers -> [Runs -> JobType]]
  BY DEF IInv, Typed
<1> DEFINE b == journal[r].parked /\ journal[r].yields >= ReofferMax
           x == [NoJob EXCEPT !.pc = "claim", !.escalate = b]
<1>1. b \in BOOLEAN
  OBVIOUS
<1>2. Fresh(x) /\ x \in JobType
  <2> HIDE DEF b
  <2> QED
    BY <1>1 DEF Fresh, NoJob, JobType
<1>3. job' = [job EXCEPT ![w][r] = x]
  BY DEF Adopt
<1> HIDE DEF x
<1>4. /\ job' \in [Workers -> [Runs -> JobType]] /\ job'[w][r] = x
      /\ \A v \in Workers, s \in Runs : v # w \/ s # r => job'[v][s] = job[v][s]
  BY <1>t, <1>2, <1>3, JobUpdate
<1>5. Typed' /\ UNCHANGED <<rec, sup, look, lease>>
  BY <1>t, <1>4 DEF Adopt, Typed
<1>6. Sound(w, r)'
  BY <1>2, <1>4, <1>5, FreshIsSound DEF Adopt, OpenPipeline, Ended
<1> QED
  BY <1>2, <1>4, <1>5, <1>6, JobSteady DEF Fresh

\* A job that is done relies on nothing but its token.
LEMMA DoneKeeps ==
    ASSUME IInv, NEW w \in Workers, NEW r \in Runs,
           NEW y \in {"none", "superseded", "interrupted", "settled", "threw", "filed"},
           Done(w, r, y), job[w][r].pc # "none",
           lease' \in [Runs -> LeaseType], \A s \in Runs : lease'[s].token = lease[s].token,
           journal' \in [Runs -> JournalType], UNCHANGED <<rec, sup, look, active, cand>>
    PROVE  IInv' /\ Frozen
<1>t. Typed /\ Sound(w, r)
  BY DEF IInv
<1>1. /\ job' \in [Workers -> [Runs -> JobType]]
      /\ job'[w][r].pc = "done" /\ job'[w][r].token = job[w][r].token
      /\ \A v \in Workers, s \in Runs : v # w \/ s # r => job'[v][s] = job[v][s]
  BY <1>t, DoneDoes
<1>2. Typed'
  BY <1>t, <1>1 DEF Typed
<1>3. Sound(w, r)'
  BY <1>t, <1>1 DEF Sound, Started, Tokened, Owning
<1> QED
  BY <1>1, <1>2, <1>3, JobSteady

\* The lease is released, if it is still the job's.
LEMMA ReleaseDoes ==
    ASSUME Typed, NEW w \in Workers, NEW r \in Runs,
           lease' = IF OwnsRecord(w, r) THEN [lease EXCEPT ![r].released = TRUE] ELSE lease
    PROVE  lease' \in [Runs -> LeaseType] /\ \A s \in Runs : lease'[s].token = lease[s].token
<1>1. lease \in [Runs -> LeaseType] /\ lease[r] \in LeaseType
  BY DEF Typed
<1>2. lease' = lease \/ lease' = [lease EXCEPT ![r].released = TRUE]
  OBVIOUS
<1> QED
  BY <1>1, <1>2 DEF LeaseType

\* Releasing the pipeline lease keeps its token.
LEMMA ReleasePipelineKeeps ==
    ASSUME IInv, NEW w \in Workers, NEW r \in Runs, ReleasePipeline(w, r) PROVE IInv' /\ Frozen
<1>1. lease' \in [Runs -> LeaseType] /\ \A s \in Runs : lease'[s].token = lease[s].token
  BY ReleaseDoes DEF IInv, ReleasePipeline
<1> QED
  BY <1>1, DoneKeeps DEF ReleasePipeline, IInv, Typed

\* A job that lost its lease ends without a write.
LEMMA OwnerLostKeeps ==
    ASSUME IInv, NEW w \in Workers, NEW r \in Runs, OwnerLost(w, r) PROVE IInv' /\ Frozen
  BY DoneKeeps DEF OwnerLost, IInv, Typed

\* A job that files its escalation ends.
LEMMA FileEscalationKeeps ==
    ASSUME IInv, NEW w \in Workers, NEW r \in Runs, FileEscalation(w, r) PROVE IInv' /\ Frozen
  BY DoneKeeps DEF FileEscalation, IInv, Typed

\* A job that throws ends, with its lease or without.
LEMMA ThrowKeeps ==
    ASSUME IInv, NEW w \in Workers, NEW r \in Runs, Throw(w, r) PROVE IInv' /\ Frozen
<1>1. CASE job[w][r].pc = "file"
  <2>1. lease' \in [Runs -> LeaseType] /\ \A s \in Runs : lease'[s].token = lease[s].token
    BY <1>1, ReleaseDoes DEF IInv, Throw
  <2> QED
    BY <1>1, <2>1, DoneKeeps DEF Throw, IInv, Typed
<1>2. CASE job[w][r].pc # "file"
  <2>1. Done(w, r, "interrupted") \/ Done(w, r, "threw")
    BY <1>2 DEF Throw
  <2> QED
    BY <1>2, <2>1, DoneKeeps DEF Throw, IInv, Typed
<1> QED
  BY <1>1, <1>2

\* A claim is refused over a verdict, and hands out a token nobody has.
LEMMA ClaimPipelineKeeps ==
    ASSUME IInv, NEW w \in Workers, NEW r \in Runs, ClaimPipeline(w, r) PROVE IInv' /\ Frozen
<1>t. /\ Typed /\ Sound(w, r) /\ job \in [Workers -> [Runs -> JobType]]
      /\ job[w][r] \in JobType /\ job[w][r].pc = "claim"
      /\ lease \in [Runs -> LeaseType] /\ lease[r].token \in Nat
  BY DEF IInv, Typed, LeaseType, ClaimPipeline
<1>u. UNCHANGED <<rec, sup, look, active, cand>>
  BY DEF ClaimPipeline
<1>j. journal' \in [Runs -> JournalType]
  <2> DEFINE b == journal[r].opened \/ job'[w][r].pc = "drive"
  <2>1. journal \in [Runs -> JournalType] /\ journal[r] \in JournalType
    BY <1>t DEF Typed
  <2>2. b \in BOOLEAN
    OBVIOUS
  <2>3. journal' = [journal EXCEPT ![r].opened = b]
    BY DEF ClaimPipeline
  <2> HIDE DEF b
  <2> QED
    BY <2>1, <2>2, <2>3 DEF JournalType
<1>1. CASE UNCHANGED lease /\ (Done(w, r, "interrupted") \/ Done(w, r, "superseded"))
  BY <1>1, <1>t, <1>u, <1>j, DoneKeeps
<1>2. CASE /\ ~Refused(w, r)
           /\ lease' = [lease EXCEPT ![r] = [token |-> lease[r].token + 1, owner |-> w,
                                             released |-> FALSE, lapsed |-> FALSE]]
           /\ job' = [job EXCEPT ![w][r].token = lease[r].token + 1,
                                 ![w][r].pc = IF job[w][r].escalate THEN "file" ELSE "drive"]
  <2> DEFINE n == lease[r].token + 1
             l == IF job[w][r].escalate THEN "file" ELSE "drive"
             x == [job[w][r] EXCEPT !.token = n, !.pc = l]
             y == [token |-> n, owner |-> w, released |-> FALSE, lapsed |-> FALSE]
  <2>1. n \in Nat /\ n > lease[r].token /\ n > 0
    BY <1>t
  <2>2. y \in LeaseType /\ y.token = n
    <3> HIDE DEF n
    <3> QED
      BY <2>1 DEF LeaseType
  <2>3. x \in JobType /\ x.token = n /\ x.pc \in {"drive", "file"}
    <3> HIDE DEF n
    <3> QED
      BY <1>t, <2>1 DEF JobType
  <2>4. job' = [job EXCEPT ![w][r] = x]
    BY <1>2, <1>t
  <2>5. lease' = [lease EXCEPT ![r] = y]
    BY <1>2
  <2> HIDE DEF x, y
  <2>6. /\ lease' \in [Runs -> LeaseType] /\ lease'[r].token = n
        /\ \A s \in Runs : s # r => lease'[s] = lease[s]
    BY <1>t, <2>2, <2>5
  <2>7. /\ job' \in [Workers -> [Runs -> JobType]] /\ job'[w][r] = x
        /\ \A v \in Workers, s \in Runs : v # w \/ s # r => job'[v][s] = job[v][s]
    BY <1>t, <2>3, <2>4, JobUpdate
  <2> HIDE DEF n, l
  <2>8. ~Settled(r) /\ rec[r].state # "none"
    BY <1>2, <1>t DEF Refused, Sound, Started
  <2>9. ASSUME NEW v \in Workers, NEW s \in Runs PROVE Sound(v, s)'
    <3>1. Sound(v, s) /\ job[v][s].token \in Nat /\ lease[s].token \in Nat
      BY <1>t DEF IInv, Typed, JobType, LeaseType
    <3>2. CASE s # r
      BY <1>u, <2>6, <2>7, <3>1, <3>2
      DEF Sound, Started, Tokened, Owning, OwnsRecord, Settled
    <3>3. CASE s = r /\ v = w
      BY <1>u, <2>1, <2>3, <2>6, <2>7, <2>8, <3>3
      DEF Sound, Started, Tokened, Owning, Settled
    <3>4. CASE s = r /\ v # w
      <4>1. job'[v][s] = job[v][s] /\ job[v][s].token < n
        BY <2>1, <2>7, <3>1, <3>4 DEF Sound, Tokened
      <4> QED
        BY <1>u, <2>1, <2>6, <3>1, <3>4, <4>1
        DEF Sound, Started, Tokened, Owning, OwnsRecord, Settled
    <3> QED
      BY <3>2, <3>3, <3>4
  <2>10. Unique'
    <3> SUFFICES ASSUME NEW s \in Runs, NEW u \in Workers, NEW v \in Workers,
                        job'[u][s].token = job'[v][s].token, job'[v][s].token > 0
                 PROVE  u = v
      BY DEF Unique
    <3>1. \A q \in Workers : job[q][r].token < n
      <4> SUFFICES ASSUME NEW q \in Workers PROVE job[q][r].token < n
        OBVIOUS
      <4>1. Tokened(q, r) /\ job[q][r].token \in Nat
        BY <1>t DEF IInv, Sound, Typed, JobType
      <4> QED
        BY <4>1, <1>t, <2>1 DEF Tokened
    <3>2. CASE s = r /\ (u = w \/ v = w)
      <4>1. \A q \in Workers : q # w => job'[q][r].token # n
        BY <2>1, <2>7, <3>1
      <4> QED
        BY <2>3, <2>7, <3>2, <4>1
    <3>3. CASE s # r \/ (u # w /\ v # w)
      BY <2>7, <3>3 DEF IInv, Unique
    <3> QED
      BY <3>2, <3>3
  <2>11. Typed'
    BY <1>t, <1>u, <1>j, <2>6, <2>7 DEF Typed
  <2>12. \A s \in Runs : Supervision(s)' /\ Unstarted(s)'
    BY <1>u DEF IInv, Supervision, Unstarted, Ended
  <2>13. \A v \in Workers : LookedAt(v)'
    BY <1>u DEF IInv, LookedAt
  <2>14. Frozen
    BY <1>u DEF Frozen
  <2> QED
    BY <2>9, <2>10, <2>11, <2>12, <2>13, <2>14 DEF IInv
<1> QED
  BY <1>1, <1>2 DEF ClaimPipeline

Goes(w, r, l) == job' = [job EXCEPT ![w][r].pc = l]

\* A job goes on under its token.
LEMMA JobGoto ==
    ASSUME IInv, NEW w \in Workers, NEW r \in Runs, job[w][r].pc = "drive",
           NEW l \in {"decided", "yielded"}, Goes(w, r, l),
           journal' \in [Runs -> JournalType], UNCHANGED <<rec, sup, lease, look, active, cand>>
    PROVE  IInv' /\ Frozen
<1>t. Typed /\ Sound(w, r) /\ job \in [Workers -> [Runs -> JobType]] /\ job[w][r] \in JobType
  BY DEF IInv, Typed
<1> DEFINE x == [job[w][r] EXCEPT !.pc = l]
<1>1. x \in JobType /\ x.pc = l /\ x.token = job[w][r].token
  BY <1>t DEF JobType
<1>2. job' = [job EXCEPT ![w][r] = x]
  BY <1>t DEF Goes
<1> HIDE DEF x
<1>3. /\ job' \in [Workers -> [Runs -> JobType]] /\ job'[w][r] = x
      /\ \A v \in Workers, s \in Runs : v # w \/ s # r => job'[v][s] = job[v][s]
  BY <1>t, <1>1, <1>2, JobUpdate
<1>4. Typed'
  BY <1>t, <1>3 DEF Typed
<1>5. Sound(w, r)'
  BY <1>t, <1>1, <1>3 DEF Sound, Started, Tokened, Owning, OwnsRecord, Settled
<1> QED
  BY <1>1, <1>3, <1>4, <1>5, JobSteady

\* A verdict is written to the journal under a lease that is still owned.
LEMMA DecideKeeps ==
    ASSUME IInv, NEW w \in Workers, NEW r \in Runs, NEW verdict \in {"passed", "failed"},
           Decide(w, r, verdict)
    PROVE  IInv' /\ Frozen
<1>1. journal \in [Runs -> JournalType] /\ journal[r] \in JournalType
  BY DEF IInv, Typed
<1>2. journal' = [journal EXCEPT ![r].decided = verdict, ![r].parked = FALSE]
  BY DEF Decide
<1>3. journal' \in [Runs -> JournalType]
  BY <1>1, <1>2 DEF JournalType
<1> QED
  BY <1>3, JobGoto DEF Decide, Goes

\* A pipeline that yields parks its journal.
LEMMA YieldKeeps ==
    ASSUME IInv, NEW w \in Workers, NEW r \in Runs, Yield(w, r) PROVE IInv' /\ Frozen
<1>1. journal \in [Runs -> JournalType] /\ journal[r] \in JournalType
  BY DEF IInv, Typed
<1>2. journal' = [journal EXCEPT ![r].parked = TRUE, ![r].due = FALSE, ![r].yields = @ + 1]
  BY DEF Yield
<1>3. journal' \in [Runs -> JournalType]
  BY <1>1, <1>2 DEF JournalType
<1> QED
  BY <1>3, JobGoto DEF Yield, Goes

-----------------------------------------------------------------------------
\* A verdict is written under the lease's token, over no other, and its writer
\* goes on to no drive.
LEMMA VerdictLands ==
    ASSUME IInv, Typed', NEW w \in Workers, NEW r \in Runs,
           job[w][r].pc \in {"decided", "done"}, OwnsRecord(w, r), ~Settled(r),
           NEW g \in {"none", "passed", "failed", "blocked"}, rec' = [rec EXCEPT ![r].gate = g],
           \A v \in Workers, s \in Runs : v # w \/ s # r => job'[v][s] = job[v][s],
           job'[w][r].token \in {0, job[w][r].token}, job'[w][r].pc \in {"done", "none"},
           UNCHANGED <<sup, lease, look>>
    PROVE  IInv' /\ Frozen
<1>t. rec \in [Runs -> RecType] /\ rec[r] \in RecType /\ rec[r].state # "none"
  BY DEF IInv, Typed, Sound, Started
<1>1. /\ \A s \in Runs : s # r => rec'[s] = rec[s]
      /\ rec'[r].state = rec[r].state /\ rec'[r].pending = rec[r].pending
      /\ rec'[r].claim = rec[r].claim /\ rec'[r].enforced = rec[r].enforced
  BY <1>t DEF RecType
<1>2. \A s \in Runs : rec'[s].state = rec[s].state /\ rec'[s].pending = rec[s].pending
  BY <1>1
<1>3. \A s \in Runs : Supervision(s)' /\ Unstarted(s)'
  BY <1>t, <1>1, <1>2 DEF IInv, Supervision, Ended, Unstarted
<1>4. \A v \in Workers : LookedAt(v)'
  BY <1>2 DEF IInv, LookedAt
<1>5. ASSUME NEW v \in Workers, NEW s \in Runs PROVE Sound(v, s)'
  <2>1. Sound(v, s) /\ job[v][s].token \in Nat /\ lease[s].token \in Nat
    BY DEF IInv, Typed, JobType, LeaseType
  <2>2. CASE s # r
    BY <1>1, <2>1, <2>2 DEF Sound, Started, Tokened, Owning, OwnsRecord, Settled
  <2>3. CASE s = r /\ v = w
    BY <1>t, <1>1, <2>1, <2>3 DEF Sound, Started, Tokened, Owning
  <2>4. CASE s = r /\ v # w
    <3>1. ~(job[v][r].pc \in {"drive", "decided"} /\ OwnsRecord(v, r))
      <4> SUFFICES ASSUME job[v][r].pc \in {"drive", "decided"}, OwnsRecord(v, r) PROVE FALSE
        OBVIOUS
      <4>1. job[v][r].token = job[w][r].token /\ job[v][r].token > 0
        BY <2>1, <2>4 DEF OwnsRecord, Sound, Tokened
      <4> QED
        BY <2>4, <4>1 DEF IInv, Unique
    <3> QED
      BY <1>1, <2>1, <2>4, <3>1 DEF Sound, Started, Tokened, Owning, OwnsRecord
  <2> QED
    BY <2>2, <2>3, <2>4
<1>6. Unique'
  <2>1. \A v \in Workers, s \in Runs : job'[v][s].token \in {0, job[v][s].token}
    OBVIOUS
  <2> QED
    BY <2>1 DEF IInv, Unique
<1>7. Frozen
  BY <1>1 DEF Frozen
<1> QED
  BY <1>3, <1>4, <1>5, <1>6, <1>7 DEF IInv

\* Writing the gates' verdict keeps the record's type.
LEMMA GateTyped ==
    ASSUME Typed, NEW r \in Runs, NEW g \in {"none", "passed", "failed", "blocked"},
           rec' = [rec EXCEPT ![r].gate = g]
    PROVE  rec' \in [Runs -> RecType]
<1>1. rec \in [Runs -> RecType] /\ rec[r] \in RecType
  BY DEF Typed
<1> QED
  BY <1>1 DEF RecType

\* The journal's verdict reaches the record under the token it was decided under.
LEMMA SettleRunRecordKeeps ==
    ASSUME IInv, NEW w \in Workers, NEW r \in Runs, SettleRunRecord(w, r) PROVE IInv' /\ Frozen
<1>t. Typed /\ Sound(w, r) /\ job[w][r].pc = "decided"
  BY DEF IInv, SettleRunRecord
<1>1. CASE OwnsRecord(w, r) /\ rec' = [rec EXCEPT ![r].gate = journal[r].decided]
           /\ Done(w, r, "settled")
  <2>1. journal[r].decided \in {"none", "passed", "failed", "blocked"}
    BY <1>t DEF Typed, JournalType
  <2>2. ~Settled(r)
    BY <1>1, <1>t DEF Sound, Owning
  <2>3. rec' \in [Runs -> RecType]
    BY <1>1, <1>t, <2>1, GateTyped
  <2>4. /\ job' \in [Workers -> [Runs -> JobType]]
        /\ job'[w][r].pc = "done" /\ job'[w][r].token = job[w][r].token
        /\ \A v \in Workers, s \in Runs : v # w \/ s # r => job'[v][s] = job[v][s]
    BY <1>1, <1>t, DoneDoes
  <2>5. Typed'
    BY <1>t, <2>3, <2>4 DEF SettleRunRecord, Typed
  <2> QED
    BY <1>1, <1>t, <2>1, <2>2, <2>4, <2>5, VerdictLands DEF SettleRunRecord
<1>2. CASE Done(w, r, "superseded") /\ UNCHANGED rec
  BY <1>2, <1>t, DoneKeeps DEF SettleRunRecord, Typed
<1> QED
  BY <1>1, <1>2 DEF SettleRunRecord

\* A job that is done is forgotten.
LEMMA SettleGatesKeeps ==
    ASSUME IInv, NEW w \in Workers, NEW r \in Runs, SettleGates(w, r) PROVE IInv' /\ Frozen
<1>t. Typed /\ job[w][r].pc = "done" /\ job \in [Workers -> [Runs -> JobType]]
  BY DEF IInv, Typed, SettleGates
<1>1. NoJob \in JobType /\ NoJob.token = 0 /\ NoJob.pc = "none" /\ Fresh(NoJob)
  BY DEF NoJob, JobType, Fresh
<1>2. /\ job' \in [Workers -> [Runs -> JobType]] /\ job'[w][r] = NoJob
      /\ \A v \in Workers, s \in Runs : v # w \/ s # r => job'[v][s] = job[v][s]
  BY <1>t, <1>1, JobUpdate DEF SettleGates
<1>u. UNCHANGED <<sup, lease, journal, active, look, cand>>
  BY DEF SettleGates
<1>3. CASE UNCHANGED rec
  <2>1. Typed'
    BY <1>t, <1>u, <1>2, <1>3 DEF Typed
  <2>2. Sound(w, r)'
    BY <1>1, <1>2, <2>1, FreshIsSound
  <2> QED
    BY <1>u, <1>1, <1>2, <1>3, <2>1, <2>2, JobSteady
<1>4. ASSUME NEW g \in {"failed", "blocked"}, ~Settled(r), OwnsRecord(w, r),
             rec' = [rec EXCEPT ![r].gate = g]
      PROVE  IInv' /\ Frozen
  <2>1. Typed'
    BY <1>t, <1>u, <1>2, <1>4, GateTyped DEF Typed
  <2> QED
    BY <1>t, <1>u, <1>1, <1>2, <1>4, <2>1, VerdictLands
<1>5. \/ UNCHANGED rec
      \/ \E g \in {"failed", "blocked"} :
            ~Settled(r) /\ OwnsRecord(w, r) /\ rec' = [rec EXCEPT ![r].gate = g]
  <2>1. CASE job[w][r].result = "threw"
    BY <2>1 DEF SettleGates, StampLoopVerdict
  <2>2. CASE job[w][r].result = "filed"
    BY <2>2 DEF SettleGates, StampLoopVerdict
  <2>3. CASE job[w][r].result \notin {"threw", "filed"}
    BY <2>3 DEF SettleGates
  <2> QED
    BY <2>1, <2>2, <2>3
<1> QED
  BY <1>3, <1>4, <1>5

\* A worker that dies takes its jobs with it, and their tokens.
LEMMA CrashKeeps ==
    ASSUME IInv, NEW w \in Workers, Crash(w) PROVE IInv' /\ Frozen
<1>t. Typed
  BY DEF IInv
<1>u. UNCHANGED <<rec, sup, journal>>
  BY DEF Crash
<1>1. NoJob \in JobType /\ NoJob.token = 0 /\ NoJob.pc = "none" /\ Fresh(NoJob)
  BY DEF NoJob, JobType, Fresh
<1>2. ASSUME NEW s \in Runs
      PROVE  lease'[s] \in LeaseType /\ lease'[s].token = lease[s].token
  <2>1. lease'[s] = lease[s] \/ lease'[s] = [lease[s] EXCEPT !.owner = NoWorker]
    BY DEF Crash
  <2>2. lease[s] \in LeaseType
    BY <1>t DEF Typed
  <2> QED
    BY <2>1, <2>2 DEF LeaseType
<1>3. lease' \in [Runs -> LeaseType]
  <2>1. lease' = [s \in Runs |-> lease'[s]]
    BY DEF Crash
  <2> QED
    BY <1>2, <2>1
<1>4. /\ job' \in [Workers -> [Runs -> JobType]] /\ \A s \in Runs : job'[w][s] = NoJob
      /\ \A v \in Workers : v # w => job'[v] = job[v]
  BY <1>t, <1>1 DEF Crash, Typed
<1>5. active' \in [Workers -> SUBSET Runs] /\ cand' \in [Workers -> Items \cup {NoItem}]
  BY <1>t DEF Crash, Typed
<1>6. /\ look' \in [Workers -> LookType]
      /\ \A v \in Workers : look'[v] = look[v] \/ LookedAt(v)'
  BY <1>t, Answered DEF Crash
<1>7. Typed'
  BY <1>t, <1>u, <1>3, <1>4, <1>5, <1>6 DEF Typed
<1>8. ASSUME NEW v \in Workers, NEW s \in Runs
      PROVE  \/ job'[v][s] = job[v][s]
             \/ job'[v][s].token \in {0, job[v][s].token} /\ Sound(v, s)'
  <2>1. CASE v # w
    BY <1>4, <2>1
  <2>2. CASE v = w
    BY <1>1, <1>4, <1>7, <2>2, FreshIsSound
  <2> QED
    BY <2>1, <2>2
<1> QED
  BY <1>u, <1>2, <1>6, <1>7, <1>8, Steady DEF Kept

-----------------------------------------------------------------------------
\* Every step keeps the inductive invariant, and what is settled or observed.
LEMMA StepIInv == ASSUME IInv, Next PROVE IInv' /\ Frozen
<1>1. ASSUME NEW r \in Runs,
             Resolve(r) \/ Supervise(r) \/ SupervisorDies(r) \/ Age(r) \/ Due(r) \/ Lapse(r)
      PROVE  IInv' /\ Frozen
  BY <1>1, ResolveKeeps, CloseProvisionalKeeps, ApplyContractKeeps, CloseFinalKeeps,
     SupervisorDiesKeeps, AgeKeeps, DueKeeps, LapseKeeps
  DEF Supervise, How
<1>2. ASSUME NEW w \in Workers, Pass(w) PROVE IInv' /\ Frozen
  BY <1>2, DispatchKeeps, SettleContractKeeps, StopIdleKeeps, ReconcileKeeps, HarvestKeeps,
     GiveUpKeeps, AdoptKeeps
  DEF Pass
<1>3. ASSUME NEW w \in Workers, NEW r \in Runs,
             Look(w, r) \/ Drive(w, r) \/ Throw(w, r) \/ RenewPipeline(w, r)
      PROVE  IInv' /\ Frozen
  BY <1>3, LookKeeps, ClaimPipelineKeeps, DecideKeeps, SettleRunRecordKeeps, YieldKeeps,
     ReleasePipelineKeeps, OwnerLostKeeps, FileEscalationKeeps, SettleGatesKeeps, ThrowKeeps,
     RenewPipelineKeeps
  DEF Drive
<1> QED
  BY <1>1, <1>2, <1>3, CandidateKeeps, CrashKeeps, RestartKeeps DEF Next

\* A step that changes nothing keeps the invariant.
LEMMA StutterIInv == IInv /\ UNCHANGED vars => IInv'
<1> SUFFICES ASSUME IInv, UNCHANGED vars PROVE IInv'
  OBVIOUS
<1>1. Typed'
  BY DEF IInv, Typed, vars
<1> QED
  BY <1>1, Aside DEF vars

\* A settled verdict is final: whatever lands late, a supervisor's verified
\* outcome, a displaced driver's settlement or the loop's own stamp of a drive
\* that threw, leaves the verdict on the record as it is (claimPipeline,
\* settleRunRecord, stampLoopVerdict, carryGateFields).
THEOREM VerdictIsFinal == Spec => VerdictFrozen
<1>1. IInv /\ [Next]_vars => IInv'
  BY StepIInv, StutterIInv
<1>2. IInv /\ [Next]_vars => [\A r \in Runs : Settled(r) => rec'[r].gate = rec[r].gate]_vars
  BY StepIInv DEF Frozen
<1> QED
  BY <1>1, <1>2, InitIInv, PTL DEF Spec, VerdictFrozen

\* What a supervisor observed stands: no worker that reads the graph before the
\* final write, stops the run as silent or finds its supervisor dead writes over it
\* (closeRun, settleContract).
THEOREM ObservedStands == Spec => ObservedWins
<1>1. IInv /\ [Next]_vars => IInv'
  BY StepIInv, StutterIInv
<1>2. IInv /\ [Next]_vars =>
        [\A r \in Runs : sup[r].pc = "finished"
            => rec'[r].claim = rec[r].claim /\ rec'[r].enforced = rec[r].enforced]_vars
  BY StepIInv DEF Frozen
<1> QED
  BY <1>1, <1>2, InitIInv, PTL DEF Spec, ObservedWins
=============================================================================
