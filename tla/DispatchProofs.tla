--------------------------- MODULE DispatchProofs ---------------------------
(***************************************************************************)
(* One writer in the workspace, one run for a submit key and no hold let   *)
(* go of before its execution has ended: for any number of processes,      *)
(* attempts, claims and mishaps.                                           *)
(*                                                                         *)
(* OneWriter is the hard one.  Its argument is that of the code: a lock    *)
(* file created before the scan excludes (OneHolder); the count of writers *)
(* under the lock sees every supervisor that is alive, the one whose       *)
(* launcher died before it noted the pid included (UpIsSeen); from that    *)
(* count to the spawn nobody else can start one (Quiet); and the way to a  *)
(* launch that takes no lock, the resumption of a recorded attempt, never  *)
(* gets there, because what it resumes is on the record (Resumed).         *)
(***************************************************************************)
EXTENDS Dispatch, SequenceTheorems, FiniteSetTheorems, TLAPS

Owner == Procs \cup {NoProc}
KeyType == [e : Nat, f : Nat, p : Owner]
ExecType == [st : {"none", "open", "ended"}, owner : Owner, fence : Nat, leased : BOOLEAN,
             key : KeyType, handle : Nat]
RunType == [key : KeyType, st : {"launching", "running", "failed_launch", "done"},
            pid : BOOLEAN, sup : {"none", "up", "gone"}, old : BOOLEAN]
MemType == [e : Nat, fence : Nat, run : Nat, polled : BOOLEAN, resuming : BOOLEAN,
            owed : BOOLEAN]
OwnedType == [e : Nat, fence : Nat, run : Nat, pend : BOOLEAN]
Label == {"down", "idle", "stamp", "confirm", "record", "plan", "lock", "wlock", "scan",
          "submit", "launch", "spawn", "handshake", "owe", "end", "clear"}

TypeOK ==
    /\ exec \in [Execs -> ExecType]
    /\ debt \in [Execs -> Nat]
    /\ runs \in Seq(RunType)
    /\ wlock \in [Procs -> BOOLEAN]
    /\ pc \in [Procs -> Label]
    /\ mem \in [Procs -> MemType]
    /\ owned \in [Procs -> OwnedType]

\* A pass under way is about an execution.
Named(p) == pc[p] \notin {"idle", "down"} => mem[p].e \in Execs

\* What a pass launched or found is a run.
HasRun(p) == pc[p] \in {"record", "spawn", "handshake"} => mem[p].run \in Runs

\* The hold is cleared only after the execution was seen to have ended.
ClearsEnded(p) == pc[p] = "clear" => exec[mem[p].e].st = "ended"

\* From its creation to the end of the launch a pass has its lock file.
LockHeld(p) ==
    /\ pc[p] \in {"scan", "submit", "launch", "spawn", "handshake"} => wlock[p]
    /\ wlock[p] => pc[p] \in {"scan", "submit", "confirm", "launch", "record", "spawn",
                              "handshake"}

\* A pass without the lock resumes what is on the record.
Resumed(p) ==
    pc[p] = "confirm" /\ ~wlock[p] =>
        LET x == exec[mem[p].e]
        IN  x.key # NoKey /\ (x.handle # 0 \/ RunsUnder(x.key) # {})

\* The record of a run about to be spawned is as it was written.
Fresh(p) ==
    pc[p] = "spawn" =>
        LET x == runs[mem[p].run]
        IN  x.sup = "none" /\ ~x.pid /\ ~x.old /\ x.st = "launching"

\* From the count of the writers to the spawn no supervisor is alive.
NoneUp == \A r \in Runs : runs[r].sup # "up"
Preparing(p) == pc[p] \in {"launch", "spawn"} \/ (pc[p] = "confirm" /\ wlock[p])
Quiet(p) == Preparing(p) => NoneUp

Own(p) ==
    /\ Named(p) /\ HasRun(p) /\ ClearsEnded(p) /\ LockHeld(p) /\ Resumed(p) /\ Fresh(p)
    /\ Quiet(p)

\* At most one process is past its scan with a lock file of its own.
Past(p) == wlock[p] /\ pc[p] # "scan"
OneHolder == \A p, q \in Procs : Past(p) /\ Past(q) => p = q

\* A supervisor that is alive counts as a writer.
UpIsSeen == \A r \in Runs : runs[r].sup = "up" => InFlight(r) /\ (runs[r].pid \/ ~runs[r].old)

OneUp == \A r, s \in Runs : runs[r].sup = "up" /\ runs[s].sup = "up" => r = s

IInv ==
    /\ TypeOK
    /\ \A p \in Procs : Own(p)
    /\ OneHolder /\ UpIsSeen /\ OneUp /\ OneRunPerKey

-----------------------------------------------------------------------------
\* Initially there is no execution, no run and no lock.
LEMMA InitIInv == Init => IInv
<1> SUFFICES ASSUME Init PROVE IInv
  OBVIOUS
<1>1. NoKey \in KeyType /\ 0 \in Nat
  BY DEF NoKey, KeyType, Owner
<1>2. NoExec \in ExecType
  BY <1>1 DEF NoExec, ExecType, Owner
<1>3. Idle \in MemType /\ Nothing \in OwnedType
  BY DEF Idle, MemType, Nothing, OwnedType
<1>4. TypeOK
  BY <1>2, <1>3 DEF Init, TypeOK, Label
<1>5. ASSUME NEW p \in Procs PROVE Own(p)
  BY <1>5 DEF Init, Own, Named, HasRun, ClearsEnded, LockHeld, Resumed, Fresh, Quiet, Preparing
<1>6. OneHolder
  BY DEF Init, OneHolder, Past
<1>7. UpIsSeen /\ OneUp /\ OneRunPerKey
  BY DEF Init, UpIsSeen, OneUp, OneRunPerKey, Runs
<1> QED
  BY <1>4, <1>5, <1>6, <1>7 DEF IInv

\* Executions are numbered.
LEMMA ExecsNat == Execs \subseteq Nat
  BY ConstantsAssumption DEF Execs

\* Nobody but p moves.
Frame(p) ==
    \A q \in Procs : q # p => pc'[q] = pc[q] /\ mem'[q] = mem[q] /\ wlock'[q] = wlock[q]

\* A pass that returns, refuses or moves on.
LEMMA Idles == Idle \in MemType /\ Nothing \in OwnedType /\ "idle" \in Label /\ "owe" \in Label /\ "down" \in Label
  BY DEF Idle, MemType, Nothing, OwnedType, Label

\* What the end of a pass leaves behind.
LEMMA ReturnDoes ==
    ASSUME TypeOK, NEW p \in Procs, Return(p)
    PROVE  /\ pc' \in [Procs -> Label] /\ mem' \in [Procs -> MemType]
           /\ wlock' \in [Procs -> BOOLEAN]
           /\ pc'[p] = "idle" /\ wlock'[p] = FALSE /\ Frame(p)
  BY Idles DEF TypeOK, Return, Goto, Frame

\* What a refused dispatch leaves behind: the withdrawal is owed next.
LEMMA RefuseDoes ==
    ASSUME TypeOK, NEW p \in Procs, Refuse(p)
    PROVE  /\ pc' \in [Procs -> Label] /\ mem' = mem /\ wlock' \in [Procs -> BOOLEAN]
           /\ pc'[p] = "owe" /\ wlock'[p] = FALSE /\ Frame(p)
  BY Idles DEF TypeOK, Refuse, Goto, Frame

\* A pass that goes on changes its own label only.
LEMMA GotoDoes ==
    ASSUME TypeOK, NEW p \in Procs, NEW l \in Label, Goto(p, l)
    PROVE  /\ pc' \in [Procs -> Label] /\ pc'[p] = l
           /\ \A q \in Procs : q # p => pc'[q] = pc[q]
  BY DEF TypeOK, Goto

\* What is on an execution's record stays there.
Durable ==
    \A e \in Execs :
        /\ exec[e].st = "ended" => exec'[e].st = "ended"
        /\ exec[e].key # NoKey => exec'[e].key = exec[e].key
        /\ exec[e].handle # 0 => exec'[e].handle # 0

\* What the death of a process leaves behind.
LEMMA DieDoes ==
    ASSUME TypeOK, NEW p \in Procs, Die(p)
    PROVE  /\ pc' \in [Procs -> Label] /\ mem' \in [Procs -> MemType]
           /\ wlock' \in [Procs -> BOOLEAN] /\ owned' \in [Procs -> OwnedType]
           /\ exec' \in [Execs -> ExecType] /\ Durable
           /\ pc'[p] = "down" /\ wlock'[p] = FALSE /\ Frame(p)
<1>1. /\ pc' \in [Procs -> Label] /\ mem' \in [Procs -> MemType]
      /\ wlock' \in [Procs -> BOOLEAN] /\ owned' \in [Procs -> OwnedType]
      /\ pc'[p] = "down" /\ wlock'[p] = FALSE /\ Frame(p)
  BY Idles DEF TypeOK, Die, Goto, Frame
<1>2. ASSUME NEW e \in Execs
      PROVE  /\ exec'[e] \in ExecType
             /\ exec'[e].st = exec[e].st /\ exec'[e].key = exec[e].key
             /\ exec'[e].handle = exec[e].handle
  <2>1. exec'[e] = exec[e] \/ exec'[e] = [exec[e] EXCEPT !.owner = NoProc]
    BY DEF Die
  <2>2. exec[e] \in ExecType
    BY DEF TypeOK
  <2> QED
    BY <2>1, <2>2 DEF ExecType, Owner
<1>3. exec' = [e \in Execs |-> exec'[e]]
  BY DEF Die
<1>4. exec' \in [Execs -> ExecType]
  BY <1>2, <1>3
<1>5. Durable
  BY <1>2 DEF Durable
<1> QED
  BY <1>1, <1>4, <1>5

\* The store's own operations: a claim and the end of an execution.
LEMMA ClaimedDoes ==
    ASSUME TypeOK, NEW p \in Procs, NEW e \in Execs
    PROVE  /\ ClaimFence(p, e) \in Nat
           /\ ClaimedBy(p, e) \in ExecType
           /\ ClaimedBy(p, e).st = exec[e].st /\ ClaimedBy(p, e).key = exec[e].key
           /\ ClaimedBy(p, e).handle = exec[e].handle
<1>1. exec[e] \in ExecType
  BY DEF TypeOK
<1>2. ClaimFence(p, e) \in Nat
  BY <1>1 DEF ClaimFence, ExecType
<1> QED
  BY <1>1, <1>2 DEF ClaimedBy, ExecType, Owner

\* An update that keeps end, key and handle of an execution is durable.
LEMMA UpdateDurable ==
    ASSUME TypeOK, NEW e \in Execs, NEW x \in ExecType, exec' = [exec EXCEPT ![e] = x],
           exec[e].st = "ended" => x.st = "ended",
           exec[e].key # NoKey => x.key = exec[e].key,
           exec[e].handle # 0 => x.handle # 0
    PROVE  exec' \in [Execs -> ExecType] /\ Durable
<1>1. exec \in [Execs -> ExecType]
  BY DEF TypeOK
<1>2. exec' \in [Execs -> ExecType]
  BY <1>1
<1>3. exec'[e] = x /\ \A d \in Execs : d # e => exec'[d] = exec[d]
  BY <1>1
<1> QED
  BY <1>2, <1>3 DEF Durable

\* Ending an execution keeps its key and its handle.
LEMMA TerminateDoes ==
    ASSUME TypeOK, NEW p \in Procs, NEW e \in Execs, NEW f, Terminate(p, e, f)
    PROVE  /\ exec' \in [Execs -> ExecType] /\ Durable
           /\ Answer(e, f) = "ok" => exec'[e].st = "ended"
<1> DEFINE x == [NoExec EXCEPT !.st = "ended", !.key = exec[e].key, !.handle = exec[e].handle]
<1>1. exec[e] \in ExecType
  BY DEF TypeOK
<1>2. x \in ExecType /\ x.st = "ended" /\ x.key = exec[e].key /\ x.handle = exec[e].handle
  BY <1>1 DEF NoExec, ExecType, Owner
<1>3. CASE Answer(e, f) = "ok"
  <2>1. exec' = [exec EXCEPT ![e] = x]
    BY <1>3 DEF Terminate
  <2> HIDE DEF x
  <2>2. exec' \in [Execs -> ExecType] /\ Durable
    BY <1>2, <2>1, UpdateDurable
  <2> QED
    BY <1>2, <2>1, <2>2 DEF TypeOK
<1>4. CASE Answer(e, f) # "ok"
  BY <1>4 DEF Terminate, Durable, TypeOK
<1> QED
  BY <1>3, <1>4

-----------------------------------------------------------------------------
\* A step that leaves the runs alone and moves one pass keeps everything, if it
\* keeps what that pass relies on and takes it past no scan.
Still(q) == pc'[q] = pc[q] /\ mem'[q] = mem[q] /\ wlock'[q] = wlock[q]

\* A process that stands still goes on relying on what it relied on.
LEMMA OthersKept ==
    ASSUME IInv, Durable, UNCHANGED runs, NEW q \in Procs, Still(q)
    PROVE  Own(q)'
<1>1. Own(q) /\ pc'[q] = pc[q] /\ mem'[q] = mem[q] /\ wlock'[q] = wlock[q]
  BY DEF IInv, Still
<1>2. (Named(q) /\ HasRun(q) /\ LockHeld(q) /\ Fresh(q) /\ Quiet(q))'
  BY <1>1 DEF Own, Named, HasRun, LockHeld, Fresh, Quiet, Preparing, NoneUp, Runs
<1>3. ClearsEnded(q)'
  BY <1>1 DEF Own, Named, ClearsEnded, Durable
<1>4. Resumed(q)'
  BY <1>1 DEF Own, Named, Resumed, Durable, RunsUnder, Runs
<1> QED
  BY <1>2, <1>3, <1>4 DEF Own

\* A pass that launches nothing keeps the invariant if it keeps its own part.
LEMMA PassMoves ==
    ASSUME IInv, NEW p \in Procs, TypeOK', Durable, UNCHANGED runs, Frame(p), Own(p)',
           Past(p)' => Past(p) \/ Rivals(p) = {}
    PROVE  IInv'
<1>1. \A q \in Procs : Own(q)'
  BY OthersKept DEF Frame, Still
<1>2. \A q \in Procs : q # p => (Past(q)' <=> Past(q))
  BY DEF Frame, Past
<1>3. OneHolder'
  BY <1>2 DEF IInv, OneHolder, Rivals, Past
<1>4. (UpIsSeen /\ OneUp /\ OneRunPerKey)'
  BY DEF IInv, UpIsSeen, OneUp, OneRunPerKey, Runs, InFlight
<1> QED
  BY <1>1, <1>3, <1>4 DEF IInv

\* A pass without a lock that is not about to clear or to resume relies on
\* nothing but the execution it is about.
Plain == {"idle", "down", "stamp", "plan", "lock", "wlock", "owe", "end"}

\* A pass at a plain label, without the workspace lock, relies on nothing but its execution.
LEMMA OwnPlain ==
    ASSUME NEW p \in Procs, pc'[p] \in Plain, wlock'[p] = FALSE,
           pc'[p] \notin {"idle", "down"} => mem'[p].e \in Execs
    PROVE  Own(p)' /\ ~Past(p)'
  BY DEF Plain, Own, Named, HasRun, ClearsEnded, LockHeld, Resumed, Fresh, Quiet, Preparing,
         Past

\* A step that leaves the executions alone is durable.
LEMMA SameExec == UNCHANGED exec => Durable
  BY DEF Durable

\* The lock file of a pass that has not created it.
LEMMA Unlocked ==
    ASSUME IInv, NEW p \in Procs,
           pc[p] \in Plain \cup {"clear"}
    PROVE  wlock[p] = FALSE
  BY DEF IInv, TypeOK, Own, LockHeld, Plain

\* A pass that returns keeps everything, if the records are kept.
LEMMA ReturnKeeps ==
    ASSUME IInv, NEW p \in Procs, Return(p), exec' \in [Execs -> ExecType], Durable,
           debt' \in [Execs -> Nat], owned' \in [Procs -> OwnedType], UNCHANGED runs
    PROVE  IInv'
<1>1. TypeOK' /\ pc'[p] = "idle" /\ wlock'[p] = FALSE /\ Frame(p)
  BY ReturnDoes DEF IInv, TypeOK
<1> QED
  BY <1>1, OwnPlain, PassMoves DEF Plain

\* A refusal, whatever it answers to, keeps the invariant.
LEMMA RefuseKeeps ==
    ASSUME IInv, NEW p \in Procs, Refuse(p), exec' \in [Execs -> ExecType], Durable,
           pc[p] \notin {"idle", "down"}, UNCHANGED <<runs, debt, owned>>
    PROVE  IInv'
<1>1. TypeOK' /\ pc'[p] = "owe" /\ wlock'[p] = FALSE /\ Frame(p) /\ mem'[p].e \in Execs
  BY RefuseDoes DEF IInv, TypeOK, Own, Named
<1> QED
  BY <1>1, OwnPlain, PassMoves DEF Plain

\* A pass that goes on to a label where it relies on nothing new.
LEMMA GotoKeeps ==
    ASSUME IInv, NEW p \in Procs, NEW l \in Plain \ {"idle", "down"}, Goto(p, l),
           mem'[p].e \in Execs, mem' \in [Procs -> MemType], wlock'[p] = FALSE,
           \A q \in Procs : q # p => mem'[q] = mem[q],
           wlock' \in [Procs -> BOOLEAN], \A q \in Procs : q # p => wlock'[q] = wlock[q],
           exec' \in [Execs -> ExecType], Durable, debt' \in [Execs -> Nat],
           UNCHANGED <<runs, owned>>
    PROVE  IInv'
<1>1. l \in Label
  BY DEF Plain, Label
<1>2. TypeOK' /\ pc'[p] = l /\ Frame(p)
  BY <1>1, GotoDoes DEF IInv, TypeOK, Frame
<1> QED
  BY <1>2, OwnPlain, PassMoves

-----------------------------------------------------------------------------

\* Opening or claiming an execution keeps the invariant.
LEMMA OpenKeeps == ASSUME IInv, NEW p \in Procs, Open(p) PROVE IInv'
<1>t. TypeOK
  BY DEF IInv
<1>1. PICK e \in Execs :
        /\ exec[e].st = "none" \/ Claimable(p, e)
        /\ exec' = [exec EXCEPT ![e] = [ClaimedBy(p, e) EXCEPT !.st = "open"]]
        /\ mem' = [mem EXCEPT ![p] = [Idle EXCEPT !.e = e, !.fence = ClaimFence(p, e)]]
  BY DEF Open
<1>2. exec[e].st # "ended"
  BY <1>1 DEF Claimable
<1> DEFINE x == [ClaimedBy(p, e) EXCEPT !.st = "open"]
<1>3. x \in ExecType /\ x.key = exec[e].key /\ x.handle = exec[e].handle
  BY <1>t, ClaimedDoes DEF ExecType
<1>4. exec' \in [Execs -> ExecType] /\ Durable
  <2> HIDE DEF x
  <2>1. exec' = [exec EXCEPT ![e] = x]
    BY <1>1 DEF x
  <2> QED
    BY <1>t, <1>2, <1>3, <2>1, UpdateDurable
<1> DEFINE m == [Idle EXCEPT !.e = e, !.fence = ClaimFence(p, e)]
<1>5. m \in MemType /\ m.e = e
  BY <1>t, ClaimedDoes, ExecsNat DEF Idle, MemType
<1>6. /\ mem' \in [Procs -> MemType] /\ mem'[p].e = e
      /\ \A q \in Procs : q # p => mem'[q] = mem[q]
  <2> HIDE DEF m
  <2>1. mem' = [mem EXCEPT ![p] = m]
    BY <1>1 DEF m
  <2> QED
    BY <1>t, <1>5, <2>1 DEF TypeOK
<1>7. wlock[p] = FALSE
  BY Unlocked DEF Open, Plain
<1> QED
  BY <1>t, <1>4, <1>6, <1>7, GotoKeeps DEF TypeOK, Open, graph, disk, Plain

\* Planning the dispatch keeps the invariant.
LEMMA PlanKeeps == ASSUME IInv, NEW p \in Procs, Plan(p) PROVE IInv'
<1>1. CASE Refuse(p)
  BY <1>1, RefuseKeeps, SameExec DEF Plan, IInv, TypeOK, graph
<1>2. CASE Goto(p, "lock") /\ UNCHANGED <<mem, wlock>>
  BY <1>2, GotoKeeps, Unlocked, SameExec DEF Plan, IInv, TypeOK, Own, Named, graph, Plain
<1> QED
  BY <1>1, <1>2 DEF Plan

\* Taking the dispatch lock keeps the invariant.
LEMMA LockDispatchKeeps == ASSUME IInv, NEW p \in Procs, LockDispatch(p) PROVE IInv'
<1>1. CASE Refuse(p)
  BY <1>1, RefuseKeeps, SameExec DEF LockDispatch, IInv, TypeOK, graph
<1>2. CASE Goto(p, "wlock") /\ UNCHANGED <<mem, wlock>>
  BY <1>2, GotoKeeps, Unlocked, SameExec
  DEF LockDispatch, IInv, TypeOK, Own, Named, graph, Plain
<1> QED
  BY <1>1, <1>2 DEF LockDispatch

\* Recording the withdrawal that is owed keeps the invariant.
LEMMA OweKeeps == ASSUME IInv, NEW p \in Procs, Owe(p) PROVE IInv'
<1>t. mem[p].e \in Execs /\ mem[p] \in MemType /\ TypeOK
  BY DEF IInv, TypeOK, Own, Named, Owe
<1>1. debt' \in [Execs -> Nat]
  BY <1>t DEF Owe, TypeOK, MemType
<1>2. /\ mem' \in [Procs -> MemType] /\ mem'[p].e = mem[p].e
      /\ \A q \in Procs : q # p => mem'[q] = mem[q]
  <2>1. CASE UNCHANGED mem
    BY <1>t, <2>1 DEF TypeOK
  <2>2. CASE mem' = [mem EXCEPT ![p].owed = TRUE]
    <3>1. mem \in [Procs -> MemType]
      BY <1>t DEF TypeOK
    <3> QED
      BY <1>t, <2>2, <3>1 DEF MemType
  <2> QED
    BY <2>1, <2>2 DEF Owe
<1>3. wlock[p] = FALSE
  BY Unlocked DEF Owe, Plain
<1> QED
  BY <1>t, <1>1, <1>2, <1>3, GotoKeeps, SameExec DEF Owe, TypeOK, disk, Plain

\* Taking up a recorded debt keeps the invariant.
LEMMA ReconcileKeeps == ASSUME IInv, NEW p \in Procs, Reconcile(p) PROVE IInv'
<1>t. TypeOK
  BY DEF IInv
<1>1. PICK e \in Execs :
        mem' = [mem EXCEPT ![p] = [Idle EXCEPT !.e = e, !.fence = debt[e], !.owed = TRUE]]
  BY DEF Reconcile
<1> DEFINE m == [Idle EXCEPT !.e = e, !.fence = debt[e], !.owed = TRUE]
<1>2. m \in MemType /\ m.e = e
  BY <1>t, ExecsNat DEF Idle, MemType, TypeOK
<1>3. /\ mem' \in [Procs -> MemType] /\ mem'[p].e = e
      /\ \A q \in Procs : q # p => mem'[q] = mem[q]
  <2> HIDE DEF m
  <2>1. mem' = [mem EXCEPT ![p] = m]
    BY <1>1 DEF m
  <2> QED
    BY <1>t, <1>2, <2>1 DEF TypeOK
<1>4. wlock[p] = FALSE
  BY Unlocked DEF Reconcile, Plain
<1> QED
  BY <1>t, <1>3, <1>4, GotoKeeps, SameExec DEF Reconcile, TypeOK, disk, graph, Plain

-----------------------------------------------------------------------------

\* Creating the workspace lock file keeps the invariant.
LEMMA LockWorkspaceKeeps == ASSUME IInv, NEW p \in Procs, LockWorkspace(p) PROVE IInv'
<1>t. TypeOK /\ mem[p].e \in Execs
  BY DEF IInv, Own, Named, LockWorkspace
<1>1. /\ wlock' \in [Procs -> BOOLEAN] /\ wlock'[p] = TRUE
      /\ \A q \in Procs : q # p => wlock'[q] = wlock[q]
  BY <1>t DEF LockWorkspace, TypeOK
<1>2. pc' \in [Procs -> Label] /\ pc'[p] = "scan" /\ \A q \in Procs : q # p => pc'[q] = pc[q]
  BY <1>t, GotoDoes DEF LockWorkspace, Label
<1>3. TypeOK' /\ Frame(p) /\ UNCHANGED runs /\ Durable
  BY <1>t, <1>1, <1>2, SameExec DEF LockWorkspace, TypeOK, Frame, graph
<1>4. Own(p)' /\ ~Past(p)'
  BY <1>t, <1>1, <1>2
  DEF LockWorkspace, Own, Named, HasRun, ClearsEnded, LockHeld, Resumed, Fresh, Quiet,
      Preparing, Past
<1> QED
  BY <1>3, <1>4, PassMoves

\* A pass that goes on under its lock relies on its run, its quiet or its
\* record, as the label says.
LEMMA OnwardKeeps ==
    ASSUME IInv, NEW p \in Procs, NEW l \in {"submit", "confirm", "launch", "record"},
           Goto(p, l), pc[p] \notin {"idle", "down"}, pc[p] = "scan" => Rivals(p) = {},
           mem' \in [Procs -> MemType], mem'[p].e = mem[p].e,
           \A q \in Procs : q # p => mem'[q] = mem[q],
           exec' \in [Execs -> ExecType], Durable, UNCHANGED <<runs, debt, owned, wlock>>,
           l \in {"submit", "launch"} => wlock[p],
           l = "record" => mem'[p].run \in Runs,
           l = "launch" \/ (l = "confirm" /\ wlock[p]) => NoneUp,
           l = "confirm" /\ ~wlock[p] =>
                /\ exec'[mem[p].e].key # NoKey
                /\ exec'[mem[p].e].handle # 0 \/ RunsUnder(exec'[mem[p].e].key) # {}
    PROVE  IInv'
<1>1. TypeOK /\ mem[p].e \in Execs /\ l \in Label
  BY DEF IInv, Own, Named, Label
<1>2. pc' \in [Procs -> Label] /\ pc'[p] = l /\ \A q \in Procs : q # p => pc'[q] = pc[q]
  BY <1>1, GotoDoes
<1>3. TypeOK' /\ Frame(p)
  BY <1>1, <1>2 DEF TypeOK, Frame
<1>4. (Named(p) /\ HasRun(p) /\ ClearsEnded(p) /\ LockHeld(p) /\ Fresh(p))'
  BY <1>1, <1>2 DEF Named, HasRun, ClearsEnded, LockHeld, Fresh, Runs
<1>5. Resumed(p)'
  BY <1>2 DEF Resumed, RunsUnder, Runs
<1>6. Quiet(p)'
  BY <1>2 DEF Quiet, Preparing, NoneUp, Runs
<1>7. Own(p)'
  BY <1>4, <1>5, <1>6 DEF Own
<1>8. Past(p)' => Past(p) \/ Rivals(p) = {}
  BY DEF Past
<1> QED
  BY <1>3, <1>7, <1>8, PassMoves

\* Asking the other lock files who lives keeps the invariant.
LEMMA ScanLocksKeeps == ASSUME IInv, NEW p \in Procs, ScanLocks(p) PROVE IInv'
<1>t. TypeOK /\ mem[p].e \in Execs /\ wlock[p]
  BY DEF IInv, Own, Named, LockHeld, ScanLocks
<1>1. CASE Rivals(p) = {}
  BY <1>1, <1>t, OnwardKeeps, SameExec DEF ScanLocks, TypeOK, graph
<1>2. CASE Refuse(p)
  BY <1>2, <1>t, RefuseKeeps, SameExec DEF ScanLocks, TypeOK, graph
<1>3. CASE /\ Goto(p, "wlock") /\ mem' = [mem EXCEPT ![p].polled = TRUE]
           /\ wlock' = [wlock EXCEPT ![p] = FALSE]
  <2>1. /\ mem' \in [Procs -> MemType] /\ mem'[p].e = mem[p].e
        /\ \A q \in Procs : q # p => mem'[q] = mem[q]
    <3>1. mem \in [Procs -> MemType] /\ mem[p] \in MemType
      BY <1>t DEF TypeOK
    <3> QED
      BY <1>3, <3>1 DEF MemType
  <2> QED
    BY <1>3, <2>1, <1>t, GotoKeeps, SameExec DEF ScanLocks, TypeOK, graph, Plain
<1> QED
  BY <1>1, <1>2, <1>3 DEF ScanLocks

\* Stamping the hold keeps the invariant.
LEMMA StampHoldKeeps == ASSUME IInv, NEW p \in Procs, StampHold(p) PROVE IInv'
<1>t. TypeOK /\ mem[p].e \in Execs /\ wlock[p] = FALSE /\ pc[p] = "stamp"
  BY Unlocked DEF IInv, Own, Named, StampHold, Plain
<1>1. CASE Goto(p, "plan") /\ UNCHANGED <<mem, exec, disk>>
  BY <1>1, <1>t, GotoKeeps, SameExec DEF StampHold, TypeOK, disk, Plain
<1>2. CASE Resume(p) /\ UNCHANGED <<exec, disk>> /\ ~(Goto(p, "plan") /\ UNCHANGED mem)
  <2>1. /\ Goto(p, "confirm") /\ mem' = [mem EXCEPT ![p].resuming = TRUE]
        /\ exec[mem[p].e].key # NoKey
        /\ exec[mem[p].e].handle # 0 \/ RunsUnder(exec[mem[p].e].key) # {}
    BY <1>2 DEF Resume
  <2>2. /\ mem' \in [Procs -> MemType] /\ mem'[p].e = mem[p].e
        /\ \A q \in Procs : q # p => mem'[q] = mem[q]
    <3>1. mem \in [Procs -> MemType] /\ mem[p] \in MemType
      BY <1>t DEF TypeOK
    <3> QED
      BY <2>1, <3>1 DEF MemType
  <2> QED
    BY <1>2, <2>1, <2>2, <1>t, OnwardKeeps, SameExec DEF StampHold, TypeOK, disk
<1>3. CASE Terminate(p, mem[p].e, mem[p].fence) /\ Return(p)
  <2>1. exec' \in [Execs -> ExecType] /\ Durable
    BY <1>3, <1>t, TerminateDoes
  <2> QED
    BY <1>3, <2>1, <1>t, ReturnKeeps DEF StampHold, TypeOK, disk
<1> QED
  BY <1>1, <1>2, <1>3 DEF StampHold

-----------------------------------------------------------------------------
\* Following an attempt is remembered by the process and ends its pass.
LEMMA FollowDoes ==
    ASSUME TypeOK, NEW p \in Procs, NEW r \in Nat, NEW b \in BOOLEAN, Follow(p, r, b)
    PROVE  owned' \in [Procs -> OwnedType] /\ Return(p)
<1> DEFINE o == [e |-> mem[p].e, fence |-> mem[p].fence, run |-> r, pend |-> b]
<1>1. mem[p] \in MemType
  BY DEF TypeOK
<1>2. o \in OwnedType
  BY <1>1 DEF OwnedType, MemType
<1>3. owned' = owned \/ owned' = [owned EXCEPT ![p] = o]
  BY DEF Follow
<1> HIDE DEF o
<1>4. owned' \in [Procs -> OwnedType]
  BY <1>2, <1>3 DEF TypeOK
<1> QED
  BY <1>4 DEF Follow

\* Confirming the fence: a pass without the lock has a handle or a run to adopt,
\* so only one with the lock goes on to launch.
LEMMA ConfirmFenceKeeps == ASSUME IInv, NEW p \in Procs, ConfirmFence(p) PROVE IInv'
<1>t. TypeOK /\ mem[p].e \in Execs /\ pc[p] = "confirm" /\ exec[mem[p].e] \in ExecType
  BY DEF IInv, TypeOK, Own, Named, ConfirmFence
<1>u. exec' \in [Execs -> ExecType] /\ Durable /\ UNCHANGED <<runs, debt>> /\ debt' \in [Execs -> Nat]
  BY <1>t, SameExec DEF ConfirmFence, TypeOK, graph
<1>1. CASE Follow(p, exec[mem[p].e].handle, FALSE)
  <2>1. exec[mem[p].e].handle \in Nat
    BY <1>t DEF ExecType
  <2> QED
    BY <1>1, <2>1, <1>t, <1>u, FollowDoes, ReturnKeeps
<1>2. CASE Return(p) /\ UNCHANGED owned
  BY <1>2, <1>t, <1>u, ReturnKeeps DEF TypeOK
<1>3. CASE /\ exec[mem[p].e].handle = 0 /\ RunsUnder(exec[mem[p].e].key) = {}
           /\ Goto(p, "launch") /\ UNCHANGED <<mem, wlock, owned>>
  <2>1. wlock[p] /\ NoneUp
    BY <1>3, <1>t DEF IInv, Own, Resumed, Quiet, Preparing
  <2> QED
    BY <1>3, <2>1, <1>t, <1>u, OnwardKeeps DEF TypeOK
<1>4. ASSUME NEW r \in RunsUnder(exec[mem[p].e].key), Goto(p, "record"),
             mem' = [mem EXCEPT ![p].run = r], UNCHANGED <<wlock, owned>>
      PROVE  IInv'
  <2>1. r \in Runs /\ r \in Nat
    BY <1>t DEF RunsUnder, Runs, TypeOK
  <2>2. /\ mem' \in [Procs -> MemType] /\ mem'[p].e = mem[p].e /\ mem'[p].run = r
        /\ \A q \in Procs : q # p => mem'[q] = mem[q]
    <3>1. mem \in [Procs -> MemType] /\ mem[p] \in MemType
      BY <1>t DEF TypeOK
    <3> QED
      BY <1>4, <2>1, <3>1 DEF MemType
  <2> QED
    BY <1>4, <2>1, <2>2, <1>t, <1>u, OnwardKeeps
<1> QED
  BY <1>1, <1>2, <1>3, <1>4 DEF ConfirmFence

\* Writing the handle: what is recorded is a run, so a handle once there stays.
LEMMA RecordHandleKeeps == ASSUME IInv, NEW p \in Procs, RecordHandle(p) PROVE IInv'
<1> DEFINE e == mem[p].e
           x == [exec[e] EXCEPT !.handle = mem[p].run]
<1>t. /\ TypeOK /\ e \in Execs /\ mem[p] \in MemType /\ exec[e] \in ExecType
      /\ exec \in [Execs -> ExecType] /\ mem[p].run \in Runs
  BY DEF IInv, TypeOK, Own, Named, HasRun, RecordHandle
<1>1. mem[p].run \in Nat /\ mem[p].run # 0
  BY <1>t DEF Runs, TypeOK
<1>2. x \in ExecType /\ x.st = exec[e].st /\ x.key = exec[e].key /\ x.handle = mem[p].run
  BY <1>t, <1>1 DEF ExecType
<1>3. [exec EXCEPT ![e].handle = mem[p].run] = [exec EXCEPT ![e] = x]
  BY <1>t
<1>4. exec' = exec \/ exec' = [exec EXCEPT ![e] = x]
  BY <1>3 DEF RecordHandle
<1>5. exec' \in [Execs -> ExecType] /\ Durable
  <2> HIDE DEF x
  <2>1. CASE exec' = exec
    BY <2>1, <1>t, SameExec
  <2>2. CASE exec' = [exec EXCEPT ![e] = x]
    BY <2>2, <1>t, <1>1, <1>2, UpdateDurable
  <2> QED
    BY <1>4, <2>1, <2>2
<1> HIDE DEF x
<1>6. owned' \in [Procs -> OwnedType] /\ Return(p)
  <2>1. CASE Return(p) /\ UNCHANGED owned
    BY <2>1, <1>t DEF TypeOK
  <2>2. CASE Follow(p, mem[p].run, TRUE) \/ Follow(p, mem[p].run, FALSE)
    BY <2>2, <1>t, <1>1, FollowDoes
  <2> QED
    BY <2>1, <2>2 DEF RecordHandle
<1> QED
  BY <1>t, <1>5, <1>6, ReturnKeeps DEF RecordHandle, TypeOK, graph

\* The count under the lock sees every supervisor that is alive.
LEMMA RecheckSees == ASSUME UpIsSeen, Recheck PROVE NoneUp
  BY DEF UpIsSeen, Recheck, LiveWorkspaceWriters, NoneUp

\* The count of the writers, then the key: a key once recorded is not replaced.
LEMMA SubmitKeeps == ASSUME IInv, NEW p \in Procs, Submit(p) PROVE IInv'
<1> DEFINE e == mem[p].e
           k == [e |-> e, f |-> mem[p].fence, p |-> p]
           x == [exec[e] EXCEPT !.key = k]
<1>t. /\ TypeOK /\ e \in Execs /\ mem[p] \in MemType /\ exec[e] \in ExecType
      /\ exec \in [Execs -> ExecType] /\ wlock[p] /\ pc[p] = "submit" /\ UpIsSeen
  BY DEF IInv, TypeOK, Own, Named, LockHeld, Submit
<1>1. k \in KeyType
  BY <1>t, ExecsNat DEF KeyType, MemType, Owner
<1>2. x \in ExecType /\ x.st = exec[e].st /\ x.key = k /\ x.handle = exec[e].handle
  <2> HIDE DEF k
  <2> QED
    BY <1>t, <1>1 DEF ExecType
<1>3. [exec EXCEPT ![e].key = k] = [exec EXCEPT ![e] = x]
  BY <1>t
<1>4. exec' = exec \/ (exec[e].key = NoKey /\ exec' = [exec EXCEPT ![e] = x])
  BY <1>3 DEF Submit
<1>5. exec' \in [Execs -> ExecType] /\ Durable
  <2> HIDE DEF x
  <2>1. CASE exec' = exec
    BY <2>1, <1>t, SameExec
  <2>2. CASE exec[e].key = NoKey /\ exec' = [exec EXCEPT ![e] = x]
    BY <2>2, <1>t, <1>2, UpdateDurable
  <2> QED
    BY <1>4, <2>1, <2>2
<1> HIDE DEF x
<1>6. UNCHANGED <<debt, owned, runs>>
  BY DEF Submit, graph, disk
<1>7. CASE Refuse(p)
  BY <1>7, <1>t, <1>5, <1>6, RefuseKeeps
<1>8. CASE Recheck /\ (Goto(p, "confirm") \/ Goto(p, "launch")) /\ UNCHANGED <<mem, wlock>>
  <2>1. NoneUp
    BY <1>8, <1>t, RecheckSees
  <2> QED
    BY <1>8, <2>1, <1>t, <1>5, <1>6, OnwardKeeps DEF TypeOK
<1> QED
  BY <1>7, <1>8 DEF Submit, disk

-----------------------------------------------------------------------------
\* What becomes of the debt of a pass.
LEMMA DebtsTyped ==
    ASSUME TypeOK, NEW p \in Procs, mem[p].e \in Execs
    PROVE  Retired(p) \in [Execs -> Nat] /\ Rewritten(p) \in [Execs -> Nat]
<1>1. ClaimFence(p, mem[p].e) \in Nat
  BY ClaimedDoes
<1>2. debt \in [Execs -> Nat]
  BY DEF TypeOK
<1> QED
  BY <1>1, <1>2 DEF Retired, Rewritten

\* A pass goes on to clear the hold of an execution that has ended.
LEMMA EndedKeeps ==
    ASSUME IInv, NEW p \in Procs, pc[p] = "end", Goto(p, "clear"), UNCHANGED <<mem, wlock>>,
           exec' \in [Execs -> ExecType], Durable, exec'[mem[p].e].st = "ended",
           UNCHANGED <<runs, debt, owned>>
    PROVE  IInv'
<1>1. TypeOK /\ mem[p].e \in Execs /\ wlock[p] = FALSE /\ "clear" \in Label
  BY Unlocked DEF IInv, Own, Named, Plain, Label
<1>2. pc' \in [Procs -> Label] /\ pc'[p] = "clear" /\ \A q \in Procs : q # p => pc'[q] = pc[q]
  BY <1>1, GotoDoes
<1>3. TypeOK' /\ Frame(p)
  BY <1>1, <1>2 DEF TypeOK, Frame
<1>4. Own(p)' /\ ~Past(p)'
  BY <1>1, <1>2
  DEF Own, Named, HasRun, ClearsEnded, LockHeld, Resumed, Fresh, Quiet, Preparing, Past
<1> QED
  BY <1>3, <1>4, PassMoves

\* Ending the execution: the pass goes on to clear only what has ended.
LEMMA EndExecutionKeeps == ASSUME IInv, NEW p \in Procs, EndExecution(p) PROVE IInv'
<1> DEFINE e == mem[p].e
           f == mem[p].fence
           Stay == Goto(p, "clear") /\ UNCHANGED <<mem, wlock>>
<1>t. /\ TypeOK /\ e \in Execs /\ mem[p] \in MemType /\ exec[e] \in ExecType
      /\ exec \in [Execs -> ExecType] /\ pc[p] = "end" /\ wlock[p] = FALSE
      /\ mem \in [Procs -> MemType]
  BY Unlocked DEF IInv, TypeOK, Own, Named, EndExecution, Plain
<1>u. UNCHANGED <<runs, owned>> /\ owned' \in [Procs -> OwnedType]
  BY <1>t DEF EndExecution, TypeOK
<1>v. Retired(p) \in [Execs -> Nat] /\ Rewritten(p) \in [Execs -> Nat] /\ debt \in [Execs -> Nat]
  BY <1>t, DebtsTyped DEF TypeOK
<1>1. CASE Return(p) /\ UNCHANGED exec /\ debt' \in {debt, Retired(p)}
  BY <1>1, <1>t, <1>u, <1>v, SameExec, ReturnKeeps
<1>2. CASE Answer(e, f) = "execution_terminal" /\ Stay /\ UNCHANGED <<exec, debt>>
  <2>1. exec'[e].st = "ended"
    BY <1>2 DEF Answer
  <2> QED
    BY <1>2, <2>1, <1>t, <1>u, SameExec, EndedKeeps
<1>3. CASE Answer(e, f) = "ok" /\ Terminate(p, e, f) /\ Stay /\ UNCHANGED debt
  <2>1. exec' \in [Execs -> ExecType] /\ Durable /\ exec'[e].st = "ended"
    BY <1>3, <1>t, TerminateDoes
  <2> QED
    BY <1>3, <2>1, <1>t, <1>u, EndedKeeps
<1>4. CASE /\ exec' = [exec EXCEPT ![e] = ClaimedBy(p, e)]
           /\ mem' = [mem EXCEPT ![p].fence = ClaimFence(p, e)]
           /\ debt' \in {debt, Rewritten(p)}
           /\ UNCHANGED <<pc, wlock>>
  <2>1. exec' \in [Execs -> ExecType] /\ Durable
    BY <1>4, <1>t, ClaimedDoes, UpdateDurable
  <2>2. /\ mem' \in [Procs -> MemType] /\ mem'[p].e = e
        /\ \A q \in Procs : q # p => mem'[q] = mem[q]
    <3>1. ClaimFence(p, e) \in Nat
      BY <1>t, ClaimedDoes
    <3> QED
      BY <1>4, <3>1, <1>t DEF MemType
  <2>3. TypeOK' /\ Frame(p)
    BY <1>4, <1>t, <1>u, <1>v, <2>1, <2>2 DEF TypeOK, Frame
  <2>4. Own(p)' /\ ~Past(p)'
    BY <1>4, <1>t, <2>2, OwnPlain DEF Plain
  <2> QED
    BY <2>1, <2>3, <2>4, <1>u, PassMoves
<1>5. Answer(e, f) \in {"execution_terminal", "fence_stale", "lease_expired", "ok"}
  BY DEF Answer
<1>6. \/ Return(p) /\ UNCHANGED exec /\ debt' \in {debt, Retired(p)}
      \/ Answer(e, f) = "execution_terminal" /\ Stay /\ UNCHANGED <<exec, debt>>
      \/ Answer(e, f) = "ok" /\ Terminate(p, e, f) /\ Stay /\ UNCHANGED debt
      \/ /\ exec' = [exec EXCEPT ![e] = ClaimedBy(p, e)]
         /\ mem' = [mem EXCEPT ![p].fence = ClaimFence(p, e)]
         /\ debt' \in {debt, Rewritten(p)}
         /\ UNCHANGED <<pc, wlock>>
  <2>1. CASE Answer(e, f) = "execution_terminal"
    BY <2>1 DEF EndExecution
  <2>2. CASE Answer(e, f) = "fence_stale"
    BY <2>2 DEF EndExecution
  <2>3. CASE Answer(e, f) = "lease_expired"
    BY <2>3 DEF EndExecution
  <2>4. CASE Answer(e, f) = "ok"
    BY <2>4 DEF EndExecution, Unconfirmed
  <2> QED
    BY <1>5, <2>1, <2>2, <2>3, <2>4
<1> QED
  BY <1>1, <1>2, <1>3, <1>4, <1>6

\* Clearing the hold ends the pass.
LEMMA ClearHoldKeeps == ASSUME IInv, NEW p \in Procs, ClearHold(p) PROVE IInv'
<1>t. TypeOK /\ mem[p].e \in Execs
  BY DEF IInv, Own, Named, ClearHold
<1>1. debt' \in [Execs -> Nat]
  BY <1>t, DebtsTyped DEF ClearHold, TypeOK
<1> QED
  BY <1>t, <1>1, SameExec, ReturnKeeps DEF ClearHold, TypeOK

-----------------------------------------------------------------------------
\* A step that moves no pass and starts no run keeps everything, if the records
\* are kept.
LEMMA StoreMoves ==
    ASSUME IInv, exec' \in [Execs -> ExecType], Durable, owned' \in [Procs -> OwnedType],
           UNCHANGED <<debt, runs, wlock, pc, mem>>
    PROVE  IInv'
<1>1. TypeOK'
  BY DEF IInv, TypeOK
<1>2. \A q \in Procs : Own(q)'
  BY OthersKept DEF Still
<1>3. OneHolder'
  BY DEF IInv, OneHolder, Past
<1>4. (UpIsSeen /\ OneUp /\ OneRunPerKey)'
  BY DEF IInv, UpIsSeen, OneUp, OneRunPerKey, Runs, InFlight
<1> QED
  BY <1>1, <1>2, <1>3, <1>4 DEF IInv

\* The sweep writes a handle only where there is none.
LEMMA SweepKeeps == ASSUME IInv, NEW p \in Procs, Sweep(p) PROVE IInv'
<1> DEFINE e == owned[p].e
           r == owned[p].run
           x == IF owned[p].pend /\ Answer(e, owned[p].fence) = "ok" /\ exec[e].handle = 0
                THEN [exec[e] EXCEPT !.handle = r] ELSE exec[e]
<1>t. TypeOK /\ owned[p] \in OwnedType /\ exec \in [Execs -> ExecType] /\ r \in Nat
  BY DEF IInv, TypeOK, OwnedType
<1>1. exec' = [exec EXCEPT ![e] = x]
  BY DEF Sweep
<1>2. exec' \in [Execs -> ExecType] /\ Durable
  <2>1. CASE e \in Execs
    <3>1. exec[e] \in ExecType
      BY <1>t, <2>1
    <3>2. /\ x \in ExecType /\ x.st = exec[e].st /\ x.key = exec[e].key
          /\ exec[e].handle # 0 => x.handle # 0
      BY <1>t, <3>1 DEF ExecType
    <3> HIDE DEF x
    <3> QED
      BY <1>1, <1>t, <2>1, <3>2, UpdateDurable
  <2>2. CASE e \notin Execs
    <3>1. exec' = exec
      BY <1>1, <1>t, <2>2
    <3> QED
      BY <1>t, <3>1, SameExec
  <2> QED
    BY <2>1, <2>2
<1>3. owned' \in [Procs -> OwnedType]
  <2>1. owned' = owned \/ owned' = [owned EXCEPT ![p] = Nothing]
    BY DEF Sweep
  <2> QED
    BY <2>1, <1>t, Idles DEF TypeOK
<1> QED
  BY <1>2, <1>3, StoreMoves DEF Sweep, graph, disk

\* A lease that lapses leaves the rest of the record.
LEMMA LapseKeeps == ASSUME IInv, NEW e \in Execs, Lapse(e) PROVE IInv'
<1> DEFINE x == [exec[e] EXCEPT !.leased = FALSE]
<1>t. TypeOK /\ exec \in [Execs -> ExecType] /\ exec[e] \in ExecType
  BY DEF IInv, TypeOK
<1>1. exec' = [exec EXCEPT ![e] = x]
  BY <1>t DEF Lapse
<1>2. x \in ExecType /\ x.st = exec[e].st /\ x.key = exec[e].key /\ x.handle = exec[e].handle
  BY <1>t DEF ExecType
<1>3. exec' \in [Execs -> ExecType] /\ Durable
  <2> HIDE DEF x
  <2> QED
    BY <1>t, <1>1, <1>2, UpdateDurable
<1> QED
  BY <1>t, <1>3, StoreMoves DEF Lapse, graph, disk, TypeOK

\* A process that dies leaves its records, and relies on nothing.
LEMMA CrashKeeps == ASSUME IInv, NEW p \in Procs, Crash(p) PROVE IInv'
<1>1. /\ TypeOK' /\ Durable /\ Frame(p)
      /\ pc'[p] = "down" /\ wlock'[p] = FALSE /\ UNCHANGED runs
  BY DieDoes DEF IInv, TypeOK, Crash, graph
<1> QED
  BY <1>1, OwnPlain, PassMoves DEF Plain

\* A worker is started again with nothing in memory.
LEMMA RestartKeeps == ASSUME IInv, NEW p \in Procs, Restart(p) PROVE IInv'
<1>t. TypeOK /\ wlock[p] = FALSE
  BY Unlocked DEF IInv, Restart, Plain
<1>1. pc' \in [Procs -> Label] /\ pc'[p] = "idle" /\ \A q \in Procs : q # p => pc'[q] = pc[q]
  BY <1>t, GotoDoes, Idles DEF Restart
<1>2. TypeOK' /\ Frame(p) /\ Durable /\ UNCHANGED runs /\ wlock'[p] = FALSE
  BY <1>t, <1>1, SameExec DEF Restart, TypeOK, Frame, graph, disk
<1> QED
  BY <1>1, <1>2, OwnPlain, PassMoves DEF Plain

-----------------------------------------------------------------------------
\* The steps that change a run record, or write a new one.
KeysKept == Runs \subseteq Runs' /\ \A r \in Runs : runs'[r].key = runs[r].key

\* An update of one run leaves the others.
LEMMA RunUpdate ==
    ASSUME TypeOK, NEW r \in Runs, NEW x \in RunType, runs' = [runs EXCEPT ![r] = x]
    PROVE  /\ runs' \in Seq(RunType) /\ Runs' = Runs /\ runs'[r] = x
           /\ \A s \in Runs : s # r => runs'[s] = runs[s]
<1>1. runs \in Seq(RunType) /\ r \in 1 .. Len(runs)
  BY DEF TypeOK, Runs
<1> QED
  BY <1>1, ExceptSeq DEF Runs

\* A pass that does not move relies on the runs only for what it prepares.
LEMMA OthersRunsKept ==
    ASSUME IInv, Durable, KeysKept, NEW q \in Procs, Still(q),
           Fresh(q)', Preparing(q) => NoneUp'
    PROVE  Own(q)'
<1>1. Own(q) /\ pc'[q] = pc[q] /\ mem'[q] = mem[q] /\ wlock'[q] = wlock[q]
  BY DEF IInv, Still
<1>2. (Named(q) /\ HasRun(q) /\ LockHeld(q))'
  BY <1>1 DEF Own, Named, HasRun, LockHeld, KeysKept
<1>3. Quiet(q)'
  BY <1>1 DEF Quiet, Preparing
<1>4. ClearsEnded(q)'
  BY <1>1 DEF Own, Named, ClearsEnded, Durable
<1>5. Resumed(q)'
  <2> SUFFICES ASSUME pc[q] = "confirm", ~wlock[q]
               PROVE  LET x == exec'[mem[q].e]
                      IN  /\ x.key # NoKey
                          /\ x.handle # 0 \/ {r \in Runs' : runs'[r].key = x.key} # {}
    BY <1>1 DEF Resumed, RunsUnder
  <2>1. /\ mem[q].e \in Execs /\ exec[mem[q].e].key # NoKey
        /\ exec[mem[q].e].handle # 0 \/ RunsUnder(exec[mem[q].e].key) # {}
    BY <1>1 DEF Own, Named, Resumed
  <2>2. /\ exec'[mem[q].e].key = exec[mem[q].e].key
        /\ exec[mem[q].e].handle # 0 => exec'[mem[q].e].handle # 0
    BY <2>1 DEF Durable
  <2> QED
    BY <2>1, <2>2 DEF RunsUnder, KeysKept
<1> QED
  BY <1>2, <1>3, <1>4, <1>5 DEF Own

\* While one pass is past its scan with its lock no other prepares a launch.
LEMMA OnlyPreparer ==
    ASSUME IInv, NEW p \in Procs, Past(p), NEW q \in Procs, q # p
    PROVE  ~Preparing(q) /\ pc[q] # "spawn"
  BY DEF IInv, OneHolder, Past, Own, LockHeld, Preparing

\* A pass past the workspace lock keeps the invariant if what it adds is seen and alone.
LEMMA LauncherMoves ==
    ASSUME IInv, NEW p \in Procs, Past(p), TypeOK', Durable, KeysKept, Frame(p), Own(p)',
           UpIsSeen', OneUp', OneRunPerKey'
    PROVE  IInv'
<1>1. ASSUME NEW q \in Procs PROVE Own(q)'
  <2>1. CASE q # p
    <3>1. ~Preparing(q) /\ pc[q] # "spawn" /\ Still(q)
      BY <2>1, OnlyPreparer DEF Frame, Still
    <3>2. Fresh(q)'
      BY <3>1 DEF Fresh, Still
    <3> QED
      BY <3>1, <3>2, OthersRunsKept
  <2> QED
    BY <2>1
<1>2. \A q \in Procs : q # p => (Past(q)' <=> Past(q))
  BY DEF Frame, Past
<1>3. OneHolder'
  BY <1>2 DEF IInv, OneHolder
<1> QED
  BY <1>1, <1>3 DEF IInv

\* Sending under the key: a run is recorded only where there is none under it.
LEMMA LaunchKeeps == ASSUME IInv, NEW p \in Procs, Launch(p) PROVE IInv'
<1> DEFINE e == mem[p].e
           k == exec[e].key
           fresh == [key |-> k, st |-> "launching", pid |-> FALSE, sup |-> "none", old |-> FALSE]
<1>t. /\ TypeOK /\ e \in Execs /\ mem[p] \in MemType /\ exec[e] \in ExecType
      /\ wlock[p] /\ pc[p] = "launch" /\ NoneUp /\ mem \in [Procs -> MemType]
  BY DEF IInv, TypeOK, Own, Named, LockHeld, Quiet, Preparing, Launch
<1>u. UNCHANGED <<exec, debt, owned>> /\ Durable
  BY SameExec DEF Launch, graph
<1>v. /\ exec' \in [Execs -> ExecType] /\ debt' \in [Execs -> Nat]
      /\ owned' \in [Procs -> OwnedType]
  BY <1>t, <1>u DEF TypeOK
<1>1. CASE Refuse(p) /\ UNCHANGED runs
  BY <1>1, <1>t, <1>u, <1>v, RefuseKeeps
<1>2. CASE Return(p) /\ UNCHANGED runs
  BY <1>2, <1>u, <1>v, ReturnKeeps
<1>3. ASSUME NEW r \in RunsUnder(k), mem' = [mem EXCEPT ![p].run = r], Goto(p, "record"),
             UNCHANGED disk
      PROVE  IInv'
  <2>1. r \in Runs /\ r \in Nat
    BY <1>t DEF RunsUnder, Runs, TypeOK
  <2>2. /\ mem' \in [Procs -> MemType] /\ mem'[p].e = mem[p].e /\ mem'[p].run = r
        /\ \A q \in Procs : q # p => mem'[q] = mem[q]
    BY <1>3, <2>1, <1>t DEF MemType
  <2> QED
    BY <1>3, <2>1, <2>2, <1>t, <1>u, <1>v, OnwardKeeps DEF disk
<1>4. CASE /\ RunsUnder(k) = {} /\ runs' = Append(runs, fresh)
           /\ mem' = [mem EXCEPT ![p].run = Len(runs) + 1]
           /\ Goto(p, "spawn") /\ UNCHANGED wlock
  <2> DEFINE n == Len(runs) + 1
  <2>1. fresh \in RunType /\ fresh.key = k
    BY <1>t DEF RunType, ExecType
  <2>2. /\ fresh.st = "launching" /\ fresh.sup = "none" /\ fresh.pid = FALSE
        /\ fresh.old = FALSE
    OBVIOUS
  <2>3. runs \in Seq(RunType) /\ Runs = 1 .. Len(runs) /\ Len(runs) \in Nat
    BY <1>t DEF TypeOK, Runs
  <2>4. runs' = Append(runs, fresh)
    BY <1>4
  <2> HIDE DEF fresh
  <2>5. runs' \in Seq(RunType) /\ Len(runs') = n /\ runs'[n] = fresh
    BY <2>1, <2>3, <2>4
  <2>6. \A r \in Runs : runs'[r] = runs[r]
    BY <2>1, <2>3, <2>4
  <2>7. Runs' = Runs \cup {n} /\ n \in Nat /\ n \notin Runs
    BY <2>3, <2>5 DEF Runs
  <2>8. /\ mem' \in [Procs -> MemType] /\ mem'[p].e = mem[p].e /\ mem'[p].run = n
        /\ \A q \in Procs : q # p => mem'[q] = mem[q]
    <3> HIDE DEF n
    <3>1. mem' = [mem EXCEPT ![p].run = n]
      BY <1>4 DEF n
    <3> QED
      BY <3>1, <2>7, <1>t DEF MemType
  <2>9. pc' \in [Procs -> Label] /\ pc'[p] = "spawn" /\ \A q \in Procs : q # p => pc'[q] = pc[q]
    BY <1>4, <1>t, GotoDoes DEF Label
  <2> HIDE DEF n
  <2>10. TypeOK' /\ Frame(p) /\ KeysKept
    BY <1>4, <1>t, <1>v, <2>5, <2>6, <2>7, <2>8, <2>9 DEF TypeOK, Frame, KeysKept
  <2>11. NoneUp'
    BY <1>t, <2>2, <2>5, <2>6, <2>7 DEF NoneUp
  <2>12. Own(p)'
    <3>1. (Named(p) /\ HasRun(p) /\ ClearsEnded(p) /\ LockHeld(p) /\ Resumed(p))'
      BY <1>4, <1>t, <2>7, <2>8, <2>9 DEF Named, HasRun, ClearsEnded, LockHeld, Resumed
    <3>2. Fresh(p)' /\ Quiet(p)'
      BY <2>2, <2>5, <2>8, <2>11 DEF Fresh, Quiet
    <3> QED
      BY <3>1, <3>2 DEF Own
  <2>13. UpIsSeen' /\ OneUp'
    BY <2>11 DEF UpIsSeen, OneUp, NoneUp
  <2>14. OneRunPerKey'
    <3>1. \A r \in Runs : runs[r].key # k
      BY <1>4 DEF RunsUnder
    <3>2. \A r, s \in Runs : runs[r].key = runs[s].key => r = s
      BY DEF IInv, OneRunPerKey
    <3> QED
      BY <3>1, <3>2, <2>1, <2>5, <2>6, <2>7 DEF OneRunPerKey
  <2> QED
    BY <1>t, <1>u, <2>10, <2>12, <2>13, <2>14, LauncherMoves DEF Past
<1> QED
  BY <1>1, <1>2, <1>3, <1>4 DEF Launch

\* A launcher that changes the record of a run: one that is alive afterwards is
\* the one it started, and counts as a writer.
LEMMA RunMoves ==
    ASSUME IInv, NEW p \in Procs, Past(p), NEW r \in Runs, NEW x \in RunType,
           runs' = [runs EXCEPT ![r] = x], x.key = runs[r].key,
           x.sup = "up" => NoneUp /\ x.st = "launching" /\ (x.pid \/ ~x.old),
           TypeOK', Durable, Frame(p), Own(p)'
    PROVE  IInv'
<1>t. TypeOK
  BY DEF IInv
<1>1. /\ Runs' = Runs /\ runs'[r] = x /\ \A s \in Runs : s # r => runs'[s] = runs[s]
  BY <1>t, RunUpdate
<1>2. KeysKept
  BY <1>1 DEF KeysKept
<1>3. UpIsSeen'
  BY <1>1 DEF IInv, UpIsSeen, NoneUp, InFlight
<1>4. OneUp'
  BY <1>1 DEF IInv, OneUp, NoneUp
<1>5. OneRunPerKey'
  BY <1>1 DEF IInv, OneRunPerKey
<1> QED
  BY <1>2, <1>3, <1>4, <1>5, LauncherMoves

\* Starting the supervisor: none is alive, and nobody else can start one.
LEMMA SpawnKeeps == ASSUME IInv, NEW p \in Procs, Spawn(p) PROVE IInv'
<1> DEFINE r == mem[p].run
<1>t. /\ TypeOK /\ mem[p].e \in Execs /\ r \in Runs /\ runs[r] \in RunType /\ wlock[p]
      /\ Past(p) /\ NoneUp /\ pc[p] = "spawn" /\ runs \in Seq(RunType)
      /\ runs[r].sup = "none" /\ ~runs[r].old /\ runs[r].st = "launching"
  <2>1. TypeOK /\ Own(p) /\ pc[p] = "spawn"
    BY DEF IInv, Spawn
  <2>2. mem[p].e \in Execs /\ r \in Runs /\ wlock[p] /\ NoneUp
    BY <2>1 DEF Own, Named, HasRun, LockHeld, Quiet, Preparing
  <2>3. runs[r].sup = "none" /\ ~runs[r].old /\ runs[r].st = "launching"
    BY <2>1 DEF Own, Fresh
  <2>4. runs \in Seq(RunType) /\ runs[r] \in RunType
    BY <2>1, <2>2 DEF TypeOK, Runs
  <2> QED
    BY <2>1, <2>2, <2>3, <2>4 DEF Past
<1>u. UNCHANGED debt
  BY DEF Spawn, graph
<1>1. CASE /\ runs' = [runs EXCEPT ![r].sup = "up", ![r].pid = TRUE] /\ Goto(p, "handshake")
           /\ UNCHANGED <<exec, mem, wlock, owned>>
  <2> DEFINE x == [runs[r] EXCEPT !.sup = "up", !.pid = TRUE]
  <2>1. x \in RunType /\ x.key = runs[r].key /\ x.st = "launching" /\ x.pid
    BY <1>t DEF RunType
  <2>2. runs' = [runs EXCEPT ![r] = x]
    BY <1>1, <1>t DEF Runs
  <2> HIDE DEF x
  <2>3. runs' \in Seq(RunType) /\ Runs' = Runs
    BY <1>t, <2>1, <2>2, RunUpdate
  <2>4. pc' \in [Procs -> Label] /\ pc'[p] = "handshake" /\ \A q \in Procs : q # p => pc'[q] = pc[q]
    BY <1>1, <1>t, GotoDoes DEF Label
  <2>5. TypeOK' /\ Frame(p) /\ Durable
    BY <1>1, <1>t, <1>u, <2>3, <2>4, SameExec DEF TypeOK, Frame
  <2>6. Own(p)'
    BY <1>1, <1>t, <2>3, <2>4
    DEF Own, Named, HasRun, ClearsEnded, LockHeld, Resumed, Fresh, Quiet, Preparing
  <2> QED
    BY <1>t, <2>1, <2>2, <2>5, <2>6, RunMoves
<1>2. CASE runs' = [runs EXCEPT ![r].sup = "up"] /\ Die(p)
  <2> DEFINE x == [runs[r] EXCEPT !.sup = "up"]
  <2>1. x \in RunType /\ x.key = runs[r].key /\ x.st = "launching" /\ ~x.old
    BY <1>t DEF RunType
  <2>2. runs' = [runs EXCEPT ![r] = x]
    BY <1>2, <1>t DEF Runs
  <2> HIDE DEF x
  <2>3. runs' \in Seq(RunType)
    BY <1>t, <2>1, <2>2, RunUpdate
  <2>4. TypeOK' /\ Frame(p) /\ Durable /\ pc'[p] = "down" /\ wlock'[p] = FALSE
    BY <1>2, <1>t, <1>u, <2>3, DieDoes DEF TypeOK
  <2>5. Own(p)'
    BY <2>4, OwnPlain DEF Plain
  <2> QED
    BY <1>t, <2>1, <2>2, <2>4, <2>5, RunMoves
<1>3. CASE /\ runs' = [runs EXCEPT ![r].st = "failed_launch"] /\ Refuse(p)
           /\ UNCHANGED <<exec, owned>>
  <2> DEFINE x == [runs[r] EXCEPT !.st = "failed_launch"]
  <2>1. x \in RunType /\ x.key = runs[r].key /\ x.sup # "up"
    BY <1>t DEF RunType
  <2>2. runs' = [runs EXCEPT ![r] = x]
    BY <1>3, <1>t DEF Runs
  <2> HIDE DEF x
  <2>3. runs' \in Seq(RunType)
    BY <1>t, <2>1, <2>2, RunUpdate
  <2>4. TypeOK' /\ Frame(p) /\ Durable /\ pc'[p] = "owe" /\ wlock'[p] = FALSE /\ mem' = mem
    BY <1>3, <1>t, <1>u, <2>3, RefuseDoes, SameExec DEF TypeOK
  <2>5. Own(p)'
    BY <1>t, <2>4, OwnPlain DEF Plain
  <2> QED
    BY <1>t, <2>1, <2>2, <2>4, <2>5, RunMoves
<1> QED
  BY <1>1, <1>2, <1>3 DEF Spawn

\* A launch that failed closes its record.
LEMMA AbandonKeeps == ASSUME IInv, NEW p \in Procs, Abandon(p) PROVE IInv'
<1> DEFINE r == mem[p].run
           x == [runs[r] EXCEPT !.st = "failed_launch"]
<1>t. /\ TypeOK /\ mem[p].e \in Execs /\ r \in Runs /\ runs[r] \in RunType /\ Past(p)
      /\ runs \in Seq(RunType) /\ runs[r].sup = "gone"
  <2>1. TypeOK /\ Own(p) /\ pc[p] = "handshake" /\ runs[r].sup = "gone"
    BY DEF IInv, Abandon, FailedLaunch
  <2>2. mem[p].e \in Execs /\ r \in Runs /\ Past(p)
    BY <2>1 DEF Own, Named, HasRun, LockHeld, Past
  <2> QED
    BY <2>1, <2>2 DEF TypeOK, Runs
<1>1. x \in RunType /\ x.key = runs[r].key /\ x.sup # "up"
  BY <1>t DEF RunType
<1>2. runs' = [runs EXCEPT ![r] = x]
  BY <1>t DEF Abandon, Runs
<1> HIDE DEF x
<1>3. runs' \in Seq(RunType)
  BY <1>t, <1>1, <1>2, RunUpdate
<1>4. TypeOK' /\ Frame(p) /\ Durable /\ pc'[p] = "owe" /\ wlock'[p] = FALSE /\ mem' = mem
  BY <1>t, <1>3, RefuseDoes, SameExec DEF Abandon, TypeOK, graph
<1>5. Own(p)'
  BY <1>t, <1>4, OwnPlain DEF Plain
<1> QED
  BY <1>t, <1>1, <1>2, <1>4, <1>5, RunMoves

-----------------------------------------------------------------------------
\* What a supervisor, or time, does to a run record nobody is about to spawn.
LEMMA RecordMoves ==
    ASSUME IInv, NEW r \in Runs, NEW x \in RunType, runs' = [runs EXCEPT ![r] = x],
           x.key = runs[r].key,
           x.sup = "up" => runs[r].sup = "up" /\ x.st \in {"launching", "running"} /\ x.pid,
           \A q \in Procs : pc[q] = "spawn" => mem[q].run # r,
           UNCHANGED <<exec, debt, wlock, pc, mem, owned>>
    PROVE  IInv'
<1>t. TypeOK
  BY DEF IInv
<1>1. /\ runs' \in Seq(RunType) /\ Runs' = Runs /\ runs'[r] = x
      /\ \A s \in Runs : s # r => runs'[s] = runs[s]
  BY <1>t, RunUpdate
<1>2. KeysKept /\ Durable
  BY <1>1, SameExec DEF KeysKept
<1>3. UpIsSeen' /\ OneUp' /\ OneRunPerKey'
  BY <1>1 DEF IInv, UpIsSeen, InFlight, OneUp, OneRunPerKey
<1>4. NoneUp => NoneUp'
  BY <1>1 DEF NoneUp
<1>5. ASSUME NEW q \in Procs PROVE Own(q)'
  <2>1. Own(q) /\ Still(q)
    BY DEF IInv, Still
  <2>2. pc[q] = "spawn" => runs'[mem[q].run] = runs[mem[q].run]
    BY <1>1, <2>1 DEF Own, HasRun
  <2>3. Fresh(q)'
    BY <2>1, <2>2 DEF Own, Fresh
  <2>4. Preparing(q) => NoneUp'
    BY <2>1, <1>4 DEF Own, Quiet
  <2> QED
    BY <1>2, <2>1, <2>3, <2>4, OthersRunsKept
<1>6. TypeOK'
  BY <1>t, <1>1 DEF TypeOK
<1>7. OneHolder'
  BY DEF IInv, OneHolder, Past
<1> QED
  BY <1>3, <1>5, <1>6, <1>7 DEF IInv

\* A supervisor that ends or dies keeps the invariant.
LEMMA SupervisorKeeps == ASSUME IInv, NEW r \in Runs, Supervisor(r) PROVE IInv'
<1>t. TypeOK /\ runs[r] \in RunType /\ runs \in Seq(RunType)
  BY DEF IInv, TypeOK, Runs
<1>1. ASSUME runs[r].sup = "up",
             NEW st \in {"launching", "running", "failed_launch", "done"},
             NEW sup \in {"up", "gone"}, sup = "up" => st \in {"launching", "running"},
             Supervised(r, st, sup)
      PROVE  IInv'
  <2> DEFINE x == [runs[r] EXCEPT !.st = st, !.sup = sup, !.pid = TRUE]
  <2>1. x \in RunType /\ x.key = runs[r].key /\ x.sup = sup /\ x.st = st /\ x.pid
    BY <1>t DEF RunType
  <2>2. runs' = [runs EXCEPT ![r] = x]
    BY <1>1, <1>t DEF Supervised, Runs
  <2> HIDE DEF x
  <2>3. \A q \in Procs : pc[q] # "spawn"
    BY <1>1 DEF IInv, Own, Quiet, Preparing, NoneUp
  <2> QED
    BY <1>1, <2>1, <2>2, <2>3, RecordMoves DEF Supervised, graph
<1>2. CASE GrowsOld(r)
  <2> DEFINE x == [runs[r] EXCEPT !.old = TRUE]
  <2>1. x \in RunType /\ x.key = runs[r].key /\ x.sup # "up"
    BY <1>2, <1>t DEF RunType, GrowsOld
  <2>2. runs' = [runs EXCEPT ![r] = x]
    BY <1>2, <1>t DEF GrowsOld, Runs
  <2> HIDE DEF x
  <2> QED
    BY <1>2, <2>1, <2>2, RecordMoves DEF GrowsOld, graph
<1>3. CASE SupervisorStarts(r)
  BY <1>1, <1>3 DEF SupervisorStarts
<1>4. CASE SupervisorFails(r)
  BY <1>1, <1>4 DEF SupervisorFails
<1>5. CASE SupervisorEnds(r)
  BY <1>1, <1>5 DEF SupervisorEnds
<1>6. CASE SupervisorDies(r)
  <2>1. runs[r].st \in {"launching", "running", "failed_launch", "done"}
    BY <1>t DEF RunType
  <2> QED
    BY <1>1, <1>6, <2>1 DEF SupervisorDies
<1> QED
  BY <1>2, <1>3, <1>4, <1>5, <1>6 DEF Supervisor

-----------------------------------------------------------------------------
\* Every step keeps the inductive invariant.
LEMMA StepIInv == IInv /\ [Next]_vars => IInv'
<1> SUFFICES ASSUME IInv, [Next]_vars PROVE IInv'
  OBVIOUS
<1>1. ASSUME NEW p \in Procs, Step(p) PROVE IInv'
  BY <1>1, OpenKeeps, StampHoldKeeps, ConfirmFenceKeeps, RecordHandleKeeps, PlanKeeps,
     LockDispatchKeeps, LockWorkspaceKeeps, ScanLocksKeeps, SubmitKeeps, LaunchKeeps,
     SpawnKeeps, AbandonKeeps, OweKeeps, ReconcileKeeps, EndExecutionKeeps, ClearHoldKeeps,
     SweepKeeps, RestartKeeps
  DEF Step
<1>2. CASE UNCHANGED vars
  BY <1>2, SameExec, StoreMoves DEF vars, IInv, TypeOK
<1> QED
  BY <1>1, <1>2, CrashKeeps, SupervisorKeeps, LapseKeeps DEF Next

\* The workspace never has two writers: no two supervisors are alive in it at
\* once, whatever the interleaving of the passes, the deaths of processes between
\* any two of their steps and the dispatch locks broken because they were old
\* (executeDispatch's recheck under acquireWorkspace).
THEOREM WorkspaceHasOneWriter == Spec => []OneWriter
<1>1. IInv => OneWriter
  <2> SUFFICES ASSUME OneUp PROVE OneWriter
    BY DEF IInv
  <2> DEFINE U == {r \in Runs : runs[r].sup = "up"}
  <2>1. CASE U = {}
    BY <2>1, FS_EmptySet DEF OneWriter
  <2>2. CASE U # {}
    <3>1. PICK r \in U : TRUE
      BY <2>2
    <3>2. U = {r}
      BY <3>1 DEF OneUp
    <3>3. Cardinality(U) = 1
      BY <3>2, FS_Singleton
    <3> QED
      BY <3>3 DEF OneWriter
  <2> QED
    BY <2>1, <2>2
<1> QED
  BY <1>1, InitIInv, StepIInv, PTL DEF Spec

\* A submit key is acted on once: whoever sends it again, and however late, finds
\* the run it started (local provider adoptByKey, submitAttempt).
THEOREM KeyStartsOneRun == Spec => []OneRunPerKey
<1>1. IInv => OneRunPerKey
  BY DEF IInv
<1> QED
  BY <1>1, InitIInv, StepIInv, PTL DEF Spec

\* The item is given back to the queue only once the execution it was held by has
\* ended in its store (withdrawExecution: end, confirm, clear).
THEOREM HoldOutlivesExecution == Spec => ClearedEnded
<1>1. IInv /\ [Next]_vars => [hold # 0 /\ hold' # hold => exec[hold].st = "ended"]_vars
  <2> SUFFICES ASSUME IInv, Next, hold # 0, hold' # hold
               PROVE  exec[hold].st = "ended"
    OBVIOUS
  <2>1. ASSUME NEW p \in Procs, StampHold(p) PROVE FALSE
    BY <2>1 DEF StampHold
  <2>2. ASSUME NEW p \in Procs, ClearHold(p) PROVE exec[hold].st = "ended"
    <3>1. hold = mem[p].e
      BY <2>2 DEF ClearHold
    <3> QED
      BY <2>2, <3>1 DEF ClearHold, IInv, Own, ClearsEnded
  <2>3. \E p \in Procs : StampHold(p) \/ ClearHold(p)
    BY DEF Next, Step, Supervisor, Open, ConfirmFence, RecordHandle, Plan, LockDispatch,
           LockWorkspace, ScanLocks, Submit, Launch, Spawn, Abandon, Owe, Reconcile,
           EndExecution, Sweep, Restart, Crash, SupervisorStarts, SupervisorFails,
           SupervisorEnds, SupervisorDies, Supervised, GrowsOld, Lapse, graph
  <2> QED
    BY <2>1, <2>2, <2>3
<1> QED
  BY <1>1, InitIInv, StepIInv, PTL DEF Spec, ClearedEnded
=============================================================================
