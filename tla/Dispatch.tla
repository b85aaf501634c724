----------------------------- MODULE Dispatch -------------------------------
(* One item dispatched by the worker processes of one box: the execution is *)
(* opened and the item held, a recorded attempt is adopted or a new one is  *)
(* submitted under a key persisted first, a supervisor is launched in the   *)
(* item's workspace, and a dispatch that is refused withdraws its execution *)
(* through a debt on disk (dispatchWorkItem and executeDispatch).           *)
EXTENDS Integers, FiniteSets, Sequences

CONSTANTS
    Procs,        \* worker processes of one agent on one box
    NoProc,       \* no process; also the owner of what a dead process held
    MaxExecs,     \* attempts at the item
    MaxFence,     \* claims of an execution that already has a run
    MaxMishaps    \* deaths, failed or unanswered calls, lapsed leases and
                  \* dispatch locks older than LOCAL_DISPATCH_LOCK_STALE_MS

ASSUME ConstantsAssumption ==
    /\ NoProc \notin Procs
    /\ {MaxExecs, MaxFence, MaxMishaps} \subseteq Nat

Execs == 1 .. MaxExecs
MaxRuns == MaxExecs + 1

VARIABLES
    exec,    \* exec[e]: the record of execution e in the store
    hold,    \* the execution the item is stamped with, or 0
    debt,    \* debt[e]: fence in the withdrawal debt of e on disk, or 0
    runs,    \* the run records on disk, in the order they were created
    dlock,   \* live holder of the local dispatch lock, or NoProc
    wlock,   \* wlock[p]: p has a workspace lock file of its own
    pc,      \* pc[p]: where p's pass is; "down" when it is dead
    mem,     \* mem[p]: what the pass keeps in memory
    owned,   \* owned[p]: the attempt p follows (PROVIDER_ATTEMPTS)
    top,     \* top[p][e]: the last fence p acquired on e, or 0 (HELD_FENCE)
    lost,    \* lost[p]: executions p was told it lost (FENCED_OUT, LOST_ITEM)
    mishaps  \* how many things went wrong

vars == <<exec, hold, debt, runs, dlock, wlock, pc, mem, owned, top, lost, mishaps>>
disk == <<runs, dlock, wlock>>
graph == <<hold, debt>>

-----------------------------------------------------------------------------
(* The execution store, as this component uses it.                         *)

NoKey == [e |-> 0, f |-> 0, p |-> NoProc]

NoExec ==
    [st |-> "none", owner |-> NoProc, fence |-> 0, leased |-> FALSE,
     key |-> NoKey, handle |-> 0]

\* What the store answers a call on e under fence f.
Answer(e, f) ==
    IF exec[e].st = "ended" THEN "execution_terminal"
    ELSE IF exec[e].fence # f THEN "fence_stale"
    ELSE IF ~exec[e].leased THEN "lease_expired"
    ELSE "ok"

\* A stale fence is a loss for the rest of the process's life, unless the
\* process itself has acquired a later one.
Told(p, e, f) ==
    lost' = IF Answer(e, f) = "fence_stale" /\ f >= top[p][e]
            THEN [lost EXCEPT ![p] = @ \cup {e}] ELSE lost

\* The processes are one owner to the store: a live lease does not keep them
\* from each other's execution.
Claimable(p, e) == exec[e].st = "open" /\ e \notin lost[p]

\* Only the same process asking again keeps its fence.
ClaimFence(p, e) == IF exec[e].owner = p THEN exec[e].fence ELSE exec[e].fence + 1

ClaimedBy(p, e) ==
    [exec[e] EXCEPT !.owner = p, !.fence = ClaimFence(p, e), !.leased = TRUE]

Mishap == mishaps < MaxMishaps /\ mishaps' = mishaps + 1

-----------------------------------------------------------------------------
(* Run records and locks on disk.                                          *)

Runs == DOMAIN runs

\* Mutant: only the runs still in flight are looked at.
MutRunsUnder(k) == {r \in Runs : runs[r].key = k /\ runs[r].st \in {"launching", "running"}}

\* adoptByKey: the run launched under a submit key, whatever became of it.
RunsUnder(k) == {r \in Runs : runs[r].key = k}

RunOf(e) == {r \in Runs : runs[r].key.e = e}

InFlight(r) == runs[r].st \in {"launching", "running"}

\* activeRuns: the records whose supervisor is known and alive.
ActiveRuns == {r \in Runs : InFlight(r) /\ runs[r].pid /\ runs[r].sup = "up"}

\* liveWorkspaceWriters: a record without a pid is believed until it is old.
LiveWorkspaceWriters ==
    {r \in Runs : InFlight(r) /\ (IF runs[r].pid THEN runs[r].sup = "up" ELSE ~runs[r].old)}

\* workspaceLockContends: a lock file of a process that is alive.
Rivals(p) == {q \in Procs \ {p} : wlock[q]}

FreeDispatchLock(p) == IF dlock = p THEN NoProc ELSE dlock

Idle == [e |-> 0, fence |-> 0, run |-> 0, polled |-> FALSE, resuming |-> FALSE, owed |-> FALSE]
Nothing == [e |-> 0, fence |-> 0, run |-> 0, pend |-> FALSE]

Goto(p, l) == pc' = [pc EXCEPT ![p] = l]

\* The pass ends: what it kept is forgotten and its locks are released.
Return(p) ==
    /\ Goto(p, "idle")
    /\ mem' = [mem EXCEPT ![p] = Idle]
    /\ wlock' = [wlock EXCEPT ![p] = FALSE]
    /\ dlock' = FreeDispatchLock(p)

\* A process dies: its files stay, but nobody alive is behind them.
Die(p) ==
    /\ Goto(p, "down")
    /\ mem' = [mem EXCEPT ![p] = Idle]
    /\ owned' = [owned EXCEPT ![p] = Nothing]
    /\ top' = [top EXCEPT ![p] = [e \in Execs |-> 0]]
    /\ lost' = [lost EXCEPT ![p] = {}]
    /\ wlock' = [wlock EXCEPT ![p] = FALSE]
    /\ dlock' = FreeDispatchLock(p)
    /\ exec' = [e \in Execs |-> IF exec[e].owner = p THEN [exec[e] EXCEPT !.owner = NoProc] ELSE exec[e]]

\* Mutant: a refused dispatch leaves its execution as it is.
MutRefuse(p) == Return(p)

\* executeDispatch refuses: the locks go first, then the execution is withdrawn.
Refuse(p) ==
    /\ Goto(p, "owe")
    /\ wlock' = [wlock EXCEPT ![p] = FALSE]
    /\ dlock' = FreeDispatchLock(p)
    /\ UNCHANGED mem

-----------------------------------------------------------------------------
(* claimExecutionHold.                                                     *)

Open(p) ==
    /\ pc[p] = "idle"
    /\ owned[p] = Nothing
    /\ \E e \in Execs :
        /\ \/ /\ exec[e].st = "none"
              /\ \A d \in Execs : d < e => exec[d].st = "ended"
           \/ /\ Claimable(p, e)
              /\ exec[e].fence < MaxFence \/ RunOf(e) = {}
        /\ exec' = [exec EXCEPT ![e] = [ClaimedBy(p, e) EXCEPT !.st = "open"]]
        /\ mem' = [mem EXCEPT ![p] = [Idle EXCEPT !.e = e, !.fence = ClaimFence(p, e)]]
        /\ top' = [top EXCEPT ![p][e] = ClaimFence(p, e)]
    /\ Goto(p, "stamp")
    /\ UNCHANGED <<graph, disk, owned, lost, mishaps>>

\* store.terminate: an ended execution has no owner, and keeps nobody out.
Terminate(p, e, f) ==
    IF Answer(e, f) = "ok"
    THEN /\ exec' = [exec EXCEPT ![e] = [NoExec EXCEPT !.st = "ended",
                                            !.key = exec[e].key, !.handle = exec[e].handle]]
         /\ lost' = [q \in Procs |-> lost[q] \ {e}]
         /\ top' = [q \in Procs |-> [top[q] EXCEPT ![e] = 0]]
    ELSE UNCHANGED <<exec, top>> /\ Told(p, e, f)

\* resumeProviderAttempt: nothing recorded, or a key the provider never acted
\* on, is dispatched; else the recorded attempt is to be adopted.
Resume(p) ==
    LET x == exec[mem[p].e]
    IN  IF x.key = NoKey \/ (x.handle = 0 /\ RunsUnder(x.key) = {})
        THEN Goto(p, "plan") /\ UNCHANGED mem
        ELSE Goto(p, "confirm") /\ mem' = [mem EXCEPT ![p].resuming = TRUE]

\* stampHold writes the item, and a recorded attempt is looked for; a hold of
\* another execution, or a write not confirmed, ends the execution instead.
StampHold(p) ==
    LET e == mem[p].e  f == mem[p].fence
    IN  /\ pc[p] = "stamp"
        /\ \/ /\ hold \in {0, e}
              /\ hold' = e
              /\ \/ Resume(p) /\ UNCHANGED mishaps
                 \/ Mishap /\ Goto(p, "plan") /\ UNCHANGED mem
              /\ UNCHANGED <<exec, top, lost, disk>>
           \/ /\ hold # e
              /\ IF hold = 0 THEN Mishap /\ hold' \in {0, e} ELSE UNCHANGED <<hold, mishaps>>
              /\ Terminate(p, e, f)
              /\ Return(p)
              /\ UNCHANGED runs
        /\ UNCHANGED <<debt, owned>>

-----------------------------------------------------------------------------
(* submitAttempt on an attempt that is recorded.                           *)

\* The attempt is on the record: a resumed one is followed while it lives and
\* left to the pipeline once it ended, a dispatched one is followed.
Follow(p, r, pend) ==
    /\ owned' = IF mem[p].resuming /\ ~InFlight(r) THEN owned
                ELSE [owned EXCEPT ![p] = [e |-> mem[p].e, fence |-> mem[p].fence,
                                           run |-> r, pend |-> pend]]
    /\ Return(p)

\* submitAttempt on a recorded row: renew to confirm the fence, then adopt
\* the recorded handle, reconcile under the recorded key, or send again.
ConfirmFence(p) ==
    LET e == mem[p].e  f == mem[p].fence
    IN  /\ pc[p] = "confirm"
        /\ \/ /\ Answer(e, f) = "ok"
              /\ exec[e].handle # 0
              /\ Follow(p, exec[e].handle, FALSE)
              /\ UNCHANGED <<lost, mishaps>>
           \/ /\ Answer(e, f) = "ok"
              /\ exec[e].handle = 0
              /\ IF RunsUnder(exec[e].key) = {}
                 THEN Goto(p, "launch") /\ UNCHANGED mem
                 ELSE \E r \in RunsUnder(exec[e].key) :
                        Goto(p, "record") /\ mem' = [mem EXCEPT ![p].run = r]
              /\ UNCHANGED <<dlock, wlock, owned, lost, mishaps>>
           \/ /\ IF Answer(e, f) = "ok" THEN Mishap ELSE UNCHANGED mishaps
              /\ Told(p, e, f)
              /\ Return(p)
              /\ UNCHANGED owned
        /\ UNCHANGED <<exec, graph, runs, top>>

\* A supervisor that is gone before its child ran is no launch and closes the
\* record; one that has not answered in time is a launch.
FailedLaunch(r) == runs[r].sup = "gone" /\ runs[r].st \in {"launching", "failed_launch"}

\* attempt.submitted: the handle goes on the record under the recorded key.
\* A dispatch that could not write it keeps the run and owes the handle.
RecordHandle(p) ==
    LET e == mem[p].e  f == mem[p].fence
        handed == [exec EXCEPT ![e].handle = mem[p].run]
        Held == IF mem[p].resuming THEN Return(p) /\ UNCHANGED owned
                                   ELSE Follow(p, mem[p].run, TRUE)
    IN  /\ pc[p] \in {"record", "handshake"}
        /\ pc[p] = "handshake" => ~FailedLaunch(mem[p].run)
        /\ \/ /\ Answer(e, f) = "ok"
              /\ exec' = handed
              /\ Follow(p, mem[p].run, FALSE)
              /\ UNCHANGED <<lost, mishaps>>
           \/ /\ IF Answer(e, f) = "ok" THEN Mishap /\ exec' \in {exec, handed}
                                      ELSE UNCHANGED <<exec, mishaps>>
              /\ Told(p, e, f)
              /\ Held
        /\ UNCHANGED <<graph, runs, top>>

-----------------------------------------------------------------------------
(* executeDispatch.                                                        *)

\* refuseDispatch: a run in flight under the name, or a writer in the
\* workspace, refuses.
Plan(p) ==
    /\ pc[p] = "plan"
    /\ IF ActiveRuns \cup LiveWorkspaceWriters = {}
       THEN Goto(p, "lock") /\ UNCHANGED <<mem, wlock, dlock>>
       ELSE Refuse(p)
    /\ UNCHANGED <<exec, graph, runs, owned, top, lost, mishaps>>

\* acquireLocalDispatchLock: a live holder keeps it until the lock is old.
LockDispatch(p) ==
    /\ pc[p] = "lock"
    /\ \/ /\ IF dlock \in Procs THEN Mishap ELSE UNCHANGED mishaps
          /\ dlock' = p
          /\ Goto(p, "wlock")
          /\ UNCHANGED <<mem, wlock>>
       \/ /\ dlock \in Procs
          /\ Refuse(p)
          /\ UNCHANGED mishaps
    /\ UNCHANGED <<exec, graph, runs, owned, top, lost>>

\* attemptWorkspaceClaim: create a lock file of one's own ...
LockWorkspace(p) ==
    /\ pc[p] = "wlock"
    /\ wlock' = [wlock EXCEPT ![p] = TRUE]
    /\ Goto(p, "scan")
    /\ UNCHANGED <<exec, graph, runs, dlock, mem, owned, top, lost, mishaps>>

\* ... then look for others, and step back before one of a live process.
ScanLocks(p) ==
    /\ pc[p] = "scan"
    /\ IF Rivals(p) = {}
       THEN Goto(p, "submit") /\ UNCHANGED <<mem, wlock, dlock>>
       ELSE IF mem[p].polled
       THEN Refuse(p)
       ELSE /\ Goto(p, "wlock")
            /\ mem' = [mem EXCEPT ![p].polled = TRUE]
            /\ wlock' = [wlock EXCEPT ![p] = FALSE]
            /\ UNCHANGED dlock
    /\ UNCHANGED <<exec, graph, runs, owned, top, lost, mishaps>>

\* Mutant: the writers seen by the plan are still the writers.
MutRecheck == TRUE

\* No run started while this dispatch was preparing.
Recheck == LiveWorkspaceWriters = {}

\* Under the lock the writers are counted again. Then attempt.submitting: key
\* and request are on the record before anything is sent; without a confirmed
\* write nothing is.
Submit(p) ==
    LET e == mem[p].e  f == mem[p].fence
        keyed == [exec EXCEPT ![e].key = [e |-> e, f |-> f, p |-> p]]
        known == exec[e].key # NoKey
        ok == Answer(e, f) = "ok"
    IN  /\ pc[p] = "submit"
        /\ \/ /\ Recheck /\ known
              /\ Goto(p, "confirm")
              /\ UNCHANGED <<exec, mem, disk, lost, mishaps>>
           \/ /\ Recheck /\ ~known /\ ok
              /\ exec' = keyed
              /\ Goto(p, "launch")
              /\ UNCHANGED <<mem, disk, lost, mishaps>>
           \/ /\ Recheck /\ ~known
              /\ IF ok THEN Mishap /\ exec' \in {exec, keyed} ELSE UNCHANGED <<exec, mishaps>>
              /\ Told(p, e, f)
              /\ Refuse(p)
              /\ UNCHANGED runs
           \/ /\ ~Recheck
              /\ Refuse(p)
              /\ UNCHANGED <<exec, runs, lost, mishaps>>
        /\ UNCHANGED <<graph, owned, top>>

\* The local provider's submit: a run under the key is the answer; else the
\* worktree is made and the run record written. A worktree that cannot be
\* made refuses; anything thrown leaves the attempt held under its key.
Launch(p) ==
    LET k == exec[mem[p].e].key
        fresh == [key |-> k, st |-> "launching", pid |-> FALSE, sup |-> "none", old |-> FALSE]
    IN  /\ pc[p] = "launch"
        /\ IF RunsUnder(k) # {}
           THEN \E r \in RunsUnder(k) :
                    /\ mem' = [mem EXCEPT ![p].run = r]
                    /\ Goto(p, "record")
                    /\ UNCHANGED <<disk, mishaps>>
           ELSE \/ /\ Len(runs) < MaxRuns
                   /\ runs' = Append(runs, fresh)
                   /\ mem' = [mem EXCEPT ![p].run = Len(runs) + 1]
                   /\ Goto(p, "spawn")
                   /\ UNCHANGED <<dlock, wlock, mishaps>>
                \/ Refuse(p) /\ UNCHANGED <<runs, mishaps>>
                \/ Mishap /\ Return(p) /\ UNCHANGED runs
        /\ UNCHANGED <<exec, graph, owned, top, lost>>

\* launchSupervisedHarness: the supervisor is started and its pid recorded; a
\* launcher that dies in between leaves a record without one.
Spawn(p) ==
    LET r == mem[p].run
    IN  /\ pc[p] = "spawn"
        /\ \/ /\ runs' = [runs EXCEPT ![r].sup = "up", ![r].pid = TRUE]
              /\ Goto(p, "handshake")
              /\ UNCHANGED <<exec, mem, dlock, wlock, owned, top, lost, mishaps>>
           \/ /\ Mishap
              /\ runs' = [runs EXCEPT ![r].sup = "up"]
              /\ Die(p)
           \/ /\ Mishap
              /\ runs' = [runs EXCEPT ![r].st = "failed_launch"]
              /\ Refuse(p)
              /\ UNCHANGED <<exec, owned, top, lost>>
        /\ UNCHANGED graph

Abandon(p) ==
    /\ pc[p] = "handshake"
    /\ FailedLaunch(mem[p].run)
    /\ runs' = [runs EXCEPT ![mem[p].run].st = "failed_launch"]
    /\ Refuse(p)
    /\ UNCHANGED <<exec, graph, owned, top, lost, mishaps>>

-----------------------------------------------------------------------------
(* withdrawExecution and reconcileWithdrawals.                             *)

Owe(p) ==
    /\ pc[p] = "owe"
    /\ \/ /\ debt' = [debt EXCEPT ![mem[p].e] = mem[p].fence]
          /\ mem' = [mem EXCEPT ![p].owed = TRUE]
          /\ UNCHANGED mishaps
       \/ Mishap /\ UNCHANGED <<debt, mem>>
    /\ Goto(p, "end")
    /\ UNCHANGED <<exec, hold, disk, owned, top, lost>>

\* Any pass takes up a debt it finds.
Reconcile(p) ==
    /\ pc[p] = "idle"
    /\ \E e \in Execs :
        /\ debt[e] # 0
        /\ mem' = [mem EXCEPT ![p] = [Idle EXCEPT !.e = e, !.fence = debt[e], !.owed = TRUE]]
    /\ Goto(p, "end")
    /\ UNCHANGED <<exec, graph, disk, owned, top, lost, mishaps>>

\* A debt on disk follows the fence it was claimed again under.
Rewritten(p) ==
    IF mem[p].owed THEN [debt EXCEPT ![mem[p].e] = ClaimFence(p, mem[p].e)] ELSE debt

Retired(p) == IF mem[p].owed THEN [debt EXCEPT ![mem[p].e] = 0] ELSE debt

\* Mutant: the call that got no answer is taken to have ended the execution.
MutUnconfirmed(p) == Mishap /\ Goto(p, "clear") /\ UNCHANGED <<mem, wlock, dlock>>

\* Neither the call nor the read after it said that the execution has ended.
Unconfirmed(p) == Mishap /\ Return(p)

\* The execution is ended under the fence and read back. A lease that ran out
\* is claimed again first; a fence that was superseded gives the debt up; an
\* answer that never came leaves both hold and debt.
EndExecution(p) ==
    LET e == mem[p].e  f == mem[p].fence
        stay == Goto(p, "clear") /\ UNCHANGED <<mem, wlock, dlock>>
    IN  /\ pc[p] = "end"
        /\ CASE Answer(e, f) = "execution_terminal" ->
                    stay /\ UNCHANGED <<exec, debt, top, lost, mishaps>>
             [] Answer(e, f) = "fence_stale" ->
                    Return(p) /\ debt' = Retired(p) /\ Told(p, e, f) /\ UNCHANGED <<exec, top, mishaps>>
             [] Answer(e, f) = "lease_expired" ->
                    IF Claimable(p, e)
                    THEN /\ exec' = [exec EXCEPT ![e] = ClaimedBy(p, e)]
                         /\ mem' = [mem EXCEPT ![p].fence = ClaimFence(p, e)]
                         /\ top' = [top EXCEPT ![p][e] = ClaimFence(p, e)]
                         /\ debt' \in {debt, Rewritten(p)}
                         /\ UNCHANGED <<pc, wlock, dlock, lost, mishaps>>
                    ELSE Return(p) /\ debt' = Retired(p) /\ UNCHANGED <<exec, top, lost, mishaps>>
             [] OTHER ->
                    \/ Terminate(p, e, f) /\ stay /\ UNCHANGED <<debt, mishaps>>
                    \/ Unconfirmed(p) /\ UNCHANGED <<exec, debt, top, lost>>
        /\ UNCHANGED <<hold, runs, owned>>

\* clearHold by compare-and-swap on this execution, another's hold stands;
\* then the debt is retired. A reply lost, or an unlink that failed, leaves it.
ClearHold(p) ==
    LET cleared == IF hold = mem[p].e THEN 0 ELSE hold
    IN  /\ pc[p] = "clear"
        /\ \/ hold' = cleared /\ debt' = Retired(p) /\ UNCHANGED mishaps
           \/ Mishap /\ hold' \in {hold, cleared} /\ UNCHANGED debt
        /\ Return(p)
        /\ UNCHANGED <<exec, runs, owned, top, lost>>

-----------------------------------------------------------------------------
(* sweepProviderAttempts: the attempt a process follows.                   *)

\* observe: the record's own end, or a supervisor that is gone.
Over(r) == ~InFlight(r) \/ (runs[r].pid /\ runs[r].sup = "gone")

\* The handle it owes is written, then the attempt observed and the view
\* relayed. It stops following a run that is over or an execution it lost.
Sweep(p) ==
    LET e == owned[p].e  f == owned[p].fence  r == owned[p].run
        live == Answer(e, f) = "ok"
        handed == IF owned[p].pend /\ live /\ exec[e].handle = 0
                  THEN [exec[e] EXCEPT !.handle = r] ELSE exec[e]
        drop == handed.handle # 0 /\ (Over(r) \/ ~live)
    IN  /\ pc[p] = "idle"
        /\ owned[p] # Nothing
        /\ exec' = [exec EXCEPT ![e] = handed]
        /\ owned' = IF drop THEN [owned EXCEPT ![p] = Nothing] ELSE owned
        /\ Told(p, e, f)
        /\ UNCHANGED <<graph, disk, pc, mem, top, mishaps>>

-----------------------------------------------------------------------------
(* The supervisors, and what goes wrong.                                   *)

Supervised(r, st, sup) ==
    /\ runs' = [runs EXCEPT ![r].st = st, ![r].sup = sup, ![r].pid = TRUE]
    /\ UNCHANGED <<exec, graph, dlock, wlock, pc, mem, owned, top, lost>>

\* runJob: the child runs, fails to start, or ends; the supervisor dies.
SupervisorStarts(r) ==
    /\ runs[r].sup = "up" /\ runs[r].st = "launching"
    /\ Supervised(r, "running", "up")
    /\ UNCHANGED mishaps

SupervisorFails(r) ==
    /\ runs[r].sup = "up" /\ runs[r].st = "launching"
    /\ Supervised(r, "failed_launch", "gone")
    /\ UNCHANGED mishaps

SupervisorEnds(r) ==
    /\ runs[r].sup = "up" /\ runs[r].st = "running"
    /\ Supervised(r, "done", "gone")
    /\ UNCHANGED mishaps

SupervisorDies(r) ==
    /\ runs[r].sup = "up"
    /\ Mishap
    /\ Supervised(r, runs[r].st, "gone")

\* A record nobody will start is too old to be believed.
GrowsOld(r) ==
    /\ runs[r].sup = "none" /\ InFlight(r) /\ ~runs[r].old
    /\ \A p \in Procs : pc[p] = "spawn" => mem[p].run # r
    /\ runs' = [runs EXCEPT ![r].old = TRUE]
    /\ UNCHANGED <<exec, graph, dlock, wlock, pc, mem, owned, top, lost, mishaps>>

Lapse(e) ==
    /\ Mishap
    /\ exec[e].st = "open" /\ exec[e].leased
    /\ exec' = [exec EXCEPT ![e].leased = FALSE]
    /\ UNCHANGED <<graph, disk, pc, mem, owned, top, lost>>

Crash(p) ==
    /\ pc[p] # "down"
    /\ Mishap
    /\ Die(p)
    /\ UNCHANGED <<graph, runs>>

Restart(p) ==
    /\ pc[p] = "down"
    /\ Goto(p, "idle")
    /\ UNCHANGED <<exec, graph, disk, mem, owned, top, lost, mishaps>>

-----------------------------------------------------------------------------
Init ==
    /\ exec = [e \in Execs |-> NoExec]
    /\ hold = 0
    /\ debt = [e \in Execs |-> 0]
    /\ runs = <<>>
    /\ dlock = NoProc
    /\ wlock = [p \in Procs |-> FALSE]
    /\ pc = [p \in Procs |-> "idle"]
    /\ mem = [p \in Procs |-> Idle]
    /\ owned = [p \in Procs |-> Nothing]
    /\ top = [p \in Procs |-> [e \in Execs |-> 0]]
    /\ lost = [p \in Procs |-> {}]
    /\ mishaps = 0

\* What a worker process does next, in a pass and between passes.
Step(p) ==
    \/ Open(p) \/ StampHold(p) \/ ConfirmFence(p) \/ RecordHandle(p)
    \/ Plan(p) \/ LockDispatch(p) \/ LockWorkspace(p) \/ ScanLocks(p)
    \/ Submit(p) \/ Launch(p) \/ Spawn(p) \/ Abandon(p)
    \/ Owe(p) \/ Reconcile(p) \/ EndExecution(p) \/ ClearHold(p)
    \/ Sweep(p) \/ Restart(p)

Supervisor(r) ==
    SupervisorStarts(r) \/ SupervisorFails(r) \/ SupervisorEnds(r) \/ SupervisorDies(r) \/ GrowsOld(r)

Next ==
    \/ \E p \in Procs : Step(p) \/ Crash(p)
    \/ \E r \in Runs : Supervisor(r)
    \/ \E e \in Execs : Lapse(e)

\* A process that has something to do goes on, and a worker that died is
\* started again. Nothing is assumed of the supervisors.
Fairness == \A p \in Procs : WF_vars(Step(p))

Spec == Init /\ [][Next]_vars /\ Fairness

-----------------------------------------------------------------------------
(* Properties.                                                             *)

\* The workspace never has two writers: no two supervisors are alive in it at
\* once (executeDispatch's recheck under acquireWorkspace).
OneWriter == Cardinality({r \in Runs : runs[r].sup = "up"}) <= 1

\* A submit key is acted on once: whoever sends it again, and however late,
\* finds the run it started (local provider adoptByKey, submitAttempt).
OneRunPerKey == \A r, s \in Runs : runs[r].key = runs[s].key => r = s

\* The item is given back to the queue only once the execution it was held by
\* has ended in its store (work-outcome.js, "END ... CONFIRM ... CLEAR").
ClearedEnded == [][hold # 0 /\ hold' # hold => exec[hold].st = "ended"]_vars

\* Nothing on disk or in a process still knows that the hold is to be cleared.
Forgotten(e) ==
    /\ hold = e /\ exec[e].st = "ended" /\ debt[e] = 0
    /\ \A p \in Procs : pc[p] \in {"end", "clear"} => mem[p].e # e

\* Every process was told it lost the execution: only a fresh one can take it.
LockedOut(e) == \A p \in Procs : e \in lost[p]

\* An execution that holds the item gets a run or lets go of the item. There
\* are two ways to stay stuck, and no others: the withdrawal was forgotten, or
\* every process was locked out (README, section 6).
HeldIsWorked ==
    \A e \in Execs :
        hold = e ~> hold # e \/ RunOf(e) # {} \/ Forgotten(e) \/ LockedOut(e)
=============================================================================
