---------------------------- MODULE StageWorkflow ----------------------------
(***************************************************************************)
(* A stage of the gate pipeline (implementation, gates, integration) run   *)
(* as a replayed workflow: the kernel (src/lib/kernel/workflow.js), the    *)
(* stage driver over it (src/lib/shell/stage-workflow.js) and the pipeline *)
(* lease that decides which worker drives                                  *)
(* (src/lib/shell/agent-dispatch-runner.js, stage-projection.js).          *)
(*                                                                         *)
(* The workflow function is the constant Program, the sequence of its      *)
(* kernel calls.  A run always replays the journal from the top, so a run  *)
(* stands at the first call the journal does not answer: the position is   *)
(* computed from the journal and is no variable.  Replay reads nothing but *)
(* the driver's own journal copy, so it is no step of its own.             *)
(*                                                                         *)
(* The journal is one file of lines.  The model keeps its lines by kind,   *)
(* since a replay drains signals wherever they stand among the calls.      *)
(***************************************************************************)
EXTENDS Naturals, Sequences, FiniteSets

CONSTANTS
    Drivers,      \* processes that may drive the stage
    NoDriver,     \* the lease of a run nobody claimed
    Worker,       \* Worker[d]: the worker id the process runs under
    Program,      \* the kernel calls of the workflow function, in order
    Results,      \* what an activity or a signal may carry, failure included
    MaxReopen,    \* re-opens of a poisoned journal in one drive
    MaxFaults,    \* bound: crashes, failed appends, lapses and takeovers
    MaxEdits,     \* bound: edits of the definition and upgrades of the code
    MaxClock      \* bound: clock ticks nobody waits for

Calls == {"effect", "now", "sleep", "yield", "await"}

(* The first call of every stage is its open activity, which journals the  *)
(* definition it was opened under.                                         *)
ASSUME ProgramAssumption ==
    /\ Program \in Seq([call : Calls, guarded : BOOLEAN, durable : BOOLEAN])
    /\ Len(Program) > 0
    /\ Program[1] = [call |-> "effect", guarded |-> FALSE, durable |-> FALSE]

ASSUME DriversAssumption ==
    /\ NoDriver \notin Drivers
    /\ Worker \in [Drivers -> STRING]

ASSUME BoundsAssumption ==
    /\ MaxReopen \in Nat
    /\ MaxFaults \in Nat
    /\ MaxEdits \in Nat
    /\ MaxClock \in Nat
    /\ Results # {}
    /\ Results \subseteq Nat

VARIABLES
    disk,         \* the journal file
    mem,          \* mem[d]: the array the driver's Execution appends to
    pc,           \* pc[d]: where the driver is
    held,         \* held[d]: the activity result not journaled yet
    input,        \* input[d]: definition and code version the drive runs with
    reopened,     \* reopened[d]: re-opens spent in this drive
    lease,        \* the lease folded from the pipeline log
    def,          \* the factory definition as it reads now
    build,        \* the installed version of the workflow code
    clock,        \* the wall clock
    faults,       \* faults so far
    edits,        \* edits and upgrades so far
    executed,     \* executed[k]: the circumstances call k was executed in
    outcome       \* what the stage reported

vars == <<disk, mem, pc, held, input, reopened, lease, def, build, clock,
          faults, edits, executed, outcome>>

-----------------------------------------------------------------------------
(* The journal.                                                            *)

Open == "open"

Empty == [version |-> 0, calls |-> <<>>, signals |-> <<>>, closed |-> Open]

Labels == {"down", "idle", "claimed", "ready", "running", "executed",
           "waiting", "asleep", "parked", "poisoned", "thrown",
           "definition", "version", "refusing"}

Reasons == {"definition", "version"}

Journals ==
    [version : Nat,
     calls : Seq([key : 1..Len(Program), val : Nat]),
     signals : Seq(Results),
     closed : Reasons \cup {Open}]

Leases == [owner : Drivers \cup {NoDriver},
           state : {"held", "lapsed", "released"}]

\* journalTombstone
Tombstoned(j) == j.closed # Open

\* The call the workflow function stands at when it ran over journal j.
Position(j) == Len(j.calls) + 1

\* replay(): each call finds its own key in the journal, in order.
Replays(j) == \A k \in 1..Len(j.calls) : j.calls[k].key = k

\* Signals delivered and not consumed by an await that is in the journal.
Received(j) ==
    Cardinality({k \in 1..Len(j.calls) : Program[k].call = "await"})
Pending(j) == Received(j) < Len(j.signals)

\* sleepUntil and yieldUntil: the last journaled timer has not fired.
Asleep(j) ==
    /\ j.calls # <<>>
    /\ Program[Len(j.calls)].call \in {"sleep", "yield"}
    /\ clock < j.calls[Len(j.calls)].val

\* The definition the open entry recorded.
Journaled(j) == j.calls[1].val

Call(k, v) == [kind |-> "call", key |-> k, val |-> v]
Signal(v) == [kind |-> "signal", val |-> v]
Header(v) == [kind |-> "version", val |-> v]
Tombstone(r) == [kind |-> "tombstone", reason |-> r]

Appended(j, e) ==
    CASE e.kind = "call" ->
            [j EXCEPT !.calls = Append(@, [key |-> e.key, val |-> e.val])]
      [] e.kind = "signal" -> [j EXCEPT !.signals = Append(@, e.val)]
      [] e.kind = "version" -> [j EXCEPT !.version = e.val]
      [] e.kind = "tombstone" -> [j EXCEPT !.closed = e.reason]

-----------------------------------------------------------------------------
TypeOK ==
    /\ disk \in Journals
    /\ mem \in [Drivers -> Journals]
    /\ pc \in [Drivers -> Labels]
    /\ held \in [Drivers -> Nat]
    /\ input \in [Drivers -> [def : Nat, build : Nat]]
    /\ reopened \in [Drivers -> 0..MaxReopen]
    /\ lease \in Leases
    /\ def \in Nat
    /\ build \in Nat
    /\ clock \in Nat
    /\ faults \in 0..MaxFaults
    /\ edits \in 0..MaxEdits
    /\ executed \in [1..Len(Program) ->
                        SUBSET [seen : Seq(Nat), def : Nat]]
    /\ outcome \subseteq Reasons \cup {"completed", "failed"}

Init ==
    /\ disk = Empty
    /\ mem = [d \in Drivers |-> Empty]
    /\ pc = [d \in Drivers |-> "idle"]
    /\ held = [d \in Drivers |-> 0]
    /\ input = [d \in Drivers |-> [def |-> 1, build |-> 1]]
    /\ reopened = [d \in Drivers |-> 0]
    /\ lease = [owner |-> NoDriver, state |-> "released"]
    /\ def = 1
    /\ build = 1
    /\ clock = 0
    /\ faults = 0
    /\ edits = 0
    /\ executed = [k \in 1..Len(Program) |-> {}]
    /\ outcome = {}

-----------------------------------------------------------------------------
(* The pipeline lease.                                                     *)

\* Mutant: whoever found the pipeline claimed may write.
OwnsUnfenced(d) == lease.owner # NoDriver

\* ownsRecord: the lease carries this drive's token.  A claim mints a new
\* token and a process makes one drive at a time, so the process stands for it.
Owns(d) == lease.owner = d

\* leaseHeld: not released, not expired, and its worker is live on this box.
LeaseHeld ==
    /\ lease.owner # NoDriver
    /\ lease.state = "held"
    /\ \E d \in Drivers : Worker[d] = Worker[lease.owner] /\ pc[d] # "down"

Fault == faults < MaxFaults /\ faults' = faults + 1

Goto(d, label) == pc' = [pc EXCEPT ![d] = label]

Take(d) ==
    /\ pc[d] = "idle"
    /\ "failed" \notin outcome
    /\ lease' = [owner |-> d, state |-> "held"]
    /\ Goto(d, "claimed")
    /\ UNCHANGED <<disk, mem, held, input, reopened, def, build, clock, edits,
                   executed, outcome>>

\* Mutant: only a pipeline that was never claimed can be claimed.
ClaimFresh(d) == lease.owner = NoDriver /\ Take(d) /\ UNCHANGED faults

\* claimPipeline: nobody holds the lease, or the process finds its own.
Claim(d) == (~LeaseHeld \/ Owns(d)) /\ Take(d) /\ UNCHANGED faults

\* claimPipeline on a lease that another process of the same worker holds: a
\* held lease is refused only to another worker id.
Takeover(d) ==
    /\ LeaseHeld
    /\ ~Owns(d)
    /\ Worker[lease.owner] = Worker[d]
    /\ Take(d)
    /\ Fault

\* The lease expires under a driver that stalls.
Lapse ==
    /\ lease.state = "held"
    /\ Fault
    /\ lease' = [lease EXCEPT !.state = "lapsed"]
    /\ UNCHANGED <<disk, mem, pc, held, input, reopened, def, build, clock,
                   edits, executed, outcome>>

\* renewPipeline: only the lease that still carries the token.
Renew(d) ==
    /\ Owns(d)
    /\ pc[d] \notin {"down", "idle"}
    /\ lease.state = "lapsed"
    /\ lease' = [lease EXCEPT !.state = "held"]
    /\ UNCHANGED <<disk, mem, pc, held, input, reopened, def, build, clock,
                   faults, edits, executed, outcome>>

-----------------------------------------------------------------------------
(* Execution: one drive.                                                   *)

\* open(): a fresh Execution over the journal as read from disk.
OpenJournal(d) ==
    /\ pc[d] = "claimed"
    /\ mem' = [mem EXCEPT ![d] = disk]
    /\ input' = [input EXCEPT ![d] = [def |-> def, build |-> build]]
    /\ reopened' = [reopened EXCEPT ![d] = 0]
    /\ Goto(d, "ready")
    /\ UNCHANGED <<disk, held, lease, def, build, clock, faults, edits,
                   executed, outcome>>

\* _append over an owner-guarded persist.  It lands; or fails with the line on
\* disk or not, and the Execution is poisoned; or another driver owns the
\* pipeline, and the drive stops.
Persist(d, e, next, broken) ==
    /\ \/ /\ Owns(d)
          /\ mem' = [mem EXCEPT ![d] = Appended(@, e)]
          /\ disk' = Appended(disk, e)
          /\ Goto(d, next)
          /\ UNCHANGED faults
       \/ /\ Owns(d)
          /\ Fault
          /\ mem' = [mem EXCEPT ![d] = Appended(@, e)]
          /\ disk' \in {disk, Appended(disk, e)}
          /\ Goto(d, broken)
       \/ /\ ~Owns(d)
          /\ mem' = [mem EXCEPT ![d] = Empty]
          /\ Goto(d, "idle")
          /\ UNCHANGED <<disk, faults>>
    /\ UNCHANGED <<input, reopened, lease, def, build, clock, edits>>

\* _bindVersion: a new journal gets its header, one of another version is
\* refused.
BindVersion(d) ==
    \/ /\ mem[d].version = 0
       /\ Persist(d, Header(input[d].build), "running", "poisoned")
    \/ /\ mem[d].version # 0
       /\ Goto(d, IF mem[d].version = input[d].build THEN "running"
                                                     ELSE "version")
       /\ UNCHANGED <<disk, mem, input, reopened, lease, def, build, clock,
                      faults, edits>>

\* run(), up to the workflow function: a tombstone is read before the version.
Run(d) ==
    /\ pc[d] = "ready"
    /\ \/ /\ Tombstoned(mem[d])
          /\ Goto(d, "refusing")
          /\ UNCHANGED <<disk, mem, input, reopened, lease, def, build, clock,
                         faults, edits>>
       \/ ~Tombstoned(mem[d]) /\ BindVersion(d)
    /\ UNCHANGED <<held, executed, outcome>>

\* The driver stands at call k of the workflow function.  A journal that does
\* not replay has no such call (JournalReplays: there is none).
At(d, k) ==
    /\ pc[d] = "running"
    /\ Replays(mem[d])
    /\ k = Position(mem[d])
    /\ k <= Len(Program)
    /\ ~Asleep(mem[d])

\* Mutant: the definition is not compared at a live call.
GuardNot(d, k) == TRUE

\* guardedKernel: a call that would execute and not replay runs only under the
\* definition the journal was opened under.
Guard(d, k) ==
    Program[k].guarded => Journaled(mem[d]) = input[d].def

Mismatch(d) ==
    /\ \E k \in 1..Len(Program) : At(d, k) /\ ~Guard(d, k)
    /\ Goto(d, "definition")
    /\ UNCHANGED <<disk, mem, held, input, reopened, lease, def, build, clock,
                   faults, edits, executed, outcome>>

\* What the workflow function has seen when it stands at the end of j.
Seen(j) == [k \in 1..Len(j.calls) |-> j.calls[k].val]

\* Mutant: an activity is not guarded by the lease.
MayExecuteDisplaced(d, k) == TRUE

\* The owner guard in front of an activity that writes durable state.
MayExecute(d, k) == Program[k].durable => Owns(d)

\* ctx.run: the activity executes.  The open activity returns the definition.
Execute(d, k) ==
    /\ At(d, k)
    /\ Program[k].call = "effect"
    /\ Guard(d, k)
    /\ MayExecute(d, k)
    /\ \E r \in IF k = 1 THEN {input[d].def} ELSE Results :
            held' = [held EXCEPT ![d] = r]
    /\ executed' = [executed EXCEPT ![k] =
            @ \cup {[seen |-> Seen(mem[d]), def |-> input[d].def]}]
    /\ Goto(d, "executed")
    /\ UNCHANGED <<disk, mem, input, reopened, lease, def, build, clock,
                   faults, edits, outcome>>

\* PipelineOwnerLost out of an activity: the drive stops.
Displaced(d, k) ==
    /\ At(d, k)
    /\ Program[k].call = "effect"
    /\ Guard(d, k)
    /\ ~MayExecute(d, k)
    /\ mem' = [mem EXCEPT ![d] = Empty]
    /\ Goto(d, "idle")
    /\ UNCHANGED <<disk, held, input, reopened, lease, def, build, clock,
                   faults, edits, executed, outcome>>

\* settle(): the result is journaled.
Settle(d) ==
    /\ pc[d] = "executed"
    /\ Persist(d, Call(Position(mem[d]), held[d]), "running", "poisoned")
    /\ held' = [held EXCEPT ![d] = 0]
    /\ UNCHANGED <<executed, outcome>>

\* ctx.now
Now(d, k) ==
    /\ At(d, k)
    /\ Program[k].call = "now"
    /\ Guard(d, k)
    /\ Persist(d, Call(k, clock), "running", "poisoned")
    /\ UNCHANGED <<held, executed, outcome>>

\* ctx.sleepUntil, ctx.yieldUntil: the live call journals the wake time; a
\* yield then suspends whatever the clock reads.
Timer(d, k) ==
    /\ At(d, k)
    /\ Program[k].call \in {"sleep", "yield"}
    /\ Guard(d, k)
    /\ Persist(d, Call(k, clock + 1),
               IF Program[k].call = "yield" THEN "parked" ELSE "running",
               "poisoned")
    /\ UNCHANGED <<held, executed, outcome>>

\* A journaled timer that has not fired suspends the run.
Suspend(d) ==
    /\ pc[d] = "running"
    /\ Asleep(mem[d])
    /\ Goto(d, IF Program[Len(mem[d].calls)].call = "yield" THEN "parked"
                                                            ELSE "asleep")
    /\ UNCHANGED <<disk, mem, held, input, reopened, lease, def, build, clock,
                   faults, edits, executed, outcome>>

\* The driver waits out a backoff in the process.
Wake(d) ==
    /\ pc[d] = "asleep"
    /\ ~Asleep(mem[d])
    /\ Goto(d, "ready")
    /\ UNCHANGED <<disk, mem, held, input, reopened, lease, def, build, clock,
                   faults, edits, executed, outcome>>

\* A yield is handed up, and the pipeline's lease released.
Yield(d) ==
    /\ pc[d] = "parked"
    /\ mem' = [mem EXCEPT ![d] = Empty]
    /\ Goto(d, "idle")
    /\ lease' = IF Owns(d) THEN [lease EXCEPT !.state = "released"] ELSE lease
    /\ UNCHANGED <<disk, held, input, reopened, def, build, clock, faults,
                   edits, executed, outcome>>

\* ctx.awaitSignal: an undelivered signal suspends.
Await(d, k) ==
    /\ At(d, k)
    /\ Program[k].call = "await"
    /\ Guard(d, k)
    /\ \/ /\ Pending(mem[d])
          /\ Persist(d, Call(k, mem[d].signals[Received(mem[d]) + 1]),
                     "running", "poisoned")
       \/ /\ ~Pending(mem[d])
          /\ Goto(d, "waiting")
          /\ UNCHANGED <<disk, mem, input, reopened, lease, def, build, clock,
                         faults, edits>>
    /\ UNCHANGED <<held, executed, outcome>>

\* onSuspended: the awaited run ended, its verdict is journaled as a signal.
Deliver(d) ==
    /\ pc[d] = "waiting"
    /\ \E r \in Results : Persist(d, Signal(r), "ready", "poisoned")
    /\ UNCHANGED <<held, executed, outcome>>

\* The workflow function returned.
Complete(d) ==
    /\ pc[d] = "running"
    /\ Position(mem[d]) > Len(Program)
    /\ outcome' = outcome \cup {"completed"}
    /\ mem' = [mem EXCEPT ![d] = Empty]
    /\ Goto(d, "idle")
    /\ UNCHANGED <<disk, held, input, reopened, lease, def, build, clock,
                   faults, edits, executed>>

-----------------------------------------------------------------------------
(* driveStage on a failed run.                                             *)

\* A poisoned Execution is re-opened over what is on disk.
Reopen(d) ==
    /\ pc[d] = "poisoned"
    /\ reopened[d] < MaxReopen
    /\ mem' = [mem EXCEPT ![d] = disk]
    /\ reopened' = [reopened EXCEPT ![d] = @ + 1]
    /\ Goto(d, "ready")
    /\ UNCHANGED <<disk, held, input, lease, def, build, clock, faults, edits,
                   executed, outcome>>

\* settleOrRefuse on an unresumable journal: tombstoned first.  An append that
\* fails throws, and the refusal settles nothing.
Refuse(d) ==
    /\ pc[d] \in Reasons
    /\ Persist(d, Tombstone(pc[d]), "refusing", "thrown")
    /\ UNCHANGED <<held, executed, outcome>>

\* The drive threw: the work loop settles the pass as failed, if it still owns
\* the pipeline.
Throw(d) ==
    /\ \/ pc[d] = "thrown"
       \/ pc[d] = "poisoned" /\ reopened[d] = MaxReopen
    /\ mem' = [mem EXCEPT ![d] = Empty]
    /\ Goto(d, "idle")
    /\ outcome' = IF Owns(d) THEN outcome \cup {"failed"} ELSE outcome
    /\ UNCHANGED <<disk, held, input, reopened, lease, def, build, clock,
                   faults, edits, executed>>

\* settleRefusal: owner-guarded writes from the recorded tombstone.
SettleRefusal(d) ==
    /\ pc[d] = "refusing"
    /\ outcome' = IF Owns(d) THEN outcome \cup {mem[d].closed} ELSE outcome
    /\ mem' = [mem EXCEPT ![d] = Empty]
    /\ Goto(d, "idle")
    /\ UNCHANGED <<disk, held, input, reopened, lease, def, build, clock,
                   faults, edits, executed>>

-----------------------------------------------------------------------------
(* The environment.                                                        *)

Crash(d) ==
    /\ pc[d] # "down"
    /\ Fault
    /\ mem' = [mem EXCEPT ![d] = Empty]
    /\ held' = [held EXCEPT ![d] = 0]
    /\ Goto(d, "down")
    /\ UNCHANGED <<disk, input, reopened, lease, def, build, clock, edits,
                   executed, outcome>>

Restart(d) ==
    /\ pc[d] = "down"
    /\ Goto(d, "idle")
    /\ UNCHANGED <<disk, mem, held, input, reopened, lease, def, build, clock,
                   faults, edits, executed, outcome>>

\* Someone edits the factory (and may revert it), or upgrades the code.
Edit ==
    /\ edits < MaxEdits
    /\ edits' = edits + 1
    /\ \/ def' = 3 - def /\ UNCHANGED build
       \/ build' = 3 - build /\ UNCHANGED def
    /\ UNCHANGED <<disk, mem, pc, held, input, reopened, lease, clock, faults,
                   executed, outcome>>

Tick ==
    /\ clock < MaxClock \/ Asleep(disk)
    /\ clock' = clock + 1
    /\ UNCHANGED <<disk, mem, pc, held, input, reopened, lease, def, build,
                   faults, edits, executed, outcome>>

-----------------------------------------------------------------------------
AtCall(d) ==
    \E k \in 1..Len(Program) :
        \/ Execute(d, k)
        \/ Displaced(d, k)
        \/ Now(d, k)
        \/ Timer(d, k)
        \/ Await(d, k)

Drive(d) ==
    \/ Claim(d)
    \/ OpenJournal(d)
    \/ Run(d)
    \/ Mismatch(d)
    \/ AtCall(d)
    \/ Settle(d)
    \/ Suspend(d)
    \/ Wake(d)
    \/ Yield(d)
    \/ Deliver(d)
    \/ Complete(d)
    \/ Reopen(d)
    \/ Throw(d)
    \/ Refuse(d)
    \/ SettleRefusal(d)
    \/ Restart(d)

Next ==
    \/ \E d \in Drivers : Drive(d) \/ Takeover(d) \/ Renew(d) \/ Crash(d)
    \/ Lapse
    \/ Edit
    \/ Tick

Spec == Init /\ [][Next]_vars

\* Processes run, restart and re-offer what is open; time passes.
FairSpec ==
    /\ Spec
    /\ \A d \in Drivers : WF_vars(Drive(d))
    /\ WF_vars(Tick)

-----------------------------------------------------------------------------
(* Properties.                                                             *)

IsPrefixOf(s, t) == Len(s) <= Len(t) /\ SubSeq(t, 1, Len(s)) = s

Recorded(j) ==
    /\ j.version \in {0, disk.version}
    /\ IsPrefixOf(j.calls, disk.calls)
    /\ IsPrefixOf(j.signals, disk.signals)
    /\ j.closed \in {Open, disk.closed}

\* Whatever crashes, failed appends and takeovers happened, the file replays:
\* each call is journaled once and in order, under one header, and no await
\* consumed a signal that was not delivered (replay, NonDeterminism).
JournalReplays ==
    /\ Replays(disk)
    /\ Len(disk.calls) <= Len(Program)
    /\ disk = Empty \/ disk.version # 0
    /\ Received(disk) <= Len(disk.signals)

\* However often a call is executed, and by whichever driver, the workflow
\* asks for it having seen the same answers; a guarded call also under the
\* one definition the journal was opened under (guardedKernel).
ExecutedAlike ==
    \A k \in 1..Len(Program) :
        \A a, b \in executed[k] :
            /\ a.seen = b.seen
            /\ Program[k].guarded => a.def = b.def /\ a.def = a.seen[1]

\* An activity that writes durable state never executes once its result is
\* journaled, nor once the attempt is refused (ctx.run, assertPipelineOwner).
NeverRedone ==
    [][\A d \in Drivers, k \in 1..Len(Program) :
            Execute(d, k) /\ Program[k].durable =>
                Position(disk) = k /\ ~Tombstoned(disk)]_vars

\* Once faults, edits and takeovers cease the stage reports: it completes, is
\* refused or fails; no driver waits for ever on another or on a signal.
Reports == <>(outcome # {})

=============================================================================
