-------------------------- MODULE ExecutionRecord --------------------------
(***************************************************************************)
(* What an execution store promises: one authoritative record, moved       *)
(* atomically by the worker processes that claim it.  The local engine     *)
(* (ExecutionStore) implements this with a log, a view and a pointer; the  *)
(* hosted store does so behind /v1/executions.  A refused call and a       *)
(* replayed event change nothing and are stuttering steps here.            *)
(*                                                                         *)
(* Time is the number of ticks the owner's lease still has to run; claim   *)
(* and renew set it to Ttl.                                                *)
(***************************************************************************)
EXTENDS Execution

CONSTANTS
    Ttl,          \* a lease, in ticks
    MaxFence      \* bound: no claim advances the fence beyond it

ASSUME RecordAssumption == Ttl \in Nat \ {0} /\ MaxFence \in Nat

VARIABLES
    rec,     \* the execution record
    seen,    \* the idempotency keys on its event log
    lease,   \* ticks until the owner's lease expires
    fence,   \* fence[i]: the fence the store last gave process i, 0 if none
    alive    \* the processes still running

vars == <<rec, seen, lease, fence, alive>>

TypeOK ==
    /\ rec \in Record
    /\ lease \in 0 .. Ttl
    /\ fence \in [Instances -> Nat]
    /\ alive \subseteq Instances

Init ==
    /\ rec = initExecution
    /\ seen = {}
    /\ lease = 0
    /\ fence = [i \in Instances |-> 0]
    /\ alive = Instances

-----------------------------------------------------------------------------
Claim(i, takeover) ==
    LET f == ClaimFence(rec, i, takeover)
    IN  /\ i \in alive
        /\ Claimable(rec, i, lease > 0)
        /\ f <= MaxFence
        /\ rec' = Own(rec, i, f)
        /\ lease' = Ttl
        /\ fence' = [fence EXCEPT ![i] = f]
        /\ UNCHANGED <<seen, alive>>

Renew(i) ==
    /\ i \in alive
    /\ ownershipLive(rec, fence[i], lease > 0)
    /\ SameOwner(rec, i)
    /\ lease' = Ttl
    /\ UNCHANGED <<rec, seen, fence, alive>>

Release(i) ==
    /\ i \in alive
    /\ rec.stage # "completed"
    /\ ownershipLive(rec, fence[i], lease > 0)
    /\ SameOwner(rec, i)
    /\ rec' = Released(rec)
    /\ lease' = 0
    /\ UNCHANGED <<seen, fence, alive>>

\* A person's compare-and-swap on the revision they inspected: it succeeds
\* exactly when the record has not moved since.
ForceRelease ==
    /\ ~isTerminal(rec)
    /\ rec' = Released(rec)
    /\ lease' = 0
    /\ UNCHANGED <<seen, fence, alive>>

Report(i, e) ==
    /\ i \in alive
    /\ derivedEventKey(e) \notin seen
    /\ Accepts(rec, e, fence[i], lease > 0)
    /\ SameOwner(rec, i)
    /\ rec' = Effect(rec, e)
    /\ seen' = seen \cup {derivedEventKey(e)}
    /\ UNCHANGED <<lease, fence, alive>>

Tick ==
    /\ lease > 0
    /\ lease' = lease - 1
    /\ UNCHANGED <<rec, seen, fence, alive>>

Crash(i) ==
    /\ i \in alive
    /\ alive' = alive \ {i}
    /\ UNCHANGED <<rec, seen, lease, fence>>

Next ==
    \/ \E i \in Instances :
        \/ \E takeover \in BOOLEAN : Claim(i, takeover)
        \/ Renew(i)
        \/ Release(i)
        \/ \E e \in EventsSent : Report(i, e)
        \/ Crash(i)
    \/ ForceRelease
    \/ Tick

Spec == Init /\ [][Next]_vars

\* The loop of every live worker claims what it can, and time passes.
FairSpec ==
    /\ Spec
    /\ \A i \in Instances : WF_vars(Claim(i, FALSE))
    /\ WF_vars(Tick)

-----------------------------------------------------------------------------
(* Properties.                                                             *)

\* A process that holds the current fence is the owner: two processes never
\* hold it together, not even two processes of one agent on one machine, so a
\* displaced process's late writes are refused for good.
FenceNamesOwner ==
    \A i \in Instances :
        fence[i] > 0 /\ fence[i] = rec.owner.fence => rec.owner.inst = i

\* Nobody was ever given a fence above the record's, as long as it is owned.
FenceBound == ~rec.released => \A i \in Instances : fence[i] <= rec.owner.fence

\* The fence only grows while the execution lives, and grows whenever the
\* owner changes.
FenceAdvances ==
    [][~rec'.released =>
        /\ rec'.owner.fence >= rec.owner.fence
        /\ rec'.owner.inst # rec.owner.inst =>
              rec'.owner.fence > rec.owner.fence]_vars

\* Completed and released are for good: no claim, event or release moves the
\* record again.
TerminalFrozen == [][isTerminal(rec) => rec' = rec]_vars

\* A completed record shows a published tip that every pinned gate accepted
\* and, at the integration boundary, that it landed; whatever verdicts arrived
\* late, for earlier trees or in between.
CompletedAccepted ==
    rec.stage = "completed" =>
        /\ boundaryReachedForGates(rec, FALSE)
        /\ Boundary = "integration" => rec.integration = "landed"

\* An integration on the record is one of the tip: a re-pin voids it, so an
\* attempt started for one tree never stands for the tree that replaced it.
IntegrationOfTip ==
    [][rec.integration # None /\ rec'.integration # None
        => Tip(rec').id = Tip(rec).id]_vars

\* A dead owner is replaced: as long as the fence may grow and some process
\* is left, the execution gets a live owner again or ends.
OwnerAlive == rec.owner.inst \in alive

DeadOwnerReplaced ==
    []((~OwnerAlive /\ alive # {})
        => <>(OwnerAlive \/ isTerminal(rec) \/ rec.owner.fence = MaxFence \/ alive = {}))

=============================================================================
