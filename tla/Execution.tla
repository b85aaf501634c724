----------------------------- MODULE Execution -----------------------------
(***************************************************************************)
(* The execution reducer (src/lib/kernel/execution.js): one record per     *)
(* pipeline attempt on a work item, moved by ownership transitions and by  *)
(* fenced, keyed events.  Operators only; ExecutionRecord and              *)
(* ExecutionStore give them state.                                         *)
(*                                                                         *)
(* Left out: timestamps, reasons and references (a candidate is published  *)
(* or not), the rows of stage attempts (no transition reads them; what an  *)
(* attempt's end does to the stage is kept) and provider attempts.  An     *)
(* event's "attempt" is the label its idempotency key is derived from.     *)
(***************************************************************************)
EXTENDS Integers, Sequences

CONSTANTS
    Gates,        \* the gate ids pinned when the execution is opened
    Rejudge,      \* those whose verdict must stand on the tip
    Boundary,     \* where completion may be written: "gates" or "integration"
    Candidates,   \* candidate ids (content addresses of trees)
    Instances,    \* worker processes
    Principal,    \* Principal[i]: the (worker, machine) owner i runs for
    Attempts,     \* attempt labels
    Vocabulary,   \* the event types workers send
    None          \* no candidate, no instance

ASSUME ExecutionAssumption ==
    /\ Rejudge \subseteq Gates
    /\ Boundary \in {"gates", "integration"}
    /\ None \notin Candidates \cup Instances
    /\ DOMAIN Principal = Instances

Stages == {"implementation", "gating", "integration", "completed", "refused"}

GateStates == {"passed", "skipped", "failed", "infrastructure"}

IntegrationStates == {"landed", "parked", "failed"}

NoOwner == [inst |-> None, fence |-> 0]

initExecution ==
    [stage |-> "implementation",
     owner |-> NoOwner,
     released |-> FALSE,
     chain |-> <<>>,
     gates |-> [g \in Gates |-> [state |-> None, cand |-> None]],
     integration |-> None]

Candidate == [id : Candidates, supersedes : Candidates \cup {None},
              published : BOOLEAN]

Record ==
    [stage : Stages,
     owner : [inst : Instances \cup {None}, fence : Nat],
     released : BOOLEAN,
     chain : Seq(Candidate),
     gates : [Gates -> [state : GateStates \cup {None},
                        cand : Candidates \cup {None}]],
     integration : IntegrationStates \cup {"running", None}]

-----------------------------------------------------------------------------
(* Derived reads.                                                          *)

HasCandidate(r) == r.chain # <<>>

Tip(r) == r.chain[Len(r.chain)]

OnChain(r, c) == \E k \in 1 .. Len(r.chain) : r.chain[k].id = c

\* A trusted journal is folded without asking again whether the reference of
\* an already accepted candidate verified (hist).
candidatePublished(r, hist) == HasCandidate(r) /\ (hist \/ Tip(r).published)

gateAccepted(r, g) ==
    /\ r.gates[g].state \in {"passed", "skipped"}
    /\ g \in Rejudge => r.gates[g].cand = Tip(r).id

boundaryReachedForGates(r, hist) ==
    candidatePublished(r, hist) /\ \A g \in Gates : gateAccepted(r, g)

isTerminal(r) == r.stage = "completed" \/ r.released

\* Mutant: the boundary of a factory that integrates is taken for its gates'.
boundaryReachedUnlanded(r, hist) ==
    /\ r.stage # "refused"
    /\ ~r.released
    /\ r.stage = "completed" \/ boundaryReachedForGates(r, hist)

boundaryReached(r, hist) ==
    /\ r.stage # "refused"
    /\ ~r.released
    /\ \/ r.stage = "completed"
       \/ /\ boundaryReachedForGates(r, hist)
          /\ Boundary = "integration" => r.integration = "landed"

-----------------------------------------------------------------------------
(* Ownership.  leased says whether the owner's lease is still running.     *)

ownershipFence(r, fence) == r.owner # NoOwner /\ r.owner.fence = fence

ownershipLive(r, fence, leased) == ownershipFence(r, fence) /\ leased

SameOwner(r, i) == r.owner # NoOwner /\ Principal[r.owner.inst] = Principal[i]

\* Mutant: the lease of a vanished owner never ends.
ClaimableForever(r, i, leased) ==
    ~isTerminal(r) /\ (r.owner = NoOwner \/ SameOwner(r, i))

Claimable(r, i, leased) ==
    ~isTerminal(r) /\ (r.owner = NoOwner \/ ~leased \/ SameOwner(r, i))

\* Mutant: any process of the owner keeps the fence.
ClaimFenceShared(r, i, takeover) ==
    IF SameOwner(r, i) /\ ~takeover THEN r.owner.fence ELSE r.owner.fence + 1

\* Only the same process asking again keeps its fence.
ClaimFence(r, i, takeover) ==
    IF r.owner.inst = i /\ ~takeover THEN r.owner.fence ELSE r.owner.fence + 1

Own(r, i, fence) == [r EXCEPT !.owner = [inst |-> i, fence |-> fence]]

\* release and forceRelease: terminal, and nobody's.
Released(r) == [r EXCEPT !.owner = NoOwner, !.released = TRUE]

-----------------------------------------------------------------------------
(* Events.                                                                 *)

Events ==
    [type : {"stage.started", "rescue.started", "integration.started"},
     attempt : Attempts]
    \cup [type : {"stage.observed"}, attempt : Attempts,
          state : {"dispatched", "exhausted"}]
    \cup [type : {"candidate.pinned"}, cand : Candidates,
          supersedes : Candidates \cup {None}, ref : BOOLEAN]
    \cup [type : {"candidate.published"}, cand : Candidates]
    \cup [type : {"gate.started"}, gate : Gates, attempt : Attempts]
    \cup [type : {"gate.settled"}, gate : Gates, attempt : Attempts,
          state : GateStates, cand : Candidates \cup {None}]
    \cup [type : {"integration.settled"}, attempt : Attempts,
          state : IntegrationStates]
    \cup [type : {"escalation.filed"}, attempt : Attempts, terminal : BOOLEAN]
    \cup [type : {"completion.written"}]

EventsSent == {e \in Events : e.type \in Vocabulary}

\* The key an event is recorded under, derived from its type and label.
derivedEventKey(e) ==
    CASE e.type = "candidate.pinned"    -> <<"candidate", e.cand>>
      [] e.type = "candidate.published" -> <<"published", e.cand>>
      [] e.type = "gate.started"        -> <<"gate started", e.gate, e.attempt>>
      [] e.type = "gate.settled"        -> <<"gate", e.gate, e.attempt>>
      [] e.type = "stage.observed"      -> <<e.type, e.attempt, e.state>>
      [] e.type = "completion.written"  -> <<e.type>>
      [] OTHER                          -> <<e.type, e.attempt>>

\* pinCandidate: the first candidate, or one that names the tip it replaces.
PinAdmitted(r, e, hist) ==
    \/ HasCandidate(r) /\ Tip(r).id = e.cand
    \/ /\ hist \/ ~OnChain(r, e.cand)
       /\ HasCandidate(r) => /\ r.integration # "landed"
                             /\ e.supersedes = Tip(r).id

\* What applyByType asks before it changes the record.
Admits(r, e, hist) ==
    CASE e.type = "candidate.pinned" -> PinAdmitted(r, e, hist)
      [] e.type = "candidate.published" -> OnChain(r, e.cand)
      [] e.type = "gate.started" -> e.gate \in Gates /\ candidatePublished(r, hist)
      [] e.type = "gate.settled" ->
            /\ e.gate \in Gates
            /\ candidatePublished(r, hist)
            /\ e.cand = None => hist \/ Len(r.chain) = 1
            /\ e.cand # None => OnChain(r, e.cand)
      [] e.type = "rescue.started" -> HasCandidate(r)
      [] e.type = "integration.started" -> boundaryReachedForGates(r, hist)
      [] e.type = "integration.settled" -> r.integration # None
      [] e.type = "completion.written" -> boundaryReached(r, hist)
      [] OTHER -> TRUE

\* Mutant: the integration of the old tip is kept.
PinnedKeeping(r, e) ==
    [r EXCEPT !.stage = "gating",
              !.chain = Append(@, [id |-> e.cand, supersedes |-> e.supersedes,
                                   published |-> e.ref])]

\* A re-pin advances the chain and voids an integration of the old tip.
Pinned(r, e) ==
    IF HasCandidate(r) /\ Tip(r).id = e.cand
    THEN [r EXCEPT !.stage = "gating"]
    ELSE [r EXCEPT
            !.stage = "gating",
            !.integration = IF HasCandidate(r) THEN None ELSE @,
            !.chain = Append(@, [id |-> e.cand,
                                 supersedes |-> IF HasCandidate(r) THEN Tip(r).id
                                                ELSE e.supersedes,
                                 published |-> e.ref])]

Published(r, c) ==
    [r EXCEPT !.chain = [k \in DOMAIN @ |->
        IF @[k].id = c THEN [@[k] EXCEPT !.published = TRUE] ELSE @[k]]]

\* What applyByType makes of the record.
Effect(r, e) ==
    CASE e.type = "stage.started" -> [r EXCEPT !.stage = "implementation"]
      [] e.type = "stage.observed" ->
            [r EXCEPT !.stage = IF e.state = "exhausted" THEN "refused" ELSE @]
      [] e.type = "candidate.pinned" -> Pinned(r, e)
      [] e.type = "candidate.published" -> Published(r, e.cand)
      [] e.type = "gate.started" ->
            [r EXCEPT !.stage = "gating",
                      !.gates[e.gate] = [state |-> None, cand |-> None]]
      [] e.type = "gate.settled" ->
            [r EXCEPT !.gates[e.gate] =
                [state |-> e.state,
                 cand |-> IF e.cand = None THEN Tip(r).id ELSE e.cand]]
      [] e.type = "rescue.started" -> [r EXCEPT !.stage = "gating"]
      [] e.type = "integration.started" ->
            [r EXCEPT !.stage = "integration", !.integration = "running"]
      [] e.type = "integration.settled" -> [r EXCEPT !.integration = e.state]
      [] e.type = "escalation.filed" ->
            [r EXCEPT !.stage = IF e.terminal THEN "refused" ELSE @]
      [] e.type = "completion.written" -> [r EXCEPT !.stage = "completed"]

\* applyExecutionEvent, once the key is not on the log: terminal first, then
\* the fence and the lease, then the event's own conditions.
Accepts(r, e, fence, leased) ==
    /\ ~isTerminal(r)
    /\ ownershipLive(r, fence, leased)
    /\ Admits(r, e, FALSE)

\* The same on the rows of a journal: expiry was judged when they were written.
Replays(r, e, fence) ==
    ~isTerminal(r) /\ ownershipFence(r, fence) /\ Admits(r, e, TRUE)

=============================================================================
