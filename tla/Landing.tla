------------------------------ MODULE Landing ------------------------------
(***************************************************************************)
(* The integration stage: lib/shell/integration-workflow deciding what is  *)
(* built, judged and landed, and the git operations of                     *)
(* lib/shell/integration-runner it lands with.                             *)
(*                                                                         *)
(* Several items, each with its own checkout, land on one target ref.  A   *)
(* stage reads its checkout's head, builds a candidate on the target's     *)
(* tip, runs the suite on it and swings the ref by compare-and-swap; it    *)
(* sends failures back to a fixer, re-gates a head that moved, and yields  *)
(* when the suite or a re-gate could not judge.  The integration lease     *)
(* only makes races rarer (the code goes on without it), so it is left     *)
(* out.  The stage is a journaled workflow: a crash re-executes the step   *)
(* whose result was not journaled, which matters for the landing alone.    *)
(*                                                                         *)
(* A head is the sequence of the commits it consists of, so containment    *)
(* is the prefix relation; the target is the sequence of what landed.      *)
(***************************************************************************)
EXTENDS Naturals, Sequences, SequencesExt, FiniteSets

CONSTANTS
    Items,       \* the items landing on the target
    Strategies,  \* integration strategies: "merge" (also rebase), "squash"
    Pinning,     \* whether the factory pins candidates: a subset of BOOLEAN
    Cycles,      \* integration.cycles: fix cycles of a stage
    RaceCap,     \* RACE_RETRY_CAP
    MaxMoves,    \* bound: commits to the items' checkouts
    MaxPushes,   \* bound: commits others put on the target
    MaxFaults    \* bound: outages, failures of git and crashes

ASSUME ConstantsAssumption ==
    /\ IsFiniteSet(Items) /\ "other" \notin Items
    /\ Strategies \subseteq {"merge", "squash"} /\ Pinning \subseteq BOOLEAN
    /\ Cycles \in Nat /\ RaceCap \in Nat \ {0}
    /\ MaxMoves \in Nat /\ MaxPushes \in Nat /\ MaxFaults \in Nat

VARIABLES
    strategy, pins,  \* the factory's settings
    target,          \* what has landed on the target ref
    head,            \* the head of each item's checkout
    judged,          \* the heads of each item every gate has passed
    st,              \* each item's stage
    moves, pushes, faults

vars == <<strategy, pins, target, head, judged, st, moves, pushes, faults>>

NoHead == <<>>
Entry(i, h) == [by |-> i, head |-> h]

Init ==
    /\ strategy \in Strategies /\ pins \in Pinning
    /\ target = <<>>
    /\ head = [i \in Items |-> <<0>>]
    /\ judged = [i \in Items |-> {<<0>>}]
    /\ st = [i \in Items |->
                [pc |-> "open", state |-> "none", tree |-> NoHead,
                 cand |-> IF pins THEN <<0>> ELSE NoHead, gated |-> <<0>>,
                 base |-> <<>>, sha |-> <<>>, cycle |-> 0, races |-> 0]]
    /\ moves = 0 /\ pushes = 0 /\ faults = 0

Goto(i, pc) == st' = [st EXCEPT ![i].pc = pc]
Settled(s, state) == [s EXCEPT !.pc = "done", !.state = state, !.base = <<>>, !.sha = <<>>]
Settle(i, state) == st' = [st EXCEPT ![i] = Settled(@, state)]

\* What the stage integrates: the pinned candidate, or else the branch head.
IntegrateCommit(s) == IF s.cand = NoHead THEN s.tree ELSE s.cand

\* Mutant: the branch is not asked whether it still carries the candidate.
MutCandidateDrift(s) == s.cand # s.cand

\* Whether the branch still carries the pinned candidate.
CandidateDrift(s) == s.cand # NoHead /\ ~IsPrefix(s.cand, s.tree)

\* gates.cycleDecision: a failure goes to the fixer or settles the stage.
FixOrSettle(i) ==
    st' = [st EXCEPT ![i] = IF @.cycle < Cycles
                            THEN [@ EXCEPT !.pc = "fix", !.base = <<>>, !.sha = <<>>]
                            ELSE Settled(@, "failed")]

-----------------------------------------------------------------------------
(* Reading what to integrate.                                              *)

\* The checkout is read; a head the gates did not judge is refused.
Open(i) ==
    /\ st[i].pc = "open"
    /\ st' = [st EXCEPT ![i].tree = head[i],
                        ![i].pc = IF head[i] = st[i].gated THEN "build" ELSE "done",
                        ![i].state = IF head[i] = st[i].gated THEN "none" ELSE "failed"]
    /\ UNCHANGED <<strategy, pins, target, head, judged, moves, pushes, faults>>

\* refreshTree after a fix: the checkout is read again and re-pinned; the
\* pin reads the checkout itself, and may find it moved on, or fail.
Refresh(i) ==
    /\ st[i].pc = "refresh"
    /\ st' = [st EXCEPT ![i].tree = head[i], ![i].pc = "pin"]
    /\ UNCHANGED <<strategy, pins, target, head, judged, moves, pushes, faults>>

Pin(i) ==
    /\ st[i].pc = "pin"
    /\ \E c \in {head[i], NoHead} :
        /\ ~pins => c = NoHead
        /\ st' = [st EXCEPT ![i].cand = c, ![i].pc = "standing"]
    /\ UNCHANGED <<strategy, pins, target, head, judged, moves, pushes, faults>>

\* refreshTree after a yield: read again, and not pinned again.
RefreshYielded(i) ==
    /\ st[i].pc = "yielded"
    /\ st' = [st EXCEPT ![i].tree = head[i], ![i].pc = "standing"]
    /\ UNCHANGED <<strategy, pins, target, head, judged, moves, pushes, faults>>

\* A branch that lost the candidate is a mismatch; a head the gates have
\* not judged is re-gated.
Standing(i) ==
    /\ st[i].pc = "standing"
    /\ IF CandidateDrift(st[i]) THEN Settle(i, "mismatch")
       ELSE Goto(i, IF st[i].tree = st[i].gated THEN "build" ELSE "regate")
    /\ UNCHANGED <<strategy, pins, target, head, judged, moves, pushes, faults>>

\* The re-gate is a whole gate pipeline over the checkout: what passes is
\* the head it judged last, and only the head read above may land.
RegatePasses(i) ==
    /\ st[i].pc = "regate"
    /\ judged' = [judged EXCEPT ![i] = @ \cup {head[i]}]
    /\ st' = [st EXCEPT ![i] = IF head[i] = @.tree
                               THEN [@ EXCEPT !.pc = "build", !.gated = head[i]]
                               ELSE Settled(@, "failed")]
    /\ UNCHANGED <<strategy, pins, target, head, moves, pushes, faults>>

RegateFails(i) ==
    /\ st[i].pc = "regate"
    /\ Settle(i, "failed")
    /\ UNCHANGED <<strategy, pins, target, head, judged, moves, pushes, faults>>

-----------------------------------------------------------------------------
(* Building, judging and landing a candidate.                              *)

\* Whether the target already has a head's commits.
Merged(i, h) == \E k \in DOMAIN target : target[k].by = i /\ IsPrefix(h, target[k].head)

\* buildCandidateTree on the target's tip.  A merge of what is already there
\* is the tip itself; squashing it leaves nothing to commit, which reads as
\* a conflict.
Build(i) ==
    LET h == IntegrateCommit(st[i]) IN
    /\ st[i].pc = "build"
    /\ Merged(i, h) => strategy = "merge"
    /\ st' = [st EXCEPT ![i].base = target, ![i].pc = "suite",
                        ![i].sha = IF Merged(i, h) THEN target ELSE Append(target, Entry(i, h))]
    /\ UNCHANGED <<strategy, pins, target, head, judged, moves, pushes, faults>>

BuildConflicts(i) ==
    /\ st[i].pc = "build"
    /\ Merged(i, IntegrateCommit(st[i])) => strategy = "squash"
    /\ target # <<>>
    /\ FixOrSettle(i)
    /\ UNCHANGED <<strategy, pins, target, head, judged, moves, pushes, faults>>

\* The protected paths are forced to their trusted content and the suite is
\* run, and rerun, on the very commit that would land.
SuitePasses(i) ==
    /\ st[i].pc = "suite" /\ Goto(i, "land")
    /\ UNCHANGED <<strategy, pins, target, head, judged, moves, pushes, faults>>

SuiteFails(i) ==
    /\ st[i].pc = "suite" /\ FixOrSettle(i)
    /\ UNCHANGED <<strategy, pins, target, head, judged, moves, pushes, faults>>

ForceRefused(i) ==
    /\ st[i].pc = "suite" /\ Settle(i, "failed")
    /\ UNCHANGED <<strategy, pins, target, head, judged, moves, pushes, faults>>

\* landCandidate: the ref is swung from the tip the candidate was built on,
\* is found standing at the candidate, or has moved, which is a lost race.
Descends(s) == IsPrefix(s.base, s.sha)

\* Mutant: the ref is set, not compared and swapped.
MutLand(i) ==
    /\ st[i].pc = "land" /\ Descends(st[i])
    /\ target' = st[i].sha /\ Settle(i, "passed")
    /\ UNCHANGED <<strategy, pins, head, judged, moves, pushes, faults>>

Land(i) ==
    /\ st[i].pc = "land" /\ Descends(st[i])
    /\ IF target \in {st[i].base, st[i].sha}
       THEN target' = st[i].sha /\ Settle(i, "passed")
       ELSE /\ st' = [st EXCEPT ![i] = IF @.races + 1 >= RaceCap
                                       THEN Settled(@, "failed")
                                       ELSE [@ EXCEPT !.pc = "build", !.races = st[i].races + 1]]
            /\ UNCHANGED target
    /\ UNCHANGED <<strategy, pins, head, judged, moves, pushes, faults>>

-----------------------------------------------------------------------------
(* The fixer, other writers, outages and crashes.                          *)

\* A fix run was followed to its end, or could not be run or followed.
FixEnds(i) ==
    /\ st[i].pc = "fix"
    /\ st' = [st EXCEPT ![i].pc = "refresh", ![i].cycle = @ + 1]
    /\ UNCHANGED <<strategy, pins, target, head, judged, moves, pushes, faults>>

FixRefused(i) ==
    /\ st[i].pc = "fix" /\ Settle(i, "failed")
    /\ UNCHANGED <<strategy, pins, target, head, judged, moves, pushes, faults>>

\* A checkout gains a commit, or its history is rewritten: by a fixer of
\* this stage or of a re-gate, or by a run nobody follows any more.
Commit(i) ==
    /\ moves < MaxMoves /\ moves' = moves + 1
    /\ st[i].pc # "done"
    /\ \E kept \in {head[i], <<>>} : head' = [head EXCEPT ![i] = Append(kept, moves + 1)]
    /\ UNCHANGED <<strategy, pins, target, judged, st, pushes, faults>>

\* Somebody else lands on the target.
Push ==
    /\ pushes < MaxPushes /\ pushes' = pushes + 1
    /\ target' = Append(target, Entry("other", <<pushes>>))
    /\ UNCHANGED <<strategy, pins, head, judged, st, moves, faults>>

Fault == faults < MaxFaults /\ faults' = faults + 1

\* CI did not judge the candidate, or a re-gate was interrupted.
Outage(i) ==
    /\ Fault /\ st[i].pc \in {"suite", "regate"}
    /\ st' = [st EXCEPT ![i].pc = "yielded", ![i].base = <<>>, ![i].sha = <<>>]
    /\ UNCHANGED <<strategy, pins, target, head, judged, moves, pushes>>

\* Reading the checkout, building or landing failed for another reason.
ReadFails(i) ==
    /\ Fault /\ st[i].pc \in {"open", "refresh", "yielded"} /\ Settle(i, "failed")
    /\ UNCHANGED <<strategy, pins, target, head, judged, moves, pushes>>

GitFails(i) ==
    /\ Fault /\ st[i].pc \in {"build", "land"} /\ FixOrSettle(i)
    /\ UNCHANGED <<strategy, pins, target, head, judged, moves, pushes>>

\* The ref was swung and the crash came before the journal line: the
\* landing is executed again.
LandUnrecorded(i) ==
    /\ Fault /\ st[i].pc = "land" /\ Descends(st[i]) /\ target = st[i].base
    /\ target' = st[i].sha
    /\ UNCHANGED <<strategy, pins, head, judged, st, moves, pushes>>

-----------------------------------------------------------------------------
Stage(i) ==
    \/ Open(i) \/ Refresh(i) \/ Pin(i) \/ RefreshYielded(i) \/ Standing(i)
    \/ RegatePasses(i) \/ RegateFails(i)
    \/ Build(i) \/ BuildConflicts(i) \/ SuitePasses(i) \/ SuiteFails(i) \/ ForceRefused(i)
    \/ Land(i) \/ FixEnds(i) \/ FixRefused(i)

Next ==
    \/ \E i \in Items :
        Stage(i) \/ Commit(i) \/ Outage(i) \/ ReadFails(i) \/ GitFails(i) \/ LandUnrecorded(i)
    \/ Push

Spec == Init /\ [][Next]_vars

-----------------------------------------------------------------------------
\* Nothing that landed is ever lost from the target, whoever lands beside it
\* and however often a landing is executed again.
NothingLost == [][IsPrefix(target, target')]_vars

\* Everything the stage puts on the target is contained in a head that
\* every gate has passed.
LandedCovered ==
    \A k \in DOMAIN target : target[k].by \in Items =>
        \E h \in judged[target[k].by] : IsPrefix(target[k].head, h)

\* A stage that reports its change landed is right: the target has the
\* commit it integrated.
ReportedLanded ==
    \A i \in Items : st[i].state = "passed" => Merged(i, IntegrateCommit(st[i]))

=============================================================================
