---------------------------- MODULE GatePipeline ----------------------------
(***************************************************************************)
(* The gate list of one run: gatePass of src/lib/shell/gate-workflow.js    *)
(* with the activities it calls in gate-deps.js and the outcomes           *)
(* runOneGate (gate-runner.js) can give.  A pass judges the gates in       *)
(* order; a refusal buys fix cycles, then rescue attempts, then goes to a  *)
(* person; an outage is paid from pools.  A pass may be interrupted and a  *)
(* later one starts again from what was saved: the variables below are     *)
(* split into what survives that and the memory of the pass, d and pp.     *)
(* Within a pass the journal replays exactly (module StageWorkflow), so a  *)
(* pass is one control thread here.                                        *)
(***************************************************************************)
EXTENDS Naturals, Sequences, FiniteSets, FiniteSetsExt

CONSTANTS
    Gates,           \* sequence of the gates: kind, cycles, retain, ladder, fallback
    RetryCap,        \* implementation.retry.attempts, the shared pool
    RescueAttempts,  \* rescue.attempts
    MaxHead,         \* bound: commits the checkout can reach
    MaxFaults        \* bound: failed saves, reads, dispatches and awaits

ASSUME GatesAssumption ==
    /\ Gates \in Seq([kind : {"command", "review", "human"}, cycles : Nat,
                      retain : BOOLEAN, ladder : Nat, fallback : BOOLEAN])
    /\ Len(Gates) > 0
    /\ {RetryCap, RescueAttempts, MaxHead, MaxFaults} \subseteq Nat
    /\ MaxHead > 0

G == 1..Len(Gates)
R == 0..RescueAttempts
Heads == 1..MaxHead
NoHead == 0

VARIABLES
    tree,      \* the checkout: its commit, that commit's ancestors, dirty, gone
    runs,      \* the runs launched so far, by name, and how each stands
    stamp,     \* the last fix stamped on the run record
    progress,  \* progress[r, g]: what is saved of gate g in rescue pass r
    pools,     \* saved: retries spent, ladders climbed, gates on their fallback
    rescues,   \* saved: the rescue attempts so far
    pp,        \* passProgress: this pass's copy of what it saved
    d,         \* the rest of the pass's memory
    pc,        \* where the pass is
    result,    \* what the pipeline reported
    faults,    \* faults so far
    passes,    \* ghost: the verdicts "passed", as <<rescue pass, gate, head>>
    again      \* ghost: dispatches repeated after an outage

disk == <<tree, runs, stamp, progress, pools, rescues>>
vars == <<tree, runs, stamp, progress, pools, rescues, pp, d, pc, result,
          faults, passes, again>>

-----------------------------------------------------------------------------
(* Names of launched runs.  The dispatch door adopts a run already         *)
(* launched under the same name.                                           *)

NoName == [lane |-> "none", r |-> 0, g |-> 0, c |-> 0, t |-> 0]

FixName(r, g, c, t) == [lane |-> "fix", r |-> r, g |-> g, c |-> c, t |-> t]

TreeName(r) == [lane |-> "tree", r |-> r, g |-> 1, c |-> 0, t |-> 0]

RescueName(r, t) == [lane |-> "rescue", r |-> r, g |-> 0, c |-> 0, t |-> t]

Launched == DOMAIN runs

Held == {n \in Launched : runs[n] = "running"}

-----------------------------------------------------------------------------
(* What a gate attempt can say (runOneGate).                               *)
(*   failed      a fix cycle may help          dead    no fix cycle can    *)
(*   silent      nor can a rescue              held    a person has it     *)
(*   asked       a person asks for changes     flaky   passed, a flake owed*)

CommandOutcomes == {"passed", "flaky", "failed", "held", "infra"}

ReviewOutcomes ==
    {"passed", "failed", "dead", "silent", "infra", "reset", "cooldown", "unroutable"}

HumanOutcomes == {"passed", "dead", "held", "blocked", "asked"}

Unreadable == d.seen # "ok"

EmptyDiff == ~Unreadable /\ d.head = 1

Outcomes(g) ==
    CASE Gates[g].kind = "command" ->
            IF Unreadable THEN {"dead"}
            ELSE IF EmptyDiff THEN {"silent"} ELSE CommandOutcomes
      [] Gates[g].kind = "review" ->
            IF Unreadable THEN {"dead", "silent"}
            ELSE IF EmptyDiff THEN {"silent"} ELSE ReviewOutcomes
      [] Gates[g].kind = "human" ->
            IF Unreadable THEN {"dead"} ELSE HumanOutcomes

(* Outcomes no pool bounds: they happen only as often as MaxFaults lets.   *)
Faulty == {"reset", "cooldown", "unroutable"}

Passing == {"passed", "flaky"}

Outage == {"infra", "reset", "cooldown", "unroutable"}

-----------------------------------------------------------------------------
(* What is saved of a gate, and the pass's memory.                         *)

NoFix == [state |-> "none", cycle |-> 0, from |-> NoHead, asked |-> FALSE,
          dead |-> NoName]

Blank == [saved |-> FALSE, base |-> 0, fixes |-> 0, tries |-> 0, fix |-> NoFix,
          pre |-> FALSE, kept |-> NoHead, owed |-> NoHead, paid |-> FALSE]

NoPools == [spent |-> 0, ladder |-> [g \in G |-> 0], routed |-> {}]

Memory0 ==
    [r |-> 0, gi |-> 1, cycle |-> 0, base |-> 0, tries |-> 0, fix |-> NoFix,
     head |-> NoHead, chain |-> {}, seen |-> "ok", out |-> "none", lane |-> "none",
     run |-> NoName, judged |-> [g \in G |-> NoHead], bases |-> [g \in G |-> 0],
     pre |-> FALSE, pools |-> NoPools, blind |-> FALSE, rescues |-> <<>>]

Init ==
    /\ tree \in [head : {1, 2} \cap Heads, chain : {{1}}, dirty : BOOLEAN, gone : {FALSE}]
    /\ runs = [n \in {} |-> "running"]
    /\ stamp = NoName
    /\ progress = [x \in R \X G |-> Blank]
    /\ pools = NoPools
    /\ rescues = <<>>
    /\ pp = [x \in R \X G |-> Blank]
    /\ d = Memory0
    /\ pc = "idle"
    /\ result = "none"
    /\ faults = 0
    /\ passes = {}
    /\ again = 0

(* readChanged: a tree that cannot be read leaves the last head in memory. *)
Seen == IF tree.gone THEN "gone" ELSE IF tree.dirty THEN "dirty" ELSE "ok"

ReadChanged(m) ==
    [m EXCEPT !.seen = Seen,
              !.head = IF Seen = "ok" THEN tree.head ELSE @,
              !.chain = IF Seen = "ok" THEN tree.chain ELSE @]

(* loadGateProgress: a launch that was stamped but not saved is read back  *)
(* from the stamp, unless that run is the one an outage ended.             *)
LoadGateProgress(r, g) ==
    LET p == progress[r, g]
        stamped == /\ p.fix.state = "saved"
                   /\ stamp.lane = "fix"
                   /\ stamp # p.fix.dead
                   /\ stamp.g = g
                   /\ stamp.c = p.fix.cycle
    IN  IF stamped
        THEN [p EXCEPT !.fix.state = "launched", !.fixes = Max({@, p.fix.cycle + 1})]
        ELSE p

SavedOf(r, g) == IF pp[r, g].saved THEN pp[r, g] ELSE LoadGateProgress(r, g)

Fault == faults < MaxFaults /\ faults' = faults + 1

(* saveProgress: the pass remembers what it saved even when the save fails.*)
SaveProgress(r, g, p) ==
    /\ pp' = [pp EXCEPT ![r, g] = p]
    /\ \/ /\ progress' = [progress EXCEPT ![r, g] = p]
          /\ UNCHANGED faults
       \/ Fault /\ UNCHANGED progress

(* The progress of the gate at hand with the given count of fixes.         *)
Progress(m, fixes) ==
    [Blank EXCEPT !.saved = TRUE, !.base = m.base, !.fixes = fixes,
                  !.tries = m.tries, !.fix = m.fix,
                  !.pre = (m.gi = 1 /\ m.pre)]

(* retryCount: the number in the names of dispatches.  Unreadable pools    *)
(* count as spent, under the last known number.                            *)
RetryCount == IF d.blind THEN pools.spent ELSE d.pools.spent

(* One pass ends without a verdict; the work loop offers the run again.    *)
Interrupt == pc' = "idle" /\ d' = Memory0

(* The variables of the gate loop's body are dead outside it.              *)
Leave(m) ==
    [m EXCEPT !.cycle = 0, !.base = 0, !.tries = 0, !.fix = NoFix, !.out = "none",
              !.lane = "none", !.run = NoName]

Go(label, m) == pc' = label /\ d' = m

-----------------------------------------------------------------------------
(* The start of a pass: pools, rescues, owed evidence, the change.         *)

(* The evidence of flaky passes a pass could not publish.                  *)
Owed == {x \in R \X G : progress[x].owed # NoHead /\ ~progress[x].paid}

(* loadRescueState: a launch the stamp shows is a launch.                  *)
LoadedRescues ==
    [n \in 1..Len(rescues) |->
        [rescues[n] EXCEPT !.launched = @ \/ \E x \in Launched :
                                               x.lane = "rescue" /\ x.r = n]]

Resumed(m) == m.rescues[Len(m.rescues)]

(* The last rescue of a resumed pass cannot run any more.                  *)
RescueStranded(m) == ~Resumed(m).done /\ ~Resumed(m).launched /\ m.seen = "gone"

Starting(blind) ==
    LET m == ReadChanged([Memory0 EXCEPT !.pools = pools, !.blind = blind,
                                         !.rescues = LoadedRescues])
        n == Len(m.rescues)
    IN  IF n = 0 THEN m
        ELSE [m EXCEPT !.r = n, !.bases = Resumed(m).seed,
                       !.out = Resumed(m).out, !.gi = Resumed(m).gate]

(* Where a pass goes on: the first gate, or the rescue it was in.          *)
Entry(m) ==
    IF m.rescues = <<>> THEN "tree"
    ELSE IF Resumed(m).done /\ Resumed(m).error THEN "escalate"
    ELSE IF RescueStranded(m) THEN "stranded"
    ELSE IF Resumed(m).done THEN "tree"
    ELSE "rescue"

Begin ==
    /\ pc = "idle"
    /\ result = "none"
    /\ \E blind \in BOOLEAN :
          /\ IF blind THEN Fault ELSE UNCHANGED faults
          /\ Go(Entry(Starting(blind)), Starting(blind))
    /\ progress' = [x \in R \X G |-> IF x \in Owed
                                     THEN [progress[x] EXCEPT !.paid = TRUE]
                                     ELSE progress[x]]
    /\ pp' = [x \in R \X G |-> IF x \in Owed THEN progress'[x] ELSE Blank]
    /\ UNCHANGED <<tree, runs, stamp, pools, rescues, result, passes, again>>

(* The origins of owed evidence cannot be verified, or it cannot be        *)
(* published, or the worker stops within a backoff it resumed into.        *)
BeginInterrupted ==
    /\ pc = "idle"
    /\ result = "none"
    /\ Fault
    /\ UNCHANGED <<disk, pp, d, pc, result, passes, again>>

Settle(state) ==
    /\ pc' = "done"
    /\ result' = state
    /\ d' = [Memory0 EXCEPT !.r = d.r, !.head = d.head, !.chain = d.chain]

(* The item was resolved and its head landed by other means.               *)
Superseded ==
    /\ \/ pc = "idle" /\ result = "none"
       \/ pc \in {"follow", "followTree", "followRescue"} /\ runs[d.run] # "running"
    /\ Fault
    /\ Settle("superseded")
    /\ UNCHANGED <<disk, pp, passes, again>>

(* No change, and the run's no-code claim or its landed commits explain it.*)
Scoped ==
    /\ pc = "idle"
    /\ result = "none"
    /\ Seen = "ok"
    /\ tree.head = 1
    /\ Settle("scoped")
    /\ UNCHANGED <<disk, pp, faults, passes, again>>

(* No candidate could be submitted: no gate runs.                          *)
CandidateRefused ==
    /\ pc = "gate"
    /\ d.rescues = <<>>
    /\ d.gi = 1
    /\ d.judged = [g \in G |-> NoHead]
    /\ ~Unreadable
    /\ Fault
    /\ Settle("failed")
    /\ UNCHANGED <<disk, pp, passes, again>>

-----------------------------------------------------------------------------
(* Launching and following a run.                                          *)

(* dispatchFix, dispatchRescue: adopt by name, or launch.                  *)
Launch(n) ==
    runs' = IF n \in Launched THEN runs
            ELSE [x \in Launched \cup {n} |-> IF x = n THEN "running" ELSE runs[x]]

(* A run does its work in the checkout and ends, followed or not.  What it *)
(* does after the pipeline reported is read by nobody here.                *)
RunEnds ==
    /\ result = "none"
    /\ \E n \in Held :
       /\ \/ /\ runs' = [runs EXCEPT ![n] = "ended"]
             /\ \/ tree' = [tree EXCEPT !.dirty = FALSE]
                \/ /\ tree.head < MaxHead
                   /\ tree' = [tree EXCEPT !.head = @ + 1, !.dirty = FALSE,
                                           !.chain = @ \cup {tree.head}]
             /\ UNCHANGED faults
          \/ /\ Fault
             /\ \/ runs' = [runs EXCEPT ![n] = "outage"] /\ UNCHANGED tree
                \/ /\ runs' = [runs EXCEPT ![n] = "ended"]
                   /\ tree' = [tree EXCEPT !.dirty = TRUE]
                \/ /\ runs' = [runs EXCEPT ![n] = "ended"]
                   /\ tree.head < MaxHead
                   /\ tree' = [tree EXCEPT !.head = @ + 1, !.dirty = FALSE, !.chain = {1}]
       /\ UNCHANGED <<stamp, progress, pools, rescues, pp, d, pc, result, passes, again>>

(* The worktree is removed by hand or by cleanup.                          *)
CheckoutGone ==
    /\ ~tree.gone
    /\ result = "none"
    /\ Fault
    /\ tree' = [tree EXCEPT !.gone = TRUE]
    /\ UNCHANGED <<runs, stamp, progress, pools, rescues, pp, d, pc, result, passes, again>>

-----------------------------------------------------------------------------
(* roundTrip: one commit-or-discard run for a dirty tree.                  *)

SeedBase == IF d.r > 0 THEN d.rescues[d.r].seed[1] ELSE 0

RoundTripSpent ==
    /\ pc = "tree"
    /\ progress[d.r, 1].pre
    /\ Go("gate", [d EXCEPT !.pre = TRUE, !.gi = 1, !.judged = [g \in G |-> NoHead]])
    /\ UNCHANGED <<disk, pp, result, faults, passes, again>>

RoundTripUnneeded ==
    /\ pc = "tree"
    /\ ~progress[d.r, 1].pre
    /\ d.seen # "dirty"
    /\ Go("gate", [d EXCEPT !.gi = 1, !.judged = [g \in G |-> NoHead]])
    /\ UNCHANGED <<disk, pp, result, faults, passes, again>>

RoundTrip ==
    /\ pc = "tree"
    /\ ~progress[d.r, 1].pre
    /\ d.seen = "dirty"
    /\ LET prior == LoadGateProgress(d.r, 1)
           p == IF prior.saved THEN [prior EXCEPT !.pre = TRUE]
                ELSE [Blank EXCEPT !.saved = TRUE, !.pre = TRUE, !.base = SeedBase,
                                   !.fixes = SeedBase]
       IN  SaveProgress(d.r, 1, p)
    /\ Go("launchTree", [d EXCEPT !.pre = TRUE, !.gi = 1, !.run = TreeName(d.r),
                                  !.judged = [g \in G |-> NoHead]])
    /\ UNCHANGED <<tree, runs, stamp, pools, rescues, result, passes, again>>

LaunchTree ==
    /\ pc = "launchTree"
    /\ \/ /\ Launch(d.run)
          /\ stamp' = d.run
          /\ Go("followTree", d)
          /\ UNCHANGED faults
       \/ /\ Fault
          /\ Go("gate", Leave(d))
          /\ UNCHANGED <<runs, stamp>>
    /\ UNCHANGED <<tree, progress, pools, rescues, pp, result, passes, again>>

(* A run that cannot be followed leaves the tree to be judged as it is.    *)
FollowTree ==
    /\ pc = "followTree"
    /\ \/ /\ runs[d.run] # "running"
          /\ Go("gate", Leave(ReadChanged(d)))
          /\ UNCHANGED faults
       \/ Fault /\ Go("gate", Leave(d))
    /\ UNCHANGED <<disk, pp, result, passes, again>>

-----------------------------------------------------------------------------
(* judge: the gates in order.                                              *)

MutReusable(m, g) == m.judged[g] # NoHead /\ (m.judged[g] = m.head \/ Gates[g].retain)

(* A verdict on an earlier head still counts for a gate that keeps it when *)
(* that head is an ancestor of the tip.                                    *)
Reusable(m, g) ==
    /\ m.judged[g] # NoHead
    /\ m.seen = "ok"
    /\ \/ m.judged[g] = m.head
       \/ Gates[g].retain /\ m.judged[g] \in m.chain

MutBase(g) == IF d.r = 0 THEN SavedOf(d.r, g).fixes ELSE d.rescues[d.r].seed[g]

(* The cycle a gate's allowance counts from: in a rescue pass, what the    *)
(* passes before it used.                                                  *)
Base(g) ==
    IF d.r = 0 THEN 0
    ELSE IF SavedOf(d.r, g).saved THEN SavedOf(d.r, g).base
    ELSE d.rescues[d.r].seed[g]

StartCycle(g) ==
    LET s == SavedOf(d.r, g)
    IN  Max({Base(g), Min({Base(g) + Gates[g].cycles,
                           IF s.saved THEN s.fixes ELSE Base(g)})})

(* The fix of this cycle was decided on and saved, but never launched.     *)
PendingFix(g) ==
    LET s == SavedOf(d.r, g)
    IN  /\ s.fix.state = "saved"
        /\ s.fix.cycle = StartCycle(g)
        /\ s.tries = StartCycle(g) - Base(g) + 1

AllJudged ==
    /\ pc = "gate"
    /\ d.gi > Len(Gates)
    /\ Settle("passed")
    /\ UNCHANGED <<disk, pp, faults, passes, again>>

SkipGate ==
    /\ pc = "gate"
    /\ d.gi \in G
    /\ Reusable(d, d.gi)
    /\ Go("gate", [d EXCEPT !.gi = @ + 1])
    /\ UNCHANGED <<disk, pp, result, faults, passes, again>>

(* Published evidence of a flaky pass of this very head is the verdict.    *)
FromEvidence(g) ==
    LET s == SavedOf(d.r, g)
    IN  s.owed # NoHead /\ s.paid /\ d.seen = "ok" /\ s.owed = d.head

(* A pass kept from before the interruption, of an ancestor of the tip.    *)
FromKept(g) ==
    LET s == SavedOf(d.r, g)
    IN  Gates[g].retain /\ s.kept # NoHead /\ d.seen = "ok"
        /\ s.kept \in d.chain \cup {d.head}

RestorePass ==
    /\ pc = "gate"
    /\ d.gi \in G
    /\ ~Reusable(d, d.gi)
    /\ FromEvidence(d.gi) \/ FromKept(d.gi)
    /\ Go("gate", [d EXCEPT !.gi = @ + 1,
                     !.judged[d.gi] = IF FromEvidence(d.gi) THEN d.head
                                      ELSE SavedOf(d.r, d.gi).kept])
    /\ UNCHANGED <<disk, pp, result, faults, passes, again>>

EnterGate ==
    /\ pc = "gate"
    /\ d.gi \in G
    /\ ~Reusable(d, d.gi)
    /\ ~FromEvidence(d.gi)
    /\ ~FromKept(d.gi)
    /\ LET g == d.gi
           s == SavedOf(d.r, g)
           m == [d EXCEPT !.base = Base(g), !.cycle = StartCycle(g), !.fix = s.fix,
                          !.tries = IF PendingFix(g) THEN s.tries
                                    ELSE Min({s.tries, StartCycle(g) - Base(g)}),
                          !.out = IF PendingFix(g)
                                  THEN IF s.fix.asked THEN "asked" ELSE "failed"
                                  ELSE "none"]
       IN  Go(IF PendingFix(g) THEN "launch" ELSE "judge", m)
    /\ UNCHANGED <<disk, pp, result, faults, passes, again>>

(* judgeOnce.  A person's request for changes that the last fix left       *)
(* unanswered, because the head did not move, is not sent to a fix again.  *)
Unanswered == d.fix.state = "launched" /\ d.fix.from # NoHead /\ d.fix.from = d.head

Judge ==
    /\ pc = "judge"
    /\ \E out \in Outcomes(d.gi) :
          /\ IF out \in Faulty THEN Fault ELSE UNCHANGED faults
          /\ Go(IF out \in Outage THEN "outage" ELSE "verdict",
                [d EXCEPT !.lane = "judge",
                          !.out = IF out = "asked" /\ Unanswered THEN "held" ELSE out])
    /\ UNCHANGED <<disk, pp, result, passes, again>>

(* The evidence of a flaky pass is saved, but cannot be published: the     *)
(* pass waits for a later one.                                             *)
EvidencePending ==
    /\ pc = "verdict"
    /\ d.out = "flaky"
    /\ Fault
    /\ progress' = [progress EXCEPT ![d.r, d.gi] =
                        [@ EXCEPT !.saved = TRUE, !.owed = d.head, !.paid = FALSE,
                                  !.base = d.base, !.fixes = d.cycle, !.fix = d.fix,
                                  !.tries = d.tries + 1, !.kept = NoHead]]
    /\ passes' = passes \cup {<<d.r, d.gi, d.head>>}
    /\ Interrupt
    /\ UNCHANGED <<tree, runs, stamp, pools, rescues, pp, result, again>>

(* cycleDecision.                                                          *)
MayFix(m) == m.out \in {"failed", "asked"} /\ m.cycle - m.base < Gates[m.gi].cycles

DecideFix ==
    /\ pc = "verdict"
    /\ MayFix(d)
    /\ LET m == [d EXCEPT !.tries = @ + 1,
                    !.fix = [state |-> "saved", cycle |-> d.cycle, from |-> d.head,
                             asked |-> d.out = "asked", dead |-> NoName]]
       IN  /\ SaveProgress(d.r, d.gi, Progress(m, d.cycle))
           /\ Go("launch", m)
    /\ UNCHANGED <<tree, runs, stamp, pools, rescues, result, passes, again>>

(* A passed gate is judged; a head that moved since sends the list back to *)
(* its first gate.                                                         *)
PassGate ==
    /\ pc = "verdict"
    /\ d.out \in Passing
    /\ LET g == d.gi
           m == [d EXCEPT !.tries = @ + 1, !.judged[g] = d.head,
                          !.bases[g] = d.base + d.tries + 1]
           p == [Progress(m, d.cycle) EXCEPT
                    !.kept = IF Gates[g].retain THEN d.head ELSE NoHead,
                    !.owed = IF d.out = "flaky" THEN d.head ELSE NoHead,
                    !.paid = (d.out = "flaky")]
           moved == \E x \in G : m.judged[x] # NoHead /\ ~Reusable(m, x)
       IN  /\ SaveProgress(d.r, g, p)
           /\ Go("gate", [Leave(m) EXCEPT !.gi = IF moved THEN 1 ELSE g + 1])
           /\ passes' = passes \cup {<<d.r, g, d.head>>}
    /\ UNCHANGED <<tree, runs, stamp, pools, rescues, result, again>>

Refused(m, out) ==
    Go("refused", [Leave(m) EXCEPT !.bases[m.gi] = m.base + m.tries + 1, !.out = out])

(* The gate refuses.  A request for changes with no cycle left is the      *)
(* approval item's.                                                        *)
RefuseGate ==
    /\ pc = "verdict"
    /\ d.out \notin Passing
    /\ ~MayFix(d)
    /\ LET m == [d EXCEPT !.tries = @ + 1, !.out = IF @ = "asked" THEN "held" ELSE @]
       IN  /\ SaveProgress(d.r, d.gi, Progress(m, d.cycle))
           /\ Refused(d, m.out)
    /\ UNCHANGED <<tree, runs, stamp, pools, rescues, result, passes, again>>

-----------------------------------------------------------------------------
(* fixCycle: launch a fix, follow it, read what it left.                   *)

LaunchFix ==
    /\ pc = "launch"
    /\ LET n == FixName(d.r, d.gi, d.cycle, RetryCount)
           m == [d EXCEPT !.fix.state = "launched", !.run = n]
       IN  /\ Launch(n)
           /\ stamp' = n
           /\ SaveProgress(d.r, d.gi, Progress(m, d.cycle + 1))
           /\ Go("follow", m)
    /\ UNCHANGED <<tree, pools, rescues, result, passes, again>>

LaunchFixRefused ==
    /\ pc = "launch"
    /\ FixName(d.r, d.gi, d.cycle, RetryCount) \notin Launched
    /\ Fault
    /\ \/ \E out \in {"infra", "unroutable"} :
             Go("outage", [d EXCEPT !.lane = "fix", !.out = out])
       \/ Refused(d, "dead")
    /\ UNCHANGED <<disk, pp, result, passes, again>>

(* The fix ended in an outage and moved nothing: its cycle is not charged. *)
FixMovedNothing(m) ==
    runs[d.run] = "outage" /\ m.head # NoHead /\ d.fix.from # NoHead /\ m.head = d.fix.from

FixEnded ==
    /\ pc = "follow"
    /\ runs[d.run] # "running"
    /\ LET m == ReadChanged(d)
           restart == /\ Gates[d.gi].kind = "human"
                      /\ d.fix.asked
                      /\ m.head # NoHead /\ d.fix.from # NoHead
                      /\ m.head # d.fix.from
       IN  IF FixMovedNothing(m)
           THEN LET o == [m EXCEPT !.fix.state = "saved", !.fix.dead = d.run,
                                   !.lane = "fix", !.out = "infra"]
                IN  /\ SaveProgress(d.r, d.gi, Progress(o, d.cycle))
                    /\ Go("outage", o)
           ELSE /\ SaveProgress(d.r, d.gi, Progress(m, d.cycle + 1))
                /\ IF restart
                   THEN Go("gate", [Leave(m) EXCEPT !.bases[d.gi] = d.base + d.tries, !.gi = 1])
                   ELSE Go("judge", [m EXCEPT !.cycle = @ + 1, !.out = "none", !.run = NoName])
    /\ UNCHANGED <<tree, runs, stamp, pools, rescues, result, passes, again>>

(* The await's deadline passes, or the run's record cannot be followed.    *)
FixLost ==
    /\ pc = "follow"
    /\ Fault
    /\ \E out \in {"dead", "silent"} : Refused(d, out)
    /\ UNCHANGED <<disk, pp, result, passes, again>>

-----------------------------------------------------------------------------
(* spendOutage: what an outage costs, and what it buys.                    *)

ReviewLane == d.lane = "judge" /\ Gates[d.gi].kind = "review"

Ladder == ReviewLane /\ Gates[d.gi].ladder > 0

Dispatched == d.out # "cooldown"

PoolSpent == d.pools.spent - MapThenSumSet(LAMBDA g : d.pools.ladder[g], G)

Headroom ==
    /\ ~d.blind
    /\ IF Ladder THEN d.pools.ladder[d.gi] < Gates[d.gi].ladder
       ELSE PoolSpent < RetryCap

Charged(p) ==
    IF Dispatched
    THEN [p EXCEPT !.spent = @ + 1, !.ladder[d.gi] = IF Ladder THEN @ + 1 ELSE @]
    ELSE p

MayFallBack == ReviewLane /\ Gates[d.gi].fallback /\ d.gi \notin d.pools.routed

Redo == CASE d.lane = "judge" -> "judge" [] d.lane = "fix" -> "launch" [] d.lane = "rescue" -> "rescue"

MutPayOutage ==
    /\ pc = "outage"
    /\ ~Dispatched \/ Headroom
    /\ \/ Go(Redo, [d EXCEPT !.pools = Charged(d.pools), !.run = NoName, !.out = "none"])
       \/ Interrupt
    /\ again' = IF Dispatched THEN again + 1 ELSE again
    /\ UNCHANGED <<disk, pp, result, faults, passes>>

(* The charge is saved before anything is dispatched again.  A stop or a   *)
(* long pause then ends the pass; the next one takes what was charged.     *)
PayOutage ==
    /\ pc = "outage"
    /\ d.out # "unroutable"
    /\ ~Dispatched \/ Headroom
    /\ \E route \in BOOLEAN :
          /\ route => MayFallBack
          /\ LET next == [Charged(d.pools) EXCEPT
                             !.routed = IF route THEN @ \cup {d.gi} ELSE @]
             IN  /\ pools' = IF d.blind THEN pools ELSE next
                 /\ \/ Go(Redo, [d EXCEPT !.pools = next, !.run = NoName,
                                   !.out = IF d.lane = "judge" THEN "none" ELSE "failed"])
                    \/ Interrupt
    /\ again' = IF Dispatched THEN again + 1 ELSE again
    /\ UNCHANGED <<tree, runs, stamp, progress, rescues, pp, result, faults, passes>>

(* No headroom, a pause past its cap, or a charge that could not be saved. *)
RefuseOutage ==
    /\ pc = "outage"
    /\ \/ /\ d.out \in {"unroutable", "reset", "cooldown"} \/ ~Headroom
          /\ UNCHANGED faults
       \/ Fault
    /\ IF d.lane = "rescue"
       THEN /\ Go("rescueFailed", [d EXCEPT !.out = d.rescues[d.r].out])
            /\ UNCHANGED <<pp, progress>>
       ELSE /\ Refused(d, d.out)
            /\ IF d.lane = "judge"
               THEN pp' = [pp EXCEPT ![d.r, d.gi] =
                              Progress([d EXCEPT !.tries = @ + 1], d.cycle)]
                    /\ progress' = [progress EXCEPT ![d.r, d.gi] = pp'[d.r, d.gi]]
               ELSE UNCHANGED <<pp, progress>>
    /\ UNCHANGED <<tree, runs, stamp, pools, rescues, result, passes, again>>

-----------------------------------------------------------------------------
(* Rescue attempts, and the end.                                           *)

Rescuable == d.seen # "gone" /\ d.out \in {"failed", "dead"}

(* saveRescues: like progress, a failed save is only logged.               *)
SaveRescues(m) ==
    \/ rescues' = m.rescues /\ UNCHANGED faults
    \/ Fault /\ UNCHANGED rescues

StartRescue ==
    /\ pc = "refused"
    /\ Rescuable
    /\ Len(d.rescues) < RescueAttempts
    /\ LET e == [gate |-> d.gi, out |-> d.out, seed |-> d.bases, launched |-> FALSE,
                 done |-> FALSE, error |-> FALSE]
           m == [d EXCEPT !.rescues = Append(@, e), !.r = Len(d.rescues) + 1]
       IN  SaveRescues(m) /\ Go("rescue", Leave(m))
    /\ UNCHANGED <<tree, runs, stamp, progress, pools, pp, result, passes, again>>

LaunchRescue ==
    /\ pc = "rescue"
    /\ LET n == RescueName(d.r, RetryCount)
           m == [d EXCEPT !.rescues[d.r].launched = TRUE, !.run = n]
       IN  Launch(n) /\ SaveRescues(m) /\ Go("followRescue", m)
    /\ UNCHANGED <<tree, stamp, progress, pools, pp, result, passes, again>>

LaunchRescueRefused ==
    /\ pc = "rescue"
    /\ RescueName(d.r, RetryCount) \notin Launched
    /\ Fault
    /\ \/ \E out \in {"infra", "unroutable"} :
             Go("outage", [d EXCEPT !.lane = "rescue", !.out = out])
       \/ Go("rescueFailed", d)
    /\ UNCHANGED <<disk, pp, result, passes, again>>

RescueEnded ==
    /\ pc = "followRescue"
    /\ runs[d.run] # "running"
    /\ IF runs[d.run] = "outage"
       THEN /\ Go("outage", [d EXCEPT !.lane = "rescue", !.out = "infra"])
            /\ UNCHANGED <<rescues, faults>>
       ELSE LET m == [ReadChanged(d) EXCEPT !.rescues[d.r].done = TRUE]
            IN  SaveRescues(m) /\ Go("tree", Leave(m))
    /\ UNCHANGED <<tree, runs, stamp, progress, pools, pp, result, passes, again>>

RescueLost ==
    /\ pc = "followRescue"
    /\ Fault
    /\ Go("rescueFailed", d)
    /\ UNCHANGED <<disk, pp, result, passes, again>>

(* The refusal the rescue was handed goes to a person.                     *)
RescueFailed ==
    /\ pc \in {"rescueFailed", "stranded"}
    /\ LET e == d.rescues[d.r]
           m == [d EXCEPT !.rescues[d.r].done = TRUE, !.rescues[d.r].error = TRUE,
                          !.out = e.out, !.gi = e.gate]
       IN  SaveRescues(m) /\ Go("escalate", m)
    /\ UNCHANGED <<tree, runs, stamp, progress, pools, pp, result, passes, again>>

NoRescue ==
    /\ pc = "refused"
    /\ ~Rescuable \/ Len(d.rescues) >= RescueAttempts
    /\ Go("escalate", d)
    /\ UNCHANGED <<disk, pp, result, faults, passes, again>>

(* The escalation is filed, or was by the gate itself; where filing fails  *)
(* the result carries what a retry needs.                                  *)
Escalate ==
    /\ pc = "escalate"
    /\ \/ /\ Settle(IF d.out = "blocked" THEN "blocked" ELSE "failed")
          /\ UNCHANGED faults
       \/ /\ d.out \notin {"held", "blocked"}
          /\ Fault
          /\ Settle("unfiled")
    /\ UNCHANGED <<disk, pp, passes, again>>

Next ==
    \/ Begin \/ BeginInterrupted \/ Superseded \/ Scoped \/ CandidateRefused
    \/ RunEnds \/ CheckoutGone
    \/ RoundTripSpent \/ RoundTripUnneeded \/ RoundTrip \/ LaunchTree \/ FollowTree
    \/ AllJudged \/ SkipGate \/ RestorePass \/ EnterGate \/ Judge \/ EvidencePending
    \/ DecideFix \/ PassGate \/ RefuseGate
    \/ LaunchFix \/ LaunchFixRefused \/ FixEnded \/ FixLost
    \/ PayOutage \/ RefuseOutage
    \/ StartRescue \/ LaunchRescue \/ LaunchRescueRefused \/ RescueEnded \/ RescueLost
    \/ RescueFailed \/ NoRescue \/ Escalate

Spec == Init /\ [][Next]_vars

-----------------------------------------------------------------------------
(* Properties.                                                             *)

(* A pipeline reported passed was passed by every gate, in the rescue pass *)
(* it ended in, at the head it reports; a command gate that keeps its      *)
(* verdict may have passed an ancestor of that head instead.               *)
PassedOfTip ==
    result = "passed" =>
        \A g \in G : \E h \in Heads :
            /\ <<d.r, g, h>> \in passes
            /\ h = d.head \/ (Gates[g].retain /\ h \in d.chain)

(* Interruptions, restarts from the first gate, outages and lost saves     *)
(* never buy a gate more fix cycles than it declares for a rescue pass.    *)
FixesBounded ==
    \A r \in R, g \in G :
        Cardinality({n.c : n \in {x \in Launched :
                        x.lane = "fix" /\ x.r = r /\ x.g = g}}) <= Gates[g].cycles

(* What is dispatched again after outages never exceeds the pools, however *)
(* the pass is interrupted between the charge and the dispatch.            *)
OutagesPaid ==
    again <= RetryCap + MapThenSumSet(LAMBDA g : Gates[g].ladder, G)

=============================================================================
