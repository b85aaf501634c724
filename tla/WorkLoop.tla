----------------------------- MODULE WorkLoop -----------------------------
(***************************************************************************)
(* The work loop: workers on one box that share the run records, the       *)
(* pipeline leases and the stage journals.  A worker dispatches an item;   *)
(* the run's own supervisor closes its record in two writes, a provisional *)
(* outcome and the verified one (agent-dispatch-runner.runJob); a worker   *)
(* harvests the run (work-loop.runHarvest, spor.pollWorkRuns), reconciling *)
(* one whose supervisor died and stopping one that fell silent; and a run  *)
(* that claims completion is driven through the gates under a lease, by    *)
(* the worker that harvested it or by one that adopts what another left.   *)
(* What the gates do is GatePipeline's; here a drive ends in a verdict, a  *)
(* yield, an exception or the loss of its lease.                           *)
(*                                                                         *)
(* A whole-record write is one step: every writer holds the record's lock. *)
(***************************************************************************)
EXTENDS Naturals, FiniteSets

CONSTANTS
    Workers, Items,
    NoWorker,     \* a lease's owner once its process is gone
    NoItem,
    MaxRuns,      \* bound: runs dispatched
    Concurrency,  \* slots of a worker
    ReofferMax,   \* yields before a parked pipeline is escalated
    Completions,  \* who writes the completion, "agent" or "controller", as the factory says
    MaxFaults     \* bound: crashes, lost leases, refused writes, unread graphs

ASSUME ConstantsAssumption ==
    /\ IsFiniteSet(Workers) /\ NoWorker \notin Workers
    /\ IsFiniteSet(Items) /\ NoItem \notin Items
    /\ MaxRuns \in Nat \ {0} /\ Concurrency \in Nat \ {0}
    /\ ReofferMax \in Nat \ {0} /\ MaxFaults \in Nat
    /\ Completions \subseteq {"agent", "controller"} /\ Completions # {}

Runs == 1..MaxRuns

VARIABLES
    completion,  \* the factory's completion.by
    resolved,    \* the items the graph reads as resolved
    rec,         \* the run records on disk
    sup,         \* the supervisor of each run: where it is and what the contract answered
    lease,       \* each run's pipeline lease, folded from its log
    journal,     \* each run's stage journals: the verdict decided, the yields, the timer
    up,          \* the worker processes
    active,      \* the runs a worker follows
    look,        \* the run a worker has asked the graph about, and what it read
    cand,        \* the item a worker picked from the queue page it read
    job,         \* a worker's gate jobs
    faults

vars == <<completion, resolved, rec, sup, lease, journal, up, active, look, cand, job, faults>>

NoLook == [run |-> 0, why |-> "none", claim |-> "none", found |-> FALSE]
NoJob == [pc |-> "none", escalate |-> FALSE, token |-> 0, result |-> "none"]
NoRecord == [item |-> NoItem, state |-> "none", claim |-> "none", enforced |-> FALSE,
             pending |-> FALSE, aged |-> FALSE, gate |-> "none"]

Init ==
    /\ completion \in Completions
    /\ resolved = {}
    /\ rec = [r \in Runs |-> NoRecord]
    /\ sup = [r \in Runs |-> [pc |-> "none", claim |-> "none", enforced |-> FALSE]]
    /\ lease = [r \in Runs |-> [token |-> 0, owner |-> NoWorker, released |-> FALSE, lapsed |-> FALSE]]
    /\ journal = [r \in Runs |-> [opened |-> FALSE, decided |-> "none", parked |-> FALSE,
                                due |-> FALSE, yields |-> 0]]
    /\ up = [w \in Workers |-> TRUE]
    /\ active = [w \in Workers |-> {}]
    /\ look = [w \in Workers |-> NoLook]
    /\ cand = [w \in Workers |-> NoItem]
    /\ job = [w \in Workers |-> [r \in Runs |-> NoJob]]
    /\ faults = 0

Fault == faults < MaxFaults /\ faults' = faults + 1

Running(r) == rec[r].state = "running"
Ended(r) == rec[r].state = "ended"
Settled(r) == rec[r].gate # "none"
Gating(w) == {r \in Runs : job[w][r].pc # "none"}
Free(w) == Cardinality(active[w]) + Cardinality(Gating(w)) < Concurrency
\* A pass is one sequence: it takes its next step when the graph has answered.
AtHand(w) == up[w] /\ look[w] = NoLook /\ cand[w] = NoItem

ShouldGate(claim, enforced) ==
    /\ claim \notin {"none", "declined"}
    /\ \/ completion = "controller"
       \/ claim = "resolved"
       \/ claim = "reported" /\ ~enforced

LeaseHeld(r) ==
    /\ lease[r].token > 0 /\ ~lease[r].released /\ ~lease[r].lapsed
    /\ lease[r].owner # NoWorker
OwnsRecord(w, r) == lease[r].token = job[w][r].token

-----------------------------------------------------------------------------
(* The run and its supervisor. *)

\* The queue page, minus what is in flight, gating or open on this box.
Candidate(w, i) ==
    /\ AtHand(w) /\ Free(w)
    /\ i \notin resolved
    /\ ~\E r \in Runs : Running(r) /\ rec[r].item = i /\ sup[r].pc = "up"
    /\ ~\E v \in Workers, r \in Runs : up[v] /\ r \in Gating(v) /\ rec[r].item = i
    /\ ~\E r \in Runs : rec[r].item = i /\ journal[r].opened /\ ~Settled(r)
    /\ i \notin {rec[r].item : r \in active[w]}
    /\ \E r \in Runs : rec[r].state = "none"
    /\ cand' = [cand EXCEPT ![w] = i]
    /\ UNCHANGED <<completion, resolved, rec, sup, lease, journal, up, active, look, job, faults>>

\* The dispatch looks for a live agent again, under the item's dispatch lock.
Dispatch(w) ==
    LET r == CHOOSE n \in Runs : rec[n].state = "none" /\ \A m \in 1..(n - 1) : rec[m].state # "none"
        busy == \E n \in Runs : Running(n) /\ rec[n].item = cand[w] /\ sup[n].pc = "up"
    IN
    /\ up[w] /\ cand[w] # NoItem
    /\ cand' = [cand EXCEPT ![w] = NoItem]
    /\ \/ /\ busy \/ ~\E n \in Runs : rec[n].state = "none"
          /\ UNCHANGED <<rec, sup, active>>
       \/ /\ ~busy /\ \E n \in Runs : rec[n].state = "none"
          /\ rec' = [rec EXCEPT ![r] = [NoRecord EXCEPT !.item = cand[w], !.state = "running"]]
          /\ sup' = [sup EXCEPT ![r].pc = "up"]
          /\ active' = [active EXCEPT ![w] = @ \cup {r}]
    /\ UNCHANGED <<completion, resolved, lease, journal, up, look, job, faults>>

\* The agent writes its resolver.  It outlives a supervisor that was killed.
Resolve(r) ==
    /\ completion = "agent" /\ sup[r].pc \in {"up", "orphan"}
    /\ resolved' = resolved \cup {rec[r].item}
    /\ UNCHANGED <<completion, rec, sup, lease, journal, up, active, look, cand, job, faults>>

MutCarryGateFields(r, next) == next

\* A supervisor writes the whole record from its own memory, which holds no
\* gate field: those on disk are carried into what it writes.
CarryGateFields(r, next) == [next EXCEPT !.gate = rec[r].gate]

WriteRecord(r, claim, enforced, pending) ==
    rec' = [rec EXCEPT ![r] = CarryGateFields(r,
                [NoRecord EXCEPT !.item = rec[r].item, !.state = "ended", !.claim = claim,
                                 !.enforced = enforced, !.pending = pending])]

\* What the process says by itself: unenforced, the provisional outcome.
Unenforced(how) == CASE how = "declined" -> "declined"
                     [] how = "done" -> "reported"
                     [] how = "failed" -> "failed"

CloseProvisional(r, how) ==
    /\ sup[r].pc = "up"
    /\ sup' = [sup EXCEPT ![r] = [pc |-> "closed", claim |-> how, enforced |-> FALSE]]
    /\ WriteRecord(r, Unenforced(how), FALSE, TRUE)
    /\ UNCHANGED <<completion, resolved, lease, journal, up, active, look, cand, job, faults>>

\* The contract reads the item; a graph that cannot be read verifies nothing.
ApplyContract(r) ==
    LET how == sup[r].claim IN
    /\ sup[r].pc = "closed"
    /\ \/ /\ sup' = [sup EXCEPT ![r] =
                [pc |-> "answered", enforced |-> TRUE,
                 claim |-> IF rec[r].item \in resolved THEN "resolved" ELSE Unenforced(how)]]
          /\ UNCHANGED faults
       \/ /\ Fault
          /\ sup' = [sup EXCEPT ![r] = [pc |-> "answered", enforced |-> FALSE, claim |-> Unenforced(how)]]
    /\ UNCHANGED <<completion, resolved, rec, lease, journal, up, active, look, cand, job>>

CloseFinal(r) ==
    /\ sup[r].pc = "answered"
    /\ sup' = [sup EXCEPT ![r].pc = "finished"]
    /\ WriteRecord(r, sup[r].claim, sup[r].enforced, FALSE)
    /\ UNCHANGED <<completion, resolved, lease, journal, up, active, look, cand, job, faults>>

\* The supervisor is killed, or its final write cannot be made.
SupervisorDies(r) ==
    /\ sup[r].pc \in {"up", "closed", "answered"} /\ Fault
    /\ sup' = [sup EXCEPT ![r].pc = IF sup[r].pc = "up" THEN "orphan" ELSE "dead"]
    /\ UNCHANGED <<completion, resolved, rec, lease, journal, up, active, look, cand, job>>

\* The run passes the worker's ceiling (--run-max).
Age(r) ==
    /\ Running(r) /\ ~rec[r].aged
    /\ rec' = [rec EXCEPT ![r].aged = TRUE]
    /\ UNCHANGED <<completion, resolved, sup, lease, journal, up, active, look, cand, job, faults>>

-----------------------------------------------------------------------------
(* The harvest. *)

\* A derived outcome is written only over a record that has not ended.
CloseRun(r, claim, enforced) ==
    IF Running(r)
    THEN [rec EXCEPT ![r].state = "ended", ![r].claim = claim, ![r].enforced = enforced]
    ELSE rec

\* Every poll of a worker that follows a run closes the dead ones it finds.
Reconcile(w, r) ==
    /\ AtHand(w) /\ active[w] # {}
    /\ Running(r) /\ sup[r].pc = "orphan"
    /\ rec' = CloseRun(r, "failed", FALSE)
    /\ sup' = [sup EXCEPT ![r].pc = "dead"]
    /\ UNCHANGED <<completion, resolved, lease, journal, up, active, look, cand, job, faults>>

\* The outcome a harvest reads off the record decides whether it is gated.
Harvested(w, r, claim, enforced) ==
    /\ active' = [active EXCEPT ![w] = @ \ {r}]
    /\ job' = IF ShouldGate(claim, enforced)
              THEN [job EXCEPT ![w][r] = [NoJob EXCEPT !.pc = "claim"]] ELSE job

Harvest(w, r) ==
    /\ AtHand(w) /\ r \in active[w] /\ Ended(r)
    /\ ~rec[r].pending \/ rec[r].claim = "resolved"
    /\ Harvested(w, r, rec[r].claim, rec[r].enforced)
    /\ UNCHANGED <<completion, resolved, rec, sup, lease, journal, up, look, cand, faults>>

\* A provisional outcome past its grace, or whose supervisor is gone, is asked
\* about before it is believed; so is a run that fell silent.
Looking(r) ==
    \/ Ended(r) /\ rec[r].pending /\ rec[r].claim # "resolved"
    \/ Running(r) /\ sup[r].pc = "up"

Look(w, r) ==
    /\ AtHand(w) /\ r \in active[w] /\ Looking(r)
    /\ \E found \in {rec[r].item \in resolved, FALSE} :
          /\ look' = [look EXCEPT ![w] = [run |-> r, found |-> found, claim |-> rec[r].claim,
                                          why |-> IF Ended(r) THEN "pending" ELSE "idle"]]
          /\ IF Running(r) \/ (~found /\ rec[r].item \in resolved) THEN Fault ELSE UNCHANGED faults
    /\ UNCHANGED <<completion, resolved, rec, sup, lease, journal, up, active, cand, job>>

MutSettledContract(r, found) ==
    IF found THEN [rec EXCEPT ![r].claim = "resolved", ![r].enforced = TRUE, ![r].pending = FALSE]
    ELSE rec

\* Only a positive reading is written, and only while the record is pending; with
\* none the harvest keeps the outcome it read before it asked.
SettledContract(r, found) ==
    IF found /\ rec[r].pending
    THEN [rec EXCEPT ![r].claim = "resolved", ![r].enforced = TRUE, ![r].pending = FALSE]
    ELSE rec

SettleContract(w) ==
    LET r == look[w].run IN
    /\ up[w] /\ look[w].why = "pending"
    /\ rec' = SettledContract(r, look[w].found)
    /\ IF look[w].found THEN Harvested(w, r, rec'[r].claim, rec'[r].enforced)
       ELSE Harvested(w, r, look[w].claim, FALSE)
    /\ look' = [look EXCEPT ![w] = NoLook]
    /\ UNCHANGED <<completion, resolved, sup, lease, journal, up, cand, faults>>

\* The silent run is stopped, then its record closed with what was read before;
\* a process may survive the signals.
StopIdle(w) ==
    LET r == look[w].run IN
    /\ up[w] /\ look[w].why = "idle"
    /\ rec' = CloseRun(r, IF look[w].found THEN "resolved" ELSE "failed", look[w].found)
    /\ \/ sup' = [sup EXCEPT ![r].pc = IF sup[r].pc = "finished" THEN "finished" ELSE "dead"]
       \/ UNCHANGED sup
    /\ Harvested(w, r, rec'[r].claim, rec'[r].enforced)
    /\ look' = [look EXCEPT ![w] = NoLook]
    /\ UNCHANGED <<completion, resolved, lease, journal, up, cand, faults>>

\* The watchdog stops following a run and says nothing about it.
GiveUp(w, r) ==
    /\ AtHand(w) /\ r \in active[w] /\ Running(r) /\ rec[r].aged
    /\ active' = [active EXCEPT ![w] = @ \ {r}]
    /\ UNCHANGED <<completion, resolved, rec, sup, lease, journal, up, look, cand, job, faults>>

-----------------------------------------------------------------------------
(* The gate pipeline of a run. *)

MutOpenPipeline(w, r) ==
    /\ Ended(r) /\ ~Settled(r) /\ ShouldGate(rec[r].claim, rec[r].enforced)
    /\ ~\E n \in Runs : Running(n) /\ ~rec[n].aged /\ rec[n].item = rec[r].item
    /\ lease[r].token > 0 /\ ~LeaseHeld(r)
    /\ journal[r].parked => journal[r].due
    /\ rec[r].item \notin {rec[n].item : n \in active[w] \cup Gating(w)}

\* A run that is owed its gates, that nobody drives and whose timer is due.
OpenPipeline(w, r) ==
    /\ Ended(r) /\ ~Settled(r) /\ ShouldGate(rec[r].claim, rec[r].enforced)
    /\ ~\E n \in Runs : Running(n) /\ ~rec[n].aged /\ rec[n].item = rec[r].item
    /\ ~LeaseHeld(r)
    /\ lease[r].token = 0 => ~\E v \in Workers : up[v] /\ r \in active[v] \cup Gating(v)
    /\ journal[r].parked => journal[r].due
    /\ rec[r].item \notin {rec[n].item : n \in active[w] \cup Gating(w)}

Adopt(w, r) ==
    /\ AtHand(w) /\ Free(w) /\ OpenPipeline(w, r)
    /\ job' = [job EXCEPT ![w][r] =
                 [NoJob EXCEPT !.pc = "claim",
                               !.escalate = journal[r].parked /\ journal[r].yields >= ReofferMax]]
    /\ UNCHANGED <<completion, resolved, rec, sup, lease, journal, up, active, look, cand, faults>>

Done(w, r, result) == job' = [job EXCEPT ![w][r].pc = "done", ![w][r].result = result]

Refused(w, r) == Settled(r) \/ (LeaseHeld(r) /\ lease[r].owner # w)

ClaimPipeline(w, r) ==
    /\ job[w][r].pc = "claim"
    /\ \/ /\ Refused(w, r)
          /\ Done(w, r, IF job[w][r].escalate THEN "interrupted" ELSE "superseded")
          /\ UNCHANGED lease
       \/ /\ ~Refused(w, r)
          /\ lease' = [lease EXCEPT ![r] = [token |-> lease[r].token + 1, owner |-> w,
                                            released |-> FALSE, lapsed |-> FALSE]]
          /\ job' = [job EXCEPT ![w][r].token = lease[r].token + 1,
                                ![w][r].pc = IF job[w][r].escalate THEN "file" ELSE "drive"]
    /\ journal' = [journal EXCEPT ![r].opened = @ \/ job'[w][r].pc = "drive"]
    /\ UNCHANGED <<completion, resolved, rec, sup, up, active, look, cand, faults>>

\* The stages run to their end; the verdict is journaled, and a refusal has
\* taken the item's completion back.  A replayed journal decides what it did.
Decide(w, r, verdict) ==
    /\ job[w][r].pc = "drive" /\ OwnsRecord(w, r)
    /\ journal[r].decided \in {"none", verdict}
    /\ journal' = [journal EXCEPT ![r].decided = verdict, ![r].parked = FALSE]
    /\ resolved' = IF verdict = "failed" THEN resolved \ {rec[r].item} ELSE resolved
    /\ job' = [job EXCEPT ![w][r].pc = "decided"]
    /\ UNCHANGED <<completion, rec, sup, lease, up, active, look, cand, faults>>

\* settleRunRecord: the verdict lands while the token is still the lease's.
SettleRunRecord(w, r) ==
    /\ job[w][r].pc = "decided"
    /\ \/ /\ OwnsRecord(w, r)
          /\ rec' = [rec EXCEPT ![r].gate = journal[r].decided]
          /\ Done(w, r, "settled")
       \/ /\ ~OwnsRecord(w, r)
          /\ Done(w, r, "superseded")
          /\ UNCHANGED rec
    /\ UNCHANGED <<completion, resolved, sup, lease, journal, up, active, look, cand, faults>>

Yield(w, r) ==
    /\ job[w][r].pc = "drive" /\ OwnsRecord(w, r) /\ journal[r].decided = "none"
    /\ journal' = [journal EXCEPT ![r].parked = TRUE, ![r].due = FALSE, ![r].yields = @ + 1]
    /\ job' = [job EXCEPT ![w][r].pc = "yielded"]
    /\ UNCHANGED <<completion, resolved, rec, sup, lease, up, active, look, cand, faults>>

ReleasePipeline(w, r) ==
    /\ job[w][r].pc = "yielded"
    /\ lease' = IF OwnsRecord(w, r) THEN [lease EXCEPT ![r].released = TRUE] ELSE lease
    /\ Done(w, r, "interrupted")
    /\ UNCHANGED <<completion, resolved, rec, sup, journal, up, active, look, cand, faults>>

\* Another driver claimed the pipeline: the next write finds out and writes nothing.
OwnerLost(w, r) ==
    /\ job[w][r].pc = "drive" /\ ~OwnsRecord(w, r)
    /\ Done(w, r, "superseded")
    /\ UNCHANGED <<completion, resolved, rec, sup, lease, journal, up, active, look, cand, faults>>

Throw(w, r) ==
    /\ job[w][r].pc \in {"claim", "drive", "decided", "file"} /\ Fault
    /\ IF job[w][r].pc = "file"
       THEN /\ lease' = IF OwnsRecord(w, r) THEN [lease EXCEPT ![r].released = TRUE] ELSE lease
            /\ Done(w, r, "interrupted")
       ELSE Done(w, r, IF job[w][r].escalate THEN "interrupted" ELSE "threw") /\ UNCHANGED lease
    /\ UNCHANGED <<completion, resolved, rec, sup, journal, up, active, look, cand>>

\* The re-offer cap's escalation: a blocking item is filed and the target demoted.
FileEscalation(w, r) ==
    /\ job[w][r].pc = "file"
    /\ resolved' = resolved \ {rec[r].item}
    /\ Done(w, r, "filed")
    /\ UNCHANGED <<completion, rec, sup, lease, journal, up, active, look, cand, faults>>

\* The loop's own stamp: under its token, or over a run nobody ever claimed, and
\* never over a verdict.
StampLoopVerdict(w, r, verdict) ==
    IF Settled(r) \/ ~OwnsRecord(w, r) THEN rec ELSE [rec EXCEPT ![r].gate = verdict]

SettleGates(w, r) ==
    /\ up[w] /\ job[w][r].pc = "done"
    /\ rec' = CASE job[w][r].result = "threw" -> StampLoopVerdict(w, r, "failed")
                [] job[w][r].result = "filed" -> StampLoopVerdict(w, r, "blocked")
                [] OTHER -> rec
    /\ job' = [job EXCEPT ![w][r] = NoJob]
    /\ UNCHANGED <<completion, resolved, sup, lease, journal, up, active, look, cand, faults>>

\* A parked journal's timer comes due.
Due(r) ==
    /\ journal[r].parked /\ ~journal[r].due
    /\ journal' = [journal EXCEPT ![r].due = TRUE]
    /\ UNCHANGED <<completion, resolved, rec, sup, lease, up, active, look, cand, job, faults>>

\* A worker stalls past the lease's horizon; a renewal does not look at it.
Lapse(r) ==
    /\ LeaseHeld(r) /\ Fault
    /\ lease' = [lease EXCEPT ![r].lapsed = TRUE]
    /\ UNCHANGED <<completion, resolved, rec, sup, journal, up, active, look, cand, job>>

RenewPipeline(w, r) ==
    /\ job[w][r].pc \in {"drive", "decided"} /\ OwnsRecord(w, r) /\ lease[r].lapsed
    /\ lease' = [lease EXCEPT ![r].lapsed = FALSE]
    /\ UNCHANGED <<completion, resolved, rec, sup, journal, up, active, look, cand, job, faults>>

Crash(w) ==
    /\ up[w] /\ Fault
    /\ up' = [up EXCEPT ![w] = FALSE]
    /\ active' = [active EXCEPT ![w] = {}]
    /\ look' = [look EXCEPT ![w] = NoLook]
    /\ cand' = [cand EXCEPT ![w] = NoItem]
    /\ job' = [job EXCEPT ![w] = [r \in Runs |-> NoJob]]
    /\ lease' = [r \in Runs |-> IF lease[r].owner = w
                                THEN [lease[r] EXCEPT !.owner = NoWorker] ELSE lease[r]]
    /\ UNCHANGED <<completion, resolved, rec, sup, journal>>

Restart(w) ==
    /\ ~up[w]
    /\ up' = [up EXCEPT ![w] = TRUE]
    /\ UNCHANGED <<completion, resolved, rec, sup, lease, journal, active, look, cand, job, faults>>

-----------------------------------------------------------------------------

Supervise(r) ==
    \/ \E how \in {"done", "failed", "declined"} : CloseProvisional(r, how)
    \/ ApplyContract(r)
    \/ CloseFinal(r)

Pass(w) ==
    \/ Dispatch(w)
    \/ SettleContract(w)
    \/ StopIdle(w)
    \/ \E r \in Runs : Reconcile(w, r) \/ Harvest(w, r) \/ GiveUp(w, r) \/ Adopt(w, r)

Drive(w, r) ==
    \/ ClaimPipeline(w, r)
    \/ \E verdict \in {"passed", "failed"} : Decide(w, r, verdict)
    \/ SettleRunRecord(w, r)
    \/ Yield(w, r)
    \/ ReleasePipeline(w, r)
    \/ OwnerLost(w, r)
    \/ FileEscalation(w, r)
    \/ SettleGates(w, r)

Next ==
    \/ \E r \in Runs : Resolve(r) \/ Supervise(r) \/ SupervisorDies(r) \/ Age(r) \/ Due(r) \/ Lapse(r)
    \/ \E w \in Workers :
          \/ \E i \in Items : Candidate(w, i)
          \/ Pass(w)
          \/ Crash(w)
          \/ Restart(w)
          \/ \E r \in Runs : Look(w, r) \/ Drive(w, r) \/ Throw(w, r) \/ RenewPipeline(w, r)

Fairness ==
    /\ \A r \in Runs : WF_vars(Supervise(r)) /\ WF_vars(Age(r)) /\ WF_vars(Due(r))
    /\ \A w \in Workers : /\ WF_vars(Pass(w)) /\ WF_vars(Restart(w))
                          /\ \A r \in Runs : WF_vars(Drive(w, r)) /\ WF_vars(Look(w, r))

Spec == Init /\ [][Next]_vars /\ Fairness

-----------------------------------------------------------------------------

TypeOK ==
    /\ resolved \subseteq Items /\ completion \in Completions
    /\ \A r \in Runs :
          /\ rec[r].item \in Items \cup {NoItem}
          /\ rec[r].state \in {"none", "running", "ended"}
          /\ rec[r].claim \in {"none", "resolved", "reported", "failed", "declined"}
          /\ rec[r].gate \in {"none", "passed", "failed", "blocked"}
          /\ lease[r].owner \in Workers \cup {NoWorker}
          /\ sup[r].pc \in {"none", "up", "orphan", "closed", "answered", "finished", "dead"}
    /\ \A w \in Workers : active[w] \subseteq Runs /\ look[w].run \in Runs \cup {0}

\* A settled verdict is final: a supervisor that lands its verified outcome late,
\* a driver displaced while it judged and the loop's own stamp of a drive that
\* threw leave the verdict another driver recorded as it is.
VerdictFrozen == [][\A r \in Runs : Settled(r) => rec'[r].gate = rec[r].gate]_vars

\* What a supervisor observed stands: a worker that read the graph before the
\* supervisor's final write, one that stopped the run as silent and one that
\* found the supervisor dead write nothing over it.
ObservedWins ==
    [][\A r \in Runs : sup[r].pc = "finished"
          => rec'[r].claim = rec[r].claim /\ rec'[r].enforced = rec[r].enforced]_vars

\* A run that ended with a claim to test is judged, or stops claiming: whatever
\* worker died with it, however often its pipeline yields, some worker takes it up
\* and records a verdict.
OwedSettles ==
    \A r \in Runs : []<>~(Ended(r) /\ ~Settled(r) /\ ShouldGate(rec[r].claim, rec[r].enforced))

=============================================================================
