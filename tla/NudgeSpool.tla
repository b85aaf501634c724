---------------------------- MODULE NudgeSpool ----------------------------
(***************************************************************************)
(* The spool of one background classification: post-tool writes a job,     *)
(* a detached worker (util.runSpoolWorker) turns it into a result, and     *)
(* concurrent hook processes drain what is there.  A prompt-time drain     *)
(* (spool-drain.drainPendingNudges) shows a finding to the session and     *)
(* re-drives a job whose worker never answered; a session-end drain, which *)
(* is also what the collector and the sweeper run on another session's     *)
(* spool (distill.drainPendingNudgeSpool), captures a finding into the     *)
(* graph.  Both claim a result by renaming it; a re-drive takes the lock   *)
(* of the job (lib/shell/spool).                                           *)
(*                                                                         *)
(* A process here runs one pass: a hook lives for one event, so every pass *)
(* has a pid of its own.  Files are on disk, the rest of a drain is the    *)
(* memory of its pass and is gone when the process dies.                   *)
(***************************************************************************)
EXTENDS Naturals, FiniteSets

CONSTANTS
    Prompts,    \* prompt-time drains
    Ends,       \* session-end drains, the collector's and the sweeper's included
    NoOwner,    \* the owner of a result nobody claimed
    MaxRuns,    \* bound: workers started for the job
    MaxStalls,  \* bound: times a live process outlasts a horizon
    MaxFaults   \* bound: crashes of drains, failed calls, power cuts

ASSUME ConstantsAssumption ==
    /\ IsFiniteSet(Prompts) /\ IsFiniteSet(Ends) /\ Prompts \cap Ends = {}
    /\ NoOwner \notin Prompts \cup Ends
    /\ MaxRuns \in Nat \ {0} /\ MaxStalls \in Nat /\ MaxFaults \in Nat

Drains == Prompts \cup Ends
Runs == 1..MaxRuns

VARIABLES
    plain, copy,  \* <hash>.in.json and <hash>.redriven.in.json: "none", "new", "old"
    results,      \* the .out.json files of the job
    locks,        \* the job lock each drain created: "none", "held", "old"
    marked,       \* the file's line in <session>.nudged-injected
    full,         \* the session has had its three nudges already
    workers,      \* the workers started
    dr,           \* the drains' passes
    answered,     \* a worker reached a verdict
    found,        \* a finding has reached the disk
    retried,      \* a worker was started on the copy
    placed,       \* captured, spooled to the outbox or dead-lettered
    refused,      \* a finding the graph can never hold
    stalls, faults

vars == <<plain, copy, results, locks, marked, full, workers, dr, answered,
          found, retried, placed, refused, stalls, faults>>
ghosts == <<answered, found, retried, placed, refused>>
files == <<plain, copy, results, locks, marked>>

\* A result's name tells its claimant; a claim keeps the result's bytes.
Result(run) == [run |-> run, owner |-> NoOwner, old |-> FALSE, good |-> TRUE]
Name(r) == IF r.owner = NoOwner THEN <<NoOwner, 0>> ELSE <<r.owner, r.run>>

Pass == [pc |-> "idle", seen |-> {}, plain |-> FALSE, copy |-> FALSE, know |-> FALSE,
         deferred |-> FALSE, settled |-> FALSE, drop |-> {}, take |-> {}]

Init ==
    /\ plain = "new" /\ copy = "none" /\ results = {}
    /\ locks = [p \in Drains |-> "none"]
    /\ marked = FALSE /\ full \in BOOLEAN
    /\ workers = [n \in Runs |-> [of |-> "plain", pc |-> IF n = 1 THEN "spawned" ELSE "none"]]
    /\ dr = [p \in Drains |-> Pass]
    /\ answered = FALSE /\ found = FALSE /\ retried = FALSE
    /\ placed = FALSE /\ refused = FALSE
    /\ stalls = 0 /\ faults = 0

Alive(p) == dr[p].pc \notin {"idle", "done"}
Goto(p, pc) == dr' = [dr EXCEPT ![p].pc = pc]
Swept(p) == dr' = [dr EXCEPT ![p] = [Pass EXCEPT !.pc = "consuming", !.drop = dr[p].drop,
                                                 !.take = dr[p].take]]
Exit(p) == dr' = [dr EXCEPT ![p] = [Pass EXCEPT !.pc = "done"]]
Fault == faults < MaxFaults /\ faults' = faults + 1
Unlink(run, p) == {r \in results : ~(r.run = run /\ r.owner = p)}

-----------------------------------------------------------------------------
\* The detached worker: util.runSpoolWorker.
Working(n, pc) == workers' = [workers EXCEPT ![n].pc = pc]
Input(n) == IF workers[n].of = "plain" THEN plain ELSE copy

ReadJob(n) ==
    /\ workers[n].pc = "spawned"
    /\ Working(n, IF Input(n) = "none" THEN "exited" ELSE "classifying")
    /\ UNCHANGED <<files, full, dr, ghosts, stalls, faults>>

Nothing(n) ==
    /\ workers[n].pc = "classifying"
    /\ answered' = TRUE
    /\ Working(n, "clearing")
    /\ UNCHANGED <<files, full, dr, found, retried, placed, refused, stalls, faults>>

\* The verdict is a finding: its result replaces one of an earlier run.
Finding(n) ==
    /\ workers[n].pc = "classifying"
    /\ answered' = TRUE /\ found' = TRUE
    /\ results' = {r \in results : r.owner # NoOwner} \cup {Result(n)}
    /\ Working(n, "clearing")
    /\ UNCHANGED <<plain, copy, locks, marked, full, dr, retried, placed, refused,
                   stalls, faults>>

ClearInput(n) ==
    /\ workers[n].pc = "clearing"
    /\ plain' = IF workers[n].of = "plain" THEN "none" ELSE plain
    /\ copy' = IF workers[n].of = "copy" THEN "none" ELSE copy
    /\ Working(n, "exited")
    /\ UNCHANGED <<results, locks, marked, full, dr, ghosts, stalls, faults>>

\* The backend failed, the result could not be written, or the worker died:
\* the input stays.
WorkerFails(n) ==
    /\ workers[n].pc \in {"spawned", "classifying", "clearing"}
    /\ Working(n, "exited")
    /\ UNCHANGED <<files, full, dr, ghosts, stalls, faults>>

\* A power cut: the result was renamed in place before its bytes were on disk.
Corrupt(r) ==
    /\ r.good
    /\ Fault
    /\ results' = (results \ {r}) \cup {[r EXCEPT !.good = FALSE]}
    /\ found' = (found /\ \E o \in results \ {r} : o.good)
    /\ UNCHANGED <<plain, copy, locks, marked, full, workers, dr, answered, retried,
                   placed, refused, stalls>>

-----------------------------------------------------------------------------
\* Time.  A hook that is alive past a horizon has stalled (a suspended machine).
Stalled == IF \E p \in Drains : Alive(p) THEN stalls < MaxStalls /\ stalls' = stalls + 1
                                         ELSE UNCHANGED stalls
Aged(age) == IF age = "new" THEN "old" ELSE age
Expired ==
    /\ results' = {[r EXCEPT !.old = r.owner # NoOwner] : r \in results}
    /\ locks' = [p \in Drains |-> IF locks[p] = "held" THEN "old" ELSE locks[p]]

\* SPOOL_TTL.claimHold passes.
ClaimHold ==
    /\ Stalled /\ Expired
    /\ UNCHANGED <<plain, copy, marked, full, workers, dr, ghosts, faults>>

\* SPOOL_TTL.orphanInput passes, an hour in which every worker has ended.
OrphanInput ==
    /\ \A n \in Runs : workers[n].pc \in {"none", "exited"}
    /\ Stalled /\ Expired
    /\ plain' = Aged(plain) /\ copy' = Aged(copy)
    /\ UNCHANGED <<marked, full, workers, dr, ghosts, faults>>

-----------------------------------------------------------------------------
\* The listing of the spool, then the injected lines.
List(p) ==
    /\ dr[p].pc = "idle"
    /\ dr' = [dr EXCEPT ![p] = [Pass EXCEPT !.pc = "listed", !.seen = {Name(r) : r \in results},
                                            !.plain = p \in Prompts /\ plain # "none",
                                            !.copy = p \in Prompts /\ copy # "none"]]
    /\ UNCHANGED <<files, full, workers, ghosts, stalls, faults>>

ReadInjected(p) ==
    /\ dr[p].pc = "listed"
    /\ dr' = [dr EXCEPT ![p].know = marked, ![p].pc = "claiming"]
    /\ UNCHANGED <<files, full, workers, ghosts, stalls, faults>>

ClaimHeldByLiveOwner(p, r) ==
    /\ r.owner \notin {NoOwner, p}
    /\ ~r.old
    /\ Alive(r.owner)

\* A name that is held, or gone since the listing: no verdict in this pass.
ClaimLost(p, nm) ==
    /\ dr[p].pc = "claiming" /\ nm \in dr[p].seen
    /\ \A r \in results : Name(r) = nm => ClaimHeldByLiveOwner(p, r)
    /\ dr' = [dr EXCEPT ![p].seen = @ \ {nm}, ![p].deferred = p \in Prompts]
    /\ UNCHANGED <<files, full, workers, ghosts, stalls, faults>>

\* Mutant: a result that cannot be read is taken for an unusable one.
MutClaimFails(p, r) ==
    /\ dr[p].pc = "claiming" /\ Name(r) \in dr[p].seen
    /\ ~ClaimHeldByLiveOwner(p, r)
    /\ Fault
    /\ results' = results \ {r}
    /\ dr' = [dr EXCEPT ![p].seen = @ \ {Name(r)}]
    /\ UNCHANGED <<plain, copy, locks, marked, full, workers, ghosts, stalls>>

\* The rename or the read after it failed; the read leaves the claim behind.
ClaimFails(p, r) ==
    /\ dr[p].pc = "claiming" /\ Name(r) \in dr[p].seen
    /\ ~ClaimHeldByLiveOwner(p, r)
    /\ Fault
    /\ results' \in {results, (results \ {r}) \cup {[r EXCEPT !.owner = p, !.old = FALSE]}}
    /\ dr' = [dr EXCEPT ![p].seen = @ \ {Name(r)}, ![p].deferred = p \in Prompts]
    /\ UNCHANGED <<plain, copy, locks, marked, full, workers, ghosts, stalls>>

\* The claim and the read of what it claimed: nobody takes a fresh claim from
\* a live drain, so nothing comes between the two.  Unusable bytes are removed
\* and answer nothing.
Claimed(p, r) == (results \ {r}) \cup {[r EXCEPT !.owner = p, !.old = FALSE]}

Claim(p, r) ==
    /\ dr[p].pc = "claiming" /\ Name(r) \in dr[p].seen
    /\ ~ClaimHeldByLiveOwner(p, r)
    /\ LET rest == dr[p].seen \ {Name(r)}
           shed == dr[p].know \/ (p \in Prompts /\ full)
       IN  \/ /\ ~r.good
              /\ results' = results \ {r}
              /\ dr' = [dr EXCEPT ![p].seen = rest]
           \/ /\ r.good /\ shed /\ p \in Prompts
              /\ results' = Claimed(p, r)
              /\ dr' = [dr EXCEPT ![p].seen = rest, ![p].settled = TRUE, ![p].drop = @ \cup {r.run}]
           \/ /\ r.good /\ shed /\ p \in Ends
              /\ results' = results \ {r}
              /\ dr' = [dr EXCEPT ![p].seen = rest]
           \/ /\ r.good /\ ~shed
              /\ results' = Claimed(p, r)
              /\ dr' = [dr EXCEPT ![p].seen = rest, ![p].settled = p \in Prompts,
                                   ![p].take = @ \cup {r.run}]
    /\ UNCHANGED <<plain, copy, locks, marked, full, workers, ghosts, stalls, faults>>

-----------------------------------------------------------------------------
\* The prompt-time drain's sweep of the job's inputs, under the job's lock.
ClaimsRead(p) ==
    /\ p \in Prompts
    /\ dr[p].pc = "claiming" /\ dr[p].seen = {}
    /\ IF (dr[p].plain \/ dr[p].copy) /\ ~dr[p].deferred THEN Goto(p, "locking") ELSE Swept(p)
    /\ UNCHANGED <<files, full, workers, ghosts, stalls, faults>>

CreateLock(p) ==
    /\ dr[p].pc = "locking"
    /\ locks' = [locks EXCEPT ![p] = "held"]
    /\ Goto(p, "contending")
    /\ UNCHANGED <<plain, copy, results, marked, full, workers, ghosts, stalls, faults>>

LockFails(p) ==
    /\ dr[p].pc \in {"locking", "contending"}
    /\ Fault
    /\ locks' = [locks EXCEPT ![p] = "none"]
    /\ Swept(p)
    /\ UNCHANGED <<plain, copy, results, marked, full, workers, ghosts, stalls>>

\* Mutant: the age of a rival's stamp is compared the wrong way round.
MutContends(p, q) == q # p /\ Alive(q) /\ locks[q] = "old"

\* spoolJobLockContends: a live holder whose stamp has not expired.
Contends(p, q) == q # p /\ Alive(q) /\ locks[q] = "held"

\* The listing after the create decides; what is provably dead is removed.
ListLocks(p) ==
    /\ dr[p].pc = "contending"
    /\ IF \E q \in Drains : Contends(p, q)
       THEN /\ locks' = [locks EXCEPT ![p] = "none"]
            /\ Swept(p)
       ELSE /\ locks' = [q \in Drains |-> IF q = p \/ Alive(q) THEN locks[q] ELSE "none"]
            /\ Goto(p, "locked")
    /\ UNCHANGED <<plain, copy, results, marked, full, workers, ghosts, stalls, faults>>

\* What the holder of the lock does with the pair its listing showed.
Governing(p) == IF dr[p].copy THEN copy ELSE plain

Verdict(p) ==
    IF dr[p].settled THEN "pruning"
    ELSE IF Governing(p) # "old" THEN "releasing"
    ELSE IF dr[p].know THEN "pruning"
    ELSE IF dr[p].copy /\ ~dr[p].plain THEN "pruning"
    ELSE "copying"

Decide(p) ==
    /\ dr[p].pc = "locked"
    /\ Goto(p, Verdict(p))
    /\ UNCHANGED <<files, full, workers, ghosts, stalls, faults>>

PrunePlain(p) ==
    /\ dr[p].pc = "pruning"
    /\ plain' = IF dr[p].plain THEN "none" ELSE plain
    /\ Goto(p, "pruning copy")
    /\ UNCHANGED <<copy, results, locks, marked, full, workers, ghosts, stalls, faults>>

PruneCopy(p) ==
    /\ dr[p].pc = "pruning copy"
    /\ copy' = IF dr[p].copy THEN "none" ELSE copy
    /\ Goto(p, "releasing")
    /\ UNCHANGED <<plain, results, locks, marked, full, workers, ghosts, stalls, faults>>

\* A first re-drive creates the copy exclusively; a copy beside its original
\* is one whose worker never started, and is renewed from the original.
Copyable(p) == plain # "none" /\ (dr[p].copy \/ copy = "none")

\* Mutant: the job is renamed to its retry's name instead of copied.
MutCopy(p) ==
    /\ dr[p].pc = "copying"
    /\ copy' = IF Copyable(p) THEN "new" ELSE copy
    /\ plain' = IF Copyable(p) THEN "none" ELSE plain
    /\ Goto(p, IF Copyable(p) THEN "spawning" ELSE "releasing")
    /\ UNCHANGED <<results, locks, marked, full, workers, ghosts, stalls, faults>>

Copy(p) ==
    /\ dr[p].pc = "copying"
    /\ copy' = IF Copyable(p) THEN "new" ELSE copy
    /\ Goto(p, IF Copyable(p) THEN "spawning" ELSE "releasing")
    /\ UNCHANGED <<plain, results, locks, marked, full, workers, ghosts, stalls, faults>>

Idle(n) == workers[n].pc = "none" /\ \A m \in Runs : workers[m].pc = "none" => n <= m

Spawn(p, n) ==
    /\ dr[p].pc = "spawning" /\ Idle(n)
    /\ workers' = [workers EXCEPT ![n] = [of |-> "copy", pc |-> "spawned"]]
    /\ retried' = TRUE
    /\ Goto(p, "discharging")
    /\ UNCHANGED <<files, full, answered, found, placed, refused,
                   stalls, faults>>

SpawnFails(p) ==
    /\ dr[p].pc = "spawning"
    /\ Fault
    /\ copy' = "none"
    /\ Goto(p, "releasing")
    /\ UNCHANGED <<plain, results, locks, marked, full, workers, ghosts, stalls>>

Discharge(p) ==
    /\ dr[p].pc = "discharging"
    /\ plain' = "none"
    /\ Goto(p, "releasing")
    /\ UNCHANGED <<copy, results, locks, marked, full, workers, ghosts, stalls, faults>>

Release(p) ==
    /\ dr[p].pc = "releasing"
    /\ locks' = [locks EXCEPT ![p] = "none"]
    /\ Swept(p)
    /\ UNCHANGED <<plain, copy, results, marked, full, workers, ghosts, stalls, faults>>

-----------------------------------------------------------------------------
\* A result is removed once neither half of its input remains.
Consume(p, n) == IF plain = "none" /\ copy = "none" THEN Unlink(n, p) ELSE results

Discard(p, n) ==
    /\ dr[p].pc = "consuming" /\ n \in dr[p].drop
    /\ results' = Consume(p, n)
    /\ dr' = [dr EXCEPT ![p].drop = @ \ {n}]
    /\ UNCHANGED <<plain, copy, locks, marked, full, workers, ghosts, stalls, faults>>

\* The marker first; a marker that could not be written keeps the result.
Mark(p, n) ==
    /\ p \in Prompts
    /\ dr[p].pc = "consuming" /\ dr[p].drop = {} /\ n \in dr[p].take
    /\ \/ /\ marked' = TRUE
          /\ dr' = [dr EXCEPT ![p].take = @ \ {n}, ![p].drop = {n}]
          /\ UNCHANGED faults
       \/ /\ Fault
          /\ dr' = [dr EXCEPT ![p].take = @ \ {n}]
          /\ UNCHANGED marked
    /\ UNCHANGED <<plain, copy, results, locks, full, workers, ghosts, stalls>>

\* The findings taken are the hook's output.
Inject(p) ==
    /\ p \in Prompts
    /\ dr[p].pc = "consuming" /\ dr[p].drop = {} /\ dr[p].take = {}
    /\ Exit(p)
    /\ UNCHANGED <<files, full, workers, ghosts, stalls, faults>>

-----------------------------------------------------------------------------
\* The session-end drain: a finding is captured (or lands in the outbox or
\* among the dead letters) and only then consumed; one the graph can never
\* hold is consumed, and one that cannot be placed now stays.
Capture(p, n) ==
    /\ p \in Ends
    /\ dr[p].pc = "claiming" /\ dr[p].seen = {} /\ dr[p].drop = {} /\ n \in dr[p].take
    /\ \/ placed' = TRUE /\ UNCHANGED <<refused, faults>>
       \/ refused' = TRUE /\ UNCHANGED <<placed, faults>>
       \/ Fault /\ UNCHANGED <<placed, refused>>
    /\ dr' = [dr EXCEPT ![p].take = @ \ {n},
                        ![p].drop = IF faults' # faults THEN {} ELSE {n}]
    /\ UNCHANGED <<files, full, workers, answered, found, retried, stalls>>

ConsumeCaptured(p, n) ==
    /\ p \in Ends
    /\ n \in dr[p].drop
    /\ results' = Unlink(n, p)
    /\ dr' = [dr EXCEPT ![p].drop = {}]
    /\ UNCHANGED <<plain, copy, locks, marked, full, workers, ghosts, stalls, faults>>

\* Nothing is left to place, or the budget of the pass ran out.
EndPass(p) ==
    /\ p \in Ends
    /\ dr[p].pc = "claiming" /\ dr[p].drop = {}
    /\ Exit(p)
    /\ UNCHANGED <<files, full, workers, ghosts, stalls, faults>>

Crash(p) ==
    /\ Alive(p)
    /\ Fault
    /\ Exit(p)
    /\ UNCHANGED <<files, full, workers, ghosts, stalls>>

-----------------------------------------------------------------------------
Worker(n) == ReadJob(n) \/ Nothing(n) \/ Finding(n) \/ ClearInput(n) \/ WorkerFails(n)

Drain(p) ==
    \/ List(p) \/ ReadInjected(p)
    \/ \E nm \in dr[p].seen : ClaimLost(p, nm)
    \/ \E r \in results : ClaimFails(p, r) \/ Claim(p, r)
    \/ ClaimsRead(p) \/ CreateLock(p) \/ LockFails(p) \/ ListLocks(p) \/ Decide(p)
    \/ PrunePlain(p) \/ PruneCopy(p) \/ Copy(p) \/ SpawnFails(p) \/ Discharge(p) \/ Release(p)
    \/ \E n \in Runs : Spawn(p, n) \/ Discard(p, n) \/ Mark(p, n)
    \/ Inject(p)
    \/ \E n \in Runs : Capture(p, n) \/ ConsumeCaptured(p, n)
    \/ EndPass(p) \/ Crash(p)

Next ==
    \/ \E n \in Runs : Worker(n)
    \/ \E r \in results : Corrupt(r)
    \/ \E p \in Drains : Drain(p)
    \/ ClaimHold \/ OrphanInput

Spec == Init /\ [][Next]_vars

-----------------------------------------------------------------------------
\* The finding is owed to nobody: it was marked as shown, shed by the
\* session's cap, or has reached the graph, the outbox or the dead letters.
Discharged == marked \/ full \/ placed \/ refused

\* Owe before you clear (spool-drain.js 361-373, distill.js 425-446): whatever
\* processes die and whichever drains overlap, a finding a worker paid for is
\* still in the spool until it has been discharged.
FindingKept == found => Discharged \/ \E r \in results : r.good

\* A job leaves the spool unanswered only when its one retry was really
\* started (spool-drain.js 182-204): never by a crash around the re-drive.
JobKept == plain = "none" /\ copy = "none" => answered \/ retried

\* Two contenders never both hold the job (spool.js 371-375), unless the hold
\* of one of them has expired under it.
OneRedriver ==
    \A p, q \in Prompts :
        /\ p # q
        /\ \A x \in {p, q} : /\ locks[x] = "held"
                             /\ Alive(x) /\ dr[x].pc \notin {"locking", "contending"}
        => FALSE
=============================================================================
