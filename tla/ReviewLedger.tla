---------------------------- MODULE ReviewLedger ----------------------------
(***************************************************************************)
(* The findings of one agent-review gate over its fix cycles and rescue    *)
(* passes: parseReviewVerdict, applyReviewToLedger, withLedgerIds and      *)
(* rollbackCycle of src/lib/kernel/gates.js, the review branch of          *)
(* runOneGate (gate-runner.js), and the saving and resuming of the ledger  *)
(* in gate-workflow.js.  A finding is what it is about, how it is rated,   *)
(* whether it was demonstrated, and the name it is known by; notes, rows   *)
(* and wording are left out.  Names are numbers, 0 for none.               *)
(***************************************************************************)
EXTENDS Naturals, Sequences, FiniteSets, SequencesExt

CONSTANTS
    Topics,      \* what findings are about
    Raisable,    \* the ratings a fresh finding may have
    Cycles,      \* the gate's fix cycles
    Rescues,     \* rescue passes
    MaxLedger,   \* bound: entries of the ledger
    MaxFresh,    \* bound: fresh findings of one review
    MaxFaults    \* bound: crashes, failed saves and failed reads

Categories == {"correctness", "unmet", "unrequested"}

Rating == [severity : {"blocking", "minor"}, category : Categories,
           evidence : BOOLEAN, introduced : BOOLEAN]

ASSUME LedgerAssumption ==
    /\ Raisable \subseteq Rating
    /\ {Cycles, Rescues, MaxLedger, MaxFresh, MaxFaults} \subseteq Nat

VARIABLES
    ledger,   \* the ledger in memory
    cycle,    \* the fix cycle being judged
    base,     \* the cycle this rescue pass counts from
    entries,  \* the rescues in memory: ledger and base each pass starts from
    fix,      \* lastFix: none, decided or launched, and for which cycle
    disk,     \* disk[n]: the progress saved in rescue pass n, or Unsaved
    seeds,    \* the rescues saved
    stamp,    \* the cycle of the last fix launched, or none
    pc,       \* judge, launch, refused, passed, failed, down
    told,     \* what a fix or rescue will be told: name and topic of each finding
    faults,   \* faults so far
    before,   \* ghost: what each cycle of each pass was first judged against
    owed      \* ghost: blocking findings a fix was launched for, saved

vars == <<ledger, cycle, base, entries, fix, disk, seeds, stamp, pc, told, faults,
          before, owed>>

LastCycle == (Cycles + 1) * (Rescues + 1)

NoFix == [state |-> "none", cycle |-> 0]

Unsaved == [saved |-> FALSE, base |-> 0, fixes |-> 0, tries |-> 0, ledger |-> <<>>,
            fix |-> NoFix]

Init ==
    /\ ledger = <<>>
    /\ cycle = 0
    /\ base = 0
    /\ entries = <<>>
    /\ fix = NoFix
    /\ disk = [x \in 0..Rescues |-> Unsaved]
    /\ seeds = <<>>
    /\ stamp = LastCycle
    /\ pc = "judge"
    /\ told = {}
    /\ faults = 0
    /\ before = {}
    /\ owed = {}

-----------------------------------------------------------------------------
(* Reading a review.                                                       *)

Ids(l) == {l[i].id : i \in DOMAIN l}

EntryOf(l, id) == l[CHOOSE i \in DOMAIN l : l[i].id = id]

(* openPriorFindings.                                                      *)
OpenPrior(l) == {e.id : e \in {l[i] : i \in {j \in DOMAIN l :
                    l[j].blocking /\ l[j].status = "open"}}}

(* upgradableEntry, advisoryIdSet.                                         *)
Upgradable(e) == e.status = "advisory" /\ e.category # "unrequested"

AdvisoryIds(l) == {e.id : e \in {l[i] : i \in {j \in DOMAIN l : Upgradable(l[j])}}}

(* raisedUndemonstrated.                                                   *)
Raised(l) == {e.id : e \in {l[i] : i \in {j \in DOMAIN l :
                 Upgradable(l[j]) /\ l[j].severity = "blocking" /\ ~l[j].evidence}}}

(* normalizeFinding.  A finding that names one raised before but is about  *)
(* another file loses the name; one that keeps it takes its text.          *)
Normalized(f, l) ==
    LET upgrade == f.id \in Raised(l) /\ f.sameFile
        id      == IF f.id \in Raised(l) /\ ~f.sameFile THEN 0 ELSE f.id
    IN  [id |-> id, topic |-> IF upgrade THEN EntryOf(l, id).topic ELSE f.topic,
         severity |-> f.severity, category |-> f.category, evidence |-> f.evidence,
         blocking |-> /\ f.severity = "blocking"
                      /\ f.category # "unrequested"
                      /\ f.evidence
                      /\ cycle = 0 \/ f.introduced \/ upgrade]

(* What a reviewer may write.                                              *)
Fresh(l) ==
    [id : 0..Len(l), topic : Topics, sameFile : BOOLEAN, severity : {"blocking", "minor"},
     category : Categories, evidence : BOOLEAN, introduced : BOOLEAN]

FreshFindings(l) ==
    {f \in Fresh(l) : /\ [severity |-> f.severity, category |-> f.category,
                          evidence |-> f.evidence, introduced |-> f.introduced] \in Raisable
                      /\ f.id \notin Raised(l) => f.sameFile}

Answers == {"cleared", "open", "reclassified", "ignored"}

(* A review is unread when a finding is malformed, or when it asks for     *)
(* changes and names none.                                                 *)
Reviews(l) ==
    [answers : [OpenPrior(l) -> Answers], fresh : SeqOf(FreshFindings(l), MaxFresh),
     unread : {FALSE}]
    \cup [answers : [OpenPrior(l) -> Answers], fresh : {<<>>}, unread : {TRUE}]

(* parseReviewVerdict.                                                     *)
StillOpen(v) == {id \in DOMAIN v.answers : v.answers[id] # "cleared"}

Unanswered(v) == {id \in DOMAIN v.answers : v.answers[id] = "ignored"}

Readable(v) == ~v.unread /\ Unanswered(v) = {}

FreshOf(v, l) ==
    IF ~Readable(v) THEN <<>>
    ELSE SelectSeq([i \in DOMAIN v.fresh |-> Normalized(v.fresh[i], l)],
                   LAMBDA f : f.id \notin OpenPrior(l))

CategoryAfter(v, l, id) ==
    IF v.answers[id] = "reclassified" THEN "unrequested" ELSE EntryOf(l, id).category

BlockingPrior(v, l) == {id \in StillOpen(v) : CategoryAfter(v, l, id) # "unrequested"}

Passes(v, l) ==
    /\ Readable(v)
    /\ BlockingPrior(v, l) = {}
    /\ \A i \in DOMAIN FreshOf(v, l) : ~FreshOf(v, l)[i].blocking

(* unmetConditionFindings.                                                 *)
Unmet(v, l) ==
    {id \in StillOpen(v) \ Unanswered(v) :
        CategoryAfter(v, l, id) = "unmet" /\ cycle >= EntryOf(l, id).opened + 2}

-----------------------------------------------------------------------------
(* Folding a review into the ledger, and taking it out again.              *)

MutSnapshot(e) ==
    IF e.prev # <<>> /\ Head(e.prev).cycle = cycle THEN e.prev
    ELSE <<[cycle |-> cycle, status |-> e.status, blocking |-> e.blocking,
            category |-> e.category, evidence |-> TRUE]>> \o e.prev

(* snapshotBefore: once per cycle, older snapshots underneath.             *)
Snapshot(e) ==
    IF e.prev # <<>> /\ Head(e.prev).cycle = cycle THEN e.prev
    ELSE <<[cycle |-> cycle, status |-> e.status, blocking |-> e.blocking,
            category |-> e.category, evidence |-> e.evidence]>> \o e.prev

(* The loop of applyReviewToLedger over answered prior findings.           *)
Answered(v, l) ==
    [i \in DOMAIN l |->
        LET e == l[i]
            answer == v.answers[e.id]
            category == CategoryAfter(v, l, e.id)
        IN  IF e.id \notin OpenPrior(l) \/ v.answers[e.id] = "ignored" THEN e
            ELSE [e EXCEPT !.prev = Snapshot(e),
                           !.category = category,
                           !.status = CASE answer = "cleared" -> "resolved"
                                        [] answer # "cleared" /\ category = "unrequested" -> "advisory"
                                        [] OTHER -> "open",
                           !.blocking = answer = "cleared" \/ category # "unrequested"]]

(* keepsReviewerId.                                                        *)
Keeps(f, advisory) == f.id # 0 /\ f.id \in advisory

Upgraded(l, f) ==
    [i \in DOMAIN l |->
        IF l[i].id # f.id THEN l[i]
        ELSE [l[i] EXCEPT !.prev = Snapshot(l[i]),
                          !.evidence = @ \/ f.evidence,
                          !.blocking = @ \/ f.blocking,
                          !.status = IF f.blocking THEN "open" ELSE @,
                          !.category = f.category]]

Minted(l, f) ==
    Append(l, [id |-> Len(l) + 1, topic |-> f.topic, severity |-> f.severity,
               category |-> f.category, evidence |-> f.evidence,
               blocking |-> f.blocking, status |-> IF f.blocking THEN "open" ELSE "advisory",
               opened |-> cycle, prev |-> <<>>])

ApplyReview(l, v) ==
    FoldLeft(LAMBDA acc, f : IF Keeps(f, AdvisoryIds(l)) THEN Upgraded(acc, f)
                             ELSE Minted(acc, f),
             Answered(v, l), FreshOf(v, l))

(* withLedgerIds: the n-th finding that keeps no name takes the n-th entry *)
(* the review added.                                                       *)
WithLedgerIds(v, l) ==
    LET fresh == FreshOf(v, l)
        rank(i) == Cardinality({j \in 1..i : ~Keeps(fresh[j], AdvisoryIds(l))})
        next == ApplyReview(l, v)
    IN  {[id |-> IF Keeps(fresh[i], AdvisoryIds(l)) THEN fresh[i].id
                 ELSE next[Len(l) + rank(i)].id,
          topic |-> fresh[i].topic] : i \in {j \in DOMAIN fresh : fresh[j].blocking}}
        \cup {[id |-> id, topic |-> EntryOf(l, id).topic] : id \in BlockingPrior(v, l)}

(* rollbackCycle.                                                          *)
RollbackCycle(l, c) ==
    LET kept == SelectSeq(l, LAMBDA e : e.opened # c)
    IN  [i \in DOMAIN kept |->
            LET e == kept[i]
            IN  IF e.prev = <<>> \/ Head(e.prev).cycle # c THEN e
                ELSE [e EXCEPT !.status = Head(e.prev).status,
                               !.blocking = Head(e.prev).blocking,
                               !.category = Head(e.prev).category,
                               !.evidence = Head(e.prev).evidence,
                               !.prev = Tail(e.prev)]]

-----------------------------------------------------------------------------
(* The cycle loop of gate-workflow.js.                                     *)

Faults(failed) ==
    /\ faults + Cardinality(failed) <= MaxFaults
    /\ faults' = faults + Cardinality(failed)

Fault == Faults({"one"})

(* The rescue pass.                                                        *)
r == Len(entries)

(* saveProgress: a save that fails is logged and forgotten.                *)
Save(p) ==
    \/ disk' = [disk EXCEPT ![r] = p] /\ UNCHANGED faults
    \/ Fault /\ UNCHANGED disk

Progress(l, fixes, f) ==
    [saved |-> TRUE, base |-> base, fixes |-> fixes, tries |-> cycle - base + 1,
     ledger |-> l, fix |-> f]

Judged == {b \in before : b.pass = r /\ b.cycle = cycle}

(* A cycle judged again takes the place of all that was judged after it.   *)
Note ==
    LET now == IF Judged = {} THEN {[pass |-> r, cycle |-> cycle, ledger |-> ledger]} ELSE Judged
    IN  before' = now \cup {b \in before : b.pass < r \/ (b.pass = r /\ b.cycle < cycle)}

(* A readable or unreadable review is folded in; then a fix, or the end.   *)
Judge ==
    /\ pc = "judge"
    /\ Note
    /\ \E v \in Reviews(ledger) :
          LET next  == ApplyReview(ledger, v)
              retry == /\ ~Passes(v, ledger)
                       /\ Readable(v) => Unmet(v, ledger) = {}
                       /\ cycle - base < Cycles
          IN  /\ Len(next) <= MaxLedger
              /\ ledger' = next
              /\ told' = WithLedgerIds(v, ledger)
              /\ fix' = IF retry THEN [state |-> "decided", cycle |-> cycle] ELSE fix
              /\ Save(Progress(next, cycle, fix'))
              /\ pc' = IF Passes(v, ledger) THEN "passed" ELSE IF retry THEN "launch" ELSE "refused"
    /\ UNCHANGED <<cycle, base, entries, seeds, stamp, owed>>

(* The change touches none of the gate's risk classes, and no earlier      *)
(* finding is open: no review is dispatched.                               *)
Skip ==
    /\ pc = "judge"
    /\ OpenPrior(ledger) = {}
    /\ Note
    /\ Save(Progress(ledger, cycle, fix))
    /\ pc' = "passed"
    /\ UNCHANGED <<ledger, cycle, base, entries, fix, seeds, stamp, told, owed>>

(* The review never answered, or gave no verdict: neither a fix nor a      *)
(* rescue is bought with that.                                             *)
NoVerdict ==
    /\ pc = "judge"
    /\ Note
    /\ Save(Progress(ledger, cycle, fix))
    /\ pc' = "failed"
    /\ UNCHANGED <<ledger, cycle, base, entries, fix, seeds, stamp, told, owed>>

Finding(e) == [id |-> e.id, topic |-> e.topic, opened |-> e.opened]

Blocking(l) == {Finding(EntryOf(l, id)) : id \in OpenPrior(l)}

(* The fix is launched and stamped, its cycle charged; the next is judged. *)
LaunchFix ==
    /\ pc = "launch"
    /\ stamp' = cycle
    /\ fix' = [fix EXCEPT !.state = "launched"]
    /\ Save(Progress(ledger, cycle + 1, fix'))
    /\ owed' = IF disk'[r].ledger = ledger THEN owed \cup Blocking(ledger) ELSE owed
    /\ cycle' = cycle + 1
    /\ pc' = "judge"
    /\ told' = {}
    /\ UNCHANGED <<ledger, base, entries, seeds, before>>

(* loadGateProgress: a fix saved as decided whose launch was stamped was   *)
(* launched.                                                               *)
Loaded(p) ==
    IF p.fix.state = "decided" /\ stamp = p.fix.cycle
    THEN [p EXCEPT !.fix.state = "launched", !.fixes = p.fix.cycle + 1]
    ELSE p

(* loadProgress, loadRescues: what cannot be read is taken as none.        *)
ReadProgress(n, missed) == IF missed THEN Unsaved ELSE Loaded(disk[n])

ReadRescues(missed) == IF missed THEN <<>> ELSE seeds

(* Mutant: a rescue pass starts on an empty ledger.                        *)
MutSeed(list) == [ledger |-> <<>>, base |-> IF list = <<>> THEN 0 ELSE Last(list).base]

(* What the pass after the rescues of a list starts from: the ledger is    *)
(* carried on, and cycles count past those it knows.                       *)
Seed(list) == IF list = <<>> THEN [ledger |-> <<>>, base |-> 0] ELSE Last(list)

StartBase(p, s) == IF p.saved THEN p.base ELSE s.base

StartCycle(p, s) ==
    LET cap == StartBase(p, s) + Cycles
        fixes == IF p.saved THEN p.fixes ELSE StartBase(p, s)
    IN  IF fixes > cap THEN cap ELSE fixes

(* A pass starts from its progress p, or from its seed s if there is none: *)
(* into a fix that was decided on, or at its cycle, with what a judgement  *)
(* of that cycle did to the ledger taken back.                             *)
Start(p, s) ==
    LET l == IF p.saved THEN p.ledger ELSE s.ledger
        done == StartCycle(p, s) - StartBase(p, s)
        pending == /\ p.fix.state = "decided"
                   /\ p.fix.cycle = StartCycle(p, s)
                   /\ p.tries = done + 1
    IN  /\ base' = StartBase(p, s)
        /\ cycle' = StartCycle(p, s)
        /\ fix' = p.fix
        /\ pc' = IF pending THEN "launch" ELSE "judge"
        /\ ledger' = IF ~pending /\ p.tries > done
                     THEN RollbackCycle(l, StartCycle(p, s)) ELSE l

(* A rescue is entered and saved, or the saves of its entry fail; its pass *)
(* takes up progress an earlier pass of that number left.                  *)
Rescue ==
    /\ pc = "refused"
    /\ r < Rescues
    /\ entries' = Append(entries, [ledger |-> ledger, base |-> cycle + 1])
    /\ \E failed \in SUBSET {"save", "read"} :
        /\ Faults(failed)
        /\ seeds' = IF "save" \in failed THEN seeds ELSE entries'
        /\ LET p == ReadProgress(r + 1, "read" \in failed)
           IN  Start(p, Seed(entries')) /\ owed' = IF p.saved THEN {} ELSE owed
    /\ told' = {}
    /\ UNCHANGED <<disk, stamp, before>>

(* No rescue is left, none applies or its run fails: the refusal is        *)
(* escalated.                                                              *)
Escalate ==
    /\ pc = "refused"
    /\ pc' = "failed"
    /\ UNCHANGED <<ledger, cycle, base, entries, fix, disk, seeds, stamp, told, faults,
                   before, owed>>

(* The worker dies, or the pass is interrupted.                            *)
Crash ==
    /\ pc \in {"judge", "launch", "refused"}
    /\ Fault
    /\ pc' = "down"
    /\ ledger' = <<>>
    /\ cycle' = 0
    /\ base' = 0
    /\ entries' = <<>>
    /\ fix' = NoFix
    /\ told' = {}
    /\ IF entries = seeds THEN UNCHANGED <<before, owed>>
       ELSE owed' = {} /\ before' = {b \in before : b.pass = 0}
    /\ UNCHANGED <<disk, seeds, stamp>>

(* The pass of the last rescue saved resumes.                              *)
Resume ==
    /\ pc = "down"
    /\ \E failed \in SUBSET {"rescues", "progress"} :
        /\ Faults(failed)
        /\ entries' = ReadRescues("rescues" \in failed)
        /\ Start(ReadProgress(Len(entries'), "progress" \in failed), Seed(entries'))
        /\ owed' = IF failed = {} THEN owed ELSE {}
    /\ UNCHANGED <<disk, seeds, stamp, told, before>>

Next ==
    \/ Judge \/ Skip \/ NoVerdict \/ LaunchFix \/ Rescue \/ Escalate \/ Crash \/ Resume

Spec == Init /\ [][Next]_vars

-----------------------------------------------------------------------------
(* Properties.                                                             *)

(* A cycle that is judged again after a crash is judged against the ledger *)
(* its first judgement saw, whatever that one answered, raised or upgraded *)
(* and whichever saves or reads failed, unless these took the gate further *)
(* back, to an earlier cycle or pass that was judged again in between, or  *)
(* it is of a rescue pass and a rescue's entry was not saved or read.      *)
RedoneAlike == pc = "judge" => \A b \in Judged : b.ledger = ledger

(* No review gate passes over a blocking finding, by an answer, by         *)
(* skipping the review or by resuming: when it passes, none is open, and   *)
(* each that a fix was launched for and that was saved still stands in the *)
(* ledger, answered.  Excepted are a resume that could not read what was   *)
(* saved or is behind a rescue whose entry was not saved, and a pass that  *)
(* takes up progress from before that.                                     *)
PassedClean ==
    pc = "passed" => /\ OpenPrior(ledger) = {}
                     /\ owed \subseteq {Finding(ledger[i]) : i \in DOMAIN ledger}

=============================================================================
