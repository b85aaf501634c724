---------------------------- MODULE RemoteOutbox ----------------------------
(***************************************************************************)
(* The remote half of the execution store (remoteExecutionAdapter in       *)
(* src/lib/shell/execution-store.js, with withOwnershipCheck) on one       *)
(* machine: the worker processes of one agent report the events of one     *)
(* execution to a server.  An event is spooled to the reporting process's  *)
(* own outbox file and sent from there, the oldest line first.  A process  *)
(* that takes the execution over adopts what a dead predecessor still      *)
(* owed; one that is fenced out forfeits its own lines and hands back what *)
(* it adopted.                                                             *)
(*                                                                         *)
(* The server is external: of the record of ExecutionRecord only owner,    *)
(* fence, whether it is terminal, and the log of events matter here.  A    *)
(* request may be lost, or arrive after its sender gave up or died.        *)
(*                                                                         *)
(* Every read or rewrite of an outbox file happens under the execution's   *)
(* outbox lock (LocalLock), so it is one step, or several for a rewrite of *)
(* several files, which a crash may cut.  The clock is the machine's; it   *)
(* advances when a grant is stamped, so two readings are ordered as the    *)
(* steps are and a line spooled before a stamp is older than the stamp.    *)
(*                                                                         *)
(* Left out: the file shared by processes without an instance, outbox      *)
(* files of other machines, a person's resolution of a stranded file, and  *)
(* reports under a fence that was recorded but never confirmed.            *)
(***************************************************************************)
EXTENDS Integers, Sequences, FiniteSets

CONSTANTS
    Instances,    \* worker processes on this machine
    Elsewhere,    \* a holder on another machine
    Refusable,    \* events the server's reducer may refuse for good
    MaxEvents,    \* bound: events reported
    MaxFence,     \* bound: fences granted, the last only once a process crashed
    MaxCrashes,   \* bound: processes that crash
    MaxFaults,    \* bound: timeouts, lost answers, failed reads and writes
    MaxToEnd      \* bound: fences, crashes and faults before the execution ends

ASSUME OutboxAssumption ==
    /\ Instances \subseteq Nat
    /\ Elsewhere \notin Instances
    /\ MaxEvents \in Nat
    /\ MaxFence \in Nat
    /\ MaxCrashes \in Nat
    /\ MaxFaults \in Nat
    /\ MaxToEnd \in Nat
    /\ Refusable \subseteq 1 .. MaxEvents

LOCAL Seqs == INSTANCE SequencesExt

VARIABLES
    srv,        \* the server's owner, fence and state of the execution
    log,        \* the events the server recorded
    net,        \* requests whose sender no longer waits
    lines,      \* every line spooled so far; an event is known by its place
    file,       \* file[i]: the events of <id>.outbox.<tag of i>.jsonl
    ledger,     \* <id>.takeovers.jsonl: fences granted on this machine
    clock,      \* this machine's clock
    offer,      \* offer[i]: the fence in the answer to i's claim
    grant,      \* grant[i]: i's fence and when i learned of it
    loss,       \* loss[i]: whether i was fenced out, and its forfeit
    alive,      \* the processes still running
    pc,         \* pc[i]: where i's call is
    head,       \* head[i]: the event i sent
    sources,    \* sources[i]: adopted files i has still to remove
    faults,     \* faults so far
    off         \* history: what was written off, and why

vars == <<srv, log, net, lines, file, ledger, clock, offer, grant, loss, alive,
          pc, head, sources, faults, off>>

\* What the exchanges with the server and the outbox files leave alone.
holding == <<lines, ledger, clock, offer, grant, alive>>

-----------------------------------------------------------------------------
Event == 1 .. MaxEvents

\* `held` is history: the fence was the server's when the line was spooled.
Line == [by : Instances, fence : 1 .. MaxFence, at : Nat, held : BOOLEAN]

Request == [event : Event, fence : 1 .. MaxFence]

Labels == {"idle", "granted", "check", "adopt", "unlink", "send", "sent",
           "answered", "terminal"}

Losses == {"none", "due", "emptying", "settled"}

TypeOK ==
    /\ srv \in [owner : Instances \cup {Elsewhere}, fence : 0 .. MaxFence,
                state : {"open", "completed", "released"}]
    /\ log \in Seq(Event)
    /\ net \subseteq Request
    /\ lines \in Seq(Line) /\ Len(lines) <= MaxEvents
    /\ file \in [Instances -> Seq(1 .. Len(lines))]
    /\ clock \in 0 .. MaxFence
    /\ ledger \subseteq [fence : 1 .. MaxFence, at : 1 .. clock]
    /\ offer \in [Instances -> 0 .. srv.fence]
    /\ grant \in [Instances -> [fence : 0 .. srv.fence, at : 0 .. clock]]
    /\ loss \in [Instances -> Losses]
    /\ alive \subseteq Instances
    /\ pc \in [Instances -> Labels]
    /\ head \in [Instances -> 0 .. Len(lines)]
    /\ \A i \in Instances : sources[i] \subseteq Instances \ {i}
    /\ faults \in 0 .. MaxFaults
    /\ off \subseteq [event : Event, why : {"refused", "forfeited", "dropped"}]

Init ==
    /\ srv = [owner |-> Elsewhere, fence |-> 0, state |-> "open"]
    /\ log = <<>>
    /\ net = {}
    /\ lines = <<>>
    /\ file = [i \in Instances |-> <<>>]
    /\ ledger = {}
    /\ clock = 0
    /\ offer = [i \in Instances |-> 0]
    /\ grant = [i \in Instances |-> [fence |-> 0, at |-> 0]]
    /\ loss = [i \in Instances |-> "none"]
    /\ alive = Instances
    /\ pc = [i \in Instances |-> "idle"]
    /\ head = [i \in Instances |-> 0]
    /\ sources = [i \in Instances |-> {}]
    /\ faults = 0
    /\ off = {}

-----------------------------------------------------------------------------
At(i, label) == i \in alive /\ pc[i] = label

Goto(i, label) == pc' = [pc EXCEPT ![i] = label]

\* The call returns.
Return(i) == Goto(i, "idle") /\ head' = [head EXCEPT ![i] = 0]

Fault == faults < MaxFaults /\ faults' = faults + 1

\* Bound: the server grants another fence.
AnotherFence == srv.fence < IF alive = Instances THEN MaxFence - 1 ELSE MaxFence

\* A rewrite of several files is under way: its process has the outbox lock.
Locked == \E i \in alive : pc[i] = "unlink" \/ loss[i] = "emptying"

Recorded(e) == e \in Seqs!ToSet(log)

Ended == srv.state # "open"

\* The record names i at i's fence; a completed record keeps its owner.
Named(i) ==
    /\ srv.state # "released"
    /\ srv.owner = i
    /\ srv.fence = grant[i].fence

Superseded(i) == srv.state # "released" /\ srv.fence > grant[i].fence

Holds(i) == Named(i) /\ ~Ended

WrittenOff(es, why) == {[event |-> e, why |-> why] : e \in es}

WrittenOffFor(why) == {w.event : w \in {x \in off : x.why = why}}

\* Processes that have nothing to do with the execution (yet).  They are
\* interchangeable, and named in the order in which they claim it.
Outside ==
    {i \in alive : grant[i].fence = 0 /\ offer[i] = 0 /\ srv.owner # i}

-----------------------------------------------------------------------------
(* Judging the files of other processes (surveyOthers).                    *)

\* lossOf: when fence f was lost, if this machine's ledger can tell.
LossDated(f) == \E d \in ledger : d.fence = f + 1

BeforeLoss(l) == \A d \in ledger : d.fence = l.fence + 1 => l.at < d.at

\* One old line of undatable fence strands the whole file.
Stranded(i, j) ==
    \E n \in DOMAIN file[j] :
        LET l == lines[file[j][n]] IN l.at < grant[i].at /\ ~LossDated(l.fence)

\* Owed: queued before its fence was lost and before the adopter's grant.
Owed(i, e) == lines[e].at < grant[i].at /\ BeforeLoss(lines[e])

\* Only the file of a process that is gone, by one that has a grant.
Adoptable(i) ==
    {j \in Instances \ ({i} \cup alive) :
        file[j] # <<>> /\ grant[i].fence > 0 /\ ~Stranded(i, j)}

Keep(i, j) == SelectSeq(file[j], LAMBDA e : Owed(i, e))

-----------------------------------------------------------------------------
(* Taking the execution.                                                   *)

\* open and claim: a process other than the owner advances the fence.  What a
\* process fenced out earlier may not do is refused without a request.
Claim(i) ==
    LET f == IF srv.owner = i THEN srv.fence ELSE srv.fence + 1
    IN  /\ At(i, "idle")
        /\ loss[i] = "none"
        /\ ~Ended
        /\ i \in Outside => \A j \in Outside : i <= j
        /\ grant[i].fence < f
        /\ f = srv.fence \/ AnotherFence
        /\ srv' = [srv EXCEPT !.owner = i, !.fence = f]
        /\ offer' = [offer EXCEPT ![i] = f]
        /\ Goto(i, "granted")
        /\ UNCHANGED <<log, net, lines, file, ledger, clock, grant, loss,
                       alive, head, sources, faults, off>>

Stamp(i) == [fence |-> offer[i], at |-> clock + 1]

\* acquired: the grant is stamped when its answer arrives; the line in the
\* takeover ledger is best effort.
Acquired(i) ==
    /\ At(i, "granted")
    /\ clock' = Stamp(i).at
    /\ grant' = [grant EXCEPT ![i] = Stamp(i)]
    /\ \/ ledger' = ledger \cup {Stamp(i)} /\ UNCHANGED faults
       \/ UNCHANGED ledger /\ Fault
    /\ offer' = [offer EXCEPT ![i] = 0]
    /\ Goto(i, "idle")
    /\ UNCHANGED <<srv, log, net, lines, file, loss, alive, head, sources, off>>

AnswerLost(i) ==
    /\ At(i, "granted")
    /\ Fault
    /\ offer' = [offer EXCEPT ![i] = 0]
    /\ Goto(i, "idle")
    /\ UNCHANGED <<srv, log, net, lines, file, ledger, clock, grant, loss, alive,
                   head, sources, off>>

\* The server grants the execution to another machine.
TakenElsewhere ==
    /\ ~Ended
    /\ AnotherFence
    /\ srv' = [srv EXCEPT !.owner = Elsewhere, !.fence = @ + 1]
    /\ UNCHANGED <<log, net, file, holding, loss, pc, head, sources, faults, off>>

\* Completed, released by its owner or by a person (bound: not after
\* everything else that may go wrong).
End ==
    /\ ~Ended
    /\ srv.fence + Cardinality(Instances \ alive) + faults <= MaxToEnd
    /\ \E s \in {"completed", "released"} : srv' = [srv EXCEPT !.state = s]
    /\ UNCHANGED <<log, net, file, holding, loss, pc, head, sources, faults, off>>

-----------------------------------------------------------------------------
(* event and reconcile.                                                    *)

\* Owe first: the event is spooled before anything is sent, also by a process
\* that does not know yet that it lost the execution.
Report(i) ==
    /\ At(i, "idle")
    /\ loss[i] = "none"
    /\ grant[i].fence > 0
    /\ ~Locked
    /\ Len(lines) < MaxEvents
    /\ lines' = Append(lines,
            [by |-> i, fence |-> grant[i].fence, at |-> clock, held |-> Holds(i)])
    /\ file' = [file EXCEPT ![i] = Append(@, Len(lines'))]
    /\ Goto(i, "check")
    /\ UNCHANGED <<srv, log, net, ledger, clock, offer, grant, loss, alive,
                   head, sources, faults, off>>

\* reconcile goes on after a spool; it is also called by itself, as the drain
\* after a claim and before the completion (confirmOwnership).
Reconciling(i) ==
    \/ At(i, "check")
    \/ /\ At(i, "idle")
       /\ grant[i].fence > 0
       /\ loss[i] = "none"
       /\ file[i] # <<>> \/ Adoptable(i) # {}

\* The server is asked who holds the execution, only when there is something
\* to adopt; a newer fence is this process's loss, and without an answer the
\* backlog stays where it is.
Check(i) ==
    /\ Reconciling(i)
    /\ ~Locked
    /\ \/ /\ \/ Adoptable(i) = {} /\ UNCHANGED faults
             \/ Adoptable(i) # {} /\ Fault
             \/ ~Named(i) /\ ~Superseded(i) /\ UNCHANGED faults
          /\ Goto(i, "send")
          /\ UNCHANGED loss
       \/ /\ Adoptable(i) # {}
          /\ Named(i)
          /\ Goto(i, "adopt")
          /\ UNCHANGED <<loss, faults>>
       \/ /\ Adoptable(i) # {}
          /\ Superseded(i)
          /\ loss' = [loss EXCEPT ![i] = "due"]
          /\ Goto(i, "idle")
          /\ UNCHANGED faults
    /\ UNCHANGED <<srv, log, net, file, holding, head, sources, off>>

\* adoptOwed: the merged file is written before any source is removed.
Adopt(i) ==
    /\ At(i, "adopt")
    /\ ~Locked
    /\ \E order \in Seqs!SetToSeqs(Adoptable(i)) :
        file' = [file EXCEPT ![i] =
            Seqs!FlattenSeq([n \in DOMAIN order |-> Keep(i, order[n])]) \o @]
    /\ sources' = [sources EXCEPT ![i] = Adoptable(i)]
    /\ Goto(i, IF Adoptable(i) = {} THEN "send" ELSE "unlink")
    /\ UNCHANGED <<srv, log, net, holding, loss, head, faults, off>>

\* Lines i has not adopted from j, of a fence above its own: i was fenced out
\* meanwhile.
Overtaken(i, j) ==
    {e \in Seqs!ToSet(file[j]) \ Seqs!ToSet(file[i]) : grant[i].fence < lines[e].fence}

\* A source is removed with the lines that were not kept; a removal that fails
\* leaves it.
Unlink(i) ==
    /\ At(i, "unlink")
    /\ \E j \in sources[i] :
        /\ sources' = [sources EXCEPT ![i] = @ \ {j}]
        /\ Goto(i, IF sources'[i] = {} THEN "send" ELSE "unlink")
        /\ \/ /\ file' = [file EXCEPT ![j] = <<>>]
              /\ off' = off \cup WrittenOff(Overtaken(i, j), "dropped")
              /\ UNCHANGED faults
           \/ UNCHANGED <<file, off>> /\ Fault
    /\ UNCHANGED <<srv, log, net, holding, loss, head>>

NextLine(s) == Head(s)

Send(i) ==
    /\ At(i, "send")
    /\ ~Locked
    /\ \/ /\ file[i] = <<>>
          /\ Return(i)
       \/ /\ file[i] # <<>>
          /\ head' = [head EXCEPT ![i] = NextLine(file[i])]
          /\ Goto(i, "sent")
    /\ UNCHANGED <<srv, log, net, file, holding, loss, sources, faults, off>>

-----------------------------------------------------------------------------
(* The server's events door.                                               *)

\* A recorded key is answered first, then terminal, then the fence.
Answers(e, fence) ==
    IF Recorded(e) THEN {"replayed"}
    ELSE IF Ended THEN {"terminal"}
    ELSE IF srv.fence # fence THEN {"stale"}
    ELSE {"recorded"} \cup (IF e \in Refusable THEN {"refused"} ELSE {})

Record(e, answer) ==
    log' = IF answer = "recorded" THEN Append(log, e)
           ELSE log

Refuse(e, answer) ==
    off' = IF answer = "refused" THEN off \cup WrittenOff({e}, "refused") ELSE off

\* Mutant: an event refused for good is kept and waits for a retry.
SettledLabelKeeping(answer) ==
    CASE answer \in {"recorded", "replayed"} -> "answered"
      [] answer = "terminal" -> "terminal"
      [] answer \in {"stale", "refused"} -> "idle"

\* send: what an answer means for the line.
SettledLabel(answer) ==
    CASE answer \in {"recorded", "replayed", "refused"} -> "answered"
      [] answer = "terminal" -> "terminal"
      [] answer = "stale" -> "idle"

\* watch: a stale fence is this process's loss for the rest of its life.
Serve(i) ==
    /\ At(i, "sent")
    /\ \E answer \in Answers(head[i], grant[i].fence) :
        /\ Record(head[i], answer)
        /\ Refuse(head[i], answer)
        /\ loss' = IF answer = "stale" THEN [loss EXCEPT ![i] = "due"] ELSE loss
        /\ Goto(i, SettledLabel(answer))
        /\ head' = [head EXCEPT ![i] = IF SettledLabel(answer) = "answered" THEN @ ELSE 0]
    /\ UNCHANGED <<srv, net, file, holding, sources, faults>>

\* The request is lost, or still under way when its sender gives up.
Abandon(i) ==
    LET r == [event |-> head[i], fence |-> grant[i].fence]
    IN  IF pc[i] = "sent" THEN {net, net \cup {r}} ELSE {net}

\* No answer, one that says to try again, or an expired lease: the line stays
\* and waits.
Timeout(i) ==
    /\ At(i, "sent")
    /\ Fault
    /\ net' \in Abandon(i)
    /\ Return(i)
    /\ UNCHANGED <<srv, log, file, holding, loss, sources, off>>

\* A request arrives whose sender no longer waits.
ArriveLate(r) ==
    /\ net' = net \ {r}
    /\ \E answer \in Answers(r.event, r.fence) :
        Record(r.event, answer) /\ Refuse(r.event, answer)
    /\ UNCHANGED <<srv, file, holding, loss, pc, head, sources, faults>>

\* dropLine: the first occurrence, in the file as it is now.
DropLine(i) == Seqs!RemoveFirst(file[i], head[i])

\* The line is un-spooled once it is answered for, and the next is sent.
Drop(i) ==
    /\ At(i, "answered")
    /\ ~Locked
    /\ \/ /\ file' = [file EXCEPT ![i] = DropLine(i)]
          /\ Goto(i, "send")
          /\ head' = [head EXCEPT ![i] = 0]
          /\ UNCHANGED faults
       \/ Fault /\ Return(i) /\ UNCHANGED file
    /\ UNCHANGED <<srv, log, net, holding, loss, sources, off>>

\* The server reports the execution terminal: nothing more can land.
DropAll(i) ==
    /\ At(i, "terminal")
    /\ ~Locked
    /\ file' = [file EXCEPT ![i] = <<>>]
    /\ Return(i)
    /\ UNCHANGED <<srv, log, net, holding, loss, sources, faults, off>>

-----------------------------------------------------------------------------
(* Losing the execution.                                                   *)

\* renew (the heartbeat, confirmOwnership) is refused: the fence is stale.  One
\* refused while the process's own claim is unanswered is ExecutionStore's case.
RenewRefused(i) ==
    /\ i \in alive
    /\ pc[i] # "granted"
    /\ grant[i].fence > 0
    /\ loss[i] = "none"
    /\ Superseded(i)
    /\ loss' = [loss EXCEPT ![i] = "due"]
    /\ UNCHANGED <<srv, log, net, file, holding, pc, head, sources, faults, off>>

Mine(i) == {e \in Seqs!ToSet(file[i]) : lines[e].by = i}

Adopted(i, j) == SelectSeq(file[i], LAMBDA e : lines[e].by = j /\ e \notin Mine(i))

\* Mutant: the adopted lines go back the newest first.
HandedBackNewest(i, j) == Seqs!Reverse(Adopted(i, j)) \o file[j]

\* Mutant: the adopted lines are dropped with the own ones.
HandedBackNone(i, j) == file[j]

\* What j's file holds once i, fenced out, handed back what it adopted.
HandedBack(i, j) == Adopted(i, j) \o file[j]

\* forfeit, which may fail as a whole: every adopted line goes back to its
\* author's file, ahead of what that holds, before the own file is removed.
HandBack(i) ==
    /\ i \in alive
    /\ loss[i] = "due"
    /\ ~Locked
    /\ \/ /\ file' = [j \in Instances |-> IF j = i THEN file[i] ELSE HandedBack(i, j)]
          /\ loss' = [loss EXCEPT ![i] = "emptying"]
          /\ UNCHANGED faults
       \/ Fault /\ loss' = [loss EXCEPT ![i] = "settled"] /\ UNCHANGED file
    /\ UNCHANGED <<srv, log, net, holding, pc, head, sources, off>>

Empty(i) ==
    /\ i \in alive
    /\ loss[i] = "emptying"
    /\ off' = off \cup WrittenOff(Mine(i), "forfeited")
    /\ file' = [file EXCEPT ![i] = <<>>]
    /\ loss' = [loss EXCEPT ![i] = "settled"]
    /\ UNCHANGED <<srv, log, net, holding, pc, head, sources, faults>>

\* What the process remembers is gone.  A restarted process is a new instance:
\* a crashed one does not come back.
Crash(i) ==
    /\ i \in alive \ Outside
    /\ Cardinality(Instances \ alive) < MaxCrashes
    /\ alive' = alive \ {i}
    /\ net' \in Abandon(i)
    /\ Return(i)
    /\ offer' = [offer EXCEPT ![i] = 0]
    /\ grant' = [grant EXCEPT ![i] = [fence |-> 0, at |-> 0]]
    /\ loss' = [loss EXCEPT ![i] = "none"]
    /\ sources' = [sources EXCEPT ![i] = {}]
    /\ UNCHANGED <<srv, log, lines, file, ledger, clock, faults, off>>

-----------------------------------------------------------------------------
Step(i) ==
    \/ Acquired(i) \/ Check(i) \/ Adopt(i) \/ Unlink(i)
    \/ Send(i) \/ Serve(i) \/ Drop(i) \/ DropAll(i)

Forfeit(i) == HandBack(i) \/ Empty(i)

Next ==
    \/ \E i \in Instances :
        \/ Claim(i) \/ AnswerLost(i) \/ Report(i) \/ Timeout(i)
        \/ RenewRefused(i) \/ Crash(i) \/ Step(i) \/ Forfeit(i)
    \/ \E r \in net : ArriveLate(r)
    \/ TakenElsewhere
    \/ End

Spec == Init /\ [][Next]_vars

\* A live process carries its call through, and a holder drains again before
\* it completes.
FairSpec ==
    Spec /\ \A i \in Instances : WF_vars(Step(i) \/ Forfeit(i))

-----------------------------------------------------------------------------
(* Properties.                                                             *)

\* Nothing is sent out of order: the events of one process reach the log in
\* the order it reported them, whichever process sends them: itself, its
\* adopter, an adopter that was fenced out and handed them back, or one that
\* crashed in the middle of the adoption; with requests that time out or arrive
\* late.  An event once refused may be sent again by a duplicate, and is not
\* held to its place.
AuthorOrder ==
    \A m, n \in DOMAIN log :
        LET a == log[m]
            b == log[n]
        IN  m < n /\ lines[a].by = lines[b].by => a < b \/ b \in WrittenOffFor("refused")

\* "Never a lost line": an event spooled by the holder is on the log, refused,
\* forfeited by the process that reported it (Mine), or still in an outbox file,
\* at every point of an adoption, of the hand-back of adopted lines and of the
\* adoption of what was handed back, whoever crashes there, as long as the
\* execution lives; or an adopter fenced out meanwhile dropped it (Overtaken).
Accounted ==
    ~Ended =>
        \A e \in DOMAIN lines :
            lines[e].held => \/ Recorded(e)
                             \/ \E w \in off : w.event = e
                             \/ \E i \in Instances : e \in Seqs!ToSet(file[i])

\* Once faults and claims cease, the holder owes nothing and has nothing left
\* to adopt.
Drains ==
    <>[](\A i \in alive :
            Holds(i) /\ loss[i] = "none" => file[i] = <<>> /\ Adoptable(i) = {})
=============================================================================
