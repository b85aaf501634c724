----------------------------- MODULE Completion -----------------------------
(***************************************************************************)
(* The controller-written completion of a work item: lib/shell/completion  *)
(* driving lib/kernel/completion, with the doors bin/spor.js gives it.     *)
(*                                                                         *)
(* An item is held by at most one execution.  While it is held nothing     *)
(* retires it; when the execution's gates have passed its controller       *)
(* writes a resolver node with a resolving edge, and then, in one          *)
(* compare-and-swap on the item's revision, the terminal status and the    *)
(* end of the hold.  The edge is on the resolver, so writing it does not   *)
(* move the item's revision.                                               *)
(*                                                                         *)
(* One execution is one run record.  Two processes work a record: the      *)
(* driver of its pipeline (or, once that is gone, the reconciling pass,    *)
(* which yields to a live driver), and the sweep that every polling pass   *)
(* makes over a running record.  People abandon the item, resolve it, or   *)
(* force an execution off it, at any moment.  Every read and every write   *)
(* of the graph is a step; a write may fail, may be applied with its reply *)
(* lost, and a process may crash between any two.                          *)
(***************************************************************************)
EXTENDS Naturals, FiniteSets

CONSTANTS
    Execs,      \* executions, each with its run record and its resolver node
    Swept,      \* those a polling worker's passes also sweep while they run
    Required,   \* those whose completion requires screenshots
    Nodes,      \* other nodes whose edges may resolve the item
    None,       \* no holder
    MaxActs,    \* bound: acts of people and implementers on the item
    Backlog,    \* unsettled records of other items on the same machine
    MaxFaults   \* bound: crashes, failed calls and lost replies

ASSUME ConstantsAssumption ==
    /\ IsFiniteSet(Execs) /\ IsFiniteSet(Nodes)
    /\ Swept \subseteq Execs /\ Required \subseteq Execs
    /\ Execs \cap Nodes = {} /\ None \notin Execs
    /\ Backlog \in Nat /\ MaxActs \in Nat /\ MaxFaults \in Nat

Threads == (Execs \X {"drive"}) \cup (Swept \X {"sweep"})
Exec(t) == t[1]

\* A node's edge to the item; a removed one has not got its twin yet.
Links == {"none", "resolves", "relates", "removed"}

VARIABLES
    item,    \* the item node: its revision, status and hold
    link,    \* the edge each resolver node and each other node has to it
    rec,     \* each execution's run record; "shown", whether the screenshots it
             \* requires can be verified; "blind", a history: whether the last read
             \* of its resolver by a withdrawal failed
    ended,   \* executions a person ended in the execution store
    at,      \* where each process is
    acts, faults

vars == <<item, link, rec, ended, at, acts, faults>>

\* The resolver of a completion as a read shows it; a read that fails shows none.
Absent == [exists |-> FALSE, edge |-> FALSE]

Idle == [pc |-> "idle", item |-> [rev |-> 0, status |-> "open", hold |-> None],
         cur |-> None, own |-> Absent, inbound |-> {}, todo |-> {}, mode |-> "none", failed |-> FALSE, tries |-> 0]

Init ==
    /\ item = [rev |-> 0, status |-> "open", hold |-> None]
    /\ link = [n \in Execs \cup Nodes |-> "none"]
    /\ rec = [e \in Execs |-> [claimed |-> FALSE, gates |-> "running", debt |-> "none",
                               settled |-> "no", seen |-> {}, was |-> "open",
                               shown |-> FALSE, blind |-> FALSE]]
    /\ ended = {}
    /\ at = [t \in Threads |-> Idle]
    /\ acts = 0 /\ faults = 0

-----------------------------------------------------------------------------
(* What a read of the item shows.                                          *)

Inbound == {n \in DOMAIN link : link[n] = "resolves"}
GaveUp(i) == i.status = "abandoned"
Terminal(i) == i.status # "open"

\* Mutant: the completion's own resolver is not told apart.
MutPrematureResolvers(e, inbound) == inbound \ rec[e].seen

\* Resolving edges the claim did not see and that are not the completion's.
PrematureResolvers(e, inbound) == inbound \ (rec[e].seen \cup {e})

Fault == faults < MaxFaults /\ faults' = faults + 1

Owns == [exists : BOOLEAN, edge : BOOLEAN]
OwnResolver(e) == [exists |-> link[e] # "none", edge |-> link[e] = "resolves"]

\* readOwnResolver: the resolver as it is or, when its read fails, none.
ReadsOwn(e, own) ==
    \/ own = OwnResolver(e) /\ UNCHANGED faults
    \/ own = Absent /\ own # OwnResolver(e) /\ Fault

\* Whether the pinned boundary of the record has been reached.
BoundaryReached(e) == rec[e].claimed /\ rec[e].gates = "passed"

\* Mutant: only a standing edge makes an abandoned item owe a withdrawal.
MutDeriveCompletionDebt(e, i, inbound, ownEdge) ==
    LET settled == i.hold = None /\ Terminal(i) /\ (ownEdge \/ inbound # {})
    IN  IF GaveUp(i) /\ ownEdge THEN "withdraw"
        ELSE IF BoundaryReached(e) /\ ~settled /\ ~GaveUp(i) THEN "write"
        ELSE IF i.hold = e /\ PrematureResolvers(e, inbound) # {} THEN "retract"
        ELSE "none"

\* The debt a record owes, derived from the item and the resolver as read.
DeriveCompletionDebt(e, i, inbound, ownEdge) ==
    LET settled == i.hold = None /\ Terminal(i) /\ (ownEdge \/ inbound # {})
    IN  IF GaveUp(i) /\ (ownEdge \/ i.hold = e) THEN "withdraw"
        ELSE IF BoundaryReached(e) /\ ~settled /\ ~GaveUp(i) THEN "write"
        ELSE IF i.hold = e /\ PrematureResolvers(e, inbound) # {} THEN "retract"
        ELSE "none"

Goto(t, pc) == at' = [at EXCEPT ![t].pc = pc]
Enter(t, pc) == at' = [at EXCEPT ![t] = [Idle EXCEPT !.pc = pc]]
Return(t) == at' = [at EXCEPT ![t] = Idle]
Settle(e, how) == rec' = [rec EXCEPT ![e].settled = how, ![e].debt = "none"]
\* The record of an execution a person released, nothing written.
Release(e, blind) ==
    rec' = [rec EXCEPT ![e].settled = "withdrawn", ![e].debt = "none", ![e].blind = blind]

\* Mutant: the item is written whatever its revision.
MutFresh(t) == at[t].item.rev <= item.rev

\* A compare-and-swap of the item at the revision a process read.
Fresh(t) == at[t].item.rev = item.rev

Put(i) == item' = [i EXCEPT !.rev = item.rev + 1]

-----------------------------------------------------------------------------
(* stampHold and clearHold.                                                *)

\* An execution is opened for an item and asks for the hold.
ClaimRead(t) ==
    /\ t[2] = "drive" /\ at[t].pc = "idle" /\ ~rec[Exec(t)].claimed /\ Exec(t) \notin ended
    /\ \/ item.hold = None /\ Inbound = {}
       \/ item.hold = Exec(t)
    /\ at' = [at EXCEPT ![t] = [Idle EXCEPT !.pc = "claim", !.item = item, !.inbound = Inbound]]
    /\ UNCHANGED <<item, link, rec, ended, acts, faults>>

ClaimWrite(t) ==
    /\ at[t].pc = "claim"
    /\ IF at[t].item.hold = Exec(t)
       THEN Goto(t, "claimed") /\ UNCHANGED item
       ELSE IF Fresh(t)
       THEN Goto(t, "claimed") /\ Put([item EXCEPT !.hold = Exec(t)])
       ELSE Return(t) /\ UNCHANGED item
    /\ UNCHANGED <<link, rec, ended, acts, faults>>

\* The claim's pins reach the run record: the edges and the status it saw.
RecordClaim(t) ==
    /\ at[t].pc = "claimed"
    /\ rec' = [rec EXCEPT ![Exec(t)].claimed = TRUE, ![Exec(t)].seen = at[t].inbound,
                          ![Exec(t)].was = at[t].item.status]
    /\ Return(t)
    /\ UNCHANGED <<item, link, ended, acts, faults>>

\* The gates judge the candidate, or settle against it; by then it has its
\* screenshots, if they are required, or lacks them.
GatesSettle(e) ==
    /\ rec[e].claimed /\ rec[e].gates = "running"
    /\ \E g \in {"passed", "failed"}, shown \in BOOLEAN :
           /\ g = "failed" => ~shown
           /\ g = "passed" /\ e \notin Required => shown
           /\ rec' = [rec EXCEPT ![e].gates = g, ![e].shown = shown]
    /\ UNCHANGED <<item, link, ended, at, acts, faults>>

\* clearHold within a withdrawal: read and compare-and-swap, thrice at most.
ClearHoldRead(t) ==
    /\ at[t].pc = "clear"
    /\ CASE item.hold = Exec(t) -> at' = [at EXCEPT ![t].pc = "cleared", ![t].item = item]
         [] item.hold = None -> Enter(t, "withdrawn")
         [] OTHER -> Return(t)
    /\ UNCHANGED <<item, link, rec, ended, acts, faults>>

ClearHoldWrite(t) ==
    /\ at[t].pc = "cleared"
    /\ IF Fresh(t)
       THEN /\ Put([item EXCEPT !.hold = None])
            /\ Enter(t, "withdrawn")
       ELSE /\ at' = [at EXCEPT ![t] = IF at[t].tries = 2 THEN Idle
                                       ELSE [at[t] EXCEPT !.pc = "clear", !.tries = at[t].tries + 1]]
            /\ UNCHANGED item
    /\ UNCHANGED <<link, rec, ended, acts, faults>>

-----------------------------------------------------------------------------
(* retractPremature: the edges nobody may write under a hold become        *)
(* evidence, one at a time, and a status written under it is rolled back.  *)

\* What the walk over the premature edges starts from.
Retyping(t, i, inbound, mode) ==
    [Idle EXCEPT !.pc = "retype", !.item = i, !.mode = mode, !.tries = at[t].tries,
                 !.todo = PrematureResolvers(Exec(t), inbound)]

StatusMoved(e, i) == Terminal(i) /\ i.status # rec[e].was

RetractStart(t) ==
    LET e == Exec(t) IN
    /\ at[t].pc = "idle" /\ rec[e].claimed /\ rec[e].gates = "running"
    /\ rec[e].settled = "no"
    /\ item.hold = e /\ ~GaveUp(item)
    /\ PrematureResolvers(e, Inbound) # {} \/ StatusMoved(e, item)
    /\ at' = [at EXCEPT ![t] = Retyping(t, item, Inbound, "retract")]
    /\ rec' = [rec EXCEPT ![e].debt = IF @ = "none" THEN "retract" ELSE @]
    /\ UNCHANGED <<item, link, ended, acts, faults>>

\* Removing an edge that is gone is skipped, and so is adding one that is
\* there.
RemoveEdge(n) == link' = [link EXCEPT ![n] = IF @ = "resolves" THEN "removed" ELSE @]
AddRelates(n) == link' = [link EXCEPT ![n] = IF @ \in {"removed", "none"} THEN "relates" ELSE @]

RetypeRemove(t, n) ==
    /\ at[t].pc = "retype" /\ n \in at[t].todo
    /\ RemoveEdge(n)
    /\ at' = [at EXCEPT ![t].pc = "twin", ![t].todo = @ \ {n}, ![t].cur = n]
    /\ UNCHANGED <<item, rec, ended, acts, faults>>

RetypeAdd(t) ==
    /\ at[t].pc = "twin"
    /\ AddRelates(at[t].cur)
    /\ at' = [at EXCEPT ![t].pc = "retype", ![t].cur = None]
    /\ UNCHANGED <<item, rec, ended, acts, faults>>

\* The edges are done.  A write goes on to its completion; a retract looks
\* at the status again.
RetypeDone(t) ==
    /\ at[t].pc = "retype" /\ at[t].todo = {}
    /\ CASE at[t].mode = "write" /\ at[t].failed -> Return(t)
         [] at[t].mode = "write" -> Goto(t, "confirm")
         [] OTHER -> Goto(t, IF StatusMoved(Exec(t), at[t].item) THEN "reread" ELSE "retracted")
    /\ UNCHANGED <<item, link, rec, ended, acts, faults>>

RestoreRead(t) ==
    /\ at[t].pc = "reread"
    /\ at' = [at EXCEPT ![t].item = item,
                        ![t].pc = IF item.hold = Exec(t) /\ Terminal(item) /\ ~GaveUp(item)
                                  THEN "restore" ELSE "retracted"]
    /\ UNCHANGED <<item, link, rec, ended, acts, faults>>

RestoreWrite(t) ==
    /\ at[t].pc = "restore"
    /\ item' = IF Fresh(t) THEN [item EXCEPT !.status = rec[Exec(t)].was, !.rev = @ + 1] ELSE item
    /\ at' = [at EXCEPT ![t].pc = "retracted", ![t].failed = @ \/ ~Fresh(t)]
    /\ UNCHANGED <<link, rec, ended, acts, faults>>

Retracted(t) ==
    /\ at[t].pc = "retracted"
    /\ rec' = [rec EXCEPT ![Exec(t)].debt = IF at[t].failed \/ @ # "retract" THEN @ ELSE "none"]
    /\ Return(t)
    /\ UNCHANGED <<item, link, ended, acts, faults>>

-----------------------------------------------------------------------------
(* writeCompletion, consume and withdrawCompletion.                        *)

\* The pipeline reaches its boundary: the debt is owed before anything is
\* written.
WriteStart(t) ==
    /\ t[2] = "drive" /\ at[t].pc = "idle" /\ BoundaryReached(Exec(t))
    /\ rec[Exec(t)].settled = "no"
    /\ rec' = [rec EXCEPT ![Exec(t)].debt = "write"]
    /\ Enter(t, "read")
    /\ UNCHANGED <<item, link, ended, acts, faults>>

ReadItem(t) ==
    /\ at[t].pc = "read"
    /\ at' = [at EXCEPT ![t].pc = "decide", ![t].item = item, ![t].inbound = Inbound]
    /\ UNCHANGED <<item, link, rec, ended, acts, faults>>

\* The resolver is read after the item, and the two decide.
WithdrawFrom(t, touch) ==
    at' = [at EXCEPT ![t] = [Idle EXCEPT !.pc = "withdraw",
                                         !.mode = IF touch THEN "withdraw" ELSE "cede"]]

Decide(t) ==
    LET e == Exec(t)
        i == at[t].item
    IN  /\ at[t].pc = "decide"
        /\ \E own \in Owns :
              /\ ReadsOwn(e, own)
              /\ CASE GaveUp(i) /\ (own.edge \/ i.hold = e) -> WithdrawFrom(t, TRUE) /\ UNCHANGED rec
                   [] GaveUp(i) /\ ~own.edge /\ i.hold # e -> Settle(e, "consumed") /\ Return(t)
                   [] ~GaveUp(i) /\ i.hold \notin {None, e} -> WithdrawFrom(t, FALSE) /\ UNCHANGED rec
                   [] ~GaveUp(i) /\ i.hold = None /\ Terminal(i) -> Settle(e, "consumed") /\ Return(t)
                   [] ~GaveUp(i) /\ i.hold = None /\ ~Terminal(i) /\ own.edge ->
                          WithdrawFrom(t, TRUE) /\ UNCHANGED rec
                   [] ~GaveUp(i) /\ i.hold = None /\ ~Terminal(i) /\ ~own.edge ->
                          Release(e, own # OwnResolver(e)) /\ Return(t)
                   [] OTHER -> /\ at' = [at EXCEPT ![t] = [Retyping(t, i, at[t].inbound, "write")
                                                                EXCEPT !.own = own]]
                               /\ UNCHANGED rec
        /\ UNCHANGED <<item, link, ended, acts>>

\* The required screenshots are verified, then the store confirms the fence
\* of an execution nobody ended; without either the debt stays owed.
Confirm(t) ==
    /\ at[t].pc = "confirm"
    /\ IF rec[Exec(t)].shown /\ Exec(t) \notin ended THEN Goto(t, "resolver") ELSE Return(t)
    /\ UNCHANGED <<item, link, rec, ended, acts, faults>>

\* The resolver node is written with its edge, or gets the edge back,
\* unless it was read with one.
ResolverLinked(t) == IF at[t].own.edge THEN link ELSE [link EXCEPT ![Exec(t)] = "resolves"]

\* A node that was not read is created: one that is there is refused, unless
\* its content, edge and all, is the same.
MayCreate(t) == at[t].own.exists \/ link[Exec(t)] \in {"none", "resolves"}
MayRefuse(t) == ~at[t].own.exists /\ link[Exec(t)] # "none"

WriteResolver(t) ==
    /\ at[t].pc = "resolver"
    /\ \/ MayCreate(t) /\ link' = ResolverLinked(t) /\ Goto(t, "put")
       \/ MayRefuse(t) /\ UNCHANGED link /\ Return(t)
    /\ UNCHANGED <<item, rec, ended, acts, faults>>

\* The item's terminal status and the end of the hold, in one write.
PutCompletion(t) ==
    /\ at[t].pc = "put"
    /\ IF Fresh(t)
       THEN /\ Put([item EXCEPT !.status = "done", !.hold = None])
            /\ Enter(t, "written")
       ELSE /\ at' = [at EXCEPT ![t] = IF at[t].tries = 3 THEN Idle
                                       ELSE [Idle EXCEPT !.pc = "read", !.tries = at[t].tries + 1]]
            /\ UNCHANGED item
    /\ UNCHANGED <<link, rec, ended, acts, faults>>

StampWritten(t) ==
    /\ at[t].pc = "written"
    /\ Settle(Exec(t), "written") /\ Return(t)
    /\ UNCHANGED <<item, link, ended, acts, faults>>

\* Where a withdrawal goes on to once the edge is seen to.
AfterEdge(t) == IF at[t].mode = "withdraw" THEN "clear" ELSE "withdrawn"

\* Mutant: the hold is ended without a look at the edge.
MutWithdrawRead(t) ==
    /\ at[t].pc = "withdraw"
    /\ Goto(t, AfterEdge(t))
    /\ UNCHANGED <<item, link, rec, ended, acts, faults>>

\* Withdrawing takes the completion's own edge back, as evidence, and ends
\* the hold unless the item is another execution's.  An edge it could not
\* read it takes for none.
WithdrawRead(t) ==
    LET e == Exec(t) IN
    /\ at[t].pc = "withdraw"
    /\ \E own \in Owns :
          /\ ReadsOwn(e, own)
          /\ rec' = [rec EXCEPT ![e].blind = own # OwnResolver(e)]
          /\ Goto(t, IF own.edge THEN "unlink" ELSE AfterEdge(t))
    /\ UNCHANGED <<item, link, ended, acts>>

Unlink(t) ==
    /\ at[t].pc = "unlink"
    /\ RemoveEdge(Exec(t))
    /\ Goto(t, "untwin")
    /\ UNCHANGED <<item, rec, ended, acts, faults>>

UnlinkTwin(t) ==
    /\ at[t].pc = "untwin"
    /\ AddRelates(Exec(t))
    /\ Goto(t, AfterEdge(t))
    /\ UNCHANGED <<item, rec, ended, acts, faults>>

StampWithdrawn(t) ==
    /\ at[t].pc = "withdrawn"
    /\ Settle(Exec(t), "withdrawn") /\ Return(t)
    /\ UNCHANGED <<item, link, ended, acts, faults>>

-----------------------------------------------------------------------------
(* reconcileCompletions: a pass over a record no live pipeline works.      *)

ReconcileRead(t) ==
    /\ t[2] = "drive" /\ at[t].pc = "idle"
    /\ rec[Exec(t)].claimed /\ rec[Exec(t)].settled = "no" /\ rec[Exec(t)].gates # "running"
    /\ at' = [at EXCEPT ![t] = [Idle EXCEPT !.pc = "derive", !.item = item,
                                       !.inbound = Inbound]]
    /\ UNCHANGED <<item, link, rec, ended, acts, faults>>

ReconcileDerive(t) ==
    LET e == Exec(t)
        i == at[t].item
    IN  /\ at[t].pc = "derive"
        /\ \E own \in Owns :
              LET debt == DeriveCompletionDebt(e, i, at[t].inbound, own.edge) IN
              /\ ReadsOwn(e, own)
              /\ rec' = [rec EXCEPT ![e].debt = debt]
              /\ CASE debt = "write" -> Enter(t, "read")
                   [] debt = "withdraw" -> WithdrawFrom(t, TRUE)
                   [] debt = "retract" ->
                          at' = [at EXCEPT ![t] = Retyping(t, i, at[t].inbound, "retract")]
                   [] OTHER -> Enter(t, "examined")
        /\ UNCHANGED <<item, link, ended, acts>>

\* Nothing is owed by a pipeline settled against its candidate, once the
\* item has left its hold.
ReconcileExamined(t) ==
    /\ at[t].pc = "examined"
    /\ rec' = IF rec[Exec(t)].gates = "failed" /\ item.hold # Exec(t)
              THEN [rec EXCEPT ![Exec(t)].settled = "consumed"] ELSE rec
    /\ Return(t)
    /\ UNCHANGED <<item, link, ended, acts, faults>>

-----------------------------------------------------------------------------
(* People and implementers, and what goes wrong.                           *)

Act == acts < MaxActs /\ acts' = acts + 1

Abandon ==
    /\ Act /\ item.status = "open"
    /\ Put([item EXCEPT !.status = "abandoned"])
    /\ UNCHANGED <<link, rec, ended, at, faults>>

\* Somebody's node resolves the item, and its status may follow.
Resolve(n) ==
    /\ Act /\ link[n] = "none"
    /\ link' = [link EXCEPT ![n] = "resolves"]
    /\ UNCHANGED <<item, rec, ended, at, faults>>

MarkDone ==
    /\ Act /\ item.status = "open" /\ Inbound # {}
    /\ Put([item EXCEPT !.status = "done"])
    /\ UNCHANGED <<link, rec, ended, at, faults>>

\* spor release-execution: the execution ends in the store, then the hold.
ForceRelease(e) ==
    /\ Act /\ item.hold = e /\ e \notin ended
    /\ ended' = ended \cup {e}
    /\ UNCHANGED <<item, link, rec, at, faults>>

ForceClear(e) ==
    /\ e \in ended /\ item.hold = e
    /\ Put([item EXCEPT !.hold = None])
    /\ UNCHANGED <<link, rec, ended, at, acts, faults>>

\* A failed call: a retype goes on to the next edge and owes the rest, any
\* other call ends the pass with its debt standing.
Failed(t) ==
    /\ Fault
    /\ at[t].pc \in {"read", "retype", "twin", "reread", "restore", "confirm", "resolver", "put",
                     "unlink", "untwin", "clear", "cleared"}
    /\ at[t].pc = "retype" => at[t].todo # {}
    /\ CASE at[t].pc = "retype" ->
               \E n \in at[t].todo :
                   at' = [at EXCEPT ![t].todo = @ \ {n}, ![t].failed = TRUE]
         [] at[t].pc = "twin" ->
               at' = [at EXCEPT ![t].pc = "retype", ![t].cur = None, ![t].failed = TRUE]
         [] at[t].pc = "reread" -> Goto(t, "retracted")
         [] at[t].pc = "restore" ->
               at' = [at EXCEPT ![t].pc = "retracted", ![t].failed = TRUE]
         [] OTHER -> Return(t)
    /\ UNCHANGED <<item, link, rec, ended, acts>>

\* The write was made and its answer was lost.
PutLost(t) ==
    /\ Fault /\ at[t].pc = "put" /\ Fresh(t)
    /\ Put([item EXCEPT !.status = "done", !.hold = None]) /\ Return(t)
    /\ UNCHANGED <<link, rec, ended, acts>>

ResolverLost(t) ==
    /\ Fault /\ at[t].pc = "resolver" /\ ~at[t].own.edge /\ MayCreate(t)
    /\ link' = ResolverLinked(t) /\ Return(t)
    /\ UNCHANGED <<item, rec, ended, acts>>

UnlinkLost(t) ==
    /\ Fault /\ at[t].pc = "unlink" /\ link[Exec(t)] = "resolves"
    /\ RemoveEdge(Exec(t)) /\ Return(t)
    /\ UNCHANGED <<item, rec, ended, acts>>

Crash(t) ==
    /\ Fault /\ at[t].pc # "idle" /\ Return(t)
    /\ UNCHANGED <<item, link, rec, ended, acts>>

-----------------------------------------------------------------------------
Step(t) ==
    \/ ClaimRead(t) \/ ClaimWrite(t) \/ RecordClaim(t)
    \/ ClearHoldRead(t) \/ ClearHoldWrite(t)
    \/ RetractStart(t) \/ (\E n \in Execs \cup Nodes : RetypeRemove(t, n)) \/ RetypeAdd(t)
    \/ RetypeDone(t) \/ RestoreRead(t) \/ RestoreWrite(t) \/ Retracted(t)
    \/ WriteStart(t) \/ ReadItem(t) \/ Decide(t) \/ Confirm(t) \/ WriteResolver(t)
    \/ PutCompletion(t) \/ StampWritten(t)
    \/ WithdrawRead(t) \/ Unlink(t) \/ UnlinkTwin(t) \/ StampWithdrawn(t)
    \/ ReconcileRead(t) \/ ReconcileDerive(t) \/ ReconcileExamined(t)

Person ==
    \/ Abandon \/ MarkDone
    \/ \E n \in Nodes : Resolve(n)
    \/ \E e \in Execs : ForceRelease(e) \/ ForceClear(e)

Faults(t) == Failed(t) \/ PutLost(t) \/ ResolverLost(t) \/ UnlinkLost(t) \/ Crash(t)

Next ==
    \/ \E t \in Threads : Step(t) \/ Faults(t)
    \/ \E e \in Execs : GatesSettle(e)
    \/ Person

\* A pass examines the first ten unsettled records of the machine.
COMPLETION_RECONCILE_MAX == 10

\* The executions every pass reaches.  Asked of the swept ones only: nothing
\* they need is another execution's to do.
Reached == IF Cardinality(Execs) + Backlog <= COMPLETION_RECONCILE_MAX THEN Swept ELSE {}

\* A pass runs again as long as a record is unsettled, and a forced release
\* is finished by its command or by the cleanup it journaled.
Fairness ==
    \A e \in Reached : WF_vars(Step(<<e, "drive">>)) /\ WF_vars(ForceClear(e))

Spec == Init /\ [][Next]_vars /\ Fairness

-----------------------------------------------------------------------------
\* A written completion stands: the item reads done, released, with the
\* resolver's edge on it, whatever the other execution's passes retype.
CompletionStands ==
    \A e \in Execs : rec[e].settled = "written" =>
        link[e] = "resolves" /\ item.status = "done" /\ item.hold # e

\* A withdrawn completion leaves no hold behind and no edge, so the item can be
\* worked again or stays dropped: but for a withdrawal whose read of its own
\* resolver failed, which leaves the edge it did not see.
WithdrawnLeavesNothing ==
    \A e \in Execs : rec[e].settled \in {"withdrawn", "consumed"} =>
        /\ item.hold # e
        /\ rec[e].settled = "withdrawn" /\ link[e] = "resolves" => rec[e].blind

\* No controller reverses a person who dropped the item, whenever that falls
\* between its read and its write.
AbandonKept == [][GaveUp(item) => GaveUp(item')]_vars

\* A completion that is owed, with what it requires to be shown, does not leave
\* the item held for ever, nor does an item a person dropped once the gates have
\* settled: where the passes reach its record.
HoldEnds ==
    \A e \in Reached :
        (/\ item.hold = e
         /\ \/ rec[e].gates = "passed" /\ rec[e].shown
            \/ rec[e].gates # "running" /\ GaveUp(item)) ~> (item.hold # e)

=============================================================================
