-------------------------- MODULE CompletionProofs --------------------------
(***************************************************************************)
(* A written completion stands, a withdrawn one leaves nothing behind, and *)
(* no controller reverses a person who dropped the item: for any number of *)
(* executions, other nodes, acts of people and faults.                     *)
(*                                                                         *)
(* The argument.  A read of the item is stale or exact (Snapshot), so a    *)
(* compare-and-swap decides on the item as it is.  An execution that has   *)
(* claimed and lost the hold never gets it back (Gone), so what a pass     *)
(* concludes from a stale read that it does not hold the item is still     *)
(* true when it settles.  The resolver's edge does not move the item's     *)
(* revision: that it is still there at the compare-and-swap (Linked) rests *)
(* on who retypes edges, namely passes of an execution that held the item  *)
(* while the edge's owner did not, hence never will (Strays).  And a claim *)
(* that finds no edge finds the item unchanged only if nobody completed it *)
(* meanwhile (Claiming).                                                   *)
(***************************************************************************)
EXTENDS Completion, TLAPS

Drive(e) == <<e, "drive">>
Nobody == <<None, "nobody">>
Any == Execs \cup Nodes

ItemType == [rev : Nat, status : {"open", "done", "abandoned"}, hold : Execs \cup {None}]
RecType == [claimed : BOOLEAN, gates : {"running", "passed", "failed"},
            debt : {"none", "write", "withdraw", "retract"},
            settled : {"no", "written", "withdrawn", "consumed"},
            seen : SUBSET Any, was : {"open", "done", "abandoned"},
            shown : BOOLEAN, blind : BOOLEAN]
Label == {"idle", "claim", "claimed", "clear", "cleared", "retype", "twin", "reread",
          "restore", "retracted", "read", "decide", "confirm", "resolver", "put", "written",
          "withdraw", "unlink", "untwin", "withdrawn", "derive", "examined"}
AtType == [pc : Label, item : ItemType, cur : Any \cup {None}, own : Owns,
           inbound : SUBSET Any, todo : SUBSET Any,
           mode : {"none", "write", "retract", "withdraw", "cede"},
           failed : BOOLEAN, tries : Nat]

TypeOK ==
    /\ item \in ItemType
    /\ link \in [Any -> Links]
    /\ rec \in [Execs -> RecType]
    /\ at \in [Threads -> AtType]

\* The completion is on the item: recorded, or about to be.
Completed(e) == rec[e].settled = "written" \/ at[Drive(e)].pc = "written"

\* An execution that claimed the item, holds it no more and did not complete it.
Gone(e) == rec[e].claimed /\ item.hold # e /\ ~Completed(e)

-----------------------------------------------------------------------------
(* What a process relies on.                                               *)

\* A read of the item is older than the item, or is the item.
Snapshot(t) == at[t].item.rev < item.rev \/ at[t].item = item

\* The sweep only retracts.
Place(t) ==
    t[2] # "drive" =>
        /\ at[t].pc \in {"idle", "retype", "twin", "reread", "restore", "retracted"}
        /\ at[t].mode # "write"

\* A claim is asked for once, and finds an item nobody completed.
Claiming(t) ==
    /\ at[t].pc \in {"claim", "claimed"} => ~rec[Exec(t)].claimed
    /\ at[t].pc \notin {"idle", "claim", "claimed"} => rec[Exec(t)].claimed
    /\ at[t].pc = "claim" => at[t].item.hold \in {None, Exec(t)}
    /\ at[t].pc = "claim" /\ at[t].item.hold = None /\ Fresh(t) => \A n \in Execs : ~Completed(n)

\* A completion, and a status put back, is of an item that was held and not dropped.
Writing(t) ==
    \/ at[t].pc \in {"confirm", "resolver", "put"}
    \/ at[t].pc \in {"retype", "twin"} /\ at[t].mode = "write"
Aims(t) ==
    Writing(t) \/ at[t].pc = "restore" => at[t].item.hold = Exec(t) /\ ~GaveUp(at[t].item)

\* The resolver's edge, written or found, is there while the item is as it was.
Linked(t) ==
    Writing(t) /\ (at[t].pc = "put" \/ at[t].own.edge) /\ Fresh(t) => link[Exec(t)] = "resolves"

\* What is retyped is another's, who will not complete the item.
Stray(t, n) == n # Exec(t) /\ (n \in Execs => Gone(n))
Strays(t) == at[t].pc \in {"retype", "twin"} => \A n \in at[t].todo : Stray(t, n)

\* What was read decides: who held the item then, and whose edges were on it.
Reading(t) ==
    at[t].pc \in {"decide", "derive"} =>
        /\ at[t].item.hold # Exec(t) => item.hold # Exec(t)
        /\ at[t].item.hold = Exec(t) => \A n \in at[t].inbound \ {Exec(t)} : Stray(t, n)

\* The edge of a withdrawal's resolver is off, or its read failed.
Untied(e) == link[e] = "resolves" => rec[e].blind

\* A withdrawal takes the edge first, and is recorded once the hold is gone.
Leaving(t) ==
    /\ at[t].pc = "untwin" => link[Exec(t)] # "resolves"
    /\ at[t].pc \in {"clear", "cleared", "withdrawn"} => Untied(Exec(t))
    /\ at[t].pc \in {"withdraw", "unlink", "untwin"} /\ at[t].mode # "withdraw" => item.hold # Exec(t)
    /\ at[t].pc = "withdrawn" => item.hold # Exec(t)
    /\ at[t].pc = "cleared" => at[t].item.hold = Exec(t)

Own(t) ==
    /\ Snapshot(t) /\ Place(t) /\ Claiming(t) /\ Aims(t) /\ Linked(t) /\ Strays(t)
    /\ Reading(t) /\ Leaving(t)

-----------------------------------------------------------------------------
(* What holds of an execution.                                             *)

Stands(e) == Completed(e) => link[e] = "resolves" /\ item.status = "done" /\ item.hold = None
Parked(e) == rec[e].settled # "no" => at[Drive(e)].pc = "idle" /\ rec[e].claimed
Edged(e) == link[e] = "resolves" => rec[e].claimed
Clean(e) ==
    rec[e].settled \in {"withdrawn", "consumed"} =>
        item.hold # e /\ (rec[e].settled = "withdrawn" => Untied(e))

\* The item as it was created has revision 0.
Untouched == item.rev > 0 \/ item = Idle.item

IInv ==
    /\ TypeOK /\ Untouched
    /\ \A t \in Threads : Own(t)
    /\ \A e \in Execs : Stands(e) /\ Parked(e) /\ Edged(e) /\ Clean(e)

-----------------------------------------------------------------------------
\* The processes: the driver of a record, and the sweep of a swept one.
LEMMA ThreadFacts ==
    /\ \A t \in Threads : Exec(t) \in Execs /\ (t[2] = "drive" => t = Drive(Exec(t)))
    /\ \A e \in Execs : Drive(e) \in Threads /\ Exec(Drive(e)) = e /\ Drive(e)[2] = "drive"
    /\ \A e, n \in Execs : Drive(e) = Drive(n) => e = n
    /\ \A e \in Execs : Drive(e) # Nobody
    /\ None \notin Execs
<1>1. ASSUME NEW t \in Threads
      PROVE  Exec(t) \in Execs /\ (t[2] = "drive" => t = Drive(Exec(t)))
  <2>1. CASE t \in Execs \X {"drive"}
    BY <2>1 DEF Exec, Drive
  <2>2. CASE t \in Swept \X {"sweep"}
    BY <2>2, ConstantsAssumption DEF Exec
  <2> QED
    BY <2>1, <2>2 DEF Threads
<1>2. ASSUME NEW e \in Execs
      PROVE  /\ Drive(e) \in Threads /\ Exec(Drive(e)) = e /\ Drive(e)[2] = "drive"
             /\ Drive(e) # Nobody
  BY <1>2 DEF Threads, Exec, Drive, Nobody
<1>3. \A e, n \in Execs : Drive(e) = Drive(n) => e = n
  BY DEF Drive
<1> QED
  BY <1>1, <1>2, <1>3, ConstantsAssumption

\* What an idle process remembers.
LEMMA IdleFacts ==
    /\ Idle \in AtType /\ Idle.pc = "idle" /\ Idle.mode = "none" /\ Idle.own = Absent
    /\ Absent \in Owns /\ Absent.edge = FALSE
    /\ Idle.todo = {} /\ Idle.inbound = {} /\ Idle.item.rev = 0 /\ Idle.item \in ItemType
    /\ Idle.item = [rev |-> 0, status |-> "open", hold |-> None]
<1>1. [rev |-> 0, status |-> "open", hold |-> None] \in ItemType
  BY DEF ItemType
<1>2. Idle.item = [rev |-> 0, status |-> "open", hold |-> None]
  BY DEF Idle
<1>3. Absent \in Owns /\ Absent.edge = FALSE
  BY DEF Absent, Owns
<1>4. Idle \in AtType
  BY <1>1, <1>3 DEF Idle, AtType, Label
<1> QED
  BY <1>1, <1>2, <1>3, <1>4 DEF Idle

\* Initially nothing is claimed, linked or read.
LEMMA InitIInv == Init => IInv
<1> SUFFICES ASSUME Init PROVE IInv
  OBVIOUS
<1> DEFINE x == [claimed |-> FALSE, gates |-> "running", debt |-> "none", settled |-> "no",
                 seen |-> {}, was |-> "open", shown |-> FALSE, blind |-> FALSE]
<1>1. x \in RecType /\ x.claimed = FALSE /\ x.settled = "no"
  BY DEF RecType
<1>2. rec = [e \in Execs |-> x] /\ item = Idle.item /\ at = [t \in Threads |-> Idle]
  BY IdleFacts DEF Init
<1> HIDE DEF x
<1>3. link = [n \in Any |-> "none"]
  BY DEF Init, Any
<1>4. TypeOK /\ Untouched
  BY <1>1, <1>2, <1>3, IdleFacts DEF TypeOK, Links, Untouched
<1>5. ASSUME NEW t \in Threads PROVE Own(t)
  <2>1. at[t] = Idle
    BY <1>2
  <2> QED
    BY <1>2, <2>1, IdleFacts
    DEF Own, Snapshot, Place, Claiming, Aims, Writing, Linked, Strays, Reading, Leaving
<1>6. ASSUME NEW e \in Execs PROVE Stands(e) /\ Parked(e) /\ Edged(e) /\ Clean(e)
  <2>1. at[Drive(e)] = Idle /\ rec[e] = x /\ link[e] = "none"
    BY <1>2, <1>3, ThreadFacts DEF Any
  <2> QED
    BY <1>1, <2>1, IdleFacts DEF Stands, Completed, Parked, Edged, Clean
<1> QED
  BY <1>4, <1>5, <1>6 DEF IInv

-----------------------------------------------------------------------------
(* What a step of process t (or of a person, Nobody) guarantees to the     *)
(* other processes.                                                        *)

ItemMoves == item' = item \/ item'.rev = item.rev + 1
DropStands == GaveUp(item) => GaveUp(item')

Claims(t, n) == rec'[n].claimed = rec[n].claimed \/ (rec'[n].claimed /\ t = Drive(n))
Kept(n) == rec'[n].settled = rec[n].settled /\ rec'[n].blind = rec[n].blind
Settles(t, n) == Kept(n) \/ t = Drive(n)
Takes(t, n) == item'.hold = n => item.hold = n \/ (t = Drive(n) /\ at[t].pc = "claim")
Links1(t, n) == link'[n] = "resolves" => link[n] = "resolves" \/ (t = Drive(n) /\ at[t].pc = "resolver")
Unlinks(t, n) ==
    link[n] = "resolves" /\ link'[n] # "resolves" => Gone(n) \/ (t = Drive(n) /\ at[t].pc = "unlink")
Completes(t, n) ==
    /\ Completed(n)' /\ ~Completed(n) =>
            t = Drive(n) /\ item.hold = n /\ item' # item /\ Stands(n)'
    /\ Completed(n) => item'.status = "done" /\ item'.hold = None

Guarantee(t) ==
    /\ \A s \in Threads : s # t => at'[s] = at[s]
    /\ ItemMoves /\ DropStands
    /\ \A n \in Execs : /\ Claims(t, n) /\ Settles(t, n) /\ Takes(t, n)
                        /\ Links1(t, n) /\ Unlinks(t, n) /\ Completes(t, n)

Mover == Threads \cup {Nobody}

\* An execution that has claimed the item and lost it does not get it back.
LEMMA GoneForGood ==
    ASSUME IInv, NEW t \in Mover, Guarantee(t), NEW n \in Execs
    PROVE  /\ rec[n].claimed => rec'[n].claimed
           /\ rec[n].claimed /\ item.hold # n => item'.hold # n
           /\ Gone(n) => Gone(n)'
<1>1. Claims(t, n) /\ Takes(t, n) /\ Completes(t, n)
  BY DEF Guarantee
<1>2. rec[n].claimed => rec'[n].claimed
  BY <1>1 DEF Claims
<1>3. rec[n].claimed /\ item.hold # n => item'.hold # n
  <2> SUFFICES ASSUME rec[n].claimed, item.hold # n, item'.hold = n PROVE FALSE
    OBVIOUS
  <2>1. t = Drive(n) /\ at[t].pc = "claim"
    BY <1>1 DEF Takes
  <2>2. Claiming(Drive(n)) /\ Exec(Drive(n)) = n
    BY ThreadFacts DEF IInv, Own
  <2> QED
    BY <2>1, <2>2 DEF Claiming
<1>4. Gone(n) => Gone(n)'
  BY <1>1, <1>2, <1>3 DEF Gone, Completes
<1> QED
  BY <1>2, <1>3, <1>4

\* A process that does not move goes on relying on what it relied on.
LEMMA OtherKept ==
    ASSUME IInv, NEW t \in Mover, Guarantee(t), NEW s \in Threads, s # t
    PROVE  Own(s)'
<1> DEFINE e == Exec(s)
<1>1. Own(s) /\ at'[s] = at[s] /\ e \in Execs
  BY ThreadFacts DEF IInv, Guarantee
<1>2. at[s] \in AtType /\ item \in ItemType /\ at[s].item.rev \in Nat /\ item.rev \in Nat
  <2>1. at[s] \in AtType /\ item \in ItemType
    BY DEF IInv, TypeOK
  <2>2. at[s].item \in ItemType
    BY <2>1 DEF AtType
  <2> QED
    BY <2>1, <2>2 DEF ItemType
<1>3. item' = item \/ item'.rev = item.rev + 1
  BY DEF Guarantee, ItemMoves
<1>4. Snapshot(s)' /\ Place(s)'
  BY <1>1, <1>2, <1>3 DEF Own, Snapshot, Place
<1>5. Fresh(s)' => Fresh(s) /\ item' = item
  BY <1>1, <1>2, <1>3 DEF Own, Snapshot, Fresh
<1>6. s[2] = "drive" => t # Drive(e)
  BY ThreadFacts
<1>7. Claims(t, e) /\ Settles(t, e) /\ Takes(t, e) /\ Links1(t, e) /\ Unlinks(t, e)
  BY <1>1 DEF Guarantee
<1>8. Claiming(s)'
  <2>1. at[s].pc \in {"claim", "claimed"} => s[2] = "drive"
    BY <1>1 DEF Own, Place
  <2>2. at[s].pc \in {"claim", "claimed"} => ~rec'[e].claimed
    BY <1>1, <1>6, <1>7, <2>1 DEF Own, Claiming, Claims
  <2>3. at[s].pc \notin {"idle", "claim", "claimed"} => rec'[e].claimed
    BY <1>1, GoneForGood DEF Own, Claiming
  <2>4. item' = item => \A n \in Execs : Completed(n)' => Completed(n)
    BY DEF Guarantee, Completes
  <2>5. /\ at[s].pc = "claim" => at[s].item.hold \in {None, e}
        /\ at[s].pc = "claim" /\ at[s].item.hold = None /\ Fresh(s)'
                => \A n \in Execs : ~Completed(n)'
    BY <1>1, <1>5, <2>4 DEF Own, Claiming
  <2> QED
    BY <1>1, <2>2, <2>3, <2>5 DEF Claiming
<1>9. Aims(s)'
  BY <1>1 DEF Own, Aims, Writing
<1>10. Linked(s)'
  <2> SUFFICES ASSUME Writing(s), at[s].pc = "put" \/ at[s].own.edge, Fresh(s)'
               PROVE  link'[e] = "resolves"
    BY <1>1 DEF Linked, Writing
  <2>1. link[e] = "resolves" /\ at[s].item.hold = e /\ s[2] = "drive"
    BY <1>1, <1>5 DEF Own, Linked, Aims, Place, Writing
  <2>2. item.hold = e
    BY <1>1, <1>2, <1>5, <2>1 DEF Own, Snapshot, Fresh
  <2> QED
    BY <1>6, <1>7, <2>1, <2>2 DEF Unlinks, Gone
<1>11. \A n : Stray(s, n) => Stray(s, n)'
  BY GoneForGood DEF Stray
<1>12. Strays(s)'
  BY <1>1, <1>11 DEF Own, Strays
<1>13. Reading(s)'
  <2>1. at[s].pc \in {"decide", "derive"} => rec[e].claimed
    BY <1>1 DEF Own, Claiming
  <2>2. rec[e].claimed /\ item.hold # e => item'.hold # e
    BY <1>1, GoneForGood
  <2> QED
    BY <1>1, <1>11, <2>1, <2>2 DEF Own, Reading
<1>14. Leaving(s)'
  <2>1. at[s].pc \in {"untwin", "clear", "cleared", "withdrawn", "withdraw", "unlink"} =>
            s[2] = "drive" /\ rec[e].claimed
    BY <1>1 DEF Own, Place, Claiming
  <2>2. rec[e].claimed /\ item.hold # e => item'.hold # e
    BY <1>1, GoneForGood
  <2>3. /\ at[s].pc = "untwin" => link'[e] # "resolves"
        /\ at[s].pc \in {"clear", "cleared", "withdrawn"} => Untied(e)'
    BY <1>1, <1>6, <1>7, <2>1 DEF Own, Leaving, Links1, Settles, Kept, Untied
  <2> QED
    BY <1>1, <2>1, <2>2, <2>3 DEF Own, Leaving
<1> QED
  BY <1>4, <1>8, <1>9, <1>10, <1>12, <1>13, <1>14 DEF Own

\* A step keeps everything, if it keeps its guarantee, what its own process relies
\* on and what it settles.
LEMMA Moves ==
    ASSUME IInv, TypeOK', NEW t \in Mover, Guarantee(t), t \in Threads => Own(t)',
           \A n \in Execs : t = Drive(n) => Parked(n)',
           \A n \in Execs : Kept(n) \/ Clean(n)'
    PROVE  IInv' /\ DropStands
<1>1. \A s \in Threads : Own(s)'
  BY OtherKept
<1>2. Untouched'
  <2>1. item \in ItemType /\ ItemMoves /\ Untouched
    BY DEF IInv, TypeOK, Guarantee
  <2>2. item.rev \in Nat
    BY <2>1 DEF ItemType
  <2> QED
    BY <2>1, <2>2, IdleFacts DEF ItemMoves, Untouched
<1>3. ASSUME NEW n \in Execs PROVE (Stands(n) /\ Parked(n) /\ Edged(n) /\ Clean(n))'
  <2>g. /\ Claims(t, n) /\ Settles(t, n) /\ Links1(t, n) /\ Unlinks(t, n) /\ Completes(t, n)
        /\ Stands(n) /\ Parked(n) /\ Edged(n) /\ Clean(n)
    BY DEF Guarantee, IInv
  <2>a. t # Drive(n) => at'[Drive(n)] = at[Drive(n)]
    BY ThreadFacts DEF Guarantee
  <2>1. Stands(n)'
    <3>1. CASE Completed(n)
      <4>1. link[n] = "resolves" /\ item'.status = "done" /\ item'.hold = None
        BY <2>g, <3>1 DEF Stands, Completes
      <4>2. ~(t = Drive(n) /\ at[t].pc = "unlink")
        BY <2>g, <3>1 DEF Completed, Parked
      <4> QED
        BY <2>g, <3>1, <4>1, <4>2 DEF Stands, Unlinks, Gone
    <3>2. CASE ~Completed(n)
      BY <2>g, <3>2 DEF Completes, Stands
    <3> QED
      BY <3>1, <3>2
  <2>2. Parked(n)'
    BY <2>g, <2>a DEF Parked, Claims, Settles, Kept
  <2>3. Edged(n)'
    <3>1. rec[n].claimed => rec'[n].claimed
      BY GoneForGood
    <3>2. t = Drive(n) /\ at[t].pc = "resolver" => rec[n].claimed
      BY ThreadFacts DEF IInv, Own, Claiming
    <3> QED
      BY <2>g, <3>1, <3>2 DEF Edged, Links1
  <2>4. Clean(n)'
    <3> SUFFICES ASSUME Kept(n), rec[n].settled \in {"withdrawn", "consumed"}
                 PROVE  item'.hold # n /\ (rec[n].settled = "withdrawn" => Untied(n)')
      BY DEF Clean, Kept
    <3>1. at[Drive(n)].pc = "idle" /\ rec[n].claimed /\ item.hold # n
      BY <2>g DEF Parked, Clean
    <3>2. item'.hold # n
      BY <3>1, GoneForGood
    <3> QED
      BY <2>g, <3>1, <3>2 DEF Clean, Links1, Untied, Kept
  <2> QED
    BY <2>1, <2>2, <2>3, <2>4
<1> QED
  BY <1>1, <1>2, <1>3 DEF IInv, Guarantee

-----------------------------------------------------------------------------
(* The steps of the processes.                                             *)

Goes(t, a) == at' = [at EXCEPT ![t] = a]

\* What the invariant says of the process that moves.
LEMMA Mine ==
    ASSUME IInv, NEW t \in Threads
    PROVE  /\ Own(t) /\ Exec(t) \in Execs /\ Exec(t) \in Any
           /\ at \in [Threads -> AtType] /\ at[t] \in AtType
           /\ item \in ItemType /\ at[t].item \in ItemType /\ item.rev \in Nat
           /\ rec \in [Execs -> RecType] /\ rec[Exec(t)] \in RecType
           /\ link \in [Any -> Links]
           /\ Stands(Exec(t)) /\ Parked(Exec(t)) /\ Edged(Exec(t)) /\ Clean(Exec(t))
           /\ Fresh(t) => at[t].item = item
           /\ t[2] = "drive" => t = Drive(Exec(t))
           /\ t[2] = "drive" /\ at[t].pc # "idle" => rec[Exec(t)].settled = "no"
<1>1. /\ Own(t) /\ Exec(t) \in Execs /\ (t[2] = "drive" => t = Drive(Exec(t)))
      /\ Stands(Exec(t)) /\ Parked(Exec(t)) /\ Edged(Exec(t)) /\ Clean(Exec(t))
  BY ThreadFacts DEF IInv
<1>2. /\ at \in [Threads -> AtType] /\ rec \in [Execs -> RecType] /\ link \in [Any -> Links]
      /\ item \in ItemType
  BY DEF IInv, TypeOK
<1>3. at[t] \in AtType /\ rec[Exec(t)] \in RecType /\ Exec(t) \in Any
  BY <1>1, <1>2 DEF Any
<1>4. at[t].item \in ItemType
  BY <1>3 DEF AtType
<1>5. item.rev \in Nat /\ at[t].item.rev \in Nat
  BY <1>2, <1>4 DEF ItemType
<1>6. Fresh(t) => at[t].item = item
  BY <1>1, <1>5 DEF Own, Snapshot, Fresh
<1>7. t[2] = "drive" /\ at[t].pc # "idle" => rec[Exec(t)].settled = "no"
  BY <1>1 DEF Parked
<1> QED
  BY <1>1, <1>2, <1>3, <1>4, <1>5, <1>6, <1>7

\* Only the process that moves changes its place.
LEMMA GoesFacts ==
    ASSUME IInv, NEW t \in Threads, NEW a \in AtType, Goes(t, a)
    PROVE  at'[t] = a /\ at' \in [Threads -> AtType] /\ \A s \in Threads : s # t => at'[s] = at[s]
BY DEF Goes, IInv, TypeOK

\* A process that has read nothing relies on nothing but its label.
LEMMA Fresher ==
    ASSUME IInv, NEW t \in Threads, NEW a \in AtType, at'[t] = a,
           item' = item \/ item'.rev = item.rev + 1,
           a.item = Idle.item,
           a.pc \in {"idle", "read", "examined", "written", "withdraw", "withdrawn"},
           t[2] # "drive" => a.pc = "idle" /\ a.mode # "write",
           a.pc # "idle" => rec'[Exec(t)].claimed,
           a.pc = "withdraw" /\ a.mode # "withdraw" => item'.hold # Exec(t),
           a.pc = "withdrawn" => item'.hold # Exec(t) /\ Untied(Exec(t))'
    PROVE  Own(t)'
<1>1. item \in ItemType /\ item.rev \in Nat /\ Untouched
  BY Mine DEF IInv
<1>2. Snapshot(t)'
  BY <1>1, IdleFacts DEF Snapshot, Untouched
<1>3. Place(t)' /\ Claiming(t)'
  BY DEF Place, Claiming
<1>4. ~Writing(t)' /\ a.pc # "restore"
  BY DEF Writing
<1>5. Aims(t)' /\ Linked(t)' /\ Strays(t)'
  BY <1>4 DEF Aims, Linked, Strays
<1>6. Reading(t)' /\ Leaving(t)'
  BY DEF Reading, Leaving
<1> QED
  BY <1>2, <1>3, <1>5, <1>6 DEF Own

\* A step that leaves the graph alone: it reads, or it writes its run record.
LEMMA QuietKeeps ==
    ASSUME IInv, NEW t \in Threads, NEW a \in AtType, Goes(t, a),
           item' = item, link' = link, rec' \in [Execs -> RecType], a.pc # "written", Own(t)',
           \A n \in Execs :
                /\ Claims(t, n)
                /\ t = Drive(n) => Parked(n)'
                /\ \/ Kept(n)
                   \/ /\ t = Drive(n) /\ Clean(n)'
                      /\ rec'[n].settled = "written" => at[t].pc = "written"
    PROVE  IInv' /\ DropStands
<1>1. at'[t] = a /\ at' \in [Threads -> AtType] /\ \A s \in Threads : s # t => at'[s] = at[s]
  BY GoesFacts
<1>2. TypeOK'
  BY <1>1 DEF IInv, TypeOK
<1>3. ItemMoves /\ DropStands
  BY DEF ItemMoves, DropStands
<1>4. ASSUME NEW n \in Execs
      PROVE  Settles(t, n) /\ Takes(t, n) /\ Links1(t, n) /\ Unlinks(t, n) /\ Completes(t, n)
  <2>1. Settles(t, n) /\ Takes(t, n) /\ Links1(t, n) /\ Unlinks(t, n)
    BY DEF Settles, Takes, Links1, Unlinks
  <2>2. Completed(n)' => Completed(n)
    <3>1. CASE t = Drive(n)
      BY <1>1, <3>1 DEF Completed, Kept
    <3>2. CASE t # Drive(n)
      BY <1>1, <3>2, ThreadFacts DEF Completed, Kept
    <3> QED
      BY <3>1, <3>2
  <2>3. Completed(n) => item'.status = "done" /\ item'.hold = None
    BY DEF IInv, Stands
  <2> QED
    BY <2>1, <2>2, <2>3 DEF Completes
<1>5. Guarantee(t)
  BY <1>1, <1>3, <1>4 DEF Guarantee
<1>6. t \in Mover
  BY DEF Mover
<1> QED
  BY <1>2, <1>5, <1>6, Moves

\* A step that only moves its process.
LEMMA PassKeeps ==
    ASSUME IInv, NEW t \in Threads, NEW a \in AtType, Goes(t, a),
           item' = item, link' = link, rec' = rec, a.pc # "written", Own(t)',
           t[2] = "drive" => a.pc = "idle" \/ rec[Exec(t)].settled = "no"
    PROVE  IInv' /\ DropStands
<1>1. rec' \in [Execs -> RecType] /\ at'[t] = a
  BY GoesFacts DEF IInv, TypeOK
<1>2. ASSUME NEW n \in Execs PROVE Claims(t, n) /\ (t = Drive(n) => Parked(n)')
  <2>1. Claims(t, n)
    BY DEF Claims
  <2>2. Parked(n) /\ (t = Drive(n) => Exec(t) = n /\ t[2] = "drive")
    BY ThreadFacts DEF IInv
  <2> QED
    BY <1>1, <2>1, <2>2 DEF Parked
<1> QED
  BY <1>1, <1>2, QuietKeeps DEF Kept

\* A pass that ends without a word.
LEMMA ReturnKeeps ==
    ASSUME IInv, NEW t \in Threads, Return(t), item' = item, link' = link, rec' = rec
    PROVE  IInv' /\ DropStands
<1>1. Goes(t, Idle)
  BY DEF Return, Goes
<1>2. Own(t)'
  BY <1>1, GoesFacts, Fresher, IdleFacts
<1> QED
  BY <1>1, <1>2, PassKeeps, IdleFacts

-----------------------------------------------------------------------------
(* stampHold and clearHold.                                                *)

\* What a write of the item writes.
Wrote(i, s, h, j) == j = [i EXCEPT !.status = s, !.hold = h, !.rev = i.rev + 1]

\* What such a write leaves on the item.
LEMMA PutFacts ==
    ASSUME NEW i \in ItemType, NEW h \in Execs \cup {None},
           NEW s \in {"open", "done", "abandoned"}, NEW j, Wrote(i, s, h, j)
    PROVE  j \in ItemType /\ j.rev = i.rev + 1 /\ j.status = s /\ j.hold = h
<1> DEFINE r == i.rev + 1
<1>1. j = [i EXCEPT !.status = s, !.hold = h, !.rev = r] /\ r \in Nat
  BY DEF ItemType, Wrote
<1> HIDE DEF r
<1>2. j.rev = r /\ j.status = s /\ j.hold = h /\ j \in ItemType
  BY <1>1 DEF ItemType
<1> QED
  BY <1>2 DEF r

\* A write that keeps the status, and one that keeps the hold.
LEMMA PutPart ==
    ASSUME NEW i \in ItemType, NEW h, NEW s, NEW j
    PROVE  /\ j = [i EXCEPT !.hold = h, !.rev = i.rev + 1] => Wrote(i, i.status, h, j)
           /\ j = [i EXCEPT !.status = s, !.rev = i.rev + 1] => Wrote(i, s, i.hold, j)
           /\ i.status \in {"open", "done", "abandoned"} /\ i.hold \in Execs \cup {None}
BY DEF ItemType, Wrote

\* Whose edges are on the item.
LEMMA InboundFacts ==
    ASSUME IInv
    PROVE  Inbound \in SUBSET Any /\ \A n \in Any : n \in Inbound <=> link[n] = "resolves"
BY DEF IInv, TypeOK, Inbound

\* A claim that finds no edge, or its own hold, finds nothing completed.
LEMMA ClaimReadKeeps ==
    ASSUME IInv, NEW t \in Threads, ClaimRead(t) PROVE IInv' /\ DropStands
<1> DEFINE a == [Idle EXCEPT !.pc = "claim", !.item = item, !.inbound = Inbound]
<1>1. /\ Goes(t, a) /\ item' = item /\ link' = link /\ rec' = rec
      /\ t[2] = "drive" /\ at[t].pc = "idle" /\ ~rec[Exec(t)].claimed
      /\ (item.hold = None /\ Inbound = {}) \/ item.hold = Exec(t)
  BY DEF ClaimRead, Goes
<1>2. a \in AtType /\ a.pc = "claim" /\ a.item = item
  BY Mine, IdleFacts, InboundFacts DEF AtType, Label
<1> HIDE DEF a
<1>3. at'[t] = a
  BY <1>1, <1>2, GoesFacts
<1>4. item.hold = None => \A n \in Execs : ~Completed(n)'
  <2> SUFFICES ASSUME item.hold = None, NEW n \in Execs, Completed(n)' PROVE FALSE
    OBVIOUS
  <2>1. Completed(n)
    BY <1>1, <1>2, <1>3, ThreadFacts, GoesFacts DEF Completed
  <2>2. link[n] = "resolves" /\ n \in Any
    BY <2>1 DEF IInv, Stands, Any
  <2> QED
    BY <1>1, <2>2, InboundFacts, ThreadFacts
<1>5. Claiming(t)'
  BY <1>1, <1>2, <1>3, <1>4 DEF Claiming
<1>6. Own(t)'
  BY <1>1, <1>2, <1>3, <1>5
  DEF Own, Snapshot, Place, Aims, Writing, Linked, Strays, Reading, Leaving
<1>7. rec[Exec(t)].settled = "no"
  BY <1>1, Mine DEF Parked
<1> QED
  BY <1>1, <1>2, <1>6, <1>7, PassKeeps

\* The compare-and-swap that takes the hold.
LEMMA ClaimWriteKeeps ==
    ASSUME IInv, NEW t \in Threads, ClaimWrite(t) PROVE IInv' /\ DropStands
<1> DEFINE a == [at[t] EXCEPT !.pc = "claimed"]
<1>0. at[t].pc = "claim" /\ link' = link /\ rec' = rec
  BY DEF ClaimWrite
<1>1. t[2] = "drive" /\ ~rec[Exec(t)].claimed /\ rec[Exec(t)].settled = "no"
  BY <1>0, Mine DEF Own, Place, Claiming
<1>2. /\ a \in AtType /\ a.pc = "claimed" /\ a.item = at[t].item
  BY Mine DEF AtType, Label
<1>a. Goto(t, "claimed") => Goes(t, a)
  BY Mine DEF Goto, Goes
<1> HIDE DEF a
<1>3. ASSUME Goes(t, a), item' = item \/ item'.rev = item.rev + 1 PROVE Own(t)'
  <2>1. at'[t] = a
    BY <1>2, <1>3, GoesFacts
  <2>2. Snapshot(t)'
    <3>1. at[t].item.rev \in Nat
      BY Mine DEF ItemType
    <3> QED
      BY <1>2, <1>3, <2>1, <3>1, Mine DEF Own, Snapshot
  <2> QED
    BY <1>0, <1>1, <1>2, <2>1, <2>2
    DEF Own, Place, Claiming, Aims, Writing, Linked, Strays, Reading, Leaving
<1>4. CASE at[t].item.hold = Exec(t)
  BY <1>0, <1>1, <1>2, <1>3, <1>4, <1>a, PassKeeps DEF ClaimWrite
<1>5. CASE at[t].item.hold # Exec(t) /\ ~Fresh(t)
  BY <1>0, <1>5, ReturnKeeps DEF ClaimWrite
<1>6. CASE at[t].item.hold # Exec(t) /\ Fresh(t)
  <2>1. item' = [item EXCEPT !.hold = Exec(t), !.rev = item.rev + 1] /\ Goes(t, a)
    BY <1>6, <1>a DEF ClaimWrite, Put
  <2>2. /\ item' \in ItemType /\ item'.rev = item.rev + 1 /\ item'.status = item.status
        /\ item'.hold = Exec(t)
    <3>1. /\ Wrote(item, item.status, Exec(t), item')
          /\ item.status \in {"open", "done", "abandoned"}
      BY <2>1, PutPart, Mine
    <3>2. item \in ItemType /\ Exec(t) \in Execs \cup {None}
      BY Mine
    <3> QED
      BY <3>1, <3>2, PutFacts
  <2>3. item.hold = None /\ \A n \in Execs : ~Completed(n)
    BY <1>0, <1>6, Mine DEF Own, Claiming
  <2>4. at'[t] = a /\ at' \in [Threads -> AtType] /\ \A s \in Threads : s # t => at'[s] = at[s]
    BY <1>2, <2>1, GoesFacts
  <2>5. TypeOK'
    BY <1>0, <2>2, <2>4 DEF IInv, TypeOK
  <2>6. ASSUME NEW n \in Execs
        PROVE  /\ Claims(t, n) /\ Settles(t, n) /\ Takes(t, n)
               /\ Links1(t, n) /\ Unlinks(t, n) /\ Completes(t, n)
    <3>1. ~Completed(n)'
      BY <1>0, <1>2, <2>3, <2>4, ThreadFacts DEF Completed
    <3>2. Takes(t, n)
      BY <1>0, <1>1, <2>2, Mine DEF Takes
    <3> QED
      BY <1>0, <2>3, <3>1, <3>2 DEF Claims, Settles, Links1, Unlinks, Completes, Kept
  <2>7. Guarantee(t) /\ t \in Mover
    BY <2>2, <2>4, <2>6 DEF Guarantee, ItemMoves, DropStands, GaveUp, Mover
  <2>8. \A n \in Execs : t = Drive(n) => Parked(n)'
    BY <1>0, <1>1, ThreadFacts DEF Parked
  <2> QED
    BY <1>0, <1>3, <2>1, <2>2, <2>5, <2>7, <2>8, Moves DEF Kept
<1> QED
  BY <1>4, <1>5, <1>6

\* The pins of the claim reach the run record.
LEMMA RecordClaimKeeps ==
    ASSUME IInv, NEW t \in Threads, RecordClaim(t) PROVE IInv' /\ DropStands
<1> DEFINE e == Exec(t)
           x == [rec[e] EXCEPT !.claimed = TRUE, !.seen = at[t].inbound, !.was = at[t].item.status]
<1>1. at[t].pc = "claimed" /\ Goes(t, Idle) /\ item' = item /\ link' = link
  BY DEF RecordClaim, Return, Goes
<1>2. rec' = [rec EXCEPT ![e] = x]
  BY Mine DEF RecordClaim
<1>3. x \in RecType /\ x.claimed /\ x.settled = rec[e].settled /\ x.blind = rec[e].blind
  <2>1. at[t].inbound \in SUBSET Any /\ at[t].item.status \in {"open", "done", "abandoned"}
    BY Mine DEF AtType, ItemType
  <2> QED
    BY <2>1, Mine DEF RecType
<1> HIDE DEF x
<1>4. rec' \in [Execs -> RecType] /\ rec'[e] = x /\ \A n \in Execs : n # e => rec'[n] = rec[n]
  BY <1>2, <1>3, Mine
<1>5. t = Drive(e)
  BY <1>1, Mine DEF Own, Place
<1>6. Own(t)'
  BY <1>1, GoesFacts, Fresher, IdleFacts
<1>7. ASSUME NEW n \in Execs
      PROVE  Claims(t, n) /\ (t = Drive(n) => Parked(n)') /\ Kept(n)
  <2>1. CASE n = e
    BY <1>1, <1>3, <1>4, <1>5, <2>1, IdleFacts, GoesFacts DEF Claims, Parked, Kept
  <2>2. CASE n # e
    BY <1>4, <1>5, <2>2, ThreadFacts, Mine DEF Claims, Kept
  <2> QED
    BY <2>1, <2>2
<1> QED
  BY <1>1, <1>4, <1>6, <1>7, QuietKeeps, IdleFacts

\* A step that writes the item its execution holds.
LEMMA ItemKeeps ==
    ASSUME IInv, NEW t \in Threads, NEW a \in AtType, Goes(t, a), link' = link, rec' = rec,
           item' \in ItemType, item'.rev = item.rev + 1, DropStands,
           item.hold = Exec(t), item'.hold \in {None, Exec(t)}, Own(t)',
           t[2] = "drive" => a.pc = "idle" \/ rec[Exec(t)].settled = "no",
           a.pc = "written" => /\ t[2] = "drive" /\ link[Exec(t)] = "resolves"
                               /\ item'.status = "done" /\ item'.hold = None
    PROVE  IInv' /\ DropStands
<1>1. at'[t] = a /\ at' \in [Threads -> AtType] /\ \A s \in Threads : s # t => at'[s] = at[s]
  BY GoesFacts
<1>2. TypeOK'
  BY <1>1 DEF IInv, TypeOK
<1>3. Exec(t) \in Execs /\ None \notin Execs /\ item.rev \in Nat
  BY Mine, ThreadFacts
<1>4. \A n \in Execs : ~Completed(n)
  BY <1>3 DEF IInv, Stands
<1>5. ASSUME NEW n \in Execs
      PROVE  /\ Claims(t, n) /\ Settles(t, n) /\ Takes(t, n)
             /\ Links1(t, n) /\ Unlinks(t, n) /\ Completes(t, n)
  <2>1. Claims(t, n) /\ Settles(t, n) /\ Takes(t, n) /\ Links1(t, n) /\ Unlinks(t, n)
    BY <1>3 DEF Claims, Settles, Takes, Links1, Unlinks, Kept
  <2>2. ASSUME Completed(n)' PROVE t = Drive(n) /\ item.hold = n /\ item' # item /\ Stands(n)'
    <3>1. t = Drive(n) /\ a.pc = "written"
      BY <1>1, <1>4, <2>2, ThreadFacts DEF Completed
    <3>2. Exec(t) = n
      BY <3>1, ThreadFacts
    <3> QED
      BY <1>3, <3>1, <3>2 DEF Stands
  <2> QED
    BY <1>4, <2>1, <2>2 DEF Completes
<1>6. Guarantee(t) /\ t \in Mover
  BY <1>1, <1>5 DEF Guarantee, ItemMoves, Mover
<1>7. ASSUME NEW n \in Execs, t = Drive(n) PROVE Parked(n)'
  <2>1. Exec(t) = n /\ t[2] = "drive" /\ Parked(n)
    BY <1>7, ThreadFacts DEF IInv
  <2> QED
    BY <1>1, <1>7, <2>1 DEF Parked
<1> QED
  BY <1>2, <1>6, <1>7, Moves DEF Kept

\* What a process remembers when it enters a part of the pass anew.
LEMMA EnterFacts ==
    ASSUME NEW p \in Label
    PROVE  LET a == [Idle EXCEPT !.pc = p]
           IN  a \in AtType /\ a.pc = p /\ a.item = Idle.item /\ a.mode # "write"
BY IdleFacts DEF AtType

\* The hold's owner is read before it is cleared.
LEMMA ClearHoldReadKeeps ==
    ASSUME IInv, NEW t \in Threads, ClearHoldRead(t) PROVE IInv' /\ DropStands
<1>1. at[t].pc = "clear" /\ item' = item /\ link' = link /\ rec' = rec
  BY DEF ClearHoldRead
<1>2. /\ t[2] = "drive" /\ rec[Exec(t)].claimed /\ rec[Exec(t)].settled = "no"
      /\ Untied(Exec(t)) /\ Exec(t) \in Execs /\ None \notin Execs
  BY <1>1, Mine, ThreadFacts DEF Own, Place, Claiming, Leaving
<1>3. CASE item.hold = Exec(t)
  <2> DEFINE a == [at[t] EXCEPT !.pc = "cleared", !.item = item]
  <2>1. Goes(t, a)
    <3>1. at' = [at EXCEPT ![t].pc = "cleared", ![t].item = item]
      BY <1>2, <1>3 DEF ClearHoldRead
    <3>2. at \in [Threads -> AtType]
      BY Mine
    <3> QED
      BY <3>1, <3>2 DEF Goes
  <2>2. a \in AtType /\ a.pc = "cleared" /\ a.item = item
    BY Mine DEF AtType, Label
  <2> HIDE DEF a
  <2>3. at'[t] = a
    BY <2>1, <2>2, GoesFacts
  <2>4. Own(t)'
    BY <1>1, <1>2, <1>3, <2>2, <2>3
    DEF Own, Snapshot, Place, Claiming, Aims, Writing, Linked, Strays, Reading, Leaving, Untied
  <2> QED
    BY <1>1, <1>2, <2>1, <2>2, <2>4, PassKeeps
<1>4. CASE item.hold = None
  <2> DEFINE a == [Idle EXCEPT !.pc = "withdrawn"]
  <2>1. Goes(t, a)
    BY <1>2, <1>4 DEF ClearHoldRead, Goes, Enter
  <2>2. a \in AtType /\ a.pc = "withdrawn" /\ a.item = Idle.item
    BY EnterFacts DEF Label
  <2> HIDE DEF a
  <2>3. at'[t] = a
    BY <2>1, <2>2, GoesFacts
  <2>4. Own(t)'
    BY <1>1, <1>2, <1>4, <2>2, <2>3, Fresher DEF Untied
  <2> QED
    BY <1>1, <1>2, <2>1, <2>2, <2>4, PassKeeps
<1>5. CASE item.hold \notin {Exec(t), None}
  BY <1>1, <1>5, ReturnKeeps DEF ClearHoldRead
<1> QED
  BY <1>3, <1>4, <1>5

\* The hold ends at the revision it was read at, or is read again.
LEMMA ClearHoldWriteKeeps ==
    ASSUME IInv, NEW t \in Threads, ClearHoldWrite(t) PROVE IInv' /\ DropStands
<1>1. at[t].pc = "cleared" /\ link' = link /\ rec' = rec
  BY DEF ClearHoldWrite
<1>2. /\ t[2] = "drive" /\ rec[Exec(t)].claimed /\ rec[Exec(t)].settled = "no"
      /\ Untied(Exec(t)) /\ Exec(t) \in Execs /\ None \notin Execs
      /\ at[t].item.hold = Exec(t)
  BY <1>1, Mine, ThreadFacts DEF Own, Place, Claiming, Leaving
<1>3. CASE Fresh(t)
  <2> DEFINE a == [Idle EXCEPT !.pc = "withdrawn"]
  <2>1. Goes(t, a) /\ item' = [item EXCEPT !.hold = None, !.rev = item.rev + 1]
    BY <1>3 DEF ClearHoldWrite, Goes, Enter, Put
  <2>2. a \in AtType /\ a.pc = "withdrawn" /\ a.item = Idle.item
    BY EnterFacts DEF Label
  <2> HIDE DEF a
  <2>3. at'[t] = a
    BY <2>1, <2>2, GoesFacts
  <2>4. /\ item' \in ItemType /\ item'.rev = item.rev + 1 /\ item'.status = item.status
        /\ item'.hold = None
    <3>1. Wrote(item, item.status, None, item') /\ item.status \in {"open", "done", "abandoned"}
      BY <2>1, PutPart, Mine
    <3>2. item \in ItemType /\ None \in Execs \cup {None}
      BY Mine
    <3> QED
      BY <3>1, <3>2, PutFacts
  <2>5. Own(t)'
    BY <1>1, <1>2, <2>2, <2>3, <2>4, Fresher DEF Untied
  <2>6. DropStands /\ item.hold = Exec(t)
    BY <1>2, <1>3, <2>4, Mine DEF DropStands, GaveUp
  <2> QED
    BY <1>1, <1>2, <2>1, <2>2, <2>4, <2>5, <2>6, ItemKeeps
<1>4. CASE ~Fresh(t) /\ at[t].tries = 2
  BY <1>1, <1>4, ReturnKeeps DEF ClearHoldWrite, Return
<1>5. CASE ~Fresh(t) /\ at[t].tries # 2
  <2> DEFINE a == [at[t] EXCEPT !.pc = "clear", !.tries = at[t].tries + 1]
  <2>1. Goes(t, a) /\ item' = item
    BY <1>5 DEF ClearHoldWrite, Goes
  <2>2. a \in AtType /\ a.pc = "clear" /\ a.item = at[t].item
    <3>1. at[t] \in AtType
      BY Mine
    <3>2. at[t].tries + 1 \in Nat
      BY <3>1 DEF AtType
    <3> QED
      BY <3>1, <3>2 DEF AtType, Label
  <2> HIDE DEF a
  <2>3. at'[t] = a
    BY <2>1, <2>2, GoesFacts
  <2>4. Own(t)'
    BY <1>1, <1>2, <2>1, <2>2, <2>3, Mine
    DEF Own, Snapshot, Place, Claiming, Aims, Writing, Linked, Strays, Reading, Leaving, Untied
  <2> QED
    BY <1>1, <1>2, <2>1, <2>2, <2>4, PassKeeps
<1> QED
  BY <1>3, <1>4, <1>5

-----------------------------------------------------------------------------
(* retractPremature.                                                       *)

\* A step that writes no more of the run record than the debt.
LEMMA DebtFacts ==
    ASSUME IInv, NEW e \in Execs, NEW d \in {"none", "write", "withdraw", "retract"},
           rec' = [rec EXCEPT ![e].debt = d]
    PROVE  /\ rec' \in [Execs -> RecType]
           /\ \A n \in Execs : rec'[n].claimed = rec[n].claimed /\ Kept(n)
<1>1. rec \in [Execs -> RecType] /\ rec[e] \in RecType
  BY DEF IInv, TypeOK
<1>2. [rec[e] EXCEPT !.debt = d] \in RecType
  BY <1>1 DEF RecType
<1>3. rec' = [rec EXCEPT ![e] = [rec[e] EXCEPT !.debt = d]]
  BY <1>1
<1>4. rec' \in [Execs -> RecType]
  BY <1>1, <1>2, <1>3
<1>5. \A n \in Execs : rec'[n].claimed = rec[n].claimed /\ Kept(n)
  BY <1>1, <1>3 DEF RecType, Kept
<1> QED
  BY <1>4, <1>5

\* A step of a process that writes the debt and moves on keeps the invariant.
LEMMA DebtKeeps ==
    ASSUME IInv, NEW t \in Threads, NEW a \in AtType, Goes(t, a),
           NEW d \in {"none", "write", "withdraw", "retract"},
           item' = item, link' = link, rec' = [rec EXCEPT ![Exec(t)].debt = d],
           a.pc # "written", Own(t)',
           t[2] = "drive" => a.pc = "idle" \/ rec[Exec(t)].settled = "no"
    PROVE  IInv' /\ DropStands
<1>1. at'[t] = a /\ Exec(t) \in Execs
  BY GoesFacts, Mine
<1>2. /\ rec' \in [Execs -> RecType]
      /\ \A n \in Execs : rec'[n].claimed = rec[n].claimed /\ Kept(n)
  BY <1>1, DebtFacts
<1>3. ASSUME NEW n \in Execs PROVE Claims(t, n) /\ (t = Drive(n) => Parked(n)')
  <2>1. Claims(t, n)
    BY <1>2 DEF Claims
  <2>2. Parked(n) /\ (t = Drive(n) => Exec(t) = n /\ t[2] = "drive")
    BY ThreadFacts DEF IInv
  <2> QED
    BY <1>1, <1>2, <2>1, <2>2 DEF Parked
<1> QED
  BY <1>2, <1>3, QuietKeeps

\* A step that writes an edge.
LEMMA LinkKeeps ==
    ASSUME IInv, NEW t \in Threads, NEW a \in AtType, Goes(t, a),
           item' = item, link' \in [Any -> Links], rec' = rec, a.pc # "written", Own(t)',
           t[2] = "drive" => a.pc = "idle" \/ rec[Exec(t)].settled = "no",
           \A n \in Execs : Links1(t, n) /\ Unlinks(t, n)
    PROVE  IInv' /\ DropStands
<1>1. at'[t] = a /\ at' \in [Threads -> AtType] /\ \A s \in Threads : s # t => at'[s] = at[s]
  BY GoesFacts
<1>2. TypeOK'
  BY <1>1 DEF IInv, TypeOK
<1>3. ASSUME NEW n \in Execs
      PROVE  Claims(t, n) /\ Settles(t, n) /\ Takes(t, n) /\ Completes(t, n)
  <2>1. Claims(t, n) /\ Settles(t, n) /\ Takes(t, n)
    BY DEF Claims, Settles, Takes, Kept
  <2>2. Completed(n)' => Completed(n)
    BY <1>1, ThreadFacts DEF Completed
  <2>3. Completed(n) => item'.status = "done" /\ item'.hold = None
    BY DEF IInv, Stands
  <2> QED
    BY <2>1, <2>2, <2>3 DEF Completes
<1>4. Guarantee(t) /\ t \in Mover
  BY <1>1, <1>3 DEF Guarantee, ItemMoves, DropStands, Mover
<1>5. ASSUME NEW n \in Execs, t = Drive(n) PROVE Parked(n)'
  <2>1. Exec(t) = n /\ t[2] = "drive" /\ Parked(n)
    BY <1>5, ThreadFacts DEF IInv
  <2> QED
    BY <1>1, <1>5, <2>1 DEF Parked
<1> QED
  BY <1>2, <1>4, <1>5, Moves DEF Kept

\* Removing an edge and adding its twin.
LEMMA EdgeFacts ==
    ASSUME link \in [Any -> Links], NEW m
    PROVE  /\ RemoveEdge(m) => /\ link' \in [Any -> Links] /\ (m \in Any => link'[m] # "resolves")
                               /\ \A n \in Any : n # m => link'[n] = link[n]
           /\ AddRelates(m) => /\ link' \in [Any -> Links]
                               /\ \A n \in Any : link'[n] = "resolves" <=> link[n] = "resolves"
<1>1. ASSUME RemoveEdge(m)
      PROVE  /\ link' \in [Any -> Links] /\ (m \in Any => link'[m] # "resolves")
             /\ \A n \in Any : n # m => link'[n] = link[n]
  BY <1>1 DEF RemoveEdge, Links
<1>2. ASSUME AddRelates(m)
      PROVE  /\ link' \in [Any -> Links]
             /\ \A n \in Any : link'[n] = "resolves" <=> link[n] = "resolves"
  BY <1>2 DEF AddRelates, Links
<1> QED
  BY <1>1, <1>2

\* While an execution holds the item, the edges of others are stray.
LEMMA HeldStrays ==
    ASSUME IInv, NEW t \in Threads, item.hold = Exec(t), NEW n \in Inbound \ {Exec(t)}
    PROVE  Stray(t, n)
<1> SUFFICES ASSUME n \in Execs PROVE Gone(n)
  BY DEF Stray
<1>1. link[n] = "resolves" /\ Exec(t) # None
  BY Mine, ThreadFacts, InboundFacts
<1> QED
  BY <1>1 DEF IInv, Edged, Stands, Gone

\* What is stray to a process stays so while it reads or writes its record.
LEMMA StrayStays ==
    ASSUME IInv, NEW t \in Threads, \A s \in Threads : s # t => at'[s] = at[s], item' = item,
           \A m \in Execs : m # Exec(t) => /\ rec'[m].claimed = rec[m].claimed
                                           /\ rec'[m].settled = rec[m].settled,
           NEW n, Stray(t, n)
    PROVE  Stray(t, n)'
<1> SUFFICES ASSUME n \in Execs PROVE Gone(n)'
  BY DEF Stray
<1>1. n # Exec(t) /\ Gone(n) /\ Drive(n) # t /\ Drive(n) \in Threads
  BY ThreadFacts DEF Stray
<1> QED
  BY <1>1 DEF Gone, Completed

\* A process that goes on remembers the rest.
LEMMA GotoFacts ==
    ASSUME IInv, NEW t \in Threads, NEW p \in Label
    PROVE  LET a == [at[t] EXCEPT !.pc = p]
           IN  /\ a \in AtType /\ a.pc = p /\ a.item = at[t].item /\ a.own = at[t].own
               /\ a.inbound = at[t].inbound /\ a.todo = at[t].todo /\ a.mode = at[t].mode
               /\ Goto(t, p) => Goes(t, a)
<1>1. at \in [Threads -> AtType] /\ at[t] \in AtType
  BY Mine
<1> QED
  BY <1>1 DEF AtType, Goto, Goes

Sources == SUBSET Any
Modes == {"none", "write", "retract", "withdraw", "cede"}
Walks(t, i, inbound, m, a) == a = Retyping(t, i, inbound, m)

\* What the walk over the edges starts from.
LEMMA RetypingFacts ==
    ASSUME IInv, NEW t \in Threads, NEW i \in ItemType, NEW inbound \in Sources,
           NEW m \in Modes,
           NEW a, Walks(t, i, inbound, m, a)
    PROVE  /\ a \in AtType /\ a.pc = "retype" /\ a.item = i /\ a.mode = m /\ a.own = Absent
           /\ a.todo \subseteq inbound \ {Exec(t)}
<1>1. at[t].tries \in Nat /\ PrematureResolvers(Exec(t), inbound) \subseteq inbound \ {Exec(t)}
  BY Mine DEF AtType, PrematureResolvers
<1>2. PrematureResolvers(Exec(t), inbound) \in SUBSET Any
  BY <1>1 DEF Sources
<1> QED
  BY <1>1, <1>2, IdleFacts DEF Walks, Retyping, AtType, Label, Modes

\* A retract starts from the item its execution holds.
LEMMA RetractStartKeeps ==
    ASSUME IInv, NEW t \in Threads, RetractStart(t) PROVE IInv' /\ DropStands
<1> DEFINE e == Exec(t)
           a == Retyping(t, item, Inbound, "retract")
           d == IF rec[e].debt = "none" THEN "retract" ELSE rec[e].debt
<1>1. /\ rec[e].claimed /\ rec[e].settled = "no" /\ item.hold = e
      /\ item' = item /\ link' = link /\ Goes(t, a)
  BY DEF RetractStart, Goes
<1>2. rec' = [rec EXCEPT ![e].debt = d]
  BY Mine DEF RetractStart
<1>3. d \in {"none", "write", "withdraw", "retract"}
  BY Mine DEF RecType
<1>4. /\ a \in AtType /\ a.pc = "retype" /\ a.item = item /\ a.mode = "retract"
      /\ a.todo \subseteq Inbound \ {e}
  <2>1. item \in ItemType /\ Inbound \in Sources
    BY Mine, InboundFacts DEF Sources
  <2>2. Walks(t, item, Inbound, "retract", a)
    BY DEF Walks
  <2>3. "retract" \in Modes
    BY DEF Modes
  <2>4. a.pc = "retype" /\ a.mode = "retract"
    BY IdleFacts DEF Retyping, AtType
  <2> HIDE DEF a, d, e
  <2>5. a \in AtType /\ a.item = item /\ a.todo \subseteq Inbound \ {Exec(t)}
    BY <2>1, <2>2, <2>3, RetypingFacts
  <2> QED
    BY <2>4, <2>5 DEF e
<1> HIDE DEF a, d
<1>5. at'[t] = a /\ \A s \in Threads : s # t => at'[s] = at[s]
  BY <1>1, <1>4, GoesFacts
<1>6. \A n \in Execs : rec'[n].claimed = rec[n].claimed /\ Kept(n)
  BY <1>2, <1>3, DebtFacts, Mine
<1>7. \A n \in a.todo : Stray(t, n)'
  BY <1>1, <1>4, <1>5, <1>6, HeldStrays, StrayStays DEF Kept
<1>8. Own(t)'
  BY <1>1, <1>4, <1>5, <1>6, <1>7, Mine
  DEF Own, Snapshot, Place, Claiming, Aims, Writing, Linked, Strays, Reading, Leaving
<1> QED
  BY <1>1, <1>2, <1>3, <1>4, <1>8, DebtKeeps

\* An edge that is taken off was stray.
LEMMA RetypeRemoveKeeps ==
    ASSUME IInv, NEW t \in Threads, NEW n \in Any, RetypeRemove(t, n)
    PROVE  IInv' /\ DropStands
<1> DEFINE a == [at[t] EXCEPT !.pc = "twin", !.todo = at[t].todo \ {n}, !.cur = n]
<1>1. /\ at[t].pc = "retype" /\ n \in at[t].todo /\ item' = item /\ rec' = rec
      /\ RemoveEdge(n)
  BY DEF RetypeRemove
<1>2. Goes(t, a)
  <2>1. at' = [at EXCEPT ![t].pc = "twin", ![t].todo = @ \ {n}, ![t].cur = n]
    BY DEF RetypeRemove
  <2>2. at \in [Threads -> AtType]
    BY Mine
  <2> QED
    BY <2>1, <2>2 DEF Goes
<1>3. /\ a \in AtType /\ a.pc = "twin" /\ a.item = at[t].item /\ a.own = at[t].own
      /\ a.mode = at[t].mode /\ a.todo \subseteq at[t].todo
  <2>1. at[t] \in AtType /\ at[t].todo \ {n} \in SUBSET Any
    BY Mine DEF AtType
  <2> QED
    BY <2>1 DEF AtType, Label
<1> HIDE DEF a
<1>4. at'[t] = a /\ \A s \in Threads : s # t => at'[s] = at[s]
  BY <1>2, <1>3, GoesFacts
<1>5. Stray(t, n) /\ \A m \in a.todo : Stray(t, m)'
  <2>1. \A m \in at[t].todo : Stray(t, m)
    BY <1>1, Mine DEF Own, Strays
  <2> QED
    BY <1>1, <1>3, <1>4, <2>1, StrayStays
<1>6. /\ link' \in [Any -> Links] /\ link'[n] # "resolves"
      /\ \A m \in Any : m # n => link'[m] = link[m]
  BY <1>1, EdgeFacts, Mine
<1>7. link'[Exec(t)] = link[Exec(t)]
  BY <1>5, <1>6, Mine DEF Stray
<1>8. Own(t)'
  <2>1. Own(t)
    BY Mine
  <2> QED
    BY <1>1, <1>3, <1>4, <1>5, <1>7, <2>1
    DEF Own, Snapshot, Place, Claiming, Aims, Writing, Linked, Strays, Reading, Leaving, Fresh
<1>9. \A m \in Execs : Links1(t, m) /\ Unlinks(t, m)
  BY <1>5, <1>6 DEF Any, Links1, Unlinks, Stray
<1>10. t[2] = "drive" => rec[Exec(t)].settled = "no"
  BY <1>1, Mine
<1> QED
  BY <1>1, <1>2, <1>3, <1>6, <1>8, <1>9, <1>10, LinkKeeps

\* Its twin resolves nothing.
LEMMA RetypeAddKeeps ==
    ASSUME IInv, NEW t \in Threads, RetypeAdd(t) PROVE IInv' /\ DropStands
<1> DEFINE a == [at[t] EXCEPT !.pc = "retype", !.cur = None]
<1>1. at[t].pc = "twin" /\ item' = item /\ rec' = rec /\ AddRelates(at[t].cur)
  BY DEF RetypeAdd
<1>2. Goes(t, a)
  <2>1. at' = [at EXCEPT ![t].pc = "retype", ![t].cur = None]
    BY DEF RetypeAdd
  <2>2. at \in [Threads -> AtType]
    BY Mine
  <2> QED
    BY <2>1, <2>2 DEF Goes
<1>3. /\ a \in AtType /\ a.pc = "retype" /\ a.item = at[t].item /\ a.own = at[t].own
      /\ a.mode = at[t].mode /\ a.todo = at[t].todo
  <2>1. at[t] \in AtType
    BY Mine
  <2> QED
    BY <2>1 DEF AtType, Label
<1> HIDE DEF a
<1>4. at'[t] = a /\ \A s \in Threads : s # t => at'[s] = at[s]
  BY <1>2, <1>3, GoesFacts
<1>5. \A m \in a.todo : Stray(t, m)'
  <2>1. \A m \in at[t].todo : Stray(t, m)
    BY <1>1, Mine DEF Own, Strays
  <2> QED
    BY <1>1, <1>3, <1>4, <2>1, StrayStays
<1>6. /\ link' \in [Any -> Links]
      /\ \A m \in Any : link'[m] = "resolves" <=> link[m] = "resolves"
  BY <1>1, EdgeFacts, Mine
<1>7. link'[Exec(t)] = "resolves" <=> link[Exec(t)] = "resolves"
  BY <1>6, Mine
<1>8. Own(t)'
  <2>1. Own(t)
    BY Mine
  <2> QED
    BY <1>1, <1>3, <1>4, <1>5, <1>7, <2>1
    DEF Own, Snapshot, Place, Claiming, Aims, Writing, Linked, Strays, Reading, Leaving, Fresh
<1>9. \A m \in Execs : Links1(t, m) /\ Unlinks(t, m)
  BY <1>6 DEF Any, Links1, Unlinks
<1>10. t[2] = "drive" => rec[Exec(t)].settled = "no"
  BY <1>1, Mine
<1> QED
  BY <1>1, <1>2, <1>3, <1>6, <1>8, <1>9, <1>10, LinkKeeps

\* The walk ends; a write goes on with what it relied on.
LEMMA RetypeDoneKeeps ==
    ASSUME IInv, NEW t \in Threads, RetypeDone(t) PROVE IInv' /\ DropStands
<1>1. at[t].pc = "retype" /\ item' = item /\ link' = link /\ rec' = rec
  BY DEF RetypeDone
<1>2. CASE Return(t)
  BY <1>1, <1>2, ReturnKeeps
<1>3. CASE ~Return(t)
  <2>1. PICK p \in {"confirm", "reread", "retracted"} :
            Goto(t, p) /\ (p = "confirm" <=> at[t].mode = "write")
    BY <1>3 DEF RetypeDone
  <2> DEFINE a == [at[t] EXCEPT !.pc = p]
  <2>2. /\ a \in AtType /\ a.pc = p /\ a.item = at[t].item /\ a.own = at[t].own
        /\ a.mode = at[t].mode /\ Goes(t, a)
    <3>1. p \in Label
      BY DEF Label
    <3> QED
      BY <2>1, <3>1, GotoFacts
  <2> HIDE DEF a
  <2>3. at'[t] = a
    BY <2>2, GoesFacts
  <2>4. Own(t) /\ (t[2] = "drive" => rec[Exec(t)].settled = "no")
    BY <1>1, Mine
  <2>5. Own(t)'
    BY <1>1, <2>1, <2>2, <2>3, <2>4
    DEF Own, Snapshot, Place, Claiming, Aims, Writing, Linked, Strays, Reading, Leaving, Fresh
  <2> QED
    BY <1>1, <2>1, <2>2, <2>4, <2>5, PassKeeps
<1> QED
  BY <1>2, <1>3

\* The status is put back only on an item that is held and was not dropped.
LEMMA RestoreReadKeeps ==
    ASSUME IInv, NEW t \in Threads, RestoreRead(t) PROVE IInv' /\ DropStands
<1>1. at[t].pc = "reread" /\ item' = item /\ link' = link /\ rec' = rec
  BY DEF RestoreRead
<1>2. PICK p \in {"restore", "retracted"} :
          /\ at' = [at EXCEPT ![t].item = item, ![t].pc = p]
          /\ p = "restore" => item.hold = Exec(t) /\ ~GaveUp(item)
  BY DEF RestoreRead
<1> DEFINE a == [at[t] EXCEPT !.item = item, !.pc = p]
<1>3. Goes(t, a)
  <2>1. at \in [Threads -> AtType]
    BY Mine
  <2> QED
    BY <1>2, <2>1 DEF Goes
<1>4. a \in AtType /\ a.pc = p /\ a.item = item /\ a.mode = at[t].mode
  <2>1. at[t] \in AtType /\ item \in ItemType
    BY Mine
  <2> QED
    BY <2>1 DEF AtType, Label
<1> HIDE DEF a
<1>5. at'[t] = a
  BY <1>3, <1>4, GoesFacts
<1>6. Own(t) /\ (t[2] = "drive" => rec[Exec(t)].settled = "no")
  BY <1>1, Mine
<1>7. Own(t)'
  BY <1>1, <1>2, <1>4, <1>5, <1>6
  DEF Own, Snapshot, Place, Claiming, Aims, Writing, Linked, Strays, Reading, Leaving
<1> QED
  BY <1>1, <1>3, <1>4, <1>6, <1>7, PassKeeps

\* The status is put back by a compare-and-swap on the revision that was read.
LEMMA RestoreWriteKeeps ==
    ASSUME IInv, NEW t \in Threads, RestoreWrite(t) PROVE IInv' /\ DropStands
<1> DEFINE f == at[t].failed \/ ~Fresh(t)
           a == [at[t] EXCEPT !.pc = "retracted", !.failed = f]
<1>1. at[t].pc = "restore" /\ link' = link /\ rec' = rec
  BY DEF RestoreWrite
<1>2. Goes(t, a)
  <2>1. at' = [at EXCEPT ![t].pc = "retracted", ![t].failed = @ \/ ~Fresh(t)]
    BY DEF RestoreWrite
  <2>2. at \in [Threads -> AtType]
    BY Mine
  <2> QED
    BY <2>1, <2>2 DEF Goes
<1>3. f \in BOOLEAN
  OBVIOUS
<1> HIDE DEF f
<1>4. a \in AtType /\ a.pc = "retracted" /\ a.item = at[t].item /\ a.mode = at[t].mode
  <2>1. at[t] \in AtType
    BY Mine
  <2> QED
    BY <1>3, <2>1 DEF AtType, Label
<1> HIDE DEF a
<1>5. at'[t] = a
  BY <1>2, <1>4, GoesFacts
<1>6. Own(t) /\ (t[2] = "drive" => rec[Exec(t)].settled = "no") /\ item.rev \in Nat
  BY <1>1, Mine
<1>7. CASE ~Fresh(t)
  <2>1. item' = item
    BY <1>7 DEF RestoreWrite
  <2>2. Own(t)'
    BY <1>1, <1>4, <1>5, <1>6, <2>1
    DEF Own, Snapshot, Place, Claiming, Aims, Writing, Linked, Strays, Reading, Leaving
  <2> QED
    BY <1>1, <1>2, <1>4, <1>6, <2>1, <2>2, PassKeeps
<1>8. CASE Fresh(t)
  <2>1. item.hold = Exec(t) /\ ~GaveUp(item) /\ at[t].item = item
    BY <1>1, <1>8, Mine DEF Own, Aims
  <2> DEFINE s == rec[Exec(t)].was
  <2>2. Wrote(item, s, item.hold, item')
    <3>1. item' = [item EXCEPT !.status = s, !.rev = item.rev + 1]
      BY <1>8, Mine DEF RestoreWrite
    <3>2. item \in ItemType
      BY Mine
    <3> QED
      BY <3>1, <3>2, PutPart
  <2>3. item' \in ItemType /\ item'.rev = item.rev + 1 /\ item'.hold = item.hold
    <3>1. s \in {"open", "done", "abandoned"}
      BY Mine DEF RecType
    <3>2. item \in ItemType /\ item.hold \in Execs \cup {None}
      BY Mine DEF ItemType
    <3> QED
      BY <2>2, <3>1, <3>2, PutFacts
  <2>4. Snapshot(t)'
    BY <1>4, <1>5, <1>6, <2>1, <2>3 DEF Snapshot
  <2>5. Own(t)'
    BY <1>1, <1>4, <1>5, <1>6, <2>4
    DEF Own, Place, Claiming, Aims, Writing, Linked, Strays, Reading, Leaving
  <2>6. DropStands
    BY <2>1 DEF DropStands
  <2> QED
    BY <1>1, <1>2, <1>4, <1>6, <2>1, <2>3, <2>5, <2>6, ItemKeeps
<1> QED
  BY <1>7, <1>8

\* A retract that is done clears its own debt and no other.
LEMMA RetractedKeeps ==
    ASSUME IInv, NEW t \in Threads, Retracted(t) PROVE IInv' /\ DropStands
<1> DEFINE e == Exec(t)
           d == IF at[t].failed \/ rec[e].debt # "retract" THEN rec[e].debt ELSE "none"
<1>1. Goes(t, Idle) /\ item' = item /\ link' = link
  BY DEF Retracted, Return, Goes
<1>2. rec' = [rec EXCEPT ![e].debt = d]
  BY Mine DEF Retracted
<1>3. d \in {"none", "write", "withdraw", "retract"}
  BY Mine DEF RecType
<1> HIDE DEF d
<1>4. Own(t)'
  BY <1>1, GoesFacts, Fresher, IdleFacts
<1> QED
  BY <1>1, <1>2, <1>3, <1>4, DebtKeeps, IdleFacts

-----------------------------------------------------------------------------
(* writeCompletion, consume and withdrawCompletion.                        *)

\* The end of a pass that settles its record.
LEMMA EndKeeps ==
    ASSUME IInv, NEW t \in Threads, t[2] = "drive", rec[Exec(t)].claimed,
           NEW x \in RecType, rec' = [rec EXCEPT ![Exec(t)] = x], x.claimed, x.settled # "no",
           Return(t), item' = item, link' = link,
           x.settled = "written" => at[t].pc = "written",
           x.settled # "written" => item.hold # Exec(t),
           x.settled = "withdrawn" /\ link[Exec(t)] = "resolves" => x.blind
    PROVE  IInv' /\ DropStands
<1> DEFINE e == Exec(t)
<1>1. Goes(t, Idle) /\ e \in Execs /\ t = Drive(e)
  BY Mine DEF Return, Goes
<1>2. rec' \in [Execs -> RecType] /\ rec'[e] = x /\ \A n \in Execs : n # e => rec'[n] = rec[n]
  BY Mine
<1>3. Own(t)'
  BY <1>1, GoesFacts, Fresher, IdleFacts
<1>4. ASSUME NEW n \in Execs
      PROVE  /\ Claims(t, n) /\ (t = Drive(n) => Parked(n)')
             /\ \/ Kept(n)
                \/ /\ t = Drive(n) /\ Clean(n)'
                   /\ rec'[n].settled = "written" => at[t].pc = "written"
  <2>1. CASE n = e
    <3>1. Claims(t, n)
      BY <1>2, <2>1 DEF Claims
    <3>2. at'[Drive(n)].pc = "idle"
      BY <1>1, <2>1, IdleFacts, GoesFacts
    <3>3. Parked(n)'
      BY <1>2, <2>1, <3>2 DEF Parked
    <3>4. Clean(n)'
      BY <1>2, <2>1 DEF Clean, Untied
    <3> QED
      BY <1>1, <1>2, <2>1, <3>1, <3>3, <3>4
  <2>2. CASE n # e
    BY <1>1, <1>2, <2>2, ThreadFacts DEF Claims, Kept
  <2> QED
    BY <2>1, <2>2
<1> QED
  BY <1>1, <1>2, <1>3, <1>4, QuietKeeps, IdleFacts

\* A record that says how its completion settled.
LEMMA SettleKeeps ==
    ASSUME IInv, NEW t \in Threads, t[2] = "drive", rec[Exec(t)].claimed,
           NEW how \in {"written", "withdrawn", "consumed"},
           Settle(Exec(t), how), Return(t), item' = item, link' = link,
           how = "written" => at[t].pc = "written",
           how # "written" => item.hold # Exec(t),
           how = "withdrawn" => Untied(Exec(t))
    PROVE  IInv' /\ DropStands
<1> DEFINE e == Exec(t)
           x == [rec[e] EXCEPT !.settled = how, !.debt = "none"]
<1>1. rec' = [rec EXCEPT ![e] = x]
  BY Mine DEF Settle
<1>2. x \in RecType /\ x.claimed /\ x.settled = how /\ x.blind = rec[e].blind
  <2>1. rec[e] \in RecType
    BY Mine
  <2> QED
    BY <2>1 DEF RecType
<1> HIDE DEF x
<1> QED
  BY <1>1, <1>2, EndKeeps DEF Untied

\* A record released by a person, whatever its resolver was read to be.
LEMMA ReleaseKeeps ==
    ASSUME IInv, NEW t \in Threads, t[2] = "drive", rec[Exec(t)].claimed,
           NEW b \in BOOLEAN, Release(Exec(t), b), Return(t), item' = item, link' = link,
           item.hold # Exec(t), link[Exec(t)] = "resolves" => b
    PROVE  IInv' /\ DropStands
<1> DEFINE e == Exec(t)
           x == [rec[e] EXCEPT !.settled = "withdrawn", !.debt = "none", !.blind = b]
<1>1. rec' = [rec EXCEPT ![e] = x]
  BY Mine DEF Release
<1>2. x \in RecType /\ x.claimed /\ x.settled = "withdrawn" /\ x.blind = b
  <2>1. rec[e] \in RecType
    BY Mine
  <2> QED
    BY <2>1 DEF RecType
<1> HIDE DEF x
<1> QED
  BY <1>1, <1>2, EndKeeps

\* What a read of the resolver shows: the edge, or a failed read.
LEMMA OwnFacts ==
    ASSUME NEW e, NEW own, ReadsOwn(e, own)
    PROVE  /\ own \in Owns /\ (own.edge => link[e] = "resolves")
           /\ ~own.edge /\ link[e] = "resolves" => own # OwnResolver(e)
<1>1. OwnResolver(e) \in Owns /\ (OwnResolver(e).edge <=> link[e] = "resolves")
  BY DEF OwnResolver, Owns
<1> QED
  BY <1>1, IdleFacts DEF ReadsOwn

\* The debt is owed before anything is written.
LEMMA WriteStartKeeps ==
    ASSUME IInv, NEW t \in Threads, WriteStart(t) PROVE IInv' /\ DropStands
<1> DEFINE a == [Idle EXCEPT !.pc = "read"]
<1>1. /\ Goes(t, a) /\ rec[Exec(t)].claimed /\ rec[Exec(t)].settled = "no" /\ t[2] = "drive"
      /\ rec' = [rec EXCEPT ![Exec(t)].debt = "write"] /\ item' = item /\ link' = link
  BY DEF WriteStart, Enter, Goes, BoundaryReached
<1>2. a \in AtType /\ a.pc = "read" /\ a.item = Idle.item
  BY EnterFacts DEF Label
<1> HIDE DEF a
<1>3. at'[t] = a /\ rec'[Exec(t)].claimed
  BY <1>1, <1>2, GoesFacts, DebtFacts, Mine
<1>4. Own(t)'
  BY <1>1, <1>2, <1>3, Fresher
<1> QED
  BY <1>1, <1>2, <1>4, DebtKeeps

\* The read of the item decides whose edges are stray.
LEMMA ReadItemKeeps ==
    ASSUME IInv, NEW t \in Threads, ReadItem(t) PROVE IInv' /\ DropStands
<1> DEFINE a == [at[t] EXCEPT !.pc = "decide", !.item = item, !.inbound = Inbound]
<1>1. at[t].pc = "read" /\ item' = item /\ link' = link /\ rec' = rec
  BY DEF ReadItem
<1>2. Goes(t, a)
  <2>1. at' = [at EXCEPT ![t].pc = "decide", ![t].item = item, ![t].inbound = Inbound]
    BY DEF ReadItem
  <2>2. at \in [Threads -> AtType]
    BY Mine
  <2> QED
    BY <2>1, <2>2 DEF Goes
<1>3. a \in AtType /\ a.pc = "decide" /\ a.item = item /\ a.inbound = Inbound
  <2>1. at[t] \in AtType /\ item \in ItemType /\ Inbound \in SUBSET Any
    BY Mine, InboundFacts
  <2> QED
    BY <2>1 DEF AtType, Label
<1> HIDE DEF a
<1>4. at'[t] = a /\ \A s \in Threads : s # t => at'[s] = at[s]
  BY <1>2, <1>3, GoesFacts
<1>5. item.hold = Exec(t) => \A n \in Inbound \ {Exec(t)} : Stray(t, n)'
  BY <1>1, <1>4, HeldStrays, StrayStays
<1>6. Own(t) /\ t[2] = "drive" /\ rec[Exec(t)].settled = "no"
  BY <1>1, Mine DEF Own, Place
<1>7. Own(t)'
  BY <1>1, <1>3, <1>4, <1>5, <1>6
  DEF Own, Snapshot, Place, Claiming, Aims, Writing, Linked, Strays, Reading, Leaving
<1> QED
  BY <1>1, <1>2, <1>3, <1>6, <1>7, PassKeeps

\* A withdrawal or a concession begins with the edge.
LEMMA WithdrawFacts ==
    ASSUME IInv, NEW t \in Threads, NEW touch \in BOOLEAN, WithdrawFrom(t, touch),
           item' = item, t[2] = "drive", rec'[Exec(t)].claimed, ~touch => item.hold # Exec(t)
    PROVE  \E a \in AtType : Goes(t, a) /\ a.pc = "withdraw" /\ Own(t)'
<1> DEFINE m == IF touch THEN "withdraw" ELSE "cede"
           a == [Idle EXCEPT !.pc = "withdraw", !.mode = m]
<1>1. Goes(t, a)
  BY DEF WithdrawFrom, Goes
<1>2. a \in AtType /\ a.pc = "withdraw" /\ a.item = Idle.item /\ a.mode = m
  BY IdleFacts DEF AtType, Label
<1>3. m = "withdraw" \/ ~touch
  OBVIOUS
<1> HIDE DEF a, m
<1>4. at'[t] = a
  BY <1>1, <1>2, GoesFacts
<1>5. Own(t)'
  BY <1>2, <1>3, <1>4, Fresher
<1> QED
  BY <1>1, <1>2, <1>5

\* What a pass does once it has read item and resolver.
Decided(t, own) ==
    LET e == Exec(t)
        i == at[t].item
    IN  CASE GaveUp(i) /\ (own.edge \/ i.hold = e) -> WithdrawFrom(t, TRUE) /\ UNCHANGED rec
          [] GaveUp(i) /\ ~own.edge /\ i.hold # e -> Settle(e, "consumed") /\ Return(t)
          [] ~GaveUp(i) /\ i.hold \notin {None, e} -> WithdrawFrom(t, FALSE) /\ UNCHANGED rec
          [] ~GaveUp(i) /\ i.hold = None /\ Terminal(i) -> Settle(e, "consumed") /\ Return(t)
          [] ~GaveUp(i) /\ i.hold = None /\ ~Terminal(i) /\ own.edge ->
                 WithdrawFrom(t, TRUE) /\ UNCHANGED rec
          [] ~GaveUp(i) /\ i.hold = None /\ ~Terminal(i) /\ ~own.edge ->
                 Release(e, own # OwnResolver(e)) /\ Return(t)
          [] OTHER -> /\ at' = [at EXCEPT ![t] = [Retyping(t, i, at[t].inbound, "write")
                                                       EXCEPT !.own = own]]
                      /\ UNCHANGED rec

\* What was read decides: write, withdraw, or leave the item to others.
LEMMA DecideKeeps ==
    ASSUME IInv, NEW t \in Threads, Decide(t) PROVE IInv' /\ DropStands
<1> DEFINE e == Exec(t)
           i == at[t].item
<1>0. PICK own \in Owns : ReadsOwn(e, own) /\ Decided(t, own)
  BY DEF Decide, Decided
<1>o. /\ own.edge \in BOOLEAN /\ (own.edge => link[e] = "resolves")
      /\ ~own.edge /\ link[e] = "resolves" => own # OwnResolver(e)
  BY <1>0, OwnFacts DEF Owns
<1>1. at[t].pc = "decide" /\ item' = item /\ link' = link
  BY DEF Decide
<1>2. /\ t[2] = "drive" /\ rec[e].claimed /\ rec[e].settled = "no" /\ e \in Execs /\ None \notin Execs
      /\ i.hold # e => item.hold # e
      /\ i.hold = e => \A n \in at[t].inbound \ {e} : Stray(t, n)
  BY <1>1, Mine, ThreadFacts DEF Own, Place, Claiming, Reading
<1>3. ASSUME NEW touch \in BOOLEAN, WithdrawFrom(t, touch), rec' = rec,
             ~touch => item.hold # e
      PROVE  IInv' /\ DropStands
  <2>1. PICK a \in AtType : Goes(t, a) /\ a.pc = "withdraw" /\ Own(t)'
    BY <1>1, <1>2, <1>3, WithdrawFacts
  <2> QED
    BY <1>1, <1>2, <1>3, <2>1, PassKeeps
<1>4. CASE GaveUp(i) /\ (own.edge \/ i.hold = e)
  BY <1>0, <1>3, <1>4 DEF Decided
<1>5. CASE GaveUp(i) /\ ~own.edge /\ i.hold # e
  BY <1>0, <1>1, <1>2, <1>5, SettleKeeps DEF Decided
<1>6. CASE ~GaveUp(i) /\ i.hold \notin {None, e}
  BY <1>0, <1>2, <1>3, <1>6 DEF Decided
<1>7. CASE ~GaveUp(i) /\ i.hold = None /\ Terminal(i)
  BY <1>0, <1>1, <1>2, <1>7, SettleKeeps DEF Decided
<1>8. CASE ~GaveUp(i) /\ i.hold = None /\ ~Terminal(i) /\ own.edge
  BY <1>0, <1>3, <1>8 DEF Decided
<1>9. CASE ~GaveUp(i) /\ i.hold = None /\ ~Terminal(i) /\ ~own.edge
  <2> DEFINE b == own # OwnResolver(e)
  <2>1. Release(e, b) /\ Return(t)
    BY <1>0, <1>9 DEF Decided
  <2>2. b \in BOOLEAN /\ (link[e] = "resolves" => b) /\ item.hold # e
    BY <1>2, <1>9, <1>o
  <2> HIDE DEF b
  <2> QED
    BY <1>1, <1>2, <2>1, <2>2, ReleaseKeeps
<1>10. CASE ~GaveUp(i) /\ i.hold = e
  <2> DEFINE b == Retyping(t, i, at[t].inbound, "write")
             a == [b EXCEPT !.own = own]
  <2>1. Goes(t, a) /\ rec' = rec
    BY <1>0, <1>2, <1>10 DEF Decided, Goes
  <2>2. b.pc = "retype" /\ b.mode = "write" /\ b.item = i
    BY IdleFacts DEF Retyping, AtType
  <2>3. b \in AtType /\ b.item = i /\ b.todo \subseteq at[t].inbound \ {e}
    <3>1. i \in ItemType /\ at[t].inbound \in Sources
      BY Mine DEF AtType, Sources
    <3>2. Walks(t, i, at[t].inbound, "write", b) /\ "write" \in Modes
      BY DEF Walks, Modes
    <3> HIDE DEF b, i, e
    <3>3. b \in AtType
      BY <3>1, <3>2, RetypingFacts
    <3>5. b.todo \subseteq at[t].inbound \ {Exec(t)}
      BY <3>1, <3>2, RetypingFacts
    <3> QED
      BY <2>2, <3>3, <3>5 DEF e
  <2>4. own \in Owns
    OBVIOUS
  <2> HIDE DEF b
  <2>5. /\ a \in AtType /\ a.pc = "retype" /\ a.mode = "write" /\ a.item = i
        /\ a.todo \subseteq at[t].inbound \ {e} /\ a.own = own
    BY <2>2, <2>3, <2>4 DEF AtType
  <2> HIDE DEF a
  <2>6. at'[t] = a /\ \A s \in Threads : s # t => at'[s] = at[s]
    BY <2>1, <2>5, GoesFacts
  <2>7. \A n \in a.todo : Stray(t, n)'
    BY <1>1, <1>2, <1>10, <2>1, <2>5, <2>6, StrayStays
  <2>8. Snapshot(t)' /\ Linked(t)'
    BY <1>1, <1>o, <2>5, <2>6, Mine DEF Own, Snapshot, Linked
  <2>9. Own(t)'
    BY <1>1, <1>2, <1>10, <2>1, <2>5, <2>6, <2>7, <2>8
    DEF Own, Place, Claiming, Aims, Writing, Strays, Reading, Leaving
  <2> QED
    BY <1>1, <1>2, <2>1, <2>5, <2>9, PassKeeps
<1> QED
  BY <1>4, <1>5, <1>6, <1>7, <1>8, <1>9, <1>10

\* The store confirms the execution, or the pass ends.
LEMMA ConfirmKeeps ==
    ASSUME IInv, NEW t \in Threads, Confirm(t) PROVE IInv' /\ DropStands
<1>1. at[t].pc = "confirm" /\ item' = item /\ link' = link /\ rec' = rec
  BY DEF Confirm
<1>2. CASE Return(t)
  BY <1>1, <1>2, ReturnKeeps
<1>3. CASE ~Return(t)
  <2>1. Goto(t, "resolver")
    BY <1>3 DEF Confirm
  <2> DEFINE a == [at[t] EXCEPT !.pc = "resolver"]
  <2>2. a \in AtType /\ a.pc = "resolver" /\ a.item = at[t].item /\ a.own = at[t].own /\ Goes(t, a)
    <3>1. "resolver" \in Label
      BY DEF Label
    <3> QED
      BY <2>1, <3>1, GotoFacts
  <2> HIDE DEF a
  <2>3. at'[t] = a
    BY <2>2, GoesFacts
  <2>4. Own(t) /\ t[2] = "drive" /\ rec[Exec(t)].settled = "no"
    BY <1>1, Mine DEF Own, Place
  <2>5. Own(t)'
    BY <1>1, <2>2, <2>3, <2>4
    DEF Own, Snapshot, Place, Claiming, Aims, Writing, Linked, Strays, Reading, Leaving, Fresh
  <2> QED
    BY <1>1, <2>2, <2>4, <2>5, PassKeeps
<1> QED
  BY <1>2, <1>3

\* The resolver's edge is written, unless it was read there.
LEMMA ResolverFacts ==
    ASSUME IInv, NEW t \in Threads, at[t].pc = "resolver", link' = ResolverLinked(t)
    PROVE  /\ link' \in [Any -> Links]
           /\ \A n \in Execs : Links1(t, n) /\ Unlinks(t, n)
           /\ ~at[t].own.edge => link'[Exec(t)] = "resolves"
           /\ link[Exec(t)] = "resolves" => link'[Exec(t)] = "resolves"
<1>1. t = Drive(Exec(t)) /\ link \in [Any -> Links] /\ Exec(t) \in Any
  BY Mine DEF Own, Place
<1>2. \/ link' = link /\ at[t].own.edge
      \/ link' = [link EXCEPT ![Exec(t)] = "resolves"]
  BY DEF ResolverLinked
<1>3. link' \in [Any -> Links] /\ \A n \in Any : n # Exec(t) => link'[n] = link[n]
  BY <1>1, <1>2 DEF Links
<1>4. link'[Exec(t)] = "resolves" \/ (at[t].own.edge /\ link'[Exec(t)] = link[Exec(t)])
  BY <1>1, <1>2
<1> QED
  BY <1>1, <1>3, <1>4 DEF Any, Links1, Unlinks

\* Writing the edge makes sure of it for the compare-and-swap that follows.
LEMMA WriteResolverKeeps ==
    ASSUME IInv, NEW t \in Threads, WriteResolver(t) PROVE IInv' /\ DropStands
<1>r. CASE Return(t) /\ link' = link
  <2>1. item' = item /\ rec' = rec
    BY DEF WriteResolver
  <2> QED
    BY <1>r, <2>1, ReturnKeeps
<1> SUFFICES ASSUME link' = ResolverLinked(t), Goto(t, "put") PROVE IInv' /\ DropStands
  BY <1>r DEF WriteResolver
<1> DEFINE a == [at[t] EXCEPT !.pc = "put"]
<1>1. at[t].pc = "resolver" /\ item' = item /\ rec' = rec /\ link' = ResolverLinked(t)
  BY DEF WriteResolver
<1>2. a \in AtType /\ a.pc = "put" /\ a.item = at[t].item /\ a.own = at[t].own /\ Goes(t, a)
  <2>1. Goto(t, "put") /\ "put" \in Label
    BY DEF Label
  <2> QED
    BY <2>1, GotoFacts
<1> HIDE DEF a
<1>3. at'[t] = a
  BY <1>2, GoesFacts
<1>4. Own(t) /\ t[2] = "drive" /\ rec[Exec(t)].settled = "no"
  BY <1>1, Mine DEF Own, Place
<1>5. /\ link' \in [Any -> Links] /\ \A n \in Execs : Links1(t, n) /\ Unlinks(t, n)
      /\ ~at[t].own.edge => link'[Exec(t)] = "resolves"
      /\ link[Exec(t)] = "resolves" => link'[Exec(t)] = "resolves"
  BY <1>1, ResolverFacts
<1>6. Linked(t)'
  BY <1>1, <1>2, <1>3, <1>4, <1>5 DEF Own, Linked, Writing, Fresh
<1>7. Own(t)'
  BY <1>1, <1>2, <1>3, <1>4, <1>6
  DEF Own, Snapshot, Place, Claiming, Aims, Writing, Strays, Reading, Leaving
<1> QED
  BY <1>1, <1>2, <1>4, <1>5, <1>7, LinkKeeps

\* The compare-and-swap finds the item held, not dropped, and the edge on it.
LEMMA CompletedFacts ==
    ASSUME IInv, NEW t \in Threads, at[t].pc = "put", Fresh(t),
           Put([item EXCEPT !.status = "done", !.hold = None])
    PROVE  /\ item' \in ItemType /\ item'.rev = item.rev + 1
           /\ item'.status = "done" /\ item'.hold = None
           /\ item.hold = Exec(t) /\ DropStands /\ link[Exec(t)] = "resolves"
           /\ t[2] = "drive" /\ rec[Exec(t)].settled = "no" /\ rec[Exec(t)].claimed
<1>1. item' = [item EXCEPT !.status = "done", !.hold = None, !.rev = item.rev + 1]
  BY DEF Put
<1>2. Wrote(item, "done", None, item')
  BY <1>1 DEF Wrote
<1>3. item \in ItemType /\ None \in Execs \cup {None} /\ "done" \in {"open", "done", "abandoned"}
  BY Mine
<1>4. item' \in ItemType /\ item'.rev = item.rev + 1 /\ item'.hold = None
  BY <1>2, <1>3, PutFacts
<1>5. item'.status = "done"
  BY <1>1, <1>3 DEF ItemType
<1>6. /\ item.hold = Exec(t) /\ ~GaveUp(item) /\ link[Exec(t)] = "resolves"
      /\ t[2] = "drive" /\ rec[Exec(t)].settled = "no" /\ rec[Exec(t)].claimed
  BY Mine DEF Own, Aims, Writing, Linked, Place, Claiming
<1> QED
  BY <1>4, <1>5, <1>6 DEF DropStands

\* The terminal status and the end of the hold are one write, or the pass starts over.
LEMMA PutCompletionKeeps ==
    ASSUME IInv, NEW t \in Threads, PutCompletion(t) PROVE IInv' /\ DropStands
<1>1. at[t].pc = "put" /\ link' = link /\ rec' = rec
  BY DEF PutCompletion
<1>2. CASE Fresh(t)
  <2> DEFINE a == [Idle EXCEPT !.pc = "written"]
  <2>1. Goes(t, a) /\ Put([item EXCEPT !.status = "done", !.hold = None])
    BY <1>2 DEF PutCompletion, Enter, Goes
  <2>2. a \in AtType /\ a.pc = "written" /\ a.item = Idle.item
    BY EnterFacts DEF Label
  <2> HIDE DEF a
  <2>3. at'[t] = a
    BY <2>1, <2>2, GoesFacts
  <2>4. /\ item' \in ItemType /\ item'.rev = item.rev + 1
        /\ item'.status = "done" /\ item'.hold = None
        /\ item.hold = Exec(t) /\ DropStands /\ link[Exec(t)] = "resolves"
        /\ t[2] = "drive" /\ rec[Exec(t)].settled = "no" /\ rec[Exec(t)].claimed
    BY <1>1, <1>2, <2>1, CompletedFacts
  <2>5. Own(t)'
    BY <1>1, <2>2, <2>3, <2>4, Fresher
  <2> QED
    BY <1>1, <2>1, <2>2, <2>4, <2>5, ItemKeeps
<1>3. CASE ~Fresh(t) /\ at[t].tries = 3
  BY <1>1, <1>3, ReturnKeeps DEF PutCompletion, Return
<1>4. CASE ~Fresh(t) /\ at[t].tries # 3
  <2> DEFINE k == at[t].tries + 1
             a == [Idle EXCEPT !.pc = "read", !.tries = k]
  <2>1. Goes(t, a) /\ item' = item
    BY <1>4 DEF PutCompletion, Goes
  <2>2. k \in Nat
    BY Mine DEF AtType
  <2> HIDE DEF k
  <2>3. a \in AtType /\ a.pc = "read" /\ a.item = Idle.item
    BY <2>2, IdleFacts DEF AtType, Label
  <2> HIDE DEF a
  <2>4. at'[t] = a
    BY <2>1, <2>3, GoesFacts
  <2>5. t[2] = "drive" /\ rec[Exec(t)].settled = "no" /\ rec[Exec(t)].claimed
    BY <1>1, Mine DEF Own, Place, Claiming
  <2>6. Own(t)'
    BY <1>1, <2>1, <2>3, <2>4, <2>5, Fresher
  <2> QED
    BY <1>1, <2>1, <2>3, <2>5, <2>6, PassKeeps
<1> QED
  BY <1>2, <1>3, <1>4

\* The record says written once the item says so.
LEMMA StampWrittenKeeps ==
    ASSUME IInv, NEW t \in Threads, StampWritten(t) PROVE IInv' /\ DropStands
<1>1. /\ at[t].pc = "written" /\ Settle(Exec(t), "written") /\ Return(t)
      /\ item' = item /\ link' = link
  BY DEF StampWritten
<1>2. t[2] = "drive" /\ rec[Exec(t)].claimed
  BY <1>1, Mine DEF Own, Place, Claiming
<1> QED
  BY <1>1, <1>2, SettleKeeps

\* The record says withdrawn once edge and hold are gone.
LEMMA StampWithdrawnKeeps ==
    ASSUME IInv, NEW t \in Threads, StampWithdrawn(t) PROVE IInv' /\ DropStands
<1>1. /\ at[t].pc = "withdrawn" /\ Settle(Exec(t), "withdrawn") /\ Return(t)
      /\ item' = item /\ link' = link
  BY DEF StampWithdrawn
<1>2. /\ t[2] = "drive" /\ rec[Exec(t)].claimed
      /\ item.hold # Exec(t) /\ Untied(Exec(t))
  BY <1>1, Mine DEF Own, Place, Claiming, Leaving
<1> QED
  BY <1>1, <1>2, SettleKeeps

\* A withdrawal takes its own edge back.
LEMMA UnlinkFacts ==
    ASSUME IInv, NEW t \in Threads,
           \/ at[t].pc = "unlink" /\ RemoveEdge(Exec(t))
           \/ at[t].pc = "untwin" /\ AddRelates(Exec(t))
    PROVE  /\ link' \in [Any -> Links] /\ link'[Exec(t)] # "resolves"
           /\ \A n \in Execs : Links1(t, n) /\ Unlinks(t, n)
           /\ t[2] = "drive" /\ rec[Exec(t)].settled = "no" /\ rec[Exec(t)].claimed
<1>1. /\ t = Drive(Exec(t)) /\ link \in [Any -> Links] /\ Exec(t) \in Any /\ t[2] = "drive"
      /\ rec[Exec(t)].settled = "no" /\ rec[Exec(t)].claimed
      /\ at[t].pc = "untwin" => link[Exec(t)] # "resolves"
  BY Mine DEF Own, Place, Claiming, Leaving
<1>2. /\ link' \in [Any -> Links] /\ link'[Exec(t)] # "resolves"
      /\ \A n \in Any : n # Exec(t) => (link'[n] = "resolves" <=> link[n] = "resolves")
      /\ link[Exec(t)] = "resolves" => at[t].pc = "unlink"
  <2>1. CASE at[t].pc = "unlink" /\ RemoveEdge(Exec(t))
    BY <1>1, <2>1, EdgeFacts
  <2>2. CASE at[t].pc = "untwin" /\ AddRelates(Exec(t))
    BY <1>1, <2>2, EdgeFacts
  <2> QED
    BY <2>1, <2>2
<1> QED
  BY <1>1, <1>2 DEF Any, Links1, Unlinks

\* A withdrawal goes on without an unlinking only if it saw no edge.
LEMMA WithdrawReadKeeps ==
    ASSUME IInv, NEW t \in Threads, WithdrawRead(t) PROVE IInv' /\ DropStands
<1> DEFINE e == Exec(t)
<1>1. at[t].pc = "withdraw" /\ item' = item /\ link' = link
  BY DEF WithdrawRead
<1>2. PICK own \in Owns :
          /\ ReadsOwn(e, own)
          /\ rec' = [rec EXCEPT ![e].blind = own # OwnResolver(e)]
          /\ Goto(t, IF own.edge THEN "unlink" ELSE AfterEdge(t))
  BY DEF WithdrawRead
<1> DEFINE b == own # OwnResolver(e)
           x == [rec[e] EXCEPT !.blind = b]
           p == IF own.edge THEN "unlink" ELSE AfterEdge(t)
           a == [at[t] EXCEPT !.pc = p]
<1>3. /\ t = Drive(e) /\ rec[e].claimed /\ rec[e].settled = "no" /\ e \in Execs
      /\ at[t].mode # "withdraw" => item.hold # e
  BY <1>1, Mine DEF Own, Place, Claiming, Leaving
<1>4. rec' = [rec EXCEPT ![e] = x]
  BY <1>2, Mine
<1>5. x \in RecType /\ x.claimed /\ x.settled = "no" /\ x.blind = b
  <2>1. rec[e] \in RecType /\ b \in BOOLEAN
    BY Mine
  <2> HIDE DEF b
  <2> QED
    BY <1>3, <2>1 DEF RecType
<1>6. /\ p \in {"unlink", "clear", "withdrawn"} /\ (p = "withdrawn" => at[t].mode # "withdraw")
      /\ p # "unlink" /\ link[e] = "resolves" => b
  BY <1>2, OwnFacts DEF AfterEdge, Owns
<1>7. a \in AtType /\ a.pc = p /\ a.item = at[t].item /\ a.mode = at[t].mode /\ Goes(t, a)
  <2>1. p \in Label /\ Goto(t, p)
    BY <1>2, <1>6 DEF Label
  <2> HIDE DEF p
  <2> QED
    BY <2>1, GotoFacts
<1> HIDE DEF a, p, x, b
<1>8. at'[t] = a
  BY <1>7, GoesFacts
<1>9. rec' \in [Execs -> RecType] /\ rec'[e] = x /\ \A n \in Execs : n # e => rec'[n] = rec[n]
  BY <1>3, <1>4, <1>5, Mine
<1>10. Own(t)'
  <2>1. Own(t)
    BY Mine
  <2>2. p \in {"clear", "withdrawn"} => Untied(e)'
    BY <1>1, <1>5, <1>6, <1>9 DEF Untied
  <2> QED
    BY <1>1, <1>3, <1>5, <1>6, <1>7, <1>8, <1>9, <2>1, <2>2
    DEF Own, Snapshot, Place, Claiming, Aims, Writing, Linked, Strays, Reading, Leaving
<1>11. ASSUME NEW n \in Execs
       PROVE  /\ Claims(t, n) /\ (t = Drive(n) => Parked(n)')
              /\ \/ Kept(n)
                 \/ /\ t = Drive(n) /\ Clean(n)'
                    /\ rec'[n].settled = "written" => at[t].pc = "written"
  <2>1. CASE n = e
    BY <1>3, <1>5, <1>9, <2>1 DEF Claims, Parked, Clean
  <2>2. CASE n # e
    BY <1>3, <1>9, <2>2, ThreadFacts DEF Claims, Kept
  <2> QED
    BY <2>1, <2>2
<1> QED
  BY <1>1, <1>6, <1>7, <1>9, <1>10, <1>11, QuietKeeps

\* The edge is off the item before the hold is asked about.
LEMMA UnlinkKeeps ==
    ASSUME IInv, NEW t \in Threads, Unlink(t) \/ UnlinkTwin(t) PROVE IInv' /\ DropStands
<1>1. /\ at[t].pc \in {"unlink", "untwin"} /\ item' = item /\ rec' = rec
      /\ \/ at[t].pc = "unlink" /\ RemoveEdge(Exec(t))
         \/ at[t].pc = "untwin" /\ AddRelates(Exec(t))
  BY DEF Unlink, UnlinkTwin
<1>2. PICK p \in {"untwin", "clear", "withdrawn"} :
          /\ Goto(t, p)
          /\ p = "withdrawn" => at[t].mode # "withdraw"
  BY DEF Unlink, UnlinkTwin, AfterEdge
<1> DEFINE a == [at[t] EXCEPT !.pc = p]
<1>3. a \in AtType /\ a.pc = p /\ a.item = at[t].item /\ a.mode = at[t].mode /\ Goes(t, a)
  <2>1. p \in Label
    BY DEF Label
  <2> QED
    BY <1>2, <2>1, GotoFacts
<1> HIDE DEF a
<1>4. at'[t] = a
  BY <1>3, GoesFacts
<1>5. /\ link' \in [Any -> Links] /\ link'[Exec(t)] # "resolves"
      /\ \A n \in Execs : Links1(t, n) /\ Unlinks(t, n)
      /\ t[2] = "drive" /\ rec[Exec(t)].settled = "no" /\ rec[Exec(t)].claimed
  BY <1>1, UnlinkFacts
<1>6. Own(t)
  BY Mine
<1>7. Own(t)'
  BY <1>1, <1>2, <1>3, <1>4, <1>5, <1>6
  DEF Own, Snapshot, Place, Claiming, Aims, Writing, Linked, Strays, Reading, Leaving, Untied
<1> QED
  BY <1>1, <1>3, <1>5, <1>7, LinkKeeps

-----------------------------------------------------------------------------
(* reconcileCompletions.                                                   *)

\* A pass over an unsettled record reads the item.
LEMMA ReconcileReadKeeps ==
    ASSUME IInv, NEW t \in Threads, ReconcileRead(t) PROVE IInv' /\ DropStands
<1> DEFINE a == [Idle EXCEPT !.pc = "derive", !.item = item, !.inbound = Inbound]
<1>1. /\ Goes(t, a) /\ item' = item /\ link' = link /\ rec' = rec
      /\ t[2] = "drive" /\ rec[Exec(t)].claimed /\ rec[Exec(t)].settled = "no"
  BY DEF ReconcileRead, Goes
<1>2. a \in AtType /\ a.pc = "derive" /\ a.item = item /\ a.inbound = Inbound
  BY Mine, IdleFacts, InboundFacts DEF AtType, Label
<1> HIDE DEF a
<1>3. at'[t] = a /\ \A s \in Threads : s # t => at'[s] = at[s]
  BY <1>1, <1>2, GoesFacts
<1>4. item.hold = Exec(t) => \A n \in Inbound \ {Exec(t)} : Stray(t, n)'
  BY <1>1, <1>3, HeldStrays, StrayStays
<1>5. Own(t)'
  BY <1>1, <1>2, <1>3, <1>4
  DEF Own, Snapshot, Place, Claiming, Aims, Writing, Linked, Strays, Reading, Leaving
<1> QED
  BY <1>1, <1>2, <1>5, PassKeeps

\* The debt derived from what was read decides what the pass does.
LEMMA ReconcileDeriveKeeps ==
    ASSUME IInv, NEW t \in Threads, ReconcileDerive(t) PROVE IInv' /\ DropStands
<1> DEFINE e == Exec(t)
           i == at[t].item
<1>0. at[t].pc = "derive" /\ item' = item /\ link' = link
  BY DEF ReconcileDerive
<1>2. /\ t[2] = "drive" /\ rec[e].claimed /\ rec[e].settled = "no" /\ e \in Execs
      /\ i.hold = e => \A n \in at[t].inbound \ {e} : Stray(t, n)
  BY <1>0, Mine DEF Own, Place, Claiming, Reading
<1>p. PICK own \in Owns :
         LET d == DeriveCompletionDebt(e, i, at[t].inbound, own.edge) IN
         /\ rec' = [rec EXCEPT ![e].debt = d]
         /\ CASE d = "write" -> Enter(t, "read")
              [] d = "withdraw" -> WithdrawFrom(t, TRUE)
              [] d = "retract" -> at' = [at EXCEPT ![t] = Retyping(t, i, at[t].inbound, "retract")]
              [] OTHER -> Enter(t, "examined")
  BY DEF ReconcileDerive
<1> DEFINE debt == DeriveCompletionDebt(e, i, at[t].inbound, own.edge)
<1>1. at[t].pc = "derive" /\ item' = item /\ link' = link /\ rec' = [rec EXCEPT ![e].debt = debt]
  BY <1>0, <1>p
<1>3. /\ debt \in {"none", "write", "withdraw", "retract"}
      /\ debt = "retract" => i.hold = e
  BY DEF DeriveCompletionDebt
<1>4. /\ debt = "write" => Enter(t, "read")
      /\ debt = "withdraw" => WithdrawFrom(t, TRUE)
      /\ debt = "retract" => at' = [at EXCEPT ![t] = Retyping(t, i, at[t].inbound, "retract")]
      /\ debt = "none" => Enter(t, "examined")
  BY <1>3, <1>p
<1> HIDE DEF debt
<1>5. \A n \in Execs : rec'[n].claimed = rec[n].claimed /\ Kept(n)
  BY <1>1, <1>2, <1>3, DebtFacts
<1>6. ASSUME NEW p \in {"read", "examined"}, Enter(t, p) PROVE IInv' /\ DropStands
  <2> DEFINE a == [Idle EXCEPT !.pc = p]
  <2>1. Goes(t, a)
    BY <1>6 DEF Enter, Goes
  <2>2. a \in AtType /\ a.pc = p /\ a.item = Idle.item
    <3>1. p \in Label
      BY DEF Label
    <3> QED
      BY <3>1, EnterFacts
  <2> HIDE DEF a
  <2>3. at'[t] = a
    BY <2>1, <2>2, GoesFacts
  <2>4. Own(t)'
    BY <1>1, <1>2, <1>5, <2>2, <2>3, Fresher
  <2> QED
    BY <1>1, <1>2, <1>3, <2>1, <2>2, <2>4, DebtKeeps
<1>7. CASE debt = "withdraw"
  <2>1. rec'[Exec(t)].claimed
    BY <1>2, <1>5
  <2>2. PICK a \in AtType : Goes(t, a) /\ a.pc = "withdraw" /\ Own(t)'
    BY <1>1, <1>2, <1>4, <1>7, <2>1, WithdrawFacts
  <2> QED
    BY <1>1, <1>2, <1>3, <2>2, DebtKeeps
<1>8. CASE debt = "retract"
  <2> DEFINE a == Retyping(t, i, at[t].inbound, "retract")
  <2>1. Goes(t, a)
    BY <1>4, <1>8 DEF Goes
  <2>2. a.pc = "retype" /\ a.mode = "retract" /\ a.item = i
    BY IdleFacts DEF Retyping, AtType
  <2>3. a \in AtType /\ a.todo \subseteq at[t].inbound \ {e}
    <3>1. i \in ItemType /\ at[t].inbound \in Sources
      BY Mine DEF AtType, Sources
    <3>2. Walks(t, i, at[t].inbound, "retract", a) /\ "retract" \in Modes
      BY DEF Walks, Modes
    <3> HIDE DEF a, i, e
    <3>3. a \in AtType
      BY <3>1, <3>2, RetypingFacts
    <3>4. a.todo \subseteq at[t].inbound \ {Exec(t)}
      BY <3>1, <3>2, RetypingFacts
    <3> QED
      BY <3>3, <3>4 DEF e
  <2> HIDE DEF a
  <2>4. at'[t] = a /\ \A s \in Threads : s # t => at'[s] = at[s]
    BY <2>1, <2>3, GoesFacts
  <2>5. \A n \in a.todo : Stray(t, n)'
    BY <1>1, <1>2, <1>3, <1>5, <1>8, <2>3, <2>4, StrayStays
  <2>6. Snapshot(t)'
    BY <1>1, <2>2, <2>4, Mine DEF Own, Snapshot
  <2>7. Own(t)'
    BY <1>1, <1>2, <1>5, <2>2, <2>4, <2>5, <2>6
    DEF Own, Place, Claiming, Aims, Writing, Linked, Strays, Reading, Leaving
  <2> QED
    BY <1>1, <1>2, <1>3, <2>1, <2>2, <2>3, <2>7, DebtKeeps
<1> QED
  BY <1>3, <1>4, <1>6, <1>7, <1>8

\* A record is consumed once its item has left its hold.
LEMMA ReconcileExaminedKeeps ==
    ASSUME IInv, NEW t \in Threads, ReconcileExamined(t) PROVE IInv' /\ DropStands
<1> DEFINE e == Exec(t)
           x == [rec[e] EXCEPT !.settled = "consumed"]
<1>1. at[t].pc = "examined" /\ Return(t) /\ item' = item /\ link' = link
  BY DEF ReconcileExamined
<1>2. t = Drive(e) /\ rec[e].claimed /\ e \in Execs
  BY <1>1, Mine DEF Own, Place, Claiming
<1>3. CASE rec' = rec
  BY <1>1, <1>3, ReturnKeeps
<1>4. CASE rec' # rec
  <2>1. rec' = [rec EXCEPT ![e] = x] /\ item.hold # e
    BY <1>4, Mine DEF ReconcileExamined
  <2>2. x \in RecType /\ x.claimed = rec[e].claimed /\ x.settled = "consumed"
    <3>1. rec[e] \in RecType
      BY Mine
    <3> QED
      BY <3>1 DEF RecType
  <2> HIDE DEF x
  <2>3. rec' \in [Execs -> RecType] /\ rec'[e] = x /\ \A n \in Execs : n # e => rec'[n] = rec[n]
    BY <2>1, <2>2, Mine
  <2>4. Goes(t, Idle)
    BY <1>1 DEF Return, Goes
  <2>5. Own(t)'
    BY <1>1, <2>4, GoesFacts, Fresher, IdleFacts
  <2>6. ASSUME NEW n \in Execs
        PROVE  /\ Claims(t, n) /\ (t = Drive(n) => Parked(n)')
               /\ \/ Kept(n)
                  \/ /\ t = Drive(n) /\ Clean(n)'
                     /\ rec'[n].settled = "written" => at[t].pc = "written"
    <3>1. CASE n = e
      <4>1. Claims(t, n)
        BY <2>2, <2>3, <3>1 DEF Claims
      <4>2. at'[Drive(n)].pc = "idle"
        BY <1>2, <2>4, <3>1, IdleFacts, GoesFacts
      <4>3. Parked(n)' /\ Clean(n)'
        BY <1>1, <1>2, <2>1, <2>2, <2>3, <3>1, <4>2 DEF Parked, Clean
      <4> QED
        BY <1>2, <2>2, <2>3, <3>1, <4>1, <4>3
    <3>2. CASE n # e
      BY <1>2, <2>3, <3>2, ThreadFacts DEF Claims, Kept
    <3> QED
      BY <3>1, <3>2
  <2> QED
    BY <1>1, <2>3, <2>4, <2>5, <2>6, QuietKeeps, IdleFacts
<1> QED
  BY <1>3, <1>4

-----------------------------------------------------------------------------
(* What goes wrong, and what people do.                                    *)

\* A failed call skips an edge, leaves the status, or ends the pass.
LEMMA FailedKeeps ==
    ASSUME IInv, NEW t \in Threads, Failed(t) PROVE IInv' /\ DropStands
<1>1. at[t].pc # "idle" /\ item' = item /\ link' = link /\ rec' = rec
  BY DEF Failed
<1>2. CASE Return(t)
  BY <1>1, <1>2, ReturnKeeps
<1>3. CASE ~Return(t)
  <2>1. /\ at[t].pc \in {"retype", "twin", "reread", "restore"}
        /\ at[t].pc = "retype" => \E n \in at[t].todo :
               at' = [at EXCEPT ![t].todo = @ \ {n}, ![t].failed = TRUE]
        /\ at[t].pc = "twin" => at' = [at EXCEPT ![t].pc = "retype", ![t].cur = None, ![t].failed = TRUE]
        /\ at[t].pc = "reread" => Goto(t, "retracted")
        /\ at[t].pc = "restore" => at' = [at EXCEPT ![t].pc = "retracted", ![t].failed = TRUE]
    BY <1>3 DEF Failed
  <2>2. at \in [Threads -> AtType] /\ at[t] \in AtType
    BY Mine
  <2>3. \E a \in AtType :
            /\ Goes(t, a) /\ a.item = at[t].item /\ a.own = at[t].own /\ a.mode = at[t].mode
            /\ a.todo \subseteq at[t].todo
            /\ \/ at[t].pc \in {"retype", "twin"} /\ a.pc = "retype"
               \/ at[t].pc \in {"reread", "restore"} /\ a.pc = "retracted"
    <3>1. CASE at[t].pc = "retype"
      <4>1. PICK n \in at[t].todo : at' = [at EXCEPT ![t].todo = @ \ {n}, ![t].failed = TRUE]
        BY <2>1, <3>1
      <4> DEFINE a == [at[t] EXCEPT !.todo = at[t].todo \ {n}, !.failed = TRUE]
      <4>2. Goes(t, a)
        BY <2>2, <4>1 DEF Goes
      <4>3. at[t].todo \ {n} \in SUBSET Any
        BY <2>2 DEF AtType
      <4>4. /\ a \in AtType /\ a.item = at[t].item /\ a.own = at[t].own /\ a.mode = at[t].mode
            /\ a.todo \subseteq at[t].todo /\ a.pc = at[t].pc
        BY <2>2, <4>3 DEF AtType
      <4> QED
        BY <3>1, <4>2, <4>4
    <3>2. CASE at[t].pc = "twin"
      <4> DEFINE a == [at[t] EXCEPT !.pc = "retype", !.cur = None, !.failed = TRUE]
      <4>1. Goes(t, a)
        BY <2>1, <2>2, <3>2 DEF Goes
      <4>2. /\ a \in AtType /\ a.item = at[t].item /\ a.own = at[t].own /\ a.mode = at[t].mode
            /\ a.todo \subseteq at[t].todo /\ a.pc = "retype"
        BY <2>2 DEF AtType, Label
      <4> QED
        BY <3>2, <4>1, <4>2
    <3>3. CASE at[t].pc = "reread"
      <4> DEFINE a == [at[t] EXCEPT !.pc = "retracted"]
      <4>1. Goes(t, a)
        BY <2>1, <2>2, <3>3 DEF Goes, Goto
      <4>2. /\ a \in AtType /\ a.item = at[t].item /\ a.own = at[t].own /\ a.mode = at[t].mode
            /\ a.todo \subseteq at[t].todo /\ a.pc = "retracted"
        BY <2>2 DEF AtType, Label
      <4> QED
        BY <3>3, <4>1, <4>2
    <3>4. CASE at[t].pc = "restore"
      <4> DEFINE a == [at[t] EXCEPT !.pc = "retracted", !.failed = TRUE]
      <4>1. Goes(t, a)
        BY <2>1, <2>2, <3>4 DEF Goes
      <4>2. /\ a \in AtType /\ a.item = at[t].item /\ a.own = at[t].own /\ a.mode = at[t].mode
            /\ a.todo \subseteq at[t].todo /\ a.pc = "retracted"
        BY <2>2 DEF AtType, Label
      <4> QED
        BY <3>4, <4>1, <4>2
    <3> QED
      BY <2>1, <3>1, <3>2, <3>3, <3>4
  <2>4. PICK a \in AtType :
            /\ Goes(t, a) /\ a.item = at[t].item /\ a.own = at[t].own /\ a.mode = at[t].mode
            /\ a.todo \subseteq at[t].todo
            /\ \/ at[t].pc \in {"retype", "twin"} /\ a.pc = "retype"
               \/ at[t].pc \in {"reread", "restore"} /\ a.pc = "retracted"
    BY <2>3
  <2>5. at'[t] = a /\ \A s \in Threads : s # t => at'[s] = at[s]
    BY <2>4, GoesFacts
  <2>6. a.pc = "retype" => \A n \in a.todo : Stray(t, n)'
    <3>1. a.pc = "retype" => \A n \in at[t].todo : Stray(t, n)
      BY <2>4, Mine DEF Own, Strays
    <3> QED
      BY <1>1, <2>4, <2>5, <3>1, StrayStays
  <2>7. Own(t) /\ (t[2] = "drive" => rec[Exec(t)].settled = "no")
    BY <1>1, Mine
  <2>8. Own(t)'
    BY <1>1, <2>4, <2>5, <2>6, <2>7
    DEF Own, Snapshot, Place, Claiming, Aims, Writing, Linked, Strays, Reading, Leaving, Fresh
  <2> QED
    BY <1>1, <2>4, <2>7, <2>8, PassKeeps
<1> QED
  BY <1>2, <1>3

\* A write whose answer is lost is a write, and the pass ends.
LEMMA LostKeeps ==
    ASSUME IInv, NEW t \in Threads, PutLost(t) \/ ResolverLost(t) \/ UnlinkLost(t) \/ Crash(t)
    PROVE  IInv' /\ DropStands
<1>1. rec' = rec /\ Return(t) /\ Goes(t, Idle)
  BY DEF PutLost, ResolverLost, UnlinkLost, Crash, Return, Goes
<1>2. item' = item \/ item'.rev = item.rev + 1 => Own(t)'
  BY <1>1, GoesFacts, Fresher, IdleFacts
<1>3. CASE PutLost(t)
  <2>1. /\ at[t].pc = "put" /\ Fresh(t) /\ link' = link
        /\ Put([item EXCEPT !.status = "done", !.hold = None])
    BY <1>3 DEF PutLost
  <2>2. /\ item' \in ItemType /\ item'.rev = item.rev + 1 /\ item'.hold = None
        /\ item.hold = Exec(t) /\ DropStands
    BY <2>1, CompletedFacts
  <2> QED
    BY <1>1, <1>2, <2>1, <2>2, IdleFacts, ItemKeeps
<1>4. CASE ResolverLost(t)
  <2>1. at[t].pc = "resolver" /\ item' = item /\ link' = ResolverLinked(t)
    BY <1>4 DEF ResolverLost
  <2>2. link' \in [Any -> Links] /\ \A n \in Execs : Links1(t, n) /\ Unlinks(t, n)
    BY <2>1, ResolverFacts
  <2> QED
    BY <1>1, <1>2, <2>1, <2>2, IdleFacts, LinkKeeps
<1>5. CASE UnlinkLost(t)
  <2>1. at[t].pc = "unlink" /\ item' = item /\ RemoveEdge(Exec(t))
    BY <1>5 DEF UnlinkLost
  <2>2. link' \in [Any -> Links] /\ \A n \in Execs : Links1(t, n) /\ Unlinks(t, n)
    BY <2>1, UnlinkFacts
  <2> QED
    BY <1>1, <1>2, <2>1, <2>2, IdleFacts, LinkKeeps
<1>6. CASE Crash(t)
  BY <1>1, <1>6, ReturnKeeps DEF Crash
<1> QED
  BY <1>3, <1>4, <1>5, <1>6

\* People and the gates move no process.
LEMMA OutsideKeeps ==
    ASSUME IInv, TypeOK', at' = at, ItemMoves, DropStands,
           \A n \in Execs : rec'[n].claimed = rec[n].claimed /\ Kept(n),
           \A n \in Execs : item'.hold = n => item.hold = n,
           \A n \in Execs : link'[n] = link[n],
           \A n \in Execs : Completed(n) => item'.status = "done" /\ item'.hold = None
    PROVE  IInv' /\ DropStands
<1>1. ASSUME NEW n \in Execs
      PROVE  /\ Claims(Nobody, n) /\ Settles(Nobody, n) /\ Takes(Nobody, n)
             /\ Links1(Nobody, n) /\ Unlinks(Nobody, n) /\ Completes(Nobody, n)
  <2>1. Completed(n)' => Completed(n)
    BY DEF Completed, Kept
  <2> QED
    BY <2>1 DEF Claims, Settles, Takes, Links1, Unlinks, Completes
<1>2. Guarantee(Nobody) /\ Nobody \in Mover
  BY <1>1 DEF Guarantee, Mover
<1>3. Nobody \notin Threads /\ \A n \in Execs : Nobody # Drive(n)
  BY ThreadFacts DEF Threads, Nobody
<1> QED
  BY <1>2, <1>3, Moves

\* The gates write their own part of the run record.
LEMMA GatesSettleKeeps ==
    ASSUME IInv, NEW e \in Execs, GatesSettle(e) PROVE IInv' /\ DropStands
<1>1. PICK g \in {"passed", "failed"}, shown \in BOOLEAN :
          rec' = [rec EXCEPT ![e].gates = g, ![e].shown = shown]
  BY DEF GatesSettle
<1>2. item' = item /\ link' = link /\ at' = at
  BY DEF GatesSettle
<1>3. rec \in [Execs -> RecType] /\ rec[e] \in RecType
  BY DEF IInv, TypeOK
<1> DEFINE x == [rec[e] EXCEPT !.gates = g, !.shown = shown]
<1>4. x \in RecType /\ x.claimed = rec[e].claimed /\ x.settled = rec[e].settled
      /\ x.blind = rec[e].blind
  BY <1>3 DEF RecType
<1>5. rec' = [rec EXCEPT ![e] = x]
  BY <1>1, <1>3
<1> HIDE DEF x
<1>6. /\ rec' \in [Execs -> RecType]
      /\ \A n \in Execs : rec'[n].claimed = rec[n].claimed /\ Kept(n)
  BY <1>3, <1>4, <1>5 DEF Kept
<1>7. TypeOK' /\ ItemMoves /\ DropStands
  BY <1>2, <1>6 DEF IInv, TypeOK, ItemMoves, DropStands
<1>8. \A n \in Execs : Completed(n) => item'.status = "done" /\ item'.hold = None
  BY <1>2 DEF IInv, Stands
<1> QED
  BY <1>2, <1>6, <1>7, <1>8, OutsideKeeps

\* A person's write of the item drops it, finishes it, or ends its hold.
LEMMA PersonWrites ==
    ASSUME IInv, NEW h \in Execs \cup {None}, NEW s \in {"open", "done", "abandoned"},
           Wrote(item, s, h, item'), link' = link, rec' = rec, at' = at,
           item.status = "open" \/ item.hold # None,
           h \in {item.hold, None}, s # item.status => item.status = "open"
    PROVE  IInv' /\ DropStands
<1>1. item \in ItemType
  BY DEF IInv, TypeOK
<1>2. item' \in ItemType /\ item'.rev = item.rev + 1 /\ item'.status = s /\ item'.hold = h
  BY <1>1, PutFacts
<1>3. TypeOK'
  BY <1>2 DEF IInv, TypeOK
<1>4. ItemMoves /\ DropStands
  BY <1>2 DEF ItemMoves, DropStands, GaveUp
<1>5. \A n \in Execs : ~Completed(n)
  BY DEF IInv, Stands
<1> QED
  BY <1>2, <1>3, <1>4, <1>5, ThreadFacts, OutsideKeeps DEF Kept

\* Whatever a person does keeps the invariant.
LEMMA PersonKeeps ==
    ASSUME IInv, Person PROVE IInv' /\ DropStands
<1>0. /\ item \in ItemType /\ None \in Execs \cup {None} /\ link \in [Any -> Links]
      /\ item.status \in {"open", "done", "abandoned"} /\ item.hold \in Execs \cup {None}
  BY DEF IInv, TypeOK, ItemType
<1>1. CASE Abandon
  <2>1. /\ item' = [item EXCEPT !.status = "abandoned", !.rev = item.rev + 1]
        /\ item.status = "open" /\ link' = link /\ rec' = rec /\ at' = at
    BY <1>1 DEF Abandon, Put
  <2>2. Wrote(item, "abandoned", item.hold, item')
    BY <1>0, <2>1, PutPart
  <2> QED
    BY <1>0, <2>1, <2>2, PersonWrites
<1>2. CASE MarkDone
  <2>1. /\ item' = [item EXCEPT !.status = "done", !.rev = item.rev + 1]
        /\ item.status = "open" /\ link' = link /\ rec' = rec /\ at' = at
    BY <1>2 DEF MarkDone, Put
  <2>2. Wrote(item, "done", item.hold, item')
    BY <1>0, <2>1, PutPart
  <2> QED
    BY <1>0, <2>1, <2>2, PersonWrites
<1>3. ASSUME NEW n \in Nodes, Resolve(n) PROVE IInv' /\ DropStands
  <2>1. item' = item /\ rec' = rec /\ at' = at /\ link' = [link EXCEPT ![n] = "resolves"]
    BY <1>3 DEF Resolve
  <2>2. link' \in [Any -> Links] /\ \A m \in Execs : link'[m] = link[m]
    BY <1>0, <2>1, ConstantsAssumption DEF Any, Links
  <2>3. TypeOK' /\ ItemMoves /\ DropStands
    BY <2>1, <2>2 DEF IInv, TypeOK, ItemMoves, DropStands
  <2>4. \A m \in Execs : Completed(m) => item'.status = "done" /\ item'.hold = None
    BY <2>1 DEF IInv, Stands
  <2> QED
    BY <2>1, <2>2, <2>3, <2>4, OutsideKeeps DEF Kept
<1>4. ASSUME NEW e \in Execs, ForceRelease(e) PROVE IInv' /\ DropStands
  <2>1. item' = item /\ rec' = rec /\ at' = at /\ link' = link
    BY <1>4 DEF ForceRelease
  <2>2. TypeOK' /\ ItemMoves /\ DropStands
    BY <2>1 DEF IInv, TypeOK, ItemMoves, DropStands
  <2>3. \A m \in Execs : Completed(m) => item'.status = "done" /\ item'.hold = None
    BY <2>1 DEF IInv, Stands
  <2> QED
    BY <2>1, <2>2, <2>3, OutsideKeeps DEF Kept
<1>5. ASSUME NEW e \in Execs, ForceClear(e) PROVE IInv' /\ DropStands
  <2>1. /\ item' = [item EXCEPT !.hold = None, !.rev = item.rev + 1]
        /\ item.hold = e /\ link' = link /\ rec' = rec /\ at' = at
    BY <1>5 DEF ForceClear, Put
  <2>2. Wrote(item, item.status, None, item')
    BY <1>0, <2>1, PutPart
  <2>3. item.hold # None
    BY <2>1, ThreadFacts
  <2> QED
    BY <1>0, <2>1, <2>2, <2>3, PersonWrites
<1> QED
  BY <1>1, <1>2, <1>3, <1>4, <1>5 DEF Person

-----------------------------------------------------------------------------
\* Every step keeps the inductive invariant, and a dropped item dropped.
LEMMA StepIInv == IInv /\ [Next]_vars => IInv' /\ DropStands
<1> SUFFICES ASSUME IInv, [Next]_vars PROVE IInv' /\ DropStands
  OBVIOUS
<1>1. ASSUME NEW t \in Threads, Step(t) PROVE IInv' /\ DropStands
  <2>1. CASE ClaimRead(t) \/ ClaimWrite(t) \/ RecordClaim(t)
    BY <2>1, ClaimReadKeeps, ClaimWriteKeeps, RecordClaimKeeps
  <2>2. CASE ClearHoldRead(t) \/ ClearHoldWrite(t)
    BY <2>2, ClearHoldReadKeeps, ClearHoldWriteKeeps
  <2>3. CASE \/ RetractStart(t) \/ (\E n \in Execs \cup Nodes : RetypeRemove(t, n))
             \/ RetypeAdd(t) \/ RetypeDone(t)
    BY <2>3, RetractStartKeeps, RetypeRemoveKeeps, RetypeAddKeeps, RetypeDoneKeeps DEF Any
  <2>4. CASE RestoreRead(t) \/ RestoreWrite(t) \/ Retracted(t)
    BY <2>4, RestoreReadKeeps, RestoreWriteKeeps, RetractedKeeps
  <2>5. CASE WriteStart(t) \/ ReadItem(t) \/ Decide(t) \/ Confirm(t) \/ WriteResolver(t)
    BY <2>5, WriteStartKeeps, ReadItemKeeps, DecideKeeps, ConfirmKeeps, WriteResolverKeeps
  <2>6. CASE PutCompletion(t) \/ StampWritten(t) \/ WithdrawRead(t) \/ Unlink(t)
             \/ UnlinkTwin(t) \/ StampWithdrawn(t)
    BY <2>6, PutCompletionKeeps, StampWrittenKeeps, WithdrawReadKeeps, UnlinkKeeps,
       StampWithdrawnKeeps
  <2>7. CASE ReconcileRead(t) \/ ReconcileDerive(t) \/ ReconcileExamined(t)
    BY <2>7, ReconcileReadKeeps, ReconcileDeriveKeeps, ReconcileExaminedKeeps
  <2> QED
    BY <1>1, <2>1, <2>2, <2>3, <2>4, <2>5, <2>6, <2>7 DEF Step
<1>2. ASSUME NEW t \in Threads, Faults(t) PROVE IInv' /\ DropStands
  BY <1>2, FailedKeeps, LostKeeps DEF Faults
<1>3. ASSUME NEW e \in Execs, GatesSettle(e) PROVE IInv' /\ DropStands
  BY <1>3, GatesSettleKeeps
<1>4. CASE Person
  BY <1>4, PersonKeeps
<1>5. CASE UNCHANGED vars
  <2>1. at' = at /\ item' = item /\ link' = link /\ rec' = rec
    BY <1>5 DEF vars
  <2>2. TypeOK' /\ ItemMoves /\ DropStands
    BY <2>1 DEF IInv, TypeOK, ItemMoves, DropStands
  <2>3. \A n \in Execs : Completed(n) => item'.status = "done" /\ item'.hold = None
    BY <2>1 DEF IInv, Stands
  <2> QED
    BY <2>1, <2>2, <2>3, OutsideKeeps DEF Kept
<1> QED
  BY <1>1, <1>2, <1>3, <1>4, <1>5 DEF Next

\* The inductive invariant holds in every reachable state.
LEMMA AlwaysIInv == Spec => []IInv
<1>1. Init => IInv
  BY InitIInv
<1>2. IInv /\ [Next]_vars => IInv'
  BY StepIInv
<1> QED
  BY <1>1, <1>2, PTL DEF Spec

\* A completion recorded as written is on the item for good: done, released, and
\* with the resolver's edge, whatever another execution's pass retypes meanwhile.
THEOREM CompletionIsFinal == Spec => []CompletionStands
<1>1. IInv => CompletionStands
  BY ThreadFacts DEF IInv, Stands, Completed, CompletionStands
<1> QED
  BY <1>1, AlwaysIInv, PTL

\* A record settled as withdrawn or consumed holds the item no more, and a
\* withdrawn one has no edge that would resolve it unless the withdrawal could not
\* read its own resolver: however the calls after that read fail or are repeated.
THEOREM NothingLeftBehind == Spec => []WithdrawnLeavesNothing
<1>1. IInv => WithdrawnLeavesNothing
  BY DEF IInv, Clean, Untied, WithdrawnLeavesNothing
<1> QED
  BY <1>1, AlwaysIInv, PTL

\* An item a person abandoned stays abandoned: every controller's write of the
\* status is a compare-and-swap on a revision read before the person's.
THEOREM DropIsFinal == Spec => AbandonKept
<1>1. IInv /\ [Next]_vars => (GaveUp(item) => GaveUp(item'))
  BY StepIInv DEF DropStands
<1>2. Spec => [][GaveUp(item) => GaveUp(item')]_vars
  BY <1>1, AlwaysIInv, PTL DEF Spec
<1> QED
  BY <1>2 DEF AbandonKept
=============================================================================
