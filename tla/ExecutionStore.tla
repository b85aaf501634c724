--------------------------- MODULE ExecutionStore ---------------------------
(***************************************************************************)
(* The local execution engine (src/lib/shell/execution-store.js) over the  *)
(* files of one work item: per execution an event log and a materialized   *)
(* view, and one pointer that numbers the item's pipeline attempts and     *)
(* names the open one.  A call takes the item lock (LocalLock), reads,     *)
(* decides and writes its files one after another; the process may die,    *)
(* or a write may fail, before any of them.                                *)
(*                                                                         *)
(* A log row is appended and fsynced whole or not at all: an unfinished    *)
(* last line is not read and is cut off by the next append.  Only the      *)
(* first row leaves a trace when it is torn, a journal without a genesis.  *)
(*                                                                         *)
(* Time: no tick falls between a call's decision and its last write.  A    *)
(* longer call is still exclusive: nobody can claim before it ends.        *)
(***************************************************************************)
EXTENDS Execution, FiniteSets

CONSTANTS
    Factories,     \* the factories the item may be opened under
    Takeovers,     \* what callers of claim pass for takeover
    Ttl,           \* a lease, in ticks
    MaxAttempts,   \* bound: pipeline attempts opened on the item
    MaxRows        \* bound: rows of the item's logs, when a call adds one

ASSUME StoreAssumption ==
    /\ Ttl \in Nat \ {0}
    /\ MaxAttempts \in Nat
    /\ MaxRows \in Nat \ {0}
    /\ None \notin Factories
    /\ Takeovers \subseteq BOOLEAN

VARIABLES
    log,      \* log[x]: the rows of <x>.events.jsonl
    torn,     \* executions whose log was created without a complete first row
    view,     \* view[x]: the record in <x>.json, or NoView
    ptr,      \* item/<node>.json: the open execution and all of the item's
    lease,    \* lease[x]: ticks until the owner's lease expires
    holder,   \* the process that took the item lock last, None once released
    todo,     \* todo[i]: what i's call has still to write
    fence,    \* fence[x][i]: the fence i was last answered for x, 0 if none
    lost,     \* lost[x]: processes that were refused a stale fence (FENCED_OUT)
    alive     \* the processes still running

vars == <<log, torn, view, ptr, lease, holder, todo, fence, lost, alive>>

\* executionIdFor: the id is a hash of the factory and the attempt number.
Ids == [factory : Factories, attempt : 1 .. MaxAttempts]

NoId == [factory |-> None, attempt |-> 0]

NoView == [missing |-> TRUE]

-----------------------------------------------------------------------------
(* The log and what it replays to.                                         *)

OpenedRow == [type |-> "execution.opened"]

OwnerRow(seq, owner, released) ==
    [type |-> "ownership.changed", seq |-> seq, owner |-> owner,
     released |-> released]

\* Mutant: the row carries the record's sequence number, not the next one.
EventRowBehind(seq, e, f) ==
    [type |-> "event", seq |-> seq - 1, event |-> e, fence |-> f,
     key |-> derivedEventKey(e)]

EventRow(seq, e, f) ==
    [type |-> "event", seq |-> seq, event |-> e, fence |-> f,
     key |-> derivedEventKey(e)]

Genesis == [ok |-> TRUE, rec |-> initExecution, seq |-> 0, seen |-> {}]

\* One row on the record so far.  A row that does not continue it makes the
\* journal unreadable.
ReplayRow(st, row) ==
    IF row.type = "ownership.changed"
    THEN [st EXCEPT !.ok = @ /\ row.seq = st.seq,
                    !.rec.owner = row.owner,
                    !.rec.released = @ \/ row.released]
    ELSE IF /\ st.ok
            /\ row.type = "event"
            /\ row.key \notin st.seen
            /\ row.seq = st.seq + 1
            /\ Replays(st.rec, row.event, row.fence)
    THEN [st EXCEPT !.rec = Effect(@, row.event),
                    !.seq = @ + 1,
                    !.seen = @ \cup {row.key}]
    ELSE [st EXCEPT !.ok = FALSE]

\* rebuildFromEvents on a log whose first row is its genesis.
rebuildFromEvents(rows) ==
    LET upTo[n \in 1 .. Len(rows)] ==
            IF n = 1 THEN [Genesis EXCEPT !.ok = rows[1] = OpenedRow]
            ELSE ReplayRow(upTo[n - 1], rows[n])
    IN  IF rows = <<>> THEN Genesis ELSE upTo[Len(rows)]

State(x) == rebuildFromEvents(log[x])

readRecord(x) == State(x).rec

Journals == {x \in Ids : log[x] # <<>>}

\* readRecord answers: the log has its genesis and replays.
Readable(x) == x \in Journals /\ State(x).ok

Live == {x \in Journals : ~isTerminal(readRecord(x))}

-----------------------------------------------------------------------------
(* Writes.                                                                 *)

AppendLog(x, row) == [to |-> "log", id |-> x, row |-> row]

WriteView(x, r) == [to |-> "view", id |-> x, rec |-> r]

WritePointer(open, add) == [to |-> "pointer", open |-> open, add |-> add]

\* The call's answer: the fence it hands out, 0 for none.
Reply(x, f) == [to |-> "reply", id |-> x, fence |-> f]

\* writeRecord: the log first.
writeRecord(x, r, row) == <<AppendLog(x, row), WriteView(x, r)>>

ClosePointer(x, r) ==
    IF isTerminal(r) /\ ptr.open = x THEN <<WritePointer(NoId, x)>> ELSE <<>>

\* writeItemPointer
Pointed(w) ==
    [open |-> w.open,
     executions |-> IF \E k \in DOMAIN ptr.executions : ptr.executions[k] = w.add
                    THEN ptr.executions ELSE Append(ptr.executions, w.add)]

-----------------------------------------------------------------------------
Init ==
    /\ log = [x \in Ids |-> <<>>]
    /\ torn = {}
    /\ view = [x \in Ids |-> NoView]
    /\ ptr = [open |-> NoId, executions |-> <<>>]
    /\ lease = [x \in Ids |-> 0]
    /\ holder = None
    /\ todo = [i \in Instances |-> <<>>]
    /\ fence = [x \in Ids |-> [i \in Instances |-> 0]]
    /\ lost = [x \in Ids |-> {}]
    /\ alive = Instances

\* The lock is free, or a dead process's and broken.
LockFree == holder \notin alive

\* Take the lock and decide what to write.
Transact(i, writes) ==
    /\ holder' = i
    /\ todo' = [todo EXCEPT ![i] = writes]
    /\ UNCHANGED <<log, torn, view, ptr, lease, fence, lost, alive>>

RoomForRow == Cardinality(UNION {{<<x, k>> : k \in DOMAIN log[x]} : x \in Ids}) < MaxRows

\* A change of owner: the row, the view, the pointer once terminal.
ChangeOwner(x, r) ==
    writeRecord(x, r, OwnerRow(State(x).seq, r.owner, r.released))
        \o ClosePointer(x, r)

-----------------------------------------------------------------------------
(* open                                                                    *)

\* Executions in the order executionHistoryForItem sorts them.
InOrder(S) ==
    CHOOSE s \in [1 .. Cardinality(S) -> S] :
        \A j, k \in DOMAIN s : j < k => s[j].attempt < s[k].attempt

\* The repairs open makes to the pointer: every journal of the item is
\* listed and the live one is named.
Repairs(open) ==
    LET wrong == ptr.open # open
        Listed(x) == \E k \in DOMAIN ptr.executions : ptr.executions[k] = x
        First(x) == \A y \in Journals : x.attempt <= y.attempt
        needed == InOrder({x \in Journals : ~Listed(x) \/ (wrong /\ First(x))})
    IN  [k \in DOMAIN needed |-> WritePointer(open, needed[k])]

\* Mutant: the loss does not cover a re-open.
MayOpenLost(i, factory) == TRUE

\* LOST_ITEM: what i lost under this factory is over.
MayOpen(i, factory) ==
    \A x \in Ids : x.factory = factory /\ i \in lost[x] => isTerminal(readRecord(x))

\* executionHistoryForItem reads every journal; one it cannot read, or a
\* pointer to a missing one, is an error.
HistoryReadable ==
    /\ torn = {}
    /\ \A x \in Journals : State(x).ok
    /\ ptr.open # NoId => ptr.open \in Journals

\* An execution is live: adopt it if it is unowned or a process of the same
\* owner holds it, and say nothing of the fence otherwise.
Reopen(i, factory) ==
    \E x \in Live :
        LET r == readRecord(x)
            claims == /\ x.factory = factory
                      /\ r.owner = NoOwner \/ SameOwner(r, i)
                      /\ r.owner.inst # i
            mine == x.factory = factory /\ r.owner.inst = i
            f == r.owner.fence + 1
        IN  /\ HistoryReadable
            /\ MayOpen(i, factory)
            /\ Cardinality(Live) = 1
            /\ claims => RoomForRow
            /\ Transact(i, Repairs(x)
                \o (IF claims THEN ChangeOwner(x, Own(r, i, f)) ELSE <<>>)
                \o <<Reply(x, IF claims THEN f ELSE IF mine THEN r.owner.fence ELSE 0)>>)

\* Mutant: only the pointer is asked for an open execution.
OpenNewUnlisted(i, factory) ==
    LET n == Cardinality(Journals \cup {ptr.executions[k] : k \in DOMAIN ptr.executions})
        x == [factory |-> factory, attempt |-> n + 1]
        r == Own(initExecution, i, 1)
    IN  /\ HistoryReadable
        /\ MayOpen(i, factory)
        /\ ptr.open = NoId
        /\ n < MaxAttempts
        /\ Transact(i, <<AppendLog(x, OpenedRow), AppendLog(x, OwnerRow(0, r.owner, FALSE)),
                        WriteView(x, r), WritePointer(x, x), Reply(x, 1)>>)

\* Nothing is live: a new attempt, numbered after all the item has had.
OpenNew(i, factory) ==
    LET n == Cardinality(Journals \cup {ptr.executions[k] : k \in DOMAIN ptr.executions})
        x == [factory |-> factory, attempt |-> n + 1]
        r == Own(initExecution, i, 1)
    IN  /\ HistoryReadable
        /\ MayOpen(i, factory)
        /\ Live = {}
        /\ n < MaxAttempts
        /\ Transact(i, Repairs(NoId)
            \o <<AppendLog(x, OpenedRow), AppendLog(x, OwnerRow(0, r.owner, FALSE)),
                 WriteView(x, r), WritePointer(x, x), Reply(x, 1)>>)

-----------------------------------------------------------------------------
(* The calls on one execution.                                             *)

\* Mutant: a live lease is not looked at.
ClaimLive(i, x, takeover) ==
    LET r == readRecord(x)
        f == ClaimFence(r, i, takeover)
    IN  /\ Readable(x)
        /\ ~isTerminal(r)
        /\ RoomForRow
        /\ Transact(i, ChangeOwner(x, Own(r, i, f)) \o <<Reply(x, f)>>)

Claim(i, x, takeover) ==
    LET r == readRecord(x)
        f == ClaimFence(r, i, takeover)
    IN  /\ Readable(x)
        /\ i \notin lost[x]
        /\ Claimable(r, i, lease[x] > 0)
        /\ RoomForRow
        /\ Transact(i, ChangeOwner(x, Own(r, i, f)) \o <<Reply(x, f)>>)

\* What renew, release and event ask of the caller's fence.
Owns(i, x) ==
    /\ Readable(x)
    /\ ownershipLive(readRecord(x), fence[x][i], lease[x] > 0)
    /\ SameOwner(readRecord(x), i)

Renew(i, x) ==
    /\ Owns(i, x)
    /\ RoomForRow
    /\ Transact(i, ChangeOwner(x, readRecord(x)) \o <<Reply(x, fence[x][i])>>)

Release(i, x) ==
    /\ Owns(i, x)
    /\ readRecord(x).stage # "completed"
    /\ RoomForRow
    /\ Transact(i, ChangeOwner(x, Released(readRecord(x))) \o <<Reply(x, 0)>>)

\* By a person whose inspected revision is still the record's.
ForceRelease(i, x) ==
    /\ Readable(x)
    /\ ~isTerminal(readRecord(x))
    /\ RoomForRow
    /\ Transact(i, ChangeOwner(x, Released(readRecord(x))) \o <<Reply(x, 0)>>)

Report(i, x, e) ==
    LET st == State(x)
        r == Effect(st.rec, e)
    IN  /\ Owns(i, x)
        /\ derivedEventKey(e) \notin st.seen
        /\ Accepts(st.rec, e, fence[x][i], lease[x] > 0)
        /\ RoomForRow
        /\ Transact(i, writeRecord(x, r, EventRow(st.seq + 1, e, fence[x][i]))
                        \o ClosePointer(x, r) \o <<Reply(x, 0)>>)

\* A write under a fence the process still believed in is refused
\* fence_stale: it has lost the execution for the rest of its life.
Refused(i, x) ==
    /\ Readable(x)
    /\ fence[x][i] > 0
    /\ readRecord(x).owner # NoOwner
    /\ readRecord(x).owner.fence # fence[x][i]
    /\ lost' = [lost EXCEPT ![x] = @ \cup {i}]
    /\ UNCHANGED <<log, torn, view, ptr, lease, holder, todo, fence, alive>>

-----------------------------------------------------------------------------
(* The writes of a call.                                                   *)

\* The lease an ownership row carries; a release ends it.
Leased(x, row) ==
    IF row.type # "ownership.changed" THEN lease
    ELSE [lease EXCEPT ![x] = IF row.owner = NoOwner THEN 0 ELSE Ttl]

Busy(i) == i \in alive /\ todo[i] # <<>>

Write(i) ==
    LET w == Head(todo[i])
    IN  /\ Busy(i)
        /\ w.to # "reply"
        /\ log' = IF w.to = "log" THEN [log EXCEPT ![w.id] = Append(@, w.row)] ELSE log
        /\ lease' = IF w.to = "log" THEN Leased(w.id, w.row) ELSE lease
        /\ view' = IF w.to = "view" THEN [view EXCEPT ![w.id] = w.rec] ELSE view
        /\ ptr' = IF w.to = "pointer" THEN Pointed(w) ELSE ptr
        /\ todo' = [todo EXCEPT ![i] = Tail(@)]
        /\ UNCHANGED <<torn, holder, fence, lost, alive>>

\* The lock is released and the caller answered.
Return(i) ==
    LET w == Head(todo[i])
    IN  /\ Busy(i)
        /\ w.to = "reply"
        /\ holder' = None
        /\ todo' = [todo EXCEPT ![i] = <<>>]
        /\ fence' = IF w.fence > 0 THEN [fence EXCEPT ![w.id][i] = w.fence] ELSE fence
        /\ UNCHANGED <<log, torn, view, ptr, lease, lost, alive>>

\* An interrupted write of the first row may leave its file behind.
Interrupted(i) ==
    \/ UNCHANGED torn
    \/ /\ todo[i] # <<>>
       /\ Head(todo[i]).to = "log"
       /\ log[Head(todo[i]).id] = <<>>
       /\ torn' = torn \cup {Head(todo[i]).id}

\* A write throws: the lock is released and the caller told "conflict",
\* whatever was already written.
Fail(i) ==
    /\ Busy(i)
    /\ Head(todo[i]).to # "reply"
    /\ Interrupted(i)
    /\ holder' = None
    /\ todo' = [todo EXCEPT ![i] = <<>>]
    /\ UNCHANGED <<log, view, ptr, lease, fence, lost, alive>>

Crash(i) ==
    /\ i \in alive
    /\ Interrupted(i)
    /\ alive' = alive \ {i}
    /\ todo' = [todo EXCEPT ![i] = <<>>]
    /\ UNCHANGED <<log, view, ptr, lease, holder, fence, lost>>

Tick ==
    /\ LockFree
    /\ \E x \in Ids : lease[x] > 0
    /\ lease' = [x \in Ids |-> IF lease[x] > 0 THEN lease[x] - 1 ELSE 0]
    /\ UNCHANGED <<log, torn, view, ptr, holder, todo, fence, lost, alive>>

\* A process calls when it has no call under way and gets the lock.
Call(i) ==
    /\ i \in alive
    /\ LockFree
    /\ \/ \E f \in Factories : Reopen(i, f) \/ OpenNew(i, f)
       \/ \E x \in Ids :
            \/ \E takeover \in Takeovers : Claim(i, x, takeover)
            \/ Renew(i, x)
            \/ Release(i, x)
            \/ ForceRelease(i, x)
            \/ \E e \in EventsSent : Report(i, x, e)
            \/ Refused(i, x)

Next ==
    \/ \E i \in Instances : Call(i) \/ Write(i) \/ Return(i) \/ Fail(i) \/ Crash(i)
    \/ Tick

Spec == Init /\ [][Next]_vars

-----------------------------------------------------------------------------
(* Properties.                                                             *)

TypeOK ==
    /\ torn \subseteq Ids
    /\ \A x \in Ids : view[x] = NoView \/ view[x] \in Record
    /\ ptr.open \in Ids \cup {NoId}
    /\ lease \in [Ids -> 0 .. Ttl]
    /\ holder \in Instances \cup {None}
    /\ \A x \in Ids : fence[x] \in [Instances -> 0 .. MaxRows] /\ lost[x] \subseteq Instances
    /\ alive \subseteq Instances

\* Every journal replays: no crash, failed write, takeover or late event leaves
\* a log whose rows rebuildFromEvents refuses.
LogReplays == \A x \in Journals : State(x).ok

\* Whatever crashes, an item never has two unfinished executions, nor two with
\* one attempt number: open would refuse the first for good, and the second
\* would mint an execution id again.
OneLive ==
    /\ Cardinality(Live) <= 1
    /\ \A x, y \in Journals : x.attempt = y.attempt => x = y

Owner(x) == readRecord(x).owner

\* "every later claim ... is refused": no door, open and re-open included, hands
\* an execution back to a process that was told it lost it.
LostStaysOut ==
    [][\A x \in Ids : \/ UNCHANGED log[x]
                      \/ lost[x] = {}
                      \/ Owner(x)'.inst \in lost[x] => Owner(x)' = Owner(x)]_vars

\* The fence the log last granted process i.
Granted(x, i) ==
    LET grants == {k \in DOMAIN log[x] :
                    log[x][k].type = "ownership.changed" /\ log[x][k].owner.inst = i}
    IN  IF grants = {} THEN 0
        ELSE log[x][CHOOSE k \in grants : \A j \in grants : j <= k].owner.fence

Abstract(x) == INSTANCE ExecutionRecord WITH
    rec <- readRecord(x),
    seen <- State(x).seen,
    lease <- lease[x],
    fence <- [i \in Instances |-> Granted(x, i)],
    MaxFence <- MaxRows

\* Every execution of the item behaves as the one atomic record of
\* ExecutionRecord: the append to its log is the step, everything else a
\* stutter, whichever writes a crash or a failure cut off.
RefinesRecord ==
    /\ \A x \in Ids : Abstract(x)!Init
    /\ [][\A x \in Ids : \/ UNCHANGED <<log[x], lease[x], alive>>
                         \/ UNCHANGED log[x] /\ (Abstract(x)!Tick \/ \E i \in Instances : Abstract(x)!Crash(i))
                         \/ Abstract(x)!Next
                         \/ UNCHANGED Abstract(x)!vars]_vars

=============================================================================
