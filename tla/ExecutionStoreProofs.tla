------------------------ MODULE ExecutionStoreProofs ------------------------
(***************************************************************************)
(* Proofs about ExecutionStore: every journal replays, an item has one     *)
(* live execution, a lost process stays out, and each execution behaves as *)
(* the record of ExecutionRecord, for any number of processes, factories,  *)
(* events, attempts and rows.                                              *)
(*                                                                         *)
(* The argument.  rebuildFromEvents is a fold over the rows, so appending  *)
(* a row replays it on the record before (RebuildAppend).  A log is Sound  *)
(* when it replays, its owner is the process it granted the execution to   *)
(* last, and nobody else holds the record's fence; the four rows a call    *)
(* may append (Claims, Renews, Releases, Reports) keep it sound            *)
(* (ContinuesAdvances).  That is not inductive as it stands: a row is      *)
(* appended some steps after it was decided on.  So the invariant also     *)
(* says of what a call has still to write that it fits the files as they   *)
(* are now (Pending): it holds one row that continues a log, or the two    *)
(* that begin the next attempt's; the pointer lists only executions whose  *)
(* log exists by then; and a fence is answered only once the log grants    *)
(* it.  The lock makes this stable: only its live holder has anything to   *)
(* write (Locked).                                                         *)
(***************************************************************************)
EXTENDS ExecutionStore, SequenceTheorems, FiniteSetTheorems, WellFoundedInduction, TLAPS

-----------------------------------------------------------------------------
(* Replaying a log is a fold over its rows.                                *)

\* The record of the first row.
FirstOf(row) == [Genesis EXCEPT !.ok = row = OpenedRow]

\* f[k] is the record of the first k rows.
Folds(f, rows, n) ==
    f = [k \in 1 .. n |-> IF k = 1 THEN FirstOf(rows[1])
                          ELSE ReplayRow(f[k - 1], rows[k])]

\* A fold of n rows extends to one of n + 1.
LEMMA FoldStep ==
    ASSUME NEW f, NEW rows, NEW n \in Nat, Folds(f, rows, n)
    PROVE  \E h : Folds(h, rows, n + 1)
<1> DEFINE Next1(g) == [k \in 1 .. (n + 1) |-> IF k = 1 THEN FirstOf(rows[1])
                          ELSE ReplayRow(g[k - 1], rows[k])]
           h == Next1(f)
<1>1. \A k \in 1 .. n : f[k] = IF k = 1 THEN FirstOf(rows[1])
                          ELSE ReplayRow(f[k - 1], rows[k])
  BY Zenon DEF Folds
<1>2. \A k \in 1 .. n : k \in 1 .. (n + 1) /\ h[k] = f[k]
  BY <1>1
<1>3. \A k \in 1 .. (n + 1) : k # 1 => k - 1 \in 1 .. n
  OBVIOUS
<1>4. \A k \in 1 .. (n + 1) : k # 1 => h[k - 1] = f[k - 1]
  BY <1>2, <1>3, Zenon
<1>5. h = Next1(h)
  <2> HIDE DEF h
  <2>1. h = Next1(f)
    BY DEF h
  <2> QED
    BY <1>4, <2>1
<1> QED
  BY <1>5, Zenon DEF Folds

\* Any number of rows has a fold.
LEMMA FoldExists ==
    ASSUME NEW rows, NEW n \in Nat
    PROVE  \E f : Folds(f, rows, n)
<1> DEFINE T == {k \in Nat : ~\E f : Folds(f, rows, k)}
<1>0. SUFFICES ASSUME T # {} PROVE FALSE
  BY Zenon
<1>1. PICK x \in T : \A y \in T : ~(<<y, x>> \in OpToRel(<, Nat))
  BY <1>0, NatLessThanWellFounded, WFMin
<1>2. x # 0
  <2>1. Folds([k \in 1 .. 0 |-> 0], rows, 0)
    BY DEF Folds
  <2> QED BY <2>1, Zenon
<1>3. x \in Nat /\ x - 1 \in Nat /\ x - 1 < x /\ (x - 1) + 1 = x
  BY <1>2
<1>4. <<x - 1, x>> \in OpToRel(<, Nat)
  BY <1>3 DEF OpToRel
<1>5. x - 1 \notin T
  BY <1>1, <1>4, Zenon
<1>6. \E f : Folds(f, rows, x - 1)
  BY <1>5, <1>3, Zenon
<1>7. \E f : Folds(f, rows, (x - 1) + 1)
  BY <1>6, <1>3, FoldStep, Zenon
<1> QED
  BY <1>3, <1>7, Zenon

\* Two folds agree where both are defined.
LEMMA FoldsAgree ==
    ASSUME NEW f, NEW h, NEW rows, NEW more, NEW n \in Nat, NEW m \in Nat,
           Folds(f, rows, n), Folds(h, more, m), n <= m,
           \A k \in 1 .. n : more[k] = rows[k],
           NEW j \in 1 .. n
    PROVE  f[j] = h[j]
<1> DEFINE T == {k \in Nat : k \in 1 .. n /\ f[k] # h[k]}
<1>0. SUFFICES ASSUME T # {} PROVE FALSE
  OBVIOUS
<1>1. PICK x \in T : \A y \in T : ~(<<y, x>> \in OpToRel(<, Nat))
  BY <1>0, NatLessThanWellFounded, WFMin
<1>2. \A k \in 1 .. n : f[k] = IF k = 1 THEN FirstOf(rows[1])
                          ELSE ReplayRow(f[k - 1], rows[k])
  BY Zenon DEF Folds
<1>3. \A k \in 1 .. m : h[k] = IF k = 1 THEN FirstOf(more[1])
                          ELSE ReplayRow(h[k - 1], more[k])
  BY Zenon DEF Folds
<1>4. x \in 1 .. n /\ x \in 1 .. m /\ x \in Nat
  OBVIOUS
<1>5. x # 1
  BY <1>2, <1>3, <1>4
<1>6. x - 1 \in 1 .. n /\ x - 1 \in Nat /\ x - 1 < x
  BY <1>4, <1>5
<1>7. <<x - 1, x>> \in OpToRel(<, Nat)
  BY <1>6, <1>4 DEF OpToRel
<1>8. x - 1 \notin T
  BY <1>1, <1>7, Zenon
<1>9. f[x - 1] = h[x - 1]
  BY <1>8, <1>6, Zenon
<1>10. f[x] = ReplayRow(f[x - 1], rows[x]) /\ h[x] = ReplayRow(h[x - 1], more[x])
  BY <1>2, <1>3, <1>4, <1>5, Zenon
<1>11. f[x] = h[x]
  BY <1>9, <1>10, <1>4, Zenon
<1> QED
  BY <1>11, <1>4

\* rebuildFromEvents is the last value of the fold of all rows.
LEMMA RebuildIsFold ==
    ASSUME NEW S, NEW rows \in Seq(S), rows # <<>>
    PROVE  \E f : Folds(f, rows, Len(rows)) /\ rebuildFromEvents(rows) = f[Len(rows)]
<1> DEFINE g == CHOOSE f : Folds(f, rows, Len(rows))
<1>1. Folds(g, rows, Len(rows))
  BY FoldExists, Zenon, LenProperties
<1>2. rebuildFromEvents(rows) = g[Len(rows)]
  BY Zenon DEF rebuildFromEvents, Folds, FirstOf
<1> QED
  BY <1>1, <1>2, Zenon

\* A log that grew by a row replays to the record before, and the row on it.
LEMMA RebuildAppend ==
    ASSUME NEW S, NEW rows \in Seq(S), rows # <<>>, NEW row \in S
    PROVE  rebuildFromEvents(Append(rows, row)) = ReplayRow(rebuildFromEvents(rows), row)
<1> DEFINE more == Append(rows, row)
           n == Len(rows)
<1>1. more \in Seq(S) /\ more # <<>> /\ Len(more) = n + 1 /\ n \in Nat \ {0}
      /\ more[n + 1] = row /\ \A k \in 1 .. n : more[k] = rows[k]
  OBVIOUS
<1> HIDE DEF more, n
<1>2. PICK f : Folds(f, rows, n) /\ rebuildFromEvents(rows) = f[n]
  BY RebuildIsFold, Zenon DEF n
<1>3. PICK h : Folds(h, more, n + 1) /\ rebuildFromEvents(more) = h[n + 1]
  BY RebuildIsFold, <1>1, Zenon
<1>4. n \in 1 .. n /\ n + 1 \in 1 .. (n + 1) /\ n + 1 \in Nat /\ n <= n + 1 /\ n + 1 # 1 /\ (n + 1) - 1 = n
  BY <1>1
<1>5. f[n] = h[n]
  <2>1. Folds(f, rows, n) /\ Folds(h, more, n + 1) /\ n \in Nat
    BY <1>1, <1>2, <1>3
  <2>2. \A k \in 1 .. n : more[k] = rows[k]
    BY <1>1
  <2> QED
    BY <1>4, <2>1, <2>2, FoldsAgree
<1>6. h[n + 1] = ReplayRow(h[(n + 1) - 1], more[n + 1])
  BY <1>3, <1>4, Zenon DEF Folds
<1> QED
  BY <1>1, <1>2, <1>3, <1>4, <1>5, <1>6, Zenon DEF more

\* A log of one row replays to the record as it is opened.
LEMMA RebuildFirst ==
    ASSUME NEW row
    PROVE  rebuildFromEvents(<<row>>) = FirstOf(row)
<1>0. <<row>> \in Seq({row}) /\ <<row>> # <<>> /\ Len(<<row>>) = 1 /\ <<row>>[1] = row /\ 1 \in 1 .. 1
  OBVIOUS
<1>1. PICK f : Folds(f, <<row>>, 1) /\ rebuildFromEvents(<<row>>) = f[1]
  BY <1>0, RebuildIsFold, Zenon
<1>2. f[1] = FirstOf(<<row>>[1])
  BY <1>0, <1>1, Zenon DEF Folds
<1> QED
  BY <1>0, <1>1, <1>2, Zenon
-----------------------------------------------------------------------------
(* A log on its own.                                                       *)

Owners == [inst : Instances \cup {None}, fence : Nat]

Keys == {derivedEventKey(e) : e \in EventsSent}

Rows ==
    {OpenedRow}
    \cup [type : {"ownership.changed"}, seq : Nat, owner : Owners, released : BOOLEAN]
    \cup [type : {"event"}, seq : Nat, event : EventsSent, fence : Nat, key : Keys]

States == [ok : BOOLEAN, rec : Record, seq : Nat, seen : SUBSET Keys]

IsGrant(row) == row.type = "ownership.changed" /\ row.owner.inst # None

\* A row hands the execution to o.
Given(rows, o) == \E k \in DOMAIN rows : IsGrant(rows[k]) /\ rows[k].owner = o

Grants(rows, i) ==
    {k \in DOMAIN rows : rows[k].type = "ownership.changed" /\ rows[k].owner.inst = i}

GrantedBy(rows, i) ==
    IF Grants(rows, i) = {} THEN 0
    ELSE rows[CHOOSE k \in Grants(rows, i) : \A j \in Grants(rows, i) : j <= k].owner.fence

\* The owner on the record is the one the log granted last, under its fence.
OwnerGranted(r, rows) ==
    \/ r.owner = NoOwner
    \/ /\ r.owner.inst \in Instances
       /\ ~r.released
       /\ Given(rows, r.owner)
       /\ GrantedBy(rows, r.owner.inst) = r.owner.fence

\* Nobody was granted a fence above the record's, nor the record's own but its owner.
GrantsBelow(r, rows) ==
    \A k \in DOMAIN rows :
        IsGrant(rows[k]) =>
            /\ rows[k].owner.fence \in 1 .. MaxRows
            /\ ~r.released => rows[k].owner.fence <= r.owner.fence
            /\ rows[k].owner.fence = r.owner.fence => rows[k].owner.inst = r.owner.inst

Sound(st, rows) ==
    /\ st \in States
    /\ st.ok
    /\ OwnerGranted(st.rec, rows)
    /\ GrantsBelow(st.rec, rows)
    /\ rows # <<>> => st.rec.owner.fence < Len(rows)

\* What process i may append to a log that replays to st.
Claims(st, i, row, leased) ==
    /\ Claimable(st.rec, i, leased)
    /\ \E t \in BOOLEAN :
        /\ ClaimFence(st.rec, i, t) <= MaxRows
        /\ row = OwnerRow(st.seq, [inst |-> i, fence |-> ClaimFence(st.rec, i, t)], FALSE)

Renews(st, i, row, leased) ==
    /\ leased
    /\ st.rec.owner.inst = i
    /\ row = OwnerRow(st.seq, st.rec.owner, FALSE)

Releases(st, row) ==
    /\ ~isTerminal(st.rec)
    /\ row = OwnerRow(st.seq, NoOwner, TRUE)

Reports(st, i, row, leased) ==
    \E e \in EventsSent :
        /\ derivedEventKey(e) \notin st.seen
        /\ st.rec.owner.inst = i
        /\ Accepts(st.rec, e, st.rec.owner.fence, leased)
        /\ row = EventRow(st.seq + 1, e, st.rec.owner.fence)

-----------------------------------------------------------------------------
(* The files of the item: l is a log per execution, le the leases, lo the  *)
(* losses.                                                                 *)

Rebuilt(l, x) == rebuildFromEvents(l[x])

JournalsOf(l) == {x \in Ids : l[x] # <<>>}

LiveOf(l) == {x \in JournalsOf(l) : ~isTerminal(Rebuilt(l, x).rec)}

Writes ==
    [to : {"log"}, id : Ids, row : Rows]
    \cup [to : {"view"}, id : Ids, rec : Record]
    \cup [to : {"pointer"}, open : Ids \cup {NoId}, add : Ids]
    \cup [to : {"reply"}, id : Ids, fence : Nat]

\* w continues its execution's log.
Continues(l, le, lo, i, w) ==
    LET st == Rebuilt(l, w.id)
        leased == le[w.id] > 0
    IN  /\ w.id \in JournalsOf(l)
        /\ \/ Claims(st, i, w.row, leased) /\ i \notin lo[w.id]
           \/ Renews(st, i, w.row, leased)
           \/ Releases(st, w.row)
           \/ Reports(st, i, w.row, leased)

\* v and w begin the log of the next attempt.
Begins(l, i, v, w) ==
    \E x \in Ids :
        /\ v = AppendLog(x, OpenedRow)
        /\ w = AppendLog(x, OwnerRow(0, [inst |-> i, fence |-> 1], FALSE))
        /\ x \notin JournalsOf(l)
        /\ x.attempt = Cardinality(JournalsOf(l)) + 1
        /\ LiveOf(l) = {}

LogWrites(t) == {k \in DOMAIN t : t[k].to = "log"}

LogsFit(l, le, lo, i, t) ==
    \/ LogWrites(t) = {}
    \/ \E k \in DOMAIN t : LogWrites(t) = {k} /\ Continues(l, le, lo, i, t[k])
    \/ \E k \in DOMAIN t : LogWrites(t) = {k, k + 1} /\ Begins(l, i, t[k], t[k + 1])

\* The pointer lists an execution only once its log exists.
PointersFit(J, t) ==
    \A k \in DOMAIN t : t[k].to = "pointer" =>
        \/ t[k].add \in J
        \/ \E m \in 1 .. (k - 1) : t[m].to = "log" /\ t[m].id = t[k].add

\* A log write hands its execution to o.
Hands(w, x, o) == w.to = "log" /\ w.id = x /\ IsGrant(w.row) /\ w.row.owner = o

\* A caller is told a fence only once the log grants it.
RepliesFit(l, i, t) ==
    \A k \in DOMAIN t : t[k].to = "reply" /\ t[k].fence > 0 =>
        LET o == [inst |-> i, fence |-> t[k].fence]
        IN  \/ Given(l[t[k].id], o)
            \/ \E m \in 1 .. (k - 1) : Hands(t[m], t[k].id, o)

Pending(l, le, lo, i, t) ==
    /\ LogsFit(l, le, lo, i, t)
    /\ PointersFit(JournalsOf(l), t)
    /\ RepliesFit(l, i, t)

-----------------------------------------------------------------------------
(* The inductive invariant.                                                *)

Typed ==
    /\ log \in [Ids -> Seq(Rows)]
    /\ torn \subseteq Ids
    /\ view \in [Ids -> Record \cup {NoView}]
    /\ ptr \in [open : Ids \cup {NoId}, executions : Seq(Ids)]
    /\ lease \in [Ids -> 0 .. Ttl]
    /\ holder \in Instances \cup {None}
    /\ todo \in [Instances -> Seq(Writes)]
    /\ fence \in [Ids -> [Instances -> Nat]]
    /\ lost \in [Ids -> SUBSET Instances]
    /\ alive \subseteq Instances

Replayable(l) == \A x \in Ids : Sound(Rebuilt(l, x), l[x])

\* Only the live process that holds the lock has something to write.
Locked == \A i \in Instances : todo[i] # <<>> => i \in alive /\ holder = i

\* The item's attempts are numbered without gaps and only one is unfinished.
Numbered(l) ==
    /\ IsFiniteSet(JournalsOf(l))
    /\ \A x \in JournalsOf(l) : x.attempt <= Cardinality(JournalsOf(l))
    /\ \A x, y \in JournalsOf(l) : x.attempt = y.attempt => x = y
    /\ \A x, y \in LiveOf(l) : x = y

Listed(l, executions) == \A k \in DOMAIN executions : executions[k] \in JournalsOf(l)

\* What a process was answered stands in the log.
Answered(l, f, lo) ==
    \A x \in Ids :
        /\ \A i \in Instances : f[x][i] > 0 => Given(l[x], [inst |-> i, fence |-> f[x][i]])
        /\ lo[x] # {} => x \in JournalsOf(l)

IInv ==
    /\ Typed
    /\ Locked
    /\ Replayable(log)
    /\ Numbered(log)
    /\ Listed(log, ptr.executions)
    /\ Answered(log, fence, lost)
    /\ \A i \in Instances : Pending(log, lease, lost, i, todo[i])

\* An event changes neither the owner nor the record's release.
LEMMA EffectKeepsOwner ==
    ASSUME NEW r \in Record, NEW e \in Events
    PROVE  Effect(r, e).owner = r.owner /\ Effect(r, e).released = r.released
  BY DEF Record, Events, Effect, Pinned, Published

\* The tip of a record that has a candidate is one.
LEMMA TipType ==
    ASSUME NEW r \in Record, HasCandidate(r)
    PROVE  Tip(r) \in Candidate
  BY DEF Record, HasCandidate, Tip

\* An event that is admitted yields a record.
LEMMA EffectType ==
    ASSUME NEW r \in Record, NEW e \in Events, Admits(r, e, FALSE)
    PROVE  Effect(r, e) \in Record
<1>1. CASE e.type = "candidate.pinned"
  <2>1. e.cand \in Candidates /\ e.supersedes \in Candidates \cup {None}
        /\ e.ref \in BOOLEAN
    BY <1>1 DEF Events
  <2> DEFINE entry == [id |-> e.cand,
                      supersedes |-> IF HasCandidate(r) THEN Tip(r).id
                                     ELSE e.supersedes,
                      published |-> e.ref]
  <2>a. entry \in Candidate
    BY <2>1, TipType DEF Candidate
  <2>b. Append(r.chain, entry) \in Seq(Candidate)
    BY <2>a DEF Record
  <2> HIDE DEF entry
  <2>c. Pinned(r, e) = [r EXCEPT !.stage = "gating"]
        \/ Pinned(r, e) = [r EXCEPT !.stage = "gating",
              !.integration = IF HasCandidate(r) THEN None ELSE @,
              !.chain = Append(@, entry)]
    BY DEF Pinned, entry
  <2>2. Pinned(r, e) \in Record
    BY <2>b, <2>c DEF Record, Stages
  <2> QED
    BY <1>1, <2>2 DEF Effect
<1>2. CASE e.type = "candidate.published"
  <2> DEFINE chain == [k \in DOMAIN r.chain |->
                        IF r.chain[k].id = e.cand
                        THEN [r.chain[k] EXCEPT !.published = TRUE]
                        ELSE r.chain[k]]
  <2>d. r.chain \in Seq(Candidate)
    BY DEF Record
  <2>e. Len(r.chain) \in Nat /\ DOMAIN r.chain = 1 .. Len(r.chain)
        /\ \A k \in DOMAIN r.chain : r.chain[k] \in Candidate
    BY <2>d
  <2>f. \A k \in DOMAIN r.chain :
            [r.chain[k] EXCEPT !.published = TRUE] \in Candidate
    BY <2>e DEF Candidate
  <2>a. chain \in [1 .. Len(r.chain) -> Candidate]
    BY <2>e, <2>f
  <2> HIDE DEF chain
  <2>g. Seq(Candidate) = UNION {[1 .. n -> Candidate] : n \in Nat}
    BY SeqDef, Zenon
  <2>b. chain \in Seq(Candidate)
    BY <2>a, <2>e, <2>g, Zenon
  <2>c. Published(r, e.cand) = [r EXCEPT !.chain = chain]
    BY DEF Published, chain
  <2>1. Published(r, e.cand) \in Record
    BY <2>b, <2>c DEF Record
  <2> QED
    BY <1>2, <2>1 DEF Effect
<1>3. CASE e.type = "gate.settled"
  <2>1. e.gate \in Gates /\ e.state \in GateStates
        /\ e.cand \in Candidates \cup {None}
    BY <1>3 DEF Events
  <2>2. Tip(r).id \in Candidates
    BY <1>3, TipType DEF Admits, candidatePublished, Candidate
  <2> QED
    BY <1>3, <2>1, <2>2 DEF Effect, Record
<1>4. CASE e.type = "gate.started"
  BY <1>4 DEF Effect, Record, Events, Stages
<1>5. CASE e.type \notin {"candidate.pinned", "candidate.published",
                          "gate.settled", "gate.started"}
  BY <1>5 DEF Record, Events, Effect, Stages, IntegrationStates, GateStates
<1> QED
  BY <1>1, <1>2, <1>3, <1>4, <1>5

-----------------------------------------------------------------------------
(* What an appended row does to a log.                                     *)

\* A bounded set of numbers has a greatest one.
LEMMA Greatest ==
    ASSUME NEW n \in Nat, NEW S \in SUBSET (1 .. n), S # {}
    PROVE  \E k \in S : \A j \in S : j <= k
<1> DEFINE T == {n - k : k \in S}
<1>0. \A k \in S : k \in Nat /\ n - k \in Nat
  OBVIOUS
<1>1. T \subseteq Nat /\ T # {}
  BY <1>0, Zenon
<1>2. PICK m \in T : \A y \in T : ~(<<y, m>> \in OpToRel(<, Nat))
  BY <1>1, NatLessThanWellFounded, WFMin
<1>3. PICK k \in S : m = n - k
  OBVIOUS
<1>4. ASSUME NEW j \in S PROVE j <= k
  <2>1. n - j \in T /\ n - j \in Nat /\ n - k \in Nat /\ j \in Nat /\ k \in Nat
    BY <1>0, <1>3
  <2>2. ~(n - j < n - k)
    BY <1>2, <1>3, <2>1 DEF OpToRel
  <2> QED
    BY <2>1, <2>2
<1> QED
  BY <1>4

\* The rows of a log that grew by one.
LEMMA Appended ==
    ASSUME NEW rows \in Seq(Rows), NEW row \in Rows
    PROVE  /\ Append(rows, row) \in Seq(Rows)
           /\ Append(rows, row) # <<>>
           /\ Len(rows) \in Nat
           /\ Len(Append(rows, row)) = Len(rows) + 1
           /\ DOMAIN rows = 1 .. Len(rows)
           /\ DOMAIN Append(rows, row) = 1 .. (Len(rows) + 1)
           /\ Append(rows, row)[Len(rows) + 1] = row
           /\ \A k \in 1 .. Len(rows) : Append(rows, row)[k] = rows[k]
  OBVIOUS

\* The grants of a log stay, and a new one is among them.
LEMMA GivenAppended ==
    ASSUME NEW rows \in Seq(Rows), NEW row \in Rows, NEW o,
           Given(rows, o) \/ (IsGrant(row) /\ row.owner = o)
    PROVE  Given(Append(rows, row), o)
<1> DEFINE more == Append(rows, row)
<1>1. /\ Len(rows) \in Nat /\ DOMAIN rows = 1 .. Len(rows)
      /\ DOMAIN more = 1 .. (Len(rows) + 1) /\ more[Len(rows) + 1] = row
      /\ \A k \in 1 .. Len(rows) : more[k] = rows[k]
  BY Appended
<1> HIDE DEF more
<1>2. CASE Given(rows, o)
  <2>1. PICK k \in DOMAIN rows : IsGrant(rows[k]) /\ rows[k].owner = o
    BY <1>2 DEF Given
  <2>2. k \in DOMAIN more /\ more[k] = rows[k]
    BY <1>1
  <2> QED
    BY <2>1, <2>2 DEF Given, more
<1>3. CASE IsGrant(row) /\ row.owner = o
  <2>1. Len(rows) + 1 \in DOMAIN more
    BY <1>1
  <2> QED
    BY <1>1, <1>3, <2>1 DEF Given, more
<1> QED
  BY <1>2, <1>3

\* The fence last granted to i is the one of the new row, if that is for i.
LEMMA GrantedAppended ==
    ASSUME NEW rows \in Seq(Rows), NEW row \in Rows, NEW i
    PROVE  GrantedBy(Append(rows, row), i)
             = IF row.type = "ownership.changed" /\ row.owner.inst = i
               THEN row.owner.fence ELSE GrantedBy(rows, i)
<1> DEFINE more == Append(rows, row)
           n == Len(rows)
           last == CHOOSE k \in Grants(more, i) : \A j \in Grants(more, i) : j <= k
<1>1. /\ n \in Nat /\ DOMAIN rows = 1 .. n
      /\ DOMAIN more = 1 .. (n + 1) /\ more[n + 1] = row
      /\ \A k \in 1 .. n : more[k] = rows[k]
  BY Appended
<1> HIDE DEF more, n
<1>2. CASE row.type = "ownership.changed" /\ row.owner.inst = i
  <2>1. n + 1 \in Grants(more, i) /\ \A j \in Grants(more, i) : j <= n + 1 /\ j \in Nat
    BY <1>1, <1>2 DEF Grants
  <2>2. last \in Grants(more, i) /\ \A j \in Grants(more, i) : j <= last
    BY <2>1
  <2>3. last = n + 1
    BY <1>1, <2>1, <2>2
  <2>4. GrantedBy(more, i) = more[last].owner.fence
    BY <2>1 DEF GrantedBy
  <2> QED
    BY <1>1, <1>2, <2>3, <2>4 DEF more
<1>3. CASE ~(row.type = "ownership.changed" /\ row.owner.inst = i)
  <2>1. Grants(more, i) = Grants(rows, i)
    <3>1. \A k : k \in Grants(more, i) => k \in Grants(rows, i)
      BY <1>1, <1>3 DEF Grants
    <3>2. \A k : k \in Grants(rows, i) => k \in Grants(more, i)
      BY <1>1 DEF Grants
    <3> QED
      BY <3>1, <3>2
  <2>2. CASE Grants(rows, i) = {}
    BY <1>3, <2>1, <2>2 DEF GrantedBy, more
  <2>3. CASE Grants(rows, i) # {}
    <3>1. Grants(rows, i) \in SUBSET (1 .. n)
      BY <1>1 DEF Grants
    <3>2. \E k \in Grants(rows, i) : \A j \in Grants(rows, i) : j <= k
      BY <1>1, <2>3, <3>1, Greatest
    <3>3. last \in Grants(rows, i)
      BY <2>1, <3>2
    <3>4. more[last] = rows[last]
      BY <1>1, <3>1, <3>3
    <3>5. GrantedBy(more, i) = more[last].owner.fence
      BY <2>1, <2>3 DEF GrantedBy
    <3>6. GrantedBy(rows, i) = rows[last].owner.fence
      BY <2>1, <2>3 DEF GrantedBy
    <3> QED
      BY <1>3, <3>4, <3>5, <3>6 DEF more
  <2> QED
    BY <2>2, <2>3
<1> QED
  BY <1>2, <1>3

\* Whoever takes the execution takes a fence nobody holds, or keeps its own;
\* a release leaves it to nobody.
Transfers(r, o, released) ==
    \/ /\ o.inst \in Instances
       /\ o.fence \in 1 .. MaxRows
       /\ ~released
       /\ ~r.released
       /\ \/ o.fence = r.owner.fence + 1
          \/ o.fence = r.owner.fence /\ o.inst = r.owner.inst
    \/ o = NoOwner /\ released

Handed(st, o, b, new) ==
    /\ new \in States
    /\ new.ok
    /\ new.seen = st.seen
    /\ b => new.rec = [st.rec EXCEPT !.owner = o, !.released = TRUE]
    /\ ~b => new.rec = [st.rec EXCEPT !.owner = o]

\* The record after a change of owner.
LEMMA OwnerReplayed ==
    ASSUME NEW st \in States, st.ok, NEW o \in Owners, NEW b \in BOOLEAN
    PROVE  Handed(st, o, b, ReplayRow(st, OwnerRow(st.seq, o, b)))
<1> DEFINE row == OwnerRow(st.seq, o, b)
           r == IF b THEN [st.rec EXCEPT !.owner = o, !.released = TRUE]
                ELSE [st.rec EXCEPT !.owner = o]
<1>1. r \in Record
  BY DEF States, Record, Owners
<1>2. row.type = "ownership.changed" /\ row.seq = st.seq /\ row.owner = o /\ row.released = b
  BY DEF OwnerRow
<1>3. ReplayRow(st, row) = [st EXCEPT !.ok = TRUE, !.rec = r]
  <2>1. CASE b
    BY <1>2, <2>1 DEF ReplayRow, States, Record
  <2>2. CASE ~b
    <3>1. st.rec \in Record /\ st.rec.released \in BOOLEAN
      BY DEF States, Record
    <3>2. (st.rec.released \/ b) = st.rec.released
      BY <2>2, <3>1
    <3>3. [st.rec EXCEPT !.owner = o, !.released = st.rec.released] = [st.rec EXCEPT !.owner = o]
      BY <3>1 DEF Record
    <3>4. ReplayRow(st, row)
            = [st EXCEPT !.ok = TRUE,
                         !.rec = [st.rec EXCEPT !.owner = o, !.released = st.rec.released]]
      BY <1>2, <3>1, <3>2 DEF ReplayRow, States
    <3> QED
      BY <2>2, <3>3, <3>4
  <2> QED
    BY <2>1, <2>2
<1> HIDE DEF row, r
<1> DEFINE new == ReplayRow(st, row)
<1>4. new \in States /\ new.ok /\ new.seen = st.seen /\ new.rec = r
  BY <1>1, <1>3 DEF States
<1> QED
  BY <1>4 DEF r, row, Handed

\* A change of owner keeps the log sound.
LEMMA OwnerSound ==
    ASSUME NEW rows \in Seq(Rows), rows # <<>>, NEW st, Sound(st, rows),
           NEW o \in Owners, NEW b \in BOOLEAN, Transfers(st.rec, o, b)
    PROVE  Sound(ReplayRow(st, OwnerRow(st.seq, o, b)),
                 Append(rows, OwnerRow(st.seq, o, b)))
<1> DEFINE row == OwnerRow(st.seq, o, b)
           more == Append(rows, row)
           n == Len(rows)
           new == ReplayRow(st, row)
           r == st.rec
<1>1. st \in States /\ st.ok /\ r \in Record /\ r.owner \in Owners /\ r.released \in BOOLEAN
  BY DEF Sound, States, Record, Owners
<1>2. row \in Rows /\ row.type = "ownership.changed" /\ row.owner = o
  BY <1>1 DEF Rows, OwnerRow, States
<1>3. /\ n \in Nat /\ DOMAIN rows = 1 .. n
      /\ more \in Seq(Rows) /\ Len(more) = n + 1
      /\ DOMAIN more = 1 .. (n + 1) /\ more[n + 1] = row
      /\ \A k \in 1 .. n : more[k] = rows[k]
  BY <1>2, Appended
<1>a. Handed(st, o, b, new)
  BY <1>1, OwnerReplayed
<1> HIDE DEF new
<1>4. /\ new \in States /\ new.ok
      /\ b => new.rec = [r EXCEPT !.owner = o, !.released = TRUE]
      /\ ~b => new.rec = [r EXCEPT !.owner = o]
  BY <1>a DEF Handed
<1>5. new.rec.owner = o /\ (b => new.rec.released) /\ (~b => new.rec.released = r.released)
  BY <1>1, <1>4 DEF Record
<1>6. r.owner.fence \in Nat /\ r.owner.fence < n /\ n # 0
  BY <1>1, <1>3 DEF Sound, Owners
<1>7. None \notin Instances /\ o.inst \in Instances \cup {None} /\ o.fence \in Nat
  BY ExecutionAssumption DEF Owners
<1>8. GrantedBy(more, o.inst) = o.fence
  BY <1>2, GrantedAppended
<1>9. o.inst # None => Given(more, o)
  BY <1>2, GivenAppended DEF IsGrant
<1> HIDE DEF row, more, n, new
<1>10. OwnerGranted(new.rec, more)
  <2>1. CASE o = NoOwner
    BY <1>5, <2>1 DEF OwnerGranted
  <2>2. CASE o.inst \in Instances /\ ~b /\ ~r.released
    BY <1>5, <1>7, <1>8, <1>9, <2>2 DEF OwnerGranted
  <2> QED
    BY <2>1, <2>2 DEF Transfers
<1>11. GrantsBelow(new.rec, more)
  <2> SUFFICES ASSUME NEW k \in 1 .. (n + 1), IsGrant(more[k])
               PROVE  /\ more[k].owner.fence \in 1 .. MaxRows
                      /\ ~new.rec.released => more[k].owner.fence <= new.rec.owner.fence
                      /\ more[k].owner.fence = new.rec.owner.fence
                            => more[k].owner.inst = new.rec.owner.inst
    BY <1>3 DEF GrantsBelow
  <2>1. CASE k = n + 1
    <3>1. more[k] = row /\ o.inst # None
      BY <1>2, <1>3, <2>1 DEF IsGrant
    <3>2. o.fence \in 1 .. MaxRows
      BY <3>1 DEF Transfers, NoOwner
    <3> QED
      BY <1>2, <1>5, <1>7, <3>1, <3>2
  <2>2. CASE k # n + 1
    <3>1. k \in DOMAIN rows /\ more[k] = rows[k]
      BY <1>3, <2>2
    <3>2. /\ rows[k].owner.fence \in 1 .. MaxRows
          /\ ~r.released => rows[k].owner.fence <= r.owner.fence
          /\ rows[k].owner.fence = r.owner.fence => rows[k].owner.inst = r.owner.inst
      BY <3>1 DEF Sound, GrantsBelow
    <3>3. CASE o = NoOwner /\ b
      BY <1>5, <3>1, <3>2, <3>3, StoreAssumption DEF NoOwner
    <3>4. CASE ~b /\ ~r.released /\ o.fence = r.owner.fence + 1
      BY <1>5, <1>6, <3>1, <3>2, <3>4, StoreAssumption
    <3>5. CASE ~b /\ ~r.released /\ o.fence = r.owner.fence /\ o.inst = r.owner.inst
      BY <1>5, <1>6, <3>1, <3>2, <3>5
    <3> QED
      BY <3>3, <3>4, <3>5 DEF Transfers
  <2> QED
    BY <2>1, <2>2
<1>12. new.rec.owner.fence < Len(more)
  BY <1>3, <1>5, <1>6, <1>7 DEF Transfers, NoOwner
<1> QED
  BY <1>4, <1>10, <1>11, <1>12 DEF Sound, new, more, row

\* What a journal was asked when a row was written it is not asked again.
LEMMA AdmitsTrusted ==
    ASSUME NEW r \in Record, NEW e \in Events, Admits(r, e, FALSE)
    PROVE  Admits(r, e, TRUE)
<1> USE DEF candidatePublished
<1>1. CASE e.type = "candidate.pinned"
  <2>1. PinAdmitted(r, e, FALSE)
    BY <1>1 DEF Admits
  <2>2. PinAdmitted(r, e, TRUE)
    BY <2>1 DEF PinAdmitted
  <2> QED
    BY <1>1, <2>2 DEF Admits
<1>2. CASE e.type = "candidate.published"
  <2>1. OnChain(r, e.cand)
    BY <1>2 DEF Admits
  <2> QED
    BY <1>2, <2>1 DEF Admits
<1>3. CASE e.type = "gate.started"
  <2>1. e.gate \in Gates /\ HasCandidate(r)
    BY <1>3 DEF Admits
  <2> QED
    BY <1>3, <2>1 DEF Admits
<1>4. CASE e.type = "gate.settled"
  <2>1. e.gate \in Gates /\ HasCandidate(r) /\ (e.cand # None => OnChain(r, e.cand))
    BY <1>4 DEF Admits
  <2> QED
    BY <1>4, <2>1 DEF Admits
<1>5. CASE e.type = "rescue.started"
  <2>1. HasCandidate(r)
    BY <1>5 DEF Admits
  <2> QED
    BY <1>5, <2>1 DEF Admits
<1>6. CASE e.type = "integration.started"
  <2>1. boundaryReachedForGates(r, FALSE)
    BY <1>6 DEF Admits
  <2>2. boundaryReachedForGates(r, TRUE)
    BY <2>1 DEF boundaryReachedForGates
  <2> QED
    BY <1>6, <2>2 DEF Admits
<1>7. CASE e.type = "integration.settled"
  <2>1. r.integration # None
    BY <1>7 DEF Admits
  <2> QED
    BY <1>7, <2>1 DEF Admits
<1>8. CASE e.type = "completion.written"
  <2>1. boundaryReached(r, FALSE)
    BY <1>8 DEF Admits
  <2>2. boundaryReached(r, TRUE)
    BY <2>1 DEF boundaryReached, boundaryReachedForGates
  <2> QED
    BY <1>8, <2>2 DEF Admits
<1>9. CASE e.type \notin {"candidate.pinned", "candidate.published", "gate.started",
            "gate.settled", "rescue.started", "integration.started",
            "integration.settled", "completion.written"}
  BY <1>9 DEF Admits
<1> QED
  BY <1>1, <1>2, <1>3, <1>4, <1>5, <1>6, <1>7, <1>8, <1>9

\* The record after an event that was accepted when it was written.
LEMMA EventReplayed ==
    ASSUME NEW st \in States, st.ok, NEW e \in EventsSent, NEW f \in Nat, NEW leased,
           derivedEventKey(e) \notin st.seen, Accepts(st.rec, e, f, leased)
    PROVE  /\ ReplayRow(st, EventRow(st.seq + 1, e, f)) \in States
           /\ ReplayRow(st, EventRow(st.seq + 1, e, f)).ok
           /\ ReplayRow(st, EventRow(st.seq + 1, e, f)).seen = st.seen \cup {derivedEventKey(e)}
           /\ ReplayRow(st, EventRow(st.seq + 1, e, f)).rec = Effect(st.rec, e)
           /\ Effect(st.rec, e).owner = st.rec.owner
           /\ Effect(st.rec, e).released = st.rec.released
<1> DEFINE row == EventRow(st.seq + 1, e, f)
           r == Effect(st.rec, e)
           q == st.seq + 1
           s == st.seen \cup {derivedEventKey(e)}
<1>1. e \in Events /\ st.rec \in Record /\ Admits(st.rec, e, FALSE) /\ ~isTerminal(st.rec)
      /\ ownershipFence(st.rec, f)
  BY DEF EventsSent, States, Accepts, ownershipLive
<1>2. r \in Record /\ r.owner = st.rec.owner /\ r.released = st.rec.released
  BY <1>1, EffectType, EffectKeepsOwner
<1>3. Replays(st.rec, e, f)
  BY <1>1, AdmitsTrusted DEF Replays
<1>4. row.type = "event" /\ row.seq = q /\ row.event = e /\ row.fence = f
      /\ row.key = derivedEventKey(e)
  BY DEF EventRow
<1>5. q \in Nat /\ s \in SUBSET Keys
  BY DEF States, Keys
<1> HIDE DEF row, r
<1>6. ReplayRow(st, row) = [st EXCEPT !.rec = r, !.seq = q, !.seen = s]
  BY <1>3, <1>4 DEF ReplayRow, r, States
<1> HIDE DEF q, s
<1>7. ReplayRow(st, row) \in States /\ ReplayRow(st, row).ok
      /\ ReplayRow(st, row).seen = s /\ ReplayRow(st, row).rec = r
  BY <1>2, <1>5, <1>6 DEF States
<1> QED
  BY <1>2, <1>7 DEF row, r, s

\* An event keeps the log sound.
LEMMA EventSound ==
    ASSUME NEW rows \in Seq(Rows), rows # <<>>, NEW st, Sound(st, rows),
           NEW e \in EventsSent, NEW f \in Nat, NEW leased,
           derivedEventKey(e) \notin st.seen, Accepts(st.rec, e, f, leased)
    PROVE  Sound(ReplayRow(st, EventRow(st.seq + 1, e, f)),
                 Append(rows, EventRow(st.seq + 1, e, f)))
<1> DEFINE row == EventRow(st.seq + 1, e, f)
           more == Append(rows, row)
           n == Len(rows)
           new == ReplayRow(st, row)
           r == st.rec
<1>1. st \in States /\ st.ok /\ r \in Record /\ r.owner \in Owners
  BY DEF Sound, States, Record, Owners
<1>2. st.seq + 1 \in Nat /\ derivedEventKey(e) \in Keys
  BY <1>1 DEF States, Keys
<1>3. row \in Rows /\ row.type = "event"
  BY <1>2 DEF Rows, EventRow
<1>4. /\ n \in Nat /\ DOMAIN rows = 1 .. n
      /\ more \in Seq(Rows) /\ Len(more) = n + 1
      /\ DOMAIN more = 1 .. (n + 1) /\ more[n + 1] = row
      /\ \A k \in 1 .. n : more[k] = rows[k]
  BY <1>3, Appended
<1>5. new \in States /\ new.ok /\ new.rec.owner = r.owner /\ new.rec.released = r.released
  BY <1>1, EventReplayed
<1>6. GrantedBy(more, r.owner.inst) = GrantedBy(rows, r.owner.inst)
  BY <1>3, GrantedAppended
<1>7. Given(rows, r.owner) => Given(more, r.owner)
  BY <1>3, GivenAppended
<1> HIDE DEF row, more, n, new
<1>8. OwnerGranted(new.rec, more)
  BY <1>5, <1>6, <1>7 DEF Sound, OwnerGranted
<1>9. GrantsBelow(new.rec, more)
  <2> SUFFICES ASSUME NEW k \in 1 .. (n + 1), IsGrant(more[k])
               PROVE  /\ more[k].owner.fence \in 1 .. MaxRows
                      /\ ~new.rec.released => more[k].owner.fence <= new.rec.owner.fence
                      /\ more[k].owner.fence = new.rec.owner.fence
                            => more[k].owner.inst = new.rec.owner.inst
    BY <1>4 DEF GrantsBelow
  <2>1. k # n + 1
    BY <1>3, <1>4 DEF IsGrant
  <2>2. k \in DOMAIN rows /\ more[k] = rows[k]
    BY <1>4, <2>1
  <2> QED
    BY <1>5, <2>2 DEF Sound, GrantsBelow
<1>10. new.rec.owner.fence < Len(more)
  BY <1>1, <1>4, <1>5 DEF Sound, Owners
<1> QED
  BY <1>5, <1>8, <1>9, <1>10 DEF Sound, new, more, row

-----------------------------------------------------------------------------
(* The rows a process may append.                                          *)

\* The owner of a sound log holds a fence of its own and an unreleased record.
LEMMA OwnerKnown ==
    ASSUME NEW rows \in Seq(Rows), NEW st, Sound(st, rows), st.rec.owner # NoOwner
    PROVE  /\ st.rec.owner \in Owners
           /\ st.rec.owner.inst \in Instances
           /\ st.rec.owner.fence \in 1 .. MaxRows
           /\ ~st.rec.released
           /\ Given(rows, st.rec.owner)
           /\ GrantedBy(rows, st.rec.owner.inst) = st.rec.owner.fence
<1>1. OwnerGranted(st.rec, rows) /\ GrantsBelow(st.rec, rows)
  BY DEF Sound
<1>2. PICK k \in DOMAIN rows : IsGrant(rows[k]) /\ rows[k].owner = st.rec.owner
  BY <1>1 DEF OwnerGranted, Given
<1>3. rows[k].owner.fence \in 1 .. MaxRows
  BY <1>1, <1>2 DEF GrantsBelow
<1>4. st.rec.owner \in Owners
  BY DEF Sound, States, Record, Owners
<1> QED
  BY <1>1, <1>2, <1>3, <1>4 DEF OwnerGranted

\* Whoever was granted the record's fence is its owner.
LEMMA FenceKnown ==
    ASSUME NEW rows \in Seq(Rows), NEW st, Sound(st, rows), NEW i, NEW f,
           Given(rows, [inst |-> i, fence |-> f]), f = st.rec.owner.fence
    PROVE  st.rec.owner.inst = i
<1>1. PICK k \in DOMAIN rows : IsGrant(rows[k]) /\ rows[k].owner = [inst |-> i, fence |-> f]
  BY DEF Given
<1> QED
  BY <1>1 DEF Sound, GrantsBelow

\* A claim is a transfer.
LEMMA ClaimTransfers ==
    ASSUME NEW rows \in Seq(Rows), NEW st, Sound(st, rows), NEW i \in Instances,
           NEW leased, NEW t \in BOOLEAN, Claimable(st.rec, i, leased),
           ClaimFence(st.rec, i, t) <= MaxRows
    PROVE  /\ [inst |-> i, fence |-> ClaimFence(st.rec, i, t)] \in Owners
           /\ Transfers(st.rec, [inst |-> i, fence |-> ClaimFence(st.rec, i, t)], FALSE)
<1>0. st.rec.owner.fence \in Nat /\ MaxRows \in Nat /\ None \notin Instances
  BY StoreAssumption, ExecutionAssumption DEF Sound, States, Record
<1>1. ~st.rec.released
  BY DEF Claimable, isTerminal
<1>2. CASE st.rec.owner.inst = i /\ ~t
  <2>1. st.rec.owner # NoOwner
    BY <1>0, <1>2 DEF NoOwner
  <2>2. st.rec.owner.fence \in 1 .. MaxRows
    BY <2>1, OwnerKnown
  <2>3. ClaimFence(st.rec, i, t) = st.rec.owner.fence
    BY <1>2 DEF ClaimFence
  <2> QED
    BY <1>0, <1>1, <1>2, <2>2, <2>3 DEF Transfers, Owners
<1>3. CASE ~(st.rec.owner.inst = i /\ ~t)
  <2>1. ClaimFence(st.rec, i, t) = st.rec.owner.fence + 1
    BY <1>3 DEF ClaimFence
  <2> QED
    BY <1>0, <1>1, <2>1 DEF Transfers, Owners
<1> QED
  BY <1>2, <1>3

\* What one of the four rows makes of the log: it stays sound, and a terminal
\* record stays terminal.
Advances(st, rows, row) ==
    /\ row \in Rows
    /\ Sound(ReplayRow(st, row), Append(rows, row))
    /\ isTerminal(st.rec) => isTerminal(ReplayRow(st, row).rec)

\* A claim advances the log.
LEMMA ClaimAdvances ==
    ASSUME NEW rows \in Seq(Rows), rows # <<>>, NEW st, Sound(st, rows),
           NEW i \in Instances, NEW leased, NEW row, Claims(st, i, row, leased)
    PROVE  Advances(st, rows, row)
<1>1. PICK t \in BOOLEAN :
        /\ ClaimFence(st.rec, i, t) <= MaxRows
        /\ row = OwnerRow(st.seq, [inst |-> i, fence |-> ClaimFence(st.rec, i, t)], FALSE)
  BY DEF Claims
<1>2. Claimable(st.rec, i, leased)
  BY DEF Claims
<1> DEFINE o == [inst |-> i, fence |-> ClaimFence(st.rec, i, t)]
<1>3. o \in Owners /\ Transfers(st.rec, o, FALSE)
  BY <1>1, <1>2, ClaimTransfers
<1> HIDE DEF o
<1>4. row = OwnerRow(st.seq, o, FALSE)
  BY <1>1 DEF o
<1>5. Sound(ReplayRow(st, row), Append(rows, row))
  BY <1>3, <1>4, OwnerSound
<1>6. row \in Rows
  BY <1>3, <1>4 DEF OwnerRow, Rows, Sound, States
<1>7. ~isTerminal(st.rec)
  BY <1>2 DEF Claimable
<1> QED
  BY <1>5, <1>6, <1>7 DEF Advances

\* A renewal advances the log.
LEMMA RenewAdvances ==
    ASSUME NEW rows \in Seq(Rows), rows # <<>>, NEW st, Sound(st, rows),
           NEW i \in Instances, NEW leased, NEW row, Renews(st, i, row, leased)
    PROVE  Advances(st, rows, row)
<1> DEFINE o == st.rec.owner
           new == ReplayRow(st, row)
<1>1. row = OwnerRow(st.seq, o, FALSE) /\ o.inst = i
  BY DEF Renews
<1>2. o # NoOwner
  BY <1>1, ExecutionAssumption DEF NoOwner
<1>3. o \in Owners /\ o.fence \in 1 .. MaxRows /\ ~st.rec.released
  BY <1>2, OwnerKnown
<1>4. Transfers(st.rec, o, FALSE)
  BY <1>1, <1>3 DEF Transfers
<1>5. Sound(new, Append(rows, row))
  BY <1>1, <1>3, <1>4, OwnerSound
<1>6. row \in Rows
  BY <1>1, <1>3 DEF OwnerRow, Rows, Sound, States
<1>7. Handed(st, o, FALSE, new)
  BY <1>1, <1>3, OwnerReplayed DEF Sound
<1>8. new.rec = [st.rec EXCEPT !.owner = o] /\ st.rec \in Record
  BY <1>7 DEF Handed, Sound, States
<1>9. isTerminal(st.rec) => isTerminal(new.rec)
  BY <1>8 DEF isTerminal, Record
<1> QED
  BY <1>5, <1>6, <1>9 DEF Advances

\* A release advances the log.
LEMMA ReleaseAdvances ==
    ASSUME NEW rows \in Seq(Rows), rows # <<>>, NEW st, Sound(st, rows),
           NEW row, Releases(st, row)
    PROVE  Advances(st, rows, row)
<1>1. row = OwnerRow(st.seq, NoOwner, TRUE) /\ ~isTerminal(st.rec)
  BY DEF Releases
<1>2. NoOwner \in Owners /\ Transfers(st.rec, NoOwner, TRUE)
  BY DEF NoOwner, Owners, Transfers
<1>3. Sound(ReplayRow(st, row), Append(rows, row))
  BY <1>1, <1>2, OwnerSound
<1>4. row \in Rows
  BY <1>1, <1>2 DEF OwnerRow, Rows, Sound, States
<1> QED
  BY <1>1, <1>3, <1>4 DEF Advances

\* A report advances the log.
LEMMA ReportAdvances ==
    ASSUME NEW rows \in Seq(Rows), rows # <<>>, NEW st, Sound(st, rows),
           NEW i \in Instances, NEW leased, NEW row, Reports(st, i, row, leased)
    PROVE  Advances(st, rows, row)
<1>1. PICK e \in EventsSent :
        /\ derivedEventKey(e) \notin st.seen
        /\ st.rec.owner.inst = i
        /\ Accepts(st.rec, e, st.rec.owner.fence, leased)
        /\ row = EventRow(st.seq + 1, e, st.rec.owner.fence)
  BY DEF Reports
<1>2. st \in States /\ st.ok /\ st.rec.owner.fence \in Nat /\ st.seq + 1 \in Nat
      /\ derivedEventKey(e) \in Keys
  BY DEF Sound, States, Record, Keys
<1>3. Sound(ReplayRow(st, row), Append(rows, row))
  BY <1>1, <1>2, EventSound
<1>4. row \in Rows
  BY <1>1, <1>2 DEF EventRow, Rows
<1>5. ~isTerminal(st.rec)
  BY <1>1 DEF Accepts
<1> QED
  BY <1>3, <1>4, <1>5 DEF Advances

\* Whatever continues a log advances it.
LEMMA ContinuesAdvances ==
    ASSUME NEW l \in [Ids -> Seq(Rows)], NEW le, NEW lo, NEW i \in Instances, NEW w,
           Replayable(l), Continues(l, le, lo, i, w)
    PROVE  /\ w.id \in Ids /\ l[w.id] \in Seq(Rows) /\ l[w.id] # <<>>
           /\ Advances(Rebuilt(l, w.id), l[w.id], w.row)
<1> DEFINE x == w.id
           st == Rebuilt(l, x)
           leased == le[x] > 0
<1>1. x \in Ids /\ l[x] \in Seq(Rows) /\ l[x] # <<>> /\ Sound(st, l[x])
  BY DEF Continues, JournalsOf, Replayable
<1>2. Claims(st, i, w.row, leased) \/ Renews(st, i, w.row, leased)
      \/ Releases(st, w.row) \/ Reports(st, i, w.row, leased)
  BY DEF Continues
<1> HIDE DEF st, leased
<1>3. Advances(st, l[x], w.row)
  BY <1>1, <1>2, ClaimAdvances, RenewAdvances, ReleaseAdvances, ReportAdvances
<1> QED
  BY <1>1, <1>3 DEF st

-----------------------------------------------------------------------------
(* What an appended row does to the item.                                  *)

Grown(l, x, row) == [l EXCEPT ![x] = Append(l[x], row)]

\* Only the log that grew is another.
LEMMA GrownLogs ==
    ASSUME NEW l \in [Ids -> Seq(Rows)], NEW x \in Ids, NEW row \in Rows
    PROVE  /\ Grown(l, x, row) \in [Ids -> Seq(Rows)]
           /\ Grown(l, x, row)[x] = Append(l[x], row)
           /\ Grown(l, x, row)[x] # <<>>
           /\ \A y \in Ids : y # x => Grown(l, x, row)[y] = l[y]
<1>1. l[x] \in Seq(Rows)
  OBVIOUS
<1>2. Append(l[x], row) \in Seq(Rows) /\ Append(l[x], row) # <<>>
  BY <1>1, Appended
<1> QED
  BY <1>1, <1>2 DEF Grown

\* The record of every other execution stays.
LEMMA GrownOthers ==
    ASSUME NEW l \in [Ids -> Seq(Rows)], NEW x \in Ids, NEW row \in Rows,
           NEW y \in Ids, y # x
    PROVE  Rebuilt(Grown(l, x, row), y) = Rebuilt(l, y)
  BY GrownLogs, Zenon DEF Rebuilt

\* A log that had rows replays to the record before, and the new row on it.
LEMMA GrownReplays ==
    ASSUME NEW l \in [Ids -> Seq(Rows)], NEW x \in Ids, NEW row \in Rows, l[x] # <<>>
    PROVE  Rebuilt(Grown(l, x, row), x) = ReplayRow(Rebuilt(l, x), row)
<1>1. l[x] \in Seq(Rows)
  OBVIOUS
<1>2. rebuildFromEvents(Append(l[x], row)) = ReplayRow(rebuildFromEvents(l[x]), row)
  BY <1>1, RebuildAppend
<1> QED
  BY <1>2, GrownLogs DEF Rebuilt

\* What is granted stays granted.
LEMMA GrownGives ==
    ASSUME NEW l \in [Ids -> Seq(Rows)], NEW x \in Ids, NEW row \in Rows,
           NEW y \in Ids, NEW o, Given(l[y], o)
    PROVE  Given(Grown(l, x, row)[y], o)
<1>1. CASE y = x
  <2>1. l[x] \in Seq(Rows) /\ Given(l[x], o)
    BY <1>1
  <2>2. Given(Append(l[x], row), o)
    BY <2>1, GivenAppended
  <2>3. Grown(l, x, row)[x] = Append(l[x], row)
    BY GrownLogs
  <2> QED
    BY <1>1, <2>2, <2>3
<1>2. CASE y # x
  <2>1. Grown(l, x, row)[y] = l[y]
    BY <1>2, GrownLogs
  <2> QED
    BY <2>1
<1> QED
  BY <1>1, <1>2

\* A row that advances an existing log: no journal appears, none comes back to life.
LEMMA GrownKeeps ==
    ASSUME NEW l \in [Ids -> Seq(Rows)], NEW x \in JournalsOf(l), NEW row \in Rows,
           Replayable(l), Numbered(l), Advances(Rebuilt(l, x), l[x], row)
    PROVE  /\ JournalsOf(Grown(l, x, row)) = JournalsOf(l)
           /\ Replayable(Grown(l, x, row))
           /\ Numbered(Grown(l, x, row))
<1> DEFINE g == Grown(l, x, row)
<1>0. x \in Ids /\ l[x] # <<>>
  BY DEF JournalsOf
<1>1. /\ g[x] = Append(l[x], row) /\ g[x] # <<>>
      /\ \A y \in Ids : y # x => g[y] = l[y] /\ Rebuilt(g, y) = Rebuilt(l, y)
      /\ Rebuilt(g, x) = ReplayRow(Rebuilt(l, x), row)
  BY <1>0, GrownLogs, GrownOthers, GrownReplays
<1> HIDE DEF g
<1>2. JournalsOf(g) = JournalsOf(l)
  BY <1>0, <1>1 DEF JournalsOf
<1>3. Replayable(g)
  <2>1. ASSUME NEW y \in Ids PROVE Sound(Rebuilt(g, y), g[y])
    BY <1>1 DEF Replayable, Advances
  <2> QED
    BY <2>1 DEF Replayable
<1>4. \A y : y \in LiveOf(g) => y \in LiveOf(l)
  <2> SUFFICES ASSUME NEW y \in LiveOf(g) PROVE y \in LiveOf(l)
    OBVIOUS
  <2>1. y \in JournalsOf(l) /\ y \in Ids /\ ~isTerminal(Rebuilt(g, y).rec)
    BY <1>2 DEF LiveOf, JournalsOf
  <2>2. ~isTerminal(Rebuilt(l, y).rec)
    BY <1>1, <2>1 DEF Advances
  <2> QED
    BY <2>1, <2>2 DEF LiveOf
<1>5. Numbered(g)
  BY <1>2, <1>4 DEF Numbered
<1> QED
  BY <1>2, <1>3, <1>5 DEF g

\* The first row of a log replays to the record as it is opened.
LEMMA OpenedSound ==
    /\ OpenedRow \in Rows
    /\ rebuildFromEvents(<<OpenedRow>>) = Genesis
    /\ Sound(Genesis, <<OpenedRow>>)
    /\ Sound(Genesis, <<>>)
    /\ rebuildFromEvents(<<>>) = Genesis
    /\ ~isTerminal(Genesis.rec)
<1>1. Genesis \in States /\ Genesis.ok /\ Genesis.rec = initExecution
      /\ Genesis.seq = 0 /\ Genesis.seen = {}
  <2>1. initExecution \in Record
    BY EmptySeq DEF initExecution, Record, NoOwner, Stages
  <2> QED
    BY <2>1 DEF Genesis, States
<1>2. initExecution.owner = NoOwner /\ ~initExecution.released /\ ~isTerminal(initExecution)
  BY DEF initExecution, isTerminal
<1>3. FirstOf(OpenedRow) = Genesis
  <2>1. (OpenedRow = OpenedRow) = TRUE
    OBVIOUS
  <2>2. ASSUME NEW g \in States, NEW b, g.ok = b PROVE [g EXCEPT !.ok = b] = g
    BY <2>2 DEF States
  <2>3. Genesis.ok = TRUE
    BY DEF Genesis
  <2>4. [Genesis EXCEPT !.ok = TRUE] = Genesis
    BY <1>1, <2>2, <2>3, Zenon
  <2> QED
    BY <2>1, <2>4, Zenon DEF FirstOf
<1>4. rebuildFromEvents(<<OpenedRow>>) = Genesis
  BY <1>3, RebuildFirst
<1>5. rebuildFromEvents(<<>>) = Genesis
  BY DEF rebuildFromEvents
<1>6. OpenedRow \in Rows
  BY DEF Rows
<1>7. \A k \in DOMAIN <<OpenedRow>> : ~IsGrant(<<OpenedRow>>[k])
  BY DEF IsGrant, OpenedRow
<1>8. Sound(Genesis, <<OpenedRow>>)
  BY <1>1, <1>2, <1>7 DEF Sound, OwnerGranted, GrantsBelow, NoOwner
<1>9. Sound(Genesis, <<>>)
  BY <1>1, <1>2 DEF Sound, OwnerGranted, GrantsBelow
<1> QED
  BY <1>1, <1>2, <1>4, <1>5, <1>6, <1>8, <1>9

\* The first row of the next attempt: one more journal, and the only live one.
LEMMA GrownOpens ==
    ASSUME NEW l \in [Ids -> Seq(Rows)], NEW x \in Ids, x \notin JournalsOf(l),
           Replayable(l), Numbered(l), LiveOf(l) = {},
           x.attempt = Cardinality(JournalsOf(l)) + 1
    PROVE  /\ JournalsOf(Grown(l, x, OpenedRow)) = JournalsOf(l) \cup {x}
           /\ Replayable(Grown(l, x, OpenedRow))
           /\ Numbered(Grown(l, x, OpenedRow))
           /\ Rebuilt(Grown(l, x, OpenedRow), x) = Genesis
<1> DEFINE g == Grown(l, x, OpenedRow)
           J == JournalsOf(l)
           n == Cardinality(J)
<1>0. l[x] = <<>> /\ OpenedRow \in Rows
  BY OpenedSound DEF JournalsOf
<1>1. /\ g[x] = <<OpenedRow>> /\ g[x] # <<>>
      /\ \A y \in Ids : y # x => g[y] = l[y] /\ Rebuilt(g, y) = Rebuilt(l, y)
  <2>1. Append(<<>>, OpenedRow) = <<OpenedRow>>
    BY <1>0
  <2>2. \A y \in Ids : y # x => Rebuilt(g, y) = Rebuilt(l, y)
    BY <1>0, GrownOthers
  <2>3. /\ g[x] = Append(l[x], OpenedRow) /\ g[x] # <<>>
        /\ \A y \in Ids : y # x => g[y] = l[y]
    BY <1>0, GrownLogs
  <2> QED
    BY <1>0, <2>1, <2>2, <2>3
<1> HIDE DEF g
<1>2. JournalsOf(g) = J \cup {x}
  BY <1>1 DEF JournalsOf
<1>3. Rebuilt(g, x) = Genesis
  BY <1>1, OpenedSound DEF Rebuilt
<1>4. Replayable(g)
  <2>1. ASSUME NEW y \in Ids PROVE Sound(Rebuilt(g, y), g[y])
    BY <1>1, <1>3, OpenedSound DEF Replayable
  <2> QED
    BY <2>1 DEF Replayable
<1>5. \A y : y \in LiveOf(g) => y = x
  <2> SUFFICES ASSUME NEW y \in LiveOf(g), y # x PROVE FALSE
    OBVIOUS
  <2>1. y \in J /\ y \in Ids /\ ~isTerminal(Rebuilt(g, y).rec)
    BY <1>2 DEF LiveOf, JournalsOf
  <2>2. y \in LiveOf(l)
    BY <1>1, <2>1 DEF LiveOf
  <2> QED
    BY <2>2
<1>6. IsFiniteSet(J) /\ n \in Nat /\ IsFiniteSet(J \cup {x}) /\ Cardinality(J \cup {x}) = n + 1
  BY FS_AddElement, FS_CardinalityType DEF Numbered
<1>7. \A y \in J : y.attempt \in Nat /\ y.attempt <= n
  BY StoreAssumption DEF JournalsOf, Ids, Numbered
<1> HIDE DEF J, n
<1>8. x.attempt = n + 1
  BY DEF n, J
<1>9. \A y, z \in J : y.attempt = z.attempt => y = z
  BY DEF Numbered, J
<1>10. Numbered(g)
  <2>1. \A y \in J \cup {x} : y.attempt <= n + 1
    BY <1>6, <1>7, <1>8
  <2>2. \A y, z \in J \cup {x} : y.attempt = z.attempt => y = z
    BY <1>6, <1>7, <1>8, <1>9
  <2>3. \A y, z \in LiveOf(g) : y = z
    BY <1>5
  <2>4. IsFiniteSet(JournalsOf(g)) /\ Cardinality(JournalsOf(g)) = n + 1
    BY <1>2, <1>6
  <2>5. \A y \in JournalsOf(g) : y.attempt <= Cardinality(JournalsOf(g))
    BY <1>2, <2>1, <2>4
  <2>6. \A y, z \in JournalsOf(g) : y.attempt = z.attempt => y = z
    BY <1>2, <2>2
  <2> QED
    BY <2>3, <2>4, <2>5, <2>6 DEF Numbered
<1> QED
  BY <1>2, <1>3, <1>4, <1>10 DEF g, J

-----------------------------------------------------------------------------
(* The order of the item's executions.                                     *)

OrderedBy(s) == \A j, k \in DOMAIN s : j < k => s[j].attempt < s[k].attempt

Orderable(U) == \E s \in [1 .. Cardinality(U) -> U] : OrderedBy(s)

\* A set whose last element stands behind an ordered rest is ordered.
LEMMA OrderGrows ==
    ASSUME NEW U \in SUBSET Ids, IsFiniteSet(U), U # {},
           \A x, y \in U : x.attempt = y.attempt => x = y,
           \A V \in SUBSET U : V # U => Orderable(V)
    PROVE  Orderable(U)
<1> DEFINE A == {x.attempt : x \in U}
           n == Cardinality(U)
<1>1. \A x \in U : x.attempt \in 1 .. MaxAttempts
  BY DEF Ids
<1>2. A \in SUBSET (1 .. MaxAttempts) /\ A # {} /\ MaxAttempts \in Nat
  <2>1. MaxAttempts \in Nat
    BY StoreAssumption
  <2>2. \A b \in A : b \in 1 .. MaxAttempts
    BY <1>1, Zenon
  <2>3. A # {}
    BY Zenon
  <2> HIDE DEF A
  <2> QED
    BY <2>1, <2>2, <2>3
<1>3. PICK a \in A : \A b \in A : b <= a
  BY <1>2, Greatest
<1>4. PICK z \in U : z.attempt = a
  OBVIOUS
<1> DEFINE V == U \ {z}
<1>5. n \in Nat /\ n # 0 /\ Cardinality(V) = n - 1
  BY FS_RemoveElement, FS_CardinalityType, FS_EmptySet
<1>6. Orderable(V)
  OBVIOUS
<1>7. PICK s \in [1 .. (n - 1) -> V] : OrderedBy(s)
  BY <1>5, <1>6 DEF Orderable
<1>8. \A y \in V : y \in U /\ y.attempt < z.attempt
  <2> SUFFICES ASSUME NEW y \in V PROVE y.attempt < z.attempt
    OBVIOUS
  <2>1. y \in U /\ z \in U /\ y # z
    OBVIOUS
  <2>2. y.attempt \in A /\ y.attempt # z.attempt
    BY <2>1
  <2>3. y.attempt \in Nat /\ z.attempt \in Nat
    BY <1>1, <2>1, StoreAssumption
  <2>4. y.attempt <= z.attempt
    BY <1>3, <1>4, <2>2
  <2> QED
    BY <2>2, <2>3, <2>4
<1> HIDE DEF V, n, A
<1> DEFINE t == [k \in 1 .. n |-> IF k < n THEN s[k] ELSE z]
<1>9. \A k \in 1 .. n : k < n => k \in 1 .. (n - 1)
  BY <1>5
<1>10. t \in [1 .. n -> U]
  BY <1>4, <1>7, <1>8, <1>9
<1>11. OrderedBy(t)
  <2> SUFFICES ASSUME NEW j \in 1 .. n, NEW k \in 1 .. n, j < k
               PROVE  t[j].attempt < t[k].attempt
    BY DEF OrderedBy
  <2>1. j \in 1 .. (n - 1) /\ t[j] = s[j] /\ s[j] \in V
    BY <1>5, <1>7
  <2>2. CASE k < n
    BY <1>7, <1>9, <2>1, <2>2 DEF OrderedBy
  <2>3. CASE ~(k < n)
    BY <1>8, <2>1, <2>3
  <2> QED
    BY <2>2, <2>3
<1> HIDE DEF t
<1> QED
  BY <1>10, <1>11 DEF Orderable, n

\* Executions with different attempt numbers have an order, and InOrder is one.
LEMMA OrderExists ==
    ASSUME NEW S \in SUBSET Ids, IsFiniteSet(S),
           \A x, y \in S : x.attempt = y.attempt => x = y
    PROVE  InOrder(S) \in [1 .. Cardinality(S) -> S]
<1> DEFINE Bad == {n \in Nat : \E U \in SUBSET S : Cardinality(U) = n /\ ~Orderable(U)}
<1>1. \A U \in SUBSET S : IsFiniteSet(U) /\ Cardinality(U) \in Nat
  BY FS_Subset, FS_CardinalityType
<1>2. ASSUME Bad # {} PROVE FALSE
  <2>1. PICK n \in Bad : \A y \in Bad : ~(<<y, n>> \in OpToRel(<, Nat))
    BY <1>2, NatLessThanWellFounded, WFMin
  <2>2. PICK U \in SUBSET S : Cardinality(U) = n /\ ~Orderable(U)
    OBVIOUS
  <2>3. ASSUME NEW V \in SUBSET U, V # U PROVE Orderable(V)
    <3>1. V \in SUBSET S /\ Cardinality(V) \in Nat /\ n \in Nat
      BY <1>1
    <3>2. Cardinality(V) <= Cardinality(U) /\ Cardinality(V) # Cardinality(U)
      BY <1>1, <2>3, FS_Subset
    <3>3. <<Cardinality(V), n>> \in OpToRel(<, Nat)
      BY <2>2, <3>1, <3>2 DEF OpToRel
    <3>4. Cardinality(V) \notin Bad
      BY <2>1, <3>3, Zenon
    <3> QED
      BY <3>1, <3>4
  <2>4. CASE U = {}
    <3>1. Cardinality({}) = 0
      BY FS_EmptySet
    <3>2. [k \in 1 .. 0 |-> 0] \in [1 .. 0 -> {}] /\ OrderedBy([k \in 1 .. 0 |-> 0])
      BY DEF OrderedBy
    <3> QED
      BY <2>2, <2>4, <3>1, <3>2, Zenon DEF Orderable
  <2>5. CASE U # {}
    <3>1. U \in SUBSET Ids /\ IsFiniteSet(U) /\ \A x, y \in U : x.attempt = y.attempt => x = y
      BY <1>1
    <3> QED
      BY <2>2, <2>3, <2>5, <3>1, OrderGrows
  <2> QED
    BY <2>4, <2>5
<1>3. Orderable(S)
  BY <1>1, <1>2
<1> QED
  BY <1>3 DEF Orderable, InOrder, OrderedBy

-----------------------------------------------------------------------------
(* What a call has still to write.                                         *)

\* The rest of a queue is the queue, one place on.
LEMMA Tailed ==
    ASSUME NEW t \in Seq(Writes), t # <<>>
    PROVE  /\ Tail(t) \in Seq(Writes)
           /\ Head(t) = t[1] /\ t[1] \in Writes
           /\ Len(t) \in Nat /\ Len(t) >= 1
           /\ DOMAIN t = 1 .. Len(t)
           /\ DOMAIN Tail(t) = 1 .. (Len(t) - 1)
           /\ \A k \in 1 .. (Len(t) - 1) : k + 1 \in DOMAIN t /\ Tail(t)[k] = t[k + 1]
  OBVIOUS

\* So are the log writes in it.
LEMMA LogWritesTail ==
    ASSUME NEW t \in Seq(Writes), t # <<>>
    PROVE  LogWrites(Tail(t)) = {k \in 1 .. (Len(t) - 1) : k + 1 \in LogWrites(t)}
<1> DEFINE u == Tail(t)
<1>1. /\ DOMAIN u = 1 .. (Len(t) - 1)
      /\ \A k \in 1 .. (Len(t) - 1) : k + 1 \in DOMAIN t /\ u[k] = t[k + 1]
  BY Tailed
<1> HIDE DEF u
<1>2. LogWrites(u) = {k \in 1 .. (Len(t) - 1) : k + 1 \in LogWrites(t)}
  BY <1>1 DEF LogWrites
<1> QED
  BY <1>2 DEF u

\* Once a write that is no row is done, the rows left still fit.
LEMMA LogsTail ==
    ASSUME NEW l, NEW le, NEW lo, NEW i, NEW t \in Seq(Writes), t # <<>>,
           Head(t).to # "log", LogsFit(l, le, lo, i, t)
    PROVE  LogsFit(l, le, lo, i, Tail(t))
<1> DEFINE u == Tail(t)
           n == Len(t)
<1>1. /\ n \in Nat /\ n >= 1 /\ Head(t) = t[1]
      /\ DOMAIN t = 1 .. n /\ DOMAIN u = 1 .. (n - 1)
      /\ \A k \in 1 .. (n - 1) : u[k] = t[k + 1]
  BY Tailed
<1>2. LogWrites(u) = {k \in 1 .. (n - 1) : k + 1 \in LogWrites(t)}
  BY LogWritesTail
<1> HIDE DEF u, n
<1>3. \A k \in LogWrites(t) : k \in 1 .. n /\ k # 1
  BY <1>1 DEF LogWrites
<1>4. CASE LogWrites(t) = {}
  BY <1>2, <1>4 DEF LogsFit, u
<1>5. CASE \E k \in DOMAIN t : LogWrites(t) = {k} /\ Continues(l, le, lo, i, t[k])
  <2>1. PICK k \in DOMAIN t : LogWrites(t) = {k} /\ Continues(l, le, lo, i, t[k])
    BY <1>5
  <2>2. k \in 1 .. n /\ k # 1 /\ k - 1 \in 1 .. (n - 1) /\ (k - 1) + 1 = k
    BY <1>1, <1>3, <2>1
  <2>3. LogWrites(u) = {k - 1}
    BY <1>1, <1>2, <2>1, <2>2
  <2>4. u[k - 1] = t[k] /\ k - 1 \in DOMAIN u
    BY <1>1, <2>2
  <2> QED
    BY <2>1, <2>3, <2>4 DEF LogsFit, u
<1>6. CASE \E k \in DOMAIN t : LogWrites(t) = {k, k + 1} /\ Begins(l, i, t[k], t[k + 1])
  <2>1. PICK k \in DOMAIN t : LogWrites(t) = {k, k + 1} /\ Begins(l, i, t[k], t[k + 1])
    BY <1>6
  <2>2. /\ k \in 1 .. n /\ k # 1 /\ k - 1 \in 1 .. (n - 1) /\ (k - 1) + 1 = k
        /\ k + 1 \in 1 .. n /\ k \in 1 .. (n - 1)
    BY <1>1, <1>3, <2>1
  <2>3. LogWrites(u) = {k - 1, (k - 1) + 1}
    BY <1>1, <1>2, <2>1, <2>2
  <2>4. u[k - 1] = t[k] /\ u[(k - 1) + 1] = t[k + 1] /\ k - 1 \in DOMAIN u
    BY <1>1, <2>2
  <2> QED
    BY <2>1, <2>3, <2>4 DEF LogsFit, u
<1> QED
  BY <1>4, <1>5, <1>6 DEF LogsFit

\* A row at the head is a call's only one, or the first of a new execution.
LEMMA LogsHead ==
    ASSUME NEW l, NEW le, NEW lo, NEW i, NEW t \in Seq(Writes), t # <<>>,
           Head(t).to = "log", LogsFit(l, le, lo, i, t)
    PROVE  \/ Continues(l, le, lo, i, Head(t)) /\ LogWrites(Tail(t)) = {}
           \/ /\ LogWrites(Tail(t)) = {1} /\ 1 \in DOMAIN Tail(t)
              /\ Begins(l, i, Head(t), Tail(t)[1])
<1> DEFINE u == Tail(t)
           n == Len(t)
<1>1. /\ n \in Nat /\ n >= 1 /\ Head(t) = t[1]
      /\ DOMAIN t = 1 .. n /\ DOMAIN u = 1 .. (n - 1)
      /\ \A k \in 1 .. (n - 1) : u[k] = t[k + 1]
  BY Tailed
<1>2. LogWrites(u) = {k \in 1 .. (n - 1) : k + 1 \in LogWrites(t)}
  BY LogWritesTail
<1> HIDE DEF u, n
<1>3. 1 \in LogWrites(t) /\ \A k \in LogWrites(t) : k \in 1 .. n
  BY <1>1 DEF LogWrites
<1>4. CASE \E k \in DOMAIN t : LogWrites(t) = {k} /\ Continues(l, le, lo, i, t[k])
  <2>1. LogWrites(t) = {1} /\ Continues(l, le, lo, i, t[1])
    BY <1>3, <1>4
  <2>2. LogWrites(u) = {}
    BY <1>1, <1>2, <2>1
  <2> QED
    BY <1>1, <2>1, <2>2 DEF u
<1>5. CASE \E k \in DOMAIN t : LogWrites(t) = {k, k + 1} /\ Begins(l, i, t[k], t[k + 1])
  <2>1. PICK k \in DOMAIN t : LogWrites(t) = {k, k + 1} /\ Begins(l, i, t[k], t[k + 1])
    BY <1>5
  <2>2. k = 1 /\ k + 1 \in 1 .. n
    BY <1>1, <1>3, <2>1
  <2>3. 1 \in 1 .. (n - 1) /\ 1 + 1 = 2
    BY <1>1, <2>2
  <2>4. LogWrites(u) = {1}
    BY <1>1, <1>2, <2>1, <2>2, <2>3
  <2>5. u[1] = t[k + 1] /\ 1 \in DOMAIN u /\ Head(t) = t[k]
    BY <1>1, <2>2, <2>3
  <2> QED
    BY <2>1, <2>4, <2>5 DEF u
<1> QED
  BY <1>3, <1>4, <1>5 DEF LogsFit

\* The pointer writes left list executions that exist by then.
LEMMA PointersTail ==
    ASSUME NEW J, NEW K, \A x \in J : x \in K, NEW t \in Seq(Writes), t # <<>>,
           Head(t).to = "log" => Head(t).id \in K, PointersFit(J, t)
    PROVE  PointersFit(K, Tail(t))
<1> DEFINE u == Tail(t)
           n == Len(t)
<1>1. /\ n \in Nat /\ n >= 1 /\ Head(t) = t[1]
      /\ DOMAIN t = 1 .. n /\ DOMAIN u = 1 .. (n - 1)
      /\ \A k \in 1 .. (n - 1) : u[k] = t[k + 1]
  BY Tailed
<1> HIDE DEF u, n
<1>2. ASSUME NEW k \in DOMAIN u, u[k].to = "pointer",
             ~\E m \in 1 .. (k - 1) : u[m].to = "log" /\ u[m].id = u[k].add
      PROVE  u[k].add \in K
  <2>1. k \in 1 .. (n - 1) /\ k + 1 \in DOMAIN t /\ u[k] = t[k + 1] /\ (k + 1) - 1 = k
    BY <1>1
  <2>2. CASE t[k + 1].add \in J
    BY <2>1, <2>2
  <2>3. CASE \E m \in 1 .. k : t[m].to = "log" /\ t[m].id = t[k + 1].add
    <3>1. PICK m \in 1 .. k : t[m].to = "log" /\ t[m].id = t[k + 1].add
      BY <2>3
    <3>2. CASE m = 1
      BY <1>1, <2>1, <3>1, <3>2
    <3>3. CASE m # 1
      <4>1. m - 1 \in 1 .. (k - 1) /\ m - 1 \in 1 .. (n - 1) /\ (m - 1) + 1 = m
        BY <1>1, <2>1, <3>3
      <4>2. u[m - 1] = t[m]
        BY <1>1, <4>1
      <4> QED
        BY <1>2, <2>1, <3>1, <4>1, <4>2
    <3> QED
      BY <3>2, <3>3
  <2>4. t[k + 1].to = "pointer"
    BY <1>2, <2>1
  <2> QED
    BY <2>1, <2>2, <2>3, <2>4 DEF PointersFit
<1>3. PointersFit(K, u)
  BY <1>2 DEF PointersFit
<1> QED
  BY <1>3 DEF u

\* The answers left are granted by then.
LEMMA RepliesTail ==
    ASSUME NEW l, NEW g, NEW i, NEW t \in Seq(Writes), t # <<>>, RepliesFit(l, i, t),
           \A x \in Ids : \A o : Given(l[x], o) \/ Hands(Head(t), x, o) => Given(g[x], o)
    PROVE  RepliesFit(g, i, Tail(t))
<1> DEFINE u == Tail(t)
           n == Len(t)
<1>1. /\ n \in Nat /\ n >= 1 /\ Head(t) = t[1]
      /\ DOMAIN t = 1 .. n /\ DOMAIN u = 1 .. (n - 1)
      /\ \A k \in 1 .. (n - 1) : u[k] = t[k + 1]
  BY Tailed
<1> HIDE DEF u, n
<1>2. ASSUME NEW k \in DOMAIN u, u[k].to = "reply", u[k].fence > 0, NEW o,
             o = [inst |-> i, fence |-> u[k].fence],
             ~\E m \in 1 .. (k - 1) : Hands(u[m], u[k].id, o)
      PROVE  Given(g[u[k].id], o)
  <2>1. k \in 1 .. (n - 1) /\ k + 1 \in DOMAIN t /\ u[k] = t[k + 1] /\ (k + 1) - 1 = k
    BY <1>1
  <2>0. t[k + 1] \in Writes
    BY <2>1
  <2>2. t[k + 1].id \in Ids
    BY <1>2, <2>0, <2>1 DEF Writes
  <2>3. Given(l[t[k + 1].id], o) \/ \E m \in 1 .. k : Hands(t[m], t[k + 1].id, o)
    BY <1>2, <2>1 DEF RepliesFit
  <2>4. CASE Given(l[t[k + 1].id], o)
    BY <2>1, <2>2, <2>4
  <2>5. CASE \E m \in 1 .. k : Hands(t[m], t[k + 1].id, o)
    <3>1. PICK m \in 1 .. k : Hands(t[m], t[k + 1].id, o)
      BY <2>5
    <3>2. CASE m = 1
      BY <1>1, <2>1, <2>2, <3>1, <3>2
    <3>3. CASE m # 1
      <4>1. m - 1 \in 1 .. (k - 1) /\ m - 1 \in 1 .. (n - 1) /\ (m - 1) + 1 = m
        BY <1>1, <2>1, <3>3
      <4>2. u[m - 1] = t[m]
        BY <1>1, <4>1
      <4> QED
        BY <1>2, <2>1, <3>1, <4>1, <4>2
    <3> QED
      BY <3>2, <3>3
  <2> QED
    BY <2>3, <2>4, <2>5
<1>3. RepliesFit(g, i, u)
  BY <1>2 DEF RepliesFit
<1> QED
  BY <1>3 DEF u

\* A process with nothing to write owes nothing.
LEMMA PendingEmpty ==
    ASSUME NEW l, NEW le, NEW lo, NEW i
    PROVE  Pending(l, le, lo, i, <<>>)
  BY DEF Pending, LogsFit, LogWrites, PointersFit, RepliesFit

\* Repairs of the pointer may be made before any call's writes.
LEMMA PendingPrefix ==
    ASSUME NEW l, NEW le, NEW lo, NEW i, NEW q \in Seq(Writes), NEW t \in Seq(Writes),
           \A k \in DOMAIN q : q[k].to = "pointer" /\ q[k].add \in JournalsOf(l),
           Pending(l, le, lo, i, t)
    PROVE  q \o t \in Seq(Writes) /\ Pending(l, le, lo, i, q \o t)
<1> DEFINE u == q \o t
           m == Len(q)
           n == Len(t)
           J == JournalsOf(l)
<1>1. /\ u \in Seq(Writes) /\ m \in Nat /\ n \in Nat
      /\ DOMAIN q = 1 .. m /\ DOMAIN t = 1 .. n /\ DOMAIN u = 1 .. (m + n)
      /\ \A k \in 1 .. m : u[k] = q[k]
      /\ \A k \in 1 .. n : u[m + k] = t[k]
  OBVIOUS
<1> HIDE DEF u, m, n, J
<1>2. \A k \in DOMAIN u : k \in 1 .. m \/ (k - m \in 1 .. n /\ m + (k - m) = k)
  BY <1>1
<1>3. \A k \in 1 .. m : u[k].to = "pointer" /\ u[k].add \in J
  BY <1>1 DEF J
<1>4. \A k \in 1 .. n : m + k \in DOMAIN u
  BY <1>1
<1>5. LogWrites(u) = {m + k : k \in LogWrites(t)}
  <2>1. ASSUME NEW k \in LogWrites(u) PROVE k - m \in LogWrites(t) /\ m + (k - m) = k
    BY <1>1, <1>2, <1>3 DEF LogWrites
  <2>2. ASSUME NEW k \in LogWrites(t) PROVE m + k \in LogWrites(u)
    BY <1>1, <1>4 DEF LogWrites
  <2> QED
    BY <2>1, <2>2
<1>6. LogsFit(l, le, lo, i, u)
  <2>1. CASE LogWrites(t) = {}
    BY <1>5, <2>1 DEF LogsFit
  <2>2. CASE \E k \in DOMAIN t : LogWrites(t) = {k} /\ Continues(l, le, lo, i, t[k])
    <3>1. PICK k \in DOMAIN t : LogWrites(t) = {k} /\ Continues(l, le, lo, i, t[k])
      BY <2>2
    <3>2. LogWrites(u) = {m + k} /\ u[m + k] = t[k] /\ m + k \in DOMAIN u
      BY <1>1, <1>4, <1>5, <3>1
    <3> QED
      BY <3>1, <3>2 DEF LogsFit
  <2>3. CASE \E k \in DOMAIN t : LogWrites(t) = {k, k + 1} /\ Begins(l, i, t[k], t[k + 1])
    <3>1. PICK k \in DOMAIN t : LogWrites(t) = {k, k + 1} /\ Begins(l, i, t[k], t[k + 1])
      BY <2>3
    <3>2. k \in 1 .. n /\ k + 1 \in 1 .. n /\ m + (k + 1) = (m + k) + 1
      BY <1>1, <3>1 DEF LogWrites
    <3>3. LogWrites(u) = {m + k, m + (k + 1)}
      BY <1>5, <3>1
    <3>4. u[m + k] = t[k] /\ u[(m + k) + 1] = t[k + 1] /\ m + k \in DOMAIN u
      BY <1>1, <1>4, <3>2
    <3> QED
      BY <3>1, <3>2, <3>3, <3>4 DEF LogsFit
  <2> QED
    BY <2>1, <2>2, <2>3 DEF Pending, LogsFit
<1>7. PointersFit(J, u)
  <2> SUFFICES ASSUME NEW k \in DOMAIN u, u[k].to = "pointer", u[k].add \notin J
               PROVE  \E j \in 1 .. (k - 1) : u[j].to = "log" /\ u[j].id = u[k].add
    BY DEF PointersFit
  <2>1. k - m \in 1 .. n /\ m + (k - m) = k /\ u[k] = t[k - m]
    BY <1>1, <1>2, <1>3
  <2>2. PICK j \in 1 .. ((k - m) - 1) : t[j].to = "log" /\ t[j].id = t[k - m].add
    BY <1>1, <2>1 DEF Pending, PointersFit, J
  <2>3. m + j \in 1 .. (k - 1) /\ j \in 1 .. n
    BY <1>1, <2>1
  <2>4. u[m + j] = t[j]
    BY <1>1, <2>3
  <2> QED
    BY <2>1, <2>2, <2>3, <2>4
<1>8. RepliesFit(l, i, u)
  <2> SUFFICES ASSUME NEW k \in DOMAIN u, u[k].to = "reply", u[k].fence > 0, NEW o,
                      o = [inst |-> i, fence |-> u[k].fence], ~Given(l[u[k].id], o)
               PROVE  \E j \in 1 .. (k - 1) : Hands(u[j], u[k].id, o)
    BY DEF RepliesFit
  <2>1. k - m \in 1 .. n /\ m + (k - m) = k /\ u[k] = t[k - m]
    BY <1>1, <1>2, <1>3
  <2>2. PICK j \in 1 .. ((k - m) - 1) : Hands(t[j], t[k - m].id, o)
    BY <1>1, <2>1 DEF Pending, RepliesFit
  <2>3. m + j \in 1 .. (k - 1) /\ j \in 1 .. n
    BY <1>1, <2>1
  <2>4. u[m + j] = t[j]
    BY <1>1, <2>3
  <2> QED
    BY <2>1, <2>2, <2>3, <2>4
<1> QED
  BY <1>1, <1>6, <1>7, <1>8 DEF Pending, u, J

-----------------------------------------------------------------------------
(* What a call decides to write.                                           *)

\* An answer alone: of no fence, or of one the log grants.
LEMMA AnswerPending ==
    ASSUME NEW l, NEW le, NEW lo, NEW i, NEW x \in Ids, NEW f \in Nat,
           f > 0 => Given(l[x], [inst |-> i, fence |-> f])
    PROVE  <<Reply(x, f)>> \in Seq(Writes) /\ Pending(l, le, lo, i, <<Reply(x, f)>>)
<1> DEFINE c == Reply(x, f)
           t == <<c>>
<1>1. c.to = "reply" /\ c.id = x /\ c.fence = f /\ c \in Writes
  BY DEF Reply, Writes
<1> HIDE DEF c
<1>2. t \in Seq(Writes) /\ DOMAIN t = {1} /\ t[1] = c
  BY <1>1
<1> HIDE DEF t
<1>3. LogWrites(t) = {}
  BY <1>1, <1>2 DEF LogWrites
<1>4. PointersFit(JournalsOf(l), t)
  BY <1>1, <1>2 DEF PointersFit
<1>5. RepliesFit(l, i, t)
  BY <1>1, <1>2 DEF RepliesFit
<1> QED
  BY <1>2, <1>3, <1>4, <1>5 DEF Pending, LogsFit, t, c

\* The writes of a call on one execution: its row, its view, and the pointer
\* once the record is terminal.
Closings(x) == {<<>>, <<WritePointer(NoId, x)>>}

\* They fit when the row continues the log and the answer is the row's grant,
\* or an earlier one.
LEMMA CallPending ==
    ASSUME NEW l, NEW le, NEW lo, NEW i, NEW x \in JournalsOf(l), NEW row \in Rows,
           NEW r \in Record, NEW f \in Nat, NEW q \in Closings(x),
           Continues(l, le, lo, i, AppendLog(x, row)),
           f > 0 => \/ Given(l[x], [inst |-> i, fence |-> f])
                    \/ IsGrant(row) /\ row.owner = [inst |-> i, fence |-> f]
    PROVE  /\ (writeRecord(x, r, row) \o q) \o <<Reply(x, f)>> \in Seq(Writes)
           /\ Pending(l, le, lo, i, (writeRecord(x, r, row) \o q) \o <<Reply(x, f)>>)
<1> DEFINE w == AppendLog(x, row)
           v == WriteView(x, r)
           p == WritePointer(NoId, x)
           c == Reply(x, f)
           t == (writeRecord(x, r, row) \o q) \o <<c>>
           o == [inst |-> i, fence |-> f]
<1>0. x \in Ids
  BY DEF JournalsOf
<1>1. w.to = "log" /\ w.id = x /\ w.row = row /\ w \in Writes
  BY <1>0 DEF AppendLog, Writes
<1>2. v.to = "view" /\ v \in Writes
  BY <1>0 DEF WriteView, Writes
<1>3. p.to = "pointer" /\ p.add = x /\ p \in Writes
  BY <1>0 DEF WritePointer, Writes
<1>4. c.to = "reply" /\ c.id = x /\ c.fence = f /\ c \in Writes
  BY <1>0 DEF Reply, Writes
<1>5. Continues(l, le, lo, i, w)
  OBVIOUS
<1>6. f > 0 => Given(l[x], o) \/ Hands(w, x, o)
  BY <1>1 DEF Hands
<1>7. writeRecord(x, r, row) = <<w, v>> /\ (q = <<>> \/ q = <<p>>)
  BY DEF writeRecord, Closings
<1> HIDE DEF w, v, p, c
<1>8. CASE q = <<>>
  <2>1. /\ t \in Seq(Writes) /\ DOMAIN t = 1 .. 3
        /\ t[1] = w /\ t[2] = v /\ t[3] = c
    BY <1>1, <1>2, <1>4, <1>7, <1>8
  <2> HIDE DEF t, o
  <2>2. LogWrites(t) = {1}
    BY <1>1, <1>2, <1>4, <2>1 DEF LogWrites
  <2>3. PointersFit(JournalsOf(l), t)
    BY <1>1, <1>2, <1>4, <2>1 DEF PointersFit
  <2>4. RepliesFit(l, i, t)
    <3> SUFFICES ASSUME NEW k \in DOMAIN t, t[k].to = "reply", t[k].fence > 0, NEW u,
                        u = [inst |-> i, fence |-> t[k].fence], ~Given(l[t[k].id], u)
                 PROVE  \E j \in 1 .. (k - 1) : Hands(t[j], t[k].id, u)
      BY DEF RepliesFit
    <3>1. k = 3
      BY <1>1, <1>2, <2>1
    <3>2. u = o
      BY <1>4, <2>1, <3>1 DEF o
    <3> QED
      BY <1>4, <1>6, <2>1, <3>1, <3>2
  <2>5. LogsFit(l, le, lo, i, t)
    BY <1>5, <2>1, <2>2 DEF LogsFit
  <2>6. Pending(l, le, lo, i, t)
    BY <2>3, <2>4, <2>5 DEF Pending
  <2> QED
    BY <2>1, <2>6 DEF t, c
<1>9. CASE q = <<p>>
  <2>1. /\ t \in Seq(Writes) /\ DOMAIN t = 1 .. 4
        /\ t[1] = w /\ t[2] = v /\ t[3] = p /\ t[4] = c
    BY <1>1, <1>2, <1>3, <1>4, <1>7, <1>9
  <2> HIDE DEF t, o
  <2>2. LogWrites(t) = {1}
    BY <1>1, <1>2, <1>3, <1>4, <2>1 DEF LogWrites
  <2>3. PointersFit(JournalsOf(l), t)
    BY <1>1, <1>2, <1>3, <1>4, <2>1 DEF PointersFit
  <2>4. RepliesFit(l, i, t)
    <3> SUFFICES ASSUME NEW k \in DOMAIN t, t[k].to = "reply", t[k].fence > 0, NEW u,
                        u = [inst |-> i, fence |-> t[k].fence], ~Given(l[t[k].id], u)
                 PROVE  \E j \in 1 .. (k - 1) : Hands(t[j], t[k].id, u)
      BY DEF RepliesFit
    <3>1. k = 4
      BY <1>1, <1>2, <1>3, <2>1
    <3>2. u = o
      BY <1>4, <2>1, <3>1 DEF o
    <3> QED
      BY <1>4, <1>6, <2>1, <3>1, <3>2
  <2>5. LogsFit(l, le, lo, i, t)
    BY <1>5, <2>1, <2>2 DEF LogsFit
  <2>6. Pending(l, le, lo, i, t)
    BY <2>3, <2>4, <2>5 DEF Pending
  <2> QED
    BY <2>1, <2>6 DEF t, c
<1> QED
  BY <1>7, <1>8, <1>9

\* The writes of a new attempt.
Opening(x, i) ==
    <<AppendLog(x, OpenedRow), AppendLog(x, OwnerRow(0, Own(initExecution, i, 1).owner, FALSE)),
      WriteView(x, Own(initExecution, i, 1)), WritePointer(x, x), Reply(x, 1)>>

\* They fit when no journal is live and the attempt is the next one.
LEMMA OpeningPending ==
    ASSUME NEW l, NEW le, NEW lo, NEW i \in Instances, NEW x \in Ids, x \notin JournalsOf(l),
           x.attempt = Cardinality(JournalsOf(l)) + 1, LiveOf(l) = {}
    PROVE  Opening(x, i) \in Seq(Writes) /\ Pending(l, le, lo, i, Opening(x, i))
<1> DEFINE o == [inst |-> i, fence |-> 1]
           r == Own(initExecution, i, 1)
           row == OwnerRow(0, o, FALSE)
           a == AppendLog(x, OpenedRow)
           w == AppendLog(x, row)
           v == WriteView(x, r)
           p == WritePointer(x, x)
           c == Reply(x, 1)
           t == <<a, w, v, p, c>>
<1>1. r \in Record /\ r.owner = o
  <2>1. initExecution \in Record
    BY EmptySeq DEF initExecution, Record, NoOwner, Stages
  <2> QED
    BY <2>1 DEF Own, Record
<1>2. Opening(x, i) = t
  BY <1>1 DEF Opening
<1>3. row \in Rows /\ OpenedRow \in Rows /\ IsGrant(row) /\ row.owner = o
  BY ExecutionAssumption DEF Rows, OwnerRow, Owners, IsGrant
<1>4. Begins(l, i, a, w)
  BY DEF Begins
<1>5. a.to = "log" /\ a.id = x /\ a \in Writes /\ w.to = "log" /\ w.id = x /\ w.row = row /\ w \in Writes
  BY <1>3 DEF AppendLog, Writes
<1>6. v.to = "view" /\ v \in Writes
  BY <1>1 DEF WriteView, Writes
<1>7. p.to = "pointer" /\ p.add = x /\ p \in Writes
  BY DEF WritePointer, Writes
<1>8. c.to = "reply" /\ c.id = x /\ c.fence = 1 /\ c \in Writes
  BY DEF Reply, Writes
<1>9. Hands(w, x, o)
  BY <1>3, <1>5 DEF Hands
<1> HIDE DEF a, w, v, p, c, r, row
<1>10. /\ t \in Seq(Writes) /\ DOMAIN t = 1 .. 5
       /\ t[1] = a /\ t[2] = w /\ t[3] = v /\ t[4] = p /\ t[5] = c
  BY <1>5, <1>6, <1>7, <1>8
<1> HIDE DEF t, o
<1>11. LogWrites(t) = {1, 1 + 1}
  BY <1>5, <1>6, <1>7, <1>8, <1>10 DEF LogWrites
<1>12. LogsFit(l, le, lo, i, t)
  <2>1. t[1 + 1] = w /\ 1 \in DOMAIN t
    BY <1>10
  <2> QED
    BY <1>4, <1>10, <1>11, <2>1 DEF LogsFit
<1>13. PointersFit(JournalsOf(l), t)
  <2> SUFFICES ASSUME NEW k \in DOMAIN t, t[k].to = "pointer"
               PROVE  \E m \in 1 .. (k - 1) : t[m].to = "log" /\ t[m].id = t[k].add
    BY DEF PointersFit
  <2>1. k = 4
    BY <1>5, <1>6, <1>8, <1>10
  <2> QED
    BY <1>5, <1>7, <1>10, <2>1
<1>14. RepliesFit(l, i, t)
  <2> SUFFICES ASSUME NEW k \in DOMAIN t, t[k].to = "reply", t[k].fence > 0, NEW u,
                      u = [inst |-> i, fence |-> t[k].fence]
               PROVE  \E j \in 1 .. (k - 1) : Hands(t[j], t[k].id, u)
    BY DEF RepliesFit
  <2>1. k = 5
    BY <1>5, <1>6, <1>7, <1>10
  <2>2. u = o
    BY <1>8, <1>10, <2>1 DEF o
  <2> QED
    BY <1>8, <1>9, <1>10, <2>1, <2>2
<1> QED
  BY <1>2, <1>10, <1>12, <1>13, <1>14 DEF Pending

\* While a call may add a row, every log is shorter than the bound.
LEMMA RoomLeft ==
    ASSUME log \in [Ids -> Seq(Rows)], IsFiniteSet(JournalsOf(log)), RoomForRow,
           NEW x \in Ids
    PROVE  Len(log[x]) \in Nat /\ Len(log[x]) < MaxRows
<1> DEFINE Of(y) == {<<y, k>> : k \in DOMAIN log[y]}
           J == JournalsOf(log)
           S == {Of(y) : y \in J}
           All == UNION {Of(y) : y \in Ids}
<1>1. \A y \in Ids : Len(log[y]) \in Nat /\ DOMAIN log[y] = 1 .. Len(log[y])
  OBVIOUS
<1>2. ASSUME NEW y \in Ids PROVE IsFiniteSet(Of(y)) /\ Cardinality(Of(y)) = Len(log[y])
  <2> DEFINE n == Len(log[y])
             f == [k \in 1 .. n |-> <<y, k>>]
  <2>1. n \in Nat /\ Of(y) = {<<y, k>> : k \in 1 .. n}
    BY <1>1
  <2> HIDE DEF n, Of
  <2>6. f \in [1 .. n -> Of(y)] /\ \A k \in 1 .. n : f[k] = <<y, k>>
    BY <2>1
  <2> HIDE DEF f
  <2>7. f \in Injection(1 .. n, Of(y))
    <3>1. \A j, k \in 1 .. n : f[j] = f[k] => j = k
      BY <2>6
    <3> QED
      BY <2>6, <3>1 DEF Injection, IsInjective
  <2>8. f \in Surjection(1 .. n, Of(y))
    BY <2>1, <2>6 DEF Surjection
  <2>2. f \in Bijection(1 .. n, Of(y))
    BY <2>7, <2>8 DEF Bijection
  <2>3. IsFiniteSet(1 .. n) /\ Cardinality(1 .. n) = n
    BY <2>1, FS_Interval
  <2>4. ExistsBijection(1 .. n, Of(y))
    BY <2>2 DEF ExistsBijection
  <2>5. IsFiniteSet(Of(y)) /\ Cardinality(Of(y)) = Cardinality(1 .. n)
    BY <2>3, <2>4, FS_Bijection
  <2> QED
    BY <2>3, <2>5 DEF n
<1>3. IsFiniteSet(S)
  <2> DEFINE f == [y \in J |-> Of(y)]
  <2> HIDE DEF Of, J
  <2>1. f \in Surjection(J, S)
    BY DEF Surjection
  <2>2. IsFiniteSet(J)
    BY DEF J
  <2> HIDE DEF f, S
  <2> QED
    BY <2>1, <2>2, FS_Surjection
<1>4. \A T \in S : IsFiniteSet(T)
  <2> HIDE DEF Of
  <2> QED
    BY <1>2 DEF JournalsOf
<1>5. IsFiniteSet(UNION S)
  <2> HIDE DEF S
  <2> QED
    BY <1>3, <1>4, FS_UNION
<1>6. All = UNION S
  <2>1. ASSUME NEW y \in Ids, y \notin J PROVE Of(y) = {}
    BY <2>1 DEF JournalsOf
  <2>2. \A y \in J : y \in Ids
    BY DEF JournalsOf
  <2> HIDE DEF Of, J
  <2> QED
    BY <2>1, <2>2
<1>7. Of(x) \in SUBSET All
  <2> HIDE DEF Of
  <2> QED
    OBVIOUS
<1>8. Cardinality(All) < MaxRows
  BY DEF RoomForRow
<1>9. IsFiniteSet(All) /\ Cardinality(All) \in Nat
  BY <1>5, <1>6, FS_CardinalityType
<1>10. Cardinality(Of(x)) <= Cardinality(All)
  BY <1>7, <1>9, FS_Subset
<1>11. Cardinality(Of(x)) = Len(log[x]) /\ Len(log[x]) \in Nat /\ MaxRows \in Nat
  BY <1>1, <1>2, StoreAssumption
<1> HIDE DEF All, Of
<1> QED
  BY <1>8, <1>9, <1>10, <1>11

-----------------------------------------------------------------------------
(* The calls keep the invariant.                                           *)

\* The names of the specification for what the lemmas say of a log.
LEMMA Names ==
    /\ Journals = JournalsOf(log)
    /\ \A x : State(x) = Rebuilt(log, x) /\ readRecord(x) = Rebuilt(log, x).rec
    /\ Live = LiveOf(log)
    /\ \A x : Readable(x) => x \in JournalsOf(log)
  BY DEF Journals, JournalsOf, State, Rebuilt, readRecord, Live, LiveOf, Readable

\* What open writes to the pointer lists executions that exist.
LEMMA RepairsFit ==
    ASSUME IInv, NEW open \in Ids \cup {NoId}
    PROVE  /\ Repairs(open) \in Seq(Writes)
           /\ \A k \in DOMAIN Repairs(open) :
                /\ Repairs(open)[k].to = "pointer"
                /\ Repairs(open)[k].add \in JournalsOf(log)
<1> DEFINE Has(x) == \E k \in DOMAIN ptr.executions : ptr.executions[k] = x
           First(x) == \A y \in Journals : x.attempt <= y.attempt
           S == {x \in Journals : ~Has(x) \/ (ptr.open # open /\ First(x))}
           s == InOrder(S)
           n == Cardinality(S)
<1>1. Repairs(open) = [k \in DOMAIN s |-> WritePointer(open, s[k])]
  BY DEF Repairs
<1>2. S \in SUBSET JournalsOf(log) /\ JournalsOf(log) \in SUBSET Ids
  BY Names DEF JournalsOf
<1> HIDE DEF S
<1>3. IsFiniteSet(JournalsOf(log)) /\ \A x, y \in JournalsOf(log) : x.attempt = y.attempt => x = y
  BY DEF IInv, Numbered
<1>4. IsFiniteSet(S) /\ n \in Nat
  BY <1>2, <1>3, FS_Subset, FS_CardinalityType
<1>5. s \in [1 .. n -> S]
  BY <1>2, <1>3, <1>4, OrderExists
<1> HIDE DEF s, n
<1>6. \A x \in S : /\ WritePointer(open, x) \in Writes
                   /\ WritePointer(open, x).to = "pointer"
                   /\ WritePointer(open, x).add \in JournalsOf(log)
  BY <1>2 DEF WritePointer, Writes
<1>7. Repairs(open) \in [1 .. n -> Writes]
  BY <1>1, <1>5, <1>6
<1>8. Repairs(open) \in Seq(Writes)
  <2>1. Seq(Writes) = UNION {[1 .. m -> Writes] : m \in Nat}
    BY SeqDef, Zenon
  <2> QED
    BY <1>4, <1>7, <2>1, Zenon
<1>9. \A k \in DOMAIN Repairs(open) : /\ Repairs(open)[k].to = "pointer"
                                      /\ Repairs(open)[k].add \in JournalsOf(log)
  BY <1>1, <1>5, <1>6
<1> QED
  BY <1>8, <1>9

\* A call that decides on writes that fit.
LEMMA Transacted ==
    ASSUME IInv, NEW i \in Instances, i \in alive, LockFree, NEW t \in Seq(Writes),
           Transact(i, t), Pending(log, lease, lost, i, t)
    PROVE  IInv'
<1>1. /\ holder' = i /\ todo' = [todo EXCEPT ![i] = t]
      /\ log' = log /\ torn' = torn /\ view' = view /\ ptr' = ptr /\ lease' = lease
      /\ fence' = fence /\ lost' = lost /\ alive' = alive
  BY DEF Transact
<1>2. \A j \in Instances : todo[j] = <<>>
  BY DEF LockFree, IInv, Locked
<1>3. todo \in [Instances -> Seq(Writes)]
  BY DEF IInv, Typed
<1>4. /\ todo' \in [Instances -> Seq(Writes)]
      /\ todo'[i] = t
      /\ \A j \in Instances : j # i => todo'[j] = <<>>
  BY <1>1, <1>2, <1>3
<1>5. Typed'
  BY <1>1, <1>4 DEF IInv, Typed
<1>6. Locked'
  BY <1>1, <1>4 DEF Locked
<1>7. \A j \in Instances : Pending(log', lease', lost', j, todo'[j])
  BY <1>1, <1>4, PendingEmpty
<1> QED
  BY <1>1, <1>5, <1>6, <1>7 DEF IInv

\* A change of owner whose row continues the log.
LEMMA ChangePending ==
    ASSUME IInv, NEW i \in Instances, NEW x \in JournalsOf(log), NEW R \in Record, NEW f \in Nat,
           Continues(log, lease, lost, i, AppendLog(x, OwnerRow(State(x).seq, R.owner, R.released))),
           f > 0 => \/ Given(log[x], [inst |-> i, fence |-> f])
                    \/ R.owner = [inst |-> i, fence |-> f]
    PROVE  /\ ChangeOwner(x, R) \o <<Reply(x, f)>> \in Seq(Writes)
           /\ Pending(log, lease, lost, i, ChangeOwner(x, R) \o <<Reply(x, f)>>)
<1> DEFINE row == OwnerRow(State(x).seq, R.owner, R.released)
           q == ClosePointer(x, R)
<1>1. q \in Closings(x)
  BY DEF ClosePointer, Closings
<1>2. State(x).seq \in Nat
  BY Names DEF IInv, Replayable, Sound, States, JournalsOf
<1>3. row \in Rows
  BY <1>2 DEF Record, OwnerRow, Rows, Owners
<1>4. f > 0 => \/ Given(log[x], [inst |-> i, fence |-> f])
               \/ IsGrant(row) /\ row.owner = [inst |-> i, fence |-> f]
  <2>1. row.type = "ownership.changed" /\ row.owner = R.owner
    BY DEF OwnerRow
  <2> HIDE DEF row
  <2> QED
    BY <2>1, ExecutionAssumption DEF IsGrant
<1>5. ChangeOwner(x, R) = writeRecord(x, R, row) \o q
  BY DEF ChangeOwner
<1>6. Continues(log, lease, lost, i, AppendLog(x, row))
  OBVIOUS
<1> HIDE DEF row, q
<1> QED
  BY <1>1, <1>3, <1>4, <1>5, <1>6, CallPending

\* The record of a journal.
LEMMA Journaled ==
    ASSUME IInv, NEW x \in JournalsOf(log)
    PROVE  /\ x \in Ids /\ log[x] \in Seq(Rows) /\ log[x] # <<>>
           /\ State(x) = Rebuilt(log, x) /\ readRecord(x) = Rebuilt(log, x).rec
           /\ Sound(State(x), log[x]) /\ State(x) \in States /\ readRecord(x) \in Record
           /\ readRecord(x).owner.fence \in Nat
           /\ readRecord(x).owner.fence + 1 <= Len(log[x]) /\ Len(log[x]) \in Nat
<1>1. x \in Ids /\ log[x] # <<>> /\ log \in [Ids -> Seq(Rows)]
  BY DEF JournalsOf, IInv, Typed
<1>2. log[x] \in Seq(Rows) /\ Len(log[x]) \in Nat
  BY <1>1
<1>3. State(x) = Rebuilt(log, x) /\ readRecord(x) = Rebuilt(log, x).rec
  BY Names
<1>4. Sound(State(x), log[x])
  BY <1>1, <1>3 DEF IInv, Replayable
<1>5. State(x) \in States /\ readRecord(x) \in Record /\ readRecord(x).owner.fence < Len(log[x])
  BY <1>1, <1>3, <1>4 DEF Sound, States
<1>6. readRecord(x).owner.fence \in Nat
  BY <1>5 DEF Record
<1> QED
  BY <1>1, <1>2, <1>3, <1>4, <1>5, <1>6

\* An adoption: what claim and re-open write.
LEMMA OwnPending ==
    ASSUME IInv, NEW i \in Instances, NEW x \in JournalsOf(log), NEW t \in BOOLEAN, NEW f,
           f = ClaimFence(readRecord(x), i, t), i \notin lost[x], RoomForRow,
           Claimable(readRecord(x), i, lease[x] > 0)
    PROVE  /\ f \in Nat
           /\ ChangeOwner(x, Own(readRecord(x), i, f)) \o <<Reply(x, f)>> \in Seq(Writes)
           /\ Pending(log, lease, lost, i,
                      ChangeOwner(x, Own(readRecord(x), i, f)) \o <<Reply(x, f)>>)
<1> DEFINE r == readRecord(x)
           R == Own(r, i, f)
           st == State(x)
<1>1. /\ x \in Ids /\ st = Rebuilt(log, x) /\ r = st.rec /\ r \in Record
      /\ r.owner.fence \in Nat /\ r.owner.fence + 1 <= Len(log[x]) /\ Len(log[x]) \in Nat
  BY Journaled
<1>2. Len(log[x]) < MaxRows /\ MaxRows \in Nat
  BY <1>1, RoomLeft, StoreAssumption DEF IInv, Typed, Numbered
<1> HIDE DEF r, st
<1>3. f = ClaimFence(r, i, t) /\ Claimable(r, i, lease[x] > 0)
  BY DEF r
<1>4. f = r.owner.fence \/ f = r.owner.fence + 1
  BY <1>3 DEF ClaimFence
<1>5. f \in Nat /\ f <= MaxRows
  BY <1>1, <1>2, <1>4
<1>6. R \in Record /\ R.owner = [inst |-> i, fence |-> f] /\ R.released = r.released
  BY <1>1, <1>5 DEF Own, Record
<1>7. r.released = FALSE
  <2>1. r.released \in BOOLEAN
    BY <1>1 DEF Record
  <2>2. ~r.released
    BY <1>3 DEF Claimable, isTerminal
  <2> QED
    BY <2>1, <2>2, Zenon
<1> HIDE DEF R
<1> DEFINE row == OwnerRow(st.seq, R.owner, R.released)
           w == AppendLog(x, row)
<1>8. row = OwnerRow(st.seq, [inst |-> i, fence |-> f], FALSE)
  BY <1>6, <1>7
<1>9. w.id = x /\ w.row = row
  BY DEF AppendLog
<1> HIDE DEF row
<1>10. Claims(st, i, row, lease[x] > 0)
  BY <1>1, <1>3, <1>5, <1>8 DEF Claims
<1>11. Continues(log, lease, lost, i, w)
  BY <1>1, <1>9, <1>10 DEF Continues
<1>12. /\ ChangeOwner(x, R) \o <<Reply(x, f)>> \in Seq(Writes)
       /\ Pending(log, lease, lost, i, ChangeOwner(x, R) \o <<Reply(x, f)>>)
  <2>1. Continues(log, lease, lost, i, AppendLog(x, OwnerRow(State(x).seq, R.owner, R.released)))
    BY <1>11 DEF row, st
  <2> QED
    BY <1>5, <1>6, <2>1, ChangePending
<1> QED
  BY <1>5, <1>12 DEF R, r

\* Claim keeps the invariant.
LEMMA ClaimKeeps ==
    ASSUME IInv, NEW i \in Instances, i \in alive, LockFree, NEW x \in Ids,
           NEW takeover \in Takeovers, Claim(i, x, takeover)
    PROVE  IInv'
<1> DEFINE f == ClaimFence(readRecord(x), i, takeover)
           t == ChangeOwner(x, Own(readRecord(x), i, f)) \o <<Reply(x, f)>>
<1>1. x \in JournalsOf(log) /\ takeover \in BOOLEAN
  BY Names, StoreAssumption DEF Claim
<1>2. i \notin lost[x] /\ Claimable(readRecord(x), i, lease[x] > 0) /\ RoomForRow /\ Transact(i, t)
  BY DEF Claim
<1>3. t \in Seq(Writes) /\ Pending(log, lease, lost, i, t)
  BY <1>1, <1>2, OwnPending
<1> HIDE DEF t
<1> QED
  BY <1>2, <1>3, Transacted

\* The caller's fence is the record's, and so the caller is the owner.
LEMMA OwnerCalls ==
    ASSUME IInv, NEW i \in Instances, NEW x \in Ids, Owns(i, x)
    PROVE  /\ x \in JournalsOf(log)
           /\ lease[x] > 0
           /\ fence[x][i] = readRecord(x).owner.fence /\ fence[x][i] \in 1 .. MaxRows
           /\ readRecord(x).owner.inst = i /\ readRecord(x).owner # NoOwner
           /\ ~readRecord(x).released
           /\ Given(log[x], [inst |-> i, fence |-> fence[x][i]])
<1> DEFINE r == readRecord(x)
           st == State(x)
<1>1. x \in JournalsOf(log)
  BY Names DEF Owns
<1>2. r.owner # NoOwner /\ r.owner.fence = fence[x][i] /\ lease[x] > 0
  BY DEF Owns, ownershipLive, ownershipFence
<1>3. r = st.rec /\ Sound(st, log[x]) /\ log[x] \in Seq(Rows)
  BY <1>1, Journaled
<1> HIDE DEF r, st
<1>4. r.owner.fence \in 1 .. MaxRows /\ ~r.released
  BY <1>2, <1>3, OwnerKnown
<1>5. Given(log[x], [inst |-> i, fence |-> fence[x][i]])
  <2>1. fence[x][i] > 0
    BY <1>2, <1>4
  <2> QED
    BY <2>1 DEF IInv, Answered
<1>6. r.owner.inst = i
  BY <1>2, <1>3, <1>5, FenceKnown
<1> QED
  BY <1>1, <1>2, <1>4, <1>5, <1>6 DEF r

\* Renew keeps the invariant.
LEMMA RenewKeeps ==
    ASSUME IInv, NEW i \in Instances, i \in alive, LockFree, NEW x \in Ids, Renew(i, x)
    PROVE  IInv'
<1> DEFINE r == readRecord(x)
           f == fence[x][i]
           st == State(x)
           t == ChangeOwner(x, r) \o <<Reply(x, f)>>
<1>1. Owns(i, x) /\ Transact(i, t)
  BY DEF Renew
<1>2. /\ x \in JournalsOf(log) /\ lease[x] > 0 /\ f = r.owner.fence /\ f \in 1 .. MaxRows
      /\ r.owner.inst = i /\ ~r.released /\ Given(log[x], [inst |-> i, fence |-> f])
  BY <1>1, OwnerCalls
<1>3. r = st.rec /\ st = Rebuilt(log, x) /\ r \in Record
  BY <1>2, Journaled
<1> HIDE DEF r, f
<1>4. r.released = FALSE
  <2>1. r.released \in BOOLEAN
    BY <1>3 DEF Record
  <2> QED
    BY <1>2, <2>1, Zenon
<1> DEFINE row == OwnerRow(st.seq, r.owner, r.released)
           w == AppendLog(x, row)
<1>5. w.id = x /\ w.row = row
  BY DEF AppendLog
<1>6. row = OwnerRow(st.seq, r.owner, FALSE)
  BY <1>4
<1> HIDE DEF row, st
<1>7. Renews(st, i, row, lease[x] > 0)
  BY <1>2, <1>3, <1>6 DEF Renews
<1>8. Continues(log, lease, lost, i, w)
  BY <1>2, <1>3, <1>5, <1>7 DEF Continues
<1>9. Continues(log, lease, lost, i, AppendLog(x, OwnerRow(State(x).seq, r.owner, r.released)))
  BY <1>8 DEF row, st
<1>10. f \in Nat
  BY <1>2
<1>11. t \in Seq(Writes) /\ Pending(log, lease, lost, i, t)
  BY <1>2, <1>3, <1>9, <1>10, ChangePending
<1> HIDE DEF t
<1> QED
  BY <1>1, <1>11, Transacted

\* A release, by the owner or by a person, keeps the invariant.
LEMMA ReleasedKeeps ==
    ASSUME IInv, NEW i \in Instances, i \in alive, LockFree, NEW x \in JournalsOf(log),
           ~isTerminal(readRecord(x)),
           Transact(i, ChangeOwner(x, Released(readRecord(x))) \o <<Reply(x, 0)>>)
    PROVE  IInv'
<1> DEFINE r == readRecord(x)
           R == Released(r)
           st == State(x)
           t == ChangeOwner(x, R) \o <<Reply(x, 0)>>
<1>1. r = st.rec /\ st = Rebuilt(log, x) /\ r \in Record
  BY Journaled
<1>2. Transact(i, t) /\ ~isTerminal(r)
  OBVIOUS
<1> HIDE DEF r, st
<1>3. R \in Record /\ R.owner = NoOwner /\ R.released = TRUE
  BY <1>1 DEF Released, Record, NoOwner
<1> HIDE DEF R
<1> DEFINE row == OwnerRow(st.seq, R.owner, R.released)
           w == AppendLog(x, row)
<1>4. w.id = x /\ w.row = row
  BY DEF AppendLog
<1>5. row = OwnerRow(st.seq, NoOwner, TRUE)
  BY <1>3
<1> HIDE DEF row
<1>6. Releases(st, row)
  BY <1>1, <1>2, <1>5 DEF Releases
<1>7. Continues(log, lease, lost, i, w)
  BY <1>1, <1>4, <1>6 DEF Continues
<1>8. Continues(log, lease, lost, i, AppendLog(x, OwnerRow(State(x).seq, R.owner, R.released)))
  BY <1>7 DEF row, st
<1>9. t \in Seq(Writes) /\ Pending(log, lease, lost, i, t)
  <2>1. PICK f \in Nat : f = 0 /\ ~(f > 0)
    OBVIOUS
  <2> QED
    BY <1>3, <1>8, <2>1, ChangePending
<1> HIDE DEF t
<1> QED
  BY <1>2, <1>9, Transacted

\* Release keeps the invariant.
LEMMA ReleaseKeeps ==
    ASSUME IInv, NEW i \in Instances, i \in alive, LockFree, NEW x \in Ids, Release(i, x)
    PROVE  IInv'
<1>1. Owns(i, x) /\ readRecord(x).stage # "completed"
      /\ Transact(i, ChangeOwner(x, Released(readRecord(x))) \o <<Reply(x, 0)>>)
  BY DEF Release
<1>2. x \in JournalsOf(log) /\ ~readRecord(x).released
  BY <1>1, OwnerCalls
<1>3. ~isTerminal(readRecord(x))
  BY <1>1, <1>2 DEF isTerminal
<1> QED
  BY <1>1, <1>2, <1>3, ReleasedKeeps

\* ForceRelease keeps the invariant.
LEMMA ForceReleaseKeeps ==
    ASSUME IInv, NEW i \in Instances, i \in alive, LockFree, NEW x \in Ids, ForceRelease(i, x)
    PROVE  IInv'
  BY Names, ReleasedKeeps DEF ForceRelease

\* Report keeps the invariant.
LEMMA ReportKeeps ==
    ASSUME IInv, NEW i \in Instances, i \in alive, LockFree, NEW x \in Ids,
           NEW e \in EventsSent, Report(i, x, e)
    PROVE  IInv'
<1> DEFINE st == State(x)
           f == fence[x][i]
           R == Effect(st.rec, e)
           row == EventRow(st.seq + 1, e, f)
           q == ClosePointer(x, R)
           t == writeRecord(x, R, row) \o q \o <<Reply(x, 0)>>
           w == AppendLog(x, row)
<1>1. /\ Owns(i, x) /\ derivedEventKey(e) \notin st.seen
      /\ Accepts(st.rec, e, f, lease[x] > 0) /\ Transact(i, t)
  BY DEF Report
<1>2. /\ x \in JournalsOf(log) /\ f = readRecord(x).owner.fence /\ f \in 1 .. MaxRows
      /\ readRecord(x).owner.inst = i
  BY <1>1, OwnerCalls
<1>3. readRecord(x) = st.rec /\ st = Rebuilt(log, x) /\ st \in States
  BY <1>2, Journaled DEF readRecord
<1>4. st.rec.owner.fence = f /\ st.rec.owner.inst = i /\ f \in Nat
  BY <1>2, <1>3
<1> HIDE DEF f, st
<1>5. R \in Record
  BY <1>1, <1>3, EffectType DEF Accepts, States, EventsSent
<1>6. q \in Closings(x)
  BY DEF ClosePointer, Closings
<1>7. st.seq + 1 \in Nat /\ derivedEventKey(e) \in Keys
  BY <1>3 DEF States, Keys
<1>8. row \in Rows
  BY <1>4, <1>7 DEF EventRow, Rows
<1>9. w.id = x /\ w.row = row
  BY DEF AppendLog
<1>10. Reports(st, i, row, lease[x] > 0)
  BY <1>1, <1>4 DEF Reports
<1> HIDE DEF row, R, q
<1>11. Continues(log, lease, lost, i, w)
  BY <1>2, <1>3, <1>9, <1>10 DEF Continues
<1>12. t \in Seq(Writes) /\ Pending(log, lease, lost, i, t)
  <2>1. PICK g \in Nat : g = 0 /\ ~(g > 0)
    OBVIOUS
  <2> QED
    BY <1>2, <1>5, <1>6, <1>8, <1>11, <2>1, CallPending
<1> HIDE DEF t
<1> QED
  BY <1>1, <1>12, Transacted

\* Reopen keeps the invariant.
LEMMA ReopenKeeps ==
    ASSUME IInv, NEW i \in Instances, i \in alive, LockFree, NEW factory \in Factories,
           Reopen(i, factory)
    PROVE  IInv'
<1>1. PICK x \in Live :
        LET r == readRecord(x)
            claims == /\ x.factory = factory
                      /\ r.owner = NoOwner \/ SameOwner(r, i)
                      /\ r.owner.inst # i
            mine == x.factory = factory /\ r.owner.inst = i
            f == r.owner.fence + 1
        IN  /\ MayOpen(i, factory)
            /\ claims => RoomForRow
            /\ Transact(i, Repairs(x)
                \o (IF claims THEN ChangeOwner(x, Own(r, i, f)) ELSE <<>>)
                \o <<Reply(x, IF claims THEN f ELSE IF mine THEN r.owner.fence ELSE 0)>>)
  BY DEF Reopen
<1>2. x \in JournalsOf(log) /\ x \in Ids /\ ~isTerminal(readRecord(x))
  BY Names DEF LiveOf, JournalsOf
<1> DEFINE r == readRecord(x)
           claims == /\ x.factory = factory
                     /\ r.owner = NoOwner \/ SameOwner(r, i)
                     /\ r.owner.inst # i
           mine == x.factory = factory /\ r.owner.inst = i
           f == r.owner.fence + 1
           a == ChangeOwner(x, Own(r, i, f))
           q == Repairs(x)
<1>3. q \in Seq(Writes) /\ \A k \in DOMAIN q : q[k].to = "pointer" /\ q[k].add \in JournalsOf(log)
  BY <1>2, RepairsFit
<1>4. /\ r = State(x).rec /\ Sound(State(x), log[x]) /\ log[x] \in Seq(Rows) /\ r \in Record
      /\ r.owner.fence \in Nat
  BY <1>2, Journaled DEF readRecord
<1>5. CASE claims
  <2> DEFINE t == a \o <<Reply(x, f)>>
  <2>1. Transact(i, (q \o a) \o <<Reply(x, f)>>) /\ RoomForRow /\ MayOpen(i, factory)
    BY <1>1, <1>5
  <2>2. i \notin lost[x]
    BY <1>2, <1>5, <2>1 DEF MayOpen
  <2>3. f = ClaimFence(r, i, TRUE)
    BY DEF ClaimFence
  <2>4. Claimable(r, i, lease[x] > 0)
    BY <1>2, <1>5 DEF Claimable
  <2>5. t \in Seq(Writes) /\ Pending(log, lease, lost, i, t) /\ f \in Nat
    BY <1>2, <2>1, <2>2, <2>3, <2>4, OwnPending
  <2>6. a \in Seq(Writes) /\ <<Reply(x, f)>> \in Seq(Writes)
    <3>1. <<Reply(x, f)>> \in Seq(Writes)
      BY <1>2, <2>5 DEF Reply, Writes
    <3>2. State(x).seq \in Nat /\ Own(r, i, f) \in Record
      BY <1>4, <2>5 DEF Sound, States, Own, Record
    <3> DEFINE R == Own(r, i, f)
               row == OwnerRow(State(x).seq, R.owner, R.released)
    <3>3. row \in Rows
      BY <3>2 DEF Record, OwnerRow, Rows, Owners
    <3>4. <<AppendLog(x, row), WriteView(x, R)>> \in Seq(Writes)
      <4>1. AppendLog(x, row) \in Writes
        BY <1>2, <3>3 DEF AppendLog, Writes
      <4>2. WriteView(x, R) \in Writes
        BY <1>2, <3>2 DEF WriteView, Writes
      <4> QED
        BY <4>1, <4>2
    <3>5. ClosePointer(x, R) \in Seq(Writes)
      <4>1. WritePointer(NoId, x) \in Writes
        BY <1>2 DEF WritePointer, Writes
      <4>2. <<WritePointer(NoId, x)>> \in Seq(Writes) /\ <<>> \in Seq(Writes)
        BY <4>1
      <4> QED
        BY <4>2 DEF ClosePointer
    <3>6. a = <<AppendLog(x, row), WriteView(x, R)>> \o ClosePointer(x, R)
      BY DEF ChangeOwner, writeRecord
    <3> HIDE DEF R, row, a
    <3> QED
      BY <3>1, <3>4, <3>5, <3>6
  <2>7. (q \o a) \o <<Reply(x, f)>> = q \o t
    <3> HIDE DEF q, a, f
    <3>1. PICK c \in Seq(Writes) : c = <<Reply(x, f)>>
      BY <2>6
    <3> QED
      BY <1>3, <2>6, <3>1, ConcatAssociative DEF t
  <2> HIDE DEF t, q
  <2>8. q \o t \in Seq(Writes) /\ Pending(log, lease, lost, i, q \o t)
    BY <1>3, <2>5, PendingPrefix
  <2> QED
    BY <2>1, <2>7, <2>8, Transacted
<1>6. CASE ~claims
  <2> DEFINE g == IF mine THEN r.owner.fence ELSE 0
             t == <<Reply(x, g)>>
  <2>1. Transact(i, (q \o <<>>) \o t)
    BY <1>1, <1>6
  <2>2. g \in Nat
    BY <1>4
  <2>3. g > 0 => Given(log[x], [inst |-> i, fence |-> g])
    <3> SUFFICES ASSUME g > 0 PROVE Given(log[x], [inst |-> i, fence |-> g])
      OBVIOUS
    <3>1. g = r.owner.fence /\ r.owner.inst = i
      OBVIOUS
    <3>2. r.owner # NoOwner
      BY <3>1, ExecutionAssumption DEF NoOwner
    <3>3. Given(log[x], r.owner)
      BY <1>4, <3>2, OwnerKnown
    <3>4. r.owner = [inst |-> i, fence |-> g]
      BY <1>4, <3>1 DEF Record
    <3> QED
      BY <3>3, <3>4
  <2> HIDE DEF g
  <2>4. t \in Seq(Writes) /\ Pending(log, lease, lost, i, t)
    BY <1>2, <2>2, <2>3, AnswerPending
  <2> HIDE DEF t, q
  <2>5. (q \o <<>>) \o t = q \o t
    <3>1. q \o <<>> = q
      BY <1>3
    <3> QED
      BY <3>1
  <2>6. q \o t \in Seq(Writes) /\ Pending(log, lease, lost, i, q \o t)
    BY <1>3, <2>4, PendingPrefix
  <2> QED
    BY <2>1, <2>5, <2>6, Transacted
<1> QED
  BY <1>5, <1>6

\* OpenNew keeps the invariant.
LEMMA OpenNewKeeps ==
    ASSUME IInv, NEW i \in Instances, i \in alive, LockFree, NEW factory \in Factories,
           OpenNew(i, factory)
    PROVE  IInv'
<1> DEFINE J == JournalsOf(log)
           n == Cardinality(Journals \cup {ptr.executions[k] : k \in DOMAIN ptr.executions})
           x == [factory |-> factory, attempt |-> n + 1]
           q == Repairs(NoId)
           t == Opening(x, i)
<1>1. Live = {} /\ n < MaxAttempts /\ Transact(i, q \o t)
  BY DEF OpenNew, Opening
<1>2. {ptr.executions[k] : k \in DOMAIN ptr.executions} \subseteq J
  BY DEF IInv, Listed
<1>3. Journals \cup {ptr.executions[k] : k \in DOMAIN ptr.executions} = J
  BY <1>2, Names
<1>4. n = Cardinality(J) /\ n \in Nat
  BY <1>3, FS_CardinalityType DEF IInv, Numbered
<1> HIDE DEF n
<1>5. x \in Ids /\ x.attempt = Cardinality(J) + 1
  BY <1>1, <1>4, StoreAssumption DEF Ids
<1>6. x \notin J
  <2>1. \A y \in J : y.attempt <= Cardinality(J)
    BY DEF IInv, Numbered
  <2> QED
    BY <1>4, <1>5, <2>1
<1>7. LiveOf(log) = {}
  BY <1>1, Names
<1> HIDE DEF x
<1>8. t \in Seq(Writes) /\ Pending(log, lease, lost, i, t)
  BY <1>5, <1>6, <1>7, OpeningPending
<1>9. q \in Seq(Writes) /\ \A k \in DOMAIN q : q[k].to = "pointer" /\ q[k].add \in JournalsOf(log)
  BY RepairsFit
<1> HIDE DEF q, t
<1>10. q \o t \in Seq(Writes) /\ Pending(log, lease, lost, i, q \o t)
  BY <1>8, <1>9, PendingPrefix
<1> QED
  BY <1>1, <1>10, Transacted

\* Refused keeps the invariant: the loss is of an execution that exists, and
\* nobody has a claim to write meanwhile.
LEMMA RefusedKeeps ==
    ASSUME IInv, NEW i \in Instances, LockFree, NEW x \in Ids, Refused(i, x)
    PROVE  IInv'
<1>1. /\ lost' = [lost EXCEPT ![x] = @ \cup {i}]
      /\ log' = log /\ torn' = torn /\ view' = view /\ ptr' = ptr /\ lease' = lease
      /\ holder' = holder /\ todo' = todo /\ fence' = fence /\ alive' = alive
  BY DEF Refused
<1>2. x \in JournalsOf(log)
  BY Names DEF Refused
<1>3. \A j \in Instances : todo[j] = <<>>
  BY DEF LockFree, IInv, Locked
<1>4. /\ lost \in [Ids -> SUBSET Instances] /\ lost' \in [Ids -> SUBSET Instances]
      /\ \A y \in Ids : y # x => lost'[y] = lost[y]
  BY <1>1 DEF IInv, Typed
<1>5. Typed'
  BY <1>1, <1>4 DEF IInv, Typed
<1>6. Locked'
  BY <1>1 DEF IInv, Locked
<1>7. Answered(log', fence', lost')
  BY <1>1, <1>2, <1>4 DEF IInv, Answered
<1>8. \A j \in Instances : Pending(log', lease', lost', j, todo'[j])
  BY <1>1, <1>3, PendingEmpty
<1> QED
  BY <1>1, <1>5, <1>6, <1>7, <1>8 DEF IInv

-----------------------------------------------------------------------------
(* The writes of a call, its end, and time keep the invariant.             *)

\* The call under way is the only one.
LEMMA Underway ==
    ASSUME IInv, NEW i \in Instances, Busy(i)
    PROVE  /\ todo[i] \in Seq(Writes) /\ todo[i] # <<>>
           /\ i \in alive /\ holder = i
           /\ \A j \in Instances : j # i => todo[j] = <<>>
           /\ Pending(log, lease, lost, i, todo[i])
           /\ Head(todo[i]) \in Writes /\ Head(todo[i]) = todo[i][1]
           /\ Tail(todo[i]) \in Seq(Writes)
<1>1. todo[i] \in Seq(Writes) /\ todo[i] # <<>> /\ i \in alive
  BY DEF Busy, IInv, Typed
<1>2. holder = i /\ \A j \in Instances : j # i => todo[j] = <<>>
  BY <1>1 DEF IInv, Locked
<1>3. Pending(log, lease, lost, i, todo[i])
  BY DEF IInv
<1> QED
  BY <1>1, <1>2, <1>3, Tailed

\* What every write leaves of the queues.
LEMMA WriteQueues ==
    ASSUME IInv, NEW i \in Instances, Write(i)
    PROVE  /\ Busy(i)
           /\ todo' \in [Instances -> Seq(Writes)]
           /\ todo'[i] = Tail(todo[i])
           /\ \A j \in Instances : j # i => todo'[j] = <<>>
           /\ Locked'
           /\ torn' = torn /\ holder' = holder /\ fence' = fence /\ lost' = lost /\ alive' = alive
<1>1. /\ Busy(i) /\ todo' = [todo EXCEPT ![i] = Tail(@)]
      /\ torn' = torn /\ holder' = holder /\ fence' = fence /\ lost' = lost /\ alive' = alive
  BY DEF Write
<1>2. /\ todo \in [Instances -> Seq(Writes)]
      /\ i \in alive /\ holder = i /\ Tail(todo[i]) \in Seq(Writes)
      /\ \A j \in Instances : j # i => todo[j] = <<>>
  BY <1>1, Underway DEF IInv, Typed
<1>3. /\ todo' \in [Instances -> Seq(Writes)]
      /\ todo'[i] = Tail(todo[i])
      /\ \A j \in Instances : j # i => todo'[j] = <<>>
  BY <1>1, <1>2
<1>4. Locked'
  BY <1>1, <1>2, <1>3 DEF Locked
<1> QED
  BY <1>1, <1>3, <1>4

\* A write of the view or of the pointer.
LEMMA WriteFileKeeps ==
    ASSUME IInv, NEW i \in Instances, Write(i), Head(todo[i]).to # "log"
    PROVE  IInv'
<1>0. PICK w : w = Head(todo[i])
  OBVIOUS
<1>1. /\ Busy(i)
      /\ todo' \in [Instances -> Seq(Writes)]
      /\ todo'[i] = Tail(todo[i])
      /\ \A j \in Instances : j # i => todo'[j] = <<>>
      /\ Locked'
      /\ torn' = torn /\ holder' = holder /\ fence' = fence /\ lost' = lost /\ alive' = alive
  BY WriteQueues
<1>2. /\ todo[i] \in Seq(Writes) /\ todo[i] # <<>> /\ Pending(log, lease, lost, i, todo[i])
      /\ w \in Writes /\ w = todo[i][1] /\ w.to # "log"
  BY <1>0, <1>1, Underway
<1>3. /\ log' = log /\ lease' = lease /\ w.to # "reply"
      /\ view' = IF w.to = "view" THEN [view EXCEPT ![w.id] = w.rec] ELSE view
      /\ ptr' = IF w.to = "pointer" THEN Pointed(w) ELSE ptr
  BY <1>0, <1>2 DEF Write
<1>4. view' \in [Ids -> Record \cup {NoView}]
  <2>1. view \in [Ids -> Record \cup {NoView}]
    BY DEF IInv, Typed
  <2>2. w.to = "view" => w.id \in Ids /\ w.rec \in Record
    BY <1>2 DEF Writes
  <2> QED
    BY <1>3, <2>1, <2>2
<1>5. /\ ptr' \in [open : Ids \cup {NoId}, executions : Seq(Ids)]
      /\ Listed(log', ptr'.executions)
  <2>1. ptr \in [open : Ids \cup {NoId}, executions : Seq(Ids)] /\ Listed(log, ptr.executions)
    BY DEF IInv, Typed
  <2>2. CASE w.to # "pointer"
    BY <1>3, <2>1, <2>2
  <2>3. CASE w.to = "pointer"
    <3>1. w.open \in Ids \cup {NoId} /\ w.add \in Ids
      BY <1>2, <2>3 DEF Writes
    <3>2. w.add \in JournalsOf(log)
      <4>1. 1 \in DOMAIN todo[i]
        BY <1>2, Tailed
      <4>2. PointersFit(JournalsOf(log), todo[i])
        BY <1>2 DEF Pending
      <4>3. todo[i][1].to = "pointer"
        BY <1>2, <2>3
      <4>4. \A m \in 1 .. (1 - 1) : FALSE
        OBVIOUS
      <4> QED
        BY <1>2, <4>1, <4>2, <4>3, <4>4 DEF PointersFit
    <3>3. ptr' = Pointed(w)
      BY <1>3, <2>3
    <3>4. PICK s \in Seq(Ids) : s = ptr.executions /\ Listed(log, s)
      BY <2>1
    <3>5. Append(s, w.add) \in Seq(Ids) /\ Listed(log, Append(s, w.add))
      BY <3>1, <3>2, <3>4 DEF Listed
    <3>6. ptr'.open = w.open /\ (ptr'.executions = s \/ ptr'.executions = Append(s, w.add))
          /\ ptr' = [open |-> w.open, executions |-> ptr'.executions]
      BY <3>3, <3>4 DEF Pointed
    <3> QED
      BY <1>3, <3>1, <3>4, <3>5, <3>6
  <2> QED
    BY <2>2, <2>3
<1>6. Typed'
  BY <1>1, <1>3, <1>4, <1>5 DEF IInv, Typed
<1>7. Pending(log, lease, lost, i, Tail(todo[i]))
  <2>1. LogsFit(log, lease, lost, i, Tail(todo[i]))
    BY <1>0, <1>2, LogsTail DEF Pending
  <2>2. PointersFit(JournalsOf(log), Tail(todo[i]))
    BY <1>0, <1>2, PointersTail DEF Pending
  <2>3. \A x \in Ids : \A o : Given(log[x], o) \/ Hands(w, x, o) => Given(log[x], o)
    BY <1>2 DEF Hands
  <2>4. RepliesFit(log, i, Tail(todo[i]))
    BY <1>0, <1>2, <2>3, RepliesTail DEF Pending
  <2> QED
    BY <2>1, <2>2, <2>4 DEF Pending
<1>8. \A j \in Instances : Pending(log', lease', lost', j, todo'[j])
  BY <1>1, <1>3, <1>7, PendingEmpty
<1> QED
  BY <1>1, <1>3, <1>5, <1>6, <1>8 DEF IInv

\* What a row does to the log and the leases.
LEMMA WriteRow ==
    ASSUME IInv, NEW i \in Instances, Write(i), NEW w, w = Head(todo[i]), w.to = "log"
    PROVE  /\ w \in Writes /\ w.id \in Ids /\ w.row \in Rows
           /\ log \in [Ids -> Seq(Rows)]
           /\ log' = Grown(log, w.id, w.row)
           /\ lease' = Leased(w.id, w.row)
           /\ view' = view /\ ptr' = ptr
           /\ Typed'
<1>1. /\ Busy(i)
      /\ todo' \in [Instances -> Seq(Writes)]
      /\ torn' = torn /\ holder' = holder /\ fence' = fence /\ lost' = lost /\ alive' = alive
  BY WriteQueues
<1>2. w \in Writes
  BY <1>1, Underway
<1>3. w.id \in Ids /\ w.row \in Rows
  BY <1>2 DEF Writes
<1>4. log \in [Ids -> Seq(Rows)] /\ lease \in [Ids -> 0 .. Ttl] /\ Ttl \in Nat
  BY StoreAssumption DEF IInv, Typed
<1>5. log' = Grown(log, w.id, w.row) /\ lease' = Leased(w.id, w.row) /\ view' = view /\ ptr' = ptr
  BY <1>4 DEF Write, Grown
<1>6. log' \in [Ids -> Seq(Rows)]
  BY <1>3, <1>4, <1>5, GrownLogs
<1>7. lease' \in [Ids -> 0 .. Ttl]
  <2>1. 0 \in 0 .. Ttl /\ Ttl \in 0 .. Ttl
    BY <1>4
  <2> QED
    BY <1>3, <1>4, <1>5, <2>1 DEF Leased
<1>8. Typed'
  BY <1>1, <1>5, <1>6, <1>7 DEF IInv, Typed
<1> QED
  BY <1>2, <1>3, <1>4, <1>5, <1>8

\* A row that is written grants what it says.
LEMMA RowGives ==
    ASSUME NEW l \in [Ids -> Seq(Rows)], NEW w, w.id \in Ids, w.row \in Rows,
           NEW x \in Ids, NEW o, Given(l[x], o) \/ Hands(w, x, o)
    PROVE  Given(Grown(l, w.id, w.row)[x], o)
<1>1. CASE Given(l[x], o)
  BY <1>1, GrownGives
<1>2. CASE Hands(w, x, o)
  <2>1. w.id = x /\ IsGrant(w.row) /\ w.row.owner = o /\ l[x] \in Seq(Rows)
    BY <1>2 DEF Hands
  <2>2. Given(Append(l[x], w.row), o)
    BY <2>1, GivenAppended
  <2>3. Grown(l, x, w.row)[x] = Append(l[x], w.row)
    BY GrownLogs
  <2> QED
    BY <2>1, <2>2, <2>3
<1> QED
  BY <1>1, <1>2

\* What was listed and answered stays so.
LEMMA GrownStands ==
    ASSUME NEW l \in [Ids -> Seq(Rows)], NEW x \in Ids, NEW row \in Rows, NEW g,
           g = Grown(l, x, row), \A y \in JournalsOf(l) : y \in JournalsOf(g),
           NEW s, Listed(l, s), NEW f, NEW lo, Answered(l, f, lo)
    PROVE  Listed(g, s) /\ Answered(g, f, lo)
<1>1. Listed(g, s)
  BY DEF Listed
<1>2. ASSUME NEW y \in Ids, NEW i \in Instances, f[y][i] > 0
      PROVE  Given(g[y], [inst |-> i, fence |-> f[y][i]])
  <2>1. Given(l[y], [inst |-> i, fence |-> f[y][i]])
    BY <1>2 DEF Answered
  <2> QED
    BY <2>1, GrownGives
<1>3. Answered(g, f, lo)
  BY <1>2 DEF Answered
<1> QED
  BY <1>1, <1>3

\* A row that continues its log.
LEMMA WriteRowKeeps ==
    ASSUME IInv, NEW i \in Instances, Write(i), NEW w, w = Head(todo[i]), w.to = "log",
           Continues(log, lease, lost, i, w), LogWrites(Tail(todo[i])) = {}
    PROVE  IInv'
<1>1. /\ Busy(i) /\ Locked'
      /\ todo'[i] = Tail(todo[i])
      /\ \A j \in Instances : j # i => todo'[j] = <<>>
      /\ torn' = torn /\ holder' = holder /\ fence' = fence /\ lost' = lost /\ alive' = alive
  BY WriteQueues
<1>2. /\ w \in Writes /\ w.id \in Ids /\ w.row \in Rows
      /\ log \in [Ids -> Seq(Rows)]
      /\ log' = Grown(log, w.id, w.row)
      /\ view' = view /\ ptr' = ptr
      /\ Typed'
  BY WriteRow
<1>3. todo[i] \in Seq(Writes) /\ todo[i] # <<>> /\ Pending(log, lease, lost, i, todo[i])
  BY <1>1, Underway
<1>4. Replayable(log) /\ Numbered(log) /\ Listed(log, ptr.executions) /\ Answered(log, fence, lost)
  BY DEF IInv
<1>5. w.id \in JournalsOf(log) /\ Advances(Rebuilt(log, w.id), log[w.id], w.row)
  BY <1>2, <1>4, ContinuesAdvances DEF Continues
<1>6. PICK g : g = Grown(log, w.id, w.row)
  OBVIOUS
<1>7. JournalsOf(g) = JournalsOf(log) /\ Replayable(g) /\ Numbered(g)
  BY <1>2, <1>4, <1>5, <1>6, GrownKeeps
<1>8. Listed(g, ptr.executions) /\ Answered(g, fence, lost)
  BY <1>2, <1>4, <1>6, <1>7, GrownStands
<1>9. Pending(g, lease', lost, i, Tail(todo[i]))
  <2>1. PointersFit(JournalsOf(g), Tail(todo[i]))
    BY <1>3, <1>5, <1>7, PointersTail DEF Pending
  <2>2. \A x \in Ids : \A o : Given(log[x], o) \/ Hands(w, x, o) => Given(g[x], o)
    BY <1>2, <1>6, RowGives
  <2>3. RepliesFit(g, i, Tail(todo[i]))
    BY <1>3, <2>2, RepliesTail DEF Pending
  <2> QED
    BY <2>1, <2>3 DEF Pending, LogsFit
<1>10. log' = g
  BY <1>2, <1>6
<1>11. \A j \in Instances : Pending(log', lease', lost', j, todo'[j])
  BY <1>1, <1>9, <1>10, PendingEmpty
<1> QED
  BY <1>1, <1>2, <1>7, <1>8, <1>10, <1>11 DEF IInv

\* The first row of a new attempt: its second is then a claim nobody lost.
LEMMA WriteFirstKeeps ==
    ASSUME IInv, NEW i \in Instances, Write(i), NEW w, w = Head(todo[i]), w.to = "log",
           NEW t, t = Tail(todo[i]), LogWrites(t) = {1}, 1 \in DOMAIN t, Begins(log, i, w, t[1])
    PROVE  IInv'
<1>1. /\ Busy(i) /\ Locked'
      /\ todo'[i] = t
      /\ \A j \in Instances : j # i => todo'[j] = <<>>
      /\ torn' = torn /\ holder' = holder /\ fence' = fence /\ lost' = lost /\ alive' = alive
  BY WriteQueues
<1>2. /\ w \in Writes /\ w.id \in Ids /\ w.row \in Rows
      /\ log \in [Ids -> Seq(Rows)]
      /\ log' = Grown(log, w.id, w.row)
      /\ view' = view /\ ptr' = ptr
      /\ Typed'
  BY WriteRow
<1>3. todo[i] \in Seq(Writes) /\ todo[i] # <<>> /\ Pending(log, lease, lost, i, todo[i])
  BY <1>1, Underway
<1>4. Replayable(log) /\ Numbered(log) /\ Listed(log, ptr.executions) /\ Answered(log, fence, lost)
  BY DEF IInv
<1>5. PICK x \in Ids :
        /\ w = AppendLog(x, OpenedRow)
        /\ t[1] = AppendLog(x, OwnerRow(0, [inst |-> i, fence |-> 1], FALSE))
        /\ x \notin JournalsOf(log)
        /\ x.attempt = Cardinality(JournalsOf(log)) + 1
        /\ LiveOf(log) = {}
  BY DEF Begins
<1>6. w.id = x /\ w.row = OpenedRow
  BY <1>5 DEF AppendLog
<1>7. PICK g : g = Grown(log, x, OpenedRow)
  OBVIOUS
<1>8. /\ JournalsOf(g) = JournalsOf(log) \cup {x} /\ Replayable(g) /\ Numbered(g)
      /\ Rebuilt(g, x) = Genesis
  BY <1>2, <1>4, <1>5, <1>7, GrownOpens
<1>9. Listed(g, ptr.executions) /\ Answered(g, fence, lost)
  BY <1>2, <1>4, <1>6, <1>7, <1>8, GrownStands
<1>10. Continues(g, lease', lost, i, t[1])
  <2> DEFINE row == OwnerRow(0, [inst |-> i, fence |-> 1], FALSE)
  <2>0. t[1] = AppendLog(x, row)
    BY <1>5
  <2> HIDE DEF row
  <2>1. t[1].id = x /\ t[1].row = row
    BY <2>0 DEF AppendLog
  <2>2. i \notin lost[x]
    BY <1>4, <1>5 DEF Answered
  <2>3. /\ Genesis.rec.owner = NoOwner /\ Genesis.rec.owner.fence = 0 /\ Genesis.seq = 0
        /\ ~isTerminal(Genesis.rec)
    BY DEF Genesis, initExecution, NoOwner, isTerminal
  <2>4. ClaimFence(Genesis.rec, i, TRUE) = 1 /\ 1 <= MaxRows
    BY <2>3, StoreAssumption DEF ClaimFence
  <2>5. Claimable(Genesis.rec, i, lease'[x] > 0)
    BY <2>3 DEF Claimable
  <2>6. row = OwnerRow(Genesis.seq, [inst |-> i, fence |-> ClaimFence(Genesis.rec, i, TRUE)], FALSE)
    BY <2>3, <2>4 DEF row
  <2>7. Claims(Genesis, i, row, lease'[x] > 0)
    BY <2>4, <2>5, <2>6 DEF Claims
  <2> QED
    BY <1>8, <2>1, <2>2, <2>7 DEF Continues
<1>11. Pending(g, lease', lost, i, t)
  <2>1. PointersFit(JournalsOf(g), t)
    BY <1>3, <1>6, <1>8, PointersTail DEF Pending
  <2>2. \A y \in Ids : \A o : Given(log[y], o) \/ Hands(w, y, o) => Given(g[y], o)
    BY <1>2, <1>6, <1>7, RowGives
  <2>3. RepliesFit(g, i, t)
    BY <1>3, <2>2, RepliesTail DEF Pending
  <2>4. LogsFit(g, lease', lost, i, t)
    BY <1>10 DEF LogsFit
  <2> QED
    BY <2>1, <2>3, <2>4 DEF Pending
<1>12. log' = g
  BY <1>2, <1>6, <1>7
<1>13. \A j \in Instances : Pending(log', lease', lost', j, todo'[j])
  BY <1>1, <1>11, <1>12, PendingEmpty
<1> QED
  BY <1>1, <1>2, <1>8, <1>9, <1>12, <1>13 DEF IInv

\* Write keeps the invariant.
LEMMA WriteKeeps ==
    ASSUME IInv, NEW i \in Instances, Write(i)
    PROVE  IInv'
<1>1. CASE Head(todo[i]).to # "log"
  BY <1>1, WriteFileKeeps
<1>2. CASE Head(todo[i]).to = "log"
  <2>1. Busy(i)
    BY DEF Write
  <2>2. /\ todo[i] \in Seq(Writes) /\ todo[i] # <<>> /\ LogsFit(log, lease, lost, i, todo[i])
    BY <2>1, Underway DEF Pending
  <2> QED
    BY <1>2, <2>2, LogsHead, WriteRowKeeps, WriteFirstKeeps
<1> QED
  BY <1>1, <1>2

\* A call that ends, or is cut off, leaves an empty queue.
LEMMA Emptied ==
    ASSUME IInv, NEW i \in Instances, \A j \in Instances : j # i /\ todo[j] # <<>> => FALSE,
           todo' = [todo EXCEPT ![i] = <<>>],
           NEW l, NEW le, NEW lo
    PROVE  /\ todo' \in [Instances -> Seq(Writes)]
           /\ \A j \in Instances : todo'[j] = <<>>
           /\ Locked'
           /\ \A j \in Instances : Pending(l, le, lo, j, todo'[j])
<1>1. todo \in [Instances -> Seq(Writes)] /\ <<>> \in Seq(Writes)
  BY DEF IInv, Typed
<1>2. todo' \in [Instances -> Seq(Writes)] /\ \A j \in Instances : todo'[j] = <<>>
  BY <1>1
<1> QED
  BY <1>2, PendingEmpty DEF Locked

\* Return keeps the invariant: the fence handed out is in the log by then.
LEMMA ReturnKeeps ==
    ASSUME IInv, NEW i \in Instances, Return(i)
    PROVE  IInv'
<1>0. PICK w : w = Head(todo[i])
  OBVIOUS
<1>1. /\ Busy(i) /\ w.to = "reply" /\ holder' = None /\ todo' = [todo EXCEPT ![i] = <<>>]
      /\ fence' = IF w.fence > 0 THEN [fence EXCEPT ![w.id][i] = w.fence] ELSE fence
      /\ log' = log /\ torn' = torn /\ view' = view /\ ptr' = ptr /\ lease' = lease
      /\ lost' = lost /\ alive' = alive
  BY <1>0 DEF Return
<1>2. /\ todo[i] \in Seq(Writes) /\ todo[i] # <<>> /\ Pending(log, lease, lost, i, todo[i])
      /\ w \in Writes /\ w = todo[i][1]
      /\ \A j \in Instances : j # i => todo[j] = <<>>
  BY <1>0, <1>1, Underway
<1>3. /\ todo' \in [Instances -> Seq(Writes)] /\ Locked'
      /\ \A j \in Instances : Pending(log', lease', lost', j, todo'[j])
  BY <1>1, <1>2, Emptied
<1>4. w.id \in Ids /\ w.fence \in Nat
  BY <1>1, <1>2 DEF Writes
<1>5. fence \in [Ids -> [Instances -> Nat]] /\ Answered(log, fence, lost)
  BY DEF IInv, Typed
<1>6. fence' \in [Ids -> [Instances -> Nat]]
  BY <1>1, <1>4, <1>5
<1>7. w.fence > 0 => Given(log[w.id], [inst |-> i, fence |-> w.fence])
  <2>1. 1 \in DOMAIN todo[i] /\ todo[i][1] = w
    BY <1>2, Tailed
  <2>2. RepliesFit(log, i, todo[i])
    BY <1>2 DEF Pending
  <2>3. \A m \in 1 .. (1 - 1) : FALSE
    OBVIOUS
  <2> QED
    BY <1>1, <2>1, <2>2, <2>3 DEF RepliesFit
<1>8. Answered(log, fence', lost)
  <2>1. ASSUME NEW x \in Ids, NEW j \in Instances, fence'[x][j] > 0
        PROVE  Given(log[x], [inst |-> j, fence |-> fence'[x][j]])
    <3>1. CASE w.fence > 0 /\ x = w.id /\ j = i
      <4>1. fence'[x][j] = w.fence
        BY <1>1, <1>4, <1>5, <3>1
      <4> QED
        BY <1>7, <3>1, <4>1
    <3>2. CASE ~(w.fence > 0 /\ x = w.id /\ j = i)
      <4>1. fence'[x][j] = fence[x][j]
        BY <1>1, <1>4, <1>5, <3>2
      <4> QED
        BY <1>5, <2>1, <4>1 DEF Answered
    <3> QED
      BY <3>1, <3>2
  <2> QED
    BY <1>5, <2>1 DEF Answered
<1>9. Typed'
  BY <1>1, <1>3, <1>6 DEF IInv, Typed
<1> QED
  BY <1>1, <1>3, <1>8, <1>9 DEF IInv

\* An interrupted write tears the log of an execution of the item.
LEMMA TornType ==
    ASSUME IInv, NEW i \in Instances, Interrupted(i)
    PROVE  torn' \subseteq Ids
<1>1. torn \subseteq Ids /\ todo[i] \in Seq(Writes)
  BY DEF IInv, Typed
<1>2. CASE torn' = torn
  BY <1>1, <1>2
<1>3. CASE /\ todo[i] # <<>> /\ Head(todo[i]).to = "log"
           /\ torn' = torn \cup {Head(todo[i]).id}
  <2>1. PICK w : w = Head(todo[i])
    OBVIOUS
  <2>2. w \in Writes
    BY <1>1, <1>3, <2>1, Tailed
  <2>3. w.id \in Ids
    BY <1>3, <2>1, <2>2 DEF Writes
  <2> QED
    BY <1>1, <1>3, <2>1, <2>3
<1> QED
  BY <1>2, <1>3 DEF Interrupted

\* Fail keeps the invariant.
LEMMA FailKeeps ==
    ASSUME IInv, NEW i \in Instances, Fail(i)
    PROVE  IInv'
<1>1. /\ Busy(i) /\ Interrupted(i) /\ holder' = None /\ todo' = [todo EXCEPT ![i] = <<>>]
      /\ log' = log /\ view' = view /\ ptr' = ptr /\ lease' = lease
      /\ fence' = fence /\ lost' = lost /\ alive' = alive
  BY DEF Fail
<1>2. torn' \subseteq Ids
  BY <1>1, TornType
<1>3. \A j \in Instances : j # i => todo[j] = <<>>
  BY <1>1, Underway
<1>4. /\ todo' \in [Instances -> Seq(Writes)] /\ Locked'
      /\ \A j \in Instances : Pending(log', lease', lost', j, todo'[j])
  BY <1>1, <1>3, Emptied
<1>5. Typed'
  BY <1>1, <1>2, <1>4 DEF IInv, Typed
<1> QED
  BY <1>1, <1>4, <1>5 DEF IInv

\* Crash keeps the invariant.
LEMMA CrashKeeps ==
    ASSUME IInv, NEW i \in Instances, Crash(i)
    PROVE  IInv'
<1>1. /\ i \in alive /\ Interrupted(i) /\ alive' = alive \ {i} /\ todo' = [todo EXCEPT ![i] = <<>>]
      /\ log' = log /\ view' = view /\ ptr' = ptr /\ lease' = lease
      /\ fence' = fence /\ lost' = lost /\ holder' = holder
  BY DEF Crash
<1>2. torn' \subseteq Ids
  BY <1>1, TornType
<1>3. todo \in [Instances -> Seq(Writes)] /\ <<>> \in Seq(Writes) /\ alive' \subseteq Instances
  BY <1>1 DEF IInv, Typed
<1>4. /\ todo' \in [Instances -> Seq(Writes)] /\ todo'[i] = <<>>
      /\ \A j \in Instances : j # i => todo'[j] = todo[j]
  BY <1>1, <1>3
<1>5. Locked'
  BY <1>1, <1>4 DEF IInv, Locked
<1>6. \A j \in Instances : Pending(log', lease', lost', j, todo'[j])
  <2>1. \A j \in Instances : Pending(log, lease, lost, j, todo[j])
    BY DEF IInv
  <2>2. Pending(log, lease, lost, i, <<>>)
    BY PendingEmpty
  <2> QED
    BY <1>1, <1>4, <2>1, <2>2
<1>7. Typed'
  BY <1>1, <1>2, <1>3, <1>4 DEF IInv, Typed
<1> QED
  BY <1>1, <1>5, <1>6, <1>7 DEF IInv

\* Tick keeps the invariant: no call is under way.
LEMMA TickKeeps ==
    ASSUME IInv, Tick
    PROVE  IInv'
<1>1. /\ LockFree /\ lease' = [x \in Ids |-> IF lease[x] > 0 THEN lease[x] - 1 ELSE 0]
      /\ log' = log /\ torn' = torn /\ view' = view /\ ptr' = ptr /\ holder' = holder
      /\ todo' = todo /\ fence' = fence /\ lost' = lost /\ alive' = alive
  BY DEF Tick
<1>2. \A j \in Instances : todo[j] = <<>>
  BY <1>1 DEF LockFree, IInv, Locked
<1>3. lease' \in [Ids -> 0 .. Ttl]
  BY <1>1, StoreAssumption DEF IInv, Typed
<1>4. Typed'
  BY <1>1, <1>3 DEF IInv, Typed
<1>5. Locked'
  BY <1>1 DEF IInv, Locked
<1>6. \A j \in Instances : Pending(log', lease', lost', j, todo'[j])
  BY <1>1, <1>2, PendingEmpty
<1> QED
  BY <1>1, <1>4, <1>5, <1>6 DEF IInv

\* The item as it starts: no file.
LEMMA InitIInv ==
    ASSUME Init
    PROVE  IInv
<1>1. /\ log = [x \in Ids |-> <<>>] /\ torn = {} /\ view = [x \in Ids |-> NoView]
      /\ ptr = [open |-> NoId, executions |-> <<>>] /\ lease = [x \in Ids |-> 0]
      /\ holder = None /\ todo = [i \in Instances |-> <<>>]
      /\ fence = [x \in Ids |-> [i \in Instances |-> 0]] /\ lost = [x \in Ids |-> {}]
      /\ alive = Instances
  BY DEF Init
<1>2. JournalsOf(log) = {} /\ LiveOf(log) = {} /\ \A x \in Ids : log[x] = <<>>
  BY <1>1 DEF JournalsOf, LiveOf
<1>3. Typed
  <2>1. log \in [Ids -> Seq(Rows)] /\ todo \in [Instances -> Seq(Writes)]
        /\ ptr \in [open : Ids \cup {NoId}, executions : Seq(Ids)]
    BY <1>1
  <2>2. lease \in [Ids -> 0 .. Ttl]
    BY <1>1, StoreAssumption
  <2>3. view \in [Ids -> Record \cup {NoView}] /\ lost \in [Ids -> SUBSET Instances]
        /\ fence \in [Ids -> [Instances -> Nat]]
    BY <1>1
  <2> QED
    BY <1>1, <2>1, <2>2, <2>3 DEF Typed
<1>4. Replayable(log)
  BY <1>2, OpenedSound DEF Replayable, Rebuilt
<1>5. Numbered(log)
  BY <1>2, FS_EmptySet DEF Numbered
<1>6. Listed(log, ptr.executions)
  BY <1>1 DEF Listed
<1>7. Answered(log, fence, lost)
  BY <1>1 DEF Answered
<1>8. Locked /\ \A i \in Instances : Pending(log, lease, lost, i, todo[i])
  BY <1>1, PendingEmpty DEF Locked
<1> QED
  BY <1>3, <1>4, <1>5, <1>6, <1>7, <1>8 DEF IInv

\* Every step keeps the invariant.
LEMMA NextIInv ==
    ASSUME IInv, [Next]_vars
    PROVE  IInv'
<1>1. ASSUME NEW i \in Instances, Call(i) PROVE IInv'
  <2>1. i \in alive /\ LockFree
    BY <1>1 DEF Call
  <2>2. ASSUME NEW f \in Factories, Reopen(i, f) \/ OpenNew(i, f) PROVE IInv'
    BY <2>1, <2>2, ReopenKeeps, OpenNewKeeps
  <2>3. ASSUME NEW x \in Ids, NEW takeover \in Takeovers, Claim(i, x, takeover) PROVE IInv'
    BY <2>1, <2>3, ClaimKeeps
  <2>4. ASSUME NEW x \in Ids, Renew(i, x) PROVE IInv'
    BY <2>1, <2>4, RenewKeeps
  <2>5. ASSUME NEW x \in Ids, Release(i, x) \/ ForceRelease(i, x) PROVE IInv'
    BY <2>1, <2>5, ReleaseKeeps, ForceReleaseKeeps
  <2>6. ASSUME NEW x \in Ids, NEW e \in EventsSent, Report(i, x, e) PROVE IInv'
    BY <2>1, <2>6, ReportKeeps
  <2>7. ASSUME NEW x \in Ids, Refused(i, x) PROVE IInv'
    BY <2>1, <2>7, RefusedKeeps
  <2> QED
    BY <1>1, <2>2, <2>3, <2>4, <2>5, <2>6, <2>7 DEF Call
<1>2. ASSUME UNCHANGED vars PROVE IInv'
  BY <1>2 DEF vars, IInv, Typed, Locked
<1> QED
  BY <1>1, <1>2, WriteKeeps, ReturnKeeps, FailKeeps, CrashKeeps, TickKeeps DEF Next

\* The invariant holds throughout.
THEOREM Invariance == Spec => []IInv
  BY InitIInv, NextIInv, PTL DEF Spec

-----------------------------------------------------------------------------
(* The theorems.                                                           *)

\* Every journal replays, whatever crash, failed write, takeover or late event
\* came between two rows: rebuildFromEvents never meets a row it refuses.
THEOREM JournalsReplay == Spec => []LogReplays
<1>1. IInv => LogReplays
  BY Names DEF IInv, Replayable, Sound, LogReplays, JournalsOf
<1> QED
  BY <1>1, Invariance, PTL

\* An item never has two unfinished executions, nor two with one attempt
\* number, so open never refuses the item for good and never mints an id again.
THEOREM OneLiveExecution == Spec => []OneLive
<1>1. IInv => OneLive
  <2> SUFFICES ASSUME IInv PROVE OneLive
    OBVIOUS
  <2>1. Numbered(log)
    BY DEF IInv
  <2>2. \A x, y \in Journals : x.attempt = y.attempt => x = y
    BY <2>1, Names DEF Numbered
  <2>3. Cardinality(Live) <= 1
    <3>1. CASE LiveOf(log) = {}
      BY <3>1, Names, FS_EmptySet
    <3>2. CASE LiveOf(log) # {}
      <4>1. PICK x : LiveOf(log) = {x}
        BY <2>1, <3>2 DEF Numbered
      <4>2. Cardinality({x}) = 1
        BY FS_Singleton
      <4> QED
        BY <4>1, <4>2, Names
    <3> QED
      BY <3>1, <3>2
  <2> QED
    BY <2>2, <2>3 DEF OneLive
<1> QED
  BY <1>1, Invariance, PTL

\* The types of the store's files and of what the processes know, the bound of
\* the fences handed out included.
THEOREM StoreTypes == Spec => []TypeOK
<1>1. IInv => TypeOK
  <2> SUFFICES ASSUME IInv PROVE TypeOK
    OBVIOUS
  <2>1. Typed
    BY DEF IInv
  <2>2. ASSUME NEW x \in Ids, NEW i \in Instances PROVE fence[x][i] \in 0 .. MaxRows
    <3>1. fence[x][i] \in Nat
      BY <2>1 DEF Typed
    <3>2. CASE fence[x][i] = 0
      BY <3>2, StoreAssumption
    <3>3. CASE fence[x][i] > 0
      <4>1. Given(log[x], [inst |-> i, fence |-> fence[x][i]])
        BY <3>3 DEF IInv, Answered
      <4>2. PICK k \in DOMAIN log[x] :
              IsGrant(log[x][k]) /\ log[x][k].owner = [inst |-> i, fence |-> fence[x][i]]
        BY <4>1 DEF Given
      <4>3. log[x][k].owner.fence \in 1 .. MaxRows
        BY <4>2 DEF IInv, Replayable, Sound, GrantsBelow
      <4> QED
        BY <4>2, <4>3, StoreAssumption
    <3> QED
      BY <3>1, <3>2, <3>3
  <2>3. \A x \in Ids : fence[x] \in [Instances -> 0 .. MaxRows] /\ lost[x] \subseteq Instances
    BY <2>1, <2>2 DEF Typed
  <2> QED
    BY <2>1, <2>3 DEF TypeOK, Typed
<1> QED
  BY <1>1, Invariance, PTL

-----------------------------------------------------------------------------
(* What each row makes of the record.                                      *)

\* A claim: the record with its new owner.
ClaimedBy(st, i, row) ==
    \E t \in BOOLEAN, f \in Nat :
        /\ f = ClaimFence(st.rec, i, t) /\ f <= MaxRows
        /\ row.type = "ownership.changed"
        /\ row.owner = [inst |-> i, fence |-> f] /\ row.owner # NoOwner
        /\ ReplayRow(st, row).rec = Own(st.rec, i, f)
        /\ ReplayRow(st, row).seen = st.seen

\* A claim row makes it.
LEMMA ClaimMade ==
    ASSUME NEW rows \in Seq(Rows), NEW st, Sound(st, rows), NEW i \in Instances,
           NEW leased, NEW row, Claims(st, i, row, leased)
    PROVE  ClaimedBy(st, i, row)
<1>1. PICK t \in BOOLEAN :
        /\ ClaimFence(st.rec, i, t) <= MaxRows
        /\ row = OwnerRow(st.seq, [inst |-> i, fence |-> ClaimFence(st.rec, i, t)], FALSE)
  BY DEF Claims
<1>2. PICK f : f = ClaimFence(st.rec, i, t)
  OBVIOUS
<1> DEFINE o == [inst |-> i, fence |-> f]
<1>3. Claimable(st.rec, i, leased)
  BY DEF Claims
<1>4. o \in Owners
  BY <1>1, <1>2, <1>3, ClaimTransfers
<1>5. f \in Nat /\ o.inst = i
  BY <1>4 DEF Owners
<1>6. o # NoOwner
  BY <1>5, ExecutionAssumption DEF NoOwner
<1> HIDE DEF o
<1>7. row = OwnerRow(st.seq, o, FALSE)
  BY <1>1, <1>2 DEF o
<1>8. Handed(st, o, FALSE, ReplayRow(st, row))
  BY <1>4, <1>7, OwnerReplayed DEF Sound
<1>9. ReplayRow(st, row).rec = [st.rec EXCEPT !.owner = o] /\ ReplayRow(st, row).seen = st.seen
  BY <1>8 DEF Handed
<1>10. ReplayRow(st, row).rec = Own(st.rec, i, f)
  BY <1>9 DEF Own, o
<1>11. row.type = "ownership.changed" /\ row.owner = o
  BY <1>7 DEF OwnerRow
<1> QED
  BY <1>1, <1>2, <1>5, <1>6, <1>9, <1>10, <1>11 DEF o, ClaimedBy

\* A renewal: the record as it was.
LEMMA RenewMade ==
    ASSUME NEW rows \in Seq(Rows), NEW st, Sound(st, rows), NEW i \in Instances,
           NEW leased, NEW row, Renews(st, i, row, leased)
    PROVE  /\ row.type = "ownership.changed" /\ row.owner = st.rec.owner
           /\ st.rec.owner.inst = i /\ st.rec.owner # NoOwner
           /\ ReplayRow(st, row).rec = st.rec
           /\ ReplayRow(st, row).seen = st.seen
<1> DEFINE o == st.rec.owner
<1>1. row = OwnerRow(st.seq, o, FALSE) /\ o.inst = i
  BY DEF Renews
<1>2. o # NoOwner
  BY <1>1, ExecutionAssumption DEF NoOwner
<1>3. o \in Owners /\ st \in States /\ st.ok /\ st.rec \in Record
  BY DEF Sound, States, Record, Owners
<1>4. Handed(st, o, FALSE, ReplayRow(st, row))
  BY <1>1, <1>3, OwnerReplayed
<1>5. ReplayRow(st, row).rec = [st.rec EXCEPT !.owner = st.rec.owner]
      /\ ReplayRow(st, row).seen = st.seen
  BY <1>4 DEF Handed
<1>6. [st.rec EXCEPT !.owner = st.rec.owner] = st.rec
  BY <1>3 DEF Record
<1>7. row.type = "ownership.changed" /\ row.owner = o
  BY <1>1 DEF OwnerRow
<1> QED
  BY <1>1, <1>2, <1>5, <1>6, <1>7

\* A release: nobody's, and terminal.
LEMMA ReleaseMade ==
    ASSUME NEW st \in States, st.ok, NEW row, Releases(st, row)
    PROVE  /\ row.type = "ownership.changed" /\ row.owner = NoOwner
           /\ ReplayRow(st, row).rec = Released(st.rec)
           /\ ReplayRow(st, row).seen = st.seen
<1>1. row = OwnerRow(st.seq, NoOwner, TRUE)
  BY DEF Releases
<1>2. NoOwner \in Owners
  BY DEF NoOwner, Owners
<1>3. Handed(st, NoOwner, TRUE, ReplayRow(st, row))
  BY <1>1, <1>2, OwnerReplayed
<1>4. row.type = "ownership.changed" /\ row.owner = NoOwner
  BY <1>1 DEF OwnerRow
<1> QED
  BY <1>3, <1>4 DEF Handed, Released

\* A report: the event's effect, under its key.
LEMMA ReportMade ==
    ASSUME NEW st \in States, st.ok, NEW i, NEW leased, NEW row, Reports(st, i, row, leased)
    PROVE  \E e \in EventsSent :
              /\ derivedEventKey(e) \notin st.seen
              /\ st.rec.owner.inst = i
              /\ Accepts(st.rec, e, st.rec.owner.fence, leased)
              /\ row.type = "event"
              /\ ReplayRow(st, row).rec = Effect(st.rec, e)
              /\ ReplayRow(st, row).rec.owner = st.rec.owner
              /\ ReplayRow(st, row).seen = st.seen \cup {derivedEventKey(e)}
<1>1. PICK e \in EventsSent :
        /\ derivedEventKey(e) \notin st.seen
        /\ st.rec.owner.inst = i
        /\ Accepts(st.rec, e, st.rec.owner.fence, leased)
        /\ row = EventRow(st.seq + 1, e, st.rec.owner.fence)
  BY DEF Reports
<1>2. PICK f \in Nat : f = st.rec.owner.fence
  BY DEF States, Record
<1>3. row = EventRow(st.seq + 1, e, f) /\ Accepts(st.rec, e, f, leased)
  BY <1>1, <1>2
<1>4. /\ ReplayRow(st, row).rec = Effect(st.rec, e)
      /\ ReplayRow(st, row).seen = st.seen \cup {derivedEventKey(e)}
      /\ Effect(st.rec, e).owner = st.rec.owner
  BY <1>1, <1>3, EventReplayed
<1>5. row.type = "event"
  BY <1>3 DEF EventRow
<1> QED
  BY <1>1, <1>4, <1>5

-----------------------------------------------------------------------------
(* The steps of one execution.                                             *)

\* The row of a step that moves the log of x: i continues it, or opens it.
Appends(x, i, row) ==
    /\ i \in Instances /\ i \in alive /\ alive' = alive
    /\ row \in Rows
    /\ log'[x] = Append(log[x], row)
    /\ lease' = Leased(x, row)
    /\ \/ log[x] = <<>> /\ row = OpenedRow
       \/ Continues(log, lease, lost, i, AppendLog(x, row))

\* A call that takes the lock moves no log, no lease and no process.
LEMMA CallStays ==
    ASSUME NEW i \in Instances, Call(i)
    PROVE  log' = log /\ lease' = lease /\ alive' = alive
<1>1. ASSUME NEW t, Transact(i, t) PROVE log' = log /\ lease' = lease /\ alive' = alive
  BY <1>1 DEF Transact
<1>2. ASSUME NEW f \in Factories, Reopen(i, f) \/ OpenNew(i, f) PROVE \E t : Transact(i, t)
  BY <1>2 DEF Reopen, OpenNew
<1>3. ASSUME NEW x \in Ids, NEW takeover \in Takeovers, Claim(i, x, takeover)
      PROVE  \E t : Transact(i, t)
  BY <1>3 DEF Claim
<1>4. ASSUME NEW x \in Ids, Renew(i, x) \/ Release(i, x) \/ ForceRelease(i, x)
      PROVE  \E t : Transact(i, t)
  BY <1>4 DEF Renew, Release, ForceRelease
<1>5. ASSUME NEW x \in Ids, NEW e \in EventsSent, Report(i, x, e) PROVE \E t : Transact(i, t)
  BY <1>5 DEF Report
<1>6. ASSUME NEW x \in Ids, Refused(i, x) PROVE log' = log /\ lease' = lease /\ alive' = alive
  BY <1>6 DEF Refused
<1> QED
  BY <1>1, <1>2, <1>3, <1>4, <1>5, <1>6 DEF Call

\* Only a write of a row moves a log, and only its own.
LEMMA LogMoves ==
    ASSUME IInv, [Next]_vars, NEW x \in Ids, log'[x] # log[x]
    PROVE  \E i \in Instances : \E row \in Rows : Appends(x, i, row)
<1>1. PICK i \in Instances : Write(i)
  <2>1. ASSUME NEW i \in Instances, Return(i) \/ Fail(i) \/ Crash(i) PROVE log' = log
    BY <2>1 DEF Return, Fail, Crash
  <2>2. ASSUME Tick \/ UNCHANGED vars PROVE log' = log
    BY <2>2 DEF Tick, vars
  <2> QED
    BY <2>1, <2>2, CallStays DEF Next
<1>2. PICK w : w = Head(todo[i])
  OBVIOUS
<1>3. w.to = "log"
  BY <1>1, <1>2 DEF Write
<1>4. /\ w \in Writes /\ w.id \in Ids /\ w.row \in Rows
      /\ log \in [Ids -> Seq(Rows)]
      /\ log' = Grown(log, w.id, w.row)
      /\ lease' = Leased(w.id, w.row)
  BY <1>1, <1>2, <1>3, WriteRow
<1>5. w.id = x /\ log'[x] = Append(log[x], w.row)
  <2>1. CASE w.id # x
    <3>1. Grown(log, w.id, w.row)[x] = log[x]
      BY <1>4, <2>1, GrownLogs
    <3> QED
      BY <1>4, <3>1
  <2>2. CASE w.id = x
    <3>1. Grown(log, x, w.row)[x] = Append(log[x], w.row)
      BY <1>4, GrownLogs
    <3> QED
      BY <1>4, <2>2, <3>1
  <2> QED
    BY <2>1, <2>2
<1>6. Busy(i) /\ alive' = alive
  BY <1>1, WriteQueues
<1>7. /\ i \in alive /\ todo[i] \in Seq(Writes) /\ todo[i] # <<>>
      /\ LogsFit(log, lease, lost, i, todo[i])
  BY <1>6, Underway DEF Pending
<1>8. w = AppendLog(x, w.row)
  BY <1>3, <1>4, <1>5 DEF Writes, AppendLog
<1>9. Continues(log, lease, lost, i, w) \/ Begins(log, i, w, Tail(todo[i])[1])
  BY <1>2, <1>3, <1>7, LogsHead
<1>10. CASE Continues(log, lease, lost, i, w)
  <2>1. Continues(log, lease, lost, i, AppendLog(x, w.row))
    BY <1>8, <1>10
  <2> QED
    BY <1>4, <1>5, <1>6, <1>7, <2>1 DEF Appends
<1>11. CASE Begins(log, i, w, Tail(todo[i])[1])
  <2>1. PICK y \in Ids : w = AppendLog(y, OpenedRow) /\ y \notin JournalsOf(log)
    BY <1>11 DEF Begins
  <2>2. y = x /\ w.row = OpenedRow
    BY <1>5, <2>1 DEF AppendLog
  <2>3. log[x] = <<>>
    BY <2>1, <2>2 DEF JournalsOf
  <2> QED
    BY <1>4, <1>5, <1>6, <1>7, <2>2, <2>3 DEF Appends
<1> QED
  BY <1>9, <1>10, <1>11

\* The record before and after a row that continues the log.
LEMMA RowMoves ==
    ASSUME IInv, NEW x \in Ids, NEW i, NEW row \in Rows, Appends(x, i, row),
           Continues(log, lease, lost, i, AppendLog(x, row))
    PROVE  /\ log[x] \in Seq(Rows) /\ log[x] # <<>>
           /\ Sound(State(x), log[x]) /\ State(x) \in States /\ State(x).ok
           /\ readRecord(x) = State(x).rec /\ readRecord(x)' = ReplayRow(State(x), row).rec
           /\ State(x)' = ReplayRow(State(x), row)
           /\ \/ Claims(State(x), i, row, lease[x] > 0) /\ i \notin lost[x]
              \/ Renews(State(x), i, row, lease[x] > 0)
              \/ Releases(State(x), row)
              \/ Reports(State(x), i, row, lease[x] > 0)
<1>1. PICK w : w = AppendLog(x, row)
  OBVIOUS
<1>2. w.id = x /\ w.row = row /\ Continues(log, lease, lost, i, w)
  BY <1>1 DEF AppendLog
<1>3. x \in JournalsOf(log)
  BY <1>2 DEF Continues
<1>4. /\ log[x] \in Seq(Rows) /\ log[x] # <<>> /\ State(x) = Rebuilt(log, x)
      /\ Sound(State(x), log[x]) /\ State(x) \in States /\ State(x).ok
  BY <1>3, Journaled DEF Sound
<1>5. \/ Claims(State(x), i, row, lease[x] > 0) /\ i \notin lost[x]
      \/ Renews(State(x), i, row, lease[x] > 0)
      \/ Releases(State(x), row)
      \/ Reports(State(x), i, row, lease[x] > 0)
  BY <1>2, <1>4 DEF Continues
<1>6. rebuildFromEvents(Append(log[x], row)) = ReplayRow(rebuildFromEvents(log[x]), row)
  BY <1>4, RebuildAppend
<1>7. State(x) = rebuildFromEvents(log[x]) /\ State(x)' = rebuildFromEvents(log'[x])
  BY DEF State
<1>8. log'[x] = Append(log[x], row)
  BY DEF Appends
<1>9. State(x)' = ReplayRow(State(x), row)
  BY <1>6, <1>7, <1>8
<1>10. readRecord(x) = State(x).rec /\ readRecord(x)' = State(x)'.rec
  BY DEF readRecord
<1> QED
  BY <1>4, <1>5, <1>9, <1>10

\* No door hands an execution back to a process that was told it lost it.
THEOREM LostForGood == Spec => LostStaysOut
<1>1. ASSUME IInv, [Next]_vars, NEW x \in Ids, log'[x] # log[x], lost[x] # {},
             Owner(x)'.inst \in lost[x]
      PROVE  Owner(x)' = Owner(x)
  <2>1. PICK i \in Instances, row \in Rows : Appends(x, i, row)
    BY <1>1, LogMoves
  <2>2. log[x] # <<>>
    BY <1>1 DEF IInv, Answered, JournalsOf
  <2>3. Continues(log, lease, lost, i, AppendLog(x, row))
    BY <2>1, <2>2 DEF Appends
  <2>4. /\ log[x] \in Seq(Rows)
        /\ Sound(State(x), log[x]) /\ State(x) \in States /\ State(x).ok
        /\ readRecord(x) = State(x).rec /\ readRecord(x)' = ReplayRow(State(x), row).rec
        /\ \/ Claims(State(x), i, row, lease[x] > 0) /\ i \notin lost[x]
           \/ Renews(State(x), i, row, lease[x] > 0)
           \/ Releases(State(x), row)
           \/ Reports(State(x), i, row, lease[x] > 0)
    BY <1>1, <2>1, <2>3, RowMoves
  <2>5. Owner(x) = readRecord(x).owner /\ Owner(x)' = readRecord(x)'.owner
    BY DEF Owner
  <2>6. CASE Claims(State(x), i, row, lease[x] > 0) /\ i \notin lost[x]
    <3>0. ClaimedBy(State(x), i, row)
      BY <2>4, <2>6, ClaimMade
    <3>1. PICK t \in BOOLEAN, f \in Nat :
            /\ f = ClaimFence(State(x).rec, i, t) /\ f <= MaxRows
            /\ row.type = "ownership.changed"
            /\ row.owner = [inst |-> i, fence |-> f] /\ row.owner # NoOwner
            /\ ReplayRow(State(x), row).rec = Own(State(x).rec, i, f)
            /\ ReplayRow(State(x), row).seen = State(x).seen
      BY <3>0 DEF ClaimedBy
    <3>2. Own(State(x).rec, i, f).owner.inst = i
      BY <2>4 DEF Own, States, Record
    <3> QED
      BY <1>1, <2>4, <2>5, <2>6, <3>1, <3>2
  <2>7. CASE Renews(State(x), i, row, lease[x] > 0)
    BY <2>4, <2>5, <2>7, RenewMade
  <2>8. CASE Releases(State(x), row)
    <3>1. ReplayRow(State(x), row).rec = Released(State(x).rec)
      BY <2>4, <2>8, ReleaseMade
    <3>2. Released(State(x).rec).owner.inst = None
      BY <2>4 DEF Released, NoOwner, States, Record
    <3>3. None \notin lost[x]
      BY <1>1, ExecutionAssumption DEF IInv, Typed
    <3> QED
      BY <1>1, <2>4, <2>5, <3>1, <3>2, <3>3
  <2>9. CASE Reports(State(x), i, row, lease[x] > 0)
    <3>1. ReplayRow(State(x), row).rec.owner = State(x).rec.owner
      BY <2>4, <2>9, ReportMade
    <3> QED
      BY <2>4, <2>5, <3>1
  <2> QED
    BY <2>4, <2>6, <2>7, <2>8, <2>9
<1>2. ASSUME IInv, [Next]_vars
      PROVE  \A x \in Ids : \/ UNCHANGED log[x]
                            \/ lost[x] = {}
                            \/ Owner(x)'.inst \in lost[x] => Owner(x)' = Owner(x)
  BY <1>1, <1>2
<1> QED
  BY <1>2, Invariance, PTL DEF Spec, LostStaysOut

-----------------------------------------------------------------------------
(* Each row is a step of the record.                                       *)

\* The fence last granted, as the lemmas name it.
LEMMA GrantedNames ==
    \A x, i : Granted(x, i) = GrantedBy(log[x], i) /\ Granted(x, i)' = GrantedBy(log'[x], i)
<1>1. \A x, i : Granted(x, i) = GrantedBy(log[x], i)
  BY DEF Granted, GrantedBy, Grants
<1>2. \A x, i : Granted(x, i)' = GrantedBy(log'[x], i)
  BY DEF Granted, GrantedBy, Grants
<1> QED
  BY <1>1, <1>2

\* A claim row is the record's claim.
LEMMA AbstractClaims ==
    ASSUME NEW x \in Ids, NEW i \in Instances, NEW t \in BOOLEAN, NEW r, NEW f,
           r = readRecord(x), i \in alive, alive' = alive,
           Claimable(r, i, lease[x] > 0), f = ClaimFence(r, i, t), f <= MaxRows,
           readRecord(x)' = Own(r, i, f), State(x)'.seen = State(x).seen, lease'[x] = Ttl,
           \A j \in Instances : Granted(x, j)' = IF j = i THEN f ELSE Granted(x, j)
    PROVE  Abstract(x)!Next
<1>1. [j \in Instances |-> Granted(x, j)'] = [[j \in Instances |-> Granted(x, j)] EXCEPT ![i] = f]
  OBVIOUS
<1>2. Abstract(x)!Claim(i, t)
  BY <1>1 DEF Abstract!Claim, Abstract!Claimable, Abstract!ClaimFence, Abstract!Own,
              Abstract!isTerminal, Abstract!SameOwner, Abstract!NoOwner,
              Claimable, ClaimFence, Own, isTerminal, SameOwner, NoOwner
<1> QED
  BY <1>2 DEF Abstract!Next

\* A renewal row is the record's renewal.
LEMMA AbstractRenews ==
    ASSUME NEW x \in Ids, NEW i \in Instances, NEW r,
           r = readRecord(x), i \in alive, alive' = alive,
           lease[x] > 0, r.owner # NoOwner, r.owner.fence = Granted(x, i), r.owner.inst = i,
           readRecord(x)' = r, State(x)'.seen = State(x).seen, lease'[x] = Ttl,
           \A j \in Instances : Granted(x, j)' = Granted(x, j)
    PROVE  Abstract(x)!Next
<1>1. [j \in Instances |-> Granted(x, j)'] = [j \in Instances |-> Granted(x, j)]
  OBVIOUS
<1>2. Abstract(x)!Renew(i)
  BY <1>1 DEF Abstract!Renew, Abstract!ownershipLive, Abstract!ownershipFence,
              Abstract!SameOwner, Abstract!NoOwner, NoOwner
<1> QED
  BY <1>2 DEF Abstract!Next

\* A release row is the record's release by a person, or by its owner.
LEMMA AbstractReleases ==
    ASSUME NEW x \in Ids, NEW r,
           r = readRecord(x), alive' = alive, ~isTerminal(r),
           readRecord(x)' = Released(r), State(x)'.seen = State(x).seen, lease'[x] = 0,
           \A j \in Instances : Granted(x, j)' = Granted(x, j)
    PROVE  Abstract(x)!Next
<1>1. [j \in Instances |-> Granted(x, j)'] = [j \in Instances |-> Granted(x, j)]
  OBVIOUS
<1>2. Abstract(x)!ForceRelease
  BY <1>1 DEF Abstract!ForceRelease, Abstract!isTerminal, Abstract!Released, Abstract!NoOwner,
              isTerminal, Released, NoOwner
<1> QED
  BY <1>2 DEF Abstract!Next

\* The record's operators are the store's.
LEMMA AbstractOperators ==
    ASSUME NEW x, NEW r, NEW e, NEW f, NEW leased
    PROVE  /\ Abstract(x)!EventsSent = EventsSent
           /\ Abstract(x)!derivedEventKey(e) = derivedEventKey(e)
           /\ Abstract(x)!Effect(r, e) = Effect(r, e)
           /\ Abstract(x)!Accepts(r, e, f, leased) <=> Accepts(r, e, f, leased)
<1>1. Abstract(x)!EventsSent = EventsSent
  BY Zenon DEF Abstract!EventsSent, Abstract!Events, Abstract!GateStates, Abstract!IntegrationStates,
         EventsSent, Events, GateStates, IntegrationStates
<1>2. Abstract(x)!derivedEventKey(e) = derivedEventKey(e)
  BY Zenon DEF Abstract!derivedEventKey, derivedEventKey
<1>3. Abstract(x)!Effect(r, e) = Effect(r, e)
  BY Zenon DEF Abstract!Effect, Abstract!Pinned, Abstract!Published, Abstract!HasCandidate, Abstract!Tip,
         Effect, Pinned, Published, HasCandidate, Tip
<1>4. Abstract(x)!Accepts(r, e, f, leased) <=> Accepts(r, e, f, leased)
  BY Zenon DEF Abstract!Accepts, Abstract!isTerminal, Abstract!ownershipLive, Abstract!ownershipFence,
         Abstract!NoOwner, Abstract!Admits, Abstract!PinAdmitted, Abstract!HasCandidate, Abstract!Tip,
         Abstract!OnChain, Abstract!candidatePublished, Abstract!boundaryReachedForGates,
         Abstract!boundaryReached, Abstract!gateAccepted,
         Accepts, isTerminal, ownershipLive, ownershipFence, NoOwner, Admits, PinAdmitted,
         HasCandidate, Tip, OnChain, candidatePublished, boundaryReachedForGates,
         boundaryReached, gateAccepted
<1> QED
  BY <1>1, <1>2, <1>3, <1>4

\* An event row is the record's report.
LEMMA AbstractReports ==
    ASSUME NEW x \in Ids, NEW i \in Instances, NEW e \in EventsSent, NEW r,
           r = readRecord(x), i \in alive, alive' = alive,
           derivedEventKey(e) \notin State(x).seen, r.owner.inst = i,
           r.owner.fence = Granted(x, i),
           Accepts(r, e, r.owner.fence, lease[x] > 0),
           readRecord(x)' = Effect(r, e),
           State(x)'.seen = State(x).seen \cup {derivedEventKey(e)}, lease'[x] = lease[x],
           \A j \in Instances : Granted(x, j)' = Granted(x, j)
    PROVE  Abstract(x)!Next
<1>1. [j \in Instances |-> Granted(x, j)'] = [j \in Instances |-> Granted(x, j)]
      /\ [j \in Instances |-> Granted(x, j)][i] = r.owner.fence
  OBVIOUS
<1>2. /\ Abstract(x)!EventsSent = EventsSent
      /\ Abstract(x)!derivedEventKey(e) = derivedEventKey(e)
      /\ Abstract(x)!Effect(r, e) = Effect(r, e)
      /\ Abstract(x)!Accepts(r, e, r.owner.fence, lease[x] > 0)
  BY AbstractOperators
<1>3. Abstract(x)!SameOwner(r, i)
  BY DEF Abstract!SameOwner, Abstract!NoOwner, Accepts, ownershipLive, ownershipFence, NoOwner
<1>4. Abstract(x)!Report(i, e)
  BY <1>1, <1>2, <1>3 DEF Abstract!Report
<1> QED
  BY <1>2, <1>4 DEF Abstract!Next

\* A row that continues the log of x is a step of its record.
LEMMA RowRefines ==
    ASSUME IInv, NEW x \in Ids, NEW i \in Instances, NEW row \in Rows, Appends(x, i, row),
           Continues(log, lease, lost, i, AppendLog(x, row))
    PROVE  Abstract(x)!Next
<1>1. /\ log[x] \in Seq(Rows) /\ log[x] # <<>>
      /\ Sound(State(x), log[x]) /\ State(x) \in States /\ State(x).ok
      /\ readRecord(x) = State(x).rec /\ readRecord(x)' = ReplayRow(State(x), row).rec
      /\ State(x)' = ReplayRow(State(x), row)
      /\ \/ Claims(State(x), i, row, lease[x] > 0) /\ i \notin lost[x]
         \/ Renews(State(x), i, row, lease[x] > 0)
         \/ Releases(State(x), row)
         \/ Reports(State(x), i, row, lease[x] > 0)
  BY RowMoves
<1>2. /\ i \in alive /\ alive' = alive /\ log'[x] = Append(log[x], row)
      /\ lease' = Leased(x, row) /\ lease \in [Ids -> 0 .. Ttl]
  BY DEF Appends, IInv, Typed
<1>3. PICK st : st = State(x)
  OBVIOUS
<1>4. PICK r : r = readRecord(x)
  OBVIOUS
<1>5. \A j \in Instances : Granted(x, j)' = IF row.type = "ownership.changed" /\ row.owner.inst = j
                                            THEN row.owner.fence ELSE Granted(x, j)
  <2> SUFFICES ASSUME NEW j \in Instances
               PROVE  Granted(x, j)' = IF row.type = "ownership.changed" /\ row.owner.inst = j
                                       THEN row.owner.fence ELSE Granted(x, j)
    OBVIOUS
  <2>1. Granted(x, j) = GrantedBy(log[x], j) /\ Granted(x, j)' = GrantedBy(log'[x], j)
    BY GrantedNames
  <2>2. GrantedBy(Append(log[x], row), j)
          = IF row.type = "ownership.changed" /\ row.owner.inst = j
            THEN row.owner.fence ELSE GrantedBy(log[x], j)
    BY <1>1, GrantedAppended
  <2> QED
    BY <1>2, <2>1, <2>2
<1>6. r = st.rec /\ r \in Record
  BY <1>1, <1>3, <1>4 DEF States
<1>7. r.owner # NoOwner => Granted(x, r.owner.inst) = r.owner.fence /\ r.owner.inst \in Instances
  <2> SUFFICES ASSUME r.owner # NoOwner
               PROVE  Granted(x, r.owner.inst) = r.owner.fence /\ r.owner.inst \in Instances
    OBVIOUS
  <2>1. GrantedBy(log[x], r.owner.inst) = r.owner.fence /\ r.owner.inst \in Instances
    BY <1>1, <1>3, <1>6, OwnerKnown
  <2> QED
    BY <2>1, GrantedNames
<1>8. CASE Claims(st, i, row, lease[x] > 0)
  <2>0. ClaimedBy(st, i, row)
    BY <1>1, <1>3, <1>8, ClaimMade
  <2>1. PICK t \in BOOLEAN, f \in Nat :
          /\ f = ClaimFence(st.rec, i, t) /\ f <= MaxRows
          /\ row.type = "ownership.changed"
          /\ row.owner = [inst |-> i, fence |-> f] /\ row.owner # NoOwner
          /\ ReplayRow(st, row).rec = Own(st.rec, i, f)
          /\ ReplayRow(st, row).seen = st.seen
    BY <2>0 DEF ClaimedBy
  <2>2. Claimable(r, i, lease[x] > 0)
    BY <1>6, <1>8 DEF Claims
  <2>3. lease'[x] = Ttl
    BY <1>2, <2>1 DEF Leased
  <2>4. \A j \in Instances : Granted(x, j)' = IF j = i THEN f ELSE Granted(x, j)
    BY <1>5, <2>1
  <2>5. readRecord(x)' = Own(r, i, f) /\ State(x)'.seen = State(x).seen /\ f = ClaimFence(r, i, t)
    BY <1>1, <1>3, <1>6, <2>1
  <2> QED
    BY <1>2, <1>4, <2>1, <2>2, <2>3, <2>4, <2>5, AbstractClaims
<1>9. CASE Renews(st, i, row, lease[x] > 0)
  <2>1. /\ row.type = "ownership.changed" /\ row.owner = r.owner
        /\ r.owner.inst = i /\ r.owner # NoOwner
        /\ ReplayRow(st, row).rec = r /\ ReplayRow(st, row).seen = st.seen
    BY <1>1, <1>3, <1>6, <1>9, RenewMade
  <2>2. lease'[x] = Ttl /\ lease[x] > 0
    BY <1>2, <1>9, <2>1 DEF Leased, Renews
  <2>3. Granted(x, i) = r.owner.fence
    BY <1>7, <2>1
  <2>4. \A j \in Instances : Granted(x, j)' = Granted(x, j)
    BY <1>5, <2>1, <2>3
  <2>5. readRecord(x)' = r /\ State(x)'.seen = State(x).seen
    BY <1>1, <1>3, <2>1
  <2> QED
    BY <1>2, <1>4, <2>1, <2>2, <2>3, <2>4, <2>5, AbstractRenews
<1>10. CASE Releases(st, row)
  <2>1. /\ row.type = "ownership.changed" /\ row.owner = NoOwner
        /\ ReplayRow(st, row).rec = Released(r) /\ ReplayRow(st, row).seen = st.seen
    BY <1>1, <1>3, <1>6, <1>10, ReleaseMade
  <2>2. ~isTerminal(r)
    BY <1>6, <1>10 DEF Releases
  <2>3. lease'[x] = 0
    BY <1>2, <2>1 DEF Leased
  <2>4. \A j \in Instances : Granted(x, j)' = Granted(x, j)
    BY <1>5, <2>1, ExecutionAssumption DEF NoOwner
  <2>5. readRecord(x)' = Released(r) /\ State(x)'.seen = State(x).seen
    BY <1>1, <1>3, <2>1
  <2> QED
    BY <1>2, <1>4, <2>2, <2>3, <2>4, <2>5, AbstractReleases
<1>11. CASE Reports(st, i, row, lease[x] > 0)
  <2>1. PICK e \in EventsSent :
          /\ derivedEventKey(e) \notin st.seen
          /\ st.rec.owner.inst = i
          /\ Accepts(st.rec, e, st.rec.owner.fence, lease[x] > 0)
          /\ row.type = "event"
          /\ ReplayRow(st, row).rec = Effect(st.rec, e)
          /\ ReplayRow(st, row).rec.owner = st.rec.owner
          /\ ReplayRow(st, row).seen = st.seen \cup {derivedEventKey(e)}
    BY <1>1, <1>3, <1>11, ReportMade
  <2>2. r.owner # NoOwner /\ Accepts(r, e, r.owner.fence, lease[x] > 0) /\ r.owner.inst = i
    BY <1>6, <2>1 DEF Accepts, ownershipLive, ownershipFence
  <2>3. lease' = lease
    BY <1>2, <2>1 DEF Leased
  <2>4. \A j \in Instances : Granted(x, j)' = Granted(x, j)
    BY <1>5, <2>1
  <2>5. readRecord(x)' = Effect(r, e) /\ State(x)'.seen = State(x).seen \cup {derivedEventKey(e)}
        /\ derivedEventKey(e) \notin State(x).seen
    BY <1>1, <1>3, <1>6, <2>1
  <2>6. r.owner.fence = Granted(x, i)
    BY <1>7, <2>2
  <2> QED
    BY <1>2, <1>4, <2>2, <2>3, <2>4, <2>5, <2>6, AbstractReports
<1> QED
  BY <1>1, <1>3, <1>8, <1>9, <1>10, <1>11

\* The first row of a log changes nothing of its record.
LEMMA OpenedStutters ==
    ASSUME IInv, NEW x \in Ids, NEW i, Appends(x, i, OpenedRow), log[x] = <<>>
    PROVE  UNCHANGED Abstract(x)!vars
<1>1. log'[x] = <<OpenedRow>> /\ lease' = Leased(x, OpenedRow) /\ alive' = alive
  BY DEF Appends
<1>2. rebuildFromEvents(log'[x]) = Genesis /\ rebuildFromEvents(log[x]) = Genesis
  BY <1>1, OpenedSound
<1>3. State(x)' = State(x)
  BY <1>2 DEF State
<1>4. readRecord(x)' = readRecord(x)
  BY <1>3 DEF readRecord
<1>5. lease' = lease
  BY <1>1 DEF Leased, OpenedRow
<1>6. \A j \in Instances : Granted(x, j)' = Granted(x, j)
  <2>1. <<>> \in Seq(Rows) /\ Append(<<>>, OpenedRow) = <<OpenedRow>> /\ OpenedRow \in Rows
    BY OpenedSound
  <2>2. \A j : GrantedBy(Append(<<>>, OpenedRow), j) = GrantedBy(<<>>, j)
    BY <2>1, GrantedAppended DEF OpenedRow
  <2> QED
    BY <1>1, <2>1, <2>2, GrantedNames
<1>7. [j \in Instances |-> Granted(x, j)'] = [j \in Instances |-> Granted(x, j)]
  BY <1>6
<1>8. State(x)'.seen = State(x).seen /\ lease'[x] = lease[x]
  BY <1>3, <1>5
<1> QED
  BY <1>1, <1>4, <1>7, <1>8 DEF Abstract!vars

\* What a step that leaves the log of x alone leaves of its record.
LEMMA LogUnmoved ==
    ASSUME NEW x, log'[x] = log[x]
    PROVE  /\ readRecord(x)' = readRecord(x) /\ State(x)'.seen = State(x).seen
           /\ [j \in Instances |-> Granted(x, j)'] = [j \in Instances |-> Granted(x, j)]
<1>1. State(x)' = State(x)
  BY DEF State
<1>2. readRecord(x)' = readRecord(x)
  BY <1>1 DEF readRecord
<1>3. \A j : Granted(x, j)' = Granted(x, j)
  BY GrantedNames
<1> QED
  BY <1>1, <1>2, <1>3

\* Where the record of x stands after a step of the store.
Follows(x) ==
    \/ UNCHANGED <<log[x], lease[x], alive>>
    \/ UNCHANGED log[x] /\ (Abstract(x)!Tick \/ \E i \in Instances : Abstract(x)!Crash(i))
    \/ Abstract(x)!Next
    \/ UNCHANGED Abstract(x)!vars

\* Every step of the store is a step of each record, or none.
LEMMA StepRefines ==
    ASSUME IInv, [Next]_vars, NEW x \in Ids
    PROVE  Follows(x)
<1>1. CASE log'[x] # log[x]
  <2>1. PICK i \in Instances, row \in Rows : Appends(x, i, row)
    BY <1>1, LogMoves
  <2>2. CASE Continues(log, lease, lost, i, AppendLog(x, row))
    BY <2>1, <2>2, RowRefines DEF Follows
  <2>3. CASE log[x] = <<>> /\ row = OpenedRow
    BY <2>1, <2>3, OpenedStutters DEF Follows
  <2> QED
    BY <2>1, <2>2, <2>3 DEF Appends
<1>2. CASE log'[x] = log[x]
  <2>1. CASE UNCHANGED vars
    BY <2>1 DEF vars, Follows
  <2>2. CASE \E i \in Instances : Call(i)
    BY <2>2, CallStays DEF Follows
  <2>3. CASE \E i \in Instances : Return(i) \/ Fail(i)
    BY <2>3 DEF Return, Fail, Follows
  <2>4. CASE \E i \in Instances : Crash(i)
    <3>1. PICK i \in Instances : Crash(i)
      BY <2>4
    <3>2. i \in alive /\ alive' = alive \ {i} /\ lease' = lease
      BY <3>1 DEF Crash
    <3>3. Abstract(x)!Crash(i)
      BY <1>2, <3>2, LogUnmoved DEF Abstract!Crash
    <3> QED
      BY <1>2, <3>3 DEF Follows
  <2>5. CASE Tick
    <3>1. /\ lease' = [y \in Ids |-> IF lease[y] > 0 THEN lease[y] - 1 ELSE 0] /\ alive' = alive
          /\ lease[x] \in 0 .. Ttl
      BY <2>5 DEF Tick, IInv, Typed
    <3>2. CASE lease[x] > 0
      <4>1. lease'[x] = lease[x] - 1
        BY <3>1, <3>2
      <4>2. Abstract(x)!Tick
        BY <1>2, <3>1, <3>2, <4>1, LogUnmoved DEF Abstract!Tick
      <4> QED
        BY <1>2, <4>2 DEF Follows
    <3>3. CASE ~(lease[x] > 0)
      <4>1. lease'[x] = lease[x]
        BY <3>1, <3>3, StoreAssumption
      <4> QED
        BY <1>2, <3>1, <4>1 DEF Follows
    <3> QED
      BY <3>2, <3>3
  <2>6. CASE \E i \in Instances : Write(i)
    <3>1. PICK i \in Instances : Write(i)
      BY <2>6
    <3>2. alive' = alive
      BY <3>1 DEF Write
    <3>3. lease'[x] = lease[x]
      <4>1. PICK w : w = Head(todo[i])
        OBVIOUS
      <4>2. CASE w.to # "log"
        BY <3>1, <4>1, <4>2 DEF Write
      <4>3. CASE w.to = "log"
        <5>1. /\ w.id \in Ids /\ w.row \in Rows /\ log \in [Ids -> Seq(Rows)]
              /\ log' = Grown(log, w.id, w.row) /\ lease' = Leased(w.id, w.row)
          BY <3>1, <4>1, <4>3, WriteRow
        <5>2. log[w.id] \in Seq(Rows) /\ Append(log[w.id], w.row) # log[w.id]
          BY <5>1
        <5>3. w.id # x
          BY <1>2, <5>1, <5>2, GrownLogs
        <5>4. lease \in [Ids -> 0 .. Ttl]
          BY DEF IInv, Typed
        <5> QED
          BY <5>1, <5>3, <5>4 DEF Leased
      <4> QED
        BY <4>2, <4>3
    <3> QED
      BY <1>2, <3>2, <3>3 DEF Follows
  <2> QED
    BY <2>1, <2>2, <2>3, <2>4, <2>5, <2>6 DEF Next
<1> QED
  BY <1>1, <1>2

\* Every execution of the item behaves as the one atomic record that
\* ExecutionRecord specifies.
THEOREM StoreRefines == Spec => RefinesRecord
<1>1. ASSUME Init, NEW x \in Ids PROVE Abstract(x)!Init
  <2>1. log[x] = <<>> /\ lease[x] = 0 /\ alive = Instances
    BY <1>1 DEF Init
  <2>2. State(x) = Genesis
    BY <2>1, OpenedSound DEF State
  <2>3. readRecord(x) = initExecution /\ State(x).seen = {}
    BY <2>2 DEF readRecord, Genesis
  <2>4. \A i \in Instances : Granted(x, i) = 0
    <3>1. \A i : Grants(<<>>, i) = {}
      BY DEF Grants
    <3>2. \A i : GrantedBy(<<>>, i) = 0
      BY <3>1 DEF GrantedBy
    <3> QED
      BY <2>1, <3>2, GrantedNames
  <2>5. [i \in Instances |-> Granted(x, i)] = [i \in Instances |-> 0]
    BY <2>4
  <2>6. Abstract(x)!initExecution = initExecution
    BY Zenon DEF Abstract!initExecution, Abstract!NoOwner, initExecution, NoOwner
  <2> QED
    BY <2>1, <2>3, <2>5, <2>6 DEF Abstract!Init
<1>2. ASSUME IInv, [Next]_vars
      PROVE  \A x \in Ids : \/ UNCHANGED <<log[x], lease[x], alive>>
                            \/ UNCHANGED log[x] /\ (Abstract(x)!Tick \/ \E i \in Instances : Abstract(x)!Crash(i))
                            \/ Abstract(x)!Next
                            \/ UNCHANGED Abstract(x)!vars
  BY <1>2, StepRefines DEF Follows
<1>3. Init => \A x \in Ids : Abstract(x)!Init
  BY <1>1
<1> QED
  BY <1>2, <1>3, Invariance, PTL DEF Spec, RefinesRecord

-----------------------------------------------------------------------------
(* What the record promises, of the files.                                 *)

\* The fence last granted to a process is that of a row that hands it the
\* execution.
LEMMA GrantedGiven ==
    ASSUME NEW rows \in Seq(Rows), NEW i, GrantedBy(rows, i) # 0
    PROVE  \E k \in DOMAIN rows : /\ rows[k].type = "ownership.changed" /\ rows[k].owner.inst = i
                                  /\ rows[k].owner.fence = GrantedBy(rows, i)
<1>1. Grants(rows, i) # {}
  BY DEF GrantedBy
<1>2. Len(rows) \in Nat /\ Grants(rows, i) \in SUBSET (1 .. Len(rows))
  BY DEF Grants
<1>3. \E k \in Grants(rows, i) : \A j \in Grants(rows, i) : j <= k
  BY <1>1, <1>2, Greatest
<1>4. PICK k : k = CHOOSE m \in Grants(rows, i) : \A j \in Grants(rows, i) : j <= m
  OBVIOUS
<1>5. k \in Grants(rows, i)
  BY <1>3, <1>4
<1>6. GrantedBy(rows, i) = rows[k].owner.fence
  BY <1>1, <1>4 DEF GrantedBy
<1> QED
  BY <1>5, <1>6 DEF Grants

\* Whoever holds an execution's current fence, as its log last granted it, is
\* its owner: ExecutionRecord's FenceNamesOwner, of every log of the item.
THEOREM FenceNamesOwnerInStore == Spec => [](\A x \in Ids : Abstract(x)!FenceNamesOwner)
<1>1. ASSUME IInv, NEW x \in Ids PROVE Abstract(x)!FenceNamesOwner
  <2> SUFFICES ASSUME NEW i \in Instances, Granted(x, i) > 0,
                      Granted(x, i) = readRecord(x).owner.fence
               PROVE  readRecord(x).owner.inst = i
    BY DEF Abstract!FenceNamesOwner
  <2>1. log[x] \in Seq(Rows) /\ Sound(State(x), log[x]) /\ readRecord(x) = State(x).rec
    BY <1>1, Names DEF IInv, Typed, Replayable
  <2>2. GrantedBy(log[x], i) = Granted(x, i)
    BY GrantedNames
  <2>3. PICK k \in DOMAIN log[x] :
          /\ log[x][k].type = "ownership.changed" /\ log[x][k].owner.inst = i
          /\ log[x][k].owner.fence = Granted(x, i)
    BY <2>1, <2>2, GrantedGiven
  <2>4. IsGrant(log[x][k])
    BY <2>3, ExecutionAssumption DEF IsGrant
  <2> QED
    BY <2>1, <2>3, <2>4 DEF Sound, GrantsBelow
<1>2. IInv => \A x \in Ids : Abstract(x)!FenceNamesOwner
  BY <1>1
<1> QED
  BY <1>2, Invariance, PTL

\* An execution that is completed or released is over: whatever is still
\* appended to its log leaves the record as it is.
THEOREM TerminalForGood ==
    Spec => [][\A x \in Ids : isTerminal(readRecord(x)) => readRecord(x)' = readRecord(x)]_vars
<1>1. ASSUME IInv, [Next]_vars, NEW x \in Ids, isTerminal(readRecord(x))
      PROVE  readRecord(x)' = readRecord(x)
  <2>1. CASE log'[x] = log[x]
    BY <2>1, LogUnmoved
  <2>2. CASE log'[x] # log[x]
    <3>1. PICK i \in Instances, row \in Rows : Appends(x, i, row)
      BY <1>1, <2>2, LogMoves
    <3>2. log[x] # <<>>
      <4>1. CASE log[x] = <<>>
        <5>1. readRecord(x) = Genesis.rec
          BY <4>1, OpenedSound DEF readRecord, State
        <5> QED
          BY <1>1, <5>1, OpenedSound
      <4> QED
        BY <4>1
    <3>3. Continues(log, lease, lost, i, AppendLog(x, row))
      BY <3>1, <3>2 DEF Appends
    <3>4. /\ log[x] \in Seq(Rows) /\ Sound(State(x), log[x])
          /\ readRecord(x) = State(x).rec /\ readRecord(x)' = ReplayRow(State(x), row).rec
          /\ \/ Claims(State(x), i, row, lease[x] > 0)
             \/ Renews(State(x), i, row, lease[x] > 0)
             \/ Releases(State(x), row)
             \/ Reports(State(x), i, row, lease[x] > 0)
      BY <1>1, <3>1, <3>3, RowMoves
    <3>5. isTerminal(State(x).rec)
      BY <1>1, <3>4
    <3>6. /\ ~Claims(State(x), i, row, lease[x] > 0) /\ ~Releases(State(x), row)
          /\ ~Reports(State(x), i, row, lease[x] > 0)
      BY <3>5 DEF Claims, Claimable, Releases, Reports, Accepts
    <3>7. ReplayRow(State(x), row).rec = State(x).rec
      BY <3>4, <3>6, RenewMade
    <3> QED
      BY <3>4, <3>7
  <2> QED
    BY <2>1, <2>2
<1>2. ASSUME IInv, [Next]_vars
      PROVE  \A x \in Ids : isTerminal(readRecord(x)) => readRecord(x)' = readRecord(x)
  BY <1>1, <1>2
<1> QED
  BY <1>2, Invariance, PTL DEF Spec

=============================================================================
