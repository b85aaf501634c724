---------------------------- MODULE LandingProofs ----------------------------
(***************************************************************************)
(* What the integration stage promises of the target ref, for any number   *)
(* of items, commits, pushes, outages and crashes.                         *)
(*                                                                         *)
(* That nothing is lost rests on the compare-and-swap alone.  The two      *)
(* invariants are not inductive: what lands was decided when the stage     *)
(* read its checkout, and the checkout, the target and the pin have moved  *)
(* since.  Local says what a stage may still rely on at each of its steps: *)
(* the head it was cleared for has passed the gates, the commit it         *)
(* integrates is contained in that head from the build to the landing, and *)
(* the candidate it built has that commit.                                 *)
(***************************************************************************)
EXTENDS Landing, SequenceTheorems, TLAPS

Commits == Seq(Nat)
EntryType == [by : Items \cup {"other"}, head : Commits]
StagePC == {"open", "refresh", "pin", "yielded", "standing", "regate", "build", "suite",
            "land", "fix", "done"}
StageState == {"none", "failed", "mismatch", "passed"}
StageType == [pc : StagePC, state : StageState, tree : Commits, cand : Commits,
              gated : Commits, base : Seq(EntryType), sha : Seq(EntryType),
              cycle : Nat, races : Nat]

TypeOK ==
    /\ target \in Seq(EntryType)
    /\ head \in [Items -> Commits]
    /\ judged \in [Items -> SUBSET Commits]
    /\ st \in [Items -> StageType]
    /\ moves \in Nat /\ pushes \in Nat

\* A ref has an item's commit.
Has(ref, i, h) == \E k \in DOMAIN ref : ref[k].by = i /\ IsPrefix(h, ref[k].head)

\* The head a stage is cleared for has passed the gates.
GatedJudged(i) == st[i].gated \in judged[i]

\* What the gates decided still holds for what is about to be built.
Cleared(i) ==
    /\ st[i].pc = "open" => st[i].cand \in {NoHead, st[i].gated}
    /\ st[i].pc = "regate" => ~CandidateDrift(st[i])
    /\ st[i].pc \in {"build", "suite", "land"} => IsPrefix(IntegrateCommit(st[i]), st[i].gated)

\* The candidate is the tip it was built on, with the item's commit.
Built(i) ==
    st[i].pc \in {"suite", "land"} =>
        /\ \/ st[i].sha = st[i].base
           \/ st[i].sha = Append(st[i].base, Entry(i, IntegrateCommit(st[i])))
        /\ Has(st[i].sha, i, IntegrateCommit(st[i]))

\* A stage that passed is over, and the target has its commit.
Passed(i) ==
    st[i].state = "passed" => st[i].pc = "done" /\ Has(target, i, IntegrateCommit(st[i]))

Mine(i) == GatedJudged(i) /\ Cleared(i) /\ Built(i) /\ Passed(i)
Local == \A i \in Items : Mine(i)

IInv == TypeOK /\ LandedCovered /\ Local

-----------------------------------------------------------------------------
\* A sequence is a prefix of itself and of what is appended to it.
LEMMA PrefixSelf == ASSUME NEW S, NEW s \in Seq(S) PROVE IsPrefix(s, s)
  BY LenProperties DEF IsPrefix

\* A head is a prefix of the head one commit later.
LEMMA PrefixAppend ==
    ASSUME NEW S, NEW s \in Seq(S), NEW e \in S PROVE IsPrefix(s, Append(s, e))
<1>1. Len(s) \in Nat /\ Len(Append(s, e)) = Len(s) + 1
  BY LenProperties, AppendProperties
<1>2. SubSeq(s, 1, Len(s)) = SubSeq(Append(s, e), 1, Len(s))
  BY <1>1, AppendProperties
<1> QED
  BY <1>1, <1>2 DEF IsPrefix

\* What a ref has, it still has once something is appended to it.
LEMMA HasAppend ==
    ASSUME NEW ref \in Seq(EntryType), NEW e \in EntryType, NEW i, NEW h, Has(ref, i, h)
    PROVE  Has(Append(ref, e), i, h)
<1>1. PICK k \in DOMAIN ref : ref[k].by = i /\ IsPrefix(h, ref[k].head)
  BY DEF Has
<1>2. k \in DOMAIN Append(ref, e) /\ Append(ref, e)[k] = ref[k]
  BY <1>1, LenProperties, AppendProperties
<1> QED
  BY <1>1, <1>2 DEF Has

\* What was appended, the ref has.
LEMMA HasLast ==
    ASSUME NEW ref \in Seq(EntryType), NEW i \in Items, NEW h \in Commits
    PROVE  /\ Entry(i, h) \in EntryType
           /\ Append(ref, Entry(i, h)) \in Seq(EntryType)
           /\ Has(Append(ref, Entry(i, h)), i, h)
<1>1. Entry(i, h) \in EntryType /\ Entry(i, h).by = i /\ Entry(i, h).head = h
  BY DEF Entry, EntryType
<1>2. /\ Append(ref, Entry(i, h)) \in Seq(EntryType)
      /\ Len(ref) + 1 \in DOMAIN Append(ref, Entry(i, h))
      /\ Append(ref, Entry(i, h))[Len(ref) + 1] = Entry(i, h)
  BY <1>1, LenProperties, AppendProperties
<1> QED
  BY <1>1, <1>2, PrefixSelf DEF Has, Commits

\* What a stage integrates is a head.
LEMMA IntegrateType == ASSUME NEW s \in StageType PROVE IntegrateCommit(s) \in Commits
  BY DEF IntegrateCommit, StageType

\* A ref that is covered is still covered once an entry that is covered is
\* appended to it.
Covered(ref) ==
    \A k \in DOMAIN ref : ref[k].by \in Items =>
        \E h \in judged[ref[k].by] : IsPrefix(ref[k].head, h)

\* A covered ref stays covered when a judged commit lands on it.
LEMMA CoveredAppend ==
    ASSUME NEW ref \in Seq(EntryType), NEW e \in EntryType, Covered(ref),
           e.by \in Items => \E h \in judged[e.by] : IsPrefix(e.head, h)
    PROVE  Covered(Append(ref, e))
<1> SUFFICES ASSUME NEW k \in DOMAIN Append(ref, e), Append(ref, e)[k].by \in Items
             PROVE  \E h \in judged[Append(ref, e)[k].by] : IsPrefix(Append(ref, e)[k].head, h)
  BY DEF Covered
<1>1. k \in 1..(Len(ref) + 1) /\ Len(ref) \in Nat /\ DOMAIN ref = 1..Len(ref)
  BY LenProperties, AppendProperties
<1>2. CASE k = Len(ref) + 1
  BY <1>2, AppendProperties
<1>3. CASE k \in 1..Len(ref)
  BY <1>1, <1>3, AppendProperties DEF Covered
<1> QED
  BY <1>1, <1>2, <1>3

-----------------------------------------------------------------------------
\* Initially nothing has landed and every stage is about to open.
LEMMA InitIInv == Init => IInv
<1> SUFFICES ASSUME Init PROVE IInv
  OBVIOUS
<1>1. <<0>> \in Commits /\ NoHead \in Commits /\ <<>> \in Seq(EntryType)
  BY DEF Commits, NoHead
<1>2. TypeOK
  BY <1>1 DEF Init, TypeOK, StageType, StagePC, StageState
<1>3. LandedCovered
  BY DEF Init, LandedCovered
<1>4. Local
  BY DEF Init, Local, Mine, GatedJudged, Cleared, Built, Passed
<1> QED
  BY <1>2, <1>3, <1>4 DEF IInv

\* The empty ref is one.
LEMMA EmptyTyped == <<>> \in Seq(EntryType)
  OBVIOUS

\* The empty head is one.
LEMMA EmptyHead == <<>> \in Commits
  BY DEF Commits

\* A stage that settles, or goes to its fixer, keeps what it read.
LEMMA SettledKeeps ==
    ASSUME NEW s \in StageType, NEW state \in StageState
    PROVE  /\ Settled(s, state) \in StageType
           /\ Settled(s, state).pc = "done" /\ Settled(s, state).state = state
           /\ Settled(s, state).gated = s.gated
           /\ IntegrateCommit(Settled(s, state)) = IntegrateCommit(s)
  BY EmptyTyped DEF Settled, StageType, StagePC, IntegrateCommit

\* What settling a stage leaves of it.
LEMMA SettleKeeps ==
    ASSUME st \in [Items -> StageType], NEW i \in Items, NEW state \in StageState,
           Settle(i, state)
    PROVE  /\ st' \in [Items -> StageType]
           /\ st'[i] = Settled(st[i], state)
           /\ \A j \in Items : j # i => st'[j] = st[j]
  BY SettledKeeps DEF Settle

\* What a refused candidate leaves of its stage: a fix is due, or it failed.
LEMMA FixOrSettleKeeps ==
    ASSUME st \in [Items -> StageType], NEW i \in Items, FixOrSettle(i)
    PROVE  /\ st' \in [Items -> StageType]
           /\ st'[i].pc \in {"fix", "done"} /\ st'[i].gated = st[i].gated
           /\ st'[i].state \in {st[i].state, "failed"}
           /\ \A j \in Items : j # i => st'[j] = st[j]
<1> DEFINE fix == [st[i] EXCEPT !.pc = "fix", !.base = <<>>, !.sha = <<>>]
<1>1. /\ fix \in StageType /\ fix.pc = "fix" /\ fix.gated = st[i].gated
      /\ fix.state = st[i].state
  BY EmptyTyped DEF StageType, StagePC
<1>2. /\ Settled(st[i], "failed") \in StageType /\ Settled(st[i], "failed").pc = "done"
      /\ Settled(st[i], "failed").gated = st[i].gated
      /\ Settled(st[i], "failed").state = "failed"
  BY SettledKeeps DEF StageState
<1>3. st'[i] = fix \/ st'[i] = Settled(st[i], "failed")
  BY DEF FixOrSettle
<1>4. /\ \A j \in Items : j # i => st'[j] = st[j]
      /\ st' = [st EXCEPT ![i] = st'[i]]
  BY DEF FixOrSettle
<1>5. st' \in [Items -> StageType]
  BY <1>1, <1>2, <1>3, <1>4
<1> QED
  BY <1>1, <1>2, <1>3, <1>4, <1>5

\* Every step keeps every variable in its type.
LEMMA TypeStep == TypeOK /\ [Next]_vars => TypeOK'
<1> SUFFICES ASSUME TypeOK, [Next]_vars PROVE TypeOK'
  OBVIOUS
<1>0. CASE UNCHANGED vars
  BY <1>0 DEF vars, TypeOK
<1>1. ASSUME NEW i \in Items, Open(i) PROVE TypeOK'
  <2> DEFINE same == head[i] = st[i].gated
             pc == IF same THEN "build" ELSE "done"
             state == IF same THEN "none" ELSE "failed"
  <2>1. pc \in StagePC /\ state \in StageState
    BY DEF StagePC, StageState
  <2> HIDE DEF pc, state
  <2>2. st \in [Items -> StageType] /\ st[i] \in StageType /\ head[i] \in Commits
        /\ st' = [st EXCEPT ![i].tree = head[i], ![i].pc = pc, ![i].state = state]
    BY <1>1 DEF TypeOK, Open, pc, state
  <2>3. st' \in [Items -> StageType]
    BY <2>2, <2>1 DEF StageType
  <2> QED
    BY <2>3, <1>1 DEF TypeOK, Open
<1>2. ASSUME NEW i \in Items, Refresh(i) PROVE TypeOK'
  <2>1. st \in [Items -> StageType] /\ st[i] \in StageType /\ head[i] \in Commits
        /\ st' = [st EXCEPT ![i].tree = head[i], ![i].pc = "pin"]
    BY <1>2 DEF TypeOK, Refresh
  <2>2. st' \in [Items -> StageType]
    BY <2>1, EmptyTyped DEF StageType, StagePC, StageState
  <2> QED
    BY <2>2, <1>2 DEF TypeOK, Refresh
<1>3. ASSUME NEW i \in Items, Pin(i) PROVE TypeOK'
  <2>1. PICK c \in {head[i], NoHead} : st' = [st EXCEPT ![i].cand = c, ![i].pc = "standing"]
    BY <1>3 DEF Pin
  <2>2. c \in Commits
    BY <2>1, EmptyHead DEF TypeOK, NoHead
  <2>3. st \in [Items -> StageType] /\ st[i] \in StageType /\ head[i] \in Commits
        /\ st' = [st EXCEPT ![i].cand = c, ![i].pc = "standing"]
    BY <1>3, <2>1 DEF TypeOK
  <2>4. st' \in [Items -> StageType]
    BY <2>3, <2>2 DEF StageType, StagePC, StageState
  <2> QED
    BY <2>4, <1>3 DEF TypeOK, Pin
<1>4. ASSUME NEW i \in Items, RefreshYielded(i) PROVE TypeOK'
  <2>1. st \in [Items -> StageType] /\ st[i] \in StageType /\ head[i] \in Commits
        /\ st' = [st EXCEPT ![i].tree = head[i], ![i].pc = "standing"]
    BY <1>4 DEF TypeOK, RefreshYielded
  <2>2. st' \in [Items -> StageType]
    BY <2>1, EmptyTyped DEF StageType, StagePC, StageState
  <2> QED
    BY <2>2, <1>4 DEF TypeOK, RefreshYielded
<1>5. ASSUME NEW i \in Items, Standing(i) PROVE TypeOK'
  <2>1. CASE Settle(i, "mismatch")
    BY <2>1, <1>5, SettleKeeps DEF TypeOK, Standing, StageState
  <2>2. ASSUME NEW pc \in StagePC, Goto(i, pc) PROVE TypeOK'
    <3>1. st \in [Items -> StageType] /\ st[i] \in StageType
      BY DEF TypeOK
    <3>2. st' \in [Items -> StageType]
      BY <2>2, <3>1 DEF Goto, StageType
    <3> QED
      BY <3>2, <1>5 DEF TypeOK, Standing
  <2> QED
    BY <2>1, <2>2, <1>5 DEF Standing, StagePC
<1>6. ASSUME NEW i \in Items, RegatePasses(i) PROVE TypeOK'
  <2>1. st[i] \in StageType /\ head[i] \in Commits
    BY DEF TypeOK
  <2>2. [st[i] EXCEPT !.pc = "build", !.gated = head[i]] \in StageType
    BY <2>1 DEF StageType, StagePC
  <2>3. Settled(st[i], "failed") \in StageType
    BY <2>1, SettledKeeps DEF StageState
  <2>4. st' \in [Items -> StageType]
    BY <2>2, <2>3, <1>6 DEF TypeOK, RegatePasses
  <2>5. judged' \in [Items -> SUBSET Commits]
    BY <2>1, <1>6 DEF TypeOK, RegatePasses
  <2> QED
    BY <2>4, <2>5, <1>6 DEF TypeOK, RegatePasses
<1>7. ASSUME NEW i \in Items, RegateFails(i) PROVE TypeOK'
  BY <1>7, SettleKeeps DEF TypeOK, RegateFails, StageState
<1>8. ASSUME NEW i \in Items, Build(i) PROVE TypeOK'
  <2> DEFINE h == IntegrateCommit(st[i])
             sha == IF Merged(i, h) THEN target ELSE Append(target, Entry(i, h))
  <2>1. sha \in Seq(EntryType)
    BY HasLast, IntegrateType DEF TypeOK
  <2> HIDE DEF sha
  <2>2. /\ st \in [Items -> StageType] /\ st[i] \in StageType /\ target \in Seq(EntryType)
        /\ st' = [st EXCEPT ![i].base = target, ![i].pc = "suite", ![i].sha = sha]
    BY <1>8 DEF TypeOK, Build, sha
  <2>3. st' \in [Items -> StageType]
    BY <2>1, <2>2 DEF StageType, StagePC
  <2> QED
    BY <2>3, <1>8 DEF TypeOK, Build
<1>9. ASSUME NEW i \in Items, BuildConflicts(i) PROVE TypeOK'
  BY <1>9, FixOrSettleKeeps DEF TypeOK, BuildConflicts
<1>10. ASSUME NEW i \in Items, SuitePasses(i) PROVE TypeOK'
  <2>1. st \in [Items -> StageType] /\ st[i] \in StageType /\ head[i] \in Commits
        /\ st' = [st EXCEPT ![i].pc = "land"]
    BY <1>10 DEF TypeOK, SuitePasses, Goto
  <2>2. st' \in [Items -> StageType]
    BY <2>1 DEF StageType, StagePC, StageState
  <2> QED
    BY <2>2, <1>10 DEF TypeOK, SuitePasses
<1>11. ASSUME NEW i \in Items, SuiteFails(i) PROVE TypeOK'
  BY <1>11, FixOrSettleKeeps DEF TypeOK, SuiteFails
<1>12. ASSUME NEW i \in Items, ForceRefused(i) PROVE TypeOK'
  BY <1>12, SettleKeeps DEF TypeOK, ForceRefused, StageState
<1>13. ASSUME NEW i \in Items, Land(i) PROVE TypeOK'
  <2>1. st[i] \in StageType /\ st[i].sha \in Seq(EntryType) /\ st[i].races + 1 \in Nat
    BY DEF TypeOK, StageType
  <2> DEFINE again == [st[i] EXCEPT !.pc = "build", !.races = st[i].races + 1]
  <2>2. again \in StageType
    BY <2>1 DEF StageType, StagePC
  <2>3. Settled(st[i], "failed") \in StageType /\ Settled(st[i], "passed") \in StageType
    BY <2>1, SettledKeeps DEF StageState
  <2>4. CASE target \in {st[i].base, st[i].sha}
    BY <2>1, <2>4, <1>13, SettleKeeps DEF TypeOK, Land, StageState
  <2>5. CASE target \notin {st[i].base, st[i].sha}
    <3>1. st' = [st EXCEPT ![i] = again] \/ st' = [st EXCEPT ![i] = Settled(st[i], "failed")]
      <4>1. st' = [st EXCEPT ![i] = IF st[i].races + 1 >= RaceCap
                                    THEN Settled(st[i], "failed") ELSE again]
        BY <2>5, <1>13 DEF Land
      <4> QED
        BY <4>1
    <3> HIDE DEF again
    <3>2. st' \in [Items -> StageType]
      BY <2>2, <2>3, <3>1 DEF TypeOK
    <3> QED
      BY <3>2, <2>5, <1>13 DEF TypeOK, Land
  <2> QED
    BY <2>4, <2>5
<1>14. ASSUME NEW i \in Items, FixEnds(i) PROVE TypeOK'
  <2>1. st \in [Items -> StageType] /\ st[i] \in StageType /\ head[i] \in Commits
        /\ st' = [st EXCEPT ![i].pc = "refresh", ![i].cycle = @ + 1]
    BY <1>14 DEF TypeOK, FixEnds
  <2>2. st[i].cycle + 1 \in Nat
    BY <2>1 DEF StageType
  <2>3. st' \in [Items -> StageType]
    BY <2>1, <2>2 DEF StageType, StagePC
  <2> QED
    BY <2>3, <1>14 DEF TypeOK, FixEnds
<1>15. ASSUME NEW i \in Items, FixRefused(i) PROVE TypeOK'
  BY <1>15, SettleKeeps DEF TypeOK, FixRefused, StageState
<1>16. ASSUME NEW i \in Items, Commit(i) PROVE TypeOK'
  <2>1. PICK kept \in {head[i], <<>>} : head' = [head EXCEPT ![i] = Append(kept, moves + 1)]
    BY <1>16 DEF Commit
  <2>2. kept \in Commits /\ moves + 1 \in Nat
    BY <2>1, EmptyHead DEF TypeOK
  <2>3. Append(kept, moves + 1) \in Commits
    BY <2>2, AppendProperties DEF Commits
  <2> QED
    BY <2>1, <2>2, <2>3, <1>16 DEF TypeOK, Commit
<1>17. ASSUME NEW i \in Items, Outage(i) PROVE TypeOK'
  <2>1. st \in [Items -> StageType] /\ st[i] \in StageType /\ head[i] \in Commits
        /\ st' = [st EXCEPT ![i].pc = "yielded", ![i].base = <<>>, ![i].sha = <<>>]
    BY <1>17 DEF TypeOK, Outage
  <2>2. st' \in [Items -> StageType]
    BY <2>1, EmptyTyped DEF StageType, StagePC, StageState
  <2> QED
    BY <2>2, <1>17 DEF TypeOK, Outage
<1>18. ASSUME NEW i \in Items, ReadFails(i) PROVE TypeOK'
  BY <1>18, SettleKeeps DEF TypeOK, ReadFails, StageState
<1>19. ASSUME NEW i \in Items, GitFails(i) PROVE TypeOK'
  BY <1>19, FixOrSettleKeeps DEF TypeOK, GitFails
<1>20. ASSUME NEW i \in Items, LandUnrecorded(i) PROVE TypeOK'
  BY <1>20 DEF TypeOK, LandUnrecorded, StageType
<1>21. ASSUME Push PROVE TypeOK'
  <2>1. Entry("other", <<pushes>>) \in EntryType /\ pushes' \in Nat
    BY <1>21 DEF TypeOK, Push, Entry, EntryType, Commits
  <2> QED
    BY <2>1, <1>21, AppendProperties DEF TypeOK, Push
<1> QED
  BY <1>0, <1>1, <1>2, <1>3, <1>4, <1>5, <1>6, <1>7, <1>8, <1>9, <1>10,
     <1>11, <1>12, <1>13, <1>14, <1>15, <1>16, <1>17, <1>18, <1>19, <1>20,
     <1>21
  DEF Next, Stage

-----------------------------------------------------------------------------
\* The target stays, or gains one entry at its end.
Grows == target' = target \/ \E e \in EntryType : target' = Append(target, e)

\* What the target has, it keeps.
LEMMA GrowsHas ==
    ASSUME target \in Seq(EntryType), Grows, NEW i, NEW h, Has(target, i, h)
    PROVE  Has(target', i, h)
  BY HasAppend DEF Grows

\* The steps of a stage at which it relies on what it read: elsewhere it has
\* nothing to keep but its clearance.
Relying == {"open", "regate", "build", "suite", "land"}

\* A stage that has not ended has not passed.
LEMMA NotPassed ==
    ASSUME IInv, NEW i \in Items, st[i].pc # "done" PROVE st[i].state # "passed"
  BY DEF IInv, Local, Mine, Passed

\* A step of one stage leaves what the others rely on as it was.
LEMMA Others ==
    ASSUME IInv, NEW i \in Items, Grows, Mine(i)',
           \A j \in Items : j # i => st'[j] = st[j],
           \A j \in Items : judged[j] \subseteq judged'[j]
    PROVE  Local' /\ (UNCHANGED target => LandedCovered')
<1>1. ASSUME NEW j \in Items, j # i PROVE Mine(j)'
  <2>1. Mine(j) /\ st'[j] = st[j] /\ target \in Seq(EntryType)
    BY <1>1 DEF IInv, TypeOK, Local
  <2>2. Passed(j)'
    BY <2>1, GrowsHas DEF Mine, Passed, IntegrateCommit
  <2>3. (GatedJudged(j) /\ Cleared(j) /\ Built(j))'
    BY <2>1 DEF Mine, GatedJudged, Cleared, Built, IntegrateCommit, CandidateDrift
  <2> QED
    BY <2>2, <2>3 DEF Mine
<1>2. UNCHANGED target => LandedCovered'
  BY DEF IInv, LandedCovered
<1> QED
  BY <1>1, <1>2 DEF Local

\* A stage that leaves the part where it relies on what it read keeps the invariant.
LEMMA Away ==
    ASSUME IInv, NEW i \in Items, UNCHANGED <<target, judged>>,
           st'[i].pc \notin Relying, st'[i].gated = st[i].gated,
           st'[i].state # "passed", \A j \in Items : j # i => st'[j] = st[j]
    PROVE  Grows /\ Local' /\ LandedCovered'
<1>1. Mine(i)'
  BY DEF IInv, Local, Mine, GatedJudged, Cleared, Built, Passed, Relying
<1> QED
  BY <1>1, Others DEF Grows

\* LandedCovered speaks of the target and of what the gates have passed.
LEMMA CoveredTarget == LandedCovered <=> Covered(target)
  BY DEF LandedCovered, Covered

\* A step that judges nothing is covered if the ref it leaves is.
LEMMA CoveredNow == UNCHANGED judged /\ Covered(target') => LandedCovered'
  BY DEF LandedCovered, Covered

\* The ref is swung to a candidate built on the tip it is swung from.
LEMMA SwungGrows ==
    ASSUME IInv, NEW i \in Items, st[i].pc = "land", target' = st[i].sha,
           target \in {st[i].base, st[i].sha}
    PROVE  Grows
<1>1. st[i] \in StageType
  BY DEF IInv, TypeOK
<1>2. Entry(i, IntegrateCommit(st[i])) \in EntryType
  BY <1>1, IntegrateType DEF Entry, EntryType
<1> QED
  BY <1>2 DEF IInv, Local, Mine, Built, Grows

\* The ref that is swung to a judged candidate is covered.
LEMMA SwungCovered ==
    ASSUME IInv, NEW i \in Items, st[i].pc = "land", target' = st[i].sha,
           target \in {st[i].base, st[i].sha}, UNCHANGED judged
    PROVE  LandedCovered'
<1> DEFINE h == IntegrateCommit(st[i])
<1>1. st[i] \in StageType /\ target \in Seq(EntryType) /\ Covered(target)
  BY CoveredTarget DEF IInv, TypeOK
<1>2. h \in Commits /\ st[i].gated \in judged[i] /\ IsPrefix(h, st[i].gated)
  BY <1>1, IntegrateType DEF IInv, Local, Mine, GatedJudged, Cleared
<1>3. Entry(i, h) \in EntryType /\ Entry(i, h).by = i /\ Entry(i, h).head = h
  BY <1>2 DEF Entry, EntryType
<1>4. target' = target \/ target' = Append(target, Entry(i, h))
  BY DEF IInv, Local, Mine, Built
<1>5. Covered(Append(target, Entry(i, h)))
  BY <1>1, <1>2, <1>3, CoveredAppend
<1> QED
  BY <1>1, <1>4, <1>5, CoveredNow

\* A step that touches neither the ref, the judgements nor a stage keeps everything.
LEMMA Same ==
    ASSUME IInv, UNCHANGED <<target, judged, st>> PROVE Grows /\ Local' /\ LandedCovered'
  BY DEF IInv, Grows, Local, Mine, GatedJudged, Cleared, Built, Passed, IntegrateCommit,
         CandidateDrift, LandedCovered

\* Every step keeps what the stages rely on and lets the target only grow.
LEMMA StepKeeps == IInv /\ [Next]_vars => Grows /\ Local' /\ LandedCovered'
<1> DEFINE Kept == Grows /\ Local' /\ LandedCovered'
<1> SUFFICES ASSUME IInv, [Next]_vars PROVE Kept
  OBVIOUS
<1>t. TypeOK /\ TypeOK'
  BY TypeStep DEF IInv
<1>r. /\ st \in [Items -> StageType] /\ \A i \in Items : st[i] \in StageType /\ Mine(i)
      /\ IInv
  BY <1>t DEF TypeOK, IInv, Local
<1> USE <1>r
<1>0. CASE UNCHANGED vars
  BY <1>0, Same DEF vars
<1>1. ASSUME NEW i \in Items, Open(i) PROVE Kept
  <2>1. \A j \in Items : j # i => st'[j] = st[j]
    BY <1>1 DEF Open
  <2>2. /\ st'[i].gated = st[i].gated /\ st'[i].cand = st[i].cand /\ st'[i].tree = head[i]
        /\ st'[i].state # "passed"
        /\ st'[i].pc = IF head[i] = st[i].gated THEN "build" ELSE "done"
    BY <1>1 DEF Open, StageType
  <2>3. CASE head[i] = st[i].gated
    <3>1. IntegrateCommit(st[i])' = st[i].gated
      BY <2>2, <2>3, <1>1 DEF Open, Mine, Cleared, IntegrateCommit
    <3>2. Mine(i)'
      BY <2>2, <2>3, <3>1, <1>1, PrefixSelf
      DEF Open, Mine, GatedJudged, Cleared, Built, Passed, StageType, Commits
    <3> QED
      BY <2>1, <3>2, <1>1, Others DEF Open, Grows
  <2>4. CASE head[i] # st[i].gated
    BY <2>1, <2>2, <2>4, <1>1, Away DEF Open, Relying
  <2> QED
    BY <2>3, <2>4
<1>2. ASSUME NEW i \in Items, Refresh(i) PROVE Kept
  <2>1. /\ st'[i].pc \notin Relying /\ st'[i].gated = st[i].gated
        /\ st'[i].state = st[i].state /\ st[i].pc # "done"
    BY <1>2 DEF Refresh, StageType, Relying
  <2>2. \A j \in Items : j # i => st'[j] = st[j]
    BY <1>2 DEF Refresh
  <2> QED
    BY <2>1, <2>2, <1>2, Away, NotPassed DEF Refresh
<1>3. ASSUME NEW i \in Items, Pin(i) PROVE Kept
  <2>1. /\ st'[i].pc \notin Relying /\ st'[i].gated = st[i].gated
        /\ st'[i].state = st[i].state /\ st[i].pc # "done"
    BY <1>3 DEF Pin, StageType, Relying
  <2>2. \A j \in Items : j # i => st'[j] = st[j]
    BY <1>3 DEF Pin
  <2> QED
    BY <2>1, <2>2, <1>3, Away, NotPassed DEF Pin
<1>4. ASSUME NEW i \in Items, RefreshYielded(i) PROVE Kept
  <2>1. /\ st'[i].pc \notin Relying /\ st'[i].gated = st[i].gated
        /\ st'[i].state = st[i].state /\ st[i].pc # "done"
    BY <1>4 DEF RefreshYielded, StageType, Relying
  <2>2. \A j \in Items : j # i => st'[j] = st[j]
    BY <1>4 DEF RefreshYielded
  <2> QED
    BY <2>1, <2>2, <1>4, Away, NotPassed DEF RefreshYielded
<1>5. ASSUME NEW i \in Items, Standing(i) PROVE Kept
  <2>1. CASE CandidateDrift(st[i])
    <3>1. /\ st'[i].pc \notin Relying /\ st'[i].gated = st[i].gated
          /\ st'[i].state # "passed" /\ \A j \in Items : j # i => st'[j] = st[j]
      BY <2>1, <1>5, SettleKeeps, SettledKeeps DEF Standing, StageState, Relying
    <3> QED
      BY <3>1, <1>5, Away DEF Standing
  <2>2. CASE ~CandidateDrift(st[i])
    <3>1. \A j \in Items : j # i => st'[j] = st[j]
      BY <2>2, <1>5 DEF Standing, Goto
    <3>2. /\ st'[i].gated = st[i].gated /\ st'[i].cand = st[i].cand
          /\ st'[i].tree = st[i].tree /\ st'[i].state = st[i].state
          /\ st'[i].pc = IF st[i].tree = st[i].gated THEN "build" ELSE "regate"
      BY <2>2, <1>5 DEF Standing, Goto, StageType
    <3>3. CandidateDrift(st[i])' = CandidateDrift(st[i])
      BY <3>2 DEF CandidateDrift
    <3>4. st[i].tree = st[i].gated => IsPrefix(IntegrateCommit(st[i])', st[i].gated)
      BY <2>2, <3>2, PrefixSelf DEF CandidateDrift, IntegrateCommit, StageType, Commits
    <3>5. Mine(i)'
      BY <2>2, <3>2, <3>3, <3>4, <1>5, NotPassed
      DEF Standing, Mine, GatedJudged, Cleared, Built, Passed
    <3> QED
      BY <3>1, <3>5, <1>5, Others DEF Standing, Grows
  <2> QED
    BY <2>1, <2>2
<1>6. ASSUME NEW i \in Items, RegatePasses(i) PROVE Kept
  <2>1. /\ \A j \in Items : j # i => st'[j] = st[j]
        /\ \A j \in Items : judged[j] \subseteq judged'[j]
        /\ head[i] \in judged'[i]
    BY <1>t, <1>6 DEF TypeOK, RegatePasses
  <2>2. CASE head[i] = st[i].tree
    <3>1. /\ st'[i].gated = st[i].tree /\ st'[i].cand = st[i].cand
          /\ st'[i].tree = st[i].tree /\ st'[i].state = st[i].state /\ st'[i].pc = "build"
      BY <2>2, <1>6 DEF RegatePasses, StageType
    <3>2. IsPrefix(IntegrateCommit(st[i])', st[i].tree)
      BY <3>1, <1>6, PrefixSelf
      DEF RegatePasses, CandidateDrift, IntegrateCommit, Mine, Cleared, StageType, Commits
    <3>3. Mine(i)'
      BY <2>1, <2>2, <3>1, <3>2, <1>6, NotPassed
      DEF RegatePasses, Mine, GatedJudged, Cleared, Built, Passed
    <3> QED
      BY <2>1, <3>3, <1>6, Others DEF RegatePasses, Grows
  <2>3. CASE head[i] # st[i].tree
    <3>1. st'[i] = Settled(st[i], "failed")
      BY <2>3, <1>6 DEF RegatePasses
    <3>2. st'[i].pc = "done" /\ st'[i].gated = st[i].gated /\ st'[i].state = "failed"
      BY <3>1, SettledKeeps DEF StageState
    <3>3. Mine(i)'
      BY <2>1, <3>2 DEF Mine, GatedJudged, Cleared, Built, Passed
    <3> QED
      BY <2>1, <3>3, <1>6, Others DEF RegatePasses, Grows
  <2> QED
    BY <2>2, <2>3
<1>7. ASSUME NEW i \in Items, RegateFails(i) PROVE Kept
  <2>1. /\ st'[i].pc \notin Relying /\ st'[i].gated = st[i].gated
        /\ st'[i].state # "passed" /\ \A j \in Items : j # i => st'[j] = st[j]
    BY <1>7, SettleKeeps, SettledKeeps DEF RegateFails, StageState, Relying
  <2> QED
    BY <2>1, <1>7, Away DEF RegateFails
<1>8. ASSUME NEW i \in Items, Build(i) PROVE Kept
  <2> DEFINE h == IntegrateCommit(st[i])
  <2>1. \A j \in Items : j # i => st'[j] = st[j]
    BY <1>8 DEF Build
  <2>2. /\ st'[i].gated = st[i].gated /\ st'[i].cand = st[i].cand
        /\ st'[i].tree = st[i].tree /\ st'[i].state = st[i].state /\ st'[i].pc = "suite"
        /\ st'[i].base = target
        /\ st'[i].sha = IF Merged(i, h) THEN target ELSE Append(target, Entry(i, h))
    BY <1>8 DEF Build, StageType
  <2>3. IntegrateCommit(st[i])' = h
    BY <2>2 DEF IntegrateCommit
  <2>4. h \in Commits
    BY IntegrateType
  <2>5. Has(st'[i].sha, i, h)
    BY <1>t, <2>2, <2>4, HasLast DEF TypeOK, Merged, Has
  <2>6. Built(i)'
    BY <2>2, <2>3, <2>5 DEF Built
  <2>7. Mine(i)'
    BY <2>2, <2>3, <2>6, <1>8, NotPassed DEF Build, Mine, GatedJudged, Cleared, Passed
  <2> QED
    BY <2>1, <2>7, <1>8, Others DEF Build, Grows
<1>9. ASSUME NEW i \in Items, BuildConflicts(i) PROVE Kept
  <2>1. /\ st'[i].pc \notin Relying /\ st'[i].gated = st[i].gated
        /\ st'[i].state # "passed" /\ \A j \in Items : j # i => st'[j] = st[j]
    BY <1>9, FixOrSettleKeeps, NotPassed DEF BuildConflicts, Relying
  <2> QED
    BY <2>1, <1>9, Away DEF BuildConflicts
<1>10. ASSUME NEW i \in Items, SuitePasses(i) PROVE Kept
  <2>1. \A j \in Items : j # i => st'[j] = st[j]
    BY <1>10 DEF SuitePasses, Goto
  <2>2. /\ st'[i].gated = st[i].gated /\ st'[i].cand = st[i].cand
        /\ st'[i].tree = st[i].tree /\ st'[i].state = st[i].state /\ st'[i].pc = "land"
        /\ st'[i].base = st[i].base /\ st'[i].sha = st[i].sha
    BY <1>10 DEF SuitePasses, Goto, StageType
  <2>3. IntegrateCommit(st[i])' = IntegrateCommit(st[i])
    BY <2>2 DEF IntegrateCommit
  <2>4. Mine(i)'
    BY <2>2, <2>3, <1>10, NotPassed
    DEF SuitePasses, Mine, GatedJudged, Cleared, Built, Passed
  <2> QED
    BY <2>1, <2>4, <1>10, Others DEF SuitePasses, Grows
<1>11. ASSUME NEW i \in Items, SuiteFails(i) PROVE Kept
  <2>1. /\ st'[i].pc \notin Relying /\ st'[i].gated = st[i].gated
        /\ st'[i].state # "passed" /\ \A j \in Items : j # i => st'[j] = st[j]
    BY <1>11, FixOrSettleKeeps, NotPassed DEF SuiteFails, Relying
  <2> QED
    BY <2>1, <1>11, Away DEF SuiteFails
<1>12. ASSUME NEW i \in Items, ForceRefused(i) PROVE Kept
  <2>1. /\ st'[i].pc \notin Relying /\ st'[i].gated = st[i].gated
        /\ st'[i].state # "passed" /\ \A j \in Items : j # i => st'[j] = st[j]
    BY <1>12, SettleKeeps, SettledKeeps DEF ForceRefused, StageState, Relying
  <2> QED
    BY <2>1, <1>12, Away DEF ForceRefused
<1>13. ASSUME NEW i \in Items, Land(i) PROVE Kept
  <2>1. \A j \in Items : j # i => st'[j] = st[j]
    BY <1>13 DEF Land, Settle
  <2>2. CASE target \in {st[i].base, st[i].sha}
    <3>1. st'[i] = Settled(st[i], "passed") /\ target' = st[i].sha
      BY <2>2, <1>13 DEF Land, Settle
    <3>2. /\ st'[i].gated = st[i].gated /\ st'[i].state = "passed" /\ st'[i].pc = "done"
          /\ IntegrateCommit(st[i])' = IntegrateCommit(st[i])
      BY <3>1, SettledKeeps DEF StageState
    <3>3. Has(target', i, IntegrateCommit(st[i]))
      BY <3>1, <1>13 DEF Land, Mine, Built
    <3>4. Mine(i)'
      BY <3>2, <3>3, <1>13 DEF Land, Mine, GatedJudged, Cleared, Built, Passed
    <3>5. Grows
      BY <2>2, <3>1, <1>13, SwungGrows DEF Land
    <3>6. Local'
      BY <2>1, <3>4, <3>5, <1>13, Others DEF Land
    <3>7. LandedCovered'
      BY <2>2, <3>1, <1>13, SwungCovered DEF Land
    <3> QED
      BY <3>5, <3>6, <3>7
  <2>3. CASE target \notin {st[i].base, st[i].sha}
    <3> DEFINE again == [st[i] EXCEPT !.pc = "build", !.races = st[i].races + 1]
    <3>1. st'[i] = again \/ st'[i] = Settled(st[i], "failed")
      <4>1. st' = [st EXCEPT ![i] = IF st[i].races + 1 >= RaceCap
                                    THEN Settled(st[i], "failed") ELSE again]
        BY <2>3, <1>13 DEF Land
      <4> QED
        BY <4>1
    <3>2. CASE st'[i] = again
      <4>1. /\ st'[i].gated = st[i].gated /\ st'[i].cand = st[i].cand
            /\ st'[i].tree = st[i].tree /\ st'[i].state = st[i].state /\ st'[i].pc = "build"
        BY <3>2 DEF StageType
      <4>2. IntegrateCommit(st[i])' = IntegrateCommit(st[i])
        BY <4>1 DEF IntegrateCommit
      <4>3. Mine(i)'
        BY <2>3, <4>1, <4>2, <1>13, NotPassed
        DEF Land, Mine, GatedJudged, Cleared, Built, Passed
      <4> QED
        BY <2>1, <2>3, <4>3, <1>13, Others DEF Land, Grows
    <3>3. CASE st'[i] = Settled(st[i], "failed")
      <4>1. st'[i].pc = "done" /\ st'[i].gated = st[i].gated /\ st'[i].state = "failed"
        BY <3>3, SettledKeeps DEF StageState
      <4> QED
        BY <2>1, <2>3, <4>1, <1>13, Away DEF Land, Relying
    <3> QED
      BY <3>1, <3>2, <3>3
  <2> QED
    BY <2>2, <2>3
<1>14. ASSUME NEW i \in Items, FixEnds(i) PROVE Kept
  <2>1. /\ st'[i].pc \notin Relying /\ st'[i].gated = st[i].gated
        /\ st'[i].state = st[i].state /\ st[i].pc # "done"
    BY <1>14 DEF FixEnds, StageType, Relying
  <2>2. \A j \in Items : j # i => st'[j] = st[j]
    BY <1>14 DEF FixEnds
  <2> QED
    BY <2>1, <2>2, <1>14, Away, NotPassed DEF FixEnds
<1>15. ASSUME NEW i \in Items, FixRefused(i) PROVE Kept
  <2>1. /\ st'[i].pc \notin Relying /\ st'[i].gated = st[i].gated
        /\ st'[i].state # "passed" /\ \A j \in Items : j # i => st'[j] = st[j]
    BY <1>15, SettleKeeps, SettledKeeps DEF FixRefused, StageState, Relying
  <2> QED
    BY <2>1, <1>15, Away DEF FixRefused
<1>16. ASSUME NEW i \in Items, Commit(i) PROVE Kept
  BY <1>16, Others DEF Commit, Local, Mine, GatedJudged, Cleared, Built, Passed, Grows
<1>17. ASSUME NEW i \in Items, Outage(i) PROVE Kept
  <2>1. /\ st'[i].pc \notin Relying /\ st'[i].gated = st[i].gated
        /\ st'[i].state = st[i].state /\ st[i].pc # "done"
    BY <1>17 DEF Outage, StageType, Relying
  <2>2. \A j \in Items : j # i => st'[j] = st[j]
    BY <1>17 DEF Outage
  <2> QED
    BY <2>1, <2>2, <1>17, Away, NotPassed DEF Outage
<1>18. ASSUME NEW i \in Items, ReadFails(i) PROVE Kept
  <2>1. /\ st'[i].pc \notin Relying /\ st'[i].gated = st[i].gated
        /\ st'[i].state # "passed" /\ \A j \in Items : j # i => st'[j] = st[j]
    BY <1>18, SettleKeeps, SettledKeeps DEF ReadFails, StageState, Relying
  <2> QED
    BY <2>1, <1>18, Away DEF ReadFails
<1>19. ASSUME NEW i \in Items, GitFails(i) PROVE Kept
  <2>1. /\ st'[i].pc \notin Relying /\ st'[i].gated = st[i].gated
        /\ st'[i].state # "passed" /\ \A j \in Items : j # i => st'[j] = st[j]
    BY <1>19, FixOrSettleKeeps, NotPassed DEF GitFails, Relying
  <2> QED
    BY <2>1, <1>19, Away DEF GitFails
<1>20. ASSUME NEW i \in Items, LandUnrecorded(i) PROVE Kept
  <2>1. Grows
    BY <1>20, SwungGrows DEF LandUnrecorded
  <2>2. Mine(i)'
    BY <1>t, <2>1, <1>20, GrowsHas DEF LandUnrecorded, Mine, GatedJudged, Cleared, Built, Passed
  <2>3. Local'
    BY <2>1, <2>2, <1>20, Others DEF LandUnrecorded
  <2>4. LandedCovered'
    BY <1>20, SwungCovered DEF LandUnrecorded
  <2> QED
    BY <2>1, <2>3, <2>4
<1>21. ASSUME Push PROVE Kept
  <2> DEFINE e == Entry("other", <<pushes>>)
  <2>1. e \in EntryType /\ e.by = "other"
    BY <1>t DEF TypeOK, Entry, EntryType, Commits
  <2>2. target' = Append(target, e)
    BY <1>21 DEF Push
  <2> HIDE DEF e
  <2>3. Grows
    BY <2>1, <2>2 DEF Grows
  <2>4. ASSUME NEW i \in Items PROVE Mine(i)'
    <3>1. st'[i] = st[i] /\ judged'[i] = judged[i] /\ Mine(i)
      BY <1>21 DEF Push
    <3>2. Passed(i)'
      BY <1>t, <2>3, <3>1, GrowsHas DEF TypeOK, Mine, Passed, IntegrateCommit
    <3> QED
      BY <3>1, <3>2 DEF Mine, GatedJudged, Cleared, Built, IntegrateCommit, CandidateDrift
  <2>5. Covered(target')
    BY <1>t, <2>1, <2>2, CoveredAppend, CoveredTarget, ConstantsAssumption DEF TypeOK, IInv
  <2>6. LandedCovered'
    BY <2>5, <1>21, CoveredNow DEF Push
  <2> QED
    BY <2>3, <2>4, <2>6 DEF Local
<1> QED
  BY <1>0, <1>1, <1>2, <1>3, <1>4, <1>5, <1>6, <1>7, <1>8, <1>9, <1>10,
     <1>11, <1>12, <1>13, <1>14, <1>15, <1>16, <1>17, <1>18, <1>19, <1>20,
     <1>21
  DEF Next, Stage

\* Every step keeps the inductive invariant.
LEMMA StepIInv == IInv /\ [Next]_vars => IInv'
  BY TypeStep, StepKeeps DEF IInv

-----------------------------------------------------------------------------
\* Nothing that landed is ever lost from the target: landCandidate swings the
\* ref from the tip its candidate was built on or not at all, for any number
\* of stages and writers racing and any crash between the swing and its record.
THEOREM TargetOnlyGrows == Spec => NothingLost
<1>1. IInv /\ [Next]_vars => [IsPrefix(target, target')]_vars
  <2> SUFFICES ASSUME IInv, [Next]_vars PROVE IsPrefix(target, target')
    OBVIOUS
  <2>1. Grows /\ target \in Seq(EntryType)
    BY StepKeeps DEF IInv, TypeOK
  <2> QED
    BY <2>1, PrefixSelf, PrefixAppend DEF Grows
<1> QED
  BY <1>1, InitIInv, StepIInv, PTL DEF Spec, NothingLost

\* What a stage put on the target is contained in a head every gate passed,
\* although the checkout may move at every step between the gates' verdict,
\* the pin, the build and the swing of the ref.
THEOREM LandedIsCovered == Spec => []LandedCovered
<1>1. IInv => LandedCovered
  BY DEF IInv
<1> QED
  BY <1>1, InitIInv, StepIInv, PTL DEF Spec

\* A stage that reports its change landed is right, and stays right.
THEOREM ReportedIsLanded == Spec => []ReportedLanded
<1>1. IInv => ReportedLanded
  BY DEF IInv, Local, Mine, Passed, ReportedLanded, Merged, Has
<1> QED
  BY <1>1, InitIInv, StepIInv, PTL DEF Spec
=============================================================================
