----------------------- MODULE ExecutionRecordProofs -----------------------
(***************************************************************************)
(* What ExecutionRecord guarantees for any number of worker processes,     *)
(* agents, gates and candidates: the fence names one owner and only grows, *)
(* a completed record was accepted, a terminal record never moves, an      *)
(* integration is one of the tip.                                          *)
(*                                                                         *)
(* FenceNamesOwner is not inductive: a claim by another process hands out  *)
(* the record's fence plus one, which must be one nobody already holds.    *)
(* FenceBound says so.  A released record loses its owner, and with it     *)
(* every fence's meaning.                                                  *)
(***************************************************************************)
EXTENDS ExecutionRecord, SequenceTheorems, TLAPS

IInv ==
    /\ TypeOK
    /\ rec.owner.inst = None => rec.owner = NoOwner
    /\ rec.released => rec.owner = NoOwner
    /\ FenceNamesOwner
    /\ FenceBound
    /\ CompletedAccepted

\* An event changes neither the owner nor the record's release.
LEMMA EffectKeepsOwner ==
    ASSUME NEW r \in Record, NEW e \in Events
    PROVE  Effect(r, e).owner = r.owner /\ Effect(r, e).released = r.released
  BY DEF Record, Events, Effect, Pinned, Published

\* The tip of a record that has a candidate is one.
LEMMA TipType ==
    ASSUME NEW r \in Record, HasCandidate(r)
    PROVE  Tip(r) \in Candidate
  BY DEF Record, HasCandidate, Tip

\* An event that is admitted yields a record.
LEMMA EffectType ==
    ASSUME NEW r \in Record, NEW e \in Events, Admits(r, e, FALSE)
    PROVE  Effect(r, e) \in Record
<1>1. CASE e.type = "candidate.pinned"
  <2>1. e.cand \in Candidates /\ e.supersedes \in Candidates \cup {None}
        /\ e.ref \in BOOLEAN
    BY <1>1 DEF Events
  <2> DEFINE entry == [id |-> e.cand,
                      supersedes |-> IF HasCandidate(r) THEN Tip(r).id
                                     ELSE e.supersedes,
                      published |-> e.ref]
  <2>a. entry \in Candidate
    BY <2>1, TipType DEF Candidate
  <2>b. Append(r.chain, entry) \in Seq(Candidate)
    BY <2>a DEF Record
  <2> HIDE DEF entry
  <2>c. Pinned(r, e) = [r EXCEPT !.stage = "gating"]
        \/ Pinned(r, e) = [r EXCEPT !.stage = "gating",
              !.integration = IF HasCandidate(r) THEN None ELSE @,
              !.chain = Append(@, entry)]
    BY DEF Pinned, entry
  <2>2. Pinned(r, e) \in Record
    BY <2>b, <2>c DEF Record, Stages
  <2> QED
    BY <1>1, <2>2 DEF Effect
<1>2. CASE e.type = "candidate.published"
  <2> DEFINE chain == [k \in DOMAIN r.chain |->
                        IF r.chain[k].id = e.cand
                        THEN [r.chain[k] EXCEPT !.published = TRUE]
                        ELSE r.chain[k]]
  <2>d. r.chain \in Seq(Candidate)
    BY DEF Record
  <2>e. Len(r.chain) \in Nat /\ DOMAIN r.chain = 1 .. Len(r.chain)
        /\ \A k \in DOMAIN r.chain : r.chain[k] \in Candidate
    BY <2>d
  <2>f. \A k \in DOMAIN r.chain :
            [r.chain[k] EXCEPT !.published = TRUE] \in Candidate
    BY <2>e DEF Candidate
  <2>a. chain \in [1 .. Len(r.chain) -> Candidate]
    BY <2>e, <2>f
  <2> HIDE DEF chain
  <2>g. Seq(Candidate) = UNION {[1 .. n -> Candidate] : n \in Nat}
    BY SeqDef, Zenon
  <2>b. chain \in Seq(Candidate)
    BY <2>a, <2>e, <2>g, Zenon
  <2>c. Published(r, e.cand) = [r EXCEPT !.chain = chain]
    BY DEF Published, chain
  <2>1. Published(r, e.cand) \in Record
    BY <2>b, <2>c DEF Record
  <2> QED
    BY <1>2, <2>1 DEF Effect
<1>3. CASE e.type = "gate.settled"
  <2>1. e.gate \in Gates /\ e.state \in GateStates
        /\ e.cand \in Candidates \cup {None}
    BY <1>3 DEF Events
  <2>2. Tip(r).id \in Candidates
    BY <1>3, TipType DEF Admits, candidatePublished, Candidate
  <2> QED
    BY <1>3, <2>1, <2>2 DEF Effect, Record
<1>4. CASE e.type = "gate.started"
  BY <1>4 DEF Effect, Record, Events, Stages
<1>5. CASE e.type \notin {"candidate.pinned", "candidate.published",
                          "gate.settled", "gate.started"}
  BY <1>5 DEF Record, Events, Effect, Stages, IntegrationStates, GateStates
<1> QED
  BY <1>1, <1>2, <1>3, <1>4, <1>5

\* Only completion.written completes, and only at the boundary.
LEMMA EffectCompletes ==
    ASSUME NEW r \in Record, NEW e \in Events, ~isTerminal(r),
           Admits(r, e, FALSE), Effect(r, e).stage = "completed"
    PROVE  /\ boundaryReachedForGates(Effect(r, e), FALSE)
           /\ Boundary = "integration" => Effect(r, e).integration = "landed"
<1>1. e.type = "completion.written"
  BY DEF Record, Events, Effect, Pinned, Published, isTerminal
<1>2. boundaryReached(r, FALSE) /\ r.stage # "completed"
  BY <1>1 DEF Admits, isTerminal
<1>3. Effect(r, e) = [r EXCEPT !.stage = "completed"]
  BY <1>1 DEF Effect
<1> QED
  BY <1>2, <1>3 DEF Record, boundaryReached, boundaryReachedForGates,
     candidatePublished, gateAccepted, HasCandidate, Tip

\* The record as it is opened satisfies the invariant.
LEMMA InitIInv == Init => IInv
<1> SUFFICES ASSUME Init PROVE IInv
  OBVIOUS
<1>1. rec \in Record
  BY EmptySeq DEF Init, initExecution, Record, NoOwner, Stages
<1> QED
  BY <1>1, RecordAssumption DEF Init, IInv, TypeOK, initExecution, NoOwner,
     FenceNamesOwner, FenceBound, CompletedAccepted

\* Every step keeps the invariant.
LEMMA StepIInv == IInv /\ [Next]_vars => IInv'
<1> SUFFICES ASSUME IInv, [Next]_vars PROVE IInv'
  OBVIOUS
<1> USE ExecutionAssumption, RecordAssumption DEF IInv, TypeOK, NoOwner
<1>0. ASSUME UNCHANGED <<rec, fence>>, lease' \in 0 .. Ttl, alive' \subseteq Instances
      PROVE  IInv'
  <2>1. TypeOK' /\ (rec.owner.inst = None => rec.owner = NoOwner)'
        /\ (rec.released => rec.owner = NoOwner)'
    BY <1>0
  <2>2. (FenceNamesOwner /\ FenceBound /\ CompletedAccepted)'
    BY <1>0 DEF FenceNamesOwner, FenceBound, CompletedAccepted,
       boundaryReachedForGates, candidatePublished, gateAccepted, HasCandidate, Tip
  <2> QED
    BY <2>1, <2>2
<1>1. ASSUME NEW i \in Instances, NEW t \in BOOLEAN, Claim(i, t) PROVE IInv'
  <2>1. ClaimFence(rec, i, t) \in Nat
    BY DEF ClaimFence, Record
  <2>2. rec' \in Record /\ rec'.owner = [inst |-> i, fence |-> ClaimFence(rec, i, t)]
        /\ rec'.released = rec.released /\ rec'.stage = rec.stage
    BY <1>1, <2>1 DEF Claim, Own, Record
  <2>3. fence' = [fence EXCEPT ![i] = ClaimFence(rec, i, t)]
    BY <1>1 DEF Claim
  <2>4. ~rec.released /\ rec.stage # "completed"
    BY <1>1 DEF Claim, Claimable, isTerminal
  <2>5. FenceNamesOwner' /\ FenceBound'
    BY <2>1, <2>2, <2>3, <2>4 DEF FenceNamesOwner, FenceBound, ClaimFence, Record
  <2>6. CompletedAccepted'
    BY <2>2, <2>4 DEF CompletedAccepted
  <2>7. lease' \in 0 .. Ttl /\ alive' = alive
    BY <1>1 DEF Claim
  <2> QED
    BY <2>1, <2>2, <2>3, <2>4, <2>5, <2>6, <2>7
<1>2. ASSUME NEW i \in Instances, Renew(i) PROVE IInv'
  BY <1>0, <1>2 DEF Renew
<1>3. ASSUME Released(rec) = rec', rec.stage # "completed", lease' = 0,
             UNCHANGED <<seen, fence, alive>>
      PROVE  IInv'
  <2>1. rec' \in Record /\ rec'.owner = NoOwner /\ rec'.released
        /\ rec'.stage = rec.stage
    BY <1>3 DEF Released, Record
  <2>2. (FenceNamesOwner /\ FenceBound)'
    BY <1>3, <2>1 DEF FenceNamesOwner, FenceBound
  <2>3. CompletedAccepted'
    BY <1>3, <2>1 DEF CompletedAccepted
  <2> QED
    BY <1>3, <2>1, <2>2, <2>3
<1>4. ASSUME NEW i \in Instances, Release(i) PROVE IInv'
  BY <1>3, <1>4 DEF Release
<1>5. CASE ForceRelease
  BY <1>3, <1>5 DEF ForceRelease, isTerminal
<1>6. ASSUME NEW i \in Instances, NEW e \in EventsSent, Report(i, e) PROVE IInv'
  <2>1. e \in Events /\ ~isTerminal(rec) /\ Admits(rec, e, FALSE)
        /\ rec' = Effect(rec, e)
    BY <1>6 DEF Report, Accepts, EventsSent
  <2>2. rec' \in Record /\ rec'.owner = rec.owner /\ rec'.released = rec.released
    BY <2>1, EffectType, EffectKeepsOwner
  <2>3. CompletedAccepted'
    BY <2>1, EffectCompletes DEF CompletedAccepted, boundaryReachedForGates,
       candidatePublished, gateAccepted, HasCandidate, Tip
  <2> QED
    BY <1>6, <2>2, <2>3 DEF Report, FenceNamesOwner, FenceBound
<1>7. CASE Tick
  BY <1>0, <1>7 DEF Tick
<1>8. ASSUME NEW i \in Instances, Crash(i) PROVE IInv'
  BY <1>0, <1>8 DEF Crash
<1>9. CASE UNCHANGED vars
  BY <1>0, <1>9 DEF vars
<1> QED
  BY <1>1, <1>2, <1>4, <1>5, <1>6, <1>7, <1>8, <1>9 DEF Next

\* The invariant holds in every reachable state.
LEMMA Invariance == Spec => []IInv
  BY InitIInv, StepIInv, PTL DEF Spec

\* The record, the lease and the fences keep their types.
THEOREM TypeCorrectness == Spec => []TypeOK
<1>1. IInv => TypeOK
  BY DEF IInv
<1> QED
  BY Invariance, <1>1, PTL

\* Two processes never hold the current fence together: a process that does is
\* the owner, so the writes of every displaced process are refused.
THEOREM OneFenceHolder == Spec => []FenceNamesOwner
<1>1. IInv => FenceNamesOwner
  BY DEF IInv
<1> QED
  BY Invariance, <1>1, PTL

\* A completed record shows a published tip accepted by every pinned gate and,
\* at the integration boundary, landed.
THEOREM CompletionEarned == Spec => []CompletedAccepted
<1>1. IInv => CompletedAccepted
  BY DEF IInv
<1> QED
  BY Invariance, <1>1, PTL

\* The fence never falls while the execution lives, and every change of owner
\* raises it.
THEOREM FenceGrows == Spec => FenceAdvances
<1> DEFINE A == ~rec'.released =>
                  /\ rec'.owner.fence >= rec.owner.fence
                  /\ rec'.owner.inst # rec.owner.inst =>
                        rec'.owner.fence > rec.owner.fence
<1>1. IInv /\ [Next]_vars => [A]_vars
  <2> SUFFICES ASSUME IInv, Next PROVE A
    OBVIOUS
  <2>0. rec.owner.fence \in Nat
    BY DEF IInv, TypeOK, Record
  <2>1. ASSUME NEW i \in Instances, NEW t \in BOOLEAN, Claim(i, t) PROVE A
    BY <2>0, <2>1 DEF Claim, ClaimFence, Own, IInv, TypeOK, Record
  <2>2. ASSUME Released(rec) = rec' PROVE A
    BY <2>2 DEF Released, IInv, TypeOK, Record
  <2>3. ASSUME NEW i \in Instances, NEW e \in EventsSent, Report(i, e) PROVE A
    <3>1. rec'.owner = rec.owner
      BY <2>3, EffectKeepsOwner DEF Report, EventsSent, IInv, TypeOK
    <3> QED
      BY <2>0, <3>1
  <2>4. CASE rec' = rec
    BY <2>0, <2>4
  <2> QED
    BY <2>1, <2>2, <2>3, <2>4 DEF Next, Renew, Release, ForceRelease, Tick, Crash
<1> QED
  BY Invariance, <1>1, PTL DEF Spec, FenceAdvances

\* A completed or released record never moves again.
THEOREM TerminalStays == Spec => TerminalFrozen
<1>1. IInv /\ [Next]_vars => [isTerminal(rec) => rec' = rec]_vars
  <2> SUFFICES ASSUME IInv, Next, isTerminal(rec) PROVE rec' = rec
    OBVIOUS
  <2>1. ASSUME NEW i \in Instances, NEW t \in BOOLEAN, Claim(i, t) PROVE FALSE
    BY <2>1 DEF Claim, Claimable
  <2>2. ASSUME NEW i \in Instances, Release(i) PROVE FALSE
    BY <2>2 DEF Release, isTerminal, ownershipLive, ownershipFence, IInv
  <2>3. ASSUME ForceRelease PROVE FALSE
    BY <2>3 DEF ForceRelease
  <2>4. ASSUME NEW i \in Instances, NEW e \in EventsSent, Report(i, e) PROVE FALSE
    BY <2>4 DEF Report, Accepts
  <2> QED
    BY <2>1, <2>2, <2>3, <2>4 DEF Next, Renew, Tick, Crash
<1> QED
  BY Invariance, <1>1, PTL DEF Spec, TerminalFrozen

IntegratedHasCandidate == rec.integration # None => HasCandidate(rec)

\* An event that leaves an integration where there was one keeps the tip, and
\* integration is never recorded before there is a candidate.
LEMMA EffectKeepsIntegrated ==
    ASSUME NEW r \in Record, NEW e \in Events, Admits(r, e, FALSE),
           r.integration # None => HasCandidate(r)
    PROVE  /\ Effect(r, e).integration # None => HasCandidate(Effect(r, e))
           /\ r.integration # None /\ Effect(r, e).integration # None
                => Tip(Effect(r, e)).id = Tip(r).id
<1> USE DEF HasCandidate, Tip
<1>1. CASE e.type = "candidate.pinned"
  <2>1. Effect(r, e) = Pinned(r, e)
    BY <1>1 DEF Effect
  <2>2. CASE HasCandidate(r)
    BY <2>1, <2>2 DEF Pinned, Record
  <2>3. CASE ~HasCandidate(r)
    <3>1. Pinned(r, e).integration = r.integration
      BY <2>3 DEF Pinned, Record
    <3> QED
      BY <2>1, <2>3, <3>1
  <2> QED
    BY <2>2, <2>3
<1>2. CASE e.type = "candidate.published"
  <2> DEFINE chain == [k \in DOMAIN r.chain |->
                        IF r.chain[k].id = e.cand
                        THEN [r.chain[k] EXCEPT !.published = TRUE]
                        ELSE r.chain[k]]
  <2>1. r.chain \in Seq(Candidate)
    BY DEF Record
  <2>2. Len(r.chain) \in Nat /\ DOMAIN r.chain = 1 .. Len(r.chain)
        /\ \A k \in DOMAIN r.chain : r.chain[k] \in Candidate
    BY <2>1
  <2>3. \A k \in DOMAIN r.chain : chain[k].id = r.chain[k].id
    BY <2>2 DEF Candidate
  <2>4. DOMAIN chain = 1 .. Len(r.chain)
    BY <2>2
  <2>5. Effect(r, e) = [r EXCEPT !.chain = chain]
    BY <1>2 DEF Effect, Published
  <2>6. Effect(r, e) \in Record
    BY <1>2, EffectType
  <2> HIDE DEF chain
  <2>7. Effect(r, e).chain = chain /\ Effect(r, e).integration = r.integration
    BY <2>5 DEF Record
  <2>8. chain \in Seq(Candidate)
    BY <2>6, <2>7 DEF Record
  <2>9. Len(chain) = Len(r.chain)
    BY <2>2, <2>4, <2>8
  <2>10. r.chain # <<>> => Len(r.chain) \in DOMAIN r.chain /\ chain # <<>>
    BY <2>1, <2>2, <2>8, <2>9
  <2> QED
    BY <2>3, <2>7, <2>9, <2>10
<1>3. CASE e.type = "integration.started"
  BY <1>3 DEF Admits, boundaryReachedForGates, candidatePublished, Effect, Record
<1>4. CASE e.type \notin {"candidate.pinned", "candidate.published",
                          "integration.started"}
  BY <1>4 DEF Admits, Effect, Record, Events
<1> QED
  BY <1>1, <1>2, <1>3, <1>4

\* An integration on the record is one of its tip: a re-pin voids it.
THEOREM IntegrationIsOfTip == Spec => IntegrationOfTip
<1> DEFINE A == rec.integration # None /\ rec'.integration # None
                  => Tip(rec').id = Tip(rec).id
<1>1. Init => IntegratedHasCandidate
  BY DEF Init, initExecution, IntegratedHasCandidate
<1>2. IInv /\ IntegratedHasCandidate /\ [Next]_vars
        => IntegratedHasCandidate' /\ [A]_vars
  <2> SUFFICES ASSUME IInv, IntegratedHasCandidate, [Next]_vars
               PROVE  IntegratedHasCandidate' /\ A
    OBVIOUS
  <2> USE DEF IntegratedHasCandidate
  <2>0. rec \in Record
    BY DEF IInv, TypeOK
  <2>1. ASSUME rec'.chain = rec.chain, rec'.integration = rec.integration
        PROVE  IntegratedHasCandidate' /\ A
    BY <2>1 DEF HasCandidate, Tip
  <2>2. ASSUME NEW i \in Instances, NEW t \in BOOLEAN, Claim(i, t)
        PROVE  rec'.chain = rec.chain /\ rec'.integration = rec.integration
    BY <2>0, <2>2 DEF Claim, Own, Record
  <2>3. ASSUME rec' = Released(rec)
        PROVE  rec'.chain = rec.chain /\ rec'.integration = rec.integration
    BY <2>0, <2>3 DEF Released, Record
  <2>4. ASSUME NEW i \in Instances, NEW e \in EventsSent, Report(i, e)
        PROVE  IntegratedHasCandidate' /\ A
    BY <2>0, <2>4, EffectKeepsIntegrated DEF Report, Accepts, EventsSent
  <2>5. CASE rec' = rec
    BY <2>1, <2>5
  <2> QED
    BY <2>1, <2>2, <2>3, <2>4, <2>5
       DEF Next, Renew, Release, ForceRelease, Tick, Crash, vars
<1> QED
  BY Invariance, <1>1, <1>2, PTL DEF Spec, IntegrationOfTip

=============================================================================
