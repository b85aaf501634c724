----------------------------- MODULE LocalLock -----------------------------
(***************************************************************************)
(* The cross-process file lock of the execution store                      *)
(* (src/lib/shell/local-execution-lock.js) and the sweep that removes what *)
(* dead processes leave of it (sweepLockLeftovers, execution-store.js).    *)
(*                                                                         *)
(* Four kinds of files take part: the lock, its breaker (<lock>.break),    *)
(* the breaker's removal guard (<lock>.break.clear) and, per breaking      *)
(* process, the lock it moved aside (<lock>.dead-<token>).  A file is      *)
(* created by an exclusive open and only then gets its owner written, so a *)
(* crash between the two leaves a file that names nobody.                  *)
(*                                                                         *)
(* One label of pc stands between any two file system calls of the code.   *)
(* removeOwn (read the token, unlink) is one step: FileOfLive below shows  *)
(* that nobody else removes or replaces a live process's own file.         *)
(***************************************************************************)
EXTENDS FiniteSets

CONSTANTS
    Proc,     \* operating system processes (pid with its start time)
    Mortal,   \* those that may crash
    NoProc    \* the owner of a file that does not exist

ASSUME ProcAssumption == NoProc \notin Proc /\ Mortal \subseteq Proc

VARIABLES
    alive,    \* the processes that exist
    lock,     \* the file <lock>
    breaker,  \* the file <lock>.break
    guard,    \* the file <lock>.break.clear
    moved,    \* moved[p]: the file <lock>.dead-<token of p>
    pc,       \* pc[p]: where p is in withLocalExecutionLock or the sweep
    back,     \* back[p]: where p goes on when clearBreaker returns
    sweeper   \* the process inside gcExecutions' own lock, or NoProc

vars == <<alive, lock, breaker, guard, moved, pc, back, sweeper>>

Owners == Proc \cup {NoProc}

NoFile == [owner |-> NoProc, written |-> FALSE]

File == [owner : Proc, written : BOOLEAN] \cup {NoFile}

AcquireLabels ==
    {"idle", "top", "wait", "create", "write", "check", "backoff", "cs",
     "inspect", "break", "breakWrite", "recheck", "rename",
     "judgeMoved", "unbreak"}

ClearLabels ==
    {"judge", "guard", "guardWrite", "rejudge", "movedLive", "unlinkBreaker",
     "unguard"}

SweepLabels == {"sweepGuard", "unlinkGuard", "sweepBreaker", "sweepMoved",
                "sweepLock"}

Labels == AcquireLabels \cup ClearLabels \cup SweepLabels

TypeOK ==
    /\ alive \subseteq Proc
    /\ lock \in File
    /\ breaker \in File
    /\ guard \in File
    /\ moved \in [Proc -> File]
    /\ pc \in [Proc -> Labels]
    /\ back \in [Proc -> {"create", "sweepMoved"}]
    /\ sweeper \in Owners

Init ==
    /\ alive = Proc
    /\ lock = NoFile
    /\ breaker = NoFile
    /\ guard = NoFile
    /\ moved = [p \in Proc |-> NoFile]
    /\ pc = [p \in Proc |-> "idle"]
    /\ back = [p \in Proc |-> "create"]
    /\ sweeper = NoProc

-----------------------------------------------------------------------------
(* What the code reads of a file.                                          *)

Exists(f) == f.owner # NoProc

\* Mutant: a file that cannot be read counts as dead.
DeadUnlessRead(f) == Exists(f) /\ (~f.written \/ f.owner \notin alive)

\* Dead only on positive evidence: a file whose owner was never written
\* (read answers null) is not dead, whoever opened it.
Dead(f) == f.written /\ f.owner \notin alive

Opened(p) == [owner |-> p, written |-> FALSE]

OpenExclusive(f, p) == IF Exists(f) THEN f ELSE Opened(p)

Written(p) == [owner |-> p, written |-> TRUE]

RemoveOwn(f, p) == IF f = Written(p) THEN NoFile ELSE f

MovedLockLive == \E q \in Proc : Exists(moved[q]) /\ ~Dead(moved[q])

At(p, label) == p \in alive /\ pc[p] = label

Goto(p, label) == pc' = [pc EXCEPT ![p] = label]

Files == <<lock, breaker, guard, moved>>

\* The steps of p that only read, or that write one file.
Look(p, from, to) ==
    At(p, from) /\ Goto(p, to) /\ UNCHANGED <<alive, Files, back, sweeper>>

PutLock(p, from, to, file) ==
    /\ At(p, from) /\ Goto(p, to) /\ lock' = file
    /\ UNCHANGED <<alive, breaker, guard, moved, back, sweeper>>

PutBreaker(p, from, to, file) ==
    /\ At(p, from) /\ Goto(p, to) /\ breaker' = file
    /\ UNCHANGED <<alive, lock, guard, moved, back, sweeper>>

PutGuard(p, from, to, file) ==
    /\ At(p, from) /\ Goto(p, to) /\ guard' = file
    /\ UNCHANGED <<alive, lock, breaker, moved, back, sweeper>>

EndSweep(p) == sweeper' = IF sweeper = p THEN NoProc ELSE sweeper

-----------------------------------------------------------------------------
(* clearBreaker: remove a dead process's breaker under the guard.          *)

\* Mutant: a breaker is taken for a live process's without being judged.
JudgeNot(p) == Look(p, "judge", back[p])

Judge(p) == Look(p, "judge", IF Dead(breaker) THEN "guard" ELSE back[p])

OpenGuard(p) == PutGuard(p, "guard", IF Exists(guard) THEN back[p] ELSE "guardWrite",
                         OpenExclusive(guard, p))

WriteGuard(p) == PutGuard(p, "guardWrite", "rejudge", Written(p))

Rejudge(p) == Look(p, "rejudge", IF Dead(breaker) THEN "movedLive" ELSE "unguard")

CheckMoved(p) ==
    Look(p, "movedLive", IF MovedLockLive THEN "unguard" ELSE "unlinkBreaker")

\* By name: whatever file is at the path goes.
UnlinkBreaker(p) == PutBreaker(p, "unlinkBreaker", "unguard", NoFile)

Unguard(p) == PutGuard(p, "unguard", back[p], RemoveOwn(guard, p))

ClearBreaker(p) ==
    \/ Judge(p) \/ OpenGuard(p) \/ WriteGuard(p) \/ Rejudge(p)
    \/ CheckMoved(p) \/ UnlinkBreaker(p) \/ Unguard(p)

-----------------------------------------------------------------------------
(* withLocalExecutionLock.                                                 *)

Call(p) == Look(p, "idle", "top")

Top(p) ==
    /\ At(p, "top")
    /\ Goto(p, IF Exists(breaker) THEN "judge" ELSE "create")
    /\ back' = [back EXCEPT ![p] = "create"]
    /\ UNCHANGED <<alive, Files, sweeper>>

Create(p) == PutLock(p, "create", IF Exists(lock) THEN "inspect" ELSE "write",
                     OpenExclusive(lock, p))

Write(p) == PutLock(p, "write", "check", Written(p))

\* The breaker is looked at again after the exclusive create.
Check(p) == Look(p, "check", IF Exists(breaker) THEN "backoff" ELSE "cs")

Backoff(p) == PutLock(p, "backoff", "wait", RemoveOwn(lock, p))

\* fn settled (or threw): the finally clause removes the lock.
Release(p) ==
    /\ At(p, "cs")
    /\ Goto(p, "idle")
    /\ lock' = RemoveOwn(lock, p)
    /\ EndSweep(p)
    /\ UNCHANGED <<alive, breaker, guard, moved, back>>

Inspect(p) == Look(p, "inspect", IF Dead(lock) THEN "break" ELSE "wait")

OpenBreaker(p) ==
    PutBreaker(p, "break", IF Exists(breaker) THEN "wait" ELSE "breakWrite",
               OpenExclusive(breaker, p))

WriteBreaker(p) == PutBreaker(p, "breakWrite", "recheck", Written(p))

\* Mutant: the lock is not looked at again under the breaker.
RecheckNot(p) == Look(p, "recheck", "rename")

Recheck(p) == Look(p, "recheck", IF Dead(lock) THEN "rename" ELSE "unbreak")

Rename(p) ==
    /\ At(p, "rename")
    /\ Goto(p, IF Exists(lock) THEN "judgeMoved" ELSE "unbreak")
    /\ moved' = [moved EXCEPT ![p] = lock]
    /\ lock' = NoFile
    /\ UNCHANGED <<alive, breaker, guard, back, sweeper>>

\* A dead moved lock is unlinked.  One that is not dead is linked back to the
\* lock's path; when the path stays occupied the call throws and leaves both
\* its breaker and the moved file behind (MovedOnlyDead: never happens).
JudgeMoved(p) ==
    LET live == Exists(moved[p]) /\ ~Dead(moved[p])
        blocked == live /\ Exists(lock)
    IN  /\ At(p, "judgeMoved")
        /\ Goto(p, IF blocked THEN "idle" ELSE "unbreak")
        /\ lock' = IF live /\ ~blocked THEN moved[p] ELSE lock
        /\ moved' = [moved EXCEPT ![p] = IF blocked THEN @ ELSE NoFile]
        /\ sweeper' = IF blocked /\ sweeper = p THEN NoProc ELSE sweeper
        /\ UNCHANGED <<alive, breaker, guard, back>>

Unbreak(p) == PutBreaker(p, "unbreak", "wait", RemoveOwn(breaker, p))

Retry(p) == Look(p, "wait", "top")

\* A caller whose attempts are used up is told "contended".
GiveUp(p) ==
    /\ At(p, "wait")
    /\ Goto(p, "idle")
    /\ EndSweep(p)
    /\ UNCHANGED <<alive, Files, back>>

Acquire(p) ==
    \/ Top(p) \/ Retry(p) \/ Create(p) \/ Write(p) \/ Check(p) \/ Backoff(p)
    \/ Release(p) \/ Inspect(p) \/ OpenBreaker(p) \/ WriteBreaker(p)
    \/ Recheck(p) \/ Rename(p) \/ JudgeMoved(p) \/ Unbreak(p)

-----------------------------------------------------------------------------
(* sweepLockLeftovers, inside gcExecutions' lock: one live sweep at a time. *)
(* "Older than 15 minutes" is left to chance: a sweep may come before it.  *)

StartSweep(p) ==
    /\ At(p, "idle")
    /\ sweeper \notin alive
    /\ sweeper' = p
    /\ Goto(p, "sweepGuard")
    /\ UNCHANGED <<alive, Files, back>>

SweepGuard(p) ==
    Look(p, "sweepGuard", IF Dead(guard) THEN "unlinkGuard" ELSE "sweepBreaker")

\* By name, as every unlink of the sweep.
UnlinkGuard(p) == PutGuard(p, "unlinkGuard", "sweepBreaker", NoFile)

SweepBreaker(p) ==
    /\ At(p, "sweepBreaker")
    /\ Goto(p, IF Exists(breaker) THEN "judge" ELSE "sweepMoved")
    /\ back' = [back EXCEPT ![p] = "sweepMoved"]
    /\ UNCHANGED <<alive, Files, sweeper>>

SweepMoved(p) ==
    /\ At(p, "sweepMoved")
    /\ Goto(p, "sweepLock")
    /\ moved' = [q \in Proc |-> IF ~Exists(breaker) /\ Dead(moved[q])
                                  THEN NoFile ELSE moved[q]]
    /\ UNCHANGED <<alive, lock, breaker, guard, back, sweeper>>

\* A dead holder's lock is broken by taking the lock, never unlinked.
SweepLock(p) ==
    /\ At(p, "sweepLock")
    /\ Goto(p, IF Dead(lock) THEN "top" ELSE "idle")
    /\ sweeper' = IF Dead(lock) THEN sweeper ELSE NoProc
    /\ UNCHANGED <<alive, Files, back>>

Sweep(p) ==
    \/ SweepGuard(p) \/ UnlinkGuard(p) \/ SweepBreaker(p)
    \/ SweepMoved(p) \/ SweepLock(p)

-----------------------------------------------------------------------------
\* The process ends at any point; its files stay as they are.
Crash(p) ==
    /\ p \in alive \cap Mortal
    /\ alive' = alive \ {p}
    /\ UNCHANGED <<Files, pc, back, sweeper>>

Step(p) == ClearBreaker(p) \/ Acquire(p) \/ Sweep(p)

Next == \E p \in Proc :
    Call(p) \/ GiveUp(p) \/ StartSweep(p) \/ Step(p) \/ Crash(p)

Spec == Init /\ [][Next]_vars

\* Callers keep calling and every pass of the work loop and every session
\* start sweeps again, so calls and sweeps recur at every live process.
FairSpec ==
    /\ Spec
    /\ \A p \in Proc : /\ WF_vars(Step(p))
                       /\ WF_vars(Call(p))
                       /\ SF_vars(StartSweep(p))

-----------------------------------------------------------------------------
(* Properties.                                                             *)

\* Two live processes are never both inside fn: the exclusion
\* withLocalExecutionLock gives, whoever crashes where.
MutualExclusion ==
    \A p, q \in Proc : At(p, "cs") /\ At(q, "cs") => p = q

Holding == {"check", "backoff", "cs"}

Breaking == {"recheck", "rename", "judgeMoved", "unbreak"}

Guarding == {"rejudge", "movedLive", "unlinkBreaker", "unguard"}

LockOfLive ==
    \A p \in alive : /\ pc[p] = "write" => lock = Opened(p)
                     /\ pc[p] \in Holding => lock = Written(p)

BreakerOfLive ==
    \A p \in alive : /\ pc[p] = "breakWrite" => breaker = Opened(p)
                     /\ pc[p] \in Breaking => breaker = Written(p)

GuardOfLive ==
    \A p \in alive : /\ pc[p] = "guardWrite" => guard = Opened(p)
                     /\ pc[p] \in Guarding => guard = Written(p)

\* "A live process never loses exclusion because its transaction is slow": as
\* long as a process lives, the lock, breaker and guard it created stay at
\* their paths under its own token until it removes them itself.
FileOfLive == LockOfLive /\ BreakerOfLive /\ GuardOfLive

\* A breaker only ever moves a dead process's lock aside: the re-check under
\* the breaker makes the handback of a live holder's lock unnecessary.
MovedOnlyDead == \A p \in Proc : Exists(moved[p]) => Dead(moved[p])

\* "Under the guard the file judged dead is the file unlinked": from the moment
\* a process judges a file dead under its breaker, its guard or the sweep until
\* it renames or unlinks that file by name, the file stays a dead process's.
UnlinksJudged ==
    \A p \in alive :
        /\ pc[p] = "rename" => Dead(lock)
        /\ pc[p] \in {"movedLive", "unlinkBreaker"} => Dead(breaker)
        /\ pc[p] = "unlinkGuard" => Dead(guard)

\* Only the one live sweep is in the sweep's steps.
OneSweep ==
    \A p \in alive :
        \/ pc[p] \in SweepLabels
        \/ pc[p] \in ClearLabels /\ back[p] = "sweepMoved"
        => sweeper = p

\* A file opened by a process that died before it wrote its owner.
Torn(f) == Exists(f) /\ ~f.written /\ f.owner \notin alive

NoTorn == ~Torn(lock) /\ ~Torn(breaker) /\ ~Torn(guard)

\* A dead holder's lock never stays: unless a crash fell between the open and
\* the write of a lock file (such a file is never judged dead, and needs
\* stopped writers to recover), some live caller breaks the lock, whatever
\* dead breakers and guards stand in the way.
DeadLockBroken == []NoTorn => [](Dead(lock) => <>~Dead(lock))

=============================================================================
