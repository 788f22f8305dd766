------------------------- MODULE ChapterCommitProofs -------------------------
(***************************************************************************)
(* The chapter transaction keeps the project directory well formed through *)
(* every crash and fault, and is atomic as long as the process does not    *)
(* die and errors come before the snapshot is published.  Then nothing     *)
(* uncommitted is on disk, and what AtomicStoryProofs shows of the atomic  *)
(* story holds of the one on disk.                                         *)
(***************************************************************************)
EXTENDS ChapterCommit, StoryStoreTheorems

USE StoreAssumption, TornAssumption, CommitAssumption

CommitSteps == {"log_begin", "backup", "stage", "publish", "index", "log_commit",
                "event", "report", "manifest", "cleanup", "undo"}
CommitTx == [id : TxIds, chapter : Chapters, draft : Drafts,
             before : Disk, after : Disk]

\* TypeOK is not inductive: the arguments of the operation in progress have to
\* be those of its kind.
TxOK ==
    /\ pc \in CommitSteps => tx \in CommitTx
    /\ pc \in {"rollback", "fork"} => tx \in Transaction
TypeInv == TypeOK /\ TxOK

LEMMA FilesOfDisk ==
  ASSUME NEW x \in Disk, NEW y \in Disk, \A f \in Files : x[f] = y[f]
  PROVE  x = y
BY DEF Disk, Files

\* Writing one file of a directory into another.
LEMMA WriteType ==
  ASSUME NEW x \in Disk, NEW y \in Disk, NEW f \in Files
  PROVE  /\ [x EXCEPT ![f] = y[f]] \in Disk
         /\ [x EXCEPT ![f] = y[f]][f] = y[f]
         /\ \A g \in Files \ {f} : [x EXCEPT ![f] = y[f]][g] = x[g]
BY ZenonT(60) DEF Disk, Files

LEMMA WriteOne ==
  ASSUME NEW x \in Disk, NEW y \in Disk, NEW f \in Files, NEW z,
         z = [x EXCEPT ![f] = y[f]]
  PROVE  \A g \in Files : z[g] = IF g = f THEN y[g] ELSE x[g]
BY DEF Disk, Files

LEMMA DamagedType ==
  ASSUME NEW x \in Disk, NEW f \in Files, NEW c \in Chapters
  PROVE  /\ Damaged(x, f, c) \in Disk
         /\ \A g \in Files \ {f} : Damaged(x, f, c)[g] = x[g]
<1>1. CASE f = "chapters"
  <2>1. [x.chapters EXCEPT ![c] = Torn] \in [Chapters -> Drafts \cup {NoDraft, Torn}]
    BY DEF Disk
  <2>2. Damaged(x, f, c) = [x EXCEPT !.chapters = [x.chapters EXCEPT ![c] = Torn]]
    BY <1>1 DEF Damaged
  <2> QED
    BY <1>1, <2>1, <2>2 DEF Disk, Files
<1>2. CASE f = "snaps"
  <2>1. [x.snaps EXCEPT ![c] = Torn] \in [Chapters -> Snapshot \cup {NoSnap, Torn}]
    BY DEF Disk
  <2>2. Damaged(x, f, c) = [x EXCEPT !.snaps = [x.snaps EXCEPT ![c] = Torn]]
    BY <1>2 DEF Damaged
  <2> QED
    BY <1>2, <2>1, <2>2 DEF Disk, Files
<1>3. CASE f \notin {"chapters", "snaps"}
  <2>1. Damaged(x, f, c) = [x EXCEPT ![f] = Torn]
    BY <1>3 DEF Damaged
  <2> QED
    BY <1>3, <2>1 DEF Disk, Files
<1> QED
  BY <1>1, <1>2, <1>3

\* What the undo writes back is a directory, and the one that was read if no
\* file of it was truncated.
LEMMA RestoredType ==
  ASSUME NEW x \in Disk
  PROVE  Restored(x) \in Disk /\ (Untorn(x) => Restored(x) = x)
<1>1. Restored(x) = [Read(x) EXCEPT !.hybrid = x.hybrid]
  BY DEF Restored
<1>2. Read(x) \in Disk
  BY ReadType DEF Read, Disk
<1>3. Restored(x) \in Disk
  BY <1>1, <1>2 DEF Disk
<1>4. ASSUME Untorn(x) PROVE Restored(x) = x
  <2>1. Read(x) = x
    BY <1>4 DEF Read, Untorn, Disk
  <2> QED
    BY <1>1, <2>1 DEF Disk
<1> QED
  BY <1>3, <1>4

LEMMA InitTypeInv == Init => TypeInv
<1> SUFFICES ASSUME Init PROVE TypeInv
  OBVIOUS
<1>1. prov \in Provenance
  BY DEF Init, Provenance
<1>2. TypeOK
  BY <1>1, InitDiskType DEF Init, TypeOK, Steps
<1>3. TxOK
  BY DEF Init, TxOK, CommitSteps
<1> QED
  BY <1>2, <1>3 DEF TypeInv

\* A call only answers, or begins a commit of well-formed arguments.
LEMMA CallTypeInv == TypeInv /\ Call => TypeInv'
<1> SUFFICES ASSUME TypeInv, pc = "idle", NEW q \in Calls,
                    Replay(q) \/ Already(q) \/ Begin(q) \/ Reject(q)
             PROVE  TypeInv'
  BY DEF Call
<1> USE DEF TypeInv
<1>1. /\ q.id \in TxIds /\ q.chapter \in Chapters /\ q.draft \in Drafts
      /\ q.branch \in Branches
  BY DEF Calls
<1>2. CASE Replay(q) \/ Already(q)
  <2>1. reply' \in Answer
    BY <1>1, <1>2 DEF Replay, Already, Answers, Answer
  <2>2. UNCHANGED <<disk, pc, tx, done, journal, begun, index, staging, prov, acked>>
    BY <1>2 DEF Replay, Already, Answers, logs
  <2> QED
    BY <2>1, <2>2 DEF TypeOK, TxOK
<1>3. CASE Reject(q)
  BY <1>3 DEF Reject, logs, TypeOK, TxOK
<1>4. CASE Begin(q)
  <2>1. disk \in Disk /\ disk.state # Torn /\ disk.meta # Torn
    BY <1>4 DEF Begin, Accepted, TypeOK
  <2>2. CommitDisk(disk, q.chapter, q.draft, q.branch) \in Disk
    BY <1>1, <2>1, CommitDiskType
  <2>3. tx' \in CommitTx
    BY <1>1, <1>4, <2>1, <2>2 DEF Begin, CommitTx
  <2>4. tx' \in Transaction
    BY <2>3 DEF CommitTx, Transaction, Targets
  <2> QED
    BY <1>1, <1>4, <2>3, <2>4 DEF Begin, TypeOK, TxOK, Steps
<1> QED
  BY <1>2, <1>3, <1>4

\* The steps of a commit.
LEMMA CommitTypeInv ==
  ASSUME TypeInv,
         \/ LogBegin \/ Prepare \/ (\E f \in Files : Publish(f)) \/ SaveIndex
         \/ LogCommit \/ AppendEvent \/ WriteReport \/ WriteManifest \/ Cleanup
         \/ FailUnprotected
  PROVE  TypeInv'
<1> USE DEF TypeInv
<1>0. pc \in CommitSteps => /\ tx.id \in TxIds /\ tx.chapter \in Chapters
                            /\ tx.draft \in Drafts /\ tx.after \in Disk /\ tx.before \in Disk
  BY DEF TxOK, CommitTx
<1>1. CASE LogBegin
  <2>1. /\ journal' \in [TxIds \cup {NoTx} -> SUBSET Phases]
        /\ begun' \in [TxIds -> [chapter : Chapters, draft : Drafts] \cup {NoTx}]
    BY <1>0, <1>1 DEF LogBegin, Log, Phases, TypeOK, CommitSteps
  <2> QED
    BY <1>1, <2>1 DEF LogBegin, TypeOK, TxOK, Steps, CommitSteps
<1>2. CASE Prepare
  BY <1>2 DEF Prepare, logs, TypeOK, TxOK, Steps, CommitSteps
<1>3. ASSUME NEW f \in Files, Publish(f) PROVE TypeInv'
  <2>1. disk' \in Disk
    BY <1>0, <1>3, WriteType DEF Publish, TypeOK, CommitSteps
  <2>2. pc' \in {"publish", "index"} /\ done' \subseteq Files
    BY <1>3 DEF Publish, TypeOK
  <2> QED
    BY <1>3, <2>1, <2>2 DEF Publish, logs, TypeOK, TxOK, Steps, CommitSteps
<1>4. CASE SaveIndex
  BY <1>0, <1>4 DEF SaveIndex, TypeOK, TxOK, Steps, CommitSteps
<1>5. CASE LogCommit
  <2>1. /\ journal' \in [TxIds \cup {NoTx} -> SUBSET Phases]
        /\ acked' \in [Chapters -> Drafts \cup {NoDraft}]
    BY <1>0, <1>5 DEF LogCommit, Log, Phases, TypeOK, CommitSteps
  <2> QED
    BY <1>5, <2>1 DEF LogCommit, TypeOK, TxOK, Steps, CommitSteps
<1>6. CASE AppendEvent
  <2>1. prov' \in Provenance
    <3>1. tx.id \in TxIds /\ prov \in Provenance
      BY <1>0, <1>6 DEF AppendEvent, Govern, TypeOK, CommitSteps
    <3>2. [prov EXCEPT !.events = @ \cup {tx.id}] \in Provenance
      BY <3>1 DEF Provenance
    <3> QED
      BY <1>6, <3>1, <3>2 DEF AppendEvent, Govern
  <2> QED
    BY <1>6, <2>1 DEF AppendEvent, Govern, TypeOK, TxOK, Steps, CommitSteps
<1>7. CASE WriteReport
  <2>1. prov' \in Provenance
    <3>1. tx.id \in TxIds /\ tx.chapter \in Chapters /\ prov \in Provenance
      BY <1>0, <1>7 DEF WriteReport, Govern, TypeOK, CommitSteps
    <3>2. [prov.report EXCEPT ![tx.chapter] = tx.id] \in [Chapters -> TxIds \cup {NoTx}]
      BY <3>1 DEF Provenance
    <3>3. [prov EXCEPT !.report[tx.chapter] = tx.id] \in Provenance
      BY <3>1, <3>2 DEF Provenance
    <3> QED
      BY <1>7, <3>1, <3>3 DEF WriteReport, Govern
  <2> QED
    BY <1>7, <2>1 DEF WriteReport, Govern, TypeOK, TxOK, Steps, CommitSteps
<1>8. CASE WriteManifest
  <2>1. [state |-> disk.state, meta |-> disk.meta] \in Manifest
    BY DEF Manifest, Disk, TypeOK
  <2>2. prov' \in Provenance
    BY <1>8, <2>1 DEF WriteManifest, Govern, TypeOK, Provenance
  <2> QED
    BY <1>8, <2>2 DEF WriteManifest, Govern, TypeOK, TxOK, Steps, CommitSteps
<1>9. CASE Cleanup
  <2>1. reply' \in Answer
    BY <1>0, <1>9 DEF Cleanup, Answer, CommitSteps
  <2> QED
    BY <1>9, <2>1 DEF Cleanup, Finish, TypeOK, TxOK, Steps, CommitSteps
<1>10. CASE FailUnprotected
  BY <1>10 DEF FailUnprotected, Finish, logs, TypeOK, TxOK, Steps, CommitSteps
<1> QED
  BY <1>1, <1>2, <1>3, <1>4, <1>5, <1>6, <1>7, <1>8, <1>9, <1>10

\* The undo, the rollback and the fork.
LEMMA OtherTypeInv ==
  ASSUME TypeInv,
         \/ Fail \/ (\E f \in Files : Undo(f)) \/ LogAbort
         \/ (\E t \in Targets : BeginRollback(t))
         \/ (\E f \in Files : RollbackFile(f)) \/ LogRollback
         \/ (\E b \in Branches, c \in Targets : BeginFork(b, c))
         \/ (\E f \in Files : ForkFile(f))
  PROVE  TypeInv'
<1> USE DEF TypeInv
<1>0. /\ pc \in CommitSteps => /\ tx.id \in TxIds /\ tx.chapter \in Chapters
                               /\ tx.draft \in Drafts
                               /\ tx.after \in Disk /\ tx.before \in Disk
      /\ pc \in {"rollback", "fork"} => tx.after \in Disk /\ tx.before \in Disk
  BY DEF TxOK, CommitTx, Transaction
<1>1. CASE Fail
  <2>1. disk' \in Disk
    <3>1. CASE UNCHANGED disk
      BY <3>1 DEF TypeOK
    <3>2. ASSUME NEW f \in FaultPoints, pc = "publish", Due(PublishRank, f),
                 disk' \in {disk, Damaged(disk, f, tx.chapter)}
          PROVE  disk' \in Disk
      <4>1. f \in Files
        BY <3>2 DEF Due, PublishRank, Files
      <4> QED
        BY <1>0, <3>2, <4>1, DamagedType DEF TypeOK, CommitSteps
    <3> QED
      BY <1>1, <3>1, <3>2 DEF Fail
  <2>2. pc \in CommitSteps
    BY <1>1 DEF Fail, CommitSteps
  <2> QED
    BY <1>1, <2>1, <2>2 DEF Fail, logs, TypeOK, TxOK, Steps, CommitSteps
<1>2. ASSUME NEW f \in Files, Undo(f) PROVE TypeInv'
  <2>1. disk' \in Disk
    BY <1>0, <1>2, WriteType, RestoredType DEF Undo, TypeOK, CommitSteps
  <2> QED
    BY <1>2, <2>1 DEF Undo, logs, TypeOK, TxOK, Steps, CommitSteps
<1>3. CASE LogAbort
  <2>1. /\ journal' \in [TxIds \cup {NoTx} -> SUBSET Phases]
        /\ begun' \in [TxIds -> [chapter : Chapters, draft : Drafts] \cup {NoTx}]
    BY <1>0, <1>3 DEF LogAbort, Log, Phases, TypeOK, CommitSteps
  <2> QED
    BY <1>3, <2>1 DEF LogAbort, Finish, TypeOK, TxOK, Steps, CommitSteps
<1>4. ASSUME NEW t \in Targets, BeginRollback(t) PROVE TypeInv'
  <2>1. RollbackDisk(disk, t) \in Disk
    BY <1>4, RollbackDiskType DEF BeginRollback, TypeOK
  <2>2. tx' \in Transaction
    BY <1>4, <2>1 DEF BeginRollback, Writes, Transaction, TypeOK
  <2>3. acked' \in [Chapters -> Drafts \cup {NoDraft}]
    BY <1>4 DEF BeginRollback, TypeOK
  <2> QED
    BY <1>4, <2>2, <2>3 DEF BeginRollback, logs, TypeOK, TxOK, Steps, CommitSteps
<1>5. ASSUME NEW f \in Files, RollbackFile(f) PROVE TypeInv'
  <2>1. disk' \in Disk
    BY <1>0, <1>5, WriteType DEF RollbackFile, TypeOK
  <2> QED
    BY <1>5, <2>1 DEF RollbackFile, logs, TypeOK, TxOK, Steps, CommitSteps
<1>6. CASE LogRollback
  <2>1. journal' \in [TxIds \cup {NoTx} -> SUBSET Phases]
    BY <1>6 DEF LogRollback, Log, Phases, TypeOK
  <2> QED
    BY <1>6, <2>1 DEF LogRollback, Finish, TypeOK, TxOK, Steps, CommitSteps
<1>7. ASSUME NEW b \in Branches, NEW c \in Targets, BeginFork(b, c) PROVE TypeInv'
  <2>1. ForkDisk(disk, b, c) \in Disk
    BY <1>7, ForkDiskType DEF BeginFork, TypeOK
  <2>2. tx' \in Transaction
    BY <1>7, <2>1 DEF BeginFork, Writes, Transaction, TypeOK
  <2> QED
    BY <1>7, <2>2 DEF BeginFork, logs, TypeOK, TxOK, Steps, CommitSteps
<1>8. ASSUME NEW f \in Files, ForkFile(f) PROVE TypeInv'
  <2>1. disk' \in Disk
    BY <1>0, <1>8, WriteType DEF ForkFile, TypeOK
  <2>2. \/ pc' = "idle" /\ tx' = NoTx /\ done' = {}
        \/ pc' = "fork" /\ tx' = tx /\ done' \subseteq Files
    BY <1>8 DEF ForkFile, Finish, TypeOK
  <2> QED
    BY <1>8, <2>1, <2>2 DEF ForkFile, logs, TypeOK, TxOK, Steps, CommitSteps
<1> QED
  BY <1>1, <1>2, <1>3, <1>4, <1>5, <1>6, <1>7, <1>8

\* A crash damages at most the file being written, or moves some of the files
\* on their way to the trash; the recovery touches the logs only.
LEMMA CrashTypeInv == TypeInv /\ (Crash \/ Exit \/ Start) => TypeInv'
<1> SUFFICES ASSUME TypeInv, Crash \/ Exit \/ Start PROVE TypeInv'
  OBVIOUS
<1> USE DEF TypeInv
<1>0. /\ pc \in CommitSteps => tx.chapter \in Chapters
      /\ pc \in {"rollback", "fork"} => tx.after \in Disk
  BY DEF TxOK, CommitTx, Transaction
<1>1. CASE Crash
  <2>1. disk' \in Disk
    <3>1. CASE disk' = disk
      BY <3>1 DEF TypeOK
    <3>2. ASSUME NEW f \in Files, pc \in {"publish", "undo"},
                 disk' = Damaged(disk, f, tx.chapter)
          PROVE  disk' \in Disk
      BY <1>0, <3>2, DamagedType DEF TypeOK, CommitSteps
    <3>3. ASSUME NEW f \in {"chapters", "snaps"}, NEW k \in Chapters,
                 pc = "rollback", disk' = Moved(f, k)
          PROVE  disk' \in Disk
      <4> DEFINE mixed == [c \in Chapters |->
                             IF c <= k THEN tx.after[f][c] ELSE disk[f][c]]
      <4>1. disk' = [disk EXCEPT ![f] = mixed]
        BY <3>3 DEF Moved
      <4>2. tx.after \in Disk /\ disk \in Disk
        BY <1>0, <3>3 DEF TypeOK
      <4>3. CASE f = "chapters"
        <5>1. mixed \in [Chapters -> Drafts \cup {NoDraft, Torn}]
          BY <4>2, <4>3 DEF Disk
        <5> HIDE DEF mixed
        <5> QED
          BY <4>1, <4>2, <4>3, <5>1 DEF Disk
      <4>4. CASE f = "snaps"
        <5>1. mixed \in [Chapters -> Snapshot \cup {NoSnap, Torn}]
          BY <4>2, <4>4 DEF Disk
        <5> HIDE DEF mixed
        <5> QED
          BY <4>1, <4>2, <4>4, <5>1 DEF Disk
      <4> QED
        BY <4>3, <4>4
    <3>4. disk' \in Interrupted
      BY <1>1 DEF Crash
    <3>5. CASE disk' \in {Damaged(disk, f, tx.chapter) : f \in BeingWritten}
      BY <3>2, <3>5 DEF BeingWritten
    <3>6. CASE disk' \in {Moved(f, k) : f \in BeingMoved, k \in Chapters}
      BY <3>3, <3>6 DEF BeingMoved
    <3> QED
      BY <3>1, <3>4, <3>5, <3>6 DEF Interrupted
  <2>2. acked' \in [Chapters -> Drafts \cup {NoDraft}]
    BY <1>1 DEF Crash, TypeOK
  <2> QED
    BY <1>1, <2>1, <2>2 DEF Crash, Stop, logs, TypeOK, TxOK, Steps, CommitSteps
<1>2. CASE Exit
  BY <1>2 DEF Exit, Stop, logs, TypeOK, TxOK, Steps, CommitSteps
<1>3. CASE Start
  <2>1. /\ staging' \subseteq TxIds
        /\ journal' \in [TxIds \cup {NoTx} -> SUBSET Phases]
        /\ index' \in [TxIds -> {"absent", "COMMITTED", "RECOVERED"}]
    <3>1. CASE UNCHANGED <<staging, journal, index>>
      BY <3>1 DEF TypeOK
    <3>2. CASE Recover
      BY <3>2 DEF Recover, TypeOK, Phases
    <3> QED
      BY <1>3, <3>1, <3>2 DEF Start
  <2> QED
    BY <1>3, <2>1 DEF Start, TypeOK, TxOK, Steps, CommitSteps
<1> QED
  BY <1>1, <1>2, <1>3

LEMMA NextTypeInv == TypeInv /\ [Next]_vars => TypeInv'
<1> SUFFICES ASSUME TypeInv, [Next]_vars PROVE TypeInv'
  OBVIOUS
<1>1. CASE UNCHANGED vars
  BY <1>1 DEF vars, TypeInv, TypeOK, TxOK
<1>2. CASE Next
  BY <1>2, CallTypeInv, CommitTypeInv, OtherTypeInv, CrashTypeInv DEF Next, Work
<1> QED
  BY <1>1, <1>2

\* Through any faults, any crash at any step, and any calls, the files, logs and
\* the operation in progress stay well formed: a rollback or a commit computed
\* from a damaged directory is a directory again.
THEOREM CommitTypeCorrect == Spec => []TypeOK
<1>1. TypeInv => TypeOK
  BY DEF TypeInv
<1> QED
  BY <1>1, InitTypeInv, NextTypeInv, PTL DEF Spec

-----------------------------------------------------------------------------
(* Atomicity.  The undo restores every file but the snapshot; what makes it  *)
(* enough is that nothing fails once the snapshot is out.                    *)

NoCrash == CrashPoints = {}
OnlyEarlyFaults == FaultPoints \cap {"snaps", "hybrid", "index", "log_commit"} = {}

\* What the operation in progress is about to do is what the abstract one does
\* to the story it read.
CommitPlanned == \E b \in Branches :
    /\ Asked(tx.before, tx.chapter, b)
    /\ Valid(tx.draft, tx.before.state)
    /\ ~AlreadyThere(tx.before, tx.chapter, tx.draft)
    /\ tx.after = CommitDisk(tx.before, tx.chapter, tx.draft, b)
RollbackPlanned ==
    /\ RollbackAsked(tx.before, tx.chapter)
    /\ tx.after = RollbackDisk(tx.before, tx.chapter)
ForkPlanned == \E b \in Branches :
    /\ ForkAsked(tx.before, tx.chapter)
    /\ Forkable(tx.before, b)
    /\ tx.after = ForkDisk(tx.before, b, tx.chapter)
Planned ==
    /\ pc \in {"log_begin", "backup", "stage", "publish", "index", "log_commit"} =>
         CommitPlanned
    /\ pc = "rollback" => RollbackPlanned
    /\ pc = "fork" => ForkPlanned

\* The bookkeeping of the phases.
DoneOK ==
    /\ pc \notin {"publish", "undo", "rollback", "fork"} => done = {}
    /\ pc = "publish" => \A f, g \in Files :
         f \in done /\ PublishRank[g] < PublishRank[f] => g \in done
    /\ pc = "fork" => done \subseteq {"heads", "meta"}

\* The inductive invariant.
AtomicInv == TypeInv /\ Isolation /\ Untorn(Story) /\ Planned /\ DoneOK

\* A step of AtomicStory under the refinement mapping; a commit happens with
\* its record in the journal.
AbsStep ==
    \/ UNCHANGED Story
    \/ LogCommit /\ \E b \in Branches : Abs!Commit(tx.chapter, tx.draft, b)
    \/ \E t \in Targets : Abs!Rollback(t)
    \/ \E b \in Branches, c \in Targets : Abs!Fork(b, c)

\* The definitions AtomicStory takes from StoryStore are the ones used here.
LEMMA SameStore ==
  /\ Abs!InitDisk = InitDisk
  /\ \A x, c, d, b : /\ Abs!CommitDisk(x, c, d, b) = CommitDisk(x, c, d, b)
                     /\ Abs!Asked(x, c, b) <=> Asked(x, c, b)
                     /\ Abs!AlreadyThere(x, c, d) <=> AlreadyThere(x, c, d)
  /\ \A x, t : /\ Abs!RollbackDisk(x, t) = RollbackDisk(x, t)
               /\ Abs!RollbackAsked(x, t) <=> RollbackAsked(x, t)
  /\ \A x, b, c : /\ Abs!ForkDisk(x, b, c) = ForkDisk(x, b, c)
                  /\ Abs!ForkAsked(x, c) <=> ForkAsked(x, c)
                  /\ Abs!Forkable(x, b) <=> Forkable(x, b)
  /\ Abs!Targets = Targets
<1>1. Abs!InitDisk = InitDisk
  BY DEF Abs!InitDisk, InitDisk, Abs!NothingRecorded, NothingRecorded
<1>2. \A x : Abs!Read(x) = Read(x)
  BY DEF Abs!Read, Read, Abs!NothingRecorded, NothingRecorded
<1>3. ASSUME NEW x, NEW c, NEW d, NEW b
      PROVE  Abs!CommitDisk(x, c, d, b) = CommitDisk(x, c, d, b)
  BY <1>2, Zenon DEF Abs!CommitDisk, CommitDisk, Abs!Record, Record, Abs!Later, Later
<1>4. ASSUME NEW x, NEW t
      PROVE  Abs!RollbackDisk(x, t) = RollbackDisk(x, t)
  <2> DEFINE y == Abs!RollbackDisk(x, t)
             z == RollbackDisk(x, t)
  <2>1. \A present : Abs!Scanned(present, t) = Scanned(present, t)
    BY DEF Abs!Scanned, Scanned
  <2>2. \A log : Abs!UpTo(log, t) = UpTo(log, t)
    BY DEF Abs!UpTo, UpTo
  <2>3. Abs!SnapAt(x, t) = SnapAt(x, t)
    BY DEF Abs!SnapAt, SnapAt
  <2>4. Abs!LatestAt(x, t) = LatestAt(x, t)
    BY <2>3 DEF Abs!LatestAt, LatestAt
  <2>5. y.state = z.state /\ y.memories = z.memories /\ y.heads = z.heads
        /\ y.hybrid = z.hybrid
    BY <1>2, <2>2, <2>3 DEF Abs!RollbackDisk, RollbackDisk
  <2>6. y.chapters = z.chapters /\ y.snaps = z.snaps
    BY <2>1 DEF Abs!RollbackDisk, RollbackDisk
  <2>7. y.meta = z.meta
    <3>1. Abs!Recounted(x, t) = Recounted(x, t)
      BY DEF Abs!Recounted, Recounted, Abs!Cardinality, Cardinality
    <3>2. y.meta = [x.meta EXCEPT !.head = t, !.counted = Abs!Recounted(x, t),
                                  !.latest = Abs!LatestAt(x, t)]
      BY DEF Abs!RollbackDisk
    <3>3. z.meta = [x.meta EXCEPT !.head = t, !.counted = Recounted(x, t),
                                  !.latest = LatestAt(x, t)]
      BY DEF RollbackDisk
    <3> HIDE DEF y, z
    <3> QED
      BY <2>4, <3>1, <3>2, <3>3
  <2>8. /\ y = [state |-> y.state, chapters |-> y.chapters, meta |-> y.meta,
                memories |-> y.memories, heads |-> y.heads, snaps |-> y.snaps,
                hybrid |-> y.hybrid]
        /\ z = [state |-> z.state, chapters |-> z.chapters, meta |-> z.meta,
                memories |-> z.memories, heads |-> z.heads, snaps |-> z.snaps,
                hybrid |-> z.hybrid]
    BY DEF Abs!RollbackDisk, RollbackDisk
  <2> HIDE DEF y, z
  <2>9. y = z
    BY <2>5, <2>6, <2>7, <2>8
  <2> QED
    BY <2>9 DEF y, z
<1>5. ASSUME NEW x, NEW b, NEW c
      PROVE  Abs!ForkDisk(x, b, c) = ForkDisk(x, b, c)
  BY Zenon DEF Abs!ForkDisk, ForkDisk
<1>6. /\ \A x, c, b : Abs!Asked(x, c, b) <=> Asked(x, c, b)
      /\ \A x, c, d : Abs!AlreadyThere(x, c, d) <=> AlreadyThere(x, c, d)
      /\ \A x, t : Abs!RollbackAsked(x, t) <=> RollbackAsked(x, t)
      /\ \A x, c : Abs!ForkAsked(x, c) <=> ForkAsked(x, c)
      /\ \A x, b : Abs!Forkable(x, b) <=> Forkable(x, b)
  BY DEF Abs!Asked, Asked, Abs!AlreadyThere, AlreadyThere, Abs!RollbackAsked,
         RollbackAsked, Abs!ForkAsked, ForkAsked, Abs!Forkable, Forkable
<1>7. Abs!Targets = Targets
  BY DEF Abs!Targets, Targets
<1> QED
  BY <1>1, <1>3, <1>4, <1>5, <1>6, <1>7

LEMMA AbsStepIsNext == TypeInv /\ AbsStep => [Abs!Next]_Story
<1> SUFFICES ASSUME TypeInv, AbsStep PROVE Abs!Next \/ UNCHANGED Story
  OBVIOUS
<1>1. ASSUME NEW b \in Branches, LogCommit, Abs!Commit(tx.chapter, tx.draft, b)
      PROVE  Abs!Next
  <2>1. tx.chapter \in Chapters /\ tx.draft \in Drafts
    BY <1>1 DEF TypeInv, TxOK, LogCommit, CommitSteps, CommitTx
  <2> QED
    BY <1>1, <2>1 DEF Abs!Next
<1> QED
  BY <1>1, SameStore DEF AbsStep, Abs!Next

LEMMA InitAtomic == Init => AtomicInv /\ Abs!Init
<1> SUFFICES ASSUME Init PROVE AtomicInv /\ Abs!Init
  OBVIOUS
<1>1. Story = InitDisk
  BY DEF Init, Story, InFlight
<1>2. Untorn(Story) /\ Abs!Init
  BY <1>1, InitDiskType, SameStore DEF Abs!Init
<1>3. Isolation /\ Planned /\ DoneOK
  BY DEF Init, Isolation, Planned, DoneOK
<1> QED
  BY <1>2, <1>3, InitTypeInv DEF AtomicInv

LEMMA CallAtomic == AtomicInv /\ Call => AtomicInv' /\ AbsStep
<1> SUFFICES ASSUME AtomicInv, Call PROVE AtomicInv' /\ AbsStep
  OBVIOUS
<1> USE DEF AtomicInv
<1>1. TypeInv'
  BY CallTypeInv
<1>2. PICK q \in Calls :
        /\ pc = "idle" /\ Asked(disk, q.chapter, q.branch)
        /\ Replay(q) \/ Already(q) \/ Begin(q) \/ Reject(q)
  BY DEF Call
<1>3. Story = disk /\ done = {}
  <2>1. pc \notin InFlight
    BY <1>2 DEF InFlight
  <2> QED
    BY <1>2, <2>1 DEF Story, DoneOK
<1>4. CASE Replay(q) \/ Already(q) \/ Reject(q)
  <2>1. UNCHANGED <<disk, pc, tx, done>>
    BY <1>4 DEF Replay, Already, Reject, Answers
  <2>2. UNCHANGED Story
    BY <2>1 DEF Story
  <2>3. Isolation' /\ Planned' /\ DoneOK'
    BY <1>2, <1>3, <2>1 DEF Isolation, Planned, DoneOK
  <2> QED
    BY <1>1, <2>2, <2>3 DEF AbsStep
<1>5. CASE Begin(q)
  <2>1. /\ pc' = "log_begin" /\ disk' = disk /\ done' = {} /\ tx'.before = disk
        /\ tx'.chapter = q.chapter /\ tx'.draft = q.draft
        /\ tx'.after = CommitDisk(disk, q.chapter, q.draft, q.branch)
    BY <1>3, <1>5 DEF Begin
  <2>2. Story' = Story
    BY <1>3, <2>1 DEF Story, InFlight
  <2>3. CommitPlanned'
    <3>1. q.branch \in Branches
      BY DEF Calls
    <3>2. /\ Asked(tx'.before, tx'.chapter, q.branch)
          /\ Valid(tx'.draft, tx'.before.state)
          /\ ~AlreadyThere(tx'.before, tx'.chapter, tx'.draft)
          /\ tx'.after = CommitDisk(tx'.before, tx'.chapter, tx'.draft, q.branch)
      BY <1>2, <1>5, <2>1 DEF Begin, Accepted
    <3> QED
      BY <3>1, <3>2 DEF CommitPlanned
  <2>4. Isolation' /\ Planned' /\ DoneOK'
    BY <2>1, <2>3 DEF Isolation, Planned, DoneOK
  <2> QED
    BY <1>1, <2>2, <2>4 DEF AbsStep
<1> QED
  BY <1>2, <1>4, <1>5

\* A commit publishes one file after the other, and only its last record makes
\* the new story the current one.
LEMMA CommitAtomic ==
  ASSUME AtomicInv,
         \/ LogBegin \/ Prepare \/ (\E f \in Files : Publish(f)) \/ SaveIndex
         \/ LogCommit \/ AppendEvent \/ WriteReport \/ WriteManifest \/ Cleanup
         \/ FailUnprotected
  PROVE  AtomicInv' /\ AbsStep
<1> USE DEF AtomicInv
<1>1. TypeInv'
  BY CommitTypeInv
<1>2. disk \in Disk /\ (pc \in CommitSteps => tx \in CommitTx)
  BY DEF TypeInv, TypeOK, TxOK
<1>3. CASE LogBegin \/ Prepare
  <2>1. /\ UNCHANGED <<disk, tx, done>>
        /\ pc \in {"log_begin", "backup", "stage"}
        /\ pc' \in {"backup", "stage", "publish"} /\ done = {}
    BY <1>3 DEF LogBegin, Prepare, DoneOK
  <2>2. Story' = Story
    BY <2>1 DEF Story, InFlight
  <2>3. Isolation' /\ DoneOK'
    BY <2>1 DEF Isolation, DoneOK
  <2>4. Planned'
    BY <2>1 DEF Planned, CommitPlanned
  <2> QED
    BY <1>1, <2>2, <2>3, <2>4 DEF AbsStep
<1>4. ASSUME NEW f \in Files, Publish(f) PROVE AtomicInv' /\ AbsStep
  <2>1. /\ pc = "publish" /\ tx' = tx /\ disk' = [disk EXCEPT ![f] = tx.after[f]]
        /\ tx.after \in Disk /\ tx.before \in Disk
        /\ \/ pc' = "index" /\ done' = {} /\ done \cup {f} = Files
           \/ pc' = "publish" /\ done' = done \cup {f}
    BY <1>2, <1>4 DEF Publish, CommitSteps, CommitTx
  <2>2. Story' = Story
    BY <2>1 DEF Story, InFlight
  <2>3. \A g \in Files : disk'[g] = IF g \in done \cup {f} THEN tx.after[g] ELSE tx.before[g]
    <3>1. \A g \in Files : disk'[g] = IF g = f THEN tx.after[g] ELSE disk[g]
      BY <1>2, <2>1, WriteOne
    <3>2. \A g \in Files : disk[g] = IF g \in done THEN tx.after[g] ELSE tx.before[g]
      BY <2>1 DEF Isolation
    <3> QED
      BY <3>1, <3>2
  <2>4. CASE pc' = "index"
    <3>1. disk' = tx.after
      <4>1. disk' \in Disk
        BY <1>1 DEF TypeInv, TypeOK
      <4>2. \A g \in Files : disk'[g] = tx.after[g]
        BY <2>1, <2>3, <2>4
      <4> QED
        BY <2>1, <4>1, <4>2, FilesOfDisk
    <3>2. Isolation' /\ DoneOK' /\ Planned'
      BY <2>1, <2>4, <3>1 DEF Isolation, DoneOK, Planned, CommitPlanned
    <3> QED
      BY <1>1, <2>2, <3>2 DEF AbsStep
  <2>5. CASE pc' = "publish" /\ done' = done \cup {f}
    <3>1. Isolation' /\ Planned'
      BY <2>1, <2>3, <2>5 DEF Isolation, Planned, CommitPlanned
    <3>2. DoneOK'
      <4>1. \A g \in Files : PublishRank[g] < PublishRank[f] => g \in done
        BY <1>4 DEF Publish, Due, PublishRank, Files
      <4> QED
        BY <2>1, <2>5, <4>1 DEF DoneOK
    <3> QED
      BY <1>1, <2>2, <3>1, <3>2 DEF AbsStep
  <2> QED
    BY <2>1, <2>4, <2>5
<1>5. CASE SaveIndex
  <2>1. /\ UNCHANGED <<disk, tx, done>> /\ pc = "index" /\ pc' = "log_commit" /\ done = {}
    BY <1>5 DEF SaveIndex, DoneOK
  <2>2. Story' = Story
    BY <2>1 DEF Story, InFlight
  <2>3. Isolation' /\ DoneOK' /\ Planned'
    BY <2>1 DEF Isolation, DoneOK, Planned, CommitPlanned
  <2> QED
    BY <1>1, <2>2, <2>3 DEF AbsStep
<1>6. CASE LogCommit
  <2>1. /\ UNCHANGED <<disk, tx, done>> /\ pc = "log_commit" /\ pc' = "event" /\ done = {}
    BY <1>6 DEF LogCommit, DoneOK
  <2>2. /\ Story = tx.before /\ Story' = tx.after
        /\ tx.chapter \in Chapters /\ tx.draft \in Drafts /\ tx.before \in Disk
    BY <1>2, <2>1 DEF Story, InFlight, Isolation, CommitSteps, CommitTx
  <2>3. PICK b \in Branches :
          /\ Asked(Story, tx.chapter, b)
          /\ Valid(tx.draft, Story.state)
          /\ ~AlreadyThere(Story, tx.chapter, tx.draft)
          /\ Story' = CommitDisk(Story, tx.chapter, tx.draft, b)
    BY <2>1, <2>2 DEF Planned, CommitPlanned
  <2>4. Abs!Commit(tx.chapter, tx.draft, b)
    BY <2>3, SameStore DEF Abs!Commit
  <2>5. Untorn(Story')
    BY <2>2, <2>3, CommitDiskType DEF Untorn
  <2>6. Isolation' /\ DoneOK' /\ Planned'
    BY <2>1 DEF Isolation, DoneOK, Planned
  <2> QED
    BY <1>1, <1>6, <2>4, <2>5, <2>6 DEF AbsStep, Untorn
<1>7. CASE AppendEvent \/ WriteReport \/ WriteManifest
  <2>1. /\ UNCHANGED <<disk, tx, done>>
        /\ pc \in {"event", "report", "manifest"}
        /\ pc' \in {"report", "manifest", "cleanup"} /\ done = {}
    BY <1>7 DEF AppendEvent, WriteReport, WriteManifest, Govern, DoneOK
  <2>2. Story' = Story
    BY <2>1 DEF Story, InFlight
  <2>3. Isolation' /\ DoneOK' /\ Planned'
    BY <2>1 DEF Isolation, DoneOK, Planned
  <2> QED
    BY <1>1, <2>2, <2>3 DEF AbsStep
<1>8. CASE Cleanup \/ FailUnprotected
  <2>1. /\ UNCHANGED disk /\ pc \in {"cleanup", "log_begin", "backup"}
        /\ pc' = "idle" /\ done' = {}
    BY <1>8 DEF Cleanup, FailUnprotected, Finish
  <2>2. Story' = Story
    BY <2>1 DEF Story, InFlight, Isolation
  <2>3. Isolation' /\ DoneOK' /\ Planned'
    BY <2>1 DEF Isolation, DoneOK, Planned
  <2> QED
    BY <1>1, <2>2, <2>3 DEF AbsStep
<1> QED
  BY <1>3, <1>4, <1>5, <1>6, <1>7, <1>8

\* An early error is undone file by file; the snapshot, which the undo leaves
\* alone, was not published yet.
LEMMA UndoAtomic ==
  ASSUME AtomicInv, OnlyEarlyFaults,
         Fail \/ (\E f \in Files : Undo(f)) \/ LogAbort
  PROVE  AtomicInv' /\ AbsStep
<1> USE DEF AtomicInv
<1>1. TypeInv'
  BY OtherTypeInv
<1>2. /\ disk \in Disk /\ (pc \in CommitSteps => tx \in CommitTx)
      /\ pc \in CommitSteps => tx.chapter \in Chapters /\ tx.before \in Disk
  BY DEF TypeInv, TypeOK, TxOK, CommitTx
<1>3. CASE Fail
  <2>1. /\ pc \in {"stage", "publish", "index", "log_commit"}
        /\ pc' = "undo" /\ tx' = tx /\ done' = {}
    BY <1>3 DEF Fail
  <2>2. Story' = Story
    BY <2>1 DEF Story, InFlight
  <2>3. disk'.snaps = tx.before.snaps
    <3>1. CASE pc # "publish"
      BY <1>3, <3>1 DEF Fail, Isolation, OnlyEarlyFaults
    <3>2. CASE pc = "publish"
      <4>1. PICK f \in FaultPoints :
              /\ Due(PublishRank, f)
              /\ disk' \in {disk, Damaged(disk, f, tx.chapter)}
        BY <1>3, <3>2 DEF Fail
      <4>2. f \in Files \ {"snaps", "hybrid"} /\ f \notin done
        BY <4>1 DEF Due, PublishRank, Files, OnlyEarlyFaults
      <4>3. PublishRank[f] < PublishRank["snaps"]
        BY <4>2 DEF PublishRank, Files
      <4>4. "snaps" \notin done
        BY <3>2, <4>2, <4>3 DEF DoneOK, Files
      <4>5. disk.snaps = tx.before.snaps
        BY <3>2, <4>4 DEF Isolation, Files
      <4>6. Damaged(disk, f, tx.chapter).snaps = disk.snaps
        <5>1. tx.chapter \in Chapters
          BY <1>2, <3>2 DEF CommitSteps
        <5>2. "snaps" \in Files \ {f}
          BY <4>2 DEF Files
        <5>3. \A g \in Files \ {f} : Damaged(disk, f, tx.chapter)[g] = disk[g]
          <6>1. f \in Files
            BY <4>2
          <6> QED
            BY <1>2, <5>1, <6>1, DamagedType
        <5> QED
          BY <5>2, <5>3
      <4> QED
        BY <4>1, <4>5, <4>6
    <3> QED
      BY <3>1, <3>2
  <2>4. Isolation' /\ DoneOK' /\ Planned'
    BY <2>1, <2>3 DEF Isolation, DoneOK, Planned
  <2> QED
    BY <1>1, <2>2, <2>4 DEF AbsStep
<1>4. ASSUME NEW f \in Files, Undo(f) PROVE AtomicInv' /\ AbsStep
  <2>1. /\ pc = "undo" /\ pc' = "undo" /\ tx' = tx /\ done' = done \cup {f}
        /\ disk' = [disk EXCEPT ![f] = Restored(tx.before)[f]]
        /\ f # "snaps"
    BY <1>4 DEF Undo, Due, UndoRank
  <2>2. Story' = Story /\ Story = tx.before
    BY <2>1 DEF Story, InFlight
  <2>3. tx.before \in Disk
    BY <1>2, <2>1 DEF CommitSteps
  <2>4. Restored(tx.before) = tx.before
    BY <2>2, <2>3, RestoredType
  <2>5. \A g \in Files : disk'[g] = IF g = f THEN tx.before[g] ELSE disk[g]
    BY <1>2, <2>1, <2>3, <2>4, WriteOne
  <2>6. disk'.snaps = tx.before.snaps
    <3>1. disk'["snaps"] = disk["snaps"]
      BY <2>1, <2>5 DEF Files
    <3> QED
      BY <2>1, <3>1 DEF Isolation
  <2>7. \A g \in done \cup {f} : disk'[g] = tx.before[g]
    BY <2>1, <2>5 DEF Isolation, TypeInv, TypeOK
  <2>8. Isolation' /\ DoneOK' /\ Planned'
    BY <2>1, <2>6, <2>7 DEF Isolation, DoneOK, Planned
  <2> QED
    BY <1>1, <2>2, <2>8 DEF AbsStep
<1>5. CASE LogAbort
  <2>1. /\ pc = "undo" /\ pc' = "idle" /\ disk' = disk /\ done' = {}
        /\ done = Files \ {"snaps"}
    BY <1>5 DEF LogAbort, Finish, UndoRank, Files
  <2>2. disk = tx.before
    <3>1. \A g \in Files : disk[g] = tx.before[g]
      BY <2>1 DEF Isolation
    <3>2. tx.before \in Disk
      BY <1>2, <2>1 DEF CommitSteps
    <3> QED
      BY <1>2, <3>1, <3>2, FilesOfDisk
  <2>3. Story' = Story
    BY <2>1, <2>2 DEF Story, InFlight
  <2>4. Isolation' /\ DoneOK' /\ Planned'
    BY <2>1 DEF Isolation, DoneOK, Planned
  <2> QED
    BY <1>1, <2>3, <2>4 DEF AbsStep
<1> QED
  BY <1>3, <1>4, <1>5

\* A rollback is over with its record in the journal.
LEMMA RollbackAtomic ==
  ASSUME AtomicInv,
         \/ \E t \in Targets : BeginRollback(t)
         \/ \E f \in Files : RollbackFile(f)
         \/ LogRollback
  PROVE  AtomicInv' /\ AbsStep
<1> USE DEF AtomicInv
<1>1. TypeInv'
  BY OtherTypeInv
<1>2. /\ disk \in Disk
      /\ pc = "rollback" =>
           tx.chapter \in Targets /\ tx.before \in Disk /\ tx.after \in Disk
  BY DEF TypeInv, TypeOK, TxOK, Transaction
<1>3. ASSUME NEW t \in Targets, BeginRollback(t) PROVE AtomicInv' /\ AbsStep
  <2>1. /\ pc = "idle" /\ pc' = "rollback" /\ disk' = disk /\ done' = done /\ done = {}
        /\ RollbackAsked(disk, t)
        /\ tx'.chapter = t /\ tx'.before = disk /\ tx'.after = RollbackDisk(disk, t)
    BY <1>3 DEF BeginRollback, Writes, DoneOK
  <2>2. Story' = Story
    BY <2>1 DEF Story, InFlight
  <2>3. RollbackPlanned'
    BY <2>1 DEF RollbackPlanned
  <2>4. Isolation' /\ DoneOK' /\ Planned'
    BY <2>1, <2>3 DEF Isolation, DoneOK, Planned
  <2> QED
    BY <1>1, <2>2, <2>4 DEF AbsStep
<1>4. ASSUME NEW f \in Files, RollbackFile(f) PROVE AtomicInv' /\ AbsStep
  <2>1. /\ pc = "rollback" /\ pc' = "rollback" /\ tx' = tx /\ done' = done \cup {f}
        /\ disk' = [disk EXCEPT ![f] = tx.after[f]]
    BY <1>4 DEF RollbackFile
  <2>2. Story' = Story
    BY <2>1 DEF Story, InFlight
  <2>3. \A g \in Files : disk'[g] = IF g = f THEN tx.after[g] ELSE disk[g]
    BY <1>2, <2>1, WriteOne
  <2>4. \A g \in Files :
          disk'[g] = IF g \in done \cup {f} THEN tx.after[g] ELSE tx.before[g]
    BY <2>1, <2>3 DEF Isolation
  <2>5. Isolation' /\ DoneOK' /\ Planned'
    BY <2>1, <2>4 DEF Isolation, DoneOK, Planned, RollbackPlanned
  <2> QED
    BY <1>1, <2>2, <2>5 DEF AbsStep
<1>5. CASE LogRollback
  <2>1. /\ pc = "rollback" /\ pc' = "idle" /\ disk' = disk /\ done' = {} /\ done = Files
    BY <1>5 DEF LogRollback, Finish
  <2>2. disk = tx.after
    <3>1. \A g \in Files : disk[g] = tx.after[g]
      BY <2>1 DEF Isolation
    <3> QED
      BY <1>2, <2>1, <3>1, FilesOfDisk
  <2>3. Story = tx.before /\ Story' = tx.after
    BY <2>1, <2>2 DEF Story, InFlight
  <2>4. /\ RollbackAsked(Story, tx.chapter)
        /\ Story' = RollbackDisk(Story, tx.chapter)
    BY <2>1, <2>3 DEF Planned, RollbackPlanned
  <2>5. Abs!Rollback(tx.chapter)
    BY <2>4, SameStore DEF Abs!Rollback
  <2>6. AbsStep
    BY <1>2, <2>1, <2>5 DEF AbsStep
  <2>7. Untorn(Story')
    <3>1. Story \in Disk /\ Story.meta # Torn
      BY <1>2, <2>1, <2>3 DEF Untorn
    <3> QED
      BY <1>2, <2>1, <2>4, <3>1, RollbackDiskType
  <2>8. Isolation' /\ DoneOK' /\ Planned'
    BY <2>1 DEF Isolation, DoneOK, Planned
  <2> QED
    BY <1>1, <2>6, <2>7, <2>8 DEF Untorn
<1> QED
  BY <1>3, <1>4, <1>5

\* A fork is over with its second file.
LEMMA ForkAtomic ==
  ASSUME AtomicInv,
         \/ \E b \in Branches, c \in Targets : BeginFork(b, c)
         \/ \E f \in Files : ForkFile(f)
  PROVE  AtomicInv' /\ AbsStep
<1> USE DEF AtomicInv
<1>1. TypeInv'
  BY OtherTypeInv
<1>2. /\ disk \in Disk
      /\ pc = "fork" =>
           tx.chapter \in Targets /\ tx.before \in Disk /\ tx.after \in Disk
  BY DEF TypeInv, TypeOK, TxOK, Transaction
<1>3. ASSUME NEW b \in Branches, NEW c \in Targets, BeginFork(b, c)
      PROVE  AtomicInv' /\ AbsStep
  <2>1. /\ pc = "idle" /\ pc' = "fork" /\ disk' = disk /\ done' = done /\ done = {}
        /\ ForkAsked(disk, c) /\ Forkable(disk, b)
        /\ tx'.chapter = c /\ tx'.before = disk /\ tx'.after = ForkDisk(disk, b, c)
    BY <1>3 DEF BeginFork, Writes, DoneOK
  <2>2. Story' = Story
    BY <2>1 DEF Story, InFlight
  <2>3. ForkPlanned'
    BY <2>1 DEF ForkPlanned
  <2>4. Isolation' /\ DoneOK' /\ Planned'
    BY <2>1, <2>3 DEF Isolation, DoneOK, Planned
  <2> QED
    BY <1>1, <2>2, <2>4 DEF AbsStep
<1>4. ASSUME NEW f \in Files, ForkFile(f) PROVE AtomicInv' /\ AbsStep
  <2>1. /\ pc = "fork" /\ disk' = [disk EXCEPT ![f] = tx.after[f]]
        /\ f \in {"heads", "meta"}
        /\ \/ done \cup {f} = {"heads", "meta"} /\ pc' = "idle" /\ done' = {}
           \/ pc' = "fork" /\ done' = done \cup {f} /\ tx' = tx
    BY <1>4 DEF ForkFile, Due, ForkRank, Finish
  <2>2. Story = tx.before
    BY <2>1 DEF Story, InFlight
  <2>3. \A g \in Files :
          disk'[g] = IF g \in done \cup {f} THEN tx.after[g] ELSE tx.before[g]
    <3>1. \A g \in Files : disk'[g] = IF g = f THEN tx.after[g] ELSE disk[g]
      BY <1>2, <2>1, WriteOne
    <3> QED
      BY <2>1, <3>1 DEF Isolation
  <2>4. CASE pc' = "fork" /\ done' = done \cup {f} /\ tx' = tx
    <3>1. Story' = Story
      BY <2>1, <2>4 DEF Story, InFlight
    <3>2. Isolation' /\ DoneOK' /\ Planned'
      BY <2>1, <2>3, <2>4 DEF Isolation, DoneOK, Planned, ForkPlanned
    <3> QED
      BY <1>1, <2>4, <3>1, <3>2 DEF AbsStep
  <2>5. CASE done \cup {f} = {"heads", "meta"} /\ pc' = "idle" /\ done' = {}
    <3>1. PICK b \in Branches :
            /\ ForkAsked(Story, tx.chapter)
            /\ Forkable(Story, b)
            /\ tx.after = ForkDisk(Story, b, tx.chapter)
      BY <2>1, <2>2 DEF Planned, ForkPlanned
    <3>2. Story \in Disk /\ Story.heads # Torn /\ Story.meta # Torn
      BY <1>2, <2>1, <2>2 DEF Untorn
    <3>3. /\ \A g \in Files \ {"heads", "meta"} : tx.after[g] = tx.before[g]
          /\ Untorn(tx.after)
      BY <1>2, <2>1, <2>2, <3>1, <3>2, ForkDiskType
    <3>4. disk' = tx.after
      <4>1. \A g \in Files : disk'[g] = tx.after[g]
        BY <2>3, <2>5, <3>3
      <4>2. disk' \in Disk
        BY <1>1 DEF TypeInv, TypeOK
      <4> QED
        BY <1>2, <2>1, <4>1, <4>2, FilesOfDisk
    <3>5. Story' = tx.after
      BY <2>5, <3>4 DEF Story, InFlight
    <3>6. Abs!Fork(b, tx.chapter)
      BY <3>1, <3>5, SameStore DEF Abs!Fork
    <3>7. AbsStep
      BY <1>2, <2>1, <3>6 DEF AbsStep
    <3>8. Isolation' /\ DoneOK' /\ Planned'
      BY <2>5 DEF Isolation, DoneOK, Planned
    <3> QED
      BY <1>1, <3>3, <3>5, <3>7, <3>8 DEF Untorn
  <2> QED
    BY <2>1, <2>4, <2>5
<1> QED
  BY <1>3, <1>4

\* Between operations a process may end and another one open the project.
LEMMA RestAtomic == AtomicInv /\ (Exit \/ Start) => AtomicInv' /\ AbsStep
<1> SUFFICES ASSUME AtomicInv, Exit \/ Start PROVE AtomicInv' /\ AbsStep
  OBVIOUS
<1> USE DEF AtomicInv
<1>1. TypeInv'
  BY CrashTypeInv
<1>2. /\ pc \in {"idle", "down"} /\ pc' \in {"idle", "down"} /\ disk' = disk
      /\ done' = {}
  BY DEF Exit, Start, Stop, DoneOK
<1>3. Story' = Story
  BY <1>2 DEF Story, InFlight
<1>4. Isolation' /\ DoneOK' /\ Planned'
  BY <1>2 DEF Isolation, DoneOK, Planned
<1> QED
  BY <1>1, <1>3, <1>4 DEF AbsStep

LEMMA NextAtomic ==
  ASSUME NoCrash, OnlyEarlyFaults, AtomicInv, [Next]_vars
  PROVE  AtomicInv' /\ AbsStep
<1>1. CASE UNCHANGED vars
  <2>1. TypeInv'
    BY NextTypeInv DEF AtomicInv
  <2>2. UNCHANGED <<disk, pc, tx, done>>
    BY <1>1 DEF vars
  <2>3. Story' = Story
    BY <2>2 DEF Story
  <2>4. Isolation' /\ DoneOK' /\ Planned'
    BY <2>2 DEF AtomicInv, Isolation, DoneOK, Planned, CommitPlanned,
                RollbackPlanned, ForkPlanned
  <2> QED
    BY <2>1, <2>3, <2>4 DEF AtomicInv, AbsStep
<1>2. CASE Next
  <2>1. ~Crash
    BY DEF Crash, NoCrash
  <2>2. CASE \/ LogBegin \/ Prepare \/ (\E f \in Files : Publish(f)) \/ SaveIndex
             \/ LogCommit \/ AppendEvent \/ WriteReport \/ WriteManifest \/ Cleanup
             \/ FailUnprotected
    BY <2>2, CommitAtomic
  <2>3. CASE Fail \/ (\E f \in Files : Undo(f)) \/ LogAbort
    BY <2>3, UndoAtomic
  <2>4. CASE \/ \E t \in Targets : BeginRollback(t)
             \/ \E f \in Files : RollbackFile(f)
             \/ LogRollback
    BY <2>4, RollbackAtomic
  <2>5. CASE \/ \E b \in Branches, c \in Targets : BeginFork(b, c)
             \/ \E f \in Files : ForkFile(f)
    BY <2>5, ForkAtomic
  <2> QED
    BY <1>2, <2>1, <2>2, <2>3, <2>4, <2>5, CallAtomic, RestAtomic DEF Next, Work
<1> QED
  BY <1>1, <1>2

\* If the process never dies and errors strike before the snapshot is published,
\* then whatever fails, and in whatever order the operations come, a commit, a
\* rollback and a fork each happen at once or not at all.
THEOREM Atomicity ==
  ASSUME NoCrash, OnlyEarlyFaults
  PROVE  Spec => RefinesStory
<1>1. AtomicInv /\ [Next]_vars => AtomicInv' /\ [Abs!Next]_Story
  BY NextAtomic, AbsStepIsNext DEF AtomicInv
<1> QED
  BY <1>1, InitAtomic, PTL DEF Spec, RefinesStory, Abs!Spec

\* Under the same conditions no file is ever anything but what the operation in
\* progress read or is to write, at each of its steps.
THEOREM FilesAreOldOrNew ==
  ASSUME NoCrash, OnlyEarlyFaults
  PROVE  Spec => []Isolation
<1>1. AtomicInv /\ [Next]_vars => AtomicInv'
  BY NextAtomic
<1>2. AtomicInv => Isolation
  BY DEF AtomicInv
<1> QED
  BY <1>1, <1>2, InitAtomic, PTL DEF Spec

-----------------------------------------------------------------------------
(* Nothing uncommitted.  Under the same conditions what the story consists of *)
(* is what the journal says was committed.                                    *)

\* P: pairs of a chapter and the draft committed as it.
Told(s, P) == \A k \in DOMAIN s : \E c \in Chapters : <<c, s[k]>> \in P
MadeOf(x, P) ==
    /\ \A c \in Chapters : x.chapters[c] \in Drafts => <<c, x.chapters[c]>> \in P
    /\ \A c \in Chapters : x.snaps[c] \in Snapshot =>
         <<c, x.snaps[c].draft>> \in P /\ Told(x.snaps[c].state, P)
    /\ Told(x.state, P)

\* More commits do no harm.
LEMMA MadeOfMore ==
  ASSUME NEW x, NEW P, NEW Q, P \subseteq Q, MadeOf(x, P)
  PROVE  MadeOf(x, Q)
BY DEF MadeOf, Told

\* A commit adds its own chapter, snapshot and delta.
LEMMA MadeOfCommit ==
  ASSUME NEW x \in Disk, x.state # Torn, NEW c \in Chapters, NEW d \in Drafts,
         NEW b \in Branches, NEW P, MadeOf(x, P), <<c, d>> \in P
  PROVE  MadeOf(CommitDisk(x, c, d, b), P)
<1> DEFINE s == Append(x.state, d)
           y == CommitDisk(x, c, d, b)
<1>1. /\ y.state = s /\ y.chapters = [x.chapters EXCEPT ![c] = d]
      /\ y.snaps = [x.snaps EXCEPT ![c] = [state |-> s, draft |-> d]]
  BY DEF CommitDisk
<1>2. Told(s, P)
  <2>1. x.state \in Seq(Drafts)
    BY DEF Disk
  <2>2. \A k \in DOMAIN s : (k \in DOMAIN x.state /\ s[k] = x.state[k]) \/ s[k] = d
    BY <2>1
  <2> QED
    BY <2>2 DEF MadeOf, Told
<1>3. /\ x.chapters \in [Chapters -> Drafts \cup {NoDraft, Torn}]
      /\ x.snaps \in [Chapters -> Snapshot \cup {NoSnap, Torn}]
  BY DEF Disk
<1> HIDE DEF s, y
<1>4. \A a \in Chapters : y.chapters[a] \in Drafts => <<a, y.chapters[a]>> \in P
  BY <1>1, <1>3 DEF MadeOf
<1>5. \A a \in Chapters : y.snaps[a] \in Snapshot =>
         <<a, y.snaps[a].draft>> \in P /\ Told(y.snaps[a].state, P)
  BY <1>1, <1>2, <1>3 DEF MadeOf
<1>6. MadeOf(y, P)
  BY <1>1, <1>2, <1>4, <1>5 DEF MadeOf
<1> QED
  BY <1>6 DEF y

\* A rollback takes its state from a snapshot and adds nothing.
LEMMA MadeOfRollback ==
  ASSUME NEW x \in Disk, NEW t \in Targets, NEW P, MadeOf(x, P)
  PROVE  MadeOf(RollbackDisk(x, t), P)
<1> DEFINE y == RollbackDisk(x, t)
<1>1. /\ \A c \in Chapters : y.chapters[c] \in {x.chapters[c], NoDraft}
      /\ \A c \in Chapters : y.snaps[c] \in {x.snaps[c], NoSnap}
      /\ y.state = IF SnapAt(x, t) = NoSnap THEN x.state ELSE SnapAt(x, t).state
  BY DEF RollbackDisk
<1>2. Told(y.state, P)
  <2>1. CASE SnapAt(x, t) = NoSnap
    BY <1>1, <2>1 DEF MadeOf
  <2>2. CASE SnapAt(x, t) # NoSnap
    <3>1. t \in Chapters /\ SnapAt(x, t) = x.snaps[t] /\ x.snaps[t] # Torn
      BY <2>2 DEF SnapAt
    <3>2. x.snaps[t] \in Snapshot
      BY <2>2, <3>1 DEF Disk
    <3> QED
      BY <1>1, <2>2, <3>1, <3>2 DEF MadeOf
  <2> QED
    BY <2>1, <2>2
<1> HIDE DEF y
<1>3. MadeOf(y, P)
  BY <1>1, <1>2 DEF MadeOf
<1> QED
  BY <1>3 DEF y

\* A fork touches neither chapters, nor snapshots, nor the state.
LEMMA MadeOfFork ==
  ASSUME NEW x \in Disk, ~(x.heads = Torn /\ x.meta = Torn), NEW b \in Branches,
         NEW c \in Targets, NEW P, MadeOf(x, P)
  PROVE  MadeOf(ForkDisk(x, b, c), P)
<1>1. \A f \in {"chapters", "snaps", "state"} : ForkDisk(x, b, c)[f] = x[f]
  BY ForkDiskType DEF Files
<1> QED
  BY <1>1 DEF MadeOf

\* What the journal says was committed.
Committed == {p \in Chapters \X Drafts : CommittedAs(p[1], p[2])}

\* A commit works under an id that was not used for one before, and its BEGIN
\* record says what it commits.
LogInv ==
    /\ \A i \in TxIds : Logged(i, {"COMMITTED"}) => index[i] = "COMMITTED"
    /\ pc = "log_begin" => index[tx.id] = "absent"
    /\ pc \in {"backup", "stage", "publish", "index", "log_commit"} =>
         begun[tx.id] = [chapter |-> tx.chapter, draft |-> tx.draft]
    /\ pc = "log_commit" => index[tx.id] = "COMMITTED"

\* Steps that leave the logs alone.
LEMMA QuietLog ==
  ASSUME LogInv, UNCHANGED <<journal, begun, index>>,
         \/ pc' \notin {"log_begin", "backup", "stage", "publish", "index", "log_commit"}
         \/ pc' = pc /\ tx' = tx
         \/ pc \in {"backup", "stage", "publish"} /\ pc' \in {"stage", "publish", "index"}
            /\ tx' = tx
  PROVE  LogInv' /\ Committed' = Committed
BY DEF LogInv, Committed, CommittedAs, Logged

\* No step takes a commit back from the journal, and none but LogCommit adds one.
LEMMA NextLog ==
  ASSUME TypeInv, LogInv, [Next]_vars
  PROVE  LogInv' /\ Committed \subseteq Committed'
<1> USE DEF TypeInv
<1>0. /\ pc \in CommitSteps => tx.id \in TxIds /\ tx.chapter \in Chapters
                               /\ tx.draft \in Drafts
      /\ journal \in [TxIds \cup {NoTx} -> SUBSET Phases]
      /\ begun \in [TxIds -> [chapter : Chapters, draft : Drafts] \cup {NoTx}]
      /\ index \in [TxIds -> {"absent", "COMMITTED", "RECOVERED"}]
  BY DEF TxOK, CommitTx, TypeOK
<1>1. CASE Call
  <2>1. PICK q \in Calls : pc = "idle" /\ (Replay(q) \/ Already(q) \/ Begin(q) \/ Reject(q))
    BY <1>1 DEF Call
  <2>2. CASE Begin(q)
    <3>1. /\ UNCHANGED <<journal, begun, index>> /\ pc' = "log_begin" /\ tx'.id = q.id
          /\ index[q.id] = "absent"
      BY <2>2 DEF Begin, Accepted
    <3> QED
      BY <3>1 DEF LogInv, Committed, CommittedAs, Logged
  <2>3. CASE Replay(q) \/ Already(q) \/ Reject(q)
    BY <2>3, QuietLog DEF Replay, Already, Reject, Answers, logs
  <2> QED
    BY <2>1, <2>2, <2>3
<1>2. CASE LogBegin
  <2>1. /\ pc = "log_begin" /\ pc' = "backup" /\ tx' = tx /\ index' = index
        /\ journal' = [journal EXCEPT ![tx.id] = @ \cup {"BEGIN"}]
        /\ begun' = [begun EXCEPT ![tx.id] = [chapter |-> tx.chapter, draft |-> tx.draft]]
        /\ tx.id \in TxIds
    BY <1>0, <1>2 DEF LogBegin, Log, CommitSteps
  <2>2. ~Logged(tx.id, {"COMMITTED"})
    BY <2>1 DEF LogInv
  <2>3. \A i \in TxIds : Logged(i, {"COMMITTED"})' <=> Logged(i, {"COMMITTED"})
    BY <1>0, <2>1 DEF Logged
  <2>4. \A i \in TxIds : i # tx.id => begun'[i] = begun[i]
    BY <1>0, <2>1
  <2>5. Committed \subseteq Committed'
    BY <2>2, <2>3, <2>4 DEF Committed, CommittedAs
  <2>6. begun'[tx.id] = [chapter |-> tx.chapter, draft |-> tx.draft]
    BY <1>0, <2>1
  <2>7. LogInv'
    BY <2>1, <2>3, <2>6 DEF LogInv
  <2> QED
    BY <2>5, <2>7
<1>3. CASE Prepare \/ FailUnprotected \/ (\E f \in Files : Publish(f)) \/ Fail
           \/ (\E f \in Files : Undo(f))
  BY <1>3, QuietLog DEF Prepare, FailUnprotected, Finish, Publish, Fail, Undo, logs
<1>4. CASE SaveIndex
  <2>1. /\ pc = "index" /\ pc' = "log_commit" /\ tx' = tx
        /\ UNCHANGED <<journal, begun>> /\ tx.id \in TxIds
        /\ index' = [index EXCEPT ![tx.id] = "COMMITTED"]
    BY <1>0, <1>4 DEF SaveIndex, CommitSteps
  <2>2. \A i \in TxIds : Logged(i, {"COMMITTED"})' <=> Logged(i, {"COMMITTED"})
    BY <2>1 DEF Logged
  <2>3. index'[tx.id] = "COMMITTED" /\ \A i \in TxIds : i # tx.id => index'[i] = index[i]
    BY <1>0, <2>1
  <2> QED
    BY <2>1, <2>2, <2>3 DEF LogInv, Committed, CommittedAs
<1>5. CASE LogCommit
  <2>1. /\ pc = "log_commit" /\ pc' = "event" /\ UNCHANGED <<index, begun>>
        /\ journal' = [journal EXCEPT ![tx.id] = @ \cup {"COMMITTED"}]
        /\ tx.id \in TxIds
    BY <1>0, <1>5 DEF LogCommit, Log, CommitSteps
  <2>2. \A i \in TxIds : Logged(i, {"COMMITTED"})' <=> Logged(i, {"COMMITTED"}) \/ i = tx.id
    BY <1>0, <2>1 DEF Logged
  <2> QED
    BY <2>1, <2>2 DEF LogInv, Committed, CommittedAs
<1>6. CASE LogAbort
  <2>1. /\ pc' = "idle" /\ index' = index /\ tx.id \in TxIds
        /\ journal' = [journal EXCEPT ![tx.id] = @ \cup {"ABORTED"}]
        /\ begun' = [begun EXCEPT ![tx.id] = IF index[tx.id] = "COMMITTED" THEN @ ELSE NoTx]
    BY <1>0, <1>6 DEF LogAbort, Log, Finish, CommitSteps
  <2>2. \A i \in TxIds : Logged(i, {"COMMITTED"})' <=> Logged(i, {"COMMITTED"})
    BY <1>0, <2>1 DEF Logged
  <2>3. \A i \in TxIds : Logged(i, {"COMMITTED"}) => begun'[i] = begun[i]
    BY <1>0, <2>1 DEF LogInv
  <2> QED
    BY <2>1, <2>2, <2>3 DEF LogInv, Committed, CommittedAs
<1>7. CASE AppendEvent \/ WriteReport \/ WriteManifest \/ Cleanup
  BY <1>7, QuietLog DEF AppendEvent, WriteReport, WriteManifest, Govern, Cleanup, Finish
<1>8. CASE \/ \E t \in Targets : BeginRollback(t)
           \/ \E f \in Files : RollbackFile(f)
           \/ \E b \in Branches, c \in Targets : BeginFork(b, c)
           \/ \E f \in Files : ForkFile(f)
  BY <1>8, QuietLog DEF BeginRollback, RollbackFile, BeginFork, ForkFile, Finish, logs
<1>9. CASE LogRollback
  <2>1. /\ pc' = "idle" /\ UNCHANGED <<index, begun>>
        /\ journal' = [journal EXCEPT ![NoTx] = @ \cup {"ROLLBACK"}]
    BY <1>9 DEF LogRollback, Log, Finish
  <2>2. \A i \in TxIds : Logged(i, {"COMMITTED"})' <=> Logged(i, {"COMMITTED"})
    BY <1>0, <2>1 DEF Logged
  <2> QED
    BY <2>1, <2>2 DEF LogInv, Committed, CommittedAs
<1>10. CASE Crash \/ Exit
  BY <1>10, QuietLog DEF Crash, Exit, Stop, logs
<1>11. CASE Start
  <2>1. pc' = "idle" /\ begun' = begun
    BY <1>11 DEF Start
  <2>2. \A i \in TxIds : Logged(i, {"COMMITTED"})' <=> Logged(i, {"COMMITTED"})
    BY <1>0, <1>11 DEF Start, Recover, Logged
  <2>3. \A i \in TxIds : index[i] = "COMMITTED" => index'[i] = "COMMITTED"
    BY <1>11 DEF Start, Recover
  <2> QED
    BY <2>1, <2>2, <2>3 DEF LogInv, Committed, CommittedAs
<1>12. CASE UNCHANGED vars
  BY <1>12, QuietLog DEF vars
<1> QED
  BY <1>1, <1>2, <1>3, <1>4, <1>5, <1>6, <1>7, <1>8, <1>9, <1>10, <1>11, <1>12 DEF Next, Work

\* The inductive invariant: the story, as a client should believe in it, is made
\* of commits at every step.
CommittedInv == LogInv /\ MadeOf(Story, Committed)

LEMMA InitCommitted == Init => CommittedInv
<1> SUFFICES ASSUME Init PROVE CommittedInv
  OBVIOUS
<1>1. Story = InitDisk
  BY DEF Init, Story, InFlight
<1>2. MadeOf(Story, Committed)
  BY <1>1 DEF InitDisk, MadeOf, Told
<1>3. LogInv
  BY DEF Init, LogInv, Logged
<1> QED
  BY <1>2, <1>3 DEF CommittedInv

LEMMA NextCommitted ==
  ASSUME NoCrash, OnlyEarlyFaults, AtomicInv, CommittedInv, [Next]_vars
  PROVE  CommittedInv'
<1>1. LogInv' /\ Committed \subseteq Committed'
  BY NextLog DEF CommittedInv, AtomicInv
<1>2. MadeOf(Story, Committed')
  BY <1>1, MadeOfMore DEF CommittedInv
<1>3. Story \in Disk /\ Untorn(Story)
  <2>1. /\ disk \in Disk
        /\ pc \in CommitSteps => tx \in CommitTx
        /\ pc \in {"rollback", "fork"} => tx \in Transaction
    BY DEF AtomicInv, TypeInv, TypeOK, TxOK
  <2>2. pc \in InFlight => tx.before \in Disk
    BY <2>1 DEF InFlight, CommitSteps, CommitTx, Transaction
  <2> QED
    BY <2>1, <2>2 DEF Story, AtomicInv
<1>4. AbsStep
  BY NextAtomic
<1>5. ASSUME NEW b \in Branches, LogCommit, Abs!Commit(tx.chapter, tx.draft, b)
      PROVE  MadeOf(Story', Committed')
  <2>1. /\ tx.id \in TxIds /\ tx.chapter \in Chapters /\ tx.draft \in Drafts
        /\ journal \in [TxIds \cup {NoTx} -> SUBSET Phases]
        /\ pc = "log_commit"
    BY <1>5 DEF AtomicInv, TypeInv, TypeOK, TxOK, LogCommit, CommitSteps, CommitTx
  <2>2. begun'[tx.id] = [chapter |-> tx.chapter, draft |-> tx.draft]
    BY <1>5, <2>1 DEF LogCommit, CommittedInv, LogInv
  <2>3. journal'[tx.id] \cap {"COMMITTED"} # {}
    BY <1>5, <2>1 DEF LogCommit, Log
  <2>4. <<tx.chapter, tx.draft>> \in Committed'
    BY <2>1, <2>2, <2>3 DEF Committed, CommittedAs, Logged
  <2>5. Story' = CommitDisk(Story, tx.chapter, tx.draft, b)
    BY <1>5, SameStore DEF Abs!Commit
  <2> QED
    BY <1>2, <1>3, <2>1, <2>4, <2>5, MadeOfCommit DEF Untorn
<1>6. ASSUME NEW t \in Targets, Abs!Rollback(t) PROVE MadeOf(Story', Committed')
  <2>1. Story' = RollbackDisk(Story, t)
    BY <1>6, SameStore DEF Abs!Rollback
  <2> QED
    BY <1>2, <1>3, <2>1, MadeOfRollback
<1>7. ASSUME NEW b \in Branches, NEW c \in Targets, Abs!Fork(b, c)
      PROVE  MadeOf(Story', Committed')
  <2>1. Story' = ForkDisk(Story, b, c)
    BY <1>7, SameStore DEF Abs!Fork
  <2> QED
    BY <1>2, <1>3, <2>1, MadeOfFork DEF Untorn
<1>8. ASSUME UNCHANGED Story PROVE MadeOf(Story', Committed')
  BY <1>2, <1>8
<1>9. MadeOf(Story', Committed')
  BY <1>4, <1>5, <1>6, <1>7, <1>8 DEF AbsStep
<1> QED
  BY <1>1, <1>9 DEF CommittedInv, MadeOf, Told

\* Without crashes, and with errors before the snapshot at most, every chapter
\* and every snapshot on disk between operations is one that was committed,
\* whatever was aborted, replaced or rolled back.
THEOREM OnlyCommittedOnDisk ==
  ASSUME NoCrash, OnlyEarlyFaults
  PROVE  Spec => []OnlyCommitted
<1>1. AtomicInv /\ CommittedInv /\ [Next]_vars => AtomicInv' /\ CommittedInv'
  BY NextAtomic, NextCommitted
<1>2. CommittedInv => OnlyCommitted
  <2>1. AtRest => Story = disk
    BY DEF AtRest, Story, InFlight
  <2> QED
    BY <2>1 DEF CommittedInv, OnlyCommitted, MadeOf, Committed
<1> QED
  BY <1>1, <1>2, InitAtomic, InitCommitted, PTL DEF Spec

\* Under the same conditions the story state holds no delta that was not
\* committed: an aborted draft leaves none, and a rollback brings none back.
THEOREM OnlyCommittedInState ==
  ASSUME NoCrash, OnlyEarlyFaults
  PROVE  Spec => []StateFromCommitted
<1>1. AtomicInv /\ CommittedInv /\ [Next]_vars => AtomicInv' /\ CommittedInv'
  BY NextAtomic, NextCommitted
<1>2. CommittedInv => StateFromCommitted
  <2>1. AtRest => Story = disk
    BY DEF AtRest, Story, InFlight
  <2> QED
    BY <2>1 DEF CommittedInv, StateFromCommitted, MadeOf, Told, Committed
<1> QED
  BY <1>1, <1>2, InitAtomic, InitCommitted, PTL DEF Spec

-----------------------------------------------------------------------------
(* What is proved of the atomic story holds of the one on disk.  The theorems *)
(* of AtomicStoryProofs are about its variable; here that is Story.           *)

Proved == INSTANCE AtomicStoryProofs WITH story <- Story

\* The definitions and assumptions come with the instance.
LEMMA SameAssumptions ==
  Proved!StoreAssumption /\ Proved!TornAssumption /\ Proved!SerialAssumption
<1>1. Proved!StoreAssumption
  BY StoreAssumption DEF Proved!StoreAssumption, Proved!IsFiniteSet, IsFiniteSet
<1>2. Proved!TornAssumption
  BY TornAssumption DEF Proved!TornAssumption, Proved!Snapshot, Proved!MetaFile,
     Proved!Recorded, Proved!Targets, Snapshot, MetaFile, Recorded, Targets
<1>3. Proved!SerialAssumption
  BY SerialAssumption DEF Proved!SerialAssumption
<1> QED
  BY <1>1, <1>2, <1>3

LEMMA SameStory ==
  /\ Abs!Init => Proved!Init
  /\ [Abs!Next]_Story => [Proved!Next]_Story
<1>1. Abs!Init => Proved!Init
  BY SameStore DEF Proved!Init, Abs!Init, Proved!InitDisk, InitDisk, Proved!NothingRecorded,
     NothingRecorded
<1>2. \A x, c, d, b : Proved!CommitDisk(x, c, d, b) = Abs!CommitDisk(x, c, d, b)
  BY DEF Proved!CommitDisk, Abs!CommitDisk, Proved!Read, Abs!Read, Proved!NothingRecorded,
     Abs!NothingRecorded, Proved!Record, Abs!Record, Proved!Later, Abs!Later
<1>3. \A x, t : Proved!RollbackDisk(x, t) = Abs!RollbackDisk(x, t)
  BY DEF Proved!RollbackDisk, Abs!RollbackDisk, Proved!Read, Abs!Read,
     Proved!NothingRecorded, Abs!NothingRecorded, Proved!Scanned, Abs!Scanned,
     Proved!UpTo, Abs!UpTo, Proved!SnapAt, Abs!SnapAt, Proved!LatestAt, Abs!LatestAt,
     Proved!Recounted, Abs!Recounted, Proved!Cardinality, Abs!Cardinality
<1>4. \A x, b, c : Proved!ForkDisk(x, b, c) = Abs!ForkDisk(x, b, c)
  BY DEF Proved!ForkDisk, Abs!ForkDisk
<1>5. ASSUME NEW c, NEW d, NEW b, Abs!Commit(c, d, b) PROVE Proved!Commit(c, d, b)
  BY <1>2, <1>5 DEF Abs!Commit, Proved!Commit, Abs!Asked, Proved!Asked, Abs!AlreadyThere,
     Proved!AlreadyThere
<1>6. ASSUME NEW t, Abs!Rollback(t) PROVE Proved!Rollback(t)
  BY <1>3, <1>6 DEF Abs!Rollback, Proved!Rollback, Abs!RollbackAsked, Proved!RollbackAsked
<1>7. ASSUME NEW b, NEW c, Abs!Fork(b, c) PROVE Proved!Fork(b, c)
  BY <1>4, <1>7 DEF Abs!Fork, Proved!Fork, Abs!ForkAsked, Proved!ForkAsked, Abs!Forkable,
     Proved!Forkable
<1>8. Abs!Targets = Proved!Targets
  BY DEF Abs!Targets, Proved!Targets
<1> QED
  BY <1>1, <1>5, <1>6, <1>7, <1>8 DEF Abs!Next, Proved!Next

LEMMA InitProved == Init => Proved!History
BY InitAtomic, SameStory, Proved!InitHistory, SameAssumptions

LEMMA NextProved ==
  ASSUME NoCrash, OnlyEarlyFaults, Serial, AtomicInv, Proved!History, [Next]_vars
  PROVE  Proved!History'
<1>1. AbsStep
  BY NextAtomic
<1>2. [Proved!Next]_Story
  BY <1>1, AbsStepIsNext, SameStory DEF AtomicInv
<1> QED
  BY <1>2, Proved!NextHistory, SameAssumptions

\* What the history says of a chapter that is there: the snapshot is its own, it is
\* remembered once, and the head has reached it; of one that is not: nothing is.
LEMMA ChapterKept ==
  ASSUME Proved!History, Story = disk, NEW c \in Chapters
  PROVE  /\ disk.meta # Torn /\ disk.memories # Torn /\ disk.hybrid # Torn
         /\ \/ /\ disk.chapters[c] = NoDraft
               /\ disk.memories[c] = << >> /\ disk.hybrid[c] = << >>
            \/ /\ disk.chapters[c] \in Drafts /\ c <= disk.meta.head
               /\ disk.memories[c] = <<disk.chapters[c]>>
               /\ disk.hybrid[c] = <<disk.chapters[c]>>
               /\ disk.snaps[c] \in Snapshot /\ disk.snaps[c].draft = disk.chapters[c]
<1>1. Proved!Untorn(disk) /\ Proved!StateIsHistory /\ Proved!SnapshotsAreHistory
      /\ Proved!BooksBalance
  BY DEF Proved!History, Proved!TypeOK
<1>2. disk.meta # Torn /\ disk.memories # Torn /\ disk.hybrid # Torn
  BY <1>1 DEF Proved!Untorn
<1>3. \A a \in Chapters : IF a <= disk.meta.head THEN disk.chapters[a] \in Drafts
                                                ELSE disk.chapters[a] = NoDraft
  BY <1>1 DEF Proved!StateIsHistory, Proved!head
<1>4. \A a \in Chapters : a <= disk.meta.head =>
        disk.snaps[a] \in Snapshot /\ disk.snaps[a].draft = disk.chapters[a]
  BY <1>1 DEF Proved!SnapshotsAreHistory, Proved!head, Proved!Snapshot, Snapshot
<1>5. \A a \in Chapters :
        /\ disk.memories[a] = IF a <= disk.meta.head THEN <<disk.chapters[a]>> ELSE << >>
        /\ disk.hybrid[a] = disk.memories[a]
  BY <1>1 DEF Proved!BooksBalance, Proved!head
<1> QED
  BY <1>2, <1>3, <1>4, <1>5

\* For write-next and the daemon, and under the conditions of Atomicity: however
\* often chapters are aborted, replaced and rolled back, the memories tell exactly
\* the chapters that exist.
THEOREM MemoryFollows ==
  ASSUME NoCrash, OnlyEarlyFaults, Serial
  PROVE  Spec => []MemoryTracksChapters
<1>1. AtomicInv /\ Proved!History /\ [Next]_vars => AtomicInv' /\ Proved!History'
  BY NextAtomic, NextProved
<1>2. Proved!History => MemoryTracksChapters
  <2> SUFFICES ASSUME Proved!History, AtRest, NEW c \in Chapters
               PROVE  IF disk.chapters[c] = NoDraft
                      THEN disk.memories[c] = << >> /\ disk.hybrid[c] = << >>
                      ELSE /\ EndsWith(disk.memories[c], disk.chapters[c])
                           /\ EndsWith(disk.hybrid[c], disk.chapters[c])
    BY DEF MemoryTracksChapters
  <2>1. Story = disk
    BY DEF AtRest, Story, InFlight
  <2>2. \A d : EndsWith(<<d>>, d)
    BY DEF EndsWith
  <2> QED
    BY <2>1, <2>2, ChapterKept
<1> QED
  BY <1>1, <1>2, InitAtomic, InitProved, PTL DEF Spec

\* A call is answered when its chapter is on disk, and the answer is taken back
\* before anything else is written.
AnswerInv ==
    /\ pc \in {"event", "report", "manifest", "cleanup"} =>
         disk.chapters[tx.chapter] = tx.draft
    /\ pc # "idle" => reply = NoReply
    /\ reply # NoReply /\ reply.kind \in {"committed", "already"} =>
         disk.chapters[reply.chapter] = reply.draft

LEMMA NextAnswer ==
  ASSUME AtomicInv, AnswerInv, [Next]_vars
  PROVE  AnswerInv'
<1> USE DEF AnswerInv
<1>1. CASE Call
  BY <1>1 DEF Call, Replay, Already, Answers, AlreadyThere, Begin, Reject
<1>2. CASE LogCommit
  <2>1. pc = "log_commit" /\ tx \in CommitTx /\ disk = tx.after /\ UNCHANGED <<disk, tx>>
    BY <1>2 DEF LogCommit, AtomicInv, TypeInv, TxOK, CommitSteps, Isolation
  <2>2. PICK b \in Branches : tx.after = CommitDisk(tx.before, tx.chapter, tx.draft, b)
    BY <2>1 DEF AtomicInv, Planned, CommitPlanned
  <2>3. /\ tx.chapter \in Chapters
        /\ tx.before.chapters \in [Chapters -> Drafts \cup {NoDraft, Torn}]
    BY <2>1 DEF CommitTx, Disk
  <2>4. disk.chapters = [tx.before.chapters EXCEPT ![tx.chapter] = tx.draft]
    BY <2>1, <2>2 DEF CommitDisk
  <2>5. disk'.chapters[tx'.chapter] = tx'.draft
    BY <2>1, <2>3, <2>4
  <2> QED
    BY <1>2, <2>5 DEF LogCommit
<1>3. CASE AppendEvent \/ WriteReport \/ WriteManifest
  BY <1>3 DEF AppendEvent, WriteReport, WriteManifest, Govern
<1>4. CASE Cleanup
  BY <1>4 DEF Cleanup, Finish
<1>5. CASE LogBegin \/ Prepare \/ (\E f \in Files : Publish(f)) \/ SaveIndex
           \/ (\E f \in Files : Undo(f)) \/ LogAbort
           \/ FailUnprotected \/ Fail
  BY <1>5 DEF LogBegin, Prepare, Publish, SaveIndex, Undo, LogAbort, FailUnprotected, Fail,
     Finish
<1>6. CASE \/ \E t \in Targets : BeginRollback(t)
           \/ \E f \in Files : RollbackFile(f)
           \/ LogRollback
           \/ \E b \in Branches, c \in Targets : BeginFork(b, c)
           \/ \E f \in Files : ForkFile(f)
  BY <1>6 DEF BeginRollback, RollbackFile, LogRollback, BeginFork, ForkFile, Finish
<1>7. CASE Crash \/ Exit \/ Start
  BY <1>7 DEF Crash, Exit, Start, Stop
<1>8. CASE UNCHANGED vars
  BY <1>8 DEF vars
<1> QED
  BY <1>1, <1>2, <1>3, <1>4, <1>5, <1>6, <1>7, <1>8 DEF Next, Work

\* For the same callers and under the same conditions an answer COMMITTED or
\* ALREADY_COMMITTED is true of every file the commit publishes.
THEOREM AnswersAreTrue ==
  ASSUME NoCrash, OnlyEarlyFaults, Serial
  PROVE  Spec => []AckImpliesPublished
<1> DEFINE I == TypeInv /\ AtomicInv /\ Proved!History /\ AnswerInv
<1>1. Init => I
  BY InitAtomic, InitProved DEF AtomicInv, Init, AnswerInv
<1>2. I /\ [Next]_vars => I'
  BY NextAtomic, NextProved, NextAnswer DEF AtomicInv
<1>3. I => AckImpliesPublished
  <2> SUFFICES ASSUME I, pc = "idle", reply # NoReply, reply.kind \in {"committed", "already"}
               PROVE  /\ disk.chapters[reply.chapter] = reply.draft
                      /\ disk.meta # Torn /\ reply.chapter <= disk.meta.head
                      /\ disk.snaps[reply.chapter] \in Snapshot
                      /\ disk.snaps[reply.chapter].draft = reply.draft
                      /\ disk.memories # Torn
                      /\ EndsWith(disk.memories[reply.chapter], reply.draft)
                      /\ disk.hybrid # Torn
                      /\ EndsWith(disk.hybrid[reply.chapter], reply.draft)
    BY DEF AckImpliesPublished
  <2>1. reply.chapter \in Chapters /\ reply.draft \in Drafts
    BY DEF TypeInv, TypeOK, Answer
  <2>2. Story = disk
    BY DEF Story, InFlight
  <2>3. disk.chapters[reply.chapter] = reply.draft
    BY DEF AnswerInv
  <2>4. EndsWith(<<reply.draft>>, reply.draft)
    BY DEF EndsWith
  <2> QED
    BY <2>1, <2>2, <2>3, <2>4, ChapterKept
<1> QED
  BY <1>1, <1>2, <1>3, PTL DEF Spec
=============================================================================
