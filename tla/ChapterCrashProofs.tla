------------------------- MODULE ChapterCrashProofs -------------------------
(***************************************************************************)
(* What survives crashes at any step of any operation.  None of it rests   *)
(* on atomicity.                                                           *)
(*   - The head of the story is a chapter that is there, the undo of a     *)
(*     failed commit included: the chapter is published before the head.   *)
(*   - A committed chapter survives the crashes of later operations, and   *)
(*     the journal accounts for the damage those crashes do: whatever is   *)
(*     half written belongs to a transaction that was begun and is not     *)
(*     resolved.                                                           *)
(*   - A transaction id is good for one application of its delta: the      *)
(*     recovery puts every id that was begun into the index.               *)
(***************************************************************************)
EXTENDS ChapterCommitProofs

USE StoreAssumption, TornAssumption, CommitAssumption

\* Every chapter up to the head of metadata m has a directory in chs.
Fits(m, chs) == m # Torn => \A c \in Chapters : c <= m.head => chs[c] # NoDraft

\* The metadata file and the chapters are what the progress of the operation
\* says they are.
Written == \A f \in {"meta", "chapters"} :
    disk[f] = IF f \in done THEN tx.after[f] ELSE tx.before[f]

\* A commit may publish the chapter before the metadata.
CommitFits == pc \in {"log_begin", "backup", "stage", "publish"} =>
    /\ tx.before.meta # Torn
    /\ Fits(tx.before.meta, tx.before.chapters)
    /\ Fits(tx.before.meta, tx.after.chapters)
    /\ Fits(tx.after.meta, tx.after.chapters)
    /\ Written
    /\ "meta" \in done => {"state", "chapters"} \subseteq done
\* The undo starts before the metadata was published.
UndoFits == pc = "undo" =>
    /\ tx.before.meta # Torn
    /\ Fits(tx.before.meta, tx.before.chapters)
    /\ Fits(tx.before.meta, disk.chapters)
    /\ disk.meta \in {Torn, tx.before.meta}
\* A rollback may write the metadata before it moves the chapters.
RollbackFits == pc = "rollback" =>
    /\ Fits(tx.after.meta, tx.before.chapters)
    /\ Fits(tx.after.meta, tx.after.chapters)
    /\ Written
\* A fork leaves the head and the chapters alone.
ForkFits == pc = "fork" =>
    /\ tx.after.chapters = tx.before.chapters
    /\ Fits(tx.after.meta, tx.before.chapters)
    /\ Fits(tx.before.meta, tx.before.chapters)
    /\ Written
Rested == pc \notin {"publish", "undo", "rollback", "fork"} => done = {}

\* The inductive invariant.
HeadInv == /\ TypeInv
           /\ Fits(disk.meta, disk.chapters)
           /\ CommitFits /\ UndoFits /\ RollbackFits /\ ForkFits
           /\ Rested

\* No error once the metadata is out: the undo removes the chapter first.
OnlyFaultsBeforeMeta ==
    FaultPoints \cap {"memories", "heads", "snaps", "hybrid", "index", "log_commit"} = {}

\* A commit of the chapter after the head.
LEMMA CommitDiskFits ==
  ASSUME NEW x \in Disk, x.meta # Torn, Fits(x.meta, x.chapters),
         NEW c \in Chapters, NEW d \in Drafts, NEW b \in Branches, c = x.meta.head + 1
  PROVE  /\ Fits(x.meta, CommitDisk(x, c, d, b).chapters)
         /\ Fits(CommitDisk(x, c, d, b).meta, CommitDisk(x, c, d, b).chapters)
<1> DEFINE y == CommitDisk(x, c, d, b)
<1>1. x.meta \in MetaFile /\ x.meta.head \in Nat
  BY DEF Disk, MetaFile, Targets
<1>2. y.chapters = [x.chapters EXCEPT ![c] = d] /\ y.meta.head = c
  <2>1. y.meta = [x.meta EXCEPT !.head = Later(@, c), !.counted[d] = @ + 1, !.latest = d]
    BY DEF CommitDisk
  <2>2. y.meta.head = Later(x.meta.head, c)
    BY <1>1, <2>1 DEF MetaFile
  <2> QED
    BY <1>1, <2>2 DEF CommitDisk, Later
<1>3. \A a \in Chapters : a <= c => y.chapters[a] # NoDraft
  <2> SUFFICES ASSUME NEW a \in Chapters, a <= c PROVE y.chapters[a] # NoDraft
    OBVIOUS
  <2>1. a = c \/ a <= x.meta.head
    BY <1>1
  <2>2. y.chapters[a] = IF a = c THEN d ELSE x.chapters[a]
    BY <1>2 DEF Disk
  <2>3. a <= x.meta.head => x.chapters[a] # NoDraft
    BY DEF Fits
  <2>4. d # NoDraft
    OBVIOUS
  <2> QED
    BY <2>1, <2>2, <2>3, <2>4
<1>4. \A a \in Chapters : a <= x.meta.head => a <= c
  <2>1. \A h \in Nat : \A a \in Nat : a <= h => a <= h + 1
    OBVIOUS
  <2>2. Chapters \subseteq Nat
    OBVIOUS
  <2> QED
    BY <1>1, <2>1, <2>2, Zenon
<1> HIDE DEF y
<1>5. Fits(x.meta, y.chapters) /\ Fits(y.meta, y.chapters)
  BY <1>2, <1>3, <1>4 DEF Fits
<1> QED
  BY <1>5 DEF y

\* A rollback to a chapter that is there.
LEMMA RollbackDiskFits ==
  ASSUME NEW x \in Disk, x.meta # Torn, Fits(x.meta, x.chapters),
         NEW t \in Targets, t <= x.meta.head
  PROVE  /\ Fits(RollbackDisk(x, t).meta, x.chapters)
         /\ Fits(RollbackDisk(x, t).meta, RollbackDisk(x, t).chapters)
<1> DEFINE y == RollbackDisk(x, t)
<1>1. x.meta \in MetaFile /\ x.meta.head \in Nat /\ t \in Nat
  BY DEF Disk, MetaFile, Targets
<1>2. y.meta.head = t
  BY <1>1 DEF RollbackDisk, MetaFile
<1>3. \A a \in Chapters : a <= t => y.chapters[a] = x.chapters[a]
  <2> SUFFICES ASSUME NEW a \in Chapters, a <= t PROVE y.chapters[a] = x.chapters[a]
    OBVIOUS
  <2>1. a \notin Scanned({c \in Chapters : x.chapters[c] # NoDraft}, t)
    <3>1. a \in Nat /\ ~(a > t)
      BY <1>1
    <3> QED
      BY <3>1, Zenon DEF Scanned
  <2> QED
    BY <2>1 DEF RollbackDisk
<1>4. \A a \in Chapters : a <= t => x.chapters[a] # NoDraft
  <2>1. \A a \in Chapters : a <= t => a <= x.meta.head
    BY <1>1
  <2> QED
    BY <2>1 DEF Fits
<1> HIDE DEF y
<1>5. Fits(y.meta, x.chapters) /\ Fits(y.meta, y.chapters)
  BY <1>2, <1>3, <1>4 DEF Fits
<1> QED
  BY <1>5 DEF y

LEMMA ForkDiskFits ==
  ASSUME NEW x \in Disk, Fits(x.meta, x.chapters), NEW b \in Branches, NEW c \in Targets
  PROVE  /\ ForkDisk(x, b, c).chapters = x.chapters
         /\ Fits(ForkDisk(x, b, c).meta, x.chapters)
<1> DEFINE y == ForkDisk(x, b, c)
<1>1. y.chapters = x.chapters
      /\ y.meta = IF x.meta = Torn THEN Torn ELSE [x.meta EXCEPT !.branches = @ \cup {b}]
  BY DEF ForkDisk, Disk
<1>2. x.meta # Torn => y.meta.head = x.meta.head
  <2>1. x.meta # Torn => x.meta \in MetaFile
    BY DEF Disk
  <2> QED
    BY <1>1, <2>1 DEF MetaFile
<1> HIDE DEF y
<1>3. Fits(y.meta, x.chapters)
  BY <1>1, <1>2 DEF Fits
<1> QED
  BY <1>1, <1>3 DEF y

\* A file cut short is unreadable metadata, a chapter that is there, or neither.
LEMMA DamagedFits ==
  ASSUME NEW x \in Disk, NEW f \in Files, NEW c \in Chapters, NEW m,
         Fits(m, x.chapters)
  PROVE  /\ Fits(m, Damaged(x, f, c).chapters)
         /\ Damaged(x, f, c).meta \in {Torn, x.meta}
<1>1. CASE f = "chapters"
  <2>1. Damaged(x, f, c).chapters = [x.chapters EXCEPT ![c] = Torn]
        /\ Damaged(x, f, c).meta = x.meta
    BY <1>1 DEF Damaged, Disk
  <2>2. \A a \in Chapters : [x.chapters EXCEPT ![c] = Torn][a] \in {x.chapters[a], Torn}
    BY DEF Disk
  <2> QED
    BY <2>1, <2>2 DEF Fits
<1>2. CASE f # "chapters"
  <2>1. Damaged(x, f, c).chapters = x.chapters
        /\ Damaged(x, f, c).meta \in {Torn, x.meta}
    <3>1. CASE f = "snaps"
      BY <3>1 DEF Damaged, Disk
    <3>2. CASE f # "snaps"
      BY <1>2, <3>2 DEF Damaged, Disk, Files
    <3> QED
      BY <3>1, <3>2
  <2> QED
    BY <2>1
<1> QED
  BY <1>1, <1>2

LEMMA InitHead == Init => HeadInv
<1> SUFFICES ASSUME Init PROVE HeadInv
  OBVIOUS
<1>1. Fits(disk.meta, disk.chapters)
  <2>1. disk.meta.head = 0
    BY DEF Init, InitDisk
  <2>2. \A c \in Chapters : ~(c <= 0)
    OBVIOUS
  <2> QED
    BY <2>1, <2>2 DEF Fits
<1>2. CommitFits /\ UndoFits /\ RollbackFits /\ ForkFits /\ Rested
  BY DEF Init, CommitFits, UndoFits, RollbackFits, ForkFits, Rested
<1> QED
  BY <1>1, <1>2, InitTypeInv DEF HeadInv

\* A step after which the files are where they were and no operation is under
\* way, or one that has published everything.
LEMMA RestHead ==
  ASSUME HeadInv, TypeInv', disk' = disk, done' = {},
         pc' \notin {"log_begin", "backup", "stage", "publish", "undo", "rollback", "fork"}
  PROVE  HeadInv'
BY DEF HeadInv, CommitFits, UndoFits, RollbackFits, ForkFits, Rested

\* write-next asks for the chapter after the head.
LEMMA CallHead == Serial /\ HeadInv /\ Call => HeadInv'
<1> SUFFICES ASSUME Serial, HeadInv, pc = "idle", NEW q \in Calls,
                    Asked(disk, q.chapter, q.branch),
                    Replay(q) \/ Already(q) \/ Begin(q) \/ Reject(q)
             PROVE  HeadInv'
  BY DEF Call
<1>1. TypeInv'
  <2>1. Call
    BY DEF Call
  <2> QED
    BY <2>1, CallTypeInv DEF HeadInv
<1>2. done = {}
  BY DEF HeadInv, Rested
<1>3. CASE Replay(q) \/ Already(q) \/ Reject(q)
  <2>1. pc' = "idle" /\ disk' = disk /\ done' = {}
    BY <1>2, <1>3 DEF Replay, Already, Answers, Reject
  <2> QED
    BY <1>1, <2>1, RestHead
<1>4. CASE Begin(q)
  <2>1. /\ q.chapter \in Chapters /\ q.draft \in Drafts /\ q.branch \in Branches
        /\ disk \in Disk
    BY DEF Calls, HeadInv, TypeInv, TypeOK
  <2>2. /\ disk' = disk /\ pc' = "log_begin" /\ done' = {} /\ disk.meta # Torn
        /\ tx'.before = disk
        /\ tx'.after = CommitDisk(disk, q.chapter, q.draft, q.branch)
    BY <1>2, <1>4 DEF Begin
  <2>3. q.chapter = disk.meta.head + 1 /\ Fits(disk.meta, disk.chapters)
    BY DEF Asked, HeadInv
  <2>4. /\ Fits(disk.meta, tx'.after.chapters)
        /\ Fits(tx'.after.meta, tx'.after.chapters)
    BY <2>1, <2>2, <2>3, CommitDiskFits
  <2>5. CommitFits'
    BY <2>2, <2>3, <2>4 DEF CommitFits, Written
  <2> QED
    BY <1>1, <2>2, <2>3, <2>5 DEF HeadInv, UndoFits, RollbackFits, ForkFits, Rested
<1> QED
  BY <1>3, <1>4

\* The chapter is on disk before the metadata counts it.
LEMMA CommitHead ==
  ASSUME HeadInv,
         \/ LogBegin \/ Prepare \/ (\E f \in Files : Publish(f)) \/ SaveIndex
         \/ LogCommit \/ AppendEvent \/ WriteReport \/ WriteManifest \/ Cleanup
         \/ FailUnprotected
  PROVE  HeadInv'
<1>1. TypeInv'
  BY CommitTypeInv DEF HeadInv
<1>2. CASE LogBegin \/ Prepare
  <2>1. /\ pc \in {"log_begin", "backup", "stage"} /\ pc' \in {"backup", "stage", "publish"}
        /\ disk' = disk /\ tx' = tx /\ done' = done
    BY <1>2 DEF LogBegin, Prepare
  <2>2. done = {}
    BY <2>1 DEF HeadInv, Rested
  <2>3. CommitFits'
    BY <2>1 DEF HeadInv, CommitFits, Written
  <2> QED
    BY <1>1, <2>1, <2>2, <2>3 DEF HeadInv, UndoFits, RollbackFits, ForkFits, Rested
<1>3. CASE \/ SaveIndex \/ LogCommit \/ AppendEvent \/ WriteReport \/ WriteManifest
           \/ Cleanup \/ FailUnprotected
  <2>1. /\ disk' = disk /\ pc \notin {"publish", "undo", "rollback", "fork"}
        /\ done' \in {done, {}}
        /\ pc' \in {"idle", "log_commit", "event", "report", "manifest", "cleanup"}
    BY <1>3 DEF SaveIndex, LogCommit, AppendEvent, WriteReport, WriteManifest, Govern,
                Cleanup, FailUnprotected, Finish
  <2>2. done' = {}
    BY <2>1 DEF HeadInv, Rested
  <2> QED
    BY <1>1, <2>1, <2>2, RestHead
<1>4. ASSUME NEW f \in Files, Publish(f) PROVE HeadInv'
  <2>1. /\ pc = "publish" /\ Due(PublishRank, f) /\ tx' = tx
        /\ disk' = [disk EXCEPT ![f] = tx.after[f]]
        /\ \/ pc' = "index" /\ done' = {} /\ done \cup {f} = Files
           \/ pc' = "publish" /\ done' = done \cup {f}
    BY <1>4 DEF Publish
  <2>2. disk \in Disk /\ tx.before \in Disk /\ tx.after \in Disk
    BY <2>1 DEF HeadInv, TypeInv, TypeOK, TxOK, CommitSteps, CommitTx
  <2>3. \A g \in Files : disk'[g] = IF g = f THEN tx.after[g] ELSE disk[g]
    BY <2>1, <2>2, WriteOne
  <2>4. "meta" \in done \cup {f} => {"state", "chapters"} \subseteq done \cup {f}
    <3>1. CASE f = "meta"
      BY <2>1, <3>1 DEF Due, PublishRank
    <3>2. CASE f # "meta"
      BY <2>1, <3>2 DEF HeadInv, CommitFits
    <3> QED
      BY <3>1, <3>2
  <2>5. \A g \in {"meta", "chapters"} :
          disk'[g] = IF g \in done \cup {f} THEN tx.after[g] ELSE tx.before[g]
    <3>1. {"meta", "chapters"} \subseteq Files
      BY DEF Files
    <3>2. \A g \in {"meta", "chapters"} :
            disk[g] = IF g \in done THEN tx.after[g] ELSE tx.before[g]
      BY <2>1 DEF HeadInv, CommitFits, Written
    <3> QED
      BY <2>3, <3>1, <3>2
  <2>6. /\ tx.before.meta # Torn
        /\ Fits(tx.before.meta, tx.before.chapters)
        /\ Fits(tx.before.meta, tx.after.chapters)
        /\ Fits(tx.after.meta, tx.after.chapters)
    BY <2>1 DEF HeadInv, CommitFits
  <2>7. /\ disk'.meta = IF "meta" \in done \cup {f} THEN tx.after.meta ELSE tx.before.meta
        /\ disk'.chapters = IF "chapters" \in done \cup {f} THEN tx.after.chapters
                                                            ELSE tx.before.chapters
    BY <2>5
  <2>8. Fits(disk'.meta, disk'.chapters)
    <3>1. CASE "meta" \in done \cup {f}
      <4>1. disk'.meta = tx.after.meta /\ disk'.chapters = tx.after.chapters
        BY <2>4, <2>7, <3>1
      <4> QED
        BY <2>6, <4>1
    <3>2. CASE "meta" \notin done \cup {f}
      <4>1. /\ disk'.meta = tx.before.meta
            /\ disk'.chapters \in {tx.before.chapters, tx.after.chapters}
        BY <2>7, <3>2
      <4> QED
        BY <2>6, <4>1
    <3> QED
      BY <3>1, <3>2
  <2>9. CASE pc' = "index" /\ done' = {}
    BY <1>1, <2>8, <2>9 DEF HeadInv, CommitFits, UndoFits, RollbackFits, ForkFits, Rested
  <2>10. CASE pc' = "publish" /\ done' = done \cup {f}
    <3>1. Written'
      BY <2>1, <2>5, <2>10 DEF Written
    <3>2. CommitFits'
      BY <2>1, <2>4, <2>6, <2>10, <3>1 DEF CommitFits
    <3> QED
      BY <1>1, <2>8, <2>10, <3>2 DEF HeadInv, UndoFits, RollbackFits, ForkFits, Rested
  <2> QED
    BY <2>1, <2>9, <2>10
<1> QED
  BY <1>2, <1>3, <1>4

\* An error up to the publication of the metadata leaves the old head, and the
\* undo takes the new chapter away again, or gives the replaced one back.
LEMMA UndoHead ==
  ASSUME HeadInv, OnlyFaultsBeforeMeta,
         Fail \/ (\E f \in Files : Undo(f)) \/ LogAbort
  PROVE  HeadInv'
<1>1. TypeInv'
  BY OtherTypeInv DEF HeadInv
<1>2. CASE Fail
  <2>1. pc \in {"stage", "publish"} /\ pc' = "undo" /\ done' = {} /\ tx' = tx
    BY <1>2 DEF Fail, OnlyFaultsBeforeMeta
  <2>2. disk \in Disk /\ tx.chapter \in Chapters
    BY <2>1 DEF HeadInv, TypeInv, TypeOK, TxOK, CommitSteps, CommitTx
  <2>3. /\ tx.before.meta # Torn
        /\ Fits(tx.before.meta, tx.before.chapters)
        /\ Fits(tx.before.meta, tx.after.chapters)
        /\ Written
        /\ pc = "stage" => done = {}
        /\ "meta" \in done => {"state", "chapters"} \subseteq done
    BY <2>1 DEF HeadInv, CommitFits, Rested
  <2>4. "meta" \notin done
    <3>1. CASE pc = "stage"
      BY <2>3, <3>1
    <3>2. CASE pc = "publish"
      <4>1. PICK f \in FaultPoints : Due(PublishRank, f)
        BY <1>2, <3>2 DEF Fail
      <4>2. f \in {"state", "chapters", "meta"} /\ f \notin done
        BY <4>1 DEF Due, PublishRank, OnlyFaultsBeforeMeta
      <4> QED
        BY <2>3, <4>2
    <3> QED
      BY <2>1, <3>1, <3>2
  <2>5. /\ disk.meta = tx.before.meta
        /\ disk.chapters \in {tx.before.chapters, tx.after.chapters}
    BY <2>3, <2>4 DEF Written
  <2>6. Fits(tx.before.meta, disk.chapters)
    BY <2>3, <2>5
  <2>7. /\ Fits(tx.before.meta, disk'.chapters)
        /\ disk'.meta \in {Torn, tx.before.meta}
    <3>1. CASE disk' = disk
      BY <2>5, <2>6, <3>1
    <3>2. ASSUME NEW f \in FaultPoints, Due(PublishRank, f),
                 disk' = Damaged(disk, f, tx.chapter)
          PROVE  /\ Fits(tx.before.meta, disk'.chapters)
                 /\ disk'.meta \in {Torn, tx.before.meta}
      <4>1. f \in Files
        BY <3>2 DEF Due, PublishRank, Files
      <4> QED
        BY <2>2, <2>5, <2>6, <3>2, <4>1, DamagedFits
    <3> QED
      BY <1>2, <3>1, <3>2 DEF Fail
  <2>8. UndoFits'
    BY <2>1, <2>3, <2>7 DEF UndoFits
  <2>9. Fits(disk.meta, disk.chapters)'
    BY <2>7 DEF Fits
  <2> QED
    BY <1>1, <2>1, <2>8, <2>9 DEF HeadInv, CommitFits, RollbackFits, ForkFits, Rested
<1>3. ASSUME NEW f \in Files, Undo(f) PROVE HeadInv'
  <2>1. /\ pc = "undo" /\ pc' = "undo" /\ tx' = tx
        /\ disk' = [disk EXCEPT ![f] = Restored(tx.before)[f]]
    BY <1>3 DEF Undo
  <2>2. disk \in Disk /\ tx.before \in Disk
    BY <2>1 DEF HeadInv, TypeInv, TypeOK, TxOK, CommitSteps, CommitTx
  <2>3. /\ tx.before.meta # Torn
        /\ Fits(tx.before.meta, tx.before.chapters)
        /\ Fits(tx.before.meta, disk.chapters)
        /\ disk.meta \in {Torn, tx.before.meta}
    BY <2>1 DEF HeadInv, UndoFits
  <2>4. /\ Restored(tx.before).meta = tx.before.meta
        /\ Restored(tx.before).chapters = tx.before.chapters
    BY <2>2 DEF Restored, Read, Disk
  <2>5. \A g \in Files : disk'[g] = IF g = f THEN Restored(tx.before)[g] ELSE disk[g]
    BY <2>1, <2>2, RestoredType, WriteOne
  <2>6. /\ disk'.meta \in {disk.meta, tx.before.meta}
        /\ disk'.chapters \in {disk.chapters, tx.before.chapters}
    BY <2>4, <2>5 DEF Files
  <2>7. Fits(tx.before.meta, disk'.chapters) /\ disk'.meta \in {Torn, tx.before.meta}
    BY <2>3, <2>6
  <2>8. UndoFits'
    BY <2>1, <2>3, <2>7 DEF UndoFits
  <2>9. Fits(disk.meta, disk.chapters)'
    BY <2>7 DEF Fits
  <2> QED
    BY <1>1, <2>1, <2>8, <2>9 DEF HeadInv, CommitFits, RollbackFits, ForkFits, Rested
<1>4. CASE LogAbort
  <2>1. disk' = disk /\ pc' = "idle" /\ done' = {}
    BY <1>4 DEF LogAbort, Finish
  <2> QED
    BY <1>1, <2>1, RestHead
<1> QED
  BY <1>2, <1>3, <1>4

\* The head goes back before the chapters above it go to the trash.
LEMMA RollbackHead ==
  ASSUME Serial, HeadInv,
         \/ \E t \in Targets : BeginRollback(t)
         \/ \E f \in Files : RollbackFile(f)
         \/ LogRollback
  PROVE  HeadInv'
<1>1. TypeInv'
  BY OtherTypeInv DEF HeadInv
<1>2. ASSUME NEW t \in Targets, BeginRollback(t) PROVE HeadInv'
  <2>1. /\ pc = "idle" /\ pc' = "rollback" /\ disk' = disk /\ done' = done
        /\ disk.meta # Torn /\ t <= disk.meta.head
        /\ tx'.before = disk /\ tx'.after = RollbackDisk(disk, t)
    BY <1>2 DEF BeginRollback, Writes, RollbackAsked
  <2>2. done = {} /\ disk \in Disk /\ Fits(disk.meta, disk.chapters)
    BY <2>1 DEF HeadInv, Rested, TypeInv, TypeOK
  <2>3. /\ Fits(tx'.after.meta, disk.chapters)
        /\ Fits(tx'.after.meta, tx'.after.chapters)
    BY <2>1, <2>2, RollbackDiskFits
  <2>4. Written'
    BY <2>1, <2>2 DEF Written
  <2>5. RollbackFits'
    BY <2>1, <2>3, <2>4 DEF RollbackFits
  <2> QED
    BY <1>1, <2>1, <2>2, <2>5 DEF HeadInv, CommitFits, UndoFits, ForkFits, Rested
<1>3. ASSUME NEW f \in Files, RollbackFile(f) PROVE HeadInv'
  <2>1. /\ pc = "rollback" /\ pc' = "rollback" /\ Due(RollbackRank, f) /\ tx' = tx
        /\ disk' = [disk EXCEPT ![f] = tx.after[f]] /\ done' = done \cup {f}
    BY <1>3 DEF RollbackFile
  <2>2. disk \in Disk /\ tx.before \in Disk /\ tx.after \in Disk
    BY <2>1 DEF HeadInv, TypeInv, TypeOK, TxOK, Transaction
  <2>3. /\ Fits(tx.after.meta, tx.before.chapters)
        /\ Fits(tx.after.meta, tx.after.chapters)
        /\ Written
        /\ Fits(disk.meta, disk.chapters)
    BY <2>1 DEF HeadInv, RollbackFits
  <2>4. \A g \in Files : disk'[g] = IF g = f THEN tx.after[g] ELSE disk[g]
    BY <2>1, <2>2, WriteOne
  <2>5. \A g \in {"meta", "chapters"} :
          disk'[g] = IF g \in done \cup {f} THEN tx.after[g] ELSE tx.before[g]
    <3>1. {"meta", "chapters"} \subseteq Files
      BY DEF Files
    <3> QED
      BY <2>3, <2>4, <3>1 DEF Written
  <2>6. Written'
    BY <2>1, <2>5 DEF Written
  <2>7. Fits(disk'.meta, disk'.chapters)
    <3>1. CASE "meta" \in done \cup {f}
      <4>1. /\ disk'.meta = tx.after.meta
            /\ disk'.chapters \in {tx.before.chapters, tx.after.chapters}
        BY <2>5, <3>1
      <4> QED
        BY <2>3, <4>1
    <3>2. CASE "meta" \notin done \cup {f}
      <4>1. f \notin {"meta", "chapters"}
        BY <2>1, <3>2 DEF Due, RollbackRank
      <4>2. disk'.meta = disk.meta /\ disk'.chapters = disk.chapters
        BY <2>4, <4>1 DEF Files
      <4> QED
        BY <2>3, <4>2
    <3> QED
      BY <3>1, <3>2
  <2>8. RollbackFits'
    BY <2>1, <2>3, <2>6 DEF RollbackFits
  <2> QED
    BY <1>1, <2>1, <2>7, <2>8 DEF HeadInv, CommitFits, UndoFits, ForkFits, Rested
<1>4. CASE LogRollback
  <2>1. disk' = disk /\ pc' = "idle" /\ done' = {}
    BY <1>4 DEF LogRollback, Finish
  <2> QED
    BY <1>1, <2>1, RestHead
<1> QED
  BY <1>2, <1>3, <1>4

\* A fork keeps the head and the chapters.
LEMMA ForkHead ==
  ASSUME HeadInv,
         \/ \E b \in Branches, c \in Targets : BeginFork(b, c)
         \/ \E f \in Files : ForkFile(f)
  PROVE  HeadInv'
<1>1. TypeInv'
  BY OtherTypeInv DEF HeadInv
<1>2. ASSUME NEW b \in Branches, NEW c \in Targets, BeginFork(b, c) PROVE HeadInv'
  <2>1. /\ pc = "idle" /\ pc' = "fork" /\ disk' = disk /\ done' = done
        /\ tx'.before = disk /\ tx'.after = ForkDisk(disk, b, c)
    BY <1>2 DEF BeginFork, Writes
  <2>2. done = {} /\ disk \in Disk /\ Fits(disk.meta, disk.chapters)
    BY <2>1 DEF HeadInv, Rested, TypeInv, TypeOK
  <2>3. tx'.after.chapters = disk.chapters /\ Fits(tx'.after.meta, disk.chapters)
    BY <2>1, <2>2, ForkDiskFits
  <2>4. Written'
    BY <2>1, <2>2 DEF Written
  <2>5. ForkFits'
    BY <2>1, <2>2, <2>3, <2>4 DEF ForkFits
  <2> QED
    BY <1>1, <2>1, <2>2, <2>5 DEF HeadInv, CommitFits, UndoFits, RollbackFits, Rested
<1>3. ASSUME NEW f \in Files, ForkFile(f) PROVE HeadInv'
  <2>1. /\ pc = "fork" /\ disk' = [disk EXCEPT ![f] = tx.after[f]]
        /\ \/ pc' = "idle" /\ done' = {}
           \/ pc' = "fork" /\ done' = done \cup {f} /\ tx' = tx
    BY <1>3 DEF ForkFile, Finish
  <2>2. disk \in Disk /\ tx.before \in Disk /\ tx.after \in Disk
    BY <2>1 DEF HeadInv, TypeInv, TypeOK, TxOK, Transaction
  <2>3. /\ tx.after.chapters = tx.before.chapters
        /\ Fits(tx.after.meta, tx.before.chapters)
        /\ Fits(tx.before.meta, tx.before.chapters)
        /\ Written
    BY <2>1 DEF HeadInv, ForkFits
  <2>4. \A g \in Files : disk'[g] = IF g = f THEN tx.after[g] ELSE disk[g]
    BY <2>1, <2>2, WriteOne
  <2>5. \A g \in {"meta", "chapters"} :
          disk'[g] = IF g \in done \cup {f} THEN tx.after[g] ELSE tx.before[g]
    <3>1. {"meta", "chapters"} \subseteq Files
      BY DEF Files
    <3> QED
      BY <2>3, <2>4, <3>1 DEF Written
  <2>6. /\ disk'.meta \in {tx.before.meta, tx.after.meta}
        /\ disk'.chapters = tx.before.chapters
    BY <2>3, <2>5
  <2>7. Fits(disk'.meta, disk'.chapters)
    BY <2>3, <2>6
  <2>8. CASE pc' = "idle" /\ done' = {}
    BY <1>1, <2>7, <2>8 DEF HeadInv, CommitFits, UndoFits, RollbackFits, ForkFits, Rested
  <2>9. CASE pc' = "fork" /\ done' = done \cup {f} /\ tx' = tx
    <3>1. Written'
      BY <2>5, <2>9 DEF Written
    <3>2. ForkFits'
      BY <2>3, <2>9, <3>1 DEF ForkFits
    <3> QED
      BY <1>1, <2>7, <2>9, <3>2 DEF HeadInv, CommitFits, UndoFits, RollbackFits, Rested
  <2> QED
    BY <2>1, <2>8, <2>9
<1> QED
  BY <1>2, <1>3

\* Whatever the process was doing when it died.
LEMMA CrashHead == HeadInv /\ (Crash \/ Exit \/ Start) => HeadInv'
<1> SUFFICES ASSUME HeadInv, Crash \/ Exit \/ Start PROVE HeadInv'
  OBVIOUS
<1>1. TypeInv'
  BY CrashTypeInv DEF HeadInv
<1>2. CASE Exit \/ Start
  <2>1. disk' = disk /\ pc \in {"idle", "down"} /\ pc' \in {"idle", "down"}
        /\ done' \in {done, {}}
    BY <1>2 DEF Exit, Start, Stop
  <2>2. done' = {}
    BY <2>1 DEF HeadInv, Rested
  <2> QED
    BY <1>1, <2>1, <2>2, RestHead
<1>3. CASE Crash
  <2>1. disk' \in Interrupted /\ pc' = "down" /\ done' = {}
    BY <1>3 DEF Crash, Stop
  <2>2. /\ disk \in Disk /\ Fits(disk.meta, disk.chapters)
        /\ pc \in {"publish", "undo"} => tx.chapter \in Chapters
        /\ pc = "rollback" => tx.before \in Disk /\ tx.after \in Disk
    BY DEF HeadInv, TypeInv, TypeOK, TxOK, CommitSteps, CommitTx, Transaction
  <2>3. Fits(disk'.meta, disk'.chapters)
    <3>1. CASE disk' = disk
      BY <2>2, <3>1
    <3>2. ASSUME NEW f \in BeingWritten, disk' = Damaged(disk, f, tx.chapter)
          PROVE  Fits(disk'.meta, disk'.chapters)
      <4>1. f \in Files /\ tx.chapter \in Chapters
        BY <2>2, <3>2 DEF BeingWritten
      <4>2. Fits(disk.meta, disk'.chapters) /\ disk'.meta \in {Torn, disk.meta}
        BY <2>2, <3>2, <4>1, DamagedFits
      <4> QED
        BY <4>2 DEF Fits
    <3>3. ASSUME NEW f \in BeingMoved, NEW k \in Chapters, disk' = Moved(f, k)
          PROVE  Fits(disk'.meta, disk'.chapters)
      <4>1. f \in {"chapters", "snaps"} /\ pc = "rollback" /\ Due(RollbackRank, f)
        BY <3>3 DEF BeingMoved
      <4> DEFINE mixed == [c \in Chapters |->
                             IF c <= k THEN tx.after[f][c] ELSE disk[f][c]]
      <4>2. disk' = [disk EXCEPT ![f] = mixed]
        BY <3>3 DEF Moved
      <4>3. CASE f = "snaps"
        <5>1. disk'.meta = disk.meta /\ disk'.chapters = disk.chapters
          BY <2>2, <4>2, <4>3 DEF Disk
        <5> QED
          BY <2>2, <5>1
      <4>4. CASE f = "chapters"
        <5>1. "meta" \in done /\ "chapters" \notin done
          BY <4>1, <4>4 DEF Due, RollbackRank
        <5>2. /\ Fits(tx.after.meta, tx.before.chapters)
              /\ Fits(tx.after.meta, tx.after.chapters)
              /\ disk.meta = tx.after.meta
              /\ disk.chapters = tx.before.chapters
          BY <4>1, <5>1 DEF HeadInv, RollbackFits, Written
        <5>3. \A c \in Chapters : mixed[c] \in {tx.after.chapters[c], tx.before.chapters[c]}
          BY <4>4, <5>2
        <5> HIDE DEF mixed
        <5>4. disk'.meta = disk.meta /\ disk'.chapters = mixed
          BY <2>2, <4>2, <4>4 DEF Disk
        <5>5. Fits(tx.after.meta, mixed)
          BY <5>2, <5>3 DEF Fits
        <5> QED
          BY <5>2, <5>4, <5>5
      <4> QED
        BY <4>1, <4>3, <4>4
    <3> QED
      BY <2>1, <3>1, <3>2, <3>3 DEF Interrupted
  <2> QED
    BY <1>1, <2>1, <2>3 DEF HeadInv, CommitFits, UndoFits, RollbackFits, ForkFits, Rested
<1> QED
  BY <1>2, <1>3

LEMMA NextHead ==
  ASSUME Serial, OnlyFaultsBeforeMeta, HeadInv, [Next]_vars
  PROVE  HeadInv'
<1>1. CASE UNCHANGED vars
  <2>1. TypeInv'
    BY NextTypeInv DEF HeadInv
  <2>2. UNCHANGED <<disk, pc, tx, done>>
    BY <1>1 DEF vars
  <2> QED
    BY <2>1, <2>2 DEF HeadInv, CommitFits, UndoFits, RollbackFits, ForkFits, Rested, Written
<1>2. CASE Next
  <2>1. CASE \/ LogBegin \/ Prepare \/ (\E f \in Files : Publish(f)) \/ SaveIndex
             \/ LogCommit \/ AppendEvent \/ WriteReport \/ WriteManifest \/ Cleanup
             \/ FailUnprotected
    BY <2>1, CommitHead
  <2>2. CASE Fail \/ (\E f \in Files : Undo(f)) \/ LogAbort
    BY <2>2, UndoHead
  <2>3. CASE \/ \E t \in Targets : BeginRollback(t)
             \/ \E f \in Files : RollbackFile(f)
             \/ LogRollback
    BY <2>3, RollbackHead
  <2>4. CASE \/ \E b \in Branches, c \in Targets : BeginFork(b, c)
             \/ \E f \in Files : ForkFile(f)
    BY <2>4, ForkHead
  <2> QED
    BY <1>2, <2>1, <2>2, <2>3, <2>4, CallHead, CrashHead DEF Next, Work
<1> QED
  BY <1>1, <1>2

LEMMA HeadIsThere == HeadInv => HeadHasChapter
<1> SUFFICES ASSUME HeadInv, disk.meta # Torn, disk.meta.head # 0
             PROVE  disk.chapters[disk.meta.head] # NoDraft
  BY DEF HeadHasChapter
<1>1. disk.meta \in MetaFile
  <2>1. disk \in Disk
    BY DEF HeadInv, TypeInv, TypeOK
  <2> QED
    BY <2>1 DEF Disk
<1>2. disk.meta.head \in Chapters
  BY <1>1 DEF MetaFile, Targets
<1>3. disk.meta.head <= disk.meta.head
  <2>1. \A h \in Nat : h <= h
    OBVIOUS
  <2>2. Chapters \subseteq Nat
    OBVIOUS
  <2> QED
    BY <1>2, <2>1, <2>2, Zenon
<1> QED
  BY <1>2, <1>3 DEF HeadInv, Fits

\* When only write-next and the daemon use the project, and no error strikes
\* once the metadata is out, the process may die anywhere, in the middle of a
\* file, of an undo or of a rollback, and be restarted any number of times: the
\* head of project_meta.json is a chapter that has its directory.
THEOREM HeadSurvivesCrashes ==
  ASSUME Serial, OnlyFaultsBeforeMeta
  PROVE  Spec => []HeadHasChapter
<1>1. HeadInv /\ [Next]_vars => HeadInv'
  BY NextHead
<1> QED
  BY <1>1, InitHead, HeadIsThere, PTL DEF Spec

-----------------------------------------------------------------------------
(* What crashes leave of the work of others.  From here on errors come only   *)
(* where nothing is undone: an undo writes ABORTED under the id of its        *)
(* transaction, and when the id is used again and that attempt dies, the      *)
(* recovery takes it for resolved.                                            *)

NoUndo == FaultPoints \cap (Files \cup {"stage", "index", "log_commit"}) = {}

\* The operation in progress is as far as its program counter says, though the
\* files it found may have been torn already.
WorkInv == TypeInv /\ Isolation /\ Planned /\ DoneOK /\ pc # "undo"

LEMMA InitWork == Init => WorkInv
<1> SUFFICES ASSUME Init PROVE WorkInv
  OBVIOUS
<1>1. Isolation /\ Planned /\ DoneOK
  BY DEF Init, Isolation, Planned, DoneOK
<1> QED
  BY <1>1, InitTypeInv DEF Init, WorkInv

\* Between operations there is nothing to say about the files.
LEMMA RestWork ==
  ASSUME TypeInv', done' = {},
         pc' \in {"event", "report", "manifest", "cleanup", "idle", "down"}
  PROVE  WorkInv'
BY DEF WorkInv, Isolation, Planned, DoneOK

\* No step of an operation, and no crash, leaves the files anywhere else.
LEMMA NextWork ==
  ASSUME NoUndo, WorkInv, [Next]_vars
  PROVE  WorkInv'
<1> USE DEF WorkInv
<1>1. TypeInv'
  BY NextTypeInv
<1>2. /\ disk \in Disk /\ disk' \in Disk
      /\ pc \in CommitSteps => tx \in CommitTx
      /\ pc \in {"rollback", "fork"} => tx \in Transaction
  BY <1>1 DEF TypeInv, TypeOK, TxOK
<1>3. CASE Call
  <2>1. PICK q \in Calls :
          /\ pc = "idle" /\ Asked(disk, q.chapter, q.branch)
          /\ Replay(q) \/ Already(q) \/ Begin(q) \/ Reject(q)
    BY <1>3 DEF Call
  <2>2. done = {}
    BY <2>1 DEF DoneOK
  <2>3. CASE Begin(q)
    <3>1. /\ pc' = "log_begin" /\ disk' = disk /\ done' = {} /\ tx'.before = disk
          /\ tx'.chapter = q.chapter /\ tx'.draft = q.draft
          /\ tx'.after = CommitDisk(disk, q.chapter, q.draft, q.branch)
      BY <2>2, <2>3 DEF Begin
    <3>2. CommitPlanned'
      <4>1. q.branch \in Branches
        BY DEF Calls
      <4>2. /\ Asked(tx'.before, tx'.chapter, q.branch)
            /\ Valid(tx'.draft, tx'.before.state)
            /\ ~AlreadyThere(tx'.before, tx'.chapter, tx'.draft)
            /\ tx'.after = CommitDisk(tx'.before, tx'.chapter, tx'.draft, q.branch)
        BY <2>1, <2>3, <3>1 DEF Begin, Accepted
      <4> QED
        BY <4>1, <4>2 DEF CommitPlanned
    <3> QED
      BY <1>1, <3>1, <3>2 DEF Isolation, Planned, DoneOK
  <2>4. CASE Replay(q) \/ Already(q) \/ Reject(q)
    <3>1. pc' = "idle" /\ done' = {}
      BY <2>1, <2>2, <2>4 DEF Replay, Already, Reject, Answers
    <3> QED
      BY <1>1, <3>1, RestWork
  <2> QED
    BY <2>1, <2>3, <2>4
<1>4. CASE LogBegin \/ Prepare \/ SaveIndex
  <2>1. /\ UNCHANGED <<disk, tx, done>> /\ done = {}
        /\ \/ pc \in {"log_begin", "backup", "stage"} /\ pc' \in {"backup", "stage", "publish"}
           \/ pc = "index" /\ pc' = "log_commit"
    BY <1>4 DEF LogBegin, Prepare, SaveIndex, DoneOK
  <2>2. Isolation' /\ DoneOK'
    BY <2>1 DEF Isolation, DoneOK
  <2>3. Planned'
    BY <2>1 DEF Planned, CommitPlanned
  <2> QED
    BY <1>1, <2>1, <2>2, <2>3
<1>5. ASSUME NEW f \in Files, Publish(f) PROVE WorkInv'
  <2>1. /\ pc = "publish" /\ tx' = tx /\ disk' = [disk EXCEPT ![f] = tx.after[f]]
        /\ tx.after \in Disk /\ tx.before \in Disk
        /\ \/ pc' = "index" /\ done' = {} /\ done \cup {f} = Files
           \/ pc' = "publish" /\ done' = done \cup {f}
    BY <1>2, <1>5 DEF Publish, CommitSteps, CommitTx
  <2>2. \A g \in Files : disk'[g] = IF g \in done \cup {f} THEN tx.after[g] ELSE tx.before[g]
    <3>1. \A g \in Files : disk'[g] = IF g = f THEN tx.after[g] ELSE disk[g]
      BY <1>2, <2>1, WriteOne
    <3>2. \A g \in Files : disk[g] = IF g \in done THEN tx.after[g] ELSE tx.before[g]
      BY <2>1 DEF Isolation
    <3> QED
      BY <3>1, <3>2
  <2>3. CASE pc' = "index" /\ done' = {} /\ done \cup {f} = Files
    <3>1. disk' = tx.after
      <4>1. \A g \in Files : disk'[g] = tx.after[g]
        BY <2>2, <2>3
      <4> QED
        BY <1>2, <2>1, <4>1, FilesOfDisk
    <3> QED
      BY <1>1, <2>1, <2>3, <3>1 DEF Isolation, DoneOK, Planned, CommitPlanned
  <2>4. CASE pc' = "publish" /\ done' = done \cup {f}
    <3>1. Isolation' /\ Planned'
      BY <2>1, <2>2, <2>4 DEF Isolation, Planned, CommitPlanned
    <3>2. DoneOK'
      <4>1. \A g \in Files : PublishRank[g] < PublishRank[f] => g \in done
        BY <1>5 DEF Publish, Due, PublishRank, Files
      <4> QED
        BY <2>1, <2>4, <4>1 DEF DoneOK
    <3> QED
      BY <1>1, <2>4, <3>1, <3>2
  <2> QED
    BY <2>1, <2>3, <2>4
<1>6. CASE \/ FailUnprotected \/ LogCommit \/ AppendEvent \/ WriteReport \/ WriteManifest
           \/ Cleanup \/ LogRollback \/ Crash \/ Exit \/ Start
  <2>1. /\ pc' \in {"event", "report", "manifest", "cleanup", "idle", "down"}
        /\ \/ done' = {}
           \/ /\ done' = done
              /\ pc \in {"log_commit", "event", "report", "manifest", "down"}
    BY <1>6 DEF FailUnprotected, LogCommit, AppendEvent, WriteReport, WriteManifest, Govern,
                Cleanup, LogRollback, Crash, Exit, Start, Stop, Finish
  <2>2. done' = {}
    BY <2>1 DEF DoneOK
  <2> QED
    BY <1>1, <2>1, <2>2, RestWork
<1>7. CASE Fail \/ (\E f \in Files : Undo(f)) \/ LogAbort
  <2>1. ~Fail
    BY DEF Fail, NoUndo, Due, PublishRank, Files
  <2> QED
    BY <1>7, <2>1 DEF Undo, LogAbort
<1>8. ASSUME NEW t \in Targets, BeginRollback(t) PROVE WorkInv'
  <2>1. /\ pc = "idle" /\ pc' = "rollback" /\ disk' = disk /\ done' = done /\ done = {}
        /\ RollbackAsked(disk, t)
        /\ tx'.chapter = t /\ tx'.before = disk /\ tx'.after = RollbackDisk(disk, t)
    BY <1>8 DEF BeginRollback, Writes, DoneOK
  <2>2. RollbackPlanned'
    BY <2>1 DEF RollbackPlanned
  <2> QED
    BY <1>1, <2>1, <2>2 DEF Isolation, DoneOK, Planned
<1>9. ASSUME NEW b \in Branches, NEW c \in Targets, BeginFork(b, c) PROVE WorkInv'
  <2>1. /\ pc = "idle" /\ pc' = "fork" /\ disk' = disk /\ done' = done /\ done = {}
        /\ ForkAsked(disk, c) /\ Forkable(disk, b)
        /\ tx'.chapter = c /\ tx'.before = disk /\ tx'.after = ForkDisk(disk, b, c)
    BY <1>9 DEF BeginFork, Writes, DoneOK
  <2>2. ForkPlanned'
    BY <2>1 DEF ForkPlanned
  <2> QED
    BY <1>1, <2>1, <2>2 DEF Isolation, DoneOK, Planned
<1>10. ASSUME NEW f \in Files, RollbackFile(f) \/ ForkFile(f) PROVE WorkInv'
  <2>1. /\ pc \in {"rollback", "fork"} /\ disk' = [disk EXCEPT ![f] = tx.after[f]]
        /\ pc = "fork" => f \in {"heads", "meta"}
        /\ \/ pc' = "idle" /\ done' = {}
           \/ pc' = pc /\ done' = done \cup {f} /\ tx' = tx
    BY <1>10 DEF RollbackFile, ForkFile, Due, ForkRank, Finish
  <2>2. \A g \in Files :
          disk'[g] = IF g \in done \cup {f} THEN tx.after[g] ELSE tx.before[g]
    <3>1. \A g \in Files : disk'[g] = IF g = f THEN tx.after[g] ELSE disk[g]
      BY <1>2, <2>1, WriteOne DEF Transaction
    <3> QED
      BY <2>1, <3>1 DEF Isolation
  <2>3. CASE pc' = "idle" /\ done' = {}
    BY <1>1, <2>3, RestWork
  <2>4. CASE pc' = pc /\ done' = done \cup {f} /\ tx' = tx
    <3>1. Isolation' /\ DoneOK'
      BY <2>1, <2>2, <2>4 DEF Isolation, DoneOK
    <3>2. Planned'
      BY <2>1, <2>4 DEF Planned, RollbackPlanned, ForkPlanned
    <3> QED
      BY <1>1, <2>4, <3>1, <3>2
  <2> QED
    BY <2>1, <2>3, <2>4
<1>11. CASE UNCHANGED vars
  BY <1>1, <1>11 DEF vars, Isolation, DoneOK, Planned, CommitPlanned, RollbackPlanned, ForkPlanned
<1> QED
  BY <1>3, <1>4, <1>5, <1>6, <1>7, <1>8, <1>9, <1>10, <1>11 DEF Next, Work

\* The journal, the index and the BEGIN records agree, wherever the process
\* died: an id that the index has was begun, and one that is being used is new.
CrashLog ==
    /\ \A i \in TxIds :
         /\ ~Logged(i, {"ABORTED"})
         /\ index[i] # "absent" => Logged(i, {"BEGIN"})
         /\ Logged(i, {"BEGIN"}) => begun[i] # NoTx
    /\ pc \in {"backup", "stage", "publish", "index"} =>
         index[tx.id] = "absent" /\ Logged(tx.id, {"BEGIN"})
    /\ pc = "log_commit" => Logged(tx.id, {"BEGIN"}) /\ ~Logged(tx.id, {"COMMITTED"})
LogsOK == LogInv /\ CrashLog

\* The transactions that were cut short for good: nothing works on them, and no
\* call can take them up again.
Lost == {i \in Orphans : /\ pc = "down" \/ index[i] # "absent"
                         /\ pc = "log_commit" => i # tx.id}

\* What the logs say of the past is not taken back.
Persist == /\ \A i \in Lost : i \in Lost' /\ begun'[i] = begun[i]
           /\ \A c \in Chapters, d \in Drafts : CommittedAs(c, d) => CommittedAs(c, d)'

LEMMA InitLogs == Init => LogsOK
BY DEF Init, LogsOK, LogInv, CrashLog, Logged

\* Steps that leave the journal, the index and the BEGIN records alone.
LEMMA QuietCrashLog ==
  ASSUME CrashLog, UNCHANGED <<journal, begun, index>>, pc # "down" \/ pc' = "down",
         \/ pc' \notin {"backup", "stage", "publish", "index", "log_commit"}
         \/ pc' = pc /\ tx' = tx
         \/ pc \in {"backup", "stage", "publish"} /\ pc' \in {"stage", "publish", "index"}
            /\ tx' = tx
  PROVE  CrashLog' /\ Persist
<1>1. CrashLog'
  BY DEF CrashLog, Logged
<1>2. \A i \in TxIds, P \in {{"BEGIN"}, {"COMMITTED", "ABORTED"}, {"COMMITTED"}} :
        Logged(i, P)' <=> Logged(i, P)
  BY DEF Logged
<1>3. Orphans' = Orphans
  BY <1>2 DEF Orphans, Logged
<1>4. pc' = "log_commit" => pc = "log_commit" /\ tx' = tx
  OBVIOUS
<1>5. \A i \in Lost : i \in Lost' /\ begun'[i] = begun[i]
  BY <1>3, <1>4 DEF Lost
<1> QED
  BY <1>1, <1>5 DEF Persist, CommittedAs, Logged

LEMMA NextCrashLog ==
  ASSUME NoUndo, WorkInv, LogsOK, [Next]_vars
  PROVE  LogsOK' /\ Persist
<1> USE DEF LogsOK
<1>1. LogInv' /\ Committed \subseteq Committed'
  BY NextLog DEF WorkInv
<1>2. \A c \in Chapters, d \in Drafts : CommittedAs(c, d) => CommittedAs(c, d)'
  <2> SUFFICES ASSUME NEW c \in Chapters, NEW d \in Drafts, CommittedAs(c, d)
               PROVE  CommittedAs(c, d)'
    OBVIOUS
  <2>1. <<c, d>> \in Committed
    BY DEF Committed
  <2> QED
    BY <1>1, <2>1 DEF Committed
<1>3. /\ pc \in CommitSteps => tx.id \in TxIds
      /\ journal \in [TxIds \cup {NoTx} -> SUBSET Phases]
      /\ begun \in [TxIds -> [chapter : Chapters, draft : Drafts] \cup {NoTx}]
      /\ index \in [TxIds -> {"absent", "COMMITTED", "RECOVERED"}]
  BY DEF WorkInv, TypeInv, TypeOK, TxOK, CommitTx
<1>4. CASE Call
  <2>1. PICK q \in Calls : pc = "idle" /\ (Replay(q) \/ Already(q) \/ Begin(q) \/ Reject(q))
    BY <1>4 DEF Call
  <2>2. UNCHANGED <<journal, begun, index>> /\ pc' \in {"idle", "log_begin"}
    BY <2>1 DEF Replay, Already, Begin, Reject, Answers, logs
  <2> QED
    BY <1>1, <2>1, <2>2, QuietCrashLog
<1>5. CASE LogBegin
  <2>1. /\ pc = "log_begin" /\ pc' = "backup" /\ tx' = tx /\ index' = index
        /\ journal' = [journal EXCEPT ![tx.id] = @ \cup {"BEGIN"}]
        /\ begun' = [begun EXCEPT ![tx.id] = [chapter |-> tx.chapter, draft |-> tx.draft]]
        /\ tx.id \in TxIds
    BY <1>3, <1>5 DEF LogBegin, Log, CommitSteps
  <2>2. index[tx.id] = "absent" /\ tx.id \notin Lost
    BY <2>1 DEF LogInv, Lost
  <2>3. \A i \in TxIds : i # tx.id => journal'[i] = journal[i] /\ begun'[i] = begun[i]
    BY <1>3, <2>1
  <2>4. /\ journal'[tx.id] = journal[tx.id] \cup {"BEGIN"}
        /\ begun'[tx.id] = [chapter |-> tx.chapter, draft |-> tx.draft]
    BY <1>3, <2>1
  <2>5. begun'[tx.id] # NoTx
    <3>1. tx.chapter \in Chapters /\ tx.draft \in Drafts
      BY <2>1 DEF WorkInv, TypeInv, TxOK, CommitSteps, CommitTx
    <3> QED
      BY <2>4, <3>1
  <2>6. CrashLog'
    BY <2>1, <2>2, <2>3, <2>4, <2>5 DEF CrashLog, Logged
  <2>7. \A i \in Lost : i \in Lost' /\ begun'[i] = begun[i]
    BY <2>1, <2>2, <2>3 DEF Lost, Orphans, Logged
  <2> QED
    BY <1>1, <1>2, <2>6, <2>7 DEF Persist
<1>6. CASE \/ Prepare \/ FailUnprotected \/ (\E f \in Files : Publish(f))
           \/ AppendEvent \/ WriteReport \/ WriteManifest \/ Cleanup
           \/ (\E t \in Targets : BeginRollback(t))
           \/ (\E f \in Files : RollbackFile(f))
           \/ (\E b \in Branches, c \in Targets : BeginFork(b, c))
           \/ (\E f \in Files : ForkFile(f))
           \/ Crash \/ Exit
  <2>1. /\ UNCHANGED <<journal, begun, index>> /\ (pc # "down" \/ pc' = "down")
        /\ \/ pc' \notin {"backup", "stage", "publish", "index", "log_commit"}
           \/ pc' = pc /\ tx' = tx
           \/ pc \in {"backup", "stage", "publish"} /\ pc' \in {"stage", "publish", "index"}
              /\ tx' = tx
    <3>1. CASE Prepare \/ (\E f \in Files : Publish(f))
      BY <3>1 DEF Prepare, Publish, logs
    <3>2. CASE \/ FailUnprotected \/ AppendEvent \/ WriteReport \/ WriteManifest \/ Cleanup
               \/ Crash \/ Exit
      BY <3>2 DEF FailUnprotected, Finish, AppendEvent, WriteReport, WriteManifest, Govern,
                  Cleanup, Crash, Exit, Stop, logs
    <3>3. CASE \/ (\E t \in Targets : BeginRollback(t))
               \/ (\E f \in Files : RollbackFile(f))
               \/ (\E b \in Branches, c \in Targets : BeginFork(b, c))
               \/ (\E f \in Files : ForkFile(f))
      BY <3>3 DEF BeginRollback, RollbackFile, BeginFork, ForkFile, Finish, logs
    <3> QED
      BY <1>6, <3>1, <3>2, <3>3
  <2> QED
    BY <1>1, <2>1, QuietCrashLog
<1>7. CASE SaveIndex
  <2>1. /\ pc = "index" /\ pc' = "log_commit" /\ tx' = tx
        /\ UNCHANGED <<journal, begun>> /\ tx.id \in TxIds
        /\ index' = [index EXCEPT ![tx.id] = "COMMITTED"]
    BY <1>3, <1>7 DEF SaveIndex, CommitSteps
  <2>2. index[tx.id] = "absent" /\ Logged(tx.id, {"BEGIN"}) /\ ~Logged(tx.id, {"COMMITTED"})
    BY <2>1 DEF CrashLog, LogInv
  <2>3. \A i \in TxIds : i # tx.id => index'[i] = index[i]
    BY <1>3, <2>1
  <2>4. CrashLog'
    BY <2>1, <2>2, <2>3 DEF CrashLog, Logged
  <2>5. tx.id \notin Lost
    BY <2>1, <2>2 DEF Lost
  <2>6. \A i \in Lost : i \in Lost' /\ begun'[i] = begun[i]
    BY <2>1, <2>3, <2>5 DEF Lost, Orphans, Logged
  <2> QED
    BY <1>1, <1>2, <2>4, <2>6 DEF Persist
<1>8. CASE LogCommit \/ LogRollback
  <2>1. PICK j \in TxIds \cup {NoTx}, p \in {"COMMITTED", "ROLLBACK"} :
          /\ journal' = [journal EXCEPT ![j] = @ \cup {p}]
          /\ UNCHANGED <<index, begun>> /\ pc' \in {"event", "idle"} /\ pc # "down"
          /\ j \in TxIds => pc = "log_commit" /\ j = tx.id
    BY <1>3, <1>8 DEF LogCommit, LogRollback, Log, Finish, CommitSteps
  <2>2. \A i \in TxIds : i # j => journal'[i] = journal[i]
    BY <1>3, <2>1
  <2>3. \A i \in TxIds, q \in {"BEGIN", "ABORTED"} : Logged(i, {q})' <=> Logged(i, {q})
    BY <1>3, <2>1 DEF Logged
  <2>4. CrashLog'
    BY <2>1, <2>3 DEF CrashLog
  <2>5. j \notin Lost
    BY <2>1 DEF Lost, Orphans
  <2>6. \A i \in Lost : i \in Lost' /\ begun'[i] = begun[i]
    BY <2>1, <2>2, <2>5 DEF Lost, Orphans, Logged
  <2> QED
    BY <1>1, <1>2, <2>4, <2>6 DEF Persist
<1>9. CASE Start
  <2>1. /\ pc = "down" /\ pc' = "idle" /\ begun' = begun
        /\ Recover \/ ((\A i \in DOMAIN journal : journal[i] = {}) /\ UNCHANGED <<journal, index>>)
    BY <1>9 DEF Start
  <2>2. \A i \in TxIds : journal'[i] \in {journal[i], journal[i] \cup {"RECOVERED"}}
    BY <1>3, <2>1 DEF Recover
  <2>3. \A i \in TxIds, q \in {"BEGIN", "ABORTED", "COMMITTED"} :
          Logged(i, {q})' <=> Logged(i, {q})
    BY <2>2 DEF Logged
  <2>4. \A i \in TxIds : \/ index'[i] = index[i]
                         \/ i \in Orphans /\ index'[i] = "RECOVERED"
    BY <2>1 DEF Recover
  <2>5. CrashLog'
    <3>1. \A i \in Orphans : Logged(i, {"BEGIN"})
      BY DEF Orphans
    <3> QED
      BY <2>1, <2>3, <2>4, <3>1 DEF CrashLog
  <2>6. ASSUME NEW i \in Lost PROVE i \in Lost' /\ begun'[i] = begun[i]
    <3>1. i \in Orphans /\ i \in TxIds
      BY DEF Lost, Orphans
    <3>2. Recover
      BY <1>3, <2>1, <3>1 DEF Orphans, Logged
    <3>3. index'[i] # "absent"
      BY <3>1, <3>2 DEF Recover
    <3>4. i \in Orphans'
      BY <2>3, <3>1 DEF Orphans, Logged
    <3> QED
      BY <2>1, <3>3, <3>4 DEF Lost
  <2> QED
    BY <1>1, <1>2, <2>5, <2>6 DEF Persist
<1>10. CASE Fail \/ (\E f \in Files : Undo(f)) \/ LogAbort
  <2>1. ~Fail
    BY DEF Fail, NoUndo, Due, PublishRank, Files
  <2> QED
    BY <1>10, <2>1 DEF Undo, LogAbort, WorkInv
<1>11. CASE UNCHANGED vars
  BY <1>1, <1>11, QuietCrashLog DEF vars
<1> QED
  BY <1>4, <1>5, <1>6, <1>7, <1>8, <1>9, <1>10, <1>11 DEF Next, Work

\* A transaction that dies on its way from BEGIN to COMMITTED is lost.
LEMMA CrashLoses ==
  ASSUME WorkInv, LogsOK, Crash,
         pc \in {"backup", "stage", "publish", "index", "log_commit"}
  PROVE  tx.id \in Lost' /\ begun'[tx.id] = [chapter |-> tx.chapter, draft |-> tx.draft]
<1>1. tx.id \in TxIds
  BY DEF WorkInv, TypeInv, TxOK, CommitSteps, CommitTx
<1>2. pc' = "down" /\ UNCHANGED <<journal, begun, index>>
  BY DEF Crash, Stop, logs
<1>3. Logged(tx.id, {"BEGIN"}) /\ ~Logged(tx.id, {"COMMITTED", "ABORTED"})
  BY <1>1 DEF LogsOK, LogInv, CrashLog, Logged
<1>4. tx.id \in Lost'
  BY <1>1, <1>2, <1>3 DEF Lost, Orphans, Logged
<1> QED
  BY <1>2, <1>4 DEF LogsOK, LogInv

-----------------------------------------------------------------------------
(* What is on disk.  Nothing is said of the chapter being published, nor of   *)
(* one whose publication was cut short.                                       *)

LostAt(c) == \E i \in Lost : begun[i].chapter = c
LostAbove(c) == \E i \in Lost : begun[i].chapter > c
Publishing(c) == pc \in {"publish", "index", "log_commit"} /\ c = tx.chapter
Excused(c) == Publishing(c) \/ LostAt(c)

\* The files that the chapters share are torn by commits only.
Shared == {"state", "meta", "heads", "memories", "hybrid"}
Legible == (\E f \in Shared : disk[f] = Torn) => Lost # {}

\* A chapter is a committed one and has its snapshot, or is left over above the
\* head from a rollback that was cut short.
Sound == \A c \in Chapters : disk.chapters[c] # NoDraft /\ ~Excused(c) =>
    /\ disk.chapters[c] \in Drafts /\ CommittedAs(c, disk.chapters[c])
    /\ \/ disk.meta = Torn \/ disk.meta.head < c
       \/ disk.snaps[c] \in Snapshot /\ disk.snaps[c].draft = disk.chapters[c]

\* Every chapter up to the head is remembered.
Recalled ==
    \/ Lost # {}
    \/ \A c \in Chapters : c <= disk.meta.head /\ ~Publishing(c) => Remembered(c)

\* What a client was told is on disk, below the head.
Promised == \A c \in Chapters : acked[c] # NoDraft =>
    /\ disk.chapters[c] = acked[c]
    /\ disk.snaps[c] \in Snapshot /\ disk.snaps[c].draft = acked[c]
    /\ disk.meta # Torn => c <= disk.meta.head

\* The state has the delta of every chapter a client was told of, and so has the
\* snapshot of each later chapter that a rollback may restore.
Tells(s, d) == \E k \in DOMAIN s : s[k] = d
HasDelta(s, c) == Tells(s, acked[c]) \/ LostAbove(c)
StateTells == disk.state # Torn =>
    \A c \in Chapters : acked[c] # NoDraft => HasDelta(disk.state, c)
SnapsTell == disk.meta # Torn => \A a \in Chapters :
    a <= disk.meta.head /\ ~Publishing(a) /\ disk.snaps[a] \in Snapshot =>
      \A c \in Chapters : acked[c] # NoDraft /\ c <= a => HasDelta(disk.snaps[a].state, c)

FilesInv == Legible /\ Sound /\ Recalled /\ Promised /\ StateTells /\ SnapsTell

\* write-next goes on from the head: a commit takes a chapter nobody was told of,
\* and a rollback one that is there.
Unclaimed ==
    /\ pc \in {"log_begin", "backup", "stage", "publish", "index", "log_commit"} =>
         /\ acked[tx.chapter] = NoDraft
         /\ tx.before.state # Torn /\ tx.before.meta # Torn
         /\ tx.chapter = tx.before.meta.head + 1
    /\ pc = "rollback" =>
         /\ \A c \in Chapters : c > tx.chapter => acked[c] = NoDraft
         /\ tx.chapter \in Chapters
         /\ tx.before.meta # Torn /\ tx.chapter <= tx.before.meta.head
Spans == disk.meta # Torn => 1..disk.meta.head \subseteq Chapters

\* The inductive invariant.
CrashInv == WorkInv /\ LogsOK /\ Unclaimed /\ Spans /\ FilesInv

LEMMA PersistLost ==
  ASSUME Persist
  PROVE  /\ Lost # {} => Lost' # {}
         /\ \A c : LostAt(c) => LostAt(c)'
         /\ \A c : LostAbove(c) => LostAbove(c)'
BY DEF Persist, LostAt, LostAbove

LEMMA HeadIsNat ==
  ASSUME NEW x \in Disk, x.meta # Torn
  PROVE  x.meta \in MetaFile /\ x.meta.head \in Nat
BY DEF Disk, MetaFile, Targets

\* A step that leaves the files and the head alone, outside a publication; a
\* client may have taken its word back.
LEMMA QuietFiles ==
  ASSUME FilesInv, Persist,
         \A f \in Files \ {"meta", "heads"} : disk'[f] = disk[f],
         disk'.heads = Torn => disk.heads = Torn,
         disk'.meta = Torn <=> disk.meta = Torn,
         disk.meta # Torn => disk'.meta.head = disk.meta.head,
         pc \notin {"publish", "index", "log_commit"},
         pc' \notin {"publish", "index", "log_commit"},
         \A c \in Chapters : acked'[c] \in {acked[c], NoDraft}
  PROVE  FilesInv'
<1> USE DEF FilesInv
<1>1. /\ Lost # {} => Lost' # {}
      /\ \A c : LostAt(c) => LostAt(c)'
      /\ \A c : LostAbove(c) => LostAbove(c)'
  BY PersistLost
<1>2. \A c : ~Publishing(c) /\ ~Publishing(c)'
  BY DEF Publishing
<1>3. /\ disk'.chapters = disk.chapters /\ disk'.snaps = disk.snaps
      /\ disk'.state = disk.state
      /\ disk'.memories = disk.memories /\ disk'.hybrid = disk.hybrid
  BY DEF Files
<1>4. Legible'
  BY <1>1, <1>3 DEF Legible, Shared
<1>5. Recalled'
  <2>1. Lost' = {} => Lost = {} /\ disk.meta # Torn
    BY <1>1 DEF Legible, Shared
  <2> QED
    BY <1>2, <1>3, <2>1 DEF Recalled, Remembered
<1>6. Sound'
  BY <1>1, <1>2, <1>3 DEF Sound, Excused, Persist
<1>7. Promised'
  BY <1>3 DEF Promised
<1>8. StateTells' /\ SnapsTell'
  BY <1>1, <1>2, <1>3 DEF StateTells, SnapsTell, HasDelta, Tells
<1> QED
  BY <1>4, <1>5, <1>6, <1>7, <1>8

\* A step of the publication of chapter c, or the crash that ends it.
LEMMA PublishingFiles ==
  ASSUME FilesInv, Persist, disk \in Disk, disk' \in Disk, acked' = acked,
         acked \in [Chapters -> Drafts \cup {NoDraft}],
         NEW c \in Chapters, acked[c] = NoDraft,
         \A a \in Chapters : Publishing(a) => a = c,
         \/ \A a \in Chapters : Publishing(a)' <=> a = c
         \/ LostAt(c)',
         \A a \in Chapters \ {c} :
           /\ disk'.chapters[a] = disk.chapters[a]
           /\ disk'.snaps[a] = disk.snaps[a]
           /\ disk.memories # Torn => disk'.memories = Torn \/ disk'.memories[a] = disk.memories[a]
           /\ disk.hybrid # Torn => disk'.hybrid = Torn \/ disk'.hybrid[a] = disk.hybrid[a],
         \A f \in Shared : disk'[f] = Torn => disk[f] = Torn \/ Lost' # {},
         disk'.state # Torn => /\ disk.state # Torn
                               /\ \A e \in Drafts : Tells(disk.state, e) => Tells(disk'.state, e),
         disk'.meta # Torn => /\ disk.meta # Torn
                              /\ \/ disk'.meta.head = disk.meta.head
                                 \/ disk'.meta.head = c /\ disk.meta.head + 1 = c
  PROVE  FilesInv'
<1> USE DEF FilesInv
<1>1. /\ Lost # {} => Lost' # {}
      /\ \A a : LostAt(a) => LostAt(a)'
      /\ \A a : LostAbove(a) => LostAbove(a)'
  BY PersistLost
<1>2. Excused(c)' /\ (LostAt(c)' => Lost' # {})
  BY DEF Excused, LostAt
<1>3. Legible'
  BY <1>1 DEF Legible
<1>4. disk'.meta # Torn => \A a \in Chapters \ {c} :
        a <= disk'.meta.head <=> a <= disk.meta.head
  <2> SUFFICES ASSUME disk'.meta # Torn, NEW a \in Chapters \ {c}
               PROVE  a <= disk'.meta.head <=> a <= disk.meta.head
    OBVIOUS
  <2>1. disk.meta.head \in Nat /\ disk'.meta.head \in Nat
    BY HeadIsNat
  <2>2. a \in Nat /\ c \in Nat
    OBVIOUS
  <2> QED
    BY <2>1, <2>2
<1>5. disk'.meta # Torn => \A a \in Chapters : a <= disk'.meta.head <=> ~(disk'.meta.head < a)
  BY HeadIsNat
<1>6. disk.meta # Torn => \A a \in Chapters : a <= disk.meta.head <=> ~(disk.meta.head < a)
  BY HeadIsNat
<1>7. Sound'
  <2> SUFFICES ASSUME NEW a \in Chapters, disk'.chapters[a] # NoDraft, ~Excused(a)'
               PROVE  /\ disk'.chapters[a] \in Drafts /\ CommittedAs(a, disk.chapters[a])'
                      /\ disk'.chapters[a] = disk.chapters[a]
                      /\ \/ disk'.meta = Torn \/ disk'.meta.head < a
                         \/ disk'.snaps[a] \in Snapshot
                            /\ disk'.snaps[a].draft = disk'.chapters[a]
    BY DEF Sound, CommittedAs, Logged
  <2>1. a # c /\ ~Excused(a)
    BY <1>1, <1>2 DEF Excused
  <2>2. disk'.chapters[a] = disk.chapters[a] /\ disk'.snaps[a] = disk.snaps[a]
    BY <2>1
  <2>3. /\ disk.chapters[a] \in Drafts /\ CommittedAs(a, disk.chapters[a])
        /\ \/ disk.meta = Torn \/ disk.meta.head < a
           \/ disk.snaps[a] \in Snapshot /\ disk.snaps[a].draft = disk.chapters[a]
    BY <2>1, <2>2 DEF Sound
  <2>4. CommittedAs(a, disk.chapters[a])'
    BY <2>2, <2>3 DEF Persist
  <2> QED
    BY <1>4, <1>5, <1>6, <2>1, <2>2, <2>3, <2>4
<1>8. Recalled'
  <2> SUFFICES ASSUME Lost' = {}, NEW a \in Chapters, a <= disk'.meta.head, ~Publishing(a)'
               PROVE  Remembered(a)'
    BY DEF Recalled
  <2>1. a # c /\ Lost = {} /\ ~Publishing(a)
    BY <1>1, <1>2
  <2>2. \A f \in Shared : disk[f] # Torn /\ disk'[f] # Torn
    BY <1>3, <2>1 DEF Legible
  <2>3. Remembered(a)
    BY <1>4, <2>1, <2>2 DEF Recalled, Shared
  <2> QED
    BY <2>1, <2>2, <2>3 DEF Remembered, Shared
<1>9. Promised'
  BY <1>4 DEF Promised
<1>10. StateTells'
  BY <1>1 DEF StateTells, HasDelta
<1>11. SnapsTell'
  <2> SUFFICES ASSUME disk'.meta # Torn, NEW a \in Chapters, a <= disk'.meta.head,
                      ~Publishing(a)', disk'.snaps[a] \in Snapshot,
                      NEW e \in Chapters, acked[e] # NoDraft, e <= a
               PROVE  Tells(disk'.snaps[a].state, acked[e]) \/ LostAbove(e)'
    BY DEF SnapsTell, HasDelta
  <2>1. CASE a # c
    <3>1. /\ disk.meta # Torn /\ a <= disk.meta.head /\ ~Publishing(a)
          /\ disk'.snaps[a] = disk.snaps[a]
      BY <1>4, <2>1
    <3> QED
      BY <1>1, <3>1 DEF SnapsTell, HasDelta
  <2>2. CASE a = c
    <3>1. LostAt(c)' /\ e # c /\ e \in Nat /\ c \in Nat
      BY <2>2
    <3>2. c > e
      BY <2>2, <3>1
    <3> QED
      BY <3>1, <3>2 DEF LostAt, LostAbove
  <2> QED
    BY <2>1, <2>2
<1> QED
  BY <1>3, <1>7, <1>8, <1>9, <1>10, <1>11

\* A step of a rollback to chapter t once the head is back, or the crash that
\* ends it.
LEMMA RollingFiles ==
  ASSUME FilesInv, Persist, disk \in Disk, disk' \in Disk, acked' = acked,
         pc \notin {"publish", "index", "log_commit"},
         pc' \notin {"publish", "index", "log_commit"},
         NEW t \in Chapters, \A a \in Chapters : a > t => acked[a] = NoDraft,
         disk.meta # Torn, t <= disk.meta.head,
         disk'.meta # Torn, disk'.meta.head = t,
         \A a \in Chapters :
           /\ disk'.chapters[a] \in {disk.chapters[a], NoDraft}
           /\ a <= t => /\ disk'.chapters[a] = disk.chapters[a]
                        /\ disk'.snaps[a] = disk.snaps[a]
                        /\ disk.memories # Torn => disk'.memories[a] = disk.memories[a]
                        /\ disk.hybrid # Torn => disk'.hybrid[a] = disk.hybrid[a],
         \A f \in Shared : disk'[f] = Torn => disk[f] = Torn,
         \/ disk'.state = disk.state
         \/ disk.snaps[t] \in Snapshot /\ disk'.state = disk.snaps[t].state
  PROVE  FilesInv'
<1> USE DEF FilesInv
<1>1. /\ Lost # {} => Lost' # {}
      /\ \A a : LostAt(a) => LostAt(a)'
      /\ \A a : LostAbove(a) => LostAbove(a)'
  BY PersistLost
<1>2. \A a : ~Publishing(a) /\ ~Publishing(a)'
  BY DEF Publishing
<1>3. Legible'
  BY <1>1 DEF Legible
<1>4. \A a \in Chapters : /\ a <= t \/ a > t
                          /\ a > t => t < a
                          /\ a <= t => a <= disk.meta.head /\ ~(disk.meta.head < a)
                          /\ a <= t => \A e \in Chapters : e <= a => e <= t
  <2>1. disk.meta.head \in Nat
    BY HeadIsNat
  <2>2. Chapters \subseteq Nat
    OBVIOUS
  <2> QED
    BY <2>1, <2>2
<1>5. Sound'
  <2> SUFFICES ASSUME NEW a \in Chapters, disk'.chapters[a] # NoDraft, ~Excused(a)'
               PROVE  /\ disk'.chapters[a] \in Drafts /\ CommittedAs(a, disk.chapters[a])'
                      /\ disk'.chapters[a] = disk.chapters[a]
                      /\ \/ disk'.meta.head < a
                         \/ disk'.snaps[a] \in Snapshot
                            /\ disk'.snaps[a].draft = disk'.chapters[a]
    BY DEF Sound, CommittedAs, Logged
  <2>1. disk'.chapters[a] = disk.chapters[a] /\ ~Excused(a)
    BY <1>1, <1>2 DEF Excused
  <2>2. /\ disk.chapters[a] \in Drafts /\ CommittedAs(a, disk.chapters[a])
        /\ \/ disk.meta.head < a
           \/ disk.snaps[a] \in Snapshot /\ disk.snaps[a].draft = disk.chapters[a]
    BY <2>1 DEF Sound
  <2>3. CommittedAs(a, disk.chapters[a])'
    BY <2>1, <2>2 DEF Persist
  <2> QED
    BY <1>4, <2>1, <2>2, <2>3
<1>6. Recalled'
  <2> SUFFICES ASSUME Lost' = {}, NEW a \in Chapters, a <= t
               PROVE  Remembered(a)'
    BY DEF Recalled
  <2>1. Lost = {} /\ ~Publishing(a) /\ a <= disk.meta.head
    BY <1>1, <1>2, <1>4
  <2>2. \A f \in Shared : disk[f] # Torn /\ disk'[f] # Torn
    BY <1>3, <2>1 DEF Legible
  <2>3. Remembered(a)
    BY <2>1 DEF Recalled
  <2> QED
    BY <2>1, <2>2, <2>3 DEF Remembered, Shared
<1>7. Promised'
  BY <1>4 DEF Promised
<1>8. StateTells'
  <2>1. CASE disk'.state = disk.state
    BY <1>1, <2>1 DEF StateTells, HasDelta
  <2>2. CASE disk.snaps[t] \in Snapshot /\ disk'.state = disk.snaps[t].state
    <3>1. \A e \in Chapters : acked[e] # NoDraft => e <= t
      BY <1>4
    <3>2. \A e \in Chapters : acked[e] # NoDraft => HasDelta(disk.snaps[t].state, e)
      BY <1>2, <2>2, <3>1 DEF SnapsTell
    <3> QED
      BY <1>1, <2>2, <3>2 DEF StateTells, HasDelta
  <2> QED
    BY <2>1, <2>2
<1>9. SnapsTell'
  BY <1>1, <1>2, <1>4 DEF SnapsTell, HasDelta
<1> QED
  BY <1>3, <1>5, <1>6, <1>7, <1>8, <1>9

\* What a commit of the chapter after the head plans to write (y) where it read x.
CommitFrame(x, y, c, d) ==
    /\ \A f \in Shared : y[f] # Torn
    /\ y.meta.head = c
    /\ \A a \in Chapters \ {c} :
         /\ y.chapters[a] = x.chapters[a] /\ y.snaps[a] = x.snaps[a]
         /\ x.memories # Torn => y.memories[a] = x.memories[a]
         /\ x.hybrid # Torn => y.hybrid[a] = x.hybrid[a]
    /\ \A e \in Drafts : Tells(x.state, e) => Tells(y.state, e)
    /\ Tells(y.state, d)
    /\ y.chapters[c] = d
    /\ y.snaps[c] = [state |-> y.state, draft |-> d] /\ y.snaps[c] \in Snapshot
    /\ EndsWith(y.memories[c], d) /\ EndsWith(y.hybrid[c], d)

LEMMA CommitDiskFrame ==
  ASSUME NEW x \in Disk, x.state # Torn, x.meta # Torn, NEW c \in Chapters, NEW d \in Drafts,
         NEW b \in Branches, c = x.meta.head + 1,
         NEW y, y = CommitDisk(x, c, d, b)
  PROVE  CommitFrame(x, y, c, d)
<1>1. /\ x.meta \in MetaFile /\ x.meta.head \in Nat /\ x.state \in Seq(Drafts)
      /\ x.chapters \in [Chapters -> Drafts \cup {NoDraft, Torn}]
      /\ x.snaps \in [Chapters -> Snapshot \cup {NoSnap, Torn}]
  BY HeadIsNat DEF Disk
<1>2. /\ Read(x).memories \in Recorded /\ Read(x).hybrid \in Recorded
      /\ x.memories # Torn => Read(x).memories = x.memories
      /\ x.hybrid # Torn => Read(x).hybrid = x.hybrid
  <2>1. Read(x).memories \in Recorded /\ Read(x).hybrid \in Recorded
    BY ReadType
  <2> QED
    BY <2>1 DEF Read, Disk
<1>3. /\ y.state = Append(x.state, d) /\ y.chapters = [x.chapters EXCEPT ![c] = d]
      /\ y.snaps = [x.snaps EXCEPT ![c] = [state |-> Append(x.state, d), draft |-> d]]
      /\ y.memories = Record(Read(x).memories, c, d)
      /\ y.hybrid = Record(Read(x).hybrid, c, d)
      /\ y.meta = [x.meta EXCEPT !.head = Later(@, c), !.counted[d] = @ + 1, !.latest = d]
  BY DEF CommitDisk
<1>4. y.state \in Seq(Drafts) /\ \A f \in Shared : y[f] # Torn
  <2>1. y.state \in Seq(Drafts)
    <3>1. y.state = Append(x.state, d)
      BY <1>3
    <3>2. x.state \in Seq(Drafts)
      BY <1>1
    <3> QED
      BY <3>1, <3>2
  <2>2. y.memories \in Recorded /\ y.hybrid \in Recorded
    BY <1>2, <1>3, RecordType
  <2>3. y.heads \in [Branches -> Targets \cup {NoBranch}]
    BY ReadType DEF CommitDisk, Targets
  <2>4. y.meta \in MetaFile
    <3>1. Later(x.meta.head, c) \in Targets
      BY <1>1 DEF MetaFile, Targets, Later
    <3>2. [x.meta.counted EXCEPT ![d] = @ + 1] \in [Drafts -> Nat]
      BY <1>1 DEF MetaFile
    <3> QED
      BY <1>1, <1>3, <3>1, <3>2 DEF MetaFile
  <2> QED
    BY <2>1, <2>2, <2>3, <2>4 DEF Shared
<1>5. y.meta.head = c
  <2>1. y.meta.head = Later(x.meta.head, c)
    BY <1>1, <1>3 DEF MetaFile
  <2> QED
    BY <1>1, <2>1 DEF Later
<1>6. \A a \in Chapters \ {c} :
        /\ y.chapters[a] = x.chapters[a] /\ y.snaps[a] = x.snaps[a]
        /\ x.memories # Torn => y.memories[a] = x.memories[a]
        /\ x.hybrid # Torn => y.hybrid[a] = x.hybrid[a]
  <2> SUFFICES ASSUME NEW a \in Chapters \ {c}
      PROVE  /\ y.chapters[a] = x.chapters[a] /\ y.snaps[a] = x.snaps[a]
             /\ x.memories # Torn => y.memories[a] = x.memories[a]
             /\ x.hybrid # Torn => y.hybrid[a] = x.hybrid[a]
    OBVIOUS
  <2>1. y.chapters[a] = x.chapters[a] /\ y.snaps[a] = x.snaps[a]
    BY <1>1, <1>3
  <2>2. \A log \in Recorded : Record(log, c, d)[a] = log[a]
    BY DEF Record, Recorded
  <2>3. x.memories # Torn => y.memories[a] = x.memories[a]
    BY <1>2, <1>3, <2>2
  <2>4. x.hybrid # Torn => y.hybrid[a] = x.hybrid[a]
    BY <1>2, <1>3, <2>2
  <2> QED
    BY <2>1, <2>3, <2>4
<1>7. /\ \A e \in Drafts : Tells(x.state, e) => Tells(y.state, e)
      /\ Tells(y.state, d)
  <2>1. /\ \A k \in DOMAIN x.state : k \in DOMAIN Append(x.state, d)
                                     /\ Append(x.state, d)[k] = x.state[k]
        /\ Len(x.state) + 1 \in DOMAIN Append(x.state, d)
        /\ Append(x.state, d)[Len(x.state) + 1] = d
    BY <1>1
  <2> QED
    BY <1>3, <2>1 DEF Tells
<1>8. /\ y.chapters[c] = d
      /\ y.snaps[c] = [state |-> y.state, draft |-> d]
  BY <1>1, <1>3
<1>9. y.snaps[c] \in Snapshot
  BY <1>4, <1>8 DEF Snapshot
<1>10. EndsWith(y.memories[c], d) /\ EndsWith(y.hybrid[c], d)
  <2>1. \A s \in Seq(Drafts) : EndsWith(Append(s, d), d)
    <3> SUFFICES ASSUME NEW s \in Seq(Drafts) PROVE EndsWith(Append(s, d), d)
      OBVIOUS
    <3>1. Append(s, d) # << >> /\ Len(Append(s, d)) = Len(s) + 1
          /\ Append(s, d)[Len(s) + 1] = d
      OBVIOUS
    <3> QED
      BY <3>1 DEF EndsWith
  <2>2. /\ y.memories[c] = Append(Read(x).memories[c], d)
        /\ y.hybrid[c] = Append(Read(x).hybrid[c], d)
    BY <1>2, <1>3 DEF Record, Recorded
  <2>3. Read(x).memories[c] \in Seq(Drafts) /\ Read(x).hybrid[c] \in Seq(Drafts)
    BY <1>2 DEF Recorded
  <2> QED
    BY <2>1, <2>2, <2>3
<1> QED
  BY <1>4, <1>5, <1>6, <1>7, <1>8, <1>9, <1>10 DEF CommitFrame

\* What a rollback to chapter t plans to write.
RollbackFrame(x, y, t) ==
    /\ y.meta # Torn /\ y.meta.head = t
    /\ \A f \in Shared : y[f] = Torn => x[f] = Torn
    /\ \A a \in Chapters :
         /\ y.chapters[a] \in {x.chapters[a], NoDraft}
         /\ a <= t => /\ y.chapters[a] = x.chapters[a] /\ y.snaps[a] = x.snaps[a]
                      /\ x.memories # Torn => y.memories[a] = x.memories[a]
                      /\ x.hybrid # Torn => y.hybrid[a] = x.hybrid[a]
    /\ \/ y.state = x.state
       \/ x.snaps[t] \in Snapshot /\ y.state = x.snaps[t].state

LEMMA RollbackDiskFrame ==
  ASSUME NEW x \in Disk, x.meta # Torn, NEW t \in Chapters,
         NEW y, y = RollbackDisk(x, t)
  PROVE  RollbackFrame(x, y, t)
<1>1. /\ x.meta \in MetaFile /\ t \in Nat /\ t \in Targets
      /\ x.snaps \in [Chapters -> Snapshot \cup {NoSnap, Torn}]
      /\ x.state \in Seq(Drafts) \cup {Torn}
  BY DEF Disk, Targets
<1>2. y.meta.head = t /\ y.meta # Torn
  <2>1. y.meta = [x.meta EXCEPT !.head = t, !.counted = Recounted(x, t),
                                !.latest = LatestAt(x, t)]
    BY DEF RollbackDisk
  <2>2. y.meta \in MetaFile
    <3>1. Recounted(x, t) \in [Drafts -> Nat]
      <4>1. \A e \in Drafts :
              Cardinality({a \in {g \in Chapters : g <= t} : x.chapters[a] = e}) \in Nat
        BY FS_Subset, FS_CardinalityType
      <4> QED
        BY <4>1 DEF Recounted
    <3>2. LatestAt(x, t) \in Drafts \cup {NoDraft}
      BY <1>1 DEF LatestAt, SnapAt, MetaFile, Snapshot
    <3> QED
      BY <1>1, <2>1, <3>1, <3>2 DEF MetaFile
  <2> QED
    BY <1>1, <2>1, <2>2 DEF MetaFile
<1>3. \A f \in Shared : y[f] = Torn => x[f] = Torn
  <2>1. y.state = Torn => x.state = Torn
    <3>1. SnapAt(x, t) # NoSnap => SnapAt(x, t) \in Snapshot
      BY <1>1 DEF SnapAt
    <3>2. \A s \in Snapshot : s.state # Torn
      BY DEF Snapshot
    <3>3. y.state = IF SnapAt(x, t) = NoSnap THEN x.state ELSE SnapAt(x, t).state
      BY DEF RollbackDisk
    <3> QED
      BY <3>1, <3>2, <3>3
  <2>2. y.memories = Torn => x.memories = Torn
    BY <1>1, UpToType DEF RollbackDisk, Disk
  <2>3. y.heads = Torn => x.heads = Torn
    <3>1. x.heads # Torn => y.heads \in [Branches -> Targets \cup {NoBranch}]
      BY <1>1 DEF RollbackDisk, Disk
    <3> QED
      BY <3>1
  <2>4. y.hybrid # Torn
    <3>1. y.hybrid \in Recorded
      BY <1>1, ReadType, UpToType DEF RollbackDisk
    <3> QED
      BY <3>1
  <2> QED
    BY <1>2, <2>1, <2>2, <2>3, <2>4 DEF Shared
<1>4. \A a \in Chapters : y.chapters[a] \in {x.chapters[a], NoDraft}
  BY DEF RollbackDisk
<1>5. ASSUME NEW a \in Chapters, a <= t
      PROVE  /\ y.chapters[a] = x.chapters[a] /\ y.snaps[a] = x.snaps[a]
             /\ x.memories # Torn => y.memories[a] = x.memories[a]
             /\ x.hybrid # Torn => y.hybrid[a] = x.hybrid[a]
  <2>1. a \in Nat /\ t \in Nat /\ ~(a > t)
    <3>1. a \in Nat /\ t \in Nat
      BY Zenon
    <3>2. \A m, n \in Nat : m <= n => ~(m > n)
      OBVIOUS
    <3> QED
      BY <1>5, <3>1, <3>2, Zenon
  <2>2. \A P : a \notin Scanned(P, t)
    BY <2>1, Zenon DEF Scanned
  <2>3. y.chapters[a] = x.chapters[a] /\ y.snaps[a] = x.snaps[a]
    BY <2>2 DEF RollbackDisk
  <2>4. x.memories # Torn => y.memories[a] = x.memories[a]
    BY <1>5 DEF RollbackDisk, UpTo
  <2>5. x.hybrid # Torn => y.hybrid[a] = x.hybrid[a]
    <3>1. x.hybrid # Torn => Read(x).hybrid = x.hybrid
      BY DEF Read, Disk
    <3> QED
      BY <1>5, <3>1 DEF RollbackDisk, UpTo
  <2> QED
    BY <2>3, <2>4, <2>5
<1>6. \/ y.state = x.state
      \/ x.snaps[t] \in Snapshot /\ y.state = x.snaps[t].state
  BY <1>1 DEF RollbackDisk, SnapAt
<1> QED
  BY <1>2, <1>3, <1>4, <1>5, <1>6 DEF RollbackFrame

\* What a fork plans to write.
LEMMA ForkDiskFrame ==
  ASSUME NEW x \in Disk, NEW b \in Branches, NEW c \in Targets, NEW y, y = ForkDisk(x, b, c)
  PROVE  /\ y.meta = Torn <=> x.meta = Torn
         /\ x.meta # Torn => y.meta.head = x.meta.head
         /\ y.heads = Torn => x.heads = Torn
<1>1. y.meta = IF x.meta = Torn THEN Torn ELSE [x.meta EXCEPT !.branches = @ \cup {b}]
  BY DEF ForkDisk, Disk
<1>2. x.meta # Torn => y.meta \in MetaFile /\ y.meta.head = x.meta.head
  BY <1>1, HeadIsNat DEF MetaFile
<1>3. ASSUME x.heads # Torn PROVE y.heads # Torn
  <2>1. /\ x.heads \in [Branches -> Targets \cup {NoBranch}]
        /\ y.heads = [x.heads EXCEPT ![b] = c]
    BY <1>3 DEF ForkDisk, Disk
  <2>2. y.heads \in [Branches -> Targets \cup {NoBranch}]
    BY <2>1
  <2> QED
    BY <2>2
<1> QED
  BY <1>1, <1>2, <1>3

-----------------------------------------------------------------------------
LEMMA InitCrash == Init => CrashInv
<1> SUFFICES ASSUME Init PROVE CrashInv
  OBVIOUS
<1>1. pc = "down" /\ disk = InitDisk /\ \A c \in Chapters : acked[c] = NoDraft
  BY DEF Init
<1>2. disk.meta.head = 0 /\ \A c \in Chapters : disk.chapters[c] = NoDraft
  BY <1>1 DEF InitDisk
<1>3. Unclaimed
  BY <1>1 DEF Unclaimed
<1>4. Spans
  <2>1. 1..0 = {}
    OBVIOUS
  <2> QED
    BY <1>2, <2>1 DEF Spans
<1>5. Legible
  BY <1>1, InitDiskType DEF Legible, Shared, Untorn
<1>6. Recalled
  <2>1. \A c \in Chapters : ~(c <= 0)
    OBVIOUS
  <2> QED
    BY <1>2, <2>1 DEF Recalled
<1>7. Sound /\ Promised /\ StateTells /\ SnapsTell
  BY <1>1, <1>2 DEF Sound, Promised, StateTells, SnapsTell
<1> QED
  BY <1>3, <1>4, <1>5, <1>6, <1>7, InitWork, InitLogs DEF CrashInv, FilesInv

\* What the invariant knows of a commit once its files are planned.
LEMMA CommitUnderway ==
  ASSUME CrashInv, pc \in {"stage", "publish", "index", "log_commit"}
  PROVE  /\ tx.id \in TxIds /\ tx.chapter \in Chapters /\ tx.draft \in Drafts
         /\ tx.before \in Disk /\ tx.after \in Disk /\ disk \in Disk
         /\ acked \in [Chapters -> Drafts \cup {NoDraft}]
         /\ acked[tx.chapter] = NoDraft
         /\ tx.before.state # Torn /\ tx.before.meta # Torn
         /\ tx.chapter = tx.before.meta.head + 1
         /\ CommitFrame(tx.before, tx.after, tx.chapter, tx.draft)
<1>1. /\ tx \in CommitTx /\ disk \in Disk
      /\ acked \in [Chapters -> Drafts \cup {NoDraft}]
  BY DEF CrashInv, WorkInv, TypeInv, TypeOK, TxOK, CommitSteps
<1>2. /\ tx.id \in TxIds /\ tx.chapter \in Chapters /\ tx.draft \in Drafts
      /\ tx.before \in Disk /\ tx.after \in Disk
  BY <1>1 DEF CommitTx
<1>3. /\ acked[tx.chapter] = NoDraft
      /\ tx.before.state # Torn /\ tx.before.meta # Torn
      /\ tx.chapter = tx.before.meta.head + 1
  BY DEF CrashInv, Unclaimed
<1>4. PICK b \in Branches : tx.after = CommitDisk(tx.before, tx.chapter, tx.draft, b)
  BY DEF CrashInv, WorkInv, Planned, CommitPlanned
<1>5. CommitFrame(tx.before, tx.after, tx.chapter, tx.draft)
  BY <1>2, <1>3, <1>4, CommitDiskFrame
<1> QED
  BY <1>1, <1>2, <1>3, <1>5

\* A step that publishes a file or none.
LEMMA PublishFiles ==
  ASSUME CrashInv, Persist, disk' \in Disk, acked' = acked, tx' = tx,
         pc \in {"stage", "publish", "index"}, pc' \in {"publish", "index", "log_commit"},
         \A g \in Files : \/ disk'[g] = disk[g]
                          \/ disk[g] = tx.before[g] /\ disk'[g] = tx.after[g]
  PROVE  FilesInv'
<1> DEFINE x == tx.before
           y == tx.after
           c == tx.chapter
<1>1. /\ c \in Chapters /\ tx.draft \in Drafts /\ x \in Disk /\ y \in Disk /\ disk \in Disk
      /\ acked \in [Chapters -> Drafts \cup {NoDraft}]
      /\ acked[c] = NoDraft /\ x.state # Torn /\ x.meta # Torn
      /\ c = x.meta.head + 1 /\ CommitFrame(x, y, c, tx.draft)
  BY CommitUnderway
<1>2. \A a \in Chapters : (Publishing(a) => a = c) /\ (Publishing(a)' <=> a = c)
  BY DEF Publishing
<1> HIDE DEF x, y, c
<1>3. \A g \in Files : disk'[g] = disk[g] \/ (disk[g] = x[g] /\ disk'[g] = y[g])
  BY DEF x, y
<1>4. \A a \in Chapters \ {c} :
        /\ disk'.chapters[a] = disk.chapters[a]
        /\ disk'.snaps[a] = disk.snaps[a]
        /\ disk.memories # Torn => disk'.memories = Torn \/ disk'.memories[a] = disk.memories[a]
        /\ disk.hybrid # Torn => disk'.hybrid = Torn \/ disk'.hybrid[a] = disk.hybrid[a]
  BY <1>1, <1>3 DEF CommitFrame, Files
<1>5. \A f \in Shared : disk'[f] = Torn => disk[f] = Torn
  BY <1>1, <1>3 DEF CommitFrame, Files, Shared
<1>6. disk'.state # Torn => /\ disk.state # Torn
                            /\ \A e \in Drafts : Tells(disk.state, e) => Tells(disk'.state, e)
  <2>1. disk'.state = disk.state \/ (disk.state = x.state /\ disk'.state = y.state)
    BY <1>3 DEF Files
  <2> QED
    BY <1>1, <2>1 DEF CommitFrame
<1>7. disk'.meta # Torn => /\ disk.meta # Torn
                           /\ \/ disk'.meta.head = disk.meta.head
                              \/ disk'.meta.head = c /\ disk.meta.head + 1 = c
  <2>1. disk'.meta = disk.meta \/ (disk.meta = x.meta /\ disk'.meta = y.meta)
    BY <1>3 DEF Files
  <2> QED
    BY <1>1, <2>1 DEF CommitFrame
<1> QED
  BY <1>1, <1>2, <1>4, <1>5, <1>6, <1>7, PublishingFiles DEF CrashInv

\* The process dies with some of the files published, one perhaps half written.
LEMMA CrashFiles ==
  ASSUME CrashInv, Persist, Crash, disk' \in Disk, pc \in {"publish", "index", "log_commit"}
  PROVE  FilesInv'
<1>0. PICK c \in Chapters : c = tx.chapter
  BY CommitUnderway
<1>1. /\ disk \in Disk
      /\ acked \in [Chapters -> Drafts \cup {NoDraft}] /\ acked[c] = NoDraft
  BY <1>0, CommitUnderway
<1>2. acked' = acked
  <2>1. acked' = [acked EXCEPT ![c] = NoDraft]
    BY <1>0 DEF Crash
  <2> QED
    BY <1>1, <2>1
<1>3. LostAt(c)'
  <2>1. tx.id \in Lost' /\ begun'[tx.id] = [chapter |-> tx.chapter, draft |-> tx.draft]
    BY CrashLoses DEF CrashInv
  <2> QED
    BY <1>0, <2>1 DEF LostAt
<1>4. Lost' # {}
  BY <1>3 DEF LostAt
<1>5. \A a \in Chapters : Publishing(a) => a = c
  BY <1>0 DEF Publishing
<1>6. disk' = disk \/ \E f \in Files : disk' = Damaged(disk, f, c)
  BY <1>0 DEF Crash, Interrupted, BeingWritten, BeingMoved
<1>7. /\ \A a \in Chapters \ {c} : /\ disk'.chapters[a] = disk.chapters[a]
                                   /\ disk'.snaps[a] = disk.snaps[a]
      /\ \A f \in Shared : disk'[f] \in {disk[f], Torn}
  <2>1. CASE disk' = disk
    BY <2>1
  <2>2. ASSUME NEW f \in Files, disk' = Damaged(disk, f, c)
        PROVE  /\ \A a \in Chapters \ {c} : /\ disk'.chapters[a] = disk.chapters[a]
                                            /\ disk'.snaps[a] = disk.snaps[a]
               /\ \A g \in Shared : disk'[g] \in {disk[g], Torn}
    <3>1. \A g \in Files \ {f} : disk'[g] = disk[g]
      BY <1>1, <2>2, DamagedType
    <3>2. CASE f = "chapters"
      <4>1. disk'.chapters = [disk.chapters EXCEPT ![c] = Torn]
        BY <1>1, <2>2, <3>2 DEF Damaged, Disk
      <4> QED
        BY <1>1, <3>1, <3>2, <4>1 DEF Disk, Files, Shared
    <3>3. CASE f = "snaps"
      <4>1. disk'.snaps = [disk.snaps EXCEPT ![c] = Torn]
        BY <1>1, <2>2, <3>3 DEF Damaged, Disk
      <4> QED
        BY <1>1, <3>1, <3>3, <4>1 DEF Disk, Files, Shared
    <3>4. CASE f \notin {"chapters", "snaps"}
      <4>1. disk'[f] = Torn
        BY <1>1, <2>2, <3>4 DEF Damaged, Disk, Files
      <4> QED
        BY <3>1, <3>4, <4>1 DEF Files, Shared
    <3> QED
      BY <3>2, <3>3, <3>4
  <2> QED
    BY <1>6, <2>1, <2>2
<1>8. /\ disk'.state \in {disk.state, Torn} /\ disk'.meta \in {disk.meta, Torn}
      /\ disk'.memories \in {disk.memories, Torn} /\ disk'.hybrid \in {disk.hybrid, Torn}
  BY <1>7 DEF Shared
<1> QED
  BY <1>1, <1>2, <1>3, <1>4, <1>5, <1>7, <1>8, PublishingFiles DEF CrashInv

\* The commit is acknowledged: chapter and snapshot are there, and so is the head.
LEMMA LogCommitFiles ==
  ASSUME CrashInv, Persist, LogCommit
  PROVE  FilesInv'
<1>0. PICK c \in Chapters, d \in Drafts : c = tx.chapter /\ d = tx.draft
  BY CommitUnderway DEF LogCommit
<1> DEFINE y == tx.after
<1>1. /\ tx.id \in TxIds /\ disk \in Disk
      /\ acked \in [Chapters -> Drafts \cup {NoDraft}]
      /\ CommitFrame(tx.before, y, c, d)
  BY <1>0, CommitUnderway DEF LogCommit
<1>2. /\ pc = "log_commit" /\ disk = y /\ disk' = disk /\ begun' = begun
      /\ acked' = [acked EXCEPT ![c] = d]
      /\ begun[tx.id] = [chapter |-> c, draft |-> d]
  BY <1>0 DEF LogCommit, CrashInv, WorkInv, Isolation, LogsOK, LogInv
<1>3. CommittedAs(c, d)'
  <2>1. /\ journal \in [TxIds \cup {NoTx} -> SUBSET Phases]
        /\ journal' = [journal EXCEPT ![tx.id] = @ \cup {"COMMITTED"}]
    BY DEF LogCommit, Log, CrashInv, WorkInv, TypeInv, TypeOK
  <2>2. PICK i \in TxIds : i = tx.id
    BY <1>1
  <2>3. Logged(i, {"COMMITTED"})'
    BY <2>1, <2>2 DEF Logged
  <2> QED
    BY <1>2, <2>2, <2>3 DEF CommittedAs
<1>4. \A a \in Chapters : (Publishing(a) <=> a = c) /\ ~Publishing(a)'
  BY <1>0 DEF Publishing, LogCommit
<1> HIDE DEF y
<1> USE DEF CrashInv, FilesInv
<1>5. /\ Lost # {} => Lost' # {}
      /\ \A a : LostAt(a) => LostAt(a)'
      /\ \A a : LostAbove(a) => LostAbove(a)'
  BY PersistLost
<1>6. acked'[c] = d /\ \A a \in Chapters \ {c} : acked'[a] = acked[a]
  BY <1>1, <1>2
<1>7. /\ \A f \in Shared : disk[f] # Torn
      /\ disk.meta.head = c /\ disk.chapters[c] = d /\ Tells(disk.state, d)
      /\ disk.snaps[c] = [state |-> disk.state, draft |-> d] /\ disk.snaps[c] \in Snapshot
      /\ EndsWith(disk.memories[c], d) /\ EndsWith(disk.hybrid[c], d)
  BY <1>1, <1>2 DEF CommitFrame
<1>8. c \in Nat /\ c <= c /\ ~(c < c)
  <2>1. c \in Nat
    OBVIOUS
  <2> QED
    BY <2>1
<1>9. Legible'
  BY <1>2, <1>7 DEF Legible
<1>10. Sound'
  <2> SUFFICES ASSUME NEW a \in Chapters, disk.chapters[a] # NoDraft, ~Excused(a)'
               PROVE  /\ disk.chapters[a] \in Drafts /\ CommittedAs(a, disk.chapters[a])'
                      /\ \/ disk.meta = Torn \/ disk.meta.head < a
                         \/ disk.snaps[a] \in Snapshot
                            /\ disk.snaps[a].draft = disk.chapters[a]
    BY <1>2 DEF Sound, CommittedAs, Logged
  <2>1. CASE a = c
    <3>1. disk.snaps[a].draft = disk.chapters[a]
      BY <1>7, <2>1
    <3>2. CommittedAs(a, disk.chapters[a])'
      BY <1>2, <1>3, <1>7, <2>1
    <3> QED
      BY <1>1, <1>7, <2>1, <3>1, <3>2
  <2>2. CASE a # c
    <3>1. ~Excused(a)
      BY <1>4, <1>5, <2>2 DEF Excused
    <3>2. /\ disk.chapters[a] \in Drafts /\ CommittedAs(a, disk.chapters[a])
          /\ \/ disk.meta = Torn \/ disk.meta.head < a
             \/ disk.snaps[a] \in Snapshot /\ disk.snaps[a].draft = disk.chapters[a]
      BY <3>1 DEF Sound
    <3>3. PICK e \in Drafts : e = disk.chapters[a]
      BY <3>2
    <3>4. CommittedAs(a, e)'
      BY <3>2, <3>3 DEF Persist
    <3>5. e = disk'.chapters[a]
      BY <1>2, <3>3
    <3> QED
      BY <3>2, <3>4, <3>5
  <2> QED
    BY <2>1, <2>2
<1>11. Recalled'
  <2> SUFFICES ASSUME Lost' = {}, NEW a \in Chapters, a <= disk.meta.head
               PROVE  Remembered(a)
    BY <1>2 DEF Recalled, Remembered
  <2>1. CASE a = c
    BY <1>7, <2>1 DEF Remembered, Shared
  <2>2. CASE a # c
    BY <1>4, <1>5, <2>2 DEF Recalled
  <2> QED
    BY <2>1, <2>2
<1>12. Promised'
  BY <1>1, <1>2, <1>6, <1>7, <1>8 DEF Promised
<1>13. StateTells'
  BY <1>2, <1>5, <1>6, <1>7 DEF StateTells, HasDelta
<1>14. SnapsTell'
  <2> SUFFICES ASSUME NEW a \in Chapters, a <= disk.meta.head, disk.snaps[a] \in Snapshot,
                      NEW e \in Chapters, acked'[e] # NoDraft, e <= a
               PROVE  Tells(disk.snaps[a].state, acked'[e]) \/ LostAbove(e)'
    BY <1>2 DEF SnapsTell, HasDelta
  <2>1. CASE a = c
    <3>1. disk.snaps[a].state = disk.state
      BY <1>7, <2>1
    <3>2. disk.state # Torn
      BY <1>7 DEF Shared
    <3> QED
      BY <1>2, <1>13, <3>1, <3>2 DEF StateTells, HasDelta
  <2>2. CASE a # c
    <3>1. e # c
      <4>1. a \in Nat /\ e \in Nat /\ c \in Nat /\ a <= c
        BY <1>7, <1>8
      <4> QED
        BY <2>2, <4>1
    <3>2. ~Publishing(a) /\ acked'[e] = acked[e] /\ disk.meta # Torn
      BY <1>4, <1>6, <1>7, <2>2, <3>1 DEF Shared
    <3> QED
      BY <1>5, <3>2 DEF SnapsTell, HasDelta
  <2> QED
    BY <2>1, <2>2
<1> QED
  BY <1>9, <1>10, <1>11, <1>12, <1>13, <1>14

\* A step of a rollback: it writes or moves one file, or moves some directories
\* of one and dies.
LEMMA RollFiles ==
  ASSUME CrashInv, Persist, disk' \in Disk, acked' = acked, pc = "rollback",
         pc' \notin {"publish", "index", "log_commit"},
         \A g \in Files \ {"chapters", "snaps"} :
           \/ disk'[g] = disk[g]
           \/ disk[g] = tx.before[g] /\ disk'[g] = tx.after[g],
         \A a \in Chapters : /\ disk'.chapters[a] \in {disk.chapters[a], tx.after.chapters[a]}
                             /\ disk'.snaps[a] \in {disk.snaps[a], tx.after.snaps[a]},
         "meta" \in done \/ disk'.meta = tx.after.meta
  PROVE  FilesInv'
<1> DEFINE x == tx.before
           y == tx.after
           t == tx.chapter
<1>1. x \in Disk /\ y \in Disk /\ disk \in Disk
  BY DEF CrashInv, WorkInv, TypeInv, TypeOK, TxOK, Transaction
<1>2. /\ t \in Chapters /\ x.meta # Torn /\ t <= x.meta.head
      /\ \A a \in Chapters : a > t => acked[a] = NoDraft
  BY DEF CrashInv, Unclaimed
<1>3. RollbackFrame(x, y, t)
  <2>1. y = RollbackDisk(x, t)
    BY DEF CrashInv, WorkInv, Planned, RollbackPlanned
  <2> QED
    BY <1>1, <1>2, <2>1, RollbackDiskFrame
<1>4. \A g \in Files : disk[g] = IF g \in done THEN y[g] ELSE x[g]
  BY DEF CrashInv, WorkInv, Isolation
<1> HIDE DEF x, y, t
<1>5. \A g \in Files \ {"chapters", "snaps"} :
        disk'[g] = disk[g] \/ (disk[g] = x[g] /\ disk'[g] = y[g])
  BY DEF x, y
<1>6. \A a \in Chapters : /\ disk'.chapters[a] \in {disk.chapters[a], y.chapters[a]}
                          /\ disk'.snaps[a] \in {disk.snaps[a], y.snaps[a]}
  BY DEF y
<1>7. \A a \in Chapters : /\ disk.chapters[a] \in {x.chapters[a], y.chapters[a]}
                          /\ disk.snaps[a] \in {x.snaps[a], y.snaps[a]}
  BY <1>4 DEF Files
<1>8. t <= t
  <2>1. t \in Nat
    BY <1>2
  <2> QED
    BY <2>1
<1>9. /\ disk.meta # Torn /\ t <= disk.meta.head
      /\ disk'.meta # Torn /\ disk'.meta.head = t
  <2>1. /\ disk.meta = IF "meta" \in done THEN y.meta ELSE x.meta
        /\ "meta" \notin done => disk'.meta = y.meta
        /\ disk'.meta = disk.meta \/ disk'.meta = y.meta
    BY <1>4, <1>5 DEF Files, y
  <2> QED
    BY <1>2, <1>3, <1>8, <2>1 DEF RollbackFrame
<1>10. \A a \in Chapters :
         /\ disk'.chapters[a] \in {disk.chapters[a], NoDraft}
         /\ a <= t => disk'.chapters[a] = disk.chapters[a] /\ disk'.snaps[a] = disk.snaps[a]
  BY <1>3, <1>6, <1>7 DEF RollbackFrame
<1>11. \A a \in Chapters : a <= t =>
         /\ disk.memories # Torn => disk'.memories[a] = disk.memories[a]
         /\ disk.hybrid # Torn => disk'.hybrid[a] = disk.hybrid[a]
  BY <1>3, <1>5 DEF RollbackFrame, Files
<1>12. \A f \in Shared : disk'[f] = Torn => disk[f] = Torn
  BY <1>3, <1>5 DEF RollbackFrame, Files, Shared
<1>13. \/ disk'.state = disk.state
       \/ disk.snaps[t] \in Snapshot /\ disk'.state = disk.snaps[t].state
  <2>1. disk'.state = disk.state \/ (disk.state = x.state /\ disk'.state = y.state)
    BY <1>5 DEF Files
  <2>2. disk.snaps[t] = x.snaps[t]
    BY <1>2, <1>3, <1>7, <1>8 DEF RollbackFrame
  <2> QED
    BY <1>3, <2>1, <2>2 DEF RollbackFrame
<1> QED
  BY <1>1, <1>2, <1>9, <1>10, <1>11, <1>12, <1>13, RollingFiles, ZenonT(60) DEF CrashInv

LEMMA RollbackFiles ==
  ASSUME CrashInv, Persist, disk' \in Disk,
         (\E f \in Files : RollbackFile(f)) \/ (Crash /\ pc = "rollback")
  PROVE  FilesInv'
<1>1. /\ pc = "rollback" /\ disk \in Disk /\ tx.after \in Disk
      /\ \A g \in Files : disk[g] = IF g \in done THEN tx.after[g] ELSE tx.before[g]
  <2>1. pc = "rollback"
    BY DEF RollbackFile
  <2> QED
    BY <2>1 DEF CrashInv, WorkInv, Isolation, TypeInv, TypeOK, TxOK, Transaction
<1>2. ASSUME NEW f \in Files, RollbackFile(f) PROVE FilesInv'
  <2>1. /\ pc' = "rollback" /\ acked' = acked /\ f \notin done
        /\ \A g \in Files : disk'[g] = IF g = f THEN tx.after[g] ELSE disk[g]
        /\ f # "meta" => "meta" \in done
    BY <1>1, <1>2, WriteOne DEF RollbackFile, Due, RollbackRank, Files
  <2>2. \A g \in Files : \/ disk'[g] = disk[g]
                         \/ disk[g] = tx.before[g] /\ disk'[g] = tx.after[g]
    BY <1>1, <2>1
  <2>3. disk'.chapters \in {disk.chapters, tx.after.chapters}
        /\ disk'.snaps \in {disk.snaps, tx.after.snaps}
    BY <2>1 DEF Files
  <2>4. "meta" \in done \/ disk'.meta = tx.after.meta
    BY <2>1 DEF Files
  <2> QED
    BY <1>1, <2>1, <2>2, <2>3, <2>4, RollFiles
<1>3. CASE Crash
  <2>1. pc = "rollback" /\ pc' = "down" /\ acked' = acked /\ disk' \in Interrupted
    BY <1>1, <1>3 DEF Crash, Stop
  <2>2. CASE disk' = disk
    <3>1. \A c \in Chapters : acked'[c] \in {acked[c], NoDraft}
      BY <2>1
    <3> QED
      BY <2>1, <2>2, <3>1, QuietFiles DEF CrashInv
  <2>3. ASSUME NEW f \in BeingMoved, NEW k \in Chapters, disk' = Moved(f, k)
        PROVE  FilesInv'
    <3>1. f \in {"chapters", "snaps"} /\ "meta" \in done
      BY <2>1, <2>3 DEF BeingMoved, Due, RollbackRank
    <3> DEFINE mixed == [c \in Chapters |-> IF c <= k THEN tx.after[f][c] ELSE disk[f][c]]
    <3>2. \A c \in Chapters : mixed[c] \in {disk[f][c], tx.after[f][c]}
      OBVIOUS
    <3>3. disk' = [disk EXCEPT ![f] = mixed]
      BY <2>3 DEF Moved
    <3> HIDE DEF mixed
    <3>4. disk'[f] = mixed /\ \A g \in Files \ {f} : disk'[g] = disk[g]
      BY <1>1, <3>1, <3>3 DEF Disk, Files
    <3>5. \A c \in Chapters : /\ disk'.chapters[c] \in {disk.chapters[c], tx.after.chapters[c]}
                              /\ disk'.snaps[c] \in {disk.snaps[c], tx.after.snaps[c]}
      BY <3>1, <3>2, <3>4 DEF Files
    <3>6. \A g \in Files \ {"chapters", "snaps"} : disk'[g] = disk[g]
      BY <3>1, <3>4
    <3> QED
      BY <2>1, <3>1, <3>5, <3>6, RollFiles
  <2>4. BeingWritten = {}
    BY <2>1 DEF BeingWritten
  <2> QED
    BY <2>1, <2>2, <2>3, <2>4 DEF Interrupted
<1> QED
  BY <1>2, <1>3

\* A fork adds a branch to two files and leaves the head where it is.
LEMMA ForkFiles ==
  ASSUME CrashInv, Persist, NEW f \in Files, ForkFile(f)
  PROVE  FilesInv' /\ (Spans => Spans')
<1> DEFINE x == tx.before
           y == tx.after
<1>1. /\ pc = "fork" /\ f \in {"heads", "meta"} /\ f \notin done
      /\ pc' \in {"fork", "idle"} /\ acked' = acked
      /\ disk' = [disk EXCEPT ![f] = y[f]]
  BY DEF ForkFile, Due, ForkRank, Finish
<1>2. x \in Disk /\ y \in Disk /\ disk \in Disk /\ tx.chapter \in Targets
  BY <1>1 DEF CrashInv, WorkInv, TypeInv, TypeOK, TxOK, Transaction
<1>3. PICK b \in Branches : y = ForkDisk(x, b, tx.chapter)
  BY <1>1 DEF CrashInv, WorkInv, Planned, ForkPlanned
<1>4. disk[f] = x[f]
  BY <1>1 DEF CrashInv, WorkInv, Isolation
<1>5. \A g \in Files : disk'[g] = IF g = f THEN y[g] ELSE disk[g]
  BY <1>1, <1>2, WriteOne
<1>6. /\ y.meta = Torn <=> x.meta = Torn
      /\ x.meta # Torn => y.meta.head = x.meta.head
      /\ y.heads = Torn => x.heads = Torn
  BY <1>2, <1>3, ForkDiskFrame
<1> HIDE DEF x, y
<1>7. /\ disk'.heads = Torn => disk.heads = Torn
      /\ disk'.meta = Torn <=> disk.meta = Torn
      /\ disk.meta # Torn => disk'.meta.head = disk.meta.head
  BY <1>1, <1>4, <1>5, <1>6 DEF Files
<1>8. \A g \in Files \ {"meta", "heads"} : disk'[g] = disk[g]
  BY <1>1, <1>5
<1>9. \A c \in Chapters : acked'[c] \in {acked[c], NoDraft}
  BY <1>1
<1>10. FilesInv'
  BY <1>1, <1>7, <1>8, <1>9, QuietFiles DEF CrashInv
<1>11. Spans => Spans'
  BY <1>7 DEF Spans
<1> QED
  BY <1>10, <1>11

LEMMA NextFiles ==
  ASSUME NoUndo, CrashInv, [Next]_vars
  PROVE  FilesInv'
<1>1. Persist /\ disk' \in Disk /\ disk \in Disk
  BY NextCrashLog, NextWork DEF CrashInv, WorkInv, TypeInv, TypeOK
<1>2. ASSUME disk' = disk, pc \notin {"publish", "index", "log_commit"},
             pc' \notin {"publish", "index", "log_commit"},
             \A c \in Chapters : acked'[c] \in {acked[c], NoDraft}
      PROVE  FilesInv'
  BY <1>1, <1>2, QuietFiles DEF CrashInv
<1>3. CASE Call
  <2>1. pc = "idle" /\ pc' \in {"idle", "log_begin"} /\ disk' = disk /\ acked' = acked
    BY <1>3 DEF Call, Replay, Already, Answers, Begin, Reject
  <2> QED
    BY <1>2, <2>1
<1>4. CASE \/ LogBegin \/ FailUnprotected \/ AppendEvent \/ WriteReport \/ WriteManifest
           \/ Cleanup \/ LogRollback \/ Exit \/ Start
  <2>1. /\ disk' = disk /\ acked' = acked
        /\ pc \notin {"publish", "index", "log_commit"}
        /\ pc' \notin {"publish", "index", "log_commit"}
    BY <1>4 DEF LogBegin, FailUnprotected, AppendEvent, WriteReport, WriteManifest, Govern,
                Cleanup, LogRollback, Exit, Start, Stop, Finish
  <2> QED
    BY <1>2, <2>1
<1>5. CASE Prepare
  <2>1. disk' = disk /\ acked' = acked /\ tx' = tx
    BY <1>5 DEF Prepare
  <2>2. CASE pc = "backup"
    <3>1. pc' = "stage"
      BY <1>5, <2>2 DEF Prepare
    <3> QED
      BY <1>2, <2>1, <2>2, <3>1
  <2>3. CASE pc = "stage"
    <3>1. pc' = "publish"
      BY <1>5, <2>3 DEF Prepare
    <3> QED
      BY <1>1, <2>1, <2>3, <3>1, PublishFiles
  <2> QED
    BY <1>5, <2>2, <2>3 DEF Prepare
<1>6. ASSUME NEW f \in Files, Publish(f) PROVE FilesInv'
  <2>1. /\ pc = "publish" /\ pc' \in {"publish", "index"} /\ f \notin done
        /\ acked' = acked /\ tx' = tx /\ disk' = [disk EXCEPT ![f] = tx.after[f]]
    BY <1>6 DEF Publish, Due
  <2>2. tx.after \in Disk
    BY <2>1, CommitUnderway
  <2>3. disk[f] = tx.before[f]
    BY <2>1 DEF CrashInv, WorkInv, Isolation
  <2>4. \A g \in Files : \/ disk'[g] = disk[g]
                         \/ disk[g] = tx.before[g] /\ disk'[g] = tx.after[g]
    BY <1>1, <2>1, <2>2, <2>3, WriteOne
  <2> QED
    BY <1>1, <2>1, <2>4, PublishFiles
<1>7. CASE SaveIndex
  <2>1. /\ pc = "index" /\ pc' = "log_commit" /\ disk' = disk /\ acked' = acked /\ tx' = tx
    BY <1>7 DEF SaveIndex
  <2> QED
    BY <1>1, <2>1, PublishFiles
<1>8. CASE LogCommit
  BY <1>1, <1>8, LogCommitFiles
<1>9. CASE Fail \/ (\E f \in Files : Undo(f)) \/ LogAbort
  <2>1. ~Fail
    BY DEF Fail, NoUndo, Due, PublishRank, Files
  <2> QED
    BY <1>9, <2>1 DEF Undo, LogAbort, CrashInv, WorkInv
<1>10. ASSUME NEW t \in Targets, BeginRollback(t) PROVE FilesInv'
  <2>1. /\ pc = "idle" /\ pc' = "rollback" /\ disk' = disk
        /\ acked' = [c \in Chapters |-> IF c > t THEN NoDraft ELSE acked[c]]
    BY <1>10 DEF BeginRollback
  <2>2. \A c \in Chapters : acked'[c] \in {acked[c], NoDraft}
    BY <2>1
  <2> QED
    BY <1>2, <2>1, <2>2
<1>11. CASE \E f \in Files : RollbackFile(f)
  BY <1>1, <1>11, RollbackFiles
<1>12. CASE \E b \in Branches, c \in Targets : BeginFork(b, c)
  <2>1. pc = "idle" /\ pc' = "fork" /\ disk' = disk /\ acked' = acked
    BY <1>12 DEF BeginFork
  <2> QED
    BY <1>2, <2>1
<1>13. CASE \E f \in Files : ForkFile(f)
  BY <1>1, <1>13, ForkFiles
<1>14. CASE Crash
  <2>1. CASE pc \in {"publish", "index", "log_commit"}
    BY <1>1, <1>14, <2>1, CrashFiles
  <2>2. CASE pc = "rollback"
    BY <1>1, <1>14, <2>2, RollbackFiles
  <2>3. CASE pc \notin {"publish", "index", "log_commit", "rollback"}
    <3>1. pc # "undo" /\ pc' = "down"
      BY <1>14 DEF Crash, Stop, CrashInv, WorkInv
    <3>2. disk' = disk
      BY <1>14, <2>3, <3>1 DEF Crash, Interrupted, BeingWritten, BeingMoved
    <3>3. acked' = acked
      BY <1>14, <2>3, <3>1 DEF Crash
    <3> QED
      BY <1>2, <2>3, <3>1, <3>2, <3>3
  <2> QED
    BY <2>1, <2>2, <2>3
<1>15. CASE UNCHANGED vars
  BY <1>15, ZenonT(60) DEF vars, CrashInv, FilesInv, Legible, Sound, Recalled, Promised, StateTells,
     SnapsTell, HasDelta, Excused, Publishing, Remembered, LostAt, LostAbove, Lost,
     Orphans, Logged, CommittedAs
<1> QED
  BY <1>3, <1>4, <1>5, <1>6, <1>7, <1>8, <1>9, <1>10, <1>11, <1>12, <1>13, <1>14, <1>15
     DEF Next, Work

\* Steps that go on with the operation in progress, or end it.
LEMMA QuietClaims ==
  ASSUME Unclaimed, acked' = acked,
         \/ pc' \notin {"log_begin", "backup", "stage", "publish", "index", "log_commit",
                        "rollback"}
         \/ /\ tx' = tx
            /\ pc \in {"log_begin", "backup", "stage", "publish", "index"}
            /\ pc' \in {"backup", "stage", "publish", "index", "log_commit"}
         \/ tx' = tx /\ pc = "rollback" /\ pc' = "rollback"
         \/ tx' = tx /\ pc' = pc
  PROVE  Unclaimed'
BY DEF Unclaimed

LEMMA CallClaims ==
  ASSUME Serial, CrashInv, Call
  PROVE  Unclaimed' /\ Spans'
<1>1. PICK q \in Calls : /\ pc = "idle" /\ Asked(disk, q.chapter, q.branch)
                         /\ Replay(q) \/ Already(q) \/ Begin(q) \/ Reject(q)
  BY DEF Call
<1>2. disk' = disk /\ acked' = acked /\ pc' \in {"idle", "log_begin"}
  BY <1>1 DEF Replay, Already, Answers, Begin, Reject
<1>3. Spans'
  BY <1>2 DEF CrashInv, Spans
<1>4. CASE Begin(q)
  <2>1. /\ tx'.chapter = q.chapter /\ tx'.before = disk /\ pc' = "log_begin"
        /\ disk.state # Torn /\ disk.meta # Torn /\ q.chapter = disk.meta.head + 1
    BY <1>1, <1>4 DEF Begin, Accepted, Asked
  <2>2. q.chapter \in Chapters /\ disk.meta.head \in Nat
    <3>1. disk \in Disk
      BY DEF CrashInv, WorkInv, TypeInv, TypeOK
    <3> QED
      BY <2>1, <3>1, HeadIsNat DEF Calls
  <2>3. acked[q.chapter] = NoDraft
    <3>1. ~(q.chapter <= disk.meta.head)
      BY <2>1, <2>2
    <3> QED
      BY <2>1, <2>2, <3>1 DEF CrashInv, FilesInv, Promised
  <2> QED
    BY <1>2, <1>3, <2>1, <2>3 DEF Unclaimed
<1>5. CASE Replay(q) \/ Already(q) \/ Reject(q)
  <2>1. pc' = "idle"
    BY <1>1, <1>5 DEF Replay, Already, Answers, Reject
  <2> QED
    BY <1>2, <1>3, <2>1 DEF Unclaimed
<1> QED
  BY <1>1, <1>4, <1>5

LEMMA NextClaims ==
  ASSUME Serial, NoUndo, CrashInv, [Next]_vars
  PROVE  Unclaimed' /\ Spans'
<1>0. /\ disk \in Disk /\ pc # "undo"
      /\ pc = "rollback" => /\ tx.before \in Disk /\ tx.after \in Disk
      /\ Unclaimed /\ Spans
  BY DEF CrashInv, WorkInv, TypeInv, TypeOK, TxOK, Transaction
<1>1. CASE \/ LogBegin \/ Prepare \/ SaveIndex \/ LogCommit \/ FailUnprotected
           \/ AppendEvent \/ WriteReport \/ WriteManifest
           \/ Cleanup \/ LogRollback \/ Exit \/ Start \/ UNCHANGED vars
           \/ (\E b \in Branches, c \in Targets : BeginFork(b, c))
  <2>1. disk' = disk
    BY <1>1 DEF LogBegin, Prepare, SaveIndex, LogCommit, FailUnprotected, AppendEvent,
                WriteReport, WriteManifest, Govern, Cleanup, LogRollback, Exit, Start,
                BeginFork, vars
  <2>2. CASE LogCommit
    BY <2>1, <2>2, <1>0 DEF LogCommit, Unclaimed, Spans
  <2>3. CASE \/ LogBegin \/ Prepare \/ SaveIndex \/ UNCHANGED vars
    <3>1. /\ acked' = acked /\ tx' = tx
          /\ \/ pc' = pc
             \/ /\ pc \in {"log_begin", "backup", "stage", "publish", "index"}
                /\ pc' \in {"backup", "stage", "publish", "index", "log_commit"}
      BY <2>3 DEF LogBegin, Prepare, SaveIndex, vars
    <3> QED
      BY <1>0, <2>1, <3>1, QuietClaims DEF Spans
  <2>4. CASE \/ FailUnprotected
             \/ AppendEvent \/ WriteReport \/ WriteManifest
             \/ Cleanup \/ LogRollback \/ Exit \/ Start
             \/ (\E b \in Branches, c \in Targets : BeginFork(b, c))
    <3>1. /\ acked' = acked
          /\ pc' \in {"event", "report", "manifest", "cleanup", "idle", "down", "fork"}
      BY <2>4 DEF FailUnprotected, AppendEvent, WriteReport, WriteManifest, Govern, Cleanup,
                  LogRollback, Exit, Start, Stop, Finish, BeginFork
    <3> QED
      BY <1>0, <2>1, <3>1, QuietClaims DEF Spans
  <2> QED
    BY <1>1, <2>2, <2>3, <2>4
<1>2. CASE Call
  BY <1>2, CallClaims
<1>3. ASSUME NEW f \in Files, Publish(f) PROVE Unclaimed' /\ Spans'
  <2>1. /\ pc = "publish" /\ pc' \in {"publish", "index"} /\ f \notin done
        /\ acked' = acked /\ tx' = tx /\ disk' = [disk EXCEPT ![f] = tx.after[f]]
    BY <1>3 DEF Publish, Due
  <2>2. /\ tx.before \in Disk /\ tx.after \in Disk /\ tx.before.meta # Torn
        /\ tx.chapter \in Chapters /\ tx.chapter = tx.before.meta.head + 1
        /\ tx.after.meta.head = tx.chapter
    BY <2>1, CommitUnderway DEF CommitFrame
  <2>3. disk[f] = tx.before[f]
    BY <2>1 DEF CrashInv, WorkInv, Isolation
  <2>4. \A g \in Files : disk'[g] = IF g = f THEN tx.after[g] ELSE disk[g]
    BY <1>0, <2>1, <2>2, WriteOne
  <2>5. Spans'
    <3>1. CASE f = "meta"
      <4>1. disk.meta = tx.before.meta /\ disk'.meta = tx.after.meta
        BY <2>3, <2>4, <3>1
      <4>2. disk.meta.head \in Nat
        BY <1>0, <2>2, <4>1, HeadIsNat
      <4>3. \A h \in Nat : 1..(h + 1) = (1..h) \cup {h + 1}
        OBVIOUS
      <4>4. 1..disk.meta.head \subseteq Chapters
        BY <1>0, <2>2, <4>1 DEF Spans
      <4>5. disk'.meta.head = disk.meta.head + 1 /\ disk.meta.head + 1 \in Chapters
        BY <2>2, <4>1
      <4>6. 1..disk'.meta.head = (1..disk.meta.head) \cup {disk.meta.head + 1}
        BY <4>2, <4>3, <4>5
      <4> QED
        BY <4>4, <4>5, <4>6 DEF Spans
    <3>2. CASE f # "meta"
      <4>1. disk'.meta = disk.meta
        BY <2>4, <3>2 DEF Files
      <4> QED
        BY <1>0, <4>1 DEF Spans
    <3> QED
      BY <3>1, <3>2
  <2> QED
    BY <1>0, <2>1, <2>5, QuietClaims
<1>4. CASE Fail \/ (\E f \in Files : Undo(f)) \/ LogAbort
  <2>1. ~Fail
    BY DEF Fail, NoUndo, Due, PublishRank, Files
  <2> QED
    BY <1>0, <1>4, <2>1 DEF Undo, LogAbort
<1>5. ASSUME NEW t \in Targets, BeginRollback(t) PROVE Unclaimed' /\ Spans'
  <2>1. /\ pc' = "rollback" /\ disk' = disk /\ disk.meta # Torn
        /\ tx'.chapter = t /\ tx'.before = disk /\ t # 0 /\ t <= disk.meta.head
        /\ acked' = [c \in Chapters |-> IF c > t THEN NoDraft ELSE acked[c]]
    BY <1>5 DEF BeginRollback, Writes, RollbackAsked
  <2>2. t \in Chapters
    BY <2>1 DEF Targets
  <2>3. \A c \in Chapters : c > t => acked'[c] = NoDraft
    BY <2>1
  <2> QED
    BY <1>0, <2>1, <2>2, <2>3 DEF Unclaimed, Spans
<1>6. ASSUME NEW f \in Files, RollbackFile(f) PROVE Unclaimed' /\ Spans'
  <2>1. /\ pc = "rollback" /\ pc' = "rollback" /\ f \notin done
        /\ acked' = acked /\ tx' = tx /\ disk' = [disk EXCEPT ![f] = tx.after[f]]
    BY <1>6 DEF RollbackFile, Due
  <2>2. \A g \in Files : disk'[g] = IF g = f THEN tx.after[g] ELSE disk[g]
    BY <1>0, <2>1, WriteOne
  <2>3. Spans'
    <3>1. CASE f = "meta"
      <4>1. disk.meta = tx.before.meta /\ disk'.meta = tx.after.meta
        BY <2>1, <2>2, <3>1 DEF CrashInv, WorkInv, Isolation
      <4>2. /\ tx.chapter \in Chapters /\ tx.before.meta # Torn
            /\ tx.chapter <= tx.before.meta.head
        BY <1>0, <2>1 DEF Unclaimed
      <4>3. tx.after.meta.head = tx.chapter
        <5>1. tx.after = RollbackDisk(tx.before, tx.chapter)
          BY <2>1 DEF CrashInv, WorkInv, Planned, RollbackPlanned
        <5>2. RollbackFrame(tx.before, tx.after, tx.chapter)
          BY <1>0, <2>1, <4>2, <5>1, RollbackDiskFrame
        <5> QED
          BY <5>2 DEF RollbackFrame
      <4>4. disk.meta.head \in Nat /\ tx.chapter \in Nat
        BY <1>0, <4>1, <4>2, HeadIsNat
      <4>5. \A h, t \in Nat : t <= h => 1..t \subseteq 1..h
        OBVIOUS
      <4>6. 1..disk.meta.head \subseteq Chapters
        BY <1>0, <4>1, <4>2 DEF Spans
      <4>7. 1..tx.chapter \subseteq Chapters
        BY <4>1, <4>2, <4>4, <4>5, <4>6
      <4> QED
        BY <4>1, <4>3, <4>7 DEF Spans
    <3>2. CASE f # "meta"
      <4>1. disk'.meta = disk.meta
        BY <2>2, <3>2 DEF Files
      <4> QED
        BY <1>0, <4>1 DEF Spans
    <3> QED
      BY <3>1, <3>2
  <2> QED
    BY <1>0, <2>1, <2>3, QuietClaims
<1>7. ASSUME NEW f \in Files, ForkFile(f) PROVE Unclaimed' /\ Spans'
  <2>1. Spans'
    BY <1>0, <1>7, ForkFiles, NextCrashLog DEF CrashInv, Next, Work
  <2>2. pc' \in {"fork", "idle"} /\ acked' = acked
    BY <1>7 DEF ForkFile, Finish
  <2> QED
    BY <1>0, <2>1, <2>2, QuietClaims
<1>8. CASE Crash
  <2>1. pc' = "down" /\ disk' \in Interrupted
    BY <1>8 DEF Crash, Stop
  <2>2. disk'.meta \in {disk.meta, Torn}
    <3>1. CASE disk' = disk
      BY <3>1
    <3>2. ASSUME NEW f \in BeingWritten, disk' = Damaged(disk, f, tx.chapter)
          PROVE  disk'.meta \in {disk.meta, Torn}
      BY <1>0, <3>2 DEF Damaged, BeingWritten, Files, Disk
    <3>3. ASSUME NEW f \in BeingMoved, NEW k \in Chapters, disk' = Moved(f, k)
          PROVE  disk'.meta \in {disk.meta, Torn}
      BY <1>0, <3>3 DEF Moved, BeingMoved, Disk
    <3> QED
      BY <2>1, <3>1, <3>2, <3>3 DEF Interrupted
  <2> QED
    BY <1>0, <2>1, <2>2 DEF Spans, Unclaimed
<1> QED
  BY <1>1, <1>2, <1>3, <1>4, <1>5, <1>6, <1>7, <1>8 DEF Next, Work

LEMMA NextCrash ==
  ASSUME Serial, NoUndo, CrashInv, [Next]_vars
  PROVE  CrashInv'
<1>1. WorkInv' /\ LogsOK'
  BY NextWork, NextCrashLog DEF CrashInv
<1> QED
  BY <1>1, NextClaims, NextFiles DEF CrashInv

\* When only write-next and the daemon use the project and no error makes a
\* commit undo itself, the process may die at any step, any number of times, and
\* take as many commits and rollbacks with it: every chapter a client was told of
\* and that was not rolled back is on disk with its snapshot, and its delta is in
\* the story state unless a commit of a later chapter was cut short.
THEOREM CommittedChaptersSurvive ==
  ASSUME Serial, NoUndo
  PROVE  Spec => []AckedSurvives
<1>1. CrashInv => AckedSurvives
  <2> SUFFICES ASSUME CrashInv, NEW c \in Chapters, acked[c] # NoDraft
               PROVE  /\ disk.chapters[c] = acked[c]
                      /\ disk.snaps[c] \in Snapshot /\ disk.snaps[c].draft = acked[c]
                      /\ \/ disk.state = Torn
                         \/ \E k \in DOMAIN disk.state : disk.state[k] = acked[c]
                         \/ \E i \in Orphans : begun[i].chapter > c
    BY DEF AckedSurvives
  <2>1. Promised /\ StateTells
    BY DEF CrashInv, FilesInv
  <2>2. disk.state # Torn => Tells(disk.state, acked[c]) \/ LostAbove(c)
    BY <2>1 DEF StateTells, HasDelta
  <2> QED
    BY <2>1, <2>2 DEF Promised, Tells, LostAbove, Lost
<1>2. CrashInv /\ [Next]_vars => CrashInv'
  BY NextCrash
<1> QED
  BY <1>1, <1>2, InitCrash, PTL DEF Spec

\* Under the same hypotheses the journal and the head account for whatever a
\* crash left half done: a chapter that is only partly there, a shared file that
\* cannot be read, a current chapter that is not remembered.
THEOREM DamageIsAccountedFor ==
  ASSUME Serial, NoUndo
  PROVE  Spec => []DamageIsLogged
<1>1. CrashInv => DamageIsLogged
  <2> SUFFICES ASSUME CrashInv, AtRest PROVE DamageIsLogged
    BY DEF DamageIsLogged
  <2>1. /\ Legible /\ Sound /\ Recalled /\ Spans /\ Lost \subseteq Orphans
        /\ \A c : ~Publishing(c)
        /\ disk \in Disk
    BY DEF CrashInv, FilesInv, AtRest, Publishing, Lost, WorkInv, TypeInv, TypeOK
  <2>2. ASSUME NEW c \in Chapters, disk.chapters[c] # NoDraft, ~Whole(c)
        PROVE  \/ \E i \in Orphans : begun[i].chapter = c
               \/ /\ CommittedAs(c, disk.chapters[c])
                  /\ disk.meta = Torn \/ disk.meta.head < c
    <3>1. CASE LostAt(c)
      BY <2>1, <3>1 DEF LostAt
    <3>2. CASE ~LostAt(c)
      <4>1. /\ disk.chapters[c] \in Drafts /\ CommittedAs(c, disk.chapters[c])
            /\ \/ disk.meta = Torn \/ disk.meta.head < c
               \/ disk.snaps[c] \in Snapshot /\ disk.snaps[c].draft = disk.chapters[c]
        BY <2>1, <2>2, <3>2 DEF Sound, Excused
      <4>2. disk.meta # Torn => (c <= disk.meta.head <=> ~(disk.meta.head < c))
        BY <2>1, HeadIsNat
      <4> QED
        BY <2>2, <4>1, <4>2 DEF Whole
    <3> QED
      BY <3>1, <3>2
  <2>3. Orphans # {} \/ \A c \in 1..disk.meta.head : Remembered(c)
    <3> SUFFICES ASSUME Orphans = {}, NEW c \in 1..disk.meta.head PROVE Remembered(c)
      OBVIOUS
    <3>1. Lost = {} /\ disk.meta # Torn
      BY <2>1 DEF Legible, Shared
    <3>2. c \in Chapters /\ c <= disk.meta.head
      BY <2>1, <3>1 DEF Spans
    <3> QED
      BY <2>1, <3>1, <3>2 DEF Recalled
  <2>4. Torn \in {disk.state, disk.meta, disk.heads} => Orphans # {}
    BY <2>1 DEF Legible, Shared
  <2> QED
    BY <2>2, <2>3, <2>4 DEF DamageIsLogged
<1>2. CrashInv /\ [Next]_vars => CrashInv'
  BY NextCrash
<1> QED
  BY <1>1, <1>2, InitCrash, PTL DEF Spec

-----------------------------------------------------------------------------
(* A transaction id pays for one application of its delta.  The states of the *)
(* story and of its snapshots, and the memories, hold a draft at most as often *)
(* as there are ids spent on it.                                              *)

\* The ids whose delta may be on disk, and that no call can use again.
Spent == {i \in TxIds : begun[i] # NoTx /\
    \/ index[i] # "absent"
    \/ pc = "down" /\ Logged(i, {"BEGIN"})
    \/ pc \in {"publish", "index"} /\ i = tx.id}

Charged(S, b, D) == {i \in S : b[i] \in D}
Of(d) == [chapter : Chapters, draft : {d}]
At(c, d) == {[chapter |-> c, draft |-> d]}
Paid(s, D, S, b, d) == Times(s, d) <= Cardinality(Charged(S, b, D))
PaidState(s, S, b) == \A d \in Drafts : Paid(s, Of(d), S, b, d)
PaidLog(log, S, b) == \A c \in Chapters, d \in Drafts : Paid(log[c], At(c, d), S, b, d)
PaidDisk(x, S, b) ==
    /\ x.state # Torn => PaidState(x.state, S, b)
    /\ \A a \in Chapters : x.snaps[a] \in Snapshot => PaidState(x.snaps[a].state, S, b)
    /\ x.memories # Torn => PaidLog(x.memories, S, b)

Few(b) == IsFiniteSet({i \in TxIds : b[i] # NoTx})
Budget == /\ PaidDisk(disk, Spent, begun)
          /\ pc \in {"publish", "rollback"} => PaidDisk(tx.after, Spent, begun)
Readable == pc \in {"log_begin", "backup", "stage"} => disk.state # Torn

\* The inductive invariant.
OnceInv == WorkInv /\ LogsOK /\ Readable /\ Few(begun) /\ Budget

LEMMA TimesType ==
  ASSUME NEW s \in Seq(Drafts), NEW d
  PROVE  /\ IsFiniteSet({k \in DOMAIN s : s[k] = d})
         /\ Times(s, d) \in Nat
<1>1. DOMAIN s = 1..Len(s) /\ Len(s) \in Nat
  OBVIOUS
<1>2. IsFiniteSet(1..Len(s))
  <2>1. 1 \in Int /\ Len(s) \in Int
    BY <1>1
  <2> QED
    BY <2>1, FS_Interval
<1>3. IsFiniteSet({k \in DOMAIN s : s[k] = d})
  BY <1>1, <1>2, FS_Subset
<1> QED
  BY <1>3, FS_CardinalityType DEF Times

\* Nothing is told in an empty log, and one more thing in a longer one.
LEMMA TimesNone == \A d : Times(<< >>, d) = 0
<1>1. \A d : {k \in DOMAIN << >> : << >>[k] = d} = {}
  OBVIOUS
<1> QED
  BY <1>1, FS_EmptySet DEF Times

LEMMA TimesAppend ==
  ASSUME NEW s \in Seq(Drafts), NEW d \in Drafts, NEW e \in Drafts
  PROVE  Times(Append(s, d), e) = IF e = d THEN Times(s, e) + 1 ELSE Times(s, e)
<1> DEFINE n == Len(s) + 1
           K == {k \in DOMAIN s : s[k] = e}
           L == {k \in DOMAIN Append(s, d) : Append(s, d)[k] = e}
<1>1. /\ DOMAIN Append(s, d) = DOMAIN s \cup {n} /\ n \notin DOMAIN s
      /\ Append(s, d)[n] = d /\ \A k \in DOMAIN s : Append(s, d)[k] = s[k]
  OBVIOUS
<1>2. IsFiniteSet(K)
  BY TimesType
<1> HIDE DEF n
<1>3. CASE e = d
  <2>1. L = K \cup {n} /\ n \notin K
    BY <1>1, <1>3
  <2>2. Cardinality(K \cup {n}) = Cardinality(K) + 1
    BY <1>2, <2>1, FS_AddElement
  <2> QED
    BY <1>3, <2>1, <2>2 DEF Times
<1>4. CASE e # d
  <2>1. L = K
    BY <1>1, <1>4
  <2> QED
    BY <1>4, <2>1 DEF Times
<1> QED
  BY <1>3, <1>4

\* What is paid for stays so when more ids are spent.
LEMMA PaidMore ==
  ASSUME NEW s \in Seq(Drafts), NEW d \in Drafts, NEW D, NEW S, NEW T, NEW b, NEW e,
         Paid(s, D, S, b, d), \A i \in S : i \in T /\ e[i] = b[i],
         IsFiniteSet(Charged(T, e, D))
  PROVE  Paid(s, D, T, e, d)
<1>1. Charged(S, b, D) \subseteq Charged(T, e, D)
  BY DEF Charged
<1>2. /\ Cardinality(Charged(S, b, D)) <= Cardinality(Charged(T, e, D))
      /\ IsFiniteSet(Charged(S, b, D))
  BY <1>1, FS_Subset
<1>3. Cardinality(Charged(S, b, D)) \in Nat /\ Cardinality(Charged(T, e, D)) \in Nat
  BY <1>2, FS_CardinalityType
<1>4. Times(s, d) \in Nat
  BY TimesType
<1>5. Times(s, d) <= Cardinality(Charged(S, b, D))
  BY DEF Paid
<1> QED
  BY <1>2, <1>3, <1>4, <1>5 DEF Paid

\* A new id pays for one more application.
LEMMA PaidOneMore ==
  ASSUME NEW s \in Seq(Drafts), NEW d \in Drafts, NEW e \in Drafts, NEW D, NEW S, NEW b,
         NEW i, i \notin S, e = d => b[i] \in D, Paid(s, D, S, b, e),
         IsFiniteSet(Charged(S \cup {i}, b, D))
  PROVE  Paid(Append(s, d), D, S \cup {i}, b, e)
<1>1. CASE e # d
  <2>1. Paid(s, D, S \cup {i}, b, e)
    BY PaidMore
  <2> QED
    BY <1>1, <2>1, TimesAppend DEF Paid
<1>2. CASE e = d
  <2>1. /\ Charged(S \cup {i}, b, D) = Charged(S, b, D) \cup {i} /\ i \notin Charged(S, b, D)
        /\ Charged(S, b, D) \subseteq Charged(S \cup {i}, b, D)
    BY <1>2 DEF Charged
  <2>2. IsFiniteSet(Charged(S, b, D))
    BY <2>1, FS_Subset
  <2>3. Cardinality(Charged(S \cup {i}, b, D)) = Cardinality(Charged(S, b, D)) + 1
    BY <2>1, <2>2, FS_AddElement
  <2>4. Cardinality(Charged(S, b, D)) \in Nat /\ Times(s, e) \in Nat
    BY <2>2, FS_CardinalityType, TimesType
  <2> QED
    BY <1>2, <2>3, <2>4, TimesAppend DEF Paid
<1> QED
  BY <1>1, <1>2

LEMMA PaidNone ==
  ASSUME NEW d, NEW D, NEW S, NEW b, IsFiniteSet(Charged(S, b, D))
  PROVE  Paid(<< >>, D, S, b, d)
<1>1. Cardinality(Charged(S, b, D)) \in Nat
  BY FS_CardinalityType
<1> QED
  BY <1>1, TimesNone DEF Paid

\* The ids spent on a draft are finitely many.
LEMMA FewCharged ==
  ASSUME NEW b, Few(b), NEW S, S \subseteq TxIds, NEW D, NoTx \notin D
  PROVE  IsFiniteSet(Charged(S, b, D))
<1>1. Charged(S, b, D) \subseteq {i \in TxIds : b[i] # NoTx}
  BY DEF Charged
<1> QED
  BY <1>1, FS_Subset DEF Few

LEMMA NeverNoTx ==
  \A d \in Drafts : NoTx \notin Of(d) /\ \A c \in Chapters : NoTx \notin At(c, d)
BY DEF Of, At

LEMMA PaidDiskMore ==
  ASSUME NEW x \in Disk, NEW S, NEW T, NEW b, NEW e, PaidDisk(x, S, b),
         \A i \in S : i \in T /\ e[i] = b[i], T \subseteq TxIds, Few(e)
  PROVE  PaidDisk(x, T, e)
<1>1. \A c \in Chapters, d \in Drafts : IsFiniteSet(Charged(T, e, At(c, d)))
  BY FewCharged, NeverNoTx
<1>2. \A d \in Drafts : IsFiniteSet(Charged(T, e, Of(d)))
  BY FewCharged, NeverNoTx
<1>3. ASSUME NEW s \in Seq(Drafts), PaidState(s, S, b) PROVE PaidState(s, T, e)
  BY <1>2, <1>3, PaidMore DEF PaidState
<1>4. x.state # Torn => x.state \in Seq(Drafts)
  BY DEF Disk
<1>5. \A a \in Chapters : x.snaps[a] \in Snapshot => x.snaps[a].state \in Seq(Drafts)
  BY DEF Snapshot
<1>6. x.memories # Torn => \A c \in Chapters : x.memories[c] \in Seq(Drafts)
  BY DEF Disk, Recorded
<1>7. x.memories # Torn => PaidLog(x.memories, T, e)
  <2> SUFFICES ASSUME x.memories # Torn, NEW c \in Chapters, NEW d \in Drafts
               PROVE  Paid(x.memories[c], At(c, d), T, e, d)
    BY DEF PaidLog
  <2>1. Paid(x.memories[c], At(c, d), S, b, d)
    BY DEF PaidDisk, PaidLog
  <2> QED
    BY <1>1, <1>6, <2>1, PaidMore
<1> QED
  BY <1>3, <1>4, <1>5, <1>7 DEF PaidDisk

\* The commit of a new id.
LEMMA PaidCommit ==
  ASSUME NEW x \in Disk, x.state # Torn, NEW c \in Chapters, NEW d \in Drafts,
         NEW br \in Branches, NEW b, NEW S, NEW i, i \notin S, S \cup {i} \subseteq TxIds,
         b[i] = [chapter |-> c, draft |-> d], Few(b), PaidDisk(x, S, b)
  PROVE  PaidDisk(CommitDisk(x, c, d, br), S \cup {i}, b)
<1> DEFINE y == CommitDisk(x, c, d, br)
           T == S \cup {i}
           s == Append(x.state, d)
<1>1. /\ y.state = s /\ y.memories = Record(Read(x).memories, c, d)
      /\ y.snaps = [x.snaps EXCEPT ![c] = [state |-> s, draft |-> d]]
  BY DEF CommitDisk
<1>2. /\ x.state \in Seq(Drafts) /\ Read(x).memories \in Recorded
      /\ x.snaps \in [Chapters -> Snapshot \cup {NoSnap, Torn}]
  BY ReadType DEF Disk
<1>3. \A e \in Drafts : /\ IsFiniteSet(Charged(T, b, Of(e)))
                        /\ \A a \in Chapters : IsFiniteSet(Charged(T, b, At(a, e)))
  BY FewCharged, NeverNoTx
<1>4. PaidState(s, T, b)
  <2> SUFFICES ASSUME NEW e \in Drafts PROVE Paid(s, Of(e), T, b, e)
    BY DEF PaidState
  <2>1. Paid(x.state, Of(e), S, b, e)
    BY DEF PaidDisk, PaidState
  <2>2. e = d => b[i] \in Of(e)
    BY DEF Of
  <2> QED
    BY <1>2, <1>3, <2>1, <2>2, PaidOneMore
<1>5. ASSUME NEW a \in Chapters, y.snaps[a] \in Snapshot
      PROVE  PaidState(y.snaps[a].state, T, b)
  <2>1. CASE a = c
    <3>1. y.snaps[a].state = s
      BY <1>1, <1>2, <2>1
    <3> QED
      BY <1>4, <3>1
  <2>2. CASE a # c
    <3>1. y.snaps[a] = x.snaps[a]
      BY <1>1, <1>2, <2>2
    <3>2. PaidDisk(x, T, b)
      BY PaidDiskMore
    <3> QED
      BY <1>5, <3>1, <3>2 DEF PaidDisk
  <2> QED
    BY <2>1, <2>2
<1>6. PaidLog(y.memories, T, b)
  <2> SUFFICES ASSUME NEW a \in Chapters, NEW e \in Drafts
               PROVE  Paid(y.memories[a], At(a, e), T, b, e)
    BY DEF PaidLog
  <2>1. PICK log \in Recorded : log = Read(x).memories
    BY <1>2
  <2>2. log[a] \in Seq(Drafts) /\ log[c] \in Seq(Drafts)
    BY DEF Recorded
  <2>3. IsFiniteSet(Charged(S, b, At(a, e)))
    BY FewCharged, NeverNoTx
  <2>4. Paid(log[a], At(a, e), S, b, e)
    <3>1. CASE x.memories = Torn
      <4>1. log[a] = << >>
        BY <2>1, <3>1 DEF Read, NothingRecorded, Disk
      <4> QED
        BY <2>3, <4>1, PaidNone
    <3>2. CASE x.memories # Torn
      <4>1. log = x.memories
        BY <2>1, <3>2 DEF Read, Disk
      <4> QED
        BY <3>2, <4>1 DEF PaidDisk, PaidLog
    <3> QED
      BY <3>1, <3>2
  <2>5. y.memories[a] = IF a = c THEN Append(log[a], d) ELSE log[a]
    BY <1>1, <2>1 DEF Record, Recorded
  <2>6. CASE a = c
    <3>1. e = d => b[i] \in At(a, e)
      BY <2>6 DEF At
    <3>2. Paid(Append(log[a], d), At(a, e), T, b, e)
      BY <1>3, <2>2, <2>4, <3>1, PaidOneMore
    <3> QED
      BY <2>5, <2>6, <3>2
  <2>7. CASE a # c
    <3>1. Paid(log[a], At(a, e), T, b, e)
      BY <1>3, <2>2, <2>4, PaidMore
    <3> QED
      BY <2>5, <2>7, <3>1
  <2> QED
    BY <2>6, <2>7
<1> HIDE DEF y, s
<1>7. PaidDisk(y, T, b)
  BY <1>1, <1>4, <1>5, <1>6 DEF PaidDisk
<1> QED
  BY <1>7 DEF y

\* A rollback applies nothing.
LEMMA PaidRollback ==
  ASSUME NEW x \in Disk, NEW t \in Targets, NEW b, NEW S, S \subseteq TxIds, Few(b),
         PaidDisk(x, S, b)
  PROVE  PaidDisk(RollbackDisk(x, t), S, b)
<1> DEFINE y == RollbackDisk(x, t)
<1>1. /\ y.state = IF SnapAt(x, t) = NoSnap THEN x.state ELSE SnapAt(x, t).state
      /\ \A a \in Chapters : y.snaps[a] \in {x.snaps[a], NoSnap}
      /\ y.memories = IF x.memories = Torn THEN Torn ELSE UpTo(x.memories, t)
  BY DEF RollbackDisk
<1>2. /\ SnapAt(x, t) # NoSnap =>
           t \in Chapters /\ SnapAt(x, t) = x.snaps[t] /\ x.snaps[t] \in Snapshot
      /\ NoSnap \notin Snapshot
  BY DEF SnapAt, Disk
<1>3. y.state # Torn => PaidState(y.state, S, b)
  BY <1>1, <1>2 DEF PaidDisk
<1>4. \A a \in Chapters : y.snaps[a] \in Snapshot => PaidState(y.snaps[a].state, S, b)
  BY <1>1, <1>2 DEF PaidDisk
<1>5. ASSUME y.memories # Torn, NEW a \in Chapters, NEW e \in Drafts
      PROVE  Paid(y.memories[a], At(a, e), S, b, e)
  <2>1. IsFiniteSet(Charged(S, b, At(a, e)))
    BY FewCharged, NeverNoTx
  <2>2. x.memories # Torn /\ y.memories[a] \in {x.memories[a], << >>}
    BY <1>1, <1>5 DEF UpTo
  <2> QED
    BY <2>1, <2>2, PaidNone DEF PaidDisk, PaidLog
<1> HIDE DEF y
<1>6. PaidDisk(y, S, b)
  BY <1>3, <1>4, <1>5 DEF PaidDisk, PaidLog
<1> QED
  BY <1>6 DEF y

\* Files taken from two directories, or torn.
LEMMA PaidMix ==
  ASSUME NEW x, NEW y, NEW z, NEW S, NEW b, PaidDisk(x, S, b), PaidDisk(y, S, b),
         z.state \in {x.state, y.state, Torn},
         z.memories \in {x.memories, y.memories, Torn},
         \A a \in Chapters : z.snaps[a] \in {x.snaps[a], y.snaps[a], Torn}
  PROVE  PaidDisk(z, S, b)
<1>1. Torn \notin Snapshot
  OBVIOUS
<1> QED
  BY <1>1 DEF PaidDisk

\* An id that is spent stays so, and its BEGIN record is not changed.
LEMMA NextSpent ==
  ASSUME NoUndo, WorkInv, LogsOK, [Next]_vars
  PROVE  \A i \in Spent : i \in Spent' /\ begun'[i] = begun[i]
<1> USE DEF LogsOK
<1>1. /\ begun \in [TxIds -> [chapter : Chapters, draft : Drafts] \cup {NoTx}]
      /\ index \in [TxIds -> {"absent", "COMMITTED", "RECOVERED"}]
      /\ journal \in [TxIds \cup {NoTx} -> SUBSET Phases]
      /\ pc \in CommitSteps => tx.id \in TxIds /\ tx.chapter \in Chapters /\ tx.draft \in Drafts
  BY DEF WorkInv, TypeInv, TypeOK, TxOK, CommitTx
<1>2. CASE \/ Call \/ Prepare \/ FailUnprotected
           \/ (\E f \in Files : Publish(f))
           \/ LogCommit \/ AppendEvent \/ WriteReport \/ WriteManifest \/ Cleanup
           \/ LogRollback \/ Exit
           \/ (\E t \in Targets : BeginRollback(t))
           \/ (\E f \in Files : RollbackFile(f))
           \/ (\E b \in Branches, c \in Targets : BeginFork(b, c))
           \/ (\E f \in Files : ForkFile(f))
  <2>1. /\ begun' = begun /\ index' = index /\ pc # "down"
        /\ pc \in {"publish", "index"} => pc' \in {"publish", "index"} /\ tx' = tx
    <3>1. CASE Call
      BY <3>1 DEF Call, Replay, Already, Answers, Begin, Reject, logs
    <3>2. CASE \/ Prepare \/ FailUnprotected \/ (\E f \in Files : Publish(f))
               \/ LogCommit \/ AppendEvent \/ WriteReport \/ WriteManifest \/ Cleanup
      BY <3>2 DEF Prepare, FailUnprotected, Publish, LogCommit, AppendEvent, WriteReport,
                  WriteManifest, Govern, Cleanup, logs
    <3>3. CASE \/ LogRollback \/ Exit
               \/ (\E t \in Targets : BeginRollback(t))
               \/ (\E f \in Files : RollbackFile(f))
               \/ (\E b \in Branches, c \in Targets : BeginFork(b, c))
               \/ (\E f \in Files : ForkFile(f))
      BY <3>3 DEF LogRollback, Exit, BeginRollback, RollbackFile, BeginFork, ForkFile, logs
    <3> QED
      BY <1>2, <3>1, <3>2, <3>3
  <2> QED
    BY <2>1 DEF Spent
<1>3. CASE LogBegin
  <2>1. /\ pc = "log_begin" /\ index' = index /\ tx.id \in TxIds
        /\ begun' = [begun EXCEPT ![tx.id] = [chapter |-> tx.chapter, draft |-> tx.draft]]
    BY <1>1, <1>3 DEF LogBegin, CommitSteps
  <2>2. \A i \in Spent : i # tx.id /\ i \in TxIds /\ begun[i] # NoTx /\ index[i] # "absent"
    BY <2>1 DEF Spent, LogInv
  <2> QED
    BY <1>1, <2>1, <2>2 DEF Spent
<1>4. CASE SaveIndex
  <2>1. /\ pc = "index" /\ begun' = begun /\ tx.id \in TxIds
        /\ index' = [index EXCEPT ![tx.id] = "COMMITTED"]
    BY <1>1, <1>4 DEF SaveIndex, CommitSteps
  <2>2. \A i \in Spent : i = tx.id \/ index[i] # "absent"
    BY <2>1 DEF Spent
  <2> QED
    BY <1>1, <2>1, <2>2 DEF Spent
<1>5. CASE Crash
  <2>1. pc' = "down" /\ UNCHANGED <<journal, begun, index>>
    BY <1>5 DEF Crash, Stop, logs
  <2>2. pc \in {"publish", "index"} => Logged(tx.id, {"BEGIN"})
    BY DEF CrashLog
  <2> QED
    BY <2>1, <2>2 DEF Spent, Logged
<1>6. CASE Start
  <2>1. ASSUME NEW i \in Spent PROVE i \in Spent' /\ begun'[i] = begun[i]
    <3>1. i \in TxIds /\ begun[i] # NoTx /\ (index[i] # "absent" \/ Logged(i, {"BEGIN"}))
          /\ begun' = begun /\ pc = "down"
      BY <1>6, <2>1 DEF Spent, Start
    <3>2. CASE index[i] # "absent"
      <4>1. index'[i] # "absent"
        BY <1>6, <3>1, <3>2 DEF Start, Recover
      <4> QED
        BY <3>1, <4>1 DEF Spent
    <3>3. CASE index[i] = "absent"
      <4>1. i \in Orphans
        BY <3>1, <3>3 DEF CrashLog, LogInv, Orphans, Logged
      <4>2. Recover
        BY <1>1, <1>6, <4>1 DEF Start, Orphans, Logged
      <4>3. index'[i] = "RECOVERED"
        BY <3>1, <3>3, <4>1, <4>2 DEF Recover
      <4> QED
        BY <3>1, <4>3 DEF Spent
    <3> QED
      BY <3>2, <3>3
  <2> QED
    BY <2>1
<1>7. CASE Fail \/ (\E f \in Files : Undo(f)) \/ LogAbort
  <2>1. ~Fail
    BY DEF Fail, NoUndo, Due, PublishRank, Files
  <2> QED
    BY <1>7, <2>1 DEF Undo, LogAbort, WorkInv
<1>8. CASE UNCHANGED vars
  BY <1>8 DEF vars, Spent, Logged
<1> QED
  BY <1>2, <1>3, <1>4, <1>5, <1>6, <1>7, <1>8 DEF Next, Work

LEMMA InitOnce == Init => OnceInv
<1> SUFFICES ASSUME Init PROVE OnceInv
  OBVIOUS
<1>1. {i \in TxIds : begun[i] # NoTx} = {}
  BY DEF Init
<1>2. Few(begun)
  BY <1>1, FS_EmptySet DEF Few
<1>3. /\ disk.state = << >> /\ disk.memories = NothingRecorded
      /\ \A a \in Chapters : disk.snaps[a] \notin Snapshot
  BY DEF Init, InitDisk
<1>4. PaidDisk(disk, Spent, begun)
  <2>1. Spent \subseteq TxIds
    BY DEF Spent
  <2>2. \A d \in Drafts : /\ IsFiniteSet(Charged(Spent, begun, Of(d)))
                          /\ \A c \in Chapters : IsFiniteSet(Charged(Spent, begun, At(c, d)))
    BY <1>2, <2>1, FewCharged, NeverNoTx
  <2>3. PaidState(<< >>, Spent, begun)
    BY <2>2, PaidNone DEF PaidState
  <2>4. PaidLog(NothingRecorded, Spent, begun)
    BY <2>2, PaidNone DEF PaidLog, NothingRecorded
  <2> QED
    BY <1>3, <2>3, <2>4 DEF PaidDisk
<1> QED
  BY <1>2, <1>4, InitWork, InitLogs DEF OnceInv, Readable, Budget, Init

\* A step writes at most one BEGIN record, and a commit that will be staged read
\* a story state.
LEMMA NextFew ==
  ASSUME WorkInv, Few(begun), Readable, [Next]_vars
  PROVE  Few(begun') /\ Readable'
<1>1. Few(begun')
  <2>1. PICK j : \A i \in TxIds : begun'[i] # NoTx => begun[i] # NoTx \/ i = j
    <3>1. begun \in [TxIds -> [chapter : Chapters, draft : Drafts] \cup {NoTx}]
      BY DEF WorkInv, TypeInv, TypeOK
    <3>2. CASE LogBegin
      <4>1. \A i \in TxIds : begun'[i] # NoTx => begun[i] # NoTx \/ i = tx.id
        BY <3>1, <3>2 DEF LogBegin
      <4> QED
        BY <4>1
    <3>3. CASE LogAbort
      BY <3>3 DEF LogAbort, WorkInv
    <3>4. CASE ~LogBegin /\ ~LogAbort
      <4>1. begun' = begun
        BY <3>4 DEF Next, Work, Call, Replay, Already, Answers, Begin, Reject, Prepare,
           FailUnprotected, Publish, SaveIndex, LogCommit, Undo, AppendEvent, WriteReport,
           WriteManifest, Govern, Cleanup, RollbackFile, LogRollback, ForkFile,
           BeginRollback, BeginFork, Fail, Crash, Exit, Start, logs, vars
      <4> QED
        BY <4>1
    <3> QED
      BY <3>2, <3>3, <3>4
  <2>2. {i \in TxIds : begun'[i] # NoTx} \subseteq {i \in TxIds : begun[i] # NoTx} \cup {j}
    BY <2>1
  <2>3. IsFiniteSet({i \in TxIds : begun[i] # NoTx} \cup {j})
    BY FS_AddElement DEF Few
  <2> QED
    BY <2>2, <2>3, FS_Subset DEF Few
<1>2. Readable'
  <2>1. CASE pc' \in {"log_begin", "backup", "stage"} /\ ~Call
    <3>1. pc \in {"log_begin", "backup", "stage"} /\ disk' = disk
      BY <2>1 DEF Next, Work, LogBegin, Prepare,
         FailUnprotected, Finish, Publish, SaveIndex, LogCommit, Undo, LogAbort, AppendEvent,
         WriteReport, WriteManifest, Govern, Cleanup, RollbackFile, LogRollback, ForkFile,
         BeginRollback, BeginFork, Fail, Crash, Exit, Start, Stop, vars
    <3> QED
      BY <3>1 DEF Readable
  <2>2. CASE Call
    BY <2>2 DEF Call, Replay, Already, Answers, Begin, Accepted, Reject, Readable
  <2> QED
    BY <2>1, <2>2 DEF Readable
<1> QED
  BY <1>1, <1>2

LEMMA NextBudget ==
  ASSUME NoUndo, OnceInv, [Next]_vars
  PROVE  Budget'
<1> USE DEF OnceInv
<1>1. /\ TypeInv /\ TypeInv' /\ disk \in Disk /\ disk' \in Disk
      /\ pc \in {"rollback", "fork"} => tx.after \in Disk /\ tx.before \in Disk
      /\ pc \in CommitSteps => /\ tx.id \in TxIds /\ tx.chapter \in Chapters
                               /\ tx.draft \in Drafts
                               /\ tx.after \in Disk /\ tx.before \in Disk
  BY NextWork DEF WorkInv, TypeInv, TypeOK, TxOK, Transaction, CommitTx
<1>2. Few(begun') /\ Spent' \subseteq TxIds
  BY NextFew DEF Spent
<1>3. ASSUME NEW x \in Disk, PaidDisk(x, Spent, begun)
      PROVE  PaidDisk(x, Spent', begun')
  <2>1. \A i \in Spent : i \in Spent' /\ begun'[i] = begun[i]
    BY NextSpent
  <2> QED
    BY <1>2, <1>3, <2>1, PaidDiskMore
<1>4. PaidDisk(disk, Spent', begun')
  BY <1>1, <1>3 DEF Budget
<1>5. pc \in {"publish", "rollback"} => PaidDisk(tx.after, Spent', begun')
  BY <1>1, <1>3 DEF Budget, CommitSteps
<1>6. CASE disk' = disk /\ (pc' \in {"publish", "rollback"} => pc' = pc /\ tx' = tx)
  BY <1>4, <1>5, <1>6 DEF Budget
<1>7. CASE \/ Call \/ LogBegin \/ FailUnprotected \/ SaveIndex \/ LogCommit
           \/ AppendEvent \/ WriteReport \/ WriteManifest \/ Cleanup \/ LogRollback
           \/ (\E b \in Branches, c \in Targets : BeginFork(b, c)) \/ Exit \/ Start
           \/ UNCHANGED vars
  <2>1. CASE \/ Call \/ UNCHANGED vars
             \/ (\E b \in Branches, c \in Targets : BeginFork(b, c))
    BY <1>6, <2>1 DEF Call, Replay, Already, Answers, Begin, Reject, BeginFork, vars
  <2>2. CASE \/ LogBegin \/ FailUnprotected \/ SaveIndex \/ LogCommit
             \/ AppendEvent \/ WriteReport \/ WriteManifest \/ Cleanup \/ LogRollback
             \/ Exit \/ Start
    BY <1>6, <2>2 DEF LogBegin, FailUnprotected, SaveIndex, LogCommit, AppendEvent,
       WriteReport, WriteManifest, Govern, Cleanup, LogRollback, Exit, Start, Stop, Finish
  <2> QED
    BY <1>7, <2>1, <2>2
<1>8. CASE Prepare
  <2>1. disk' = disk /\ tx' = tx /\ begun' = begun /\ index' = index
    BY <1>8 DEF Prepare, logs
  <2>2. CASE pc = "backup"
    <3>1. pc' = "stage"
      BY <1>8, <2>2 DEF Prepare
    <3> QED
      BY <1>6, <2>1, <3>1
  <2>3. CASE pc = "stage"
    <3>1. /\ disk = tx.before /\ disk.state # Torn
          /\ begun[tx.id] = [chapter |-> tx.chapter, draft |-> tx.draft]
          /\ tx.id \in TxIds /\ tx.chapter \in Chapters /\ tx.draft \in Drafts
          /\ pc' = "publish" /\ index[tx.id] = "absent"
      BY <1>1, <1>8, <2>3 DEF Prepare, WorkInv, Isolation, Readable, LogsOK, LogInv,
                              CrashLog, CommitSteps
    <3>2. tx.id \notin Spent
      BY <2>3, <3>1 DEF Spent
    <3>3. PICK br \in Branches : tx.after = CommitDisk(disk, tx.chapter, tx.draft, br)
      BY <2>3, <3>1 DEF WorkInv, Planned, CommitPlanned
    <3>4. Spent \cup {tx.id} \subseteq TxIds
      BY <3>1 DEF Spent
    <3>5. PaidDisk(tx.after, Spent \cup {tx.id}, begun)
      <4>1. PaidDisk(disk, Spent, begun) /\ Few(begun)
        BY DEF Budget
      <4>2. PaidDisk(CommitDisk(disk, tx.chapter, tx.draft, br), Spent \cup {tx.id}, begun)
        BY <1>1, <3>1, <3>2, <3>4, <4>1, PaidCommit
      <4> QED
        BY <3>3, <4>2
    <3>6. \A i \in Spent \cup {tx.id} : i \in Spent' /\ begun'[i] = begun[i]
      <4>1. begun'[tx.id] # NoTx
        BY <2>1, <3>1
      <4>2. tx.id \in Spent'
        BY <2>1, <3>1, <4>1 DEF Spent
      <4> QED
        BY <2>1, <4>2, NextSpent
    <3>7. PaidDisk(tx.after, Spent', begun')
      <4>1. tx.after \in Disk
        BY <1>1, <2>3 DEF CommitSteps
      <4> QED
        BY <1>2, <3>5, <3>6, <4>1, PaidDiskMore
    <3> QED
      BY <1>4, <2>1, <3>7 DEF Budget
  <2> QED
    BY <1>8, <2>2, <2>3 DEF Prepare
<1>9. ASSUME NEW f \in Files, Publish(f) \/ RollbackFile(f) PROVE Budget'
  <2>1. /\ pc \in {"publish", "rollback"} /\ tx' = tx /\ tx.after \in Disk
        /\ disk' = [disk EXCEPT ![f] = tx.after[f]]
    BY <1>1, <1>9 DEF Publish, RollbackFile, CommitSteps
  <2>2. \A g \in Files : disk'[g] \in {disk[g], tx.after[g]}
    BY <1>1, <2>1, WriteOne
  <2>3. PaidDisk(disk', Spent', begun')
    <3>1. /\ disk'.state \in {disk.state, tx.after.state, Torn}
          /\ disk'.memories \in {disk.memories, tx.after.memories, Torn}
          /\ disk'.snaps \in {disk.snaps, tx.after.snaps}
      BY <2>2 DEF Files
    <3>2. \A a \in Chapters : disk'.snaps[a] \in {disk.snaps[a], tx.after.snaps[a], Torn}
      BY <3>1
    <3>3. PaidDisk(tx.after, Spent', begun')
      BY <1>5, <2>1
    <3> QED
      BY <1>4, <3>1, <3>2, <3>3, PaidMix
  <2> QED
    BY <1>5, <2>1, <2>3 DEF Budget
<1>10. ASSUME NEW t \in Targets, BeginRollback(t) PROVE Budget'
  <2>1. disk' = disk /\ tx'.after = RollbackDisk(disk, t)
    BY <1>10 DEF BeginRollback, Writes
  <2>2. PaidDisk(tx'.after, Spent', begun')
    BY <1>1, <1>2, <1>4, <2>1, PaidRollback
  <2> QED
    BY <1>4, <2>1, <2>2 DEF Budget
<1>11. ASSUME NEW f \in Files, ForkFile(f) PROVE Budget'
  <2>1. /\ f \in {"heads", "meta"} /\ tx.after \in Disk /\ pc' \in {"fork", "idle"}
        /\ disk' = [disk EXCEPT ![f] = tx.after[f]]
    BY <1>1, <1>11 DEF ForkFile, Due, ForkRank, Finish
  <2>2. /\ disk'.state = disk.state /\ disk'.memories = disk.memories
        /\ disk'.snaps = disk.snaps
    BY <1>1, <2>1 DEF Disk
  <2> QED
    BY <1>4, <2>1, <2>2 DEF Budget, PaidDisk
<1>12. CASE Crash
  <2>1. pc' = "down" /\ disk' \in Interrupted /\ pc # "undo"
    BY <1>12 DEF Crash, Stop, WorkInv
  <2>2. ASSUME NEW f \in BeingWritten, disk' = Damaged(disk, f, tx.chapter)
        PROVE  PaidDisk(disk', Spent', begun')
    <3>1. f \in Files /\ tx.chapter \in Chapters
      BY <1>1, <2>1, <2>2 DEF BeingWritten, CommitSteps
    <3>2. /\ disk'.state \in {disk.state, Torn} /\ disk'.memories \in {disk.memories, Torn}
          /\ \A a \in Chapters : disk'.snaps[a] \in {disk.snaps[a], Torn}
      BY <1>1, <2>2, <3>1 DEF Damaged, Disk, Files
    <3> QED
      BY <1>4, <3>2, PaidMix
  <2>3. ASSUME NEW f \in BeingMoved, NEW k \in Chapters, disk' = Moved(f, k)
        PROVE  PaidDisk(disk', Spent', begun')
    <3>1. f \in {"chapters", "snaps"} /\ pc = "rollback"
      BY <2>3 DEF BeingMoved
    <3> DEFINE mixed == [c \in Chapters |-> IF c <= k THEN tx.after[f][c] ELSE disk[f][c]]
    <3>2. \A c \in Chapters : mixed[c] \in {disk[f][c], tx.after[f][c]}
      OBVIOUS
    <3>3. disk' = [disk EXCEPT ![f] = mixed]
      BY <2>3 DEF Moved
    <3> HIDE DEF mixed
    <3>4. /\ disk'.state = disk.state /\ disk'.memories = disk.memories
          /\ \A a \in Chapters : disk'.snaps[a] \in {disk.snaps[a], tx.after.snaps[a]}
      BY <1>1, <3>1, <3>2, <3>3 DEF Disk
    <3> QED
      BY <1>4, <1>5, <3>1, <3>4, PaidMix
  <2>4. PaidDisk(disk', Spent', begun')
    BY <1>4, <2>1, <2>2, <2>3 DEF Interrupted
  <2> QED
    BY <2>1, <2>4 DEF Budget
<1>13. CASE Fail \/ (\E f \in Files : Undo(f)) \/ LogAbort
  <2>1. ~Fail
    BY DEF Fail, NoUndo, Due, PublishRank, Files
  <2> QED
    BY <1>13, <2>1 DEF Undo, LogAbort, WorkInv
<1> QED
  BY <1>7, <1>8, <1>9, <1>10, <1>11, <1>12, <1>13 DEF Next, Work

\* Whoever uses the project, and wherever the process dies, as long as no error
\* makes a commit undo itself: repeating a call with the id of an earlier one
\* applies nothing a second time.
THEOREM IdsAreGoodForOne ==
  ASSUME NoUndo
  PROVE  Spec => []AppliedOncePerId
<1>1. OnceInv => AppliedOncePerId
  <2> SUFFICES ASSUME OnceInv PROVE AppliedOncePerId
    OBVIOUS
  <2>1. disk \in Disk
    BY DEF OnceInv, WorkInv, TypeInv, TypeOK
  <2>2. PaidDisk(disk, TxIds, begun)
    BY <2>1, PaidDiskMore DEF OnceInv, Budget, Spent
  <2> QED
    BY <2>2 DEF PaidDisk, PaidState, PaidLog, Paid, Charged, Begun, Of, At, AppliedOncePerId
<1>2. OnceInv /\ [Next]_vars => OnceInv'
  <2> SUFFICES ASSUME OnceInv, [Next]_vars PROVE OnceInv'
    OBVIOUS
  <2>1. WorkInv' /\ LogsOK'
    BY NextWork, NextCrashLog DEF OnceInv
  <2>2. Few(begun)' /\ Readable'
    BY NextFew DEF OnceInv, Few
  <2> QED
    BY <2>1, <2>2, NextBudget DEF OnceInv
<1> QED
  BY <1>1, <1>2, InitOnce, PTL DEF Spec
=============================================================================
