------------------------- MODULE StoryStoreTheorems -------------------------
(***************************************************************************)
(* What the three operations compute is a project directory again, and one *)
(* without truncated files if they started from one.                       *)
(***************************************************************************)
EXTENDS StoryStore, FiniteSetTheorems, TLAPS

\* The directory init_project writes.
LEMMA InitDiskType == InitDisk \in Disk /\ Untorn(InitDisk)
<1> USE StoreAssumption, TornAssumption
<1>1. << >> \in Seq(Drafts)
  OBVIOUS
<1>2. InitDisk.meta \in MetaFile
  BY DEF InitDisk, MetaFile, Targets
<1>3. NothingRecorded \in Recorded
  BY <1>1 DEF NothingRecorded, Recorded
<1>4. InitDisk.heads \in [Branches -> Targets \cup {NoBranch}]
  BY DEF InitDisk, Targets
<1>5. InitDisk \in Disk
  BY <1>1, <1>2, <1>3, <1>4 DEF InitDisk, Disk
<1>6. Untorn(InitDisk)
  BY <1>1, <1>2, <1>3, <1>4 DEF InitDisk, Untorn
<1> QED
  BY <1>5, <1>6

\* What commit_transaction reads has the shape of what the files hold.
LEMMA ReadType ==
  ASSUME NEW x \in Disk
  PROVE  /\ Read(x).memories \in Recorded
         /\ Read(x).heads \in [Branches -> Targets \cup {NoBranch}]
         /\ Read(x).hybrid \in Recorded
         /\ Read(x).state = x.state
         /\ Read(x).chapters = x.chapters
         /\ Read(x).meta = x.meta
         /\ Read(x).snaps = x.snaps
<1>1. NothingRecorded \in Recorded
  BY DEF NothingRecorded, Recorded
<1>2. [b \in Branches |-> NoBranch] \in [Branches -> Targets \cup {NoBranch}]
  OBVIOUS
<1> QED
  BY <1>1, <1>2 DEF Read, Disk

\* Recording a draft keeps a list of drafts per chapter.
LEMMA RecordType ==
  ASSUME NEW log \in Recorded, NEW c \in Chapters, NEW d \in Drafts
  PROVE  Record(log, c, d) \in Recorded
BY DEF Record, Recorded

\* A commit yields a whole directory wherever the files it overwrites in
\* full were readable or have a default.
LEMMA CommitDiskType ==
  ASSUME NEW x \in Disk, x.state # Torn, x.meta # Torn,
         NEW c \in Chapters, NEW d \in Drafts, NEW b \in Branches
  PROVE  /\ CommitDisk(x, c, d, b) \in Disk
         /\ Untorn(x) => Untorn(CommitDisk(x, c, d, b))
<1> USE StoreAssumption, TornAssumption
<1> DEFINE y == CommitDisk(x, c, d, b)
<1>1. x.state \in Seq(Drafts) /\ x.meta \in MetaFile
  BY DEF Disk
<1>2. y.state \in Seq(Drafts) /\ y.state = Append(x.state, d)
  BY <1>1 DEF CommitDisk
<1>3. y.meta \in MetaFile
  <2>1. Later(x.meta.head, c) \in Targets
    BY <1>1 DEF MetaFile, Targets, Later
  <2>2. [x.meta.counted EXCEPT ![d] = @ + 1] \in [Drafts -> Nat]
    BY <1>1 DEF MetaFile
  <2>3. y.meta = [x.meta EXCEPT !.head = Later(@, c), !.counted[d] = @ + 1,
                                !.latest = d]
    BY DEF CommitDisk
  <2> QED
    BY <1>1, <2>1, <2>2, <2>3 DEF MetaFile
<1>4. y.memories \in Recorded /\ y.hybrid \in Recorded
  BY ReadType, RecordType DEF CommitDisk
<1>5. y.heads \in [Branches -> Targets \cup {NoBranch}]
  BY ReadType DEF CommitDisk, Targets
<1>6. y.chapters \in [Chapters -> Drafts \cup {NoDraft, Torn}]
  BY DEF CommitDisk, Disk
<1>7. y.snaps \in [Chapters -> Snapshot \cup {NoSnap, Torn}]
  <2>1. [state |-> Append(x.state, d), draft |-> d] \in Snapshot
    BY <1>1 DEF Snapshot
  <2>2. y.snaps = [x.snaps EXCEPT ![c] = [state |-> Append(x.state, d), draft |-> d]]
    BY DEF CommitDisk
  <2>3. x.snaps \in [Chapters -> Snapshot \cup {NoSnap, Torn}]
    BY DEF Disk
  <2> QED
    BY <2>1, <2>2, <2>3
<1>8. y \in Disk
  BY <1>2, <1>3, <1>4, <1>5, <1>6, <1>7 DEF CommitDisk, Disk
<1>9. ASSUME Untorn(x) PROVE Untorn(y)
  <2>1. Torn \notin {y.state, y.meta, y.memories, y.heads, y.hybrid}
    BY <1>2, <1>3, <1>4, <1>5
  <2>2. \A a \in Chapters : y.chapters[a] # Torn
    BY <1>9 DEF CommitDisk, Disk, Untorn
  <2>3. [state |-> Append(x.state, d), draft |-> d] # Torn
    <3>1. [state |-> Append(x.state, d), draft |-> d] \in Snapshot
      BY <1>1 DEF Snapshot
    <3> QED
      BY <3>1
  <2>4. \A a \in Chapters : y.snaps[a] # Torn
    BY <1>9, <2>3 DEF CommitDisk, Disk, Untorn
  <2> QED
    BY <2>1, <2>2, <2>4 DEF Untorn
<1> QED
  BY <1>8, <1>9

\* Pruning keeps a list of drafts per chapter.
LEMMA UpToType ==
  ASSUME NEW log \in Recorded, NEW t \in Targets
  PROVE  UpTo(log, t) \in Recorded
<1>1. << >> \in Seq(Drafts)
  OBVIOUS
<1> QED
  BY <1>1 DEF UpTo, Recorded

\* A rollback yields a whole directory whatever the target, and removes
\* truncated files at most.
LEMMA RollbackDiskType ==
  ASSUME NEW x \in Disk, x.meta # Torn, NEW t \in Targets
  PROVE  /\ RollbackDisk(x, t) \in Disk
         /\ Untorn(x) => Untorn(RollbackDisk(x, t))
<1> USE StoreAssumption, TornAssumption
<1> DEFINE y == RollbackDisk(x, t)
<1>1. x.meta \in MetaFile
  BY DEF Disk
<1>2. SnapAt(x, t) \in Snapshot \cup {NoSnap}
  BY DEF SnapAt, Disk
<1>3. /\ y.state \in Seq(Drafts) \cup {Torn}
      /\ x.state # Torn => y.state \in Seq(Drafts)
  BY <1>2 DEF RollbackDisk, Disk, Snapshot
<1>4. /\ y.chapters \in [Chapters -> Drafts \cup {NoDraft, Torn}]
      /\ \A c \in Chapters : y.chapters[c] \in {x.chapters[c], NoDraft}
  BY DEF RollbackDisk, Disk
<1>5. y.meta \in MetaFile
  <2>1. [d \in Drafts |-> Cardinality({c \in {a \in Chapters : a <= t} :
                                          x.chapters[c] = d})] \in [Drafts -> Nat]
    <3>1. \A d \in Drafts :
            Cardinality({c \in {a \in Chapters : a <= t} : x.chapters[c] = d}) \in Nat
      BY FS_Subset, FS_CardinalityType
    <3> QED
      BY <3>1
  <2>2. LatestAt(x, t) \in Drafts \cup {NoDraft}
    BY <1>1, <1>2 DEF LatestAt, MetaFile, Snapshot
  <2>3. y.meta = [x.meta EXCEPT
                    !.head = t,
                    !.counted = [d \in Drafts |->
                      Cardinality({c \in {a \in Chapters : a <= t} : x.chapters[c] = d})],
                    !.latest = LatestAt(x, t)]
    BY DEF RollbackDisk, Recounted
  <2> QED
    BY <1>1, <2>1, <2>2, <2>3 DEF MetaFile
<1>6. /\ y.memories \in Recorded \cup {Torn}
      /\ x.memories # Torn => y.memories \in Recorded
  BY UpToType DEF RollbackDisk, Disk
<1>7. /\ y.heads \in [Branches -> Targets \cup {NoBranch}] \cup {Torn}
      /\ x.heads # Torn => y.heads \in [Branches -> Targets \cup {NoBranch}]
  BY DEF RollbackDisk, Disk
<1>8. /\ y.snaps \in [Chapters -> Snapshot \cup {NoSnap, Torn}]
      /\ \A c \in Chapters : y.snaps[c] \in {x.snaps[c], NoSnap}
  BY DEF RollbackDisk, Disk
<1>9. y.hybrid \in Recorded
  BY ReadType, UpToType DEF RollbackDisk
<1>10. y \in Disk
  BY <1>3, <1>4, <1>5, <1>6, <1>7, <1>8, <1>9 DEF RollbackDisk, Disk
<1>11. ASSUME Untorn(x) PROVE Untorn(y)
  <2>1. Torn \notin {y.state, y.meta, y.memories, y.heads, y.hybrid}
    BY <1>3, <1>5, <1>6, <1>7, <1>9, <1>11 DEF Untorn
  <2>2. NoDraft # Torn /\ NoSnap # Torn
    OBVIOUS
  <2>3. \A c \in Chapters : y.chapters[c] # Torn /\ y.snaps[c] # Torn
    BY <1>4, <1>8, <1>11, <2>2 DEF Untorn
  <2> QED
    BY <2>1, <2>3 DEF Untorn
<1> QED
  BY <1>10, <1>11

\* A fork yields a whole directory; it writes two files only.
LEMMA ForkDiskType ==
  ASSUME NEW x \in Disk, ~(x.heads = Torn /\ x.meta = Torn),
         NEW b \in Branches, NEW c \in Targets
  PROVE  /\ ForkDisk(x, b, c) \in Disk
         /\ Untorn(x) => Untorn(ForkDisk(x, b, c))
         /\ \A f \in Files \ {"heads", "meta"} : ForkDisk(x, b, c)[f] = x[f]
<1> USE StoreAssumption, TornAssumption
<1> DEFINE y == ForkDisk(x, b, c)
<1>1. y.heads \in [Branches -> Targets \cup {NoBranch}]
  BY DEF ForkDisk, Disk, MetaFile
<1>2. /\ y.meta \in MetaFile \cup {Torn}
      /\ x.meta # Torn => y.meta \in MetaFile
  <2>1. y.meta = IF x.meta = Torn THEN Torn
                 ELSE [x.meta EXCEPT !.branches = @ \cup {b}]
    BY DEF ForkDisk, Disk
  <2>2. CASE x.meta = Torn
    BY <2>1, <2>2
  <2>3. CASE x.meta # Torn
    <3>1. x.meta \in MetaFile
      BY <2>3 DEF Disk
    <3> QED
      BY <2>1, <2>3, <3>1 DEF MetaFile
  <2> QED
    BY <2>2, <2>3
<1>3. /\ y.state = x.state /\ y.chapters = x.chapters /\ y.memories = x.memories
      /\ y.snaps = x.snaps /\ y.hybrid = x.hybrid
  BY DEF ForkDisk, Disk
<1>4. y \in Disk
  BY <1>1, <1>2, <1>3 DEF ForkDisk, Disk
<1>5. Untorn(x) => Untorn(y)
  BY <1>1, <1>2, <1>3 DEF Untorn
<1>6. \A f \in Files \ {"heads", "meta"} : y[f] = x[f]
  BY <1>3 DEF Files
<1> QED
  BY <1>4, <1>5, <1>6
=============================================================================
