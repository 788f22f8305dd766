-------------------------- MODULE AtomicStoryProofs --------------------------
(***************************************************************************)
(* The promise of the transaction manager: the directory is always whole,  *)
(* and on a project that only write-next and the daemon use, the state,    *)
(* the chapters, the snapshots, the two memories, the counters and the     *)
(* branch heads all tell the same history.                                 *)
(***************************************************************************)
EXTENDS AtomicStory, StoryStoreTheorems

USE StoreAssumption, TornAssumption

LEMMA InitTypeOK == Init => TypeOK
BY InitDiskType DEF Init, TypeOK

LEMMA NextTypeOK == TypeOK /\ [Next]_story => TypeOK'
<1> SUFFICES ASSUME TypeOK, [Next]_story PROVE TypeOK'
  OBVIOUS
<1> USE DEF TypeOK
<1>0. story.state # Torn /\ story.meta # Torn
  BY DEF Untorn
<1>1. ASSUME NEW c \in Chapters, NEW d \in Drafts, NEW b \in Branches, Commit(c, d, b)
      PROVE  TypeOK'
  BY <1>0, <1>1, CommitDiskType DEF Commit
<1>2. ASSUME NEW t \in Targets, Rollback(t) PROVE TypeOK'
  BY <1>0, <1>2, RollbackDiskType DEF Rollback
<1>3. ASSUME NEW b \in Branches, NEW c \in Targets, Fork(b, c) PROVE TypeOK'
  BY <1>0, <1>3, ForkDiskType DEF Fork
<1>4. CASE UNCHANGED story
  BY <1>4
<1> QED
  BY <1>1, <1>2, <1>3, <1>4 DEF Next

\* Whatever chapters, branches and rollback targets the callers ask for, each
\* file stays of its kind and none is ever truncated.
THEOREM TypeCorrect == Spec => []TypeOK
BY InitTypeOK, NextTypeOK, PTL DEF Spec

-----------------------------------------------------------------------------
\* The serial discipline.
History == TypeOK /\ StateIsHistory /\ SnapshotsAreHistory /\ BooksBalance

LEMMA InitHistory == Init => History
<1> SUFFICES ASSUME Init PROVE History
  OBVIOUS
<1>1. TypeOK
  BY InitTypeOK
<1>2. /\ story.state = << >> /\ story.meta.head = 0 /\ story.meta.latest = NoDraft
      /\ story.meta \in MetaFile
      /\ story.chapters = [c \in Chapters |-> NoDraft]
      /\ story.meta.counted = [d \in Drafts |-> 0]
      /\ story.memories = NothingRecorded /\ story.hybrid = NothingRecorded
      /\ story.heads = [b \in Branches |-> IF b = Main THEN 0 ELSE NoBranch]
      /\ story.snaps = [c \in Chapters |-> NoSnap]
  BY DEF Init, InitDisk, MetaFile, Targets
<1>3. StateIsHistory
  BY <1>2 DEF StateIsHistory, head
<1>4. SnapshotsAreHistory
  BY <1>2 DEF SnapshotsAreHistory, head
<1>5. \A d \in Drafts : Cardinality({c \in Chapters : story.chapters[c] = d}) = 0
  <2> SUFFICES ASSUME NEW d \in Drafts
               PROVE  Cardinality({c \in Chapters : story.chapters[c] = d}) = 0
    OBVIOUS
  <2>1. {c \in Chapters : story.chapters[c] = d} = {}
    BY <1>2
  <2> QED
    BY <2>1, FS_EmptySet
<1>6. BooksBalance
  BY <1>2, <1>5 DEF BooksBalance, head, NothingRecorded
<1> QED
  BY <1>1, <1>3, <1>4, <1>6 DEF History

\* A commit of chapter head + 1 on the main branch.
LEMMA CommitHistory ==
  ASSUME Serial, History, NEW c \in Chapters, NEW d \in Drafts, NEW b \in Branches,
         Commit(c, d, b)
  PROVE  StateIsHistory' /\ SnapshotsAreHistory' /\ BooksBalance'
<1> DEFINE h == story.meta.head
<1>1. /\ story \in Disk /\ story.meta \in MetaFile /\ story.state \in Seq(Drafts)
      /\ story.memories \in Recorded /\ story.hybrid \in Recorded
      /\ story.heads \in [Branches -> Targets \cup {NoBranch}]
      /\ Read(story) = story
  BY DEF History, TypeOK, Untorn, Disk, Read
<1>2. h \in Nat /\ c = h + 1 /\ b = Main /\ c = head + 1
  BY <1>1 DEF Commit, Asked, head, MetaFile, Targets
<1>3. /\ story'.state = Append(story.state, d)
      /\ story'.chapters = [story.chapters EXCEPT ![c] = d]
      /\ story'.meta = [story.meta EXCEPT !.head = Later(@, c), !.counted[d] = @ + 1,
                                          !.latest = d]
      /\ story'.memories = Record(story.memories, c, d)
      /\ story'.hybrid = Record(story.hybrid, c, d)
      /\ story'.snaps = [story.snaps EXCEPT ![c] =
                           [state |-> Append(story.state, d), draft |-> d]]
  BY <1>1 DEF Commit, CommitDisk
<1>4. story'.heads = [story.heads EXCEPT ![Main] = c]
  <2>1. story.heads[Main] # NoBranch
    BY <1>1, <1>2 DEF History, BooksBalance, head
  <2> QED
    BY <1>1, <1>2, <2>1 DEF Commit, CommitDisk
<1>5. /\ story'.meta.head = c /\ story'.meta.latest = d
      /\ story'.meta.counted = [story.meta.counted EXCEPT ![d] = @ + 1]
      /\ story'.meta \in MetaFile
  <2>1. Later(h, c) = c
    BY <1>2 DEF Later
  <2>2. [story.meta.counted EXCEPT ![d] = @ + 1] \in [Drafts -> Nat]
    BY <1>1 DEF MetaFile
  <2>3. story'.meta = [story.meta EXCEPT !.head = c,
                         !.counted = [story.meta.counted EXCEPT ![d] = @ + 1],
                         !.latest = d]
    BY <1>1, <1>3, <2>1 DEF MetaFile
  <2> QED
    BY <1>1, <2>2, <2>3 DEF MetaFile, Targets
<1>6. StateIsHistory'
  BY <1>1, <1>2, <1>3, <1>5 DEF History, StateIsHistory, head, Disk
<1>7. SnapshotsAreHistory'
  <2>1. [state |-> Append(story.state, d), draft |-> d] \in Snapshot
    BY <1>1 DEF Snapshot
  <2>2. \A a \in Chapters \ {c} : story'.snaps[a] = story.snaps[a]
    BY <1>1, <1>3 DEF Disk
  <2>3. story'.snaps[c] = [state |-> Append(story.state, d), draft |-> d]
    BY <1>1, <1>3 DEF Disk
  <2>4. ASSUME NEW a \in Chapters, a < c
        PROVE  /\ story'.snaps[a] \in Snapshot
               /\ story'.snaps[a].draft = story'.chapters[a]
               /\ Len(story'.snaps[a].state) = a
               /\ \A k \in 1..a : story'.snaps[a].state[k] = story'.chapters[k]
    <3>1. a <= h /\ 1..a \subseteq Chapters /\ a # c /\ c \notin 1..a
      <4>1. a \in Nat /\ c \in Nat
        OBVIOUS
      <4>2. a <= h /\ a # c /\ c \notin 1..a
        BY <1>2, <2>4, <4>1
      <4>3. 1..h \subseteq Chapters
        BY DEF History, StateIsHistory, head
      <4> QED
        BY <1>2, <4>1, <4>2, <4>3
    <3>2. \A k \in 1..a : story'.chapters[k] = story.chapters[k]
      BY <1>1, <1>3, <3>1 DEF Disk
    <3>3. story'.chapters[a] = story.chapters[a]
      BY <1>1, <1>3, <3>1 DEF Disk
    <3> QED
      BY <2>2, <3>1, <3>2, <3>3 DEF History, SnapshotsAreHistory, head
  <2>5. /\ story'.snaps[c].draft = story'.chapters[c]
        /\ Len(story'.snaps[c].state) = c
        /\ \A k \in 1..c : story'.snaps[c].state[k] = story'.chapters[k]
    BY <1>1, <1>2, <1>3, <2>3 DEF History, StateIsHistory, head, Disk
  <2>6. ASSUME NEW a \in Chapters, a > c PROVE story'.snaps[a] = NoSnap
    BY <1>2, <2>2, <2>6 DEF History, SnapshotsAreHistory, head
  <2>7. story'.snaps[c] \in Snapshot
    BY <2>1, <2>3
  <2>8. ASSUME NEW a \in Chapters
        PROVE  IF a <= c THEN /\ story'.snaps[a] \in Snapshot
                              /\ story'.snaps[a].draft = story'.chapters[a]
                              /\ Len(story'.snaps[a].state) = a
                              /\ \A k \in 1..a : story'.snaps[a].state[k] = story'.chapters[k]
               ELSE story'.snaps[a] = NoSnap
    <3>1. a < c \/ a = c \/ a > c
      OBVIOUS
    <3>2. CASE a < c
      <4>1. a <= c
        BY <3>2
      <4> QED
        BY <2>4, <3>2, <4>1, Zenon
    <3>3. CASE a = c
      BY <2>5, <2>7, <3>3
    <3>4. CASE a > c
      <4>1. ~(a <= c)
        BY <3>4
      <4> QED
        BY <2>6, <3>4, <4>1, Zenon
    <3> QED
      BY <3>1, <3>2, <3>3, <3>4, Zenon
  <2> QED
    BY <1>5, <2>8, Zenon DEF SnapshotsAreHistory, head
<1>8. BooksBalance'
  <2>1. \A a \in Chapters :
          /\ story'.memories[a] = IF a <= c THEN <<story'.chapters[a]>> ELSE << >>
          /\ story'.hybrid[a] = story'.memories[a]
    <3> SUFFICES ASSUME NEW a \in Chapters
                 PROVE  /\ story'.memories[a] = IF a <= c THEN <<story'.chapters[a]>> ELSE << >>
                        /\ story'.hybrid[a] = story'.memories[a]
      OBVIOUS
    <3>1. /\ story.memories[a] = IF a <= h THEN <<story.chapters[a]>> ELSE << >>
          /\ story.hybrid[a] = story.memories[a]
      BY DEF History, BooksBalance, head
    <3>2. CASE a = c
      <4>1. story.memories[c] = << >> /\ story.hybrid[c] = << >>
        BY <1>2, <3>1, <3>2
      <4>2. /\ story'.memories[c] = Append(<< >>, d)
            /\ story'.hybrid[c] = Append(<< >>, d)
        BY <1>1, <1>3, <4>1 DEF Record, Recorded
      <4>3. story'.chapters[c] = d
        BY <1>1, <1>3 DEF Disk
      <4> QED
        BY <1>2, <3>2, <4>2, <4>3
    <3>3. CASE a # c
      <4>1. story'.memories[a] = story.memories[a] /\ story'.hybrid[a] = story.hybrid[a]
        BY <1>1, <1>3, <3>3 DEF Record, Recorded
      <4>2. story'.chapters[a] = story.chapters[a]
        BY <1>1, <1>3, <3>3 DEF Disk
      <4>3. (a <= c) <=> (a <= h)
        BY <1>2, <3>3
      <4> QED
        BY <3>1, <4>1, <4>2, <4>3
    <3> QED
      BY <3>2, <3>3
  <2>2. ASSUME NEW e \in Drafts
        PROVE  story'.meta.counted[e] = Cardinality({a \in Chapters : story'.chapters[a] = e})
    <3> DEFINE old == {a \in Chapters : story.chapters[a] = e}
               new == {a \in Chapters : story'.chapters[a] = e}
    <3>1. story.chapters[c] = NoDraft
      BY <1>2 DEF History, StateIsHistory, head
    <3>2. story.meta.counted[e] = Cardinality(old)
      BY DEF History, BooksBalance
    <3>3. IsFiniteSet(old) /\ c \notin old
      BY <3>1, FS_Subset
    <3>4. CASE e = d
      <4>1. new = old \cup {c}
        BY <1>1, <1>3, <3>1, <3>4 DEF Disk
      <4>2. Cardinality(new) = Cardinality(old) + 1
        BY <3>3, <4>1, FS_AddElement
      <4> QED
        BY <1>1, <1>5, <3>2, <3>4, <4>2 DEF MetaFile
    <3>5. CASE e # d
      <4>1. new = old
        BY <1>1, <1>3, <3>1, <3>5 DEF Disk
      <4> QED
        BY <1>1, <1>5, <3>2, <3>5, <4>1 DEF MetaFile
    <3> QED
      BY <3>4, <3>5
  <2>3. story'.meta.latest = story'.chapters[c] /\ c # 0
    BY <1>1, <1>3, <1>5 DEF Disk
  <2>4. /\ story'.heads[Main] = c
        /\ \A a \in Branches : story'.heads[a] # NoBranch => story'.heads[a] <= c
    <3>1. story'.heads[Main] = c
      BY <1>1, <1>4
    <3>2. ASSUME NEW a \in Branches, story'.heads[a] # NoBranch
          PROVE  story'.heads[a] <= c
      <4>1. CASE a = Main
        BY <1>2, <3>1, <4>1
      <4>2. CASE a # Main
        <5>1. story'.heads[a] = story.heads[a]
          BY <1>1, <1>4, <4>2
        <5>2. story.heads[a] <= h
          BY <3>2, <5>1 DEF History, BooksBalance, head
        <5>3. story.heads[a] \in Nat
          <6>1. story.heads[a] \in Targets \cup {NoBranch}
            BY <1>1
          <6>2. Targets \subseteq Nat
            BY DEF Targets
          <6>3. story.heads[a] # NoBranch
            BY <3>2, <5>1
          <6> QED
            BY <6>1, <6>2, <6>3
        <5> QED
          <6>1. story'.heads[a] \in Nat /\ story'.heads[a] <= h
            BY <5>1, <5>2, <5>3
          <6> HIDE DEF h
          <6> QED
            BY <1>2, <6>1
      <4> QED
        BY <4>1, <4>2
    <3> QED
      BY <3>1, <3>2
  <2> QED
    BY <1>5, <2>1, <2>2, <2>3, <2>4 DEF BooksBalance, head
<1> QED
  BY <1>6, <1>7, <1>8

\* The scan of a rollback reaches every chapter above the target when there is
\* no gap, and nothing else.
LEMMA ScannedAll ==
  ASSUME NEW present \in SUBSET Chapters, NEW h \in Nat, NEW t \in Nat,
         1..h \subseteq present, \A c \in present : c <= h
  PROVE  \A c \in Chapters : c \in Scanned(present, t) <=> c \in present /\ c > t
<1>1. ASSUME NEW c \in present, c > t, NEW g \in (t + ScanWindow + 1)..(c - 1)
      PROVE  g \in present
  <2>1. c \in Nat /\ c <= h
    OBVIOUS
  <2>2. g \in 1..h
    BY <1>1, <2>1
  <2> QED
    BY <2>2
<1> QED
  BY <1>1 DEF Scanned

\* A rollback to a chapter that exists.
LEMMA RollbackHistory ==
  ASSUME Serial, History, NEW t \in Targets, Rollback(t)
  PROVE  StateIsHistory' /\ SnapshotsAreHistory' /\ BooksBalance'
<1> DEFINE h == story.meta.head
<1>1. /\ story \in Disk /\ story.meta \in MetaFile /\ story.state \in Seq(Drafts)
      /\ story.memories \in Recorded /\ story.hybrid \in Recorded
      /\ story.heads \in [Branches -> Targets \cup {NoBranch}]
      /\ Read(story) = story
  BY DEF History, TypeOK, Untorn, Disk, Read
<1>2. /\ h \in Nat /\ t \in Chapters /\ t \in Nat /\ t # 0 /\ t <= h /\ 1..h \subseteq Chapters
      /\ \A c \in Chapters : c \in Nat
  BY <1>1 DEF Rollback, RollbackAsked, MetaFile, Targets, History, StateIsHistory, head
<1>3. SnapAt(story, t) = story.snaps[t] /\ story.snaps[t] \in Snapshot
  BY <1>2 DEF SnapAt, History, SnapshotsAreHistory, head
<1>4. /\ story'.state = story.snaps[t].state
      /\ story'.chapters = [c \in Chapters |-> IF c > t THEN NoDraft ELSE story.chapters[c]]
      /\ story'.snaps = [c \in Chapters |-> IF c > t THEN NoSnap ELSE story.snaps[c]]
      /\ story'.memories = UpTo(story.memories, t)
      /\ story'.hybrid = UpTo(story.hybrid, t)
      /\ story'.heads = [b \in Branches |->
                           IF story.heads[b] # NoBranch /\ story.heads[b] > t
                           THEN t ELSE story.heads[b]]
  <2> DEFINE there == {c \in Chapters : story.chapters[c] # NoDraft}
             saved == {c \in Chapters : story.snaps[c] # NoSnap}
  <2>1. there = {c \in Chapters : c <= h}
    BY DEF History, StateIsHistory, head
  <2>2. saved = {c \in Chapters : c <= h}
    BY DEF History, SnapshotsAreHistory, head
  <2>3. 1..h \subseteq {c \in Chapters : c <= h}
    BY <1>2
  <2>4. \A c \in Chapters : /\ c \in Scanned(there, t) <=> c \in there /\ c > t
                            /\ c \in Scanned(saved, t) <=> c \in saved /\ c > t
    <3>1. \A c \in there \cup saved : c <= h
      BY <2>1, <2>2
    <3>2. there \in SUBSET Chapters /\ saved \in SUBSET Chapters
      BY <2>1, <2>2
    <3>3. 1..h \subseteq there /\ 1..h \subseteq saved
      BY <2>1, <2>2, <2>3
    <3>4. h \in Nat /\ t \in Nat
      BY <1>2
    <3> HIDE DEF there, saved, h
    <3>5. \A c \in Chapters : c \in Scanned(there, t) <=> c \in there /\ c > t
      BY <3>1, <3>2, <3>3, <3>4, ScannedAll
    <3>6. \A c \in Chapters : c \in Scanned(saved, t) <=> c \in saved /\ c > t
      BY <3>1, <3>2, <3>3, <3>4, ScannedAll
    <3> QED
      BY <3>5, <3>6
  <2>5. story'.state = story.snaps[t].state
    BY <1>3 DEF Rollback, RollbackDisk
  <2>6. story'.chapters = [c \in Chapters |->
                             IF c \in Scanned(there, t) THEN NoDraft ELSE story.chapters[c]]
    BY DEF Rollback, RollbackDisk
  <2>7. story'.snaps = [c \in Chapters |->
                          IF c \in Scanned(saved, t) THEN NoSnap ELSE story.snaps[c]]
    BY DEF Rollback, RollbackDisk
  <2>8. story'.chapters = [c \in Chapters |-> IF c > t THEN NoDraft ELSE story.chapters[c]]
    BY <2>4, <2>6
  <2>9. story'.snaps = [c \in Chapters |-> IF c > t THEN NoSnap ELSE story.snaps[c]]
    BY <2>4, <2>7
  <2>10. /\ story'.memories = UpTo(story.memories, t)
         /\ story'.hybrid = UpTo(story.hybrid, t)
         /\ story'.heads = [b \in Branches |->
                              IF story.heads[b] # NoBranch /\ story.heads[b] > t
                              THEN t ELSE story.heads[b]]
    BY <1>1 DEF Rollback, RollbackDisk, History, TypeOK, Untorn
  <2> QED
    BY <2>5, <2>8, <2>9, <2>10
<1>5. /\ story'.meta.head = t
      /\ story'.meta.latest = story.snaps[t].draft
      /\ story'.meta.counted = [d \in Drafts |->
            Cardinality({c \in {a \in Chapters : a <= t} : story.chapters[c] = d})]
  <2>1. LatestAt(story, t) = story.snaps[t].draft
    BY <1>2, <1>3 DEF LatestAt
  <2> QED
    BY <1>1, <2>1 DEF Rollback, RollbackDisk, Recounted, MetaFile
<1>6. /\ story.snaps[t].draft = story.chapters[t]
      /\ Len(story.snaps[t].state) = t
      /\ \A k \in 1..t : story.snaps[t].state[k] = story.chapters[k]
  BY <1>2 DEF History, SnapshotsAreHistory, head
<1>7. \A c \in Chapters : c <= t => /\ story'.chapters[c] = story.chapters[c]
                                   /\ story'.snaps[c] = story.snaps[c]
                                   /\ c <= h
  <2> SUFFICES ASSUME NEW c \in Chapters, c <= t
               PROVE  /\ story'.chapters[c] = story.chapters[c]
                      /\ story'.snaps[c] = story.snaps[c]
                      /\ c <= h
    OBVIOUS
  <2>1. ~(c > t)
    BY <1>2
  <2>2. c <= h
    <3> HIDE DEF h
    <3> QED
      BY <1>2
  <2> QED
    BY <1>4, <2>1, <2>2
<1>8. \A c \in Chapters : ~(c <= t) => story'.chapters[c] = NoDraft /\ story'.snaps[c] = NoSnap
  BY <1>2, <1>4
<1>9. 1..t \subseteq Chapters
  BY <1>2
<1>10. StateIsHistory'
  <2>1. story'.meta # Torn
    BY NextTypeOK DEF History, TypeOK, Untorn, Next
  <2>2. \A c \in Chapters : c <= t => story'.chapters[c] \in Drafts
    BY <1>7 DEF History, StateIsHistory, head
  <2>3. Len(story'.state) = t /\ \A k \in 1..t : story'.state[k] = story'.chapters[k]
    BY <1>2, <1>4, <1>6, <1>7, <1>9
  <2> QED
    BY <1>5, <1>8, <1>9, <2>1, <2>2, <2>3 DEF StateIsHistory, head
<1>11. SnapshotsAreHistory'
  <2>1. ASSUME NEW c \in Chapters, c <= t
        PROVE  /\ story'.snaps[c] \in Snapshot
               /\ story'.snaps[c].draft = story'.chapters[c]
               /\ Len(story'.snaps[c].state) = c
               /\ \A k \in 1..c : story'.snaps[c].state[k] = story'.chapters[k]
    <3>1. c <= h /\ story'.snaps[c] = story.snaps[c] /\ story'.chapters[c] = story.chapters[c]
      BY <1>7, <2>1
    <3>2. \A k \in 1..c : k \in Chapters /\ k <= t
      BY <1>2, <1>9, <2>1
    <3>3. \A k \in 1..c : story'.chapters[k] = story.chapters[k]
      BY <1>7, <3>2
    <3>4. /\ story.snaps[c] \in Snapshot
          /\ story.snaps[c].draft = story.chapters[c]
          /\ Len(story.snaps[c].state) = c
          /\ \A k \in 1..c : story.snaps[c].state[k] = story.chapters[k]
      BY <3>1 DEF History, SnapshotsAreHistory, head
    <3> QED
      BY <3>1, <3>3, <3>4
  <2>2. ASSUME NEW c \in Chapters
        PROVE  IF c <= t THEN /\ story'.snaps[c] \in Snapshot
                              /\ story'.snaps[c].draft = story'.chapters[c]
                              /\ Len(story'.snaps[c].state) = c
                              /\ \A k \in 1..c : story'.snaps[c].state[k] = story'.chapters[k]
               ELSE story'.snaps[c] = NoSnap
    <3>1. CASE c <= t
      BY <2>1, <3>1, Zenon
    <3>2. CASE ~(c <= t)
      BY <1>8, <3>2, Zenon
    <3> QED
      BY <3>1, <3>2, Zenon
  <2>3. story'.meta.head = t
    BY <1>5
  <2> QED
    BY <2>2, <2>3, Zenon DEF SnapshotsAreHistory, head
<1>12. BooksBalance'
  <2>1. \A c \in Chapters :
          /\ story'.memories[c] = IF c <= t THEN <<story'.chapters[c]>> ELSE << >>
          /\ story'.hybrid[c] = story'.memories[c]
    <3> SUFFICES ASSUME NEW c \in Chapters
                 PROVE  /\ story'.memories[c] = IF c <= t THEN <<story'.chapters[c]>> ELSE << >>
                        /\ story'.hybrid[c] = story'.memories[c]
      OBVIOUS
    <3>1. /\ story'.memories[c] = IF c <= t THEN story.memories[c] ELSE << >>
          /\ story'.hybrid[c] = IF c <= t THEN story.hybrid[c] ELSE << >>
      BY <1>4 DEF UpTo
    <3>2. CASE c <= t
      <4>1. story'.chapters[c] = story.chapters[c] /\ c <= h
        BY <1>7, <3>2
      <4>2. /\ story.memories[c] = <<story.chapters[c]>>
            /\ story.hybrid[c] = story.memories[c]
        BY <4>1 DEF History, BooksBalance, head
      <4> QED
        BY <3>1, <3>2, <4>1, <4>2
    <3>3. CASE ~(c <= t)
      BY <3>1, <3>3
    <3> QED
      BY <3>2, <3>3
  <2>2. ASSUME NEW d \in Drafts
        PROVE  story'.meta.counted[d] = Cardinality({c \in Chapters : story'.chapters[c] = d})
    <3>1. {c \in {a \in Chapters : a <= t} : story.chapters[c] = d}
            = {c \in Chapters : story'.chapters[c] = d}
      BY <1>7, <1>8
    <3> QED
      BY <1>5, <3>1
  <2>3. story'.meta.latest = story'.chapters[t]
    BY <1>2, <1>5, <1>6, <1>7
  <2>4. story'.heads[Main] = t
    <3>1. story.heads[Main] = h /\ h # NoBranch
      BY <1>2 DEF History, BooksBalance, head
    <3> QED
      BY <1>2, <1>4, <3>1
  <2>5. ASSUME NEW b \in Branches, story'.heads[b] # NoBranch PROVE story'.heads[b] <= t
    <3>1. story.heads[b] \in Nat \cup {NoBranch}
      BY <1>1, <1>2 DEF Targets
    <3> QED
      BY <1>2, <1>4, <2>5, <3>1
  <2> QED
    BY <1>2, <1>5, <2>1, <2>2, <2>3, <2>4, <2>5 DEF BooksBalance, head
<1> QED
  BY <1>10, <1>11, <1>12

\* A fork from a chapter that exists.
LEMMA ForkHistory ==
  ASSUME Serial, History, NEW b \in Branches, NEW c \in Targets, Fork(b, c)
  PROVE  StateIsHistory' /\ SnapshotsAreHistory' /\ BooksBalance'
<1>1. /\ story \in Disk /\ story.meta \in MetaFile
      /\ story.heads \in [Branches -> Targets \cup {NoBranch}]
      /\ story.meta # Torn /\ story.heads # Torn
  BY DEF History, TypeOK, Untorn, Disk
<1>2. /\ story'.state = story.state /\ story'.chapters = story.chapters
      /\ story'.memories = story.memories /\ story'.snaps = story.snaps
      /\ story'.hybrid = story.hybrid
      /\ story'.heads = [story.heads EXCEPT ![b] = c]
      /\ story'.meta = [story.meta EXCEPT !.branches = @ \cup {b}]
  BY <1>1 DEF Fork, ForkDisk, Disk
<1>3. /\ story'.meta.head = head /\ story'.meta.counted = story.meta.counted
      /\ story'.meta.latest = story.meta.latest
  BY <1>1, <1>2 DEF MetaFile, head
<1>4. b # Main /\ c <= head
  BY DEF Fork, Forkable, ForkAsked, head
<1>5. story'.meta # Torn
  BY NextTypeOK DEF History, TypeOK, Untorn, Next
<1>6. /\ story'.heads[Main] = head
      /\ \A a \in Branches : story'.heads[a] # NoBranch => story'.heads[a] <= head
  BY <1>1, <1>2, <1>4 DEF History, BooksBalance
<1> QED
  BY <1>2, <1>3, <1>5, <1>6
     DEF History, StateIsHistory, SnapshotsAreHistory, BooksBalance, head

LEMMA NextHistory == Serial /\ History /\ [Next]_story => History'
<1> SUFFICES ASSUME Serial, History, [Next]_story PROVE History'
  OBVIOUS
<1>1. TypeOK'
  BY NextTypeOK DEF History
<1>2. CASE UNCHANGED story
  BY <1>2 DEF History, TypeOK, StateIsHistory, SnapshotsAreHistory, BooksBalance, head, Untorn
<1> QED
  BY <1>1, <1>2, CommitHistory, RollbackHistory, ForkHistory DEF Next, History

\* On a project that only write-next and the daemon use, the story state is the
\* deltas of chapters 1..head in order, for any number of chapters, drafts and
\* branches, and through any sequence of commits, rollbacks and forks.
THEOREM StoryIsItsHistory == ASSUME Serial PROVE Spec => []StateIsHistory
<1>1. History => StateIsHistory
  BY DEF History
<1> QED
  BY <1>1, InitHistory, NextHistory, PTL DEF Spec

\* On such a project every chapter up to the head can be rolled back to exactly.
THEOREM RollbackIsExact == ASSUME Serial PROVE Spec => []SnapshotsAreHistory
<1>1. History => SnapshotsAreHistory
  BY DEF History
<1> QED
  BY <1>1, InitHistory, NextHistory, PTL DEF Spec

\* On such a project the memories, the word count, the latest hash and the
\* branch heads agree with the published chapters.
THEOREM BooksAlwaysBalance == ASSUME Serial PROVE Spec => []BooksBalance
<1>1. History => BooksBalance
  BY DEF History
<1> QED
  BY <1>1, InitHistory, NextHistory, PTL DEF Spec
=============================================================================
