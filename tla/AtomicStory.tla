---------------------------- MODULE AtomicStory ----------------------------
(***************************************************************************)
(* What the transaction manager promises: a project moves from one whole   *)
(* story to the next.  A commit, a rollback and a fork each happen at      *)
(* once; a commit that fails leaves no trace.                              *)
(***************************************************************************)
EXTENDS StoryStore

VARIABLE story

Init == story = InitDisk

Commit(c, d, b) ==
    /\ Asked(story, c, b)
    /\ Valid(d, story.state)
    /\ ~AlreadyThere(story, c, d)
    /\ story' = CommitDisk(story, c, d, b)

Rollback(t) ==
    /\ RollbackAsked(story, t)
    /\ story' = RollbackDisk(story, t)

Fork(b, c) ==
    /\ ForkAsked(story, c)
    /\ Forkable(story, b)
    /\ story' = ForkDisk(story, b, c)

Next ==
    \/ \E c \in Chapters, d \in Drafts, b \in Branches : Commit(c, d, b)
    \/ \E t \in Targets : Rollback(t)
    \/ \E b \in Branches, c \in Targets : Fork(b, c)

Spec == Init /\ [][Next]_story

-----------------------------------------------------------------------------
(* Properties of a project only write-next and the daemon have worked on     *)
(* (Serial).  Each relates several files; no one operation writes any of     *)
(* these relations down.                                                     *)

TypeOK == story \in Disk /\ Untorn(story)

head == story.meta.head

\* The chapters are 1..head with no gap, and the story state is what their
\* deltas, in order, make of the initial one: rollbacks, recommits and forks
\* never leave a delta without its chapter or a chapter without its delta.
StateIsHistory ==
    /\ story.meta # Torn /\ 1..head \subseteq Chapters
    /\ \A c \in Chapters : IF c <= head THEN story.chapters[c] \in Drafts
                                         ELSE story.chapters[c] = NoDraft
    /\ Len(story.state) = head
    /\ \A c \in 1..head : story.state[c] = story.chapters[c]

\* A rollback to any chapter can restore exactly the state that chapter had,
\* and there is nothing to restore from beyond the head.
SnapshotsAreHistory == \A c \in Chapters :
    IF c <= head THEN /\ story.snaps[c] \in Snapshot
                      /\ story.snaps[c].draft = story.chapters[c]
                      /\ Len(story.snaps[c].state) = c
                      /\ \A k \in 1..c : story.snaps[c].state[k] = story.chapters[k]
    ELSE story.snaps[c] = NoSnap

\* Both memories hold each published chapter once and nothing that was rolled
\* back; total_words counts the published chapters, latest_draft_hash is the
\* head chapter's, and no branch points beyond the head.
BooksBalance ==
    /\ \A c \in Chapters :
         /\ story.memories[c] = IF c <= head THEN <<story.chapters[c]>> ELSE << >>
         /\ story.hybrid[c] = story.memories[c]
    /\ \A d \in Drafts : story.meta.counted[d] =
         Cardinality({c \in Chapters : story.chapters[c] = d})
    /\ story.meta.latest = IF head = 0 THEN NoDraft ELSE story.chapters[head]
    /\ story.heads[Main] = head
    /\ \A b \in Branches : story.heads[b] # NoBranch => story.heads[b] <= head
=============================================================================
