----------------------------- MODULE StoryStore -----------------------------
(***************************************************************************)
(* The published files of one fanfic project and what the three operations *)
(* of the chapter transaction manager compute for them.  Pure definitions: *)
(* core/transaction_manager.py and core/state_manager.py decide here WHAT  *)
(* is written; ChapterCommit.tla decides in which order, and what a crash  *)
(* or an I/O error leaves behind.                                          *)
(*                                                                         *)
(* A draft stands for its content (the code compares SHA-256 prefixes) and *)
(* for the state delta extracted from it.  The story state is the sequence *)
(* of the deltas applied to it.  total_words is kept as `counted': how     *)
(* often the words of each draft were added.  The lists in                 *)
(* chapter_memories.json and hybrid_memory.json are kept per chapter.      *)
(***************************************************************************)
EXTENDS Naturals, Sequences, FiniteSets

CONSTANTS
    Chapters,      \* chapter numbers a client may ask for
    Drafts,        \* draft contents
    Branches,      \* branch ids
    Main,          \* the branch init_project creates
    NoDraft,       \* no chapter directory; the empty latest_draft_hash
    NoSnap,        \* no snapshot of a chapter
    NoBranch,      \* branch id absent from branches.json
    NoHead,        \* expected_head=None
    Torn,          \* a file truncated by a crash: json.load raises
    ScanWindow,    \* gap rollback_to_chapter tolerates (5 in the code)
    Valid(_, _)    \* Valid(d, s): validate_delta accepts d's delta in state s

-----------------------------------------------------------------------------
\* The files, by the order in which commit_transaction publishes them.
Files == {"state", "chapters", "meta", "memories", "heads", "snaps", "hybrid"}

Targets == Chapters \cup {0}
Recorded == [Chapters -> Seq(Drafts)]
Snapshot == [state : Seq(Drafts), draft : Drafts]
MetaFile == [head     : Targets,
             counted  : [Drafts -> Nat],
             latest   : Drafts \cup {NoDraft},
             branches : SUBSET Branches]

\* What a project directory can hold; `Torn' only after a crash.
Disk == [state    : Seq(Drafts) \cup {Torn},
         chapters : [Chapters -> Drafts \cup {NoDraft, Torn}],
         meta     : MetaFile \cup {Torn},
         memories : Recorded \cup {Torn},
         heads    : [Branches -> Targets \cup {NoBranch}] \cup {Torn},
         snaps    : [Chapters -> Snapshot \cup {NoSnap, Torn}],
         hybrid   : Recorded \cup {Torn}]

ASSUME StoreAssumption ==
    /\ Chapters \subseteq Nat \ {0}
    /\ IsFiniteSet(Chapters)
    /\ Main \in Branches
    /\ NoDraft \notin Drafts
    /\ NoBranch \notin Nat
    /\ ScanWindow \in Nat

\* A truncated file has no readable content.
ASSUME TornAssumption ==
    /\ Torn \notin Drafts \cup {NoDraft, NoSnap} \cup Snapshot \cup MetaFile
    /\ Torn \notin Seq(Drafts) \cup Recorded
    /\ Torn \notin [Branches -> Targets \cup {NoBranch}]
    /\ NoSnap \notin Snapshot

\* No file of the project is truncated.
Untorn(x) ==
    /\ Torn \notin {x.state, x.meta, x.memories, x.heads, x.hybrid}
    /\ \A c \in Chapters : x.chapters[c] # Torn /\ x.snaps[c] # Torn

NothingRecorded == [c \in Chapters |-> << >>]

\* init_project
InitDisk ==
    [state    |-> << >>,
     chapters |-> [c \in Chapters |-> NoDraft],
     meta     |-> [head     |-> 0,
                   counted  |-> [d \in Drafts |-> 0],
                   latest   |-> NoDraft,
                   branches |-> {Main}],
     memories |-> NothingRecorded,
     heads    |-> [b \in Branches |-> IF b = Main THEN 0 ELSE NoBranch],
     snaps    |-> [c \in Chapters |-> NoSnap],
     hybrid   |-> NothingRecorded]

-----------------------------------------------------------------------------
\* What commit_transaction reads: a file it cannot parse is an empty list or
\* an empty dict to it (story_state.json and project_meta.json have no such
\* fallback: load_story_state and load_project_meta raise).
Read(x) ==
    [x EXCEPT !.memories = IF @ = Torn THEN NothingRecorded ELSE @,
              !.heads    = IF @ = Torn THEN [b \in Branches |-> NoBranch] ELSE @,
              !.hybrid   = IF @ = Torn THEN NothingRecorded ELSE @]

\* get_branch_head: a branch nobody knows has head 0.
BranchHead(x, b) == IF x.heads[b] = NoBranch THEN 0 ELSE x.heads[b]

\* The expected_head check: either head may match, and project_meta.json
\* stands in for a branches.json that cannot be parsed.
HeadExpected(x, b, eh) ==
    \/ eh = NoHead
    \/ x.heads # Torn /\ eh = BranchHead(x, b)
    \/ x.meta # Torn /\ eh = x.meta.head

\* Mutant: any draft of the chapter counts as the one asked for.
SomeDraftThere(x, c, d) == x.chapters[c] # NoDraft

\* A readable draft.json of the chapter with the same content.
AlreadyThere(x, c, d) == x.chapters[c] = d

\* Mutant: the head is the next chapter to write.
LaterNext(m, n) == IF m < n THEN n + 1 ELSE m

Later(m, n) == IF m < n THEN n ELSE m
Record(log, c, d) == [log EXCEPT ![c] = Append(@, d)]

\* What commit_transaction stages for draft d of chapter c on branch b.
CommitDisk(x, c, d, b) ==
    LET y == Read(x)
        s == Append(x.state, d)
    IN
    [state    |-> s,
     chapters |-> [x.chapters EXCEPT ![c] = d],
     meta     |-> [x.meta EXCEPT !.head = Later(@, c),
                                 !.counted[d] = @ + 1,
                                 !.latest = d],
     memories |-> Record(y.memories, c, d),
     heads    |-> IF y.heads[b] = NoBranch THEN y.heads
                  ELSE [y.heads EXCEPT ![b] = c],
     snaps    |-> [x.snaps EXCEPT ![c] = [state |-> s, draft |-> d]],
     hybrid   |-> Record(y.hybrid, c, d)]

-----------------------------------------------------------------------------
\* Mutants: the scan starts one chapter early, or one late.
ScannedFromTarget(present, t) ==
    {c \in present : c >= t /\ \A g \in (t + ScanWindow + 1)..(c - 1) : g \in present}
ScannedPastNext(present, t) ==
    {c \in present : c > t + 1 /\ \A g \in (t + ScanWindow + 1)..(c - 1) : g \in present}

\* The chapters above t that the scan of rollback_to_chapter reaches: it goes
\* up from t+1 and stops at the first missing one beyond t + ScanWindow.
Scanned(present, t) ==
    {c \in present : c > t /\ \A g \in (t + ScanWindow + 1)..(c - 1) : g \in present}

\* Mutant: the record of the first chapter rolled back stays.
UpToNext(log, t) == [c \in Chapters |-> IF c <= t + 1 THEN log[c] ELSE << >>]

UpTo(log, t) == [c \in Chapters |-> IF c <= t THEN log[c] ELSE << >>]

\* Mutant: the target chapter is not counted.
RecountedBelow(x, t) ==
    [d \in Drafts |-> Cardinality({c \in {a \in Chapters : a < t} : x.chapters[c] = d})]

\* total_words, counted again from the chapters that stay.
Recounted(x, t) ==
    [d \in Drafts |-> Cardinality({c \in {a \in Chapters : a <= t} : x.chapters[c] = d})]

\* Mutant: the snapshot of the first chapter rolled back is restored.
SnapAfter(x, t) ==
    IF t + 1 \in Chapters /\ x.snaps[t + 1] # Torn THEN x.snaps[t + 1] ELSE NoSnap

\* The snapshot a rollback to t can use.
SnapAt(x, t) ==
    IF t \in Chapters /\ x.snaps[t] # Torn THEN x.snaps[t] ELSE NoSnap

\* latest_draft_hash after a rollback to t.
LatestAt(x, t) ==
    IF t = 0 THEN NoDraft
    ELSE IF SnapAt(x, t) # NoSnap THEN SnapAt(x, t).draft
    ELSE IF x.chapters[t] \in Drafts THEN x.chapters[t]
    ELSE x.meta.latest

\* rollback_transaction(t): rollback_to_chapter and the pruned hybrid memory.
\* An unparsable memories or branches file stays as it is.
RollbackDisk(x, t) ==
    LET gone  == Scanned({c \in Chapters : x.chapters[c] # NoDraft}, t)
        stale == Scanned({c \in Chapters : x.snaps[c] # NoSnap}, t)
    IN
    [state    |-> IF SnapAt(x, t) = NoSnap THEN x.state ELSE SnapAt(x, t).state,
     chapters |-> [c \in Chapters |-> IF c \in gone THEN NoDraft ELSE x.chapters[c]],
     meta     |-> [x.meta EXCEPT
                     !.head    = t,
                     !.counted = Recounted(x, t),
                     !.latest  = LatestAt(x, t)],
     memories |-> IF x.memories = Torn THEN Torn ELSE UpTo(x.memories, t),
     heads    |-> IF x.heads = Torn THEN Torn
                  ELSE [b \in Branches |->
                          IF x.heads[b] # NoBranch /\ x.heads[b] > t
                          THEN t ELSE x.heads[b]],
     snaps    |-> [c \in Chapters |-> IF c \in stale THEN NoSnap ELSE x.snaps[c]],
     hybrid   |-> UpTo(Read(x).hybrid, t)]

\* create_branch: branches.json, then the list in project_meta.json.
Forkable(x, b) == b # Main /\ (x.heads # Torn => x.heads[b] = NoBranch)

ForkDisk(x, b, c) ==
    LET known == IF x.heads # Torn THEN x.heads
                 ELSE [a \in Branches |-> IF a = Main THEN x.meta.head ELSE NoBranch]
    IN [x EXCEPT !.heads = [known EXCEPT ![b] = c],
                 !.meta  = IF x.meta = Torn THEN Torn
                           ELSE [x.meta EXCEPT !.branches = @ \cup {b}]]

-----------------------------------------------------------------------------
\* The callers.  cmd_write_next and the daemon ask for chapter head + 1 of
\* the main branch; the web studio and library users may ask for any.
CONSTANT Serial    \* TRUE: only write-next and the daemon use the project
ASSUME SerialAssumption == Serial \in BOOLEAN

Asked(x, c, b) == Serial => x.meta # Torn /\ b = Main /\ c = x.meta.head + 1
RollbackAsked(x, t) == Serial => t # 0 /\ t <= x.meta.head
ForkAsked(x, c) == Serial => x.meta # Torn /\ c <= x.meta.head
=============================================================================
