--------------------------- MODULE ChapterCommit ---------------------------
(***************************************************************************)
(* The chapter transaction of core/transaction_manager.py as one process   *)
(* executes it, one write per step: a commit stages every file, publishes  *)
(* the seven of them in order and records the outcome in an index and a    *)
(* journal; an I/O error undoes what was published; a process that dies    *)
(* leaves the files as they are, and the next one to open the project      *)
(* sweeps up the staging directories.  rollback_transaction and fork_branch*)
(* write several files too, with nothing to recover them from.             *)
(***************************************************************************)
EXTENDS StoryStore

CONSTANTS
    TxIds,         \* transaction ids: fresh uuids, or chosen by the client
    NoTx,          \* no transaction
    NoReply,       \* the last call has not returned, or it raised
    FaultPoints,   \* the steps of a commit that may raise
    CrashPoints    \* the control states in which the process may die

Steps == {"log_begin", "backup", "stage", "publish", "index", "log_commit",
          "event", "report", "manifest", "cleanup",
          "undo", "rollback", "fork", "idle", "down"}

ASSUME CommitAssumption ==
    /\ NoTx \notin TxIds \cup [chapter : Chapters, draft : Drafts]
    /\ FaultPoints \subseteq Steps \cup Files
    /\ CrashPoints \subseteq Steps

Phases == {"BEGIN", "COMMITTED", "ABORTED", "RECOVERED", "ROLLBACK"}
Transaction == [id : TxIds \cup {NoTx}, chapter : Targets,
                draft : Drafts \cup {NoDraft}, before : Disk, after : Disk]
Answer == [kind : {"committed", "already", "replayed"},
           chapter : Chapters, draft : Drafts]
Manifest == [state : Seq(Drafts) \cup {Torn}, meta : MetaFile \cup {Torn}]
Provenance == [events   : SUBSET TxIds,
               report   : [Chapters -> TxIds \cup {NoTx}],
               manifest : Manifest \cup {NoTx}]

VARIABLES
    disk,      \* the published files
    pc,        \* what the process executes next
    tx,        \* the operation in progress: its arguments, the files it read
               \* (before) and the files it is to write (after)
    done,      \* the files the current phase has dealt with
    journal,   \* journal.jsonl: the phases logged under each transaction id,
               \* and under NoTx the ROLLBACK records, which have none
    begun,     \* the chapter and draft of an id's BEGIN record, until nothing
               \* reads them: it is aborted, and the index does not have it
    index,     \* index.json: the status saved under each id
    staging,   \* the ids that have a staging directory
    prov,      \* event_map.jsonl, compliance reports, MANIFEST_SHA256.json
    reply,     \* what the last commit call answered
    acked      \* history: the draft last committed for a chapter, until it is
               \* rolled back or a crash interrupts a commit over it

vars == <<disk, pc, tx, done, journal, begun, index, staging, prov, reply, acked>>
logs == <<journal, begun, index, staging, prov>>

Init ==
    /\ disk = InitDisk
    /\ pc = "down"
    /\ tx = NoTx
    /\ done = {}
    /\ journal = [i \in TxIds \cup {NoTx} |-> {}]
    /\ begun = [i \in TxIds |-> NoTx]
    /\ index = [i \in TxIds |-> "absent"]
    /\ staging = {}
    /\ prov = [events |-> {}, report |-> [c \in Chapters |-> NoTx], manifest |-> NoTx]
    /\ reply = NoReply
    /\ acked = [c \in Chapters |-> NoDraft]

-----------------------------------------------------------------------------
\* Mutants: the snapshot is published with the state; the metadata before the
\* chapter; the undo forgets the chapter, or the story state.
PublishSnapshotEarly == [state |-> 1, snaps |-> 2, chapters |-> 3, meta |-> 4,
                         memories |-> 5, heads |-> 6, hybrid |-> 7]
PublishMetaFirst == [state |-> 1, meta |-> 2, chapters |-> 3, memories |-> 4,
                     heads |-> 5, snaps |-> 6, hybrid |-> 7]
UndoKeepsChapter == [meta |-> 2, memories |-> 3, heads |-> 4, state |-> 5, hybrid |-> 6]
UndoKeepsState == [chapters |-> 1, meta |-> 2, memories |-> 3, heads |-> 4, hybrid |-> 6]

\* The order in which each operation goes through the files.
PublishRank == [state |-> 1, chapters |-> 2, meta |-> 3, memories |-> 4,
                heads |-> 5, snaps |-> 6, hybrid |-> 7]
UndoRank == [chapters |-> 1, meta |-> 2, memories |-> 3, heads |-> 4,
             state |-> 5, hybrid |-> 6]
RollbackRank == [meta |-> 1, memories |-> 2, state |-> 3, heads |-> 4,
                 chapters |-> 5, snaps |-> 6, hybrid |-> 7]
ForkRank == [heads |-> 1, meta |-> 2]

Due(rank, f) ==
    /\ f \in DOMAIN rank \ done
    /\ \A g \in DOMAIN rank : rank[g] < rank[f] => g \in done

\* File f opened for writing in place and not written to the end.
Damaged(x, f, c) ==
    IF f = "chapters" THEN [x EXCEPT !.chapters[c] = Torn]
    ELSE IF f = "snaps" THEN [x EXCEPT !.snaps[c] = Torn]
    ELSE [x EXCEPT ![f] = Torn]

Log(i, phase) == journal' = [journal EXCEPT ![i] = @ \cup {phase}]

Finish ==
    /\ pc' = "idle"
    /\ tx' = NoTx
    /\ done' = {}

-----------------------------------------------------------------------------
\* A call of commit_transaction.  checks: whether expected_hash is the draft's
\* hash and the audit receipt, if any, says PASS.
Calls == [id : TxIds, chapter : Chapters, draft : Drafts, branch : Branches,
          head : Targets \cup {NoHead}, checks : {"ok", "stale", "unaudited"}]

\* The id is in the index with this draft's hash; an entry written by the
\* recovery has no hash.
Repeats(q) == index[q.id] = "COMMITTED" /\ begun[q.id].draft = q.draft

Accepted(q) ==
    /\ q.checks = "ok"
    /\ index[q.id] = "absent"
    /\ HeadExpected(disk, q.branch, q.head)
    /\ disk.state # Torn
    /\ Valid(q.draft, disk.state)

Answers(q, kind) ==
    /\ reply' = [kind |-> kind, chapter |-> q.chapter, draft |-> q.draft]
    /\ UNCHANGED <<disk, pc, tx, done, logs, acked>>

\* tx_id known: the saved result is returned again.
Replay(q) == q.checks # "stale" /\ Repeats(q) /\ Answers(q, "replayed")

Already(q) ==
    /\ Accepted(q)
    /\ AlreadyThere(disk, q.chapter, q.draft)
    /\ Answers(q, "already")

Begin(q) ==
    /\ Accepted(q)
    /\ ~AlreadyThere(disk, q.chapter, q.draft)
    /\ disk.meta # Torn
    /\ tx' = [id |-> q.id, chapter |-> q.chapter, draft |-> q.draft, before |-> disk,
              after |-> CommitDisk(disk, q.chapter, q.draft, q.branch)]
    /\ staging' = staging \cup {q.id}
    /\ pc' = "log_begin"
    /\ reply' = NoReply
    /\ UNCHANGED <<disk, done, journal, begun, index, prov, acked>>

\* Every ValueError raised before the first write, and json.load's.
Reject(q) ==
    /\ q.checks = "stale" \/ ~Repeats(q)
    /\ ~Accepted(q) \/ (~AlreadyThere(disk, q.chapter, q.draft) /\ disk.meta = Torn)
    /\ reply' = NoReply
    /\ UNCHANGED <<disk, pc, tx, done, logs, acked>>

Call == pc = "idle" /\ \E q \in Calls :
    /\ Asked(disk, q.chapter, q.branch)
    /\ Replay(q) \/ Already(q) \/ Begin(q) \/ Reject(q)

-----------------------------------------------------------------------------
\* Mutant: the BEGIN record does not reach the journal.
LogBeginUnflushed ==
    /\ pc = "log_begin"
    /\ begun' = [begun EXCEPT ![tx.id] = [chapter |-> tx.chapter, draft |-> tx.draft]]
    /\ pc' = "backup"
    /\ UNCHANGED <<disk, tx, done, journal, index, staging, prov, reply, acked>>

\* The steps of a commit.  The backup of the chapter directory precedes the
\* `try' of commit_transaction: an error up to there is not undone.
LogBegin ==
    /\ pc = "log_begin"
    /\ Log(tx.id, "BEGIN")
    /\ begun' = [begun EXCEPT ![tx.id] = [chapter |-> tx.chapter, draft |-> tx.draft]]
    /\ pc' = "backup"
    /\ UNCHANGED <<disk, tx, done, index, staging, prov, reply, acked>>

Prepare ==
    /\ \/ pc = "backup" /\ pc' = "stage"
       \/ pc = "stage" /\ pc' = "publish"
    /\ UNCHANGED <<disk, tx, done, logs, reply, acked>>

FailUnprotected ==
    /\ pc \in {"log_begin", "backup"} \cap FaultPoints
    /\ Finish
    /\ UNCHANGED <<disk, logs, reply, acked>>

Publish(f) ==
    /\ pc = "publish"
    /\ Due(PublishRank, f)
    /\ disk' = [disk EXCEPT ![f] = tx.after[f]]
    /\ IF done \cup {f} = Files THEN pc' = "index" /\ done' = {}
                                ELSE pc' = pc /\ done' = done \cup {f}
    /\ UNCHANGED <<tx, logs, reply, acked>>

SaveIndex ==
    /\ pc = "index"
    /\ index' = [index EXCEPT ![tx.id] = "COMMITTED"]
    /\ pc' = "log_commit"
    /\ UNCHANGED <<disk, tx, done, journal, begun, staging, prov, reply, acked>>

LogCommit ==
    /\ pc = "log_commit"
    /\ Log(tx.id, "COMMITTED")
    /\ acked' = [acked EXCEPT ![tx.chapter] = tx.draft]
    /\ pc' = "event"
    /\ UNCHANGED <<disk, tx, done, begun, index, staging, prov, reply>>

\* An exception inside the `try'; a file being published may be half written.
Fail ==
    /\ \/ pc \in {"stage", "index", "log_commit"} \cap FaultPoints /\ UNCHANGED disk
       \/ /\ pc = "publish"
          /\ \E f \in FaultPoints :
                /\ Due(PublishRank, f)
                /\ disk' \in {disk, Damaged(disk, f, tx.chapter)}
    /\ pc' = "undo"
    /\ done' = {}
    /\ UNCHANGED <<tx, logs, reply, acked>>

\* What _rollback_staging writes back: lists and dicts it could not parse
\* come back empty, the raw text of hybrid_memory.json as it was.
Restored(x) == [Read(x) EXCEPT !.hybrid = x.hybrid]

Undo(f) ==
    /\ pc = "undo"
    /\ Due(UndoRank, f)
    /\ disk' = [disk EXCEPT ![f] = Restored(tx.before)[f]]
    /\ done' = done \cup {f}
    /\ UNCHANGED <<pc, tx, logs, reply, acked>>

\* Mutant: the journal says ABORTED before the undo is over.
LogAbortEarly ==
    /\ pc = "undo"
    /\ staging' = staging \ {tx.id}
    /\ Log(tx.id, "ABORTED")
    /\ begun' = [begun EXCEPT ![tx.id] = IF index[tx.id] = "COMMITTED" THEN @ ELSE NoTx]
    /\ Finish
    /\ UNCHANGED <<disk, index, prov, reply, acked>>

LogAbort ==
    /\ pc = "undo"
    /\ done = DOMAIN UndoRank
    /\ staging' = staging \ {tx.id}
    /\ Log(tx.id, "ABORTED")
    /\ begun' = [begun EXCEPT ![tx.id] = IF index[tx.id] = "COMMITTED" THEN @ ELSE NoTx]
    /\ Finish
    /\ UNCHANGED <<disk, index, prov, reply, acked>>

\* _governance_post_commit: three writes, each of which may fail unnoticed.
Govern(p, next, written) ==
    /\ pc = p
    /\ pc' = next
    /\ prov' = written \/ (p \in FaultPoints /\ prov' = prov)
    /\ UNCHANGED <<disk, tx, done, journal, begun, index, staging, reply, acked>>

AppendEvent == Govern("event", "report", [prov EXCEPT !.events = @ \cup {tx.id}])
WriteReport == Govern("report", "manifest", [prov EXCEPT !.report[tx.chapter] = tx.id])
WriteManifest == Govern("manifest", "cleanup",
    [prov EXCEPT !.manifest = [state |-> disk.state, meta |-> disk.meta]])

\* Mutant: the staging directory of a committed transaction stays.
CleanupSkipped ==
    /\ pc = "cleanup"
    /\ reply' = [kind |-> "committed", chapter |-> tx.chapter, draft |-> tx.draft]
    /\ Finish
    /\ UNCHANGED <<disk, journal, begun, index, staging, prov, acked>>

Cleanup ==
    /\ pc = "cleanup"
    /\ staging' = staging \ {tx.id}
    /\ reply' = [kind |-> "committed", chapter |-> tx.chapter, draft |-> tx.draft]
    /\ Finish
    /\ UNCHANGED <<disk, journal, begun, index, prov, acked>>

-----------------------------------------------------------------------------
Writes(t, x) ==
    tx' = [id |-> NoTx, chapter |-> t, draft |-> NoDraft, before |-> disk, after |-> x]

\* rollback_transaction: nothing checks the target.
BeginRollback(t) ==
    /\ pc = "idle"
    /\ disk.meta # Torn
    /\ RollbackAsked(disk, t)
    /\ Writes(t, RollbackDisk(disk, t))
    /\ pc' = "rollback"
    /\ reply' = NoReply
    /\ acked' = [c \in Chapters |-> IF c > t THEN NoDraft ELSE acked[c]]
    /\ UNCHANGED <<disk, done, logs>>

RollbackFile(f) ==
    /\ pc = "rollback"
    /\ Due(RollbackRank, f)
    /\ disk' = [disk EXCEPT ![f] = tx.after[f]]
    /\ done' = done \cup {f}
    /\ UNCHANGED <<pc, tx, logs, reply, acked>>

LogRollback ==
    /\ pc = "rollback"
    /\ done = Files
    /\ Log(NoTx, "ROLLBACK")
    /\ Finish
    /\ UNCHANGED <<disk, begun, index, staging, prov, reply, acked>>

\* fork_branch
BeginFork(b, c) ==
    /\ pc = "idle"
    /\ ~(disk.heads = Torn /\ disk.meta = Torn)
    /\ ForkAsked(disk, c)
    /\ Forkable(disk, b)
    /\ Writes(c, ForkDisk(disk, b, c))
    /\ pc' = "fork"
    /\ reply' = NoReply
    /\ UNCHANGED <<disk, done, logs, acked>>

ForkFile(f) ==
    /\ pc = "fork"
    /\ Due(ForkRank, f)
    /\ disk' = [disk EXCEPT ![f] = tx.after[f]]
    /\ IF done \cup {f} = DOMAIN ForkRank THEN Finish
                                          ELSE done' = done \cup {f} /\ UNCHANGED <<pc, tx>>
    /\ UNCHANGED <<logs, reply, acked>>

-----------------------------------------------------------------------------
\* What a process that dies can leave: the file it is writing in place half
\* written; the chapters or snapshots it is moving to the trash, in ascending
\* order, moved up to some number.
BeingWritten == {f \in Files : \/ pc = "publish" /\ Due(PublishRank, f)
                               \/ pc = "undo" /\ Due(UndoRank, f)}
BeingMoved == {f \in {"chapters", "snaps"} : pc = "rollback" /\ Due(RollbackRank, f)}
Moved(f, k) ==
    [disk EXCEPT ![f] = [c \in Chapters |->
                           IF c <= k THEN tx.after[f][c] ELSE disk[f][c]]]
Interrupted ==
    {disk} \cup {Damaged(disk, f, tx.chapter) : f \in BeingWritten}
           \cup {Moved(f, k) : f \in BeingMoved, k \in Chapters}

Stop ==
    /\ pc' = "down"
    /\ tx' = NoTx
    /\ done' = {}
    /\ reply' = NoReply

Crash ==
    /\ pc \in CrashPoints
    /\ disk' \in Interrupted
    /\ acked' = IF pc \in {"publish", "index", "log_commit", "undo"}
                THEN [acked EXCEPT ![tx.chapter] = NoDraft] ELSE acked
    /\ Stop
    /\ UNCHANGED logs

\* A command ends; the next one is a new process.
Exit ==
    /\ pc = "idle"
    /\ Stop
    /\ UNCHANGED <<disk, logs, acked>>

\* _recover_orphaned_transactions, when a manager opens the project.
Logged(i, phases) == journal[i] \cap phases # {}
Orphans == {i \in TxIds : Logged(i, {"BEGIN"}) /\ ~Logged(i, {"COMMITTED", "ABORTED"})}
Unlogged == {i \in staging : ~Logged(i, {"BEGIN", "COMMITTED", "ABORTED"})}

\* Mutant: the index does not learn of the recovery.
RecoverJournalOnly ==
    /\ staging' = staging \ (Orphans \cup Unlogged)
    /\ journal' = [i \in DOMAIN journal |->
                     IF i \in Orphans \cup Unlogged THEN journal[i] \cup {"RECOVERED"}
                                                    ELSE journal[i]]
    /\ index' = index

Recover ==
    /\ staging' = staging \ (Orphans \cup Unlogged)
    /\ journal' = [i \in DOMAIN journal |->
                     IF i \in Orphans \cup Unlogged THEN journal[i] \cup {"RECOVERED"}
                                                    ELSE journal[i]]
    /\ index' = [i \in TxIds |-> IF i \in Orphans /\ index[i] = "absent"
                                 THEN "RECOVERED" ELSE index[i]]

Start ==
    /\ pc = "down"
    /\ pc' = "idle"
    /\ IF \E i \in DOMAIN journal : journal[i] # {} THEN Recover
       ELSE UNCHANGED <<staging, journal, index>>
    /\ UNCHANGED <<disk, tx, done, begun, prov, reply, acked>>

-----------------------------------------------------------------------------
\* What the process does on its own once a call has begun.
Work ==
    \/ LogBegin
    \/ Prepare
    \/ \E f \in Files : Publish(f)
    \/ SaveIndex
    \/ LogCommit
    \/ \E f \in Files : Undo(f)
    \/ LogAbort
    \/ AppendEvent
    \/ WriteReport
    \/ WriteManifest
    \/ Cleanup
    \/ \E f \in Files : RollbackFile(f)
    \/ LogRollback
    \/ \E f \in Files : ForkFile(f)

Next ==
    \/ Call
    \/ \E t \in Targets : BeginRollback(t)
    \/ \E b \in Branches, c \in Targets : BeginFork(b, c)
    \/ Work
    \/ FailUnprotected
    \/ Fail
    \/ Crash
    \/ Exit
    \/ Start

Spec == Init /\ [][Next]_vars

\* A call that has begun goes on: the process is one thread, and its steps
\* are never blocked.
FairSpec == Spec /\ WF_vars(Work)

-----------------------------------------------------------------------------
(* Properties *)

TypeOK ==
    /\ disk \in Disk
    /\ pc \in Steps
    /\ tx \in Transaction \cup {NoTx}
    /\ done \subseteq Files
    /\ journal \in [TxIds \cup {NoTx} -> SUBSET Phases]
    /\ begun \in [TxIds -> [chapter : Chapters, draft : Drafts] \cup {NoTx}]
    /\ index \in [TxIds -> {"absent", "COMMITTED", "RECOVERED"}]
    /\ staging \subseteq TxIds
    /\ prov \in Provenance
    /\ reply \in Answer \cup {NoReply}
    /\ acked \in [Chapters -> Drafts \cup {NoDraft}]

InFlight == {"log_begin", "backup", "stage", "publish", "index", "log_commit",
             "undo", "rollback", "fork"}
AtRest == pc \in {"idle", "down"}

\* The story a client should believe in: what the operation in progress read,
\* until its last write.
Story == IF pc \in InFlight THEN tx.before ELSE disk

Abs == INSTANCE AtomicStory WITH story <- Story

\* Without crashes, and with errors only up to the publication of
\* branches.json, commits, rollbacks and forks are atomic.
RefinesStory == Abs!Spec

\* While an operation is in progress every file is either the one it read or
\* the one it is to write, and the undo has nothing to do for the snapshots,
\* which it does not restore.
Isolation ==
    /\ pc \in {"log_begin", "backup", "stage"} => disk = tx.before
    /\ pc \in {"publish", "rollback", "fork"} =>
         \A f \in Files : disk[f] = IF f \in done THEN tx.after[f] ELSE tx.before[f]
    /\ pc \in {"index", "log_commit"} => disk = tx.after
    /\ pc = "undo" => /\ disk.snaps = tx.before.snaps
                      /\ \A f \in done : disk[f] = tx.before[f]

CommittedAs(c, d) == \E i \in TxIds :
    begun[i] = [chapter |-> c, draft |-> d] /\ Logged(i, {"COMMITTED"})

\* Each chapter and each snapshot on disk is a committed transaction's.
OnlyCommitted == AtRest => \A c \in Chapters :
    /\ disk.chapters[c] \in Drafts => CommittedAs(c, disk.chapters[c])
    /\ disk.snaps[c] \in Snapshot => CommittedAs(c, disk.snaps[c].draft)

\* No delta of a draft that was never committed is in the story state, through
\* whatever aborts and rollbacks it came to be.
StateFromCommitted == AtRest => \A k \in DOMAIN disk.state :
    \E c \in Chapters : CommittedAs(c, disk.state[k])

EndsWith(log, d) == log # << >> /\ log[Len(log)] = d

\* An answer COMMITTED, to the call that committed the chapter or to a retry,
\* means that every file carries it.
AckImpliesPublished ==
    pc = "idle" /\ reply # NoReply /\ reply.kind \in {"committed", "already"} =>
        LET c == reply.chapter  d == reply.draft IN
        /\ disk.chapters[c] = d
        /\ disk.meta # Torn /\ c <= disk.meta.head
        /\ disk.snaps[c] \in Snapshot /\ disk.snaps[c].draft = d
        /\ disk.memories # Torn /\ EndsWith(disk.memories[c], d)
        /\ disk.hybrid # Torn /\ EndsWith(disk.hybrid[c], d)

\* The memories the next chapter's context is built from tell the chapters
\* that exist: the newest record of a chapter is the published draft, and no
\* chapter that was rolled back is remembered.
MemoryTracksChapters == AtRest => \A c \in Chapters :
    IF disk.chapters[c] = NoDraft
    THEN disk.memories[c] = << >> /\ disk.hybrid[c] = << >>
    ELSE /\ EndsWith(disk.memories[c], disk.chapters[c])
         /\ EndsWith(disk.hybrid[c], disk.chapters[c])

\* A commit that got as far as its `try' ends, COMMITTED or ABORTED in the
\* journal, and takes its staging directory away.
TryResolves == \A i \in TxIds :
    (pc = "stage" /\ tx.id = i) ~>
        (i \notin staging /\ Logged(i, {"COMMITTED", "ABORTED"}))

\* --- with crashes ---

\* The current chapter is never one whose directory does not exist: write-next
\* counts on from it.
HeadHasChapter ==
    disk.meta # Torn /\ disk.meta.head # 0 => disk.chapters[disk.meta.head] # NoDraft

\* What a committed transaction published survives crashes of later ones: its
\* chapter and its snapshot always do.  Its delta may leave the story state once
\* a commit of a later chapter was cut short: the metadata counts that chapter
\* before its snapshot is replaced, and a rollback to it restores an old one.
AckedSurvives == AtRest => \A c \in Chapters : acked[c] # NoDraft =>
    /\ disk.chapters[c] = acked[c]
    /\ disk.snaps[c] \in Snapshot /\ disk.snaps[c].draft = acked[c]
    /\ \/ disk.state = Torn
       \/ \E k \in DOMAIN disk.state : disk.state[k] = acked[c]
       \/ \E i \in Orphans : begun[i].chapter > c

\* The damage a crash left can be read off the journal and the head: a chapter
\* that is only partly there was begun and not resolved, or was committed and
\* is left over from a rollback that was cut short, above the head if that can
\* be read; a shared file is torn, or a memory of a current chapter missing, only
\* if some transaction is unresolved.
Whole(c) ==
    /\ disk.chapters[c] # Torn
    /\ disk.meta # Torn => c <= disk.meta.head
    /\ disk.snaps[c] \in Snapshot /\ disk.snaps[c].draft = disk.chapters[c]
Remembered(c) ==
    /\ disk.memories # Torn /\ EndsWith(disk.memories[c], disk.chapters[c])
    /\ disk.hybrid # Torn /\ EndsWith(disk.hybrid[c], disk.chapters[c])
DamageIsLogged == AtRest =>
    /\ \A c \in Chapters : disk.chapters[c] # NoDraft /\ ~Whole(c) =>
         \/ \E i \in Orphans : begun[i].chapter = c
         \/ CommittedAs(c, disk.chapters[c]) /\ (disk.meta = Torn \/ disk.meta.head < c)
    /\ \/ Orphans # {}
       \/ \A c \in 1..disk.meta.head : Remembered(c)
    /\ Torn \in {disk.state, disk.meta, disk.heads} => Orphans # {}

Times(s, d) == Cardinality({k \in DOMAIN s : s[k] = d})
Begun(D) == Cardinality({i \in TxIds : begun[i] \in D})

\* A transaction id is good for one application of its delta: a client that
\* repeats a call with the same id, whether the first one answered, raised or
\* crashed half way, never applies the draft or records its memory twice.
AppliedOncePerId ==
    /\ disk.state # Torn => \A d \in Drafts :
         Times(disk.state, d) <= Begun([chapter : Chapters, draft : {d}])
    /\ disk.memories # Torn => \A c \in Chapters, d \in Drafts :
         Times(disk.memories[c], d) <= Begun({[chapter |-> c, draft |-> d]})
=============================================================================
