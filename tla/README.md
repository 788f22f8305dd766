# A formal model of the fanfic pipeline

The pipeline writes a serial novel chapter by chapter. A language model drafts
a chapter, checkers audit it, and a *chapter transaction* makes it part of the
story: it advances the story state, publishes the chapter, its memories and a
snapshot, and can later be rolled back. What the chapter changes of the canon
spreads over a causal graph and comes back as debts the story has to pay. The
story lives in a directory of JSON files that several commands share. These
modules model the parts where the order of steps, a failure or a crash decides
whether that directory still tells one story.

## 1. The system

Paths are relative to `src/fanfic_pipeline/`.

| Component | Files | State | Operations | What is hard |
|---|---|---|---|---|
| Chapter transactions | `core/transaction_manager.py` | staging directories, `journal.jsonl`, `index.json`, governance records | `commit_transaction`, `rollback_transaction`, `fork_branch`, recovery at start-up | seven in-place publications, undo after an error, crash at any write, retries with transaction ids |
| Project store | `core/state_manager.py` | `project_meta.json`, `story_state.json`, `chapters/`, `chapter_memories.json`, `branches.json`, `snapshots/` | `init_project`, `create_branch`, `rollback_to_chapter`, setters | files that must agree; rollback by scanning directories |
| Story state | `core/story_state.py` | `story_state.json` | extract, validate, apply a delta | rules that look at one chapter and must hold over many; names compared by substring |
| Audit gate | `packages/auditor` | the receipt of the last audit | 26 checkers, a verdict, the revision loop | state keys the checkers read and nobody writes; two conditions for one verdict |
| Engine and butterfly | `core/engine.py`, `butterfly/` | divergence ledger, counterfactual cache | extract divergences, propagate, mark ripples satisfied, save | saved before the commit it belongs to, in two files; deadlines; propagation order |
| Hybrid memory | `packages/memory/` | item list, `hybrid_memory.json`, SQLite store, search index | add, search, prune, rebuild | four copies of one list, errors swallowed, ids given out again |
| Canon store | `packages/canon/canon_store.py`, `spine_parser.py` | `canon_*.json`, mirror, search index | ingest, re-ingest, search, rebuild | files saved one by one; derived copies that lag behind |
| Enrichment | `packages/enrichment/` | `enrichment.db`, checkpoint file | windowed batch, resume | crash between database and checkpoint; resumed with other parameters |
| Callers | `fanfic_cli.py`, `packages/worker/daemon_runner.py`, `web_studio.py` | none of their own | write-next, ingest, enrich, batch job | checks on data read too early or too late |
| Governance, style | `packages/governance`, `packages/retrieval` | reports, event map, manifest | compliance, topology, rewrite loop | best-effort records that later lists are made of |
| Registries, identity | the rest of `packages/canon`, `packages/intel` | tables | register, look up | not modelled |
| Planning, prompts, parsers, data, scripts | the rest of `core/`, `packages/parser`, `packages/style`, `data/`, `scripts/` | files they generate | text in, text out | not modelled |

A commit is called by write-next, the daemon and the web studio with a draft,
the delta extracted from it and an audit receipt. It reads the project store,
writes its files, appends to the journal and the index, updates the hybrid
memory's file and ends with the governance records. Rollback goes through the
store and prunes the hybrid memory. The butterfly ledger is written by the
engine outside the transaction, when the draft is there and before it is
audited; the audit reads the ledger and the committed story state. `ingest`
fills the canon store, writes the project's metadata back, and `enrich` reads
the canon store and fills the enrichment database, whose causal links are the
graph the butterfly effect runs over.

## 2. What is modelled

| Module | What it is |
|---|---|
| `StoryStore` | The seven published files as a record, and what `init_project`, a commit, a rollback and a fork compute for them. Pure definitions, used by both machines below. |
| `AtomicStory` | The promise: each operation happens at once on the whole directory, or not at all. |
| `ChapterCommit` | The code of the transaction manager: one write per step, errors and the undo, crashes, recovery, retries, the journal, the index, the staging directories and the governance records. |
| `StoryState` | The story state, what a text changes of it, the transition rules and `apply_delta`. Pure definitions. |
| `AuditGate` | The checkers and their verdict, the revision loop and the commit of a chapter's delta, over `StoryState`. |
| `Butterfly` | The propagation over the causal graph as its queue runs, and what it amounts to without a queue. Pure definitions. |
| `ChapterCycle` | write-next and the daemon from the draft to the commit, with the divergence ledger and the counterfactual cache, and an ingest beside them. |
| `ButterflyCycle` | The two together: the propagation of `ChapterCycle`, a parameter there, is that of `Butterfly`; the regime of intensities and PODs the theorems speak of (`Calm`, `OneMind`). |
| `Lists` | The list comprehensions of the code. |
| `HybridMemory` | The memory engine with its file and its index, the commits and rollbacks that write the same file, and the SQLite store. |
| `Library` | The canon store filled by `ingest` and the enrichment made of it window by window. |
| `MC...` | Small instances for TLC. `MCChapterCycle` is one of `ButterflyCycle`, with `Propagate` tabulated for every history of its POD. |
| `StoryStoreTheorems`, `...Proofs` | The proofs. |

Each machine takes as one step what another one has in detail: a commit is one
step of `ChapterCycle` and of `HybridMemory`, the ledger is not in
`ChapterCommit`, and `AuditGate` has the checkers whose verdict is the `checks`
field of a call of `ChapterCommit` and the field `good` of a text in
`ChapterCycle`.

### The chapter transaction (`StoryStore`, `AtomicStory`, `ChapterCommit`)

**State.** A draft is its content: the code compares hashes, and a delta is a
function of the draft. The story state is the sequence of deltas applied to the
initial one; `validate_delta` is the constant operator `Valid`. `total_words`
is kept as how often each draft was counted, the memory lists per chapter. A
chapter directory or a file that a crash cut short is `Torn`: what reads it
either raises or takes it for empty, file by file as the code does (`Read`).

**Actions.** A call of `commit_transaction` is refused,
answered from the index (`Replay`) or from the chapter on disk (`Already`), or
begins. Then, in the order of the code: `LogBegin`, the backup and the staging
writes (`Prepare`), seven `Publish(f)`, `SaveIndex`, `LogCommit`, three
governance writes, `Cleanup`. `Fail` leads to `Undo(f)` and `LogAbort`; before
the `try` an error is not undone (`FailUnprotected`). `BeginRollback`,
`RollbackFile(f)`, `LogRollback` and `BeginFork`, `ForkFile(f)` are the other
two operations. `Crash` may leave the file being written torn and a directory
half moved; `Start` is a new manager with its recovery. The order of the files
is data (`PublishRank`, `UndoRank`, `RollbackRank`, `ForkRank`). The staging
writes are one step each before and after the backup: they touch nothing
another step reads.

**Abstracted.** The text of anything; timestamps; the outline; `expected_hash`
and the audit receipt are one field of a call (passes, stale hash, no PASS);
the in-memory list of the hybrid engine is its file (`HybridMemory` has both);
one process at a time.

### Story state and audit (`StoryState`, `AuditGate`)

**State.** A text is a set of *passages*, each the smallest piece of text that
one extraction rule or one checker recognises: someone takes, uses, is hurt,
advances, a checker's fault is there. Names are compared by substring in the
code; `Within` says which names are part of which. `told` remembers the texts
committed, so that the state can be held against what was said, and `forced`
which of them the verdict was against.

**Actions.** `Write`, `Revise` (the checkers or the critic send the text back),
`GiveUp`, `Commit` and `Refuse`: what the transition rules do with a text the
receipt, or `--force-auto`, lets through. `Extract`, `ValidAll` and `Apply` are
the three halves of `story_state.py`, part by part and in its order. `Check`
runs the 26 checkers of the registry as they find the project: six keys of the
state they read (`dead_characters`, `relationships`, `canonicalized_terms`,
`style_manual_review`, `canon_time_max`, `opened_apertures`) are written by no
operation, so they judge with the defaults.

**Abstracted.** How a pattern finds its passage; checkers that cannot fail on a
project are `Passed`; what the checkers take from the ledger and the canon is in
`ChapterCycle` or left out.

### The butterfly effect (`Butterfly`, `ChapterCycle`)

**State.** The ledger is its divergences and ripples, a ripple knowing the
divergence it came from, its window of chapters and whether it is paid. `run`
is the engine with the ledger and cache it holds in memory, where it is, how
many revisions and chapters it has left, and whether it has a causal graph
(`bound`): an engine made before `enrich` has none. The two files are `ledger`
and `cache`; `blind` remembers which divergences were entered without a graph.
A text has what the engine looks at: does it name the POD's characters, which
ripples does it show, is it good, how well does its style fit.

**Actions.** `WriteNext` and `Batch` make an engine, which loads the files and
binds the graph if `Enrich` has made one (`enrichment.db`). `Draft` is
everything up to the end of `_butterfly_lifecycle` in memory: new divergences of
the POD (`News`), the ripples each one brings (`Ripples`, by a propagation of
all divergences so far), the due ones the text pays (`Settled`), the cache
(`Refreshed`). Without a graph a divergence is registered all the same
(`Entered`), with no ripples, and the cache stays as it is. Then `SaveLedger`,
`SaveCache`, `Revise` (which does not run the lifecycle again), and `Commit` or
`Blocked`. `Stop` is an author who declines, an agent that raises or a process
that dies, `Tear` a death inside one of the two writes. `IngestStart` and
`IngestEnd` are the read and the write-back of the metadata in `cmd_ingest`.
`Round` of `Butterfly` is one round of the loop of `propagate` over its queue,
with first-link-wins dependencies, resistance, damping and pruning, `Visited`
the loop; `Worst` collects what arrives over all causal paths, without a queue.

**Abstracted.** Forces are integers in 1/10000. The prompt that carries the due
ripples is left out: a text may show any of them. The commit is one step with
its two ways to fail at the records. The graph comes complete, once: `enrich`
killed half-way, or run again over a canon that has grown, gives an engine
another graph, and what a cache computed over the older one is then worth is not
modelled.

### The memory (`HybridMemory`)

**State.** The items are a bag (an order only breaks ties between hits), in the
engine, in `hybrid_memory.json` and as rows of the index; an id keeps what the
hash keeps of the content. The SQLite store has its table and its index.

**Actions.** `Open` loads; `Add` saves and `Insert` puts the row into the index,
building the index first when there is none; `Prune`, `Clear`, `Rebuild`.
`Commit`, `Undo`, `Rollback` are what `transaction_manager.py` does with the
file and the engine. `CommitDies`, `RollbackDies`, `RebuildDies` and `Close` end
the process between any two writes or inside one. The operations of the SQLite
store are those of a process of its own.

**Abstracted.** Scores and ranks: a search is the set it may answer with.

### The canon and its enrichment (`Library`)

**State.** The canon store's files, one variable each; the database and the
checkpoint of the enrichment; the two commands at work with what they hold in
memory. A spine is a sequence of pages that are chapters, too thin for the
parser, or junk; `Numbered` and the order differ exactly where pages are skipped.

**Actions.** `Ingest` loads the store and takes a spine in, in memory
(`NewSpans`, by either entry point); `SaveChapters`, `SaveSpans`, `SaveChunks`,
`Reindex` write it out, `IngestDies` stops it anywhere. `OpenRebuild` and
`RebuildIndex` are the command `rebuild-index` and the search that finds no
index, in a process of their own that loads the store and later writes the index
from what it loaded, beside an ingest or not; `RebuildDies` stops it. A store
with spans and no mirror cannot be loaded (`Opens`): `_load_all` raises where it
sets out to make the mirror from the spans (`canon_store.py:285-286`), so every
command that opens it stops there. `Enrich` loads the canon and the
checkpoint; per window `SkipWindow` or `Extract`, `Discover`, `Summarise`,
`Mark`; `EnrichEnds`, `EnrichDies`. The two commands interleave freely.

**Abstracted.** What a passage names is a table (`Mentions`, `Strangers`);
relations, causal links and epistemic records are upserts like the summary and
go with it; the sources and facts files, which nothing here reads. Loading the
store and building the index are one step each, and one rebuild is at work at a
time.

## 3. What TLC checks

| Run | Instance | Shows |
|---|---|---|
| `story_serial` | chapters 1..4, three drafts (one whose delta is refused a second time), two branches | driven by write-next, the daemon and rollbacks to existing chapters, state, snapshots, memories, counters and heads always agree |
| `commit_faults` | two chapters, two drafts, two transaction ids, one branch; any chapter, any expected head; errors while staging, at the chapter directory, at `branches.json` and in the governance | `RefinesStory`: every behaviour is one of `AtomicStory`; nothing uncommitted is left on disk or in the state; answers are true; memories follow rollbacks; every commit that reached its `try` ends in the journal and removes its staging directory |
| `commit_crash` | the same with two branches, callers as in write-next; a crash at any step of a commit or a rollback, an error in the backup | the head is never a chapter that is missing; committed chapters survive; the damage can be told from the journal and the head; an id is good for one application |
| `crash_retry` | as `commit_crash` | **violated**: an answer COMMITTED for a chapter of which only the state and the directory were published |
| `late_fault` | as `commit_faults`, the error at `hybrid_memory.json` | **violated**: the undo leaves the snapshot, and a rollback puts the aborted delta into the state |
| `audit_gate` | two characters, three items (one named inside another), six realms, 25 texts of up to five passages, up to five chapters, one revision | `MeritBooks` (a balance is the sum of what the chapters told of it and was never overdrawn after any of them), `BagIsLastWord`, `UsedOnce`, `RealmNeverFalls`: rules that look at one chapter keep the books of all of them; `FlightsAreEarned`: no chapter that passed the gate has someone fly whose last advancement, in the chapters before, was to a realm that does not |
| `aperture_order` | three apertures, texts that open one each | **violated**: a chapter that opens the next aperture in order is failed, because nothing records what was opened |
| `chapter_cycle` | three chapters, two texts, a POD of two facts over a graph of seven links with a fork, a join and a loop, there from some point on; one ingest; one commit that writes no records | what ledger and cache promise through drops and deaths (`OncePerFact`, `CacheNeverAhead`, `ConsequencesOwed`), that propagation does not depend on the order of paths (`SpreadIsOrderFree`), that the story has no gap and the audit sees all of it, that a debt of overdue ripples is for good and lets nothing but forced chapters through (`DebtIsForGood`), and that every run ends |
| `ripple_kept` | as `chapter_cycle` | **violated**: the ledger keeps the ripples of a draft that became no chapter |
| `stale_ingest` | as `chapter_cycle` | **violated**: an ingest takes the head back behind a chapter committed meanwhile |
| `memory` | two contents that share a word, one chapter, two items, two rows, three SQLite operations | the engine holds what the next one will load, rolled back chapters are forgotten, a search answers about its word, the SQLite index has every row |
| `library` | two editions of a spine of three or four pages, one of them skipped; two sets of options (windows of one passage, resumed, with summaries; windows of two up to chapter 3, structural only and not resumed); two ingests, two enrichments, any number of rebuilds | `NoOrphanSpans`, `HitsAreCurrent` for the canon; `MarkedIsStored`, `CountedOnce`, `NothingSkipped` for the enrichment |

*Bounds.* A commit reads and writes one chapter and the shared files, so two
chapters suffice for one to be there before, to be overwritten, rolled back or
committed out of order; two ids for a retry with the same and with another one;
after both are used up the runs still roll back, fork, crash and restart.
Two drafts distinguish a recommit from a replacement. `story_serial` needs four
chapters for a rollback by two with one left below. `Chapters`, `Drafts`,
`TxIds` and `Branches` are the only bounds of the chapter commit; there is no
state constraint. `Serial = TRUE` restricts the calls to what write-next and the
daemon ask for (chapter head+1, main branch) and rollbacks to existing chapters;
`FALSE` allows what the web studio and the library allow, any chapter of any
branch.

In `audit_gate` five chapters are enough to acquire, use, acquire again and use
again with one in between; its `CONSTRAINT Explored` ends a behaviour at a
committed text that changes no story state, from where nothing new can follow.
In `chapter_cycle` the windows of the ripples are 0 to 2 chapters long where the
code has 3 to 20, two overdue ripples are let pass where the code has five and
there is one revision where it has two, so that within three chapters ripples
fall due, are paid, go overdue and block; `MaxOpen` is the code's 40 and does
not bind, `Intensity` the 0.7 of the repository's POD. `MaxIngests` and
`MaxLost` bound the ingests and the commits without records. In `memory`
`MaxChapter`, `MaxItems`, `MaxRows` and `MaxUses` bound what grows; two items
are enough for an id to be given out again and for a row without its item. In
`library` two editions are enough for a passage to be replaced and a chapter to
be left over, two runs for one to resume the other with the same or with other
options; `MaxIngests` and `MaxRuns` are the bounds. Rebuilds have none: one that
has loaded the store may wait through a whole ingest, or both.

*Deadlock* is checked in `story_serial`, the runs of the chapter commit and
`memory`. `audit_gate`, `aperture_order`, `chapter_cycle`, its two violation runs
and `library` switch it off: they stop where the bounds on chapters, ingests and
runs are used up, `chapter_cycle` also where a torn ledger keeps every engine
from starting.

*Fairness.* `FairSpec` of `ChapterCommit` assumes that a call that has begun
goes on (`WF_vars(Work)`): the manager is one thread of straight-line code and
no step waits for anything. `Spec` of `ChapterCycle` assumes the same of an
engine that has been started. Calls, errors, crashes, restarts and ingests have
no fairness. `TryResolves` and `RunEnds` use it, and only they.

*Conditions of the passing runs.* They hold where they hold. An error after the
snapshot is published, or a crash, breaks the atomicity of a commit: that is
what two of the violation runs record. The undo itself does not fail and is not
interrupted in the passing runs. Other conditions are written into the
properties: `AckedSurvives` promises the chapter and its snapshot always, its
delta in the state only as long as no commit of a later chapter was cut short
(the metadata counts that chapter before its snapshot is replaced, and a
rollback to it then restores an old snapshot; with two chapters no such snapshot
can be there, the proof found it), `ConsequencesOwed` except for an event each
of whose divergences was entered before there was a graph (it has no ripple, and
none comes later) or hit more than `MaxOpen` events at once (which ones get a
ripple then depends on how ties in severity are broken), `Forgotten` except
after a rollback that died half-way, `StoredIsHeld` as long as the SQLite store
is unused (its rows, once there, are loaded instead of the file), `CountedOnce`
while no run died inside a window, `NothingSkipped` for runs over one canon with
one set of options and up to the chapter whose order is the number of chapters
(behind it, as many chapters as pages were skipped are never enriched),
`HitsAreCurrent` except where an ingest left the index or the mirror behind or
overtook a rebuild. Each of them is a thing the code really does, listed among
the hazards of `PROJECT.json`.

*Where texts of the repository say otherwise.* Five disagreements between
code and text are violation runs, with a finding each. These others have no run
of their own: they can be read off the lines named. The passing properties and the
theorems state what the code does, which here is not what the text wants.

* *The verdict.* `runner.py:34` sends a chapter back for a FAIL or UNKNOWN of
  severity P0, or for an average below 75, which cannot happen otherwise
  (`ScoreCorrect`). A REVIEW never does, nor does any single low score. But
  `style_fingerprint.py:5-6` says that REVIEW blocks unless there is a
  `style_manual_review` receipt, and in `canon_mimicry` without exception;
  `docs/specs/2026-08-21-reference-merge-design.md:85` and `:125` say the same;
  and `FANFIC_PIPELINE_SPEC_v2.0.md:549` and
  `docs/specs/2026-08-20-pipeline-hardening-design.md:362` have any Tier C score
  under its threshold give REVISE.
* *The debt.* `butterfly_debt.py:17` lets five overdue ripples pass, and
  `MaxOverdue` is that number. The specification lets none pass
  (`FANFIC_PIPELINE_SPEC_v2.0.md:107`, `:332`, `:467`; line 335 fails a chapter
  for one ripple of tier 1 left open over five chapters), and wants the block
  before the model is called (`:505`); so do
  `FANFIC_PIPELINE_PLAN_v2.0.md:60`, `:168` and `:245`. `DebtIsForGood` holds of
  either number. It also means that the gate asks for what it cannot be given
  (`butterfly_debt.py:21`, "realise the overdue ripples"): a ripple that is
  overdue is not due, so no text pays it, and `ripple waive`
  (`FANFIC_PIPELINE_SPEC_v2.0.md:668`) prints that it has waived and stores
  nothing (`fanfic_cli.py:483`).
* *Before the canon is enriched.* `engine.py:131` calls the butterfly a no-op as
  long as there is no graph, and `FANFIC_PIPELINE_PLAN_v2.0.md:60` says that every
  divergence gives ripples. A divergence entered in that time is saved without any
  (`divergence_ledger.py:50-51`), counts as registered from then on
  (`engine.py:168`, `:176`), and after `enrich` the cache forbids its events: the
  exception of `ConsequencesOwed`.
* *The resumed enrichment.* `checkpoint.py:2` promises a "seamless resume after
  interruption". A run that dies inside a window adds the window's mentions a
  second time when it is resumed (`clean` in `CountedOnce`), and one that dies
  while it writes the checkpoint leaves a file that no run can load.
* *The mirror of the canon.* The comment at `canon_store.py:280` says that an empty
  mirror is built from the spans. The branch raises (`Opens`).

*Mutants.* Each property of a passing run is paired in `PROJECT.json` with a
mutated definition, defined beside the original and marked as a mutant, with
which TLC finds it violated.

## 4. What is proved

TLAPS checks every proof, for all values of the constants that satisfy the named
assumptions of the module it is about: for the chapter transaction
`StoreAssumption`, `TornAssumption`, `SerialAssumption` and `CommitAssumption`
(finitely many chapters, numbered from 1; a torn file is unlike any content; ids
are not the null id), for the others `StateAssumption` and `GateAssumption`,
`CycleAssumption`, `MemoryAssumption`, `LibraryAssumption`: little more than the
types of their parameters; `ButterflyAssumption` for the causal graph and the POD;
and `CompositionAssumption`, that the engine's propagation is that of `Butterfly`.

* `AtomicStoryProofs`: `TypeCorrect`, with no further condition; and for
  `Serial` callers `StoryIsItsHistory`, `RollbackIsExact`, `BooksAlwaysBalance`.
  None of the three is inductive alone: a rollback restores the state from the
  snapshots, recounts the words from the chapters and prunes the memories, so
  the proof carries the conjunction (`History`). The lemma `ScannedAll` is the
  heart of the rollback step: with no gap between the chapters, the windowed
  scan finds all those above the target.
* `ChapterCommitProofs`: `CommitTypeCorrect` holds through any faults and
  crashes; it needs `TxOK`, that the operation in progress has the arguments of
  its kind.
* `Atomicity` and `FilesAreOldOrNew`: if no process dies (`NoCrash`) and no
  error strikes once the snapshot is being published (`OnlyEarlyFaults`), then
  `Spec => RefinesStory`, under the mapping that shows the files the operation
  read until it logs its outcome and the published files from then on. The
  inductive invariant `AtomicInv` adds to `Isolation` that no file is torn,
  that what is to be written is what the abstract operation computes from what
  was read (`Planned`), and that publications happen in order (`DoneOK`): this
  is where the missing restore of the snapshot turns into the condition on the
  faults. `late_fault` shows that the condition is needed, `crash_retry` that
  the other one is.
* Under the same two conditions `OnlyCommittedOnDisk` and `OnlyCommittedInState`,
  for any callers: the story the operation in progress read, and later the one it
  wrote, is made of commits in the journal (`MadeOf`, which has to speak of the
  states inside the snapshots too, or a rollback could bring anything back), and
  no step takes a commit out of the journal (`LogInv`). And for `Serial` callers
  `MemoryFollows` and `AnswersAreTrue`, which prove nothing about memories again:
  the history of `AtomicStoryProofs`, instantiated under the refinement mapping
  (`Proved`), says it of the files. Other callers can leave a gap longer than the
  scan of a rollback, behind which chapters stay that the memories forget.
* `ChapterCrashProofs`, none of which rests on atomicity. `HeadSurvivesCrashes`,
  with no condition on crashes: for `Serial` callers and errors no later than the
  publication of the metadata, `HeadHasChapter` holds through crashes anywhere,
  the undo included, which the runs do not interrupt. What makes it inductive
  (`HeadInv`) is that *every* chapter up to the head has a directory, and the
  order of the writes: a commit publishes the chapter before the metadata, a
  rollback writes the metadata before it moves the chapters, the undo only ever
  follows an unpublished metadata. An error later than that breaks it: the undo
  removes the chapter first, and a crash before it restores the metadata leaves
  the head dangling.
* `CommittedChaptersSurvive` and `DamageIsAccountedFor`, for `Serial` callers,
  and `IdsAreGoodForOne`, for any: crashes anywhere, and errors wherever the code
  does not undo them (`NoUndo`). Three invariants carry them. `WorkInv` says how
  far the operation in progress is, with files it may have found torn.
  `LogsOK` that journal, index and `BEGIN` records agree wherever the process
  died, and with it what is `Lost`: transactions cut short for good, which no
  call takes up again, so that an excuse once given stays (`Persist`).
  `FilesInv` what every file then has: what differs from the committed story is
  being published or belongs to a lost transaction. `OnceInv` counts instead: the
  story state, *every snapshot* and the memories hold a draft at most as often as
  there are ids spent on it (`Spent`, `Budget`); without the snapshots a rollback
  could bring a delta back for free. `NoUndo` is needed: the undo writes
  `ABORTED` to the journal but only to its own copy of the index
  (`transaction_manager.py:373-375`), so the id may be used again, and when that
  second attempt is cut short the recovery finds the id resolved
  (`transaction_manager.py:409-411`) and neither lists nor blocks it.
* `AuditGateProofs`: `TypesCorrect` (with `Room`: a text in work has a chapter
  left for it), `InventoryCorrect`, `UseCorrect`, `RealmCorrect`,
  `BooksCorrect`, `FlightCorrect`, `ScoreCorrect`. The inventory is an invariant
  over the whole history of texts: its inductive step is that the last chapter's
  word counts, and that what it acquires arrives before what it uses leaves.
  `UsedOnce` follows from it and from `ValidInventory`: what the second chapter
  uses was in the inventory, so a chapter after the first use gave it.
  `MeritBooks` is inductive as it stands, once the balances after n chapters
  (`Booked`) are known not to change when another one follows and the amounts of
  one text, which `validate_resource` and `apply_delta` add up in two places,
  are the same integer. `FlightsAreEarned` rests on the state's realms being
  those last told (`RealmIsLast`) and on the draft at work having been checked
  against the state as it is (`Fresh`). `ScoreCorrect`, which no run checks, is
  arithmetic over the 26 checkers: when none of the blocking ones fails, all but
  five (`Lenient`) give full marks, so the average is at least 80 (2100 / 26)
  where the gate asks for 75. It is a fact about the code and no promise of its
  texts (section 3). From `StateAssumption` and `GateAssumption`; any number of
  characters, texts, chapters and revisions.
* `ChapterCycleProofs`: `GapCorrect` with the invariant `Grounded` (everything a
  commit may follow on is on disk: the head, the head an ingest will write back,
  the chapters the daemon has behind it; without the second a stale head could
  not be told from a gap); `DebtCorrect` with `Indebted` (an engine works beyond
  the head and has in memory all that is overdue on disk, so that what it saves
  cannot make it less, and what is overdue stays so in later chapters);
  `AuditCorrect`; and from one more, `CycleInv`, `TypesCorrect`, `OnceCorrect`,
  `CacheCorrect`, `OwedCorrect`. It says that the ledger an engine holds only
  extends the one on disk, that no fact is in either twice (so a history is no
  longer than the POD: `DivsAreHistories`), that what each divergence hit has
  its ripples, unless there was no graph or they were over the cap (`Complete`),
  and that a cache is never worse than the ledger beside it accounts for
  (`Behind`); the ledger being saved first is what keeps the last one through a
  death between the files. An event in the cache is one the whole history hit
  (`Cumulative`); every divergence after which it was hit has put a ripple of it
  into the ledger or is excused (`Heard`). Of the propagation `CycleInv` needs
  no more than `WellFormed` (typed, finite, empty as long as nothing has
  diverged), and the last two theorems `Cumulative` (a further divergence takes
  no event out of it and makes none less severe).
* Both are proved of `propagate` (`Butterfly`), in the same module, for every
  causal graph, loops included. `PropagationIsWellFormed` holds for any POD and
  intensity and is a termination proof: an item of the queue stands for the paths
  of links that may still be followed from it (`Trails`, `Ahead`), finitely many
  because the depth is bounded, and every round gives one of them up. `LoopEnds`
  says of any loop with such a measure that it ends where its invariant holds.
* `SpreadCorrect`, that each event ends with the worst change that reaches it
  over any path, has one hypothesis, `Calm`: a seed reaches a local event with a
  force below 0.5, which is so up to an intensity of 0.769 (`pod.py` and its
  `POD:001` have 0.7). Then only a protected invariant keeps an event intact,
  and nothing is felt beyond depth 2 (`CalmFades`). The loop keeps `CalmLoops`:
  the seeds are visited first; a status is always that of a change that arrives;
  and a change that arrives is settled, or waits in the queue, or is caused by a
  seed that waits at an event not yet set (`NothingLost`), so the merge that
  drops a change which is no worse never drops what it would have passed on.
  `Calm` is needed: at an intensity of 1.0 take two load-bearing effects of the
  retracted fact, with links of confidence 0.6 and 1.0 to one event that leads
  on to another; TLC finds that the weaker change, visited first, keeps the
  stronger one from reaching the last event.
* `PropagationIsCumulative` needs `OneMind` too: the POD does not assert and
  retract the same fact. Then what holds after a divergence is what the POD
  says, whichever of its facts have diverged so far (`HoldsIsPods`), so a longer
  history only adds arrivals. `CacheCorrect` and `OwedCorrect` have these two
  hypotheses and no other; `InstanceAssumption` of `MCChapterCycle` has TLC
  evaluate both of them, and what is concluded from them, on its graph.
* `HeadCorrect` is the other side of `stale_ingest`: with no ingest (`MaxIngests
  = 0`) the head is the number of chapters whenever no engine is at work, since
  a commit never leaves a chapter above the head (`Forward`) and none is missing
  below it (`Grounded`).
* `HybridMemoryProofs`: `HeldCorrect`, `ForgottenCorrect`, `HitsCorrect`,
  `SqliteCorrect`, from one invariant (`MemoryInv`): beside the four properties
  it says that an id, in the engine, the file, the index or SQLite, is of the
  content it was made from (`WellNamed`), which is why a stale row whose id was
  given out again still points to an item with the same words.
* `LibraryProofs`: `OrphanCorrect` (the chapters go to disk before the spans),
  `CurrentCorrect` (the mirror and the index are one ingest late at most, and so
  are the rows of a rebuild an ingest has overtaken, `CopiesInv`; a store that
  cannot be opened is one whose mirror an ingest failed to write, `MirrorInv`),
  `MarkedCorrect` (what a window names is in the database before its summary,
  its summary before its mark, and the marks only grow), and `SkippedCorrect`:
  `PlanInv` says that what is marked was read from the one canon there was and
  that a run leaves no window behind it unmarked, and `WindowOf` that for every
  window size and number of chapters each order falls into one of the windows,
  the rounding-up division included. `CountedCorrect` from `CountInv`: what the
  database counts is the sum over the windows marked, and over the one in work
  from its extraction to its mark. The step that marks it adds one term to a sum,
  so the sum must not depend on the order in which its terms are taken
  (`SumInAnyOrder`); that the new entities of a model are not counted among those
  of the rules comes from their ids having another form; and that every window is
  finite and legal, from what the ingests store (`StoresInv`). From
  `LibraryAssumption`.

*Sums, histories and loops.* Several of these theorems need induction over
numbers or finite sets, and the library's induction theorems, which take a
predicate, cannot be used. `Induction` and `SetInduction` state it for a *set*
instead (a set with 0 and closed under successor has all numbers), from `WFMin`
and the well-foundedness of `<`; each induction then names the set of the
numbers or subsets for which its claim holds. `SummedExists` and `SumUnrolled`
get from there to the value of `SumFunction`. The loop of `propagate` is a
recursive function over all states of the loop, also those from which it would
never end: `LoopExists` gives its equation a solution without knowing that it
ends, by what every closed set that has the state must contain.

Only model-checked. Liveness under fairness is beyond the prover: `TryResolves`,
`RunEnds`. Every other property of a passing run is stated by a theorem.

## 5. Not modelled, and why

* **Two writers.** No lock keeps two commands or the web studio from committing
  at the same time, and a manager that starts takes the other's transaction for
  an orphan. The models have one writer, with `ingest`, `enrich` and the index
  beside it, because that is how the tool is used and nothing in the repository
  says more; the hazards are listed with their lines.
* **Registries.** Facts and alignments of the canon store, the alias registry,
  the epistemic ledger, the power ladder and the identity tables are loaded and
  looked up; entities discovered by `enrich` are registered in that process's
  memory only. Their scoring and matching is text processing.
* **Gates no command calls.** The readiness gate, premises, the locked layers of
  the policy, the planner's sealing and `NarrativeDebtLedger` are reached by
  their own commands or tests and change nothing another part reads.
* **Legacy.** `matrix_33.py`, `checkers_canon_butterfly.py`, `sqlite_memory.py`,
  `topic_scanner.py`, `core/crash_recovery.py` and `engine.commit_chapter` are
  used by tests or by nothing.
* **Text and numbers.** Prompts and model calls, parsers, scores and ranks, style
  statistics, generated data and one-off scripts.
* **The undo's own errors.** Each step of the undo of a commit swallows its
  error; the model's undo always succeeds.
