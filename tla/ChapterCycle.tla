---------------------------- MODULE ChapterCycle ----------------------------
(***************************************************************************)
(* The writing of chapters: `write-next' and the daemon over the engine    *)
(* and its butterfly lifecycle, with `ingest' running beside them.  A      *)
(* chapter is drafted, what it changes of the canon is entered into the    *)
(* divergence ledger and saved, then the draft is audited, revised, and    *)
(* committed or dropped.  The commit is one step here (ChapterCommit has   *)
(* its inside).  Propagated stands for the propagation of Butterfly over   *)
(* the causal links of `enrich', which an engine has or has not.           *)
(***************************************************************************)
EXTENDS Integers, Sequences, FiniteSets, FiniteSetsExt, SequencesExt, Lists

CONSTANTS
    Texts,          \* what a text can be: a set of records [names, shows, good, fit]:
                    \* it names the POD's characters, it shows these ripples
                    \* [event, status, depth], the checkers pass it, its style fidelity
    ChangedFacts,   \* pod.json: a sequence of [fact, op, at]
    Propagated(_),  \* event -> [status, depth, force], for a sequence of divergences
    Windows,        \* _due_window, a pair for each of the depths 1, 2 and 3
    MaxOpen,        \* max_open_ripples
    MaxOverdue,     \* overdue ripples butterfly_debt lets pass (5)
    MaxRevisions,   \* max_revision_cycles
    Mimicry,        \* style.mode of the runtime policy is canon_mimicry
    MinFit,         \* canon_min_fidelity
    MaxChapters,    \* bound: the last chapter written
    MaxIngests,     \* bound: ingests started
    MaxLost         \* bound: chapters whose commit fails to write its records

ASSUME CycleAssumption ==
    /\ Texts # {}
    /\ Texts \subseteq [names : BOOLEAN, good : BOOLEAN, fit : Nat,
                        shows : SUBSET [event : STRING, status : STRING, depth : Nat]]
    /\ ChangedFacts \in Seq([fact : STRING, op : {"assert", "retract"}, at : Nat])
    /\ \A i, j \in DOMAIN ChangedFacts :
          /\ ChangedFacts[i].fact = ChangedFacts[j].fact
          /\ ChangedFacts[i].op = ChangedFacts[j].op
          => i = j
    /\ Len(Windows) = 3 /\ \A d \in 1..3 : Windows[d][1] \in Nat /\ Windows[d][2] \in Nat
    /\ MaxOpen \in Nat /\ MaxOverdue \in Nat /\ MaxRevisions \in Nat
    /\ MaxChapters \in Nat /\ MaxIngests \in Nat /\ MaxLost \in Nat
    /\ Mimicry \in BOOLEAN

Severity == [intact |-> 0, weakened |-> 1, altered |-> 2, cannot_happen |-> 3]

\* What may have diverged: facts of the POD, each once, in whatever chapters.
NoTwice(divs) ==
    \A i, j \in DOMAIN divs :
        divs[i].fact = divs[j].fact /\ divs[i].op = divs[j].op => i = j
Entries ==
    {[fact |-> ChangedFacts[i].fact, op |-> ChangedFacts[i].op, chapter |-> c] :
        i \in DOMAIN ChangedFacts, c \in 1..MaxChapters}
Histories ==
    {h \in UNION {[1..n -> Entries] : n \in 0..Len(ChangedFacts)} : NoTwice(h)}

\* What is asked of the propagation, and what Butterfly's is (ChapterCycleProofs):
\* it is typed and finite, and nothing as long as nothing has diverged; and a
\* further divergence never takes an event out or makes it less severe.
WellFormed ==
    /\ DOMAIN Propagated(<<>>) = {}
    /\ \A h \in Histories :
          /\ DOMAIN Propagated(h) \subseteq STRING /\ IsFiniteSet(DOMAIN Propagated(h))
          /\ Propagated(h) \in [DOMAIN Propagated(h) ->
                                   [status : DOMAIN Severity, depth : Nat \ {0}, force : Nat]]
Cumulative ==
    \A h \in Histories : \A n \in 0..Len(h) : \A e \in DOMAIN Propagated(SubSeq(h, 1, n)) :
        /\ e \in DOMAIN Propagated(h)
        /\ Severity[Propagated(SubSeq(h, 1, n))[e].status]
              <= Severity[Propagated(h)[e].status]

VARIABLES
    book,        \* chapters/: chapter number -> the text committed
    head,        \* current_chapter of project_meta.json
    ledger,      \* divergence_ledger.json: [divs, ripples]; history: blind, which of
                 \* the divergences were entered with no causal graph
    cache,       \* counterfactual.json: event -> [status, depth]
    torn,        \* which of the two a crash left half written
    records,     \* chapters in event_map.jsonl or with a compliance report
    unrecorded,  \* history: chapters whose commit could write neither
    run,         \* the engine at work, with what it holds in memory
    ingest,      \* the head a running ingest read when it started, or NoIngest
    ingests,     \* ingests started
    enriched     \* enrichment.db is there, with all of its causal links

vars == <<book, head, ledger, cache, torn, records, unrecorded, run, ingest, ingests,
          enriched>>
disk == <<ledger, cache, torn>>
story == <<book, head, records, unrecorded>>

NoRun == [at |-> "none"]
NoIngest == -1
Blank == CHOOSE t \in Texts : TRUE    \* until the text is drafted

-----------------------------------------------------------------------------
\* The ledger: ripples_due, overdue.
DueOrLate(l, ch) == {r \in l.ripples : ~r.paid /\ r.opens <= ch}    \* mutant
Due(l, ch) == {r \in l.ripples : ~r.paid /\ r.opens <= ch /\ ch <= r.closes}
Overdue(l, ch) == {r \in l.ripples : ~r.paid /\ r.closes < ch}

Registered(l, c) == \E i \in DOMAIN l.divs : l.divs[i].fact = c.fact /\ l.divs[i].op = c.op

\* _extract_divergences; the mutant looks at the chapter's own divergences only.
PodFactsNow(ch, text) == {c \in Range(ChangedFacts) : c.at <= ch /\ text.names}
NewsOfChapter(l, ch, text) ==
    Kept(ChangedFacts, {c \in PodFactsNow(ch, text) :
                          ~ \E i \in DOMAIN l.divs : l.divs[i].fact = c.fact
                                                     /\ l.divs[i].chapter = ch})
News(l, ch, text) ==
    Kept(ChangedFacts, {c \in PodFactsNow(ch, text) : ~Registered(l, c)})

\* _due_window
Window(depth) == Windows[IF depth < 3 THEN depth ELSE 3]

\* ripples_from: the most urgent of what the k-th divergence brings about.  At
\* the cap a tie goes to the event reached first, for which the choice stands.
Priority(st) == st.force * (IF st.status = "cannot_happen" THEN 10 ELSE 6)
Hit(status) == {e \in DOMAIN status : status[e].status # "intact"}
Urgent(status) ==
    IF Cardinality(Hit(status)) <= MaxOpen THEN Hit(status)
    ELSE CHOOSE top \in SUBSET Hit(status) :
            /\ Cardinality(top) = MaxOpen
            /\ \A e \in top, x \in Hit(status) \ top :
                  Priority(status[x]) <= Priority(status[e])
RipplesOf(status, k, ch) ==
    {[event |-> e, status |-> status[e].status, depth |-> status[e].depth, from |-> k,
      opens |-> ch + Window(status[e].depth)[1],
      closes |-> ch + Window(status[e].depth)[2], paid |-> FALSE] : e \in Urgent(status)}
RipplesBefore(divs, k) ==   \* mutant: propagated before the divergence is appended
    RipplesOf(Propagated(SubSeq(divs, 1, k - 1)), k, divs[k].chapter)
Ripples(divs, k) == RipplesOf(Propagated(SubSeq(divs, 1, k)), k, divs[k].chapter)

\* add_divergence for each of the news.  With no graph bound it only appends, and
\* the fact is registered: no later add_divergence makes up for its ripples.
Diverged(l, ch, news) ==
    l.divs \o [i \in DOMAIN news |-> [fact |-> news[i].fact, op |-> news[i].op, chapter |-> ch]]
Entered(l, divs, bound) ==
    LET new == (Len(l.divs) + 1)..Len(divs)
    IN  [divs    |-> divs,
         ripples |-> IF bound THEN l.ripples \cup UNION {Ripples(divs, k) : k \in new}
                     ELSE l.ripples,
         blind   |-> IF bound THEN l.blind ELSE l.blind \cup new]

\* mark_satisfied for each of the due ripples the text shows.
Shown(r, text) == [event |-> r.event, status |-> r.status, depth |-> r.depth] \in text.shows
Settled(l, ch, text) ==
    LET paid == {r \in Due(l, ch) : Shown(r, text)}
    IN  [l EXCEPT !.ripples = (@ \ paid) \cup {[r EXCEPT !.paid = TRUE] : r \in paid}]

Lifecycle(l, ch, text, bound) ==
    Settled(Entered(l, Diverged(l, ch, News(l, ch, text)), bound), ch, text)

\* _refresh_counterfactual: the new statuses over the old ones, if there is a graph.
Refreshed(c, divs, bound) ==
    LET status == Propagated(divs)
    IN  IF bound
        THEN [e \in DOMAIN c \cup DOMAIN status |->
                 IF e \in DOMAIN status
                 THEN [status |-> status[e].status, depth |-> status[e].depth]
                 ELSE c[e]]
        ELSE c

\* StyleRewriteLoop: rounds that each better the fidelity, or the text as it was.
Polished(text) ==
    IF Mimicry /\ text.fit < MinFit
    THEN {text} \cup {t \in Texts : t.fit > text.fit}
    ELSE {text}

\* The verdict of the receipt: the text's own faults, and the debt of the ledger.
\* The code lets five overdue ripples pass where the specification lets none.
Passes(text, l, ch) == text.good /\ Cardinality(Overdue(l, ch)) <= MaxOverdue

-----------------------------------------------------------------------------
Init ==
    /\ book = <<>> /\ head = 0
    /\ ledger = [divs |-> <<>>, ripples |-> {}, blind |-> {}] /\ cache = [e \in {} |-> ""]
    /\ torn = {} /\ enriched = FALSE
    /\ records = {} /\ unrecorded = {}
    /\ run = NoRun /\ ingest = NoIngest /\ ingests = 0

\* cmd_write_next, start_batch_job: an engine is made, loads the ledger and binds
\* it to the causal graph if there is one.
Start(daemon, forced, count) ==
    /\ run = NoRun /\ torn = {} /\ head + count <= MaxChapters
    /\ run' = [at |-> "plan", daemon |-> daemon, forced |-> forced, left |-> count,
               ch |-> head + 1, text |-> Blank, led |-> ledger,
               cache |-> cache, cycles |-> 0, bound |-> enriched]
    /\ UNCHANGED <<story, disk, ingest, ingests, enriched>>
WriteNext == \E forced \in BOOLEAN : Start(FALSE, forced, 1)
Batch == \E count \in 1..MaxChapters : Start(TRUE, FALSE, count)

At(place) == run.at = place

\* plan_chapter to _butterfly_lifecycle, in memory.
Draft ==
    /\ At("plan")
    /\ \E raw \in Texts : \E t \in Polished(raw) :
       \E l \in {Lifecycle(run.led, run.ch, t, run.bound)} :
          run' = [run EXCEPT !.text = t, !.led = l, !.cycles = 0, !.at = "ledger",
                             !.cache = Refreshed(@, l.divs, run.bound)]
    /\ UNCHANGED <<story, disk, ingest, ingests, enriched>>

\* _save_butterfly_state: two files, one after the other.
SaveCacheFirst ==       \* mutant: the cache is saved where the ledger should be
    /\ At("ledger")
    /\ cache' = run.cache
    /\ run' = [run EXCEPT !.at = "cache"]
    /\ UNCHANGED <<story, ledger, torn, ingest, ingests, enriched>>
SaveLedger ==
    /\ At("ledger")
    /\ ledger' = run.led
    /\ run' = [run EXCEPT !.at = "cache"]
    /\ UNCHANGED <<story, cache, torn, ingest, ingests, enriched>>
SaveCache ==
    /\ At("cache")
    /\ cache' = run.cache
    /\ run' = [run EXCEPT !.at = "audit"]
    /\ UNCHANGED <<story, ledger, torn, ingest, ingests, enriched>>

\* The revision loop: the receipt or the critic asks for another text.
ReviseUncounted ==      \* mutant: the cycles are not counted
    /\ At("audit") /\ run.cycles < MaxRevisions
    /\ \E t \in Texts : run' = [run EXCEPT !.text = t]
    /\ UNCHANGED <<story, disk, ingest, ingests, enriched>>
Revise ==
    /\ At("audit") /\ run.cycles < MaxRevisions
    /\ \E t \in Texts : run' = [run EXCEPT !.text = t, !.cycles = @ + 1]
    /\ UNCHANGED <<story, disk, ingest, ingests, enriched>>

ReceiptPasses == Passes(run.text, run.led, run.ch)
Judged == At("audit") /\ (ReceiptPasses \/ run.cycles = MaxRevisions)

\* The daemon goes on with the next chapter, write-next ends.
NextChapterOverrun ==   \* mutant: one chapter too many
    IF run.left >= 1
    THEN [run EXCEPT !.at = "plan", !.ch = @ + 1, !.left = @ - 1, !.text = Blank]
    ELSE NoRun
NextChapter ==
    IF run.left > 1
    THEN [run EXCEPT !.at = "plan", !.ch = @ + 1, !.left = @ - 1, !.text = Blank]
    ELSE NoRun

\* commit_transaction; a text that is there already is only acknowledged.
Commit ==
    /\ Judged /\ (ReceiptPasses \/ run.forced)
    /\ run' = NextChapter
    /\ IF run.ch \in DOMAIN book /\ book[run.ch] = run.text
       THEN UNCHANGED story
       ELSE /\ book' = [c \in DOMAIN book \cup {run.ch} |->
                           IF c = run.ch THEN run.text ELSE book[c]]
            /\ head' = IF run.ch > head THEN run.ch ELSE head
            /\ \/ records' = records \cup {run.ch} /\ UNCHANGED unrecorded
               \/ /\ Cardinality(unrecorded) < MaxLost       \* governance is best effort
                  /\ unrecorded' = unrecorded \cup {run.ch} /\ UNCHANGED records
    /\ UNCHANGED <<disk, ingest, ingests, enriched>>

\* AUDIT_GATE blocks the chapter: write-next returns, the daemon breaks its loop.
BlockedGoesOn ==        \* mutant: the daemon goes on with the next chapter
    /\ Judged /\ ~ReceiptPasses /\ ~run.forced
    /\ run' = NextChapter
    /\ UNCHANGED <<story, disk, ingest, ingests, enriched>>
Blocked ==
    /\ Judged /\ ~ReceiptPasses /\ ~run.forced
    /\ run' = NoRun
    /\ UNCHANGED <<story, disk, ingest, ingests, enriched>>

\* The author declines, an agent or the commit raises, or the process dies.
Stop ==
    /\ run # NoRun
    /\ run' = NoRun
    /\ UNCHANGED <<story, disk, ingest, ingests, enriched>>
\* The process dies inside one of the two writes, which truncate the file first.
Tear ==
    /\ At("ledger") \/ At("cache")
    /\ torn' = torn \cup {run.at}
    /\ run' = NoRun
    /\ UNCHANGED <<story, ledger, cache, ingest, ingests, enriched>>

\* cmd_ingest reads project_meta.json, works for minutes, and writes all of it back.
IngestStart ==
    /\ ingest = NoIngest /\ ingests < MaxIngests
    /\ ingest' = head /\ ingests' = ingests + 1
    /\ UNCHANGED <<story, disk, run, enriched>>
IngestEnd ==
    /\ ingest # NoIngest
    /\ head' = ingest /\ ingest' = NoIngest
    /\ UNCHANGED <<book, records, unrecorded, disk, run, ingests, enriched>>

\* cmd_enrich leaves a causal graph, for the engines made from then on.
Enrich ==
    /\ ~enriched /\ enriched' = TRUE
    /\ UNCHANGED <<story, disk, run, ingest, ingests>>

Work == Draft \/ SaveLedger \/ SaveCache \/ Revise \/ Commit \/ Blocked
Next == WriteNext \/ Batch \/ Work \/ Stop \/ Tear \/ IngestStart \/ IngestEnd \/ Enrich

\* An engine that has been started works on: its steps are one thread's.
Spec == Init /\ [][Next]_vars /\ WF_vars(Work)

-----------------------------------------------------------------------------
\* derive_chapter_numbers; the mutant trusts the head alone.
DerivedFromHead == 1..head
Derived == 1..head \cup records

Ledgers == [divs : Seq([fact : STRING, op : {"assert", "retract"}, chapter : 1..MaxChapters]),
            ripples : SUBSET [event : STRING, status : DOMAIN Severity, depth : Nat,
                              from : Nat \ {0}, opens : Nat, closes : Nat, paid : BOOLEAN],
            blind : SUBSET (Nat \ {0})]
Runs == [at : {"plan", "ledger", "cache", "audit"}, daemon : BOOLEAN, forced : BOOLEAN,
         left : 1..MaxChapters, ch : 1..MaxChapters, text : Texts, led : Ledgers,
         cache : {run.cache}, cycles : 0..MaxRevisions, bound : BOOLEAN]

\* The types of the variables; an engine at work is within its bounds: the
\* revision cycles of the loop and the chapters of the batch.
TypeOK ==
    /\ DOMAIN book \subseteq 1..MaxChapters /\ \A c \in DOMAIN book : book[c] \in Texts
    /\ head \in 0..MaxChapters /\ ledger \in Ledgers /\ torn \subseteq {"ledger", "cache"}
    /\ records \cup unrecorded \subseteq DOMAIN book
    /\ run = NoRun \/ (run \in Runs /\ run.ch + run.left <= MaxChapters + 1)
    /\ ingest \in -1..MaxChapters /\ ingests \in 0..MaxIngests /\ enriched \in BOOLEAN

\* A fact of the POD diverges once: over crashes, dropped drafts and chapters
\* written again, the ledger never holds the same fact and op twice.
OncePerFact == NoTwice(ledger.divs)

\* What the writer is told has changed is never worse than the saved ledger
\* accounts for, also when the process died between the two files.
CacheNeverAhead ==
    \A e \in DOMAIN cache :
        /\ e \in DOMAIN Propagated(ledger.divs)
        /\ Severity[cache[e].status] <= Severity[Propagated(ledger.divs)[e].status]

\* The divergences after which an event was no longer as in the canon, and those
\* whose ripples cannot have got into the ledger: there was no graph, or they hit
\* more events than the ledger takes on at once.
HitAfter(e) ==
    {n \in DOMAIN ledger.divs : e \in Hit(Propagated(SubSeq(ledger.divs, 1, n)))}
Unheard ==
    {n \in DOMAIN ledger.divs :
        \/ n \in ledger.blind
        \/ Cardinality(Hit(Propagated(SubSeq(ledger.divs, 1, n)))) > MaxOpen}

\* An event the writer is forbidden to write, because it cannot happen any
\* more, has its consequence in the ledger, to be shown some day; unless every
\* divergence that hit it was entered before `enrich' (engine.py:168 never enters
\* it again, and forbids its events all the same) or was over the cap.
ConsequencesOwed ==
    \A e \in DOMAIN cache :
        cache[e].status = "cannot_happen" =>
            \/ \E r \in ledger.ripples : r.event = e
            \/ HitAfter(e) # {} /\ HitAfter(e) \subseteq Unheard

\* The story has no gap, whatever blocked, died, or set the head back.
NoGap == \A c \in DOMAIN book : 1..c \subseteq DOMAIN book

\* `audit --all' sees every chapter of the story, unless the commit of that
\* chapter could write neither of its records.
AuditSeesStory == DOMAIN book \subseteq Derived \cup unrecorded

\* Once more ripples are overdue than the gate lets pass, they stay so whatever is
\* drafted, revised, dropped or started again, and no chapter follows unless it is
\* forced (or an ingest sets the head back).  The checker asks to make the overdue
\* ripples happen; what shows one is not looked at, since it is not due any more.
InDebt == Cardinality(Overdue(ledger, head + 1)) > MaxOverdue
DebtIsForGood ==
    [][InDebt => \/ head' < head
                 \/ InDebt' /\ (book' # book => run.forced)]_vars

\* Whoever writes gets an answer: the revision loop and the batch end.
RunEnds == run # NoRun ~> run = NoRun

-----------------------------------------------------------------------------
\* Said of the program, and not so.
\* The ledger asks nothing for a chapter that does not exist (the specification
\* wants the ripples in the chapter's transaction for this reason).
NoDebtForMissingChapters ==
    run = NoRun => \A r \in ledger.ripples : ledger.divs[r.from].chapter \in DOMAIN book

\* The head in project_meta.json is the story's last chapter (INV-2).
HeadIsStory == run = NoRun /\ ingest = NoIngest => head = Cardinality(DOMAIN book)
=============================================================================
