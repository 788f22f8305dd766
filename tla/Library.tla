------------------------------ MODULE Library ------------------------------
(***************************************************************************)
(* What a project knows of the canon: CanonStore, filled by `ingest', with *)
(* its files and search index, and the knowledge `enrich' extracts from it *)
(* window by window into the enrichment database, with the checkpoint it   *)
(* resumes from.  The two commands run at the same time, and die.          *)
(***************************************************************************)
EXTENDS Integers, FiniteSets, Sequences, Functions, FiniteSetsExt

CONSTANTS
    Spines,      \* the spines of epubs: sequences of [kind, text], text the
                 \* passages it is cut into, kind "chapter", "thin" (too short for
                 \* the parser, or unreadable) or "junk" (dropped by cmd_ingest)
    Entities,    \* what the rules of the structural extractor know
    Mentions,    \* passage -> entity -> how often it is named with valid evidence
    Strangers,   \* passage -> the entities a model can discover in it
    Options,     \* arguments of enrich: a set of [size, max, resume, structural]
    NoCanon,     \* total_chapters when there is no canon (1409)
    MaxIngests,  \* bound: ingests
    MaxRuns      \* bound: enrichment runs

ASSUME LibraryAssumption ==
    /\ \A spine \in Spines :
          spine \in Seq([kind : {"chapter", "thin", "junk"}, text : Seq(DOMAIN Mentions)])
    /\ Mentions \in [DOMAIN Mentions -> [Entities -> Nat]]
    \* a discovered entity has an id of another form (semantic_extractor.py:149)
    /\ \A passage \in DOMAIN Mentions : Strangers[passage] \cap Entities = {}
    /\ \A o \in Options : o.size \in Nat \ {0} /\ o.max \in Nat
    /\ NoCanon \in Nat /\ MaxIngests \in Nat /\ MaxRuns \in Nat

VARIABLES
    chapters,    \* canon_chapters.json: the ids of the chapters
    spans,       \* canon_spans.json: id -> [passage, order, chapter]
    chunks,      \* canon_chunks.json, their mirror: id -> passage
    index,       \* canon_fts.db: id -> passage; empty when it is not there
    ing,         \* an ingest at work, with the store it holds in memory
    ingests,
    reb,         \* a rebuild of the index at work, with the rows it will write
    stale,       \* history: which of "chunks" and "index" was left behind the spans
    counts,      \* entities of enrichment.db: entity -> mention_count
    arcs,        \* windows with an arc summary (and relations, links, records)
    saved,       \* enrichment_checkpoint.json: [torn, done]
    enr,         \* an enrichment run at work
    runs,
    marked,      \* history: window -> what it had read when it was last marked
    clean,       \* history: no window has been done twice or left half done
    bases,       \* history: what the runs have started from
    finished     \* history: what a run has got to the end of

vars == <<chapters, spans, chunks, index, ing, ingests, reb, stale, counts, arcs, saved, enr,
          runs, marked, clean, bases, finished>>
canon == <<chapters, spans, chunks, index, ing, ingests, reb, stale>>
knowledge == <<counts, arcs>>
enrichment == <<counts, arcs, saved, enr, runs, marked, clean, bases, finished>>

Idle == [at |-> "idle"]
NoMap == [x \in {} |-> x]

-----------------------------------------------------------------------------
\* parse_epub_spine and the filter of cmd_ingest: what is thin has a place in
\* the spine but no number, junk has both and is dropped all the same.
Numbered(spine, i) == Cardinality({j \in 1..i : spine[j].kind # "thin"})
Documents(spine) ==
    {[index |-> Numbered(spine, i), order |-> i, text |-> spine[i].text] :
        i \in {j \in DOMAIN spine : spine[j].kind = "chapter"}}

\* What ingest_spine_docs, or ingest_chunks, puts into the store: a span is
\* named by its place, a chapter by its order and text, or by its number.
DocChapters(docs) == [d \in docs |-> <<d.order, d.text>>]
ChunkChapters(docs) == [d \in docs |-> <<d.index>>]
NewSpans(chapter) ==
    LET docs == DOMAIN chapter
        From(id) == CHOOSE d \in docs : d.index = id[1]
    IN  [id \in UNION {{d.index} \X DOMAIN d.text : d \in docs} |->
            [passage |-> From(id).text[id[2]], order |-> From(id).order,
             chapter |-> chapter[From(id)]]]
Over(old, new) ==
    [id \in DOMAIN old \cup DOMAIN new |-> IF id \in DOMAIN new THEN new[id] ELSE old[id]]

Indexed(store) == [id \in DOMAIN store |-> store[id].passage]

\* _load_all: every CanonStore() loads the three files.  With spans and no mirror it
\* raises where it sets out to make the mirror, so then there is no store at all.
Opens == DOMAIN chunks # {} \/ DOMAIN spans = {}
With(chapter) ==
    [at |-> "chapters", spans |-> Over(spans, NewSpans(chapter)),
     chapters |-> chapters \cup Range(chapter),
     chunks |-> Over(chunks, Indexed(NewSpans(chapter)))]

\* search_canon for a name: the index, by word or by substring, or the mirror
\* when the index has nothing.
Names(passage, e) == Mentions[passage][e] > 0
HitsIn(rows, e) == {<<id, rows[id]>> : id \in {i \in DOMAIN rows : Names(rows[i], e)}}
Search(e) == IF HitsIn(index, e) # {} THEN HitsIn(index, e) ELSE HitsIn(chunks, e)

\* extract_from_chunks and validate: how often what has been read names an entity.
Mentioned(read, e) == SumFunction([id \in DOMAIN read |-> Mentions[read[id]][e]])
Found(read) == UNION {Strangers[passage] : passage \in Range(read)}

\* add_entities: one transaction, counts are added up.
Counted(known, new) ==
    [e \in DOMAIN known \cup DOMAIN new |->
        (IF e \in DOMAIN known THEN known[e] ELSE 0) + (IF e \in DOMAIN new THEN new[e] ELSE 0)]
Structural(read) ==
    [e \in {x \in Entities : \E passage \in Range(read) : Names(passage, x)} |->
        Mentioned(read, e)]

Least(a, b) == IF a < b THEN a ELSE b
Total(max) ==
    LET orders == {spans[id].order : id \in DOMAIN spans}
        all == IF chapters # {} THEN Cardinality(chapters)
               ELSE IF orders # {} THEN Max(orders)
               ELSE NoCanon
    IN  IF max = 0 THEN all ELSE Least(all, max)

-----------------------------------------------------------------------------
Init ==
    /\ chapters = {} /\ spans = NoMap /\ chunks = NoMap /\ index = NoMap
    /\ ing = Idle /\ ingests = 0 /\ reb = Idle /\ stale = {}
    /\ counts = NoMap /\ arcs = {} /\ saved = [torn |-> FALSE, done |-> {}]
    /\ enr = Idle /\ runs = 0
    /\ marked = NoMap /\ clean = TRUE /\ bases = {} /\ finished = {}

\* cmd_ingest parses the epub, opens the store and takes the documents in.
Ingest ==
    /\ ing = Idle /\ ingests < MaxIngests /\ Opens
    /\ \E spine \in Spines : \/ ing' = With(DocChapters(Documents(spine)))
                             \/ ing' = With(ChunkChapters(Documents(spine)))
    /\ ingests' = ingests + 1
    /\ UNCHANGED <<chapters, spans, chunks, index, reb, stale, enrichment>>

\* _save_all: each file is written beside itself and renamed, one after the other.
SaveSpansFirst ==       \* mutant: the spans before the chapters they are of
    /\ ing.at = "chapters"
    /\ spans' = ing.spans
    /\ ing' = [ing EXCEPT !.at = "spans"]
    /\ UNCHANGED <<chapters, chunks, index, ingests, reb, stale, enrichment>>
SaveChapters ==
    /\ ing.at = "chapters"
    /\ chapters' = ing.chapters
    /\ ing' = [ing EXCEPT !.at = "spans"]
    /\ UNCHANGED <<spans, chunks, index, ingests, reb, stale, enrichment>>
SaveSpans ==
    /\ ing.at = "spans"
    /\ spans' = ing.spans
    /\ ing' = [ing EXCEPT !.at = "chunks"]
    /\ reb' = IF reb = Idle THEN Idle ELSE [reb EXCEPT !.overtaken = TRUE]
    /\ UNCHANGED <<chapters, chunks, index, ingests, stale, enrichment>>
\* An error in writing the mirror is swallowed.
SaveChunks ==
    /\ ing.at = "chunks"
    /\ \/ chunks' = ing.chunks /\ UNCHANGED stale
       \/ stale' = stale \cup {"chunks"} /\ UNCHANGED chunks
    /\ ing' = [ing EXCEPT !.at = "index"]
    /\ UNCHANGED <<chapters, spans, index, ingests, reb, enrichment>>

\* rebuild_fts, from the store in memory; its errors are swallowed too.
ReindexOld ==           \* mutant: the index keeps the rows it has
    /\ ing.at = "index"
    /\ index' = Over(Indexed(ing.spans), index) /\ stale' = stale \ {"index"}
    /\ ing' = Idle
    /\ UNCHANGED <<chapters, spans, chunks, ingests, reb, enrichment>>
Reindex ==
    /\ ing.at = "index"
    /\ index' = Indexed(ing.spans) /\ stale' = stale \ {"index"}
    /\ ing' = Idle
    /\ UNCHANGED <<chapters, spans, chunks, ingests, reb, enrichment>>
\* The process dies, or the rebuild fails before or after it dropped the table.
IngestDies ==
    /\ ing # Idle
    /\ \/ UNCHANGED index
       \/ ing.at = "index" /\ index' = NoMap
    /\ ing' = Idle
    /\ stale' = stale \cup (CASE ing.at = "chunks" -> {"chunks", "index"}
                             [] ing.at = "index"  -> {"index"}
                             [] OTHER -> {})
    /\ UNCHANGED <<chapters, spans, chunks, ingests, reb, enrichment>>

\* cmd_rebuild_index, and a search that finds no table: another process opens the
\* store and writes the index from what it loaded, beside an ingest or not.
OpenRebuild ==
    /\ reb = Idle /\ Opens
    /\ reb' = [at |-> "index", rows |-> Indexed(spans), overtaken |-> FALSE]
    /\ UNCHANGED <<chapters, spans, chunks, index, ing, ingests, stale, enrichment>>
RebuildIndex ==
    /\ reb # Idle
    /\ index' = reb.rows
    /\ stale' = IF reb.overtaken THEN stale \cup {"index"} ELSE stale \ {"index"}
    /\ reb' = Idle
    /\ UNCHANGED <<chapters, spans, chunks, ing, ingests, enrichment>>
\* It fails or dies, before or after it dropped the table.
RebuildDies ==
    /\ reb # Idle
    /\ index' \in {index, NoMap}
    /\ reb' = Idle
    /\ UNCHANGED <<chapters, spans, chunks, ing, ingests, stale, enrichment>>

-----------------------------------------------------------------------------
\* cmd_enrich loads the canon and the checkpoint; a torn checkpoint stops it.
Enrich ==
    /\ enr = Idle /\ runs < MaxRuns /\ ~saved.torn /\ Opens
    /\ \E opt \in Options :
          LET base == [size |-> opt.size, total |-> Total(opt.max), store |-> spans]
          IN  /\ enr' = [at |-> "next", w |-> 1, base |-> base, done |-> saved.done,
                         resume |-> opt.resume, structural |-> opt.structural]
              /\ bases' = bases \cup {base}
    /\ runs' = runs + 1
    /\ UNCHANGED <<canon, knowledge, saved, marked, clean, finished>>

Windows(base) == (base.total + base.size - 1) \div base.size
\* _load_chunks_in_range: by the order in the spine.
InWindow(base, w) ==
    {id \in DOMAIN base.store :
        /\ (w - 1) * base.size + 1 <= base.store[id].order
        /\ base.store[id].order <= Least(w * base.size, base.total)}
Window(base, w) == [id \in InWindow(base, w) |-> base.store[id].passage]

AtWindow == enr.at = "next" /\ enr.w <= Windows(enr.base)
Skips == enr.resume /\ enr.w \in enr.done

SkipWindow ==
    /\ AtWindow /\ Skips
    /\ enr' = [enr EXCEPT !.w = @ + 1]
    /\ UNCHANGED <<canon, knowledge, saved, runs, marked, clean, bases, finished>>

\* The structural entities of a window; one without chunks has nothing to do.
ExtractAnyway ==        \* mutant: the checkpoint is not asked
    /\ AtWindow
    /\ LET read == Window(enr.base, enr.w)
       IN  /\ counts' = Counted(counts, Structural(read))
           /\ enr' = [enr EXCEPT !.at = IF read = NoMap \/ enr.structural
                                          THEN "mark" ELSE "semantic"]
    /\ clean' = (clean /\ (enr.w \notin enr.done \/ enr.resume))
    /\ UNCHANGED <<canon, arcs, saved, runs, marked, bases, finished>>
Extract ==
    /\ AtWindow /\ ~Skips
    /\ LET read == Window(enr.base, enr.w)
       IN  /\ counts' = Counted(counts, Structural(read))
           /\ enr' = [enr EXCEPT !.at = IF read = NoMap \/ enr.structural
                                          THEN "mark" ELSE "semantic"]
    /\ clean' = (clean /\ enr.w \notin enr.done)
    /\ UNCHANGED <<canon, arcs, saved, runs, marked, bases, finished>>

\* extract_from_window: what the model discovers; nothing when it fails and the
\* heuristic answers.
Discover ==
    /\ enr.at = "semantic"
    /\ \E new \in SUBSET Found(Window(enr.base, enr.w)) :
          counts' = Counted(counts, [e \in new |-> 1])
    /\ enr' = [enr EXCEPT !.at = "arc"]
    /\ UNCHANGED <<canon, arcs, saved, runs, marked, clean, bases, finished>>
\* add_relationships, add_causal_links, add_epistemic, add_arc_summary: upserts,
\* the summary the last of them.
Summarise ==
    /\ enr.at = "arc"
    /\ arcs' = arcs \cup {enr.w}
    /\ enr' = [enr EXCEPT !.at = "mark"]
    /\ UNCHANGED <<canon, counts, saved, runs, marked, clean, bases, finished>>

\* mark_window_completed and save, which truncates the file before it writes.
Read == [passages |-> Window(enr.base, enr.w),
         summarised |-> ~enr.structural /\ Window(enr.base, enr.w) # NoMap]
MarkWindow == [w \in DOMAIN marked \cup {enr.w} |-> IF w = enr.w THEN Read ELSE marked[w]]
MarkBeforeArc ==        \* mutant: the window is marked before its summary is stored
    /\ enr.at \in {"arc", "mark"}
    /\ saved' = [torn |-> FALSE, done |-> enr.done \cup {enr.w}]
    /\ marked' = MarkWindow
    /\ enr' = [enr EXCEPT !.at = "next", !.w = @ + 1, !.done = @ \cup {enr.w}]
    /\ UNCHANGED <<canon, knowledge, runs, clean, bases, finished>>
Mark ==
    /\ enr.at = "mark"
    /\ saved' = [torn |-> FALSE, done |-> enr.done \cup {enr.w}]
    /\ marked' = MarkWindow
    /\ enr' = [enr EXCEPT !.at = "next", !.w = @ + 1, !.done = @ \cup {enr.w}]
    /\ UNCHANGED <<canon, knowledge, runs, clean, bases, finished>>

EnrichEndsEarly ==      \* mutant: one window short
    /\ enr.at = "next" /\ enr.w >= Windows(enr.base)
    /\ finished' = finished \cup {enr.base}
    /\ enr' = Idle
    /\ UNCHANGED <<canon, knowledge, saved, runs, marked, clean, bases>>
EnrichEnds ==
    /\ enr.at = "next" /\ enr.w > Windows(enr.base)
    /\ finished' = finished \cup {enr.base}
    /\ enr' = Idle
    /\ UNCHANGED <<canon, knowledge, saved, runs, marked, clean, bases>>

EnrichDies ==
    /\ enr # Idle
    /\ \/ UNCHANGED saved
       \/ enr.at = "mark" /\ saved' = [saved EXCEPT !.torn = TRUE]
    /\ clean' = (clean /\ enr.at = "next")
    /\ enr' = Idle
    /\ UNCHANGED <<canon, knowledge, runs, marked, bases, finished>>

Next ==
    \/ Ingest \/ SaveChapters \/ SaveSpans \/ SaveChunks \/ Reindex \/ IngestDies
    \/ OpenRebuild \/ RebuildIndex \/ RebuildDies
    \/ Enrich \/ SkipWindow \/ Extract \/ Discover \/ Summarise \/ Mark
    \/ EnrichEnds \/ EnrichDies

Spec == Init /\ [][Next]_vars

-----------------------------------------------------------------------------
\* A span is of a chapter that is there, whenever the ingest died.
NoOrphanSpans == \A id \in DOMAIN spans : spans[id].chapter \in chapters

\* What a search of the canon finds is the text of the edition ingested last: in
\* the index, unless that ingest did not get to the end of it, or overtook a rebuild
\* that had loaded the old text, and it has not been rebuilt since; in the mirror,
\* unless an ingest ever failed to write it.  Only such a failure leaves a store that
\* cannot be opened to search at all.
HitsAreCurrent ==
    ing = Idle =>
        /\ Opens \/ "chunks" \in stale
        /\ \A e \in Entities : \A hit \in Search(e) :
              \/ hit[1] \in DOMAIN spans /\ spans[hit[1]].passage = hit[2]
              \/ hit \in HitsIn(index, e) /\ "index" \in stale
              \/ hit \in HitsIn(chunks, e) /\ "chunks" \in stale

\* A window the checkpoint holds for completed has its knowledge in the
\* database: what its passages name and, unless only the structure was wanted,
\* its summary.
MarkedIsStored ==
    \A w \in saved.done :
        /\ w \in DOMAIN marked
        /\ \A passage \in Range(marked[w].passages), e \in Entities :
              Names(passage, e) => e \in DOMAIN counts
        /\ marked[w].summarised => w \in arcs

\* Resumed as often as it may be, the enrichment counts each mention once, as
\* long as no run died inside a window and none was told not to resume.
CountedOnce ==
    clean /\ enr = Idle =>
        \A e \in Entities :
            (IF e \in DOMAIN counts THEN counts[e] ELSE 0)
            = SumFunction([w \in saved.done |-> Mentioned(marked[w].passages, e)])

\* Once a run has come to its end, no passage is left out, whatever died before:
\* as long as all runs had the same canon, window size and number of chapters,
\* and up to the chapter whose order is the number of chapters.
NothingSkipped ==
    \A base \in finished : bases = {base} =>
        \A id \in DOMAIN base.store :
            base.store[id].order \in 1..base.total =>
                \E w \in DOMAIN marked :
                    /\ id \in DOMAIN marked[w].passages
                    /\ marked[w].passages[id] = base.store[id].passage
=============================================================================
