---------------------------- MODULE LibraryProofs ----------------------------
(***************************************************************************)
(* NoOrphanSpans, HitsAreCurrent, MarkedIsStored, NothingSkipped and       *)
(* CountedOnce of Library for every canon, set of options and bound.       *)
(***************************************************************************)
EXTENDS Library, FiniteSetTheorems, TLAPS

Owned(store, known) == \A id \in DOMAIN store : store[id].chapter \in known
Agrees(rows, store) ==
    \A id \in DOMAIN rows : id \in DOMAIN store /\ store[id].passage = rows[id]

\* The chapters go to disk before the spans that name them.
ChaptersInv ==
    /\ Owned(spans, chapters)
    /\ ing.at # "idle" => Owned(ing.spans, ing.chapters) /\ chapters \subseteq ing.chapters
    /\ ing.at = "spans" => chapters = ing.chapters

\* Behind the spans on disk the mirror and the index are one ingest late at most,
\* and so are the rows of a rebuild an ingest has overtaken.
At(places) == ing.at \in places
CopiesInv ==
    /\ At({"idle", "chapters", "spans", "chunks", "index"})
    /\ At({"chunks", "index"}) => ing.spans = spans
    /\ "index" \in stale \/ At({"chunks", "index"}) \/ Agrees(index, spans)
    /\ \/ "chunks" \in stale
       \/ /\ At({"chunks"}) \/ Agrees(chunks, spans)
          /\ At({"chapters", "spans", "chunks"}) => Agrees(ing.chunks, ing.spans)
    /\ reb # Idle => "overtaken" \in DOMAIN reb /\ (reb.overtaken \/ Agrees(reb.rows, spans))

\* A store that cannot be opened is one whose mirror was never written.
MirrorInv ==
    /\ Opens \/ At({"chunks"}) \/ "chunks" \in stale
    /\ At({"chapters", "spans", "chunks"}) =>
          DOMAIN ing.chunks # {} \/ DOMAIN ing.spans = {}

-----------------------------------------------------------------------------
LEMMA OverOwned ==
    ASSUME NEW old, NEW new, NEW C, NEW D, Owned(old, C), Owned(new, D)
    PROVE  Owned(Over(old, new), C \cup D)
BY DEF Owned, Over

LEMMA OverAgrees ==
    ASSUME NEW rows, NEW store, NEW new, Agrees(rows, store)
    PROVE  Agrees(Over(rows, Indexed(new)), Over(store, new))
BY DEF Agrees, Over, Indexed

LEMMA IndexedAgrees == ASSUME NEW store PROVE Agrees(Indexed(store), store)
BY DEF Agrees, Indexed

LEMMA EmptyMap == DOMAIN NoMap = {}
BY DEF NoMap

LEMMA OverDomain ==
    ASSUME NEW rows, NEW new
    PROVE  /\ DOMAIN Over(rows, new) = DOMAIN rows \cup DOMAIN new
           /\ DOMAIN Over(rows, Indexed(new)) = DOMAIN rows \cup DOMAIN new
BY DEF Over, Indexed

\* What an ingest takes in: its spans are of its chapters, its mirror is theirs.
LEMMA WithInv ==
    ASSUME NEW chapter, ChaptersInv, CopiesInv, Opens, At({"idle"}), ing' = With(chapter),
           UNCHANGED <<chapters, spans, chunks, index, reb, stale>>
    PROVE  ChaptersInv' /\ CopiesInv' /\ MirrorInv'
<1>1. ing'.at = "chapters" /\ chapters \subseteq ing'.chapters
    BY DEF With
<1>2. Owned(ing'.spans, ing'.chapters)
  <2>1. Owned(NewSpans(chapter), Range(chapter))
    <3> DEFINE docs == DOMAIN chapter
               From(id) == CHOOSE d \in docs : d.index = id[1]
               ids == UNION {{d.index} \X DOMAIN d.text : d \in docs}
    <3> SUFFICES ASSUME NEW id \in ids PROVE chapter[From(id)] \in Range(chapter)
        BY DEF NewSpans, Owned
    <3>1. \E d \in docs : d.index = id[1]
        OBVIOUS
    <3>2. From(id) \in docs
        BY <3>1
    <3> QED
        BY <3>2 DEF Range
  <2>2. Owned(spans, chapters)
      BY DEF ChaptersInv
  <2>3. /\ ing'.spans = Over(spans, NewSpans(chapter))
        /\ ing'.chapters = chapters \cup Range(chapter)
      BY DEF With
  <2> QED
      BY <2>1, <2>2, <2>3, OverOwned
<1>3. Agrees(chunks, spans) => Agrees(ing'.chunks, ing'.spans)
    BY OverAgrees DEF With
<1>4. ChaptersInv'
    BY <1>1, <1>2 DEF ChaptersInv, Owned
<1>5. CopiesInv'
    BY <1>1, <1>3 DEF CopiesInv, At, Agrees
<1>6. MirrorInv'
  <2>1. /\ DOMAIN ing'.chunks = DOMAIN chunks \cup DOMAIN NewSpans(chapter)
        /\ DOMAIN ing'.spans = DOMAIN spans \cup DOMAIN NewSpans(chapter)
      BY OverDomain DEF With
  <2> QED
      BY <2>1 DEF MirrorInv, Opens
<1> QED
    BY <1>4, <1>5, <1>6

LEMMA InitCanon == Init => ChaptersInv /\ CopiesInv /\ MirrorInv
BY EmptyMap DEF Init, Idle, ChaptersInv, CopiesInv, MirrorInv, Opens, At, Owned, Agrees

LEMMA CanonInv ==
    ChaptersInv /\ CopiesInv /\ MirrorInv /\ [Next]_vars
    => ChaptersInv' /\ CopiesInv' /\ MirrorInv'
<1> SUFFICES ASSUME ChaptersInv, CopiesInv, MirrorInv, [Next]_vars
             PROVE  ChaptersInv' /\ CopiesInv' /\ MirrorInv'
    OBVIOUS
<1>1. CASE Ingest
    BY <1>1, WithInv DEF Ingest, Idle, At
<1>2. CASE SaveChapters
    BY <1>2 DEF SaveChapters, ChaptersInv, CopiesInv, MirrorInv, Opens, At, Owned, Agrees
<1>3. CASE SaveSpans
  <2>1. reb' # Idle => "overtaken" \in DOMAIN reb' /\ reb'.overtaken
    <3>1. CASE reb = Idle
        BY <1>3, <3>1 DEF SaveSpans
    <3>2. CASE reb # Idle
        BY <1>3, <3>2 DEF SaveSpans, CopiesInv
    <3> QED
        BY <3>1, <3>2
  <2> QED
      BY <1>3, <2>1 DEF SaveSpans, ChaptersInv, CopiesInv, MirrorInv, Opens, At, Owned, Agrees
<1>4. CASE SaveChunks
  <2>1. ChaptersInv' /\ CopiesInv'
      BY <1>4 DEF SaveChunks, ChaptersInv, CopiesInv, At, Owned, Agrees
  <2>2. MirrorInv'
    <3>1. /\ ing.at = "chunks" /\ spans = ing.spans /\ UNCHANGED spans /\ ing'.at = "index"
          /\ chunks' = ing.chunks \/ "chunks" \in stale'
        BY <1>4 DEF SaveChunks, CopiesInv, At
    <3> QED
        BY <3>1 DEF MirrorInv, Opens, At
  <2> QED
      BY <2>1, <2>2
<1>5. CASE Reindex
    BY <1>5, IndexedAgrees
    DEF Reindex, Idle, ChaptersInv, CopiesInv, MirrorInv, Opens, At, Owned, Agrees
<1>6. CASE IngestDies
    BY <1>6, EmptyMap
    DEF IngestDies, Idle, ChaptersInv, CopiesInv, MirrorInv, Opens, At, Owned, Agrees
<1>7. CASE OpenRebuild
    BY <1>7, IndexedAgrees
    DEF OpenRebuild, ChaptersInv, CopiesInv, MirrorInv, Opens, At, Owned, Agrees
<1>8. CASE RebuildIndex \/ RebuildDies
    BY <1>8, EmptyMap
    DEF RebuildIndex, RebuildDies, ChaptersInv, CopiesInv, MirrorInv, Opens, At, Owned, Agrees
<1>9. CASE UNCHANGED canon
    BY <1>9 DEF canon, ChaptersInv, CopiesInv, MirrorInv, Opens, At, Owned, Agrees
<1> QED
    BY <1>1, <1>2, <1>3, <1>4, <1>5, <1>6, <1>7, <1>8, <1>9
    DEF Next, vars, canon, Enrich, SkipWindow, Extract, Discover, Summarise, Mark,
        EnrichEnds, EnrichDies

LEMMA CanonAlways == Spec => [](ChaptersInv /\ CopiesInv /\ MirrorInv)
BY InitCanon, CanonInv, PTL DEF Spec

-----------------------------------------------------------------------------
\* Whenever an ingest dies, every span on disk is of a chapter on disk: _save_all
\* writes the chapters before the spans.
THEOREM OrphanCorrect == Spec => []NoOrphanSpans
<1>1. ChaptersInv => NoOrphanSpans
    BY DEF ChaptersInv, Owned, NoOrphanSpans
<1> QED
    BY CanonAlways, <1>1, PTL

LEMMA HitsOf ==
    ASSUME NEW rows, NEW e, NEW hit \in HitsIn(rows, e)
    PROVE  \E id \in DOMAIN rows : hit = <<id, rows[id]>>
BY DEF HitsIn

\* A search of the canon never answers with the text of an edition that has been
\* replaced, but out of a mirror an ingest could not write, or an index one could not
\* finish or overtook the rebuild of; and a store that cannot be opened to search is
\* one whose mirror was never written.
THEOREM CurrentCorrect == Spec => []HitsAreCurrent
<1>1. CopiesInv /\ MirrorInv => HitsAreCurrent
  <2>1. ASSUME MirrorInv, ing = Idle PROVE Opens \/ "chunks" \in stale
      BY <2>1 DEF MirrorInv, At, Idle
  <2> SUFFICES ASSUME CopiesInv, ing = Idle, NEW e \in Entities, NEW hit \in Search(e)
               PROVE  \/ hit[1] \in DOMAIN spans /\ spans[hit[1]].passage = hit[2]
                      \/ hit \in HitsIn(index, e) /\ "index" \in stale
                      \/ hit \in HitsIn(chunks, e) /\ "chunks" \in stale
      BY <2>1 DEF HitsAreCurrent
  <2> DEFINE Current == hit[1] \in DOMAIN spans /\ spans[hit[1]].passage = hit[2]
  <2>2. ing.at = "idle"
      BY DEF Idle
  <2>3. ASSUME NEW rows, hit \in HitsIn(rows, e), Agrees(rows, spans) PROVE Current
      BY <2>3, HitsOf DEF Agrees
  <2>4. CASE hit \in HitsIn(index, e)
      BY <2>2, <2>3, <2>4 DEF CopiesInv, At
  <2>5. CASE hit \in HitsIn(chunks, e)
      BY <2>2, <2>3, <2>5 DEF CopiesInv, At
  <2> QED
      BY <2>4, <2>5 DEF Search
<1> QED
    BY CanonAlways, <1>1, PTL

-----------------------------------------------------------------------------
Naming(read) == {e \in Entities : \E passage \in Range(read) : Names(passage, e)}

\* While a window is worked on, what it names is in the database before its
\* summary, its summary before its mark.
Worked(places) == enr.at \in places
WindowInv ==
    /\ saved = [torn |-> saved.torn, done |-> saved.done]
    /\ Worked({"idle", "next", "semantic", "arc", "mark"})
    /\ ~Worked({"idle"}) => enr.done = saved.done
    /\ Worked({"semantic", "arc", "mark"}) =>
          Naming(Window(enr.base, enr.w)) \subseteq DOMAIN counts
    /\ Worked({"mark"}) /\ ~enr.structural /\ Window(enr.base, enr.w) # NoMap => enr.w \in arcs
KnownInv == WindowInv /\ MarkedIsStored

LEMMA CountedDomain ==
    ASSUME NEW known, NEW new
    PROVE  DOMAIN Counted(known, new) = DOMAIN known \cup DOMAIN new
BY DEF Counted

LEMMA StructuralDomain == ASSUME NEW read PROVE DOMAIN Structural(read) = Naming(read)
BY DEF Structural, Naming

LEMMA InitKnown == Init => KnownInv
BY DEF Init, Idle, KnownInv, WindowInv, Worked, MarkedIsStored

\* More knowledge leaves what is marked stored.
LEMMA StillStored ==
    ASSUME MarkedIsStored, saved'.done = saved.done, marked' = marked,
           DOMAIN counts \subseteq DOMAIN counts', arcs \subseteq arcs'
    PROVE  MarkedIsStored'
BY DEF MarkedIsStored

LEMMA KnownStep == KnownInv /\ [Next]_vars => KnownInv'
<1> SUFFICES ASSUME KnownInv, [Next]_vars PROVE KnownInv'
    OBVIOUS
<1> USE DEF KnownInv
<1>1. CASE Enrich
  <2>1. WindowInv'
      BY <1>1 DEF Enrich, WindowInv, Worked, knowledge
  <2>2. MarkedIsStored'
      BY <1>1, StillStored DEF Enrich, knowledge
  <2> QED
      BY <2>1, <2>2
<1>2. CASE SkipWindow
  <2>1. WindowInv'
      BY <1>2 DEF SkipWindow, AtWindow, WindowInv, Worked, knowledge
  <2>2. MarkedIsStored'
      BY <1>2, StillStored DEF SkipWindow, knowledge
  <2> QED
      BY <2>1, <2>2
<1>3. CASE Extract
  <2>1. DOMAIN counts \cup Naming(Window(enr.base, enr.w)) \subseteq DOMAIN counts'
      BY <1>3, CountedDomain, StructuralDomain DEF Extract
  <2>2. WindowInv'
      BY <1>3, <2>1 DEF Extract, AtWindow, WindowInv, Worked
  <2>3. MarkedIsStored'
      BY <1>3, <2>1, StillStored DEF Extract
  <2> QED
      BY <2>2, <2>3
<1>4. CASE Discover
  <2>1. DOMAIN counts \subseteq DOMAIN counts'
    <3>1. PICK new : counts' = Counted(counts, [e \in new |-> 1])
        BY <1>4 DEF Discover
    <3> QED
        BY <3>1, CountedDomain
  <2>2. WindowInv'
      BY <1>4, <2>1 DEF Discover, WindowInv, Worked
  <2>3. MarkedIsStored'
      BY <1>4, <2>1, StillStored DEF Discover
  <2> QED
      BY <2>2, <2>3
<1>5. CASE Summarise
  <2>1. WindowInv'
      BY <1>5 DEF Summarise, WindowInv, Worked
  <2>2. MarkedIsStored'
      BY <1>5, StillStored DEF Summarise
  <2> QED
      BY <2>1, <2>2
<1>6. CASE Mark
  <2>1. WindowInv'
      BY <1>6 DEF Mark, WindowInv, Worked, knowledge
  <2>2. saved'.done = saved.done \cup {enr.w} /\ UNCHANGED <<counts, arcs>>
      BY <1>6 DEF Mark, WindowInv, Worked, knowledge
  <2>3. DOMAIN marked' = DOMAIN marked \cup {enr.w} /\ marked'[enr.w] = Read
      BY <1>6 DEF Mark, MarkWindow
  <2>4. \A w \in DOMAIN marked \ {enr.w} : marked'[w] = marked[w]
      BY <1>6 DEF Mark, MarkWindow
  <2>5. \A passage \in Range(Read.passages), e \in Entities :
            Names(passage, e) => e \in DOMAIN counts
      BY <1>6 DEF Mark, Read, WindowInv, Worked, Naming
  <2>6. Read.summarised => enr.w \in arcs
      BY <1>6 DEF Mark, Read, WindowInv, Worked
  <2>7. MarkedIsStored'
    <3> SUFFICES ASSUME NEW w \in saved'.done
                 PROVE  /\ w \in DOMAIN marked'
                        /\ \A passage \in Range(marked'[w].passages), e \in Entities :
                              Names(passage, e) => e \in DOMAIN counts'
                        /\ marked'[w].summarised => w \in arcs'
        BY DEF MarkedIsStored
    <3>1. CASE w = enr.w
        BY <2>2, <2>3, <2>5, <2>6, <3>1
    <3>2. CASE w # enr.w
        BY <2>2, <2>3, <2>4, <3>2 DEF MarkedIsStored
    <3> QED
        BY <3>1, <3>2
  <2> QED
      BY <2>1, <2>7
<1>7. CASE EnrichEnds \/ EnrichDies
  <2>1. WindowInv'
      BY <1>7 DEF EnrichEnds, EnrichDies, Idle, WindowInv, Worked
  <2>2. saved'.done = saved.done /\ UNCHANGED <<counts, arcs, marked>>
    <3>1. CASE EnrichEnds
        BY <3>1 DEF EnrichEnds, knowledge
    <3>2. CASE EnrichDies
        BY <3>2 DEF EnrichDies, knowledge, WindowInv
    <3> QED
        BY <1>7, <3>1, <3>2
  <2>3. MarkedIsStored'
      BY <2>2, StillStored
  <2> QED
      BY <2>1, <2>3
<1>8. CASE UNCHANGED enrichment
    BY <1>8 DEF enrichment, WindowInv, Worked, MarkedIsStored
<1> QED
    BY <1>1, <1>2, <1>3, <1>4, <1>5, <1>6, <1>7, <1>8
    DEF Next, vars, enrichment, Ingest, SaveChapters, SaveSpans, SaveChunks, Reindex,
        IngestDies, OpenRebuild, RebuildIndex, RebuildDies

\* What the checkpoint holds for completed is in the database, through deaths of
\* either command, torn checkpoints and windows done twice.
THEOREM MarkedCorrect == Spec => []MarkedIsStored
<1>1. KnownInv => MarkedIsStored
    BY DEF KnownInv
<1> QED
    BY InitKnown, KnownStep, <1>1, PTL DEF Spec

-----------------------------------------------------------------------------
LEMMA Division ==
    ASSUME NEW a \in Nat, NEW s \in Nat \ {0}
    PROVE  /\ a \div s \in Nat
           /\ s * (a \div s) <= a
           /\ a < s * (a \div s) + s
BY SMTT(30)

LEMMA Multiples ==
    ASSUME NEW q \in Nat, NEW r \in Nat, NEW s \in Nat, r <= q
    PROVE  s * r <= s * q
BY SMTT(30)

LEMMA FallsInWindow ==
    ASSUME NEW base, NEW w, NEW id \in DOMAIN base.store,
           (w - 1) * base.size + 1 <= base.store[id].order,
           base.store[id].order <= Least(w * base.size, base.total)
    PROVE  id \in InWindow(base, w)
BY DEF InWindow

\* Every order up to the number of chapters falls into one of the windows.
LEMMA WindowOf ==
    ASSUME NEW base, base.total \in Nat, base.size \in Nat \ {0},
           NEW id \in DOMAIN base.store, base.store[id].order \in 1..base.total
    PROVE  \E w \in 1..Windows(base) : id \in InWindow(base, w)
<1> DEFINE n == base.total
           size == base.size
           order == base.store[id].order
           q == (order - 1) \div size
           r == (n + size - 1) \div size
<1>1. order \in Nat /\ 1 <= order /\ order <= n /\ n \in Nat /\ size \in Nat \ {0}
    OBVIOUS
<1> HIDE DEF n, size, order
<1>2. q \in Nat /\ size * q <= order - 1 /\ order - 1 < size * q + size
    BY <1>1, Division
<1>3. r \in Nat /\ n + size - 1 < size * r + size
    BY <1>1, Division
<1> HIDE DEF q, r
<1>4. ~(r <= q)
  <2> SUFFICES ASSUME r <= q PROVE FALSE
      OBVIOUS
  <2>1. size * r <= size * q
      BY <1>1, <1>2, <1>3, Multiples
  <2>2. size * r \in Nat /\ size * q \in Nat
      BY <1>1, <1>2, <1>3
  <2> QED
      BY <1>1, <1>2, <1>3, <2>1, <2>2
<1>5. q + 1 \in 1..r
    BY <1>2, <1>3, <1>4
<1> DEFINE w == q + 1
<1>6. w \in 1..r
    BY <1>5
<1>7. size * q \in Nat /\ (w - 1) * size = size * q /\ w * size = size * q + size
    BY <1>1, <1>2
<1> HIDE DEF w
<1>8. (w - 1) * size + 1 <= order
    BY <1>1, <1>2, <1>7
<1>9. order <= Least(w * size, n)
    BY <1>1, <1>2, <1>7 DEF Least
<1>10. w \in 1..Windows(base)
    BY <1>6 DEF Windows, r, n, size
<1>11. id \in InWindow(base, w)
    BY <1>8, <1>9, FallsInWindow DEF n, size, order
<1> QED
    BY <1>10, <1>11

-----------------------------------------------------------------------------
LEMMA ImageFinite ==
    ASSUME NEW S, IsFiniteSet(S), NEW T, NEW f \in [S -> T], T = {f[x] : x \in S}
    PROVE  IsFiniteSet(T)
<1>1. f \in Surjection(S, T)
    BY DEF Surjection
<1> QED
    BY <1>1, FS_Surjection

LEMMA DocumentsFinite == ASSUME NEW spine \in Spines PROVE IsFiniteSet(Documents(spine))
<1> DEFINE kept == {j \in DOMAIN spine : spine[j].kind = "chapter"}
           f == [i \in kept |->
                    [index |-> Numbered(spine, i), order |-> i, text |-> spine[i].text]]
<1>1. DOMAIN spine = 1..Len(spine) /\ Len(spine) \in Nat
    BY LibraryAssumption
<1>2. IsFiniteSet(1..Len(spine)) /\ kept \in SUBSET (1..Len(spine))
    BY <1>1, FS_Interval
<1>3. IsFiniteSet(kept)
    BY <1>2, FS_Subset
<1>4. Documents(spine) = {f[i] : i \in kept} /\ f \in [kept -> Documents(spine)]
    BY DEF Documents
<1> HIDE DEF kept, f
<1> QED
    BY <1>3, <1>4, ImageFinite

FiniteInv ==
    /\ IsFiniteSet(chapters)
    /\ ing.at # "idle" => IsFiniteSet(ing.chapters)

LEMMA ChaptersFinite ==
    ASSUME NEW docs, NEW chapter, DOMAIN chapter = docs, chapter \in [docs -> Range(chapter)],
           IsFiniteSet(docs), IsFiniteSet(chapters), ing' = With(chapter)
    PROVE  IsFiniteSet(ing'.chapters)
<1>1. Range(chapter) = {chapter[d] : d \in docs}
    BY DEF Range
<1>2. ing'.chapters = chapters \cup Range(chapter)
    BY DEF With
<1>3. IsFiniteSet(Range(chapter))
    BY <1>1, ImageFinite
<1> QED
    BY <1>2, <1>3, FS_Union

LEMMA FiniteStep == FiniteInv /\ CopiesInv /\ [Next]_vars => FiniteInv'
<1> SUFFICES ASSUME FiniteInv, CopiesInv, [Next]_vars PROVE FiniteInv'
    OBVIOUS
<1> USE DEF FiniteInv
<1>1. CASE Ingest
  <2>1. PICK spine \in Spines : \/ ing' = With(DocChapters(Documents(spine)))
                                \/ ing' = With(ChunkChapters(Documents(spine)))
      BY <1>1 DEF Ingest
  <2> DEFINE docs == Documents(spine)
  <2>2. IsFiniteSet(docs)
      BY DocumentsFinite
  <2> HIDE DEF docs
  <2>3. CASE ing' = With(DocChapters(docs))
    <3>1. DOMAIN DocChapters(docs) = docs
          /\ DocChapters(docs) \in [docs -> Range(DocChapters(docs))]
        BY DEF DocChapters, Range
    <3>2. IsFiniteSet(ing'.chapters)
        BY <2>2, <2>3, <3>1, ChaptersFinite
    <3> QED
        BY <1>1, <3>2 DEF Ingest
  <2>4. CASE ing' = With(ChunkChapters(docs))
    <3>1. DOMAIN ChunkChapters(docs) = docs
          /\ ChunkChapters(docs) \in [docs -> Range(ChunkChapters(docs))]
        BY DEF ChunkChapters, Range
    <3>2. IsFiniteSet(ing'.chapters)
        BY <2>2, <2>4, <3>1, ChaptersFinite
    <3> QED
        BY <1>1, <3>2 DEF Ingest
  <2> QED
      BY <2>1, <2>3, <2>4 DEF docs
<1>2. CASE SaveChapters
    BY <1>2 DEF SaveChapters, CopiesInv, At
<1>3. CASE SaveSpans
    BY <1>3 DEF SaveSpans, CopiesInv, At
<1>4. CASE SaveChunks
    BY <1>4 DEF SaveChunks, CopiesInv, At
<1>5. CASE Reindex \/ IngestDies \/ OpenRebuild \/ RebuildIndex \/ RebuildDies
    BY <1>5 DEF Reindex, IngestDies, OpenRebuild, RebuildIndex, RebuildDies, Idle
<1>6. CASE UNCHANGED canon
    BY <1>6 DEF canon
<1> QED
    BY <1>1, <1>2, <1>3, <1>4, <1>5, <1>6
    DEF Next, vars, canon, Enrich, SkipWindow, Extract, Discover, Summarise, Mark,
        EnrichEnds, EnrichDies

\* Where there are no chapters there are no spans, so the number of windows is
\* always one of the two numbers the code means.
LEMMA TotalType ==
    ASSUME FiniteInv, ChaptersInv, NEW max \in Nat
    PROVE  Total(max) \in Nat
<1> DEFINE orders == {spans[id].order : id \in DOMAIN spans}
           all == IF chapters # {} THEN Cardinality(chapters)
                  ELSE IF orders # {} THEN Max(orders) ELSE NoCanon
<1>1. all \in Nat
  <2>1. CASE chapters # {}
      BY <2>1, FS_CardinalityType DEF FiniteInv
  <2>2. CASE chapters = {}
    <3>1. orders = {}
        BY <2>2 DEF ChaptersInv, Owned
    <3> QED
        BY <2>2, <3>1, LibraryAssumption
  <2> QED
      BY <2>1, <2>2
<1>2. Total(max) = IF max = 0 THEN all ELSE Least(all, max)
    BY DEF Total
<1> QED
    BY <1>1, <1>2 DEF Least

-----------------------------------------------------------------------------
\* What is marked has been read from the one canon there was, and a run leaves
\* no window behind it unmarked: it has done it, or found it in the checkpoint.
BasesInv == \A b \in bases : b.total \in Nat /\ b.size \in Nat \ {0}
MarksInv ==
    /\ bases = {} => DOMAIN marked = {}
    /\ \A b : bases = {b} => \A w \in DOMAIN marked : marked[w].passages = Window(b, w)
BehindInv ==
    ~Worked({"idle"}) =>
        enr.base \in bases /\ enr.w \in Nat \ {0} /\ 1..(enr.w - 1) \subseteq DOMAIN marked
EndedInv == \A b \in finished : b \in bases /\ 1..Windows(b) \subseteq DOMAIN marked
PlanInv == BasesInv /\ MarksInv /\ BehindInv /\ EndedInv

LEMMA WindowsType ==
    ASSUME NEW base, base.total \in Nat, base.size \in Nat \ {0}
    PROVE  Windows(base) \in Nat
<1>1. base.total + base.size - 1 \in Nat
    OBVIOUS
<1> QED
    BY <1>1, Division DEF Windows

\* A step that neither starts, marks nor ends leaves the plan as it is.
LEMMA PlanKept ==
    ASSUME PlanInv, UNCHANGED <<marked, bases, finished>>,
           ~Worked({"idle"})' => ~Worked({"idle"}) /\ enr'.base = enr.base /\ enr'.w = enr.w
    PROVE  PlanInv'
<1>1. BasesInv' /\ MarksInv' /\ EndedInv'
    BY DEF PlanInv, BasesInv, MarksInv, EndedInv
<1>2. BehindInv'
    BY DEF PlanInv, BehindInv
<1> QED
    BY <1>1, <1>2 DEF PlanInv

LEMMA InitPlan == Init => PlanInv
BY EmptyMap DEF Init, Idle, PlanInv, BasesInv, MarksInv, BehindInv, EndedInv, Worked

LEMMA PlanStep ==
    PlanInv /\ KnownInv /\ FiniteInv /\ ChaptersInv /\ [Next]_vars => PlanInv'
<1> SUFFICES ASSUME PlanInv, KnownInv, FiniteInv, ChaptersInv, [Next]_vars PROVE PlanInv'
    OBVIOUS
<1>1. CASE Enrich
  <2>1. PICK opt \in Options :
            LET base == [size |-> opt.size, total |-> Total(opt.max), store |-> spans]
            IN  /\ enr' = [at |-> "next", w |-> 1, base |-> base, done |-> saved.done,
                           resume |-> opt.resume, structural |-> opt.structural]
                /\ bases' = bases \cup {base}
      BY <1>1 DEF Enrich
  <2> DEFINE base == [size |-> opt.size, total |-> Total(opt.max), store |-> spans]
  <2>2. base.total \in Nat /\ base.size \in Nat \ {0}
      BY TotalType, LibraryAssumption
  <2>3. bases' = bases \cup {base} /\ enr'.base = base /\ enr'.w = 1
      BY <2>1
  <2> HIDE DEF base
  <2>4. UNCHANGED <<marked, finished>>
      BY <1>1 DEF Enrich
  <2>5. BasesInv' /\ EndedInv'
      BY <2>2, <2>3, <2>4 DEF PlanInv, BasesInv, EndedInv
  <2>6. MarksInv'
    <3>1. \A b : bases' = {b} => bases = {} \/ bases = {b}
        BY <2>3
    <3>2. bases' # {}
        BY <2>3
    <3>3. \A b : bases' = {b} => \A w \in DOMAIN marked : marked[w].passages = Window(b, w)
        BY <3>1 DEF PlanInv, MarksInv
    <3> QED
        BY <2>4, <3>2, <3>3 DEF MarksInv
  <2>7. BehindInv'
      BY <2>3 DEF BehindInv
  <2> QED
      BY <2>5, <2>6, <2>7 DEF PlanInv
<1>2. CASE SkipWindow
  <2>1. enr.w \in DOMAIN marked
      BY <1>2 DEF SkipWindow, AtWindow, Skips, KnownInv, WindowInv, Worked, MarkedIsStored
  <2>2. UNCHANGED <<marked, bases, finished>>
      BY <1>2 DEF SkipWindow
  <2>3. BasesInv' /\ MarksInv' /\ EndedInv'
      BY <2>2 DEF PlanInv, BasesInv, MarksInv, EndedInv
  <2>4. BehindInv'
    <3>1. ~Worked({"idle"}) /\ enr' = [enr EXCEPT !.w = @ + 1]
        BY <1>2 DEF SkipWindow, AtWindow, Worked
    <3>2. enr.base \in bases /\ enr.w \in Nat \ {0} /\ 1..(enr.w - 1) \subseteq DOMAIN marked
        BY <3>1 DEF PlanInv, BehindInv
    <3>3. 1..enr.w \subseteq DOMAIN marked
        BY <2>1, <3>2
    <3>4. CASE ~Worked({"idle"})'
        BY <2>2, <3>1, <3>2, <3>3, <3>4 DEF BehindInv
    <3> QED
        BY <3>4 DEF BehindInv
  <2> QED
      BY <2>3, <2>4 DEF PlanInv
<1>3. CASE Extract
    BY <1>3, PlanKept DEF Extract, AtWindow, Worked
<1>4. CASE Discover
    BY <1>4, PlanKept DEF Discover, Worked
<1>5. CASE Summarise
    BY <1>5, PlanKept DEF Summarise, Worked
<1>6. CASE Mark
  <2>1. UNCHANGED <<bases, finished>> /\ enr.at = "mark"
      BY <1>6 DEF Mark
  <2>2. enr.base \in bases /\ enr.w \in Nat \ {0} /\ 1..(enr.w - 1) \subseteq DOMAIN marked
      BY <2>1 DEF PlanInv, BehindInv, Worked
  <2>3. DOMAIN marked' = DOMAIN marked \cup {enr.w} /\ marked'[enr.w] = Read
      BY <1>6 DEF Mark, MarkWindow
  <2>4. \A w \in DOMAIN marked \ {enr.w} : marked'[w] = marked[w]
      BY <1>6 DEF Mark, MarkWindow
  <2>5. MarksInv'
    <3>1. Read.passages = Window(enr.base, enr.w)
        BY DEF Read
    <3>2. bases' # {}
        BY <2>1, <2>2
    <3>3. ASSUME NEW b, bases' = {b}, NEW w \in DOMAIN marked'
          PROVE  marked'[w].passages = Window(b, w)
      <4>1. bases = {b} /\ enr.base = b
          BY <2>1, <2>2, <3>3
      <4>2. CASE w = enr.w
          BY <2>3, <3>1, <4>1, <4>2
      <4>3. CASE w # enr.w
          BY <2>3, <2>4, <3>3, <4>1, <4>3 DEF PlanInv, MarksInv
      <4> QED
          BY <4>2, <4>3
    <3> QED
        BY <3>2, <3>3 DEF MarksInv
  <2>6. BehindInv'
    <3>1. enr' = [enr EXCEPT !.at = "next", !.w = @ + 1, !.done = @ \cup {enr.w}]
        BY <1>6 DEF Mark
    <3>2. 1..enr.w \subseteq DOMAIN marked'
        BY <2>2, <2>3
    <3> QED
        BY <2>1, <2>2, <3>1, <3>2 DEF BehindInv
  <2>7. BasesInv' /\ EndedInv'
      BY <2>1, <2>3 DEF PlanInv, BasesInv, EndedInv
  <2> QED
      BY <2>5, <2>6, <2>7 DEF PlanInv
<1>7. CASE EnrichEnds
  <2>1. UNCHANGED <<bases, marked>> /\ enr.at = "next" /\ enr.w > Windows(enr.base)
        /\ finished' = finished \cup {enr.base} /\ enr' = Idle
      BY <1>7 DEF EnrichEnds
  <2>2. enr.base \in bases /\ enr.w \in Nat \ {0} /\ 1..(enr.w - 1) \subseteq DOMAIN marked
      BY <2>1 DEF PlanInv, BehindInv, Worked
  <2>3. Windows(enr.base) \in Nat
      BY <2>2, WindowsType DEF PlanInv, BasesInv
  <2>4. 1..Windows(enr.base) \subseteq DOMAIN marked
      BY <2>1, <2>2, <2>3
  <2>5. BasesInv' /\ MarksInv' /\ EndedInv'
      BY <2>1, <2>2, <2>4 DEF PlanInv, BasesInv, MarksInv, EndedInv
  <2>6. BehindInv'
      BY <2>1 DEF BehindInv, Worked, Idle
  <2> QED
      BY <2>5, <2>6 DEF PlanInv
<1>8. CASE EnrichDies
    BY <1>8, PlanKept DEF EnrichDies, Worked, Idle
<1>9. CASE UNCHANGED enrichment
    BY <1>9, PlanKept DEF enrichment, Worked
<1> QED
    BY <1>1, <1>2, <1>3, <1>4, <1>5, <1>6, <1>7, <1>8, <1>9
    DEF Next, vars, enrichment, Ingest, SaveChapters, SaveSpans, SaveChunks, Reindex,
        IngestDies, OpenRebuild, RebuildIndex, RebuildDies

\* A run of the enrichment that comes to its end has left out no passage of the
\* chapters it counts, however many runs before it died and wherever: as long as
\* they all had the same canon and options.
THEOREM SkippedCorrect == Spec => []NothingSkipped
<1> DEFINE AllInv == PlanInv /\ KnownInv /\ FiniteInv /\ ChaptersInv /\ CopiesInv /\ MirrorInv
<1>1. Init => AllInv
  <2>1. Init => FiniteInv
      BY FS_EmptySet DEF Init, Idle, FiniteInv
  <2> QED
      BY <2>1, InitPlan, InitKnown, InitCanon
<1>2. AllInv /\ [Next]_vars => AllInv'
    BY PlanStep, KnownStep, FiniteStep, CanonInv
<1>3. AllInv => NothingSkipped
  <2> SUFFICES ASSUME PlanInv, NEW base \in finished, bases = {base},
                      NEW id \in DOMAIN base.store, base.store[id].order \in 1..base.total
               PROVE  \E w \in DOMAIN marked :
                          /\ id \in DOMAIN marked[w].passages
                          /\ marked[w].passages[id] = base.store[id].passage
      BY DEF NothingSkipped
  <2>1. PICK w \in 1..Windows(base) : id \in InWindow(base, w)
      BY WindowOf DEF PlanInv, BasesInv
  <2>2. w \in DOMAIN marked
      BY <2>1 DEF PlanInv, EndedInv
  <2>3. marked[w].passages = Window(base, w)
      BY <2>2 DEF PlanInv, MarksInv
  <2>4. /\ id \in DOMAIN marked[w].passages
        /\ marked[w].passages[id] = base.store[id].passage
      BY <2>1, <2>3 DEF Window
  <2> QED
      BY <2>2, <2>4
<1> QED
    BY <1>1, <1>2, <1>3, PTL DEF Spec
-----------------------------------------------------------------------------
(* Sums, as in AuditGateProofs, and that they do not depend on the order in   *)
(* which SumFunction takes the elements.                                      *)

\* Induction over the natural numbers, for a set.
LEMMA Induction ==
    ASSUME NEW S, 0 \in S, \A n \in Nat : n \in S => n + 1 \in S
    PROVE  Nat \subseteq S
<1> SUFFICES ASSUME Nat \ S # {} PROVE FALSE
    OBVIOUS
<1> DEFINE Less == OpToRel(<, Nat)
<1>1. \A x, y : x \in Nat /\ y \in Nat /\ x < y => <<x, y>> \in Less
    BY DEF OpToRel
<1>2. IsWellFoundedOn(Less, Nat)
    BY NatLessThanWellFounded
<1>3. \E x \in Nat \ S : \A y \in Nat \ S : ~(<<y, x>> \in Less)
  <2> HIDE DEF Less
  <2> QED
      BY <1>2, WFMin
<1>4. PICK n \in Nat \ S : \A m \in Nat \ S : ~(m < n)
    BY <1>1, <1>3
<1>5. n # 0 /\ n - 1 \in Nat
    OBVIOUS
<1> QED
    BY <1>4, <1>5

\* The function SumFunction builds on the sets of D, each without the element
\* it chooses.
Pick(s) == CHOOSE x \in s : TRUE
Summed(D, f, g) ==
    g = [s \in D |-> IF s = {} THEN 0 ELSE f[Pick(s)] + g[s \ {Pick(s)}]]

LEMMA SummedExists ==
    ASSUME NEW S, IsFiniteSet(S), NEW f
    PROVE  \E g : Summed(SUBSET S, f, g)
<1> DEFINE Upto(n) == {s \in SUBSET S : Cardinality(s) <= n}
           Good == {n \in Nat : \E g : Summed(Upto(n), f, g)}
<1>1. \A s \in SUBSET S :
        /\ Cardinality(s) \in Nat
        /\ s # {} => /\ Pick(s) \in s
                     /\ s \ {Pick(s)} \in SUBSET S
                     /\ Cardinality(s \ {Pick(s)}) = Cardinality(s) - 1
  <2> SUFFICES ASSUME NEW s \in SUBSET S
      PROVE  /\ Cardinality(s) \in Nat
             /\ s # {} => /\ Pick(s) \in s
                          /\ s \ {Pick(s)} \in SUBSET S
                          /\ Cardinality(s \ {Pick(s)}) = Cardinality(s) - 1
      OBVIOUS
  <2>1. IsFiniteSet(s)
      BY FS_Subset
  <2>2. Cardinality(s) \in Nat
      BY <2>1, FS_CardinalityType
  <2>3. s # {} => Pick(s) \in s
      BY DEF Pick
  <2>4. s # {} => Cardinality(s \ {Pick(s)}) = Cardinality(s) - 1
      BY <2>1, <2>3, FS_RemoveElement
  <2> QED
      BY <2>2, <2>3, <2>4
<1>2. 0 \in Good
  <2> DEFINE g == [s \in Upto(0) |-> 0]
  <2>1. \A s \in Upto(0) : s = {}
    <3> SUFFICES ASSUME NEW s \in Upto(0) PROVE s = {}
        OBVIOUS
    <3>1. s \in SUBSET S /\ Cardinality(s) <= 0
        OBVIOUS
    <3>3. IsFiniteSet(s)
        BY <3>1, FS_Subset
    <3>4. Cardinality(s) \in Nat
        BY <1>1, <3>1
    <3> HIDE DEF Upto
    <3>2. Cardinality(s) = 0
        BY <3>1, <3>4
    <3> QED
        BY <3>2, <3>3, FS_EmptySet
  <2>2. Summed(Upto(0), f, g)
    <3> HIDE DEF Upto
    <3> QED
        BY <2>1 DEF Summed
  <2> QED
      BY <2>2
<1>3. ASSUME NEW n \in Nat, n \in Good PROVE n + 1 \in Good
  <2>1. PICK g : Summed(Upto(n), f, g)
      BY <1>3
  <2> DEFINE Value(s) == IF s = {} THEN 0 ELSE f[Pick(s)] + g[s \ {Pick(s)}]
             h == [s \in Upto(n + 1) |-> Value(s)]
  <2>2. \A s \in Upto(n) : g[s] = Value(s)
    <3> HIDE DEF Upto
    <3> QED
        BY <2>1 DEF Summed
  <2>3. \A s \in Upto(n + 1) : s # {} => s \ {Pick(s)} \in Upto(n)
      BY <1>1
  <2>4. \A s \in Upto(n) : s \in Upto(n + 1)
    <3> SUFFICES ASSUME NEW s \in SUBSET S, Cardinality(s) <= n
        PROVE  Cardinality(s) <= n + 1
        OBVIOUS
    <3>1. Cardinality(s) \in Nat
        BY <1>1
    <3> QED
        BY <3>1
  <2> HIDE DEF Upto
  <2>5. \A s \in Upto(n) : h[s] = g[s]
      BY <2>2, <2>4
  <2>6. \A s \in Upto(n + 1) :
          h[s] = IF s = {} THEN 0 ELSE f[Pick(s)] + h[s \ {Pick(s)}]
      BY <2>3, <2>5
  <2>7. Summed(Upto(n + 1), f, h)
    <3> DEFINE body == [s \in Upto(n + 1) |->
                          IF s = {} THEN 0 ELSE f[Pick(s)] + h[s \ {Pick(s)}]]
    <3>1. DOMAIN h = Upto(n + 1)
        OBVIOUS
    <3>2. h = body
      <4>1. \A s \in Upto(n + 1) : h[s] = body[s]
          BY <2>6
      <4>2. h = [s \in Upto(n + 1) |-> h[s]]
          OBVIOUS
      <4> HIDE DEF h
      <4> QED
          BY <4>1, <4>2
    <3> HIDE DEF h
    <3> QED
        BY <3>2 DEF Summed
  <2> QED
      BY <2>7
<1>4. Cardinality(S) \in Good
  <2> HIDE DEF Good
  <2> QED
      BY <1>2, <1>3, FS_CardinalityType, Induction
<1>5. Upto(Cardinality(S)) = SUBSET S
    BY FS_Subset
<1> QED
    BY <1>4, <1>5

\* A sum is built up from the empty set, one element at a time.
LEMMA SumUnrolled ==
    ASSUME NEW f, IsFiniteSet(DOMAIN f)
    PROVE  \E g : /\ SumFunction(f) = g[DOMAIN f]
                  /\ \A s \in SUBSET (DOMAIN f) :
                        g[s] = IF s = {} THEN 0 ELSE f[Pick(s)] + g[s \ {Pick(s)}]
<1> DEFINE h == CHOOSE g : Summed(SUBSET (DOMAIN f), f, g)
<1>1. Summed(SUBSET (DOMAIN f), f, h)
  <2>1. \E g : Summed(SUBSET (DOMAIN f), f, g)
      BY SummedExists
  <2> QED
      BY <2>1, Zenon
<1>2. SumFunction(f) = h[DOMAIN f]
    BY DEF SumFunction, SumFunctionOnSet, FoldFunctionOnSet, MapThenFoldSet, Summed, Pick
<1> HIDE DEF h
<1>3. \A s \in SUBSET (DOMAIN f) :
        h[s] = IF s = {} THEN 0 ELSE f[Pick(s)] + h[s \ {Pick(s)}]
    BY <1>1 DEF Summed
<1> QED
    BY <1>2, <1>3

\* Induction over the subsets of a finite set.
LEMMA SetInduction ==
    ASSUME NEW D, IsFiniteSet(D), NEW P,
           \A s \in SUBSET D : (\A x \in s : s \ {x} \in P) => s \in P
    PROVE  SUBSET D \subseteq P
<1> SUFFICES ASSUME (SUBSET D) \ P # {} PROVE FALSE
    OBVIOUS
<1> DEFINE Less == StrictSubsetOrdering(D)
<1>1. \A s, t \in SUBSET D : s \subseteq t /\ s # t => <<s, t>> \in Less
    BY DEF StrictSubsetOrdering
<1>2. IsWellFoundedOn(Less, SUBSET D)
  <2>1. IsWellFoundedOn(Less, FiniteSubsetsOf(D))
      BY FS_StrictSubsetOrderingWellFounded
  <2>2. FiniteSubsetsOf(D) = SUBSET D
      BY FS_FiniteSubsetsOfFinite
  <2> QED
      BY <2>1, <2>2
<1>3. \E t \in (SUBSET D) \ P : \A s \in (SUBSET D) \ P : ~(<<s, t>> \in Less)
  <2> HIDE DEF Less
  <2> QED
      BY <1>2, WFMin
<1> HIDE DEF Less
<1>4. PICK t \in (SUBSET D) \ P : \A s \in (SUBSET D) \ P : ~(<<s, t>> \in Less)
    BY <1>3
<1>5. ASSUME NEW x \in t PROVE t \ {x} \in P
  <2>1. t \ {x} \in SUBSET D /\ t \ {x} \subseteq t /\ t \ {x} # t
      OBVIOUS
  <2> QED
      BY <1>1, <1>4, <2>1
<1> QED
    BY <1>4, <1>5

\* Sums do not depend on the order in which they are added up.
Adds(f, g) ==
    /\ g[{}] = 0
    /\ \A s \in SUBSET (DOMAIN f) :
          g[s] \in Int /\ \A x \in s : g[s] = f[x] + g[s \ {x}]

LEMMA SumInAnyOrder ==
    ASSUME NEW f, IsFiniteSet(DOMAIN f), \A x \in DOMAIN f : f[x] \in Int
    PROVE  \E g : SumFunction(f) = g[DOMAIN f] /\ Adds(f, g)
<1> DEFINE D == DOMAIN f
<1>1. PICK g : /\ SumFunction(f) = g[D]
               /\ \A s \in SUBSET D :
                     g[s] = IF s = {} THEN 0 ELSE f[Pick(s)] + g[s \ {Pick(s)}]
    BY SumUnrolled
<1> HIDE DEF D
<1> DEFINE Good(s) == g[s] \in Int /\ \A x \in s : g[s] = f[x] + g[s \ {x}]
           P == {s \in SUBSET D : \A t \in SUBSET s : Good(t)}
<1>2. \A x \in D : f[x] \in Int
    BY DEF D
<1>3. Good({})
    BY <1>1
<1>4. ASSUME NEW s \in SUBSET D, s # {}, \A x \in s : s \ {x} \in P PROVE Good(s)
  <2> DEFINE p == Pick(s)
  <2>1. p \in s
      BY <1>4 DEF Pick
  <2>2. g[s] = f[p] + g[s \ {p}]
      BY <1>1, <1>4
  <2> HIDE DEF p
  <2>3. \A x \in s : Good(s \ {x})
      BY <1>4
  <2>4. g[s] \in Int
    <3>1. f[p] \in Int
        BY <1>2, <2>1
    <3>2. g[s \ {p}] \in Int
        BY <2>1, <2>3
    <3> HIDE DEF P
    <3> QED
        BY <2>2, <3>1, <3>2
  <2>5. ASSUME NEW x \in s, x # p PROVE g[s] = f[x] + g[s \ {x}]
    <3> DEFINE r == s \ {x, p}
    <3>1. (s \ {p}) \ {x} = r /\ (s \ {x}) \ {p} = r
        OBVIOUS
    <3>2. g[s \ {p}] = f[x] + g[r]
        BY <2>1, <2>3, <2>5, <3>1
    <3>3. g[s \ {x}] = f[p] + g[r]
        BY <2>1, <2>3, <2>5, <3>1
    <3>4. f[x] \in Int /\ f[p] \in Int
        BY <1>2, <2>1
    <3>5. g[r] \in Int
      <4>1. Good(r)
          BY <1>4, <2>1
      <4> QED
          BY <4>1
    <3> HIDE DEF r
    <3> QED
        BY <2>2, <3>2, <3>3, <3>4, <3>5
  <2> QED
      BY <2>2, <2>4, <2>5
<1>5. ASSUME NEW s \in SUBSET D, \A x \in s : s \ {x} \in P PROVE s \in P
  <2>1. Good(s)
      BY <1>3, <1>4, <1>5
  <2>2. ASSUME NEW t \in SUBSET s, t # s PROVE Good(t)
    <3>1. PICK x \in s : x \notin t
        BY <2>2
    <3>2. s \ {x} \in P /\ t \in SUBSET (s \ {x})
        BY <1>5, <3>1
    <3> HIDE DEF Good
    <3> QED
        BY <3>2
  <2> HIDE DEF Good
  <2> QED
      BY <2>1, <2>2
<1>6. SUBSET D \subseteq P
  <2>1. IsFiniteSet(D)
      BY DEF D
  <2> HIDE DEF P
  <2> QED
      BY <1>5, <2>1, SetInduction
<1>7. \A s \in SUBSET D : Good(s)
  <2> HIDE DEF Good
  <2> QED
      BY <1>6
<1>8. Adds(f, g)
    BY <1>1, <1>7 DEF Adds, D
<1> QED
    BY <1>1, <1>8 DEF D

\* One more summand adds what it is.
LEMMA SumExtended ==
    ASSUME NEW f, IsFiniteSet(DOMAIN f), NEW n, n \notin DOMAIN f,
           NEW h, DOMAIN h = DOMAIN f \cup {n}, \A x \in DOMAIN f : h[x] = f[x],
           \A x \in DOMAIN h : h[x] \in Int
    PROVE  SumFunction(h) = SumFunction(f) + h[n]
<1>1. IsFiniteSet(DOMAIN h)
    BY FS_AddElement
<1>2. PICK g : SumFunction(f) = g[DOMAIN f] /\ Adds(f, g)
    BY SumInAnyOrder
<1>3. PICK k : SumFunction(h) = k[DOMAIN h] /\ Adds(h, k)
    BY <1>1, SumInAnyOrder
<1> DEFINE P == {s \in SUBSET (DOMAIN f) : k[s] = g[s]}
<1>4. ASSUME NEW s \in SUBSET (DOMAIN f), \A x \in s : s \ {x} \in P PROVE s \in P
  <2>1. CASE s = {}
      BY <1>2, <1>3, <2>1 DEF Adds
  <2>2. CASE s # {}
    <3>1. PICK x \in s : TRUE
        BY <2>2
    <3>2. g[s] = f[x] + g[s \ {x}]
        BY <1>2 DEF Adds
    <3>3. k[s] = h[x] + k[s \ {x}]
        BY <1>3 DEF Adds
    <3> QED
        BY <1>4, <3>2, <3>3
  <2> QED
      BY <2>1, <2>2
<1>5. SUBSET (DOMAIN f) \subseteq P
  <2> DEFINE D == DOMAIN f
  <2>1. IsFiniteSet(D) /\ \A s \in SUBSET D : (\A x \in s : s \ {x} \in P) => s \in P
      BY <1>4
  <2> HIDE DEF P, D
  <2>2. SUBSET D \subseteq P
      BY <2>1, SetInduction
  <2> QED
      BY <2>2 DEF D
<1>6. k[DOMAIN h] = h[n] + k[DOMAIN h \ {n}]
    BY <1>3 DEF Adds
<1>7. DOMAIN h \ {n} = DOMAIN f
    OBVIOUS
<1>8. g[DOMAIN f] \in Int
    BY <1>2 DEF Adds
<1> QED
    BY <1>2, <1>3, <1>5, <1>6, <1>7, <1>8

LEMMA SumOfZeros ==
    ASSUME NEW f, IsFiniteSet(DOMAIN f), \A x \in DOMAIN f : f[x] = 0
    PROVE  SumFunction(f) = 0
<1>1. PICK g : SumFunction(f) = g[DOMAIN f] /\ Adds(f, g)
    BY SumInAnyOrder
<1> DEFINE P == {s \in SUBSET (DOMAIN f) : g[s] = 0}
<1>2. ASSUME NEW s \in SUBSET (DOMAIN f), \A x \in s : s \ {x} \in P PROVE s \in P
  <2>1. CASE s = {}
      BY <1>1, <2>1 DEF Adds
  <2>2. CASE s # {}
    <3>1. PICK x \in s : TRUE
        BY <2>2
    <3>2. g[s] = f[x] + g[s \ {x}]
        BY <1>1 DEF Adds
    <3> QED
        BY <1>2, <3>2
  <2> QED
      BY <2>1, <2>2
<1>3. SUBSET (DOMAIN f) \subseteq P
  <2> HIDE DEF P
  <2> QED
      BY <1>2, SetInduction
<1> QED
    BY <1>1, <1>3

LEMMA SumIsInt ==
    ASSUME NEW f, IsFiniteSet(DOMAIN f), \A x \in DOMAIN f : f[x] \in Int
    PROVE  SumFunction(f) \in Int
<1>1. PICK g : SumFunction(f) = g[DOMAIN f] /\ Adds(f, g)
    BY SumInAnyOrder
<1> QED
    BY <1>1 DEF Adds
-----------------------------------------------------------------------------
(* What the spans of a store are.                                            *)

Stored(store) ==
    /\ IsFiniteSet(DOMAIN store)
    /\ \A id \in DOMAIN store : store[id].passage \in DOMAIN Mentions
StoresInv ==
    /\ Stored(spans)
    /\ ing.at # "idle" => Stored(ing.spans)
    /\ ~Worked({"idle"}) => Stored(enr.base.store)

\* The numbers of the documents are apart, though skipped pages have none.
LEMMA NumberedApart ==
    ASSUME NEW spine \in Spines, NEW i \in DOMAIN spine, NEW j \in DOMAIN spine, i < j,
           spine[j].kind # "thin"
    PROVE  Numbered(spine, i) # Numbered(spine, j)
<1> DEFINE upto(n) == {k \in 1..n : spine[k].kind # "thin"}
<1>1. i \in Nat /\ j \in Nat /\ 1 <= j
  <2>1. DOMAIN spine = 1..Len(spine) /\ Len(spine) \in Nat
      BY LibraryAssumption
  <2> QED
      BY <2>1
<1>2. IsFiniteSet(upto(j))
  <2>1. 1 \in Int /\ j \in Int
      BY <1>1
  <2>2. IsFiniteSet(1..j)
      BY <2>1, FS_Interval
  <2>3. upto(j) \in SUBSET (1..j)
      OBVIOUS
  <2> HIDE DEF upto
  <2> QED
      BY <2>2, <2>3, FS_Subset
<1>3. upto(i) \in SUBSET upto(j) /\ j \in upto(j) /\ j \notin upto(i)
    BY <1>1
<1> HIDE DEF upto
<1>4. upto(i) # upto(j)
    BY <1>3
<1>5. Cardinality(upto(i)) # Cardinality(upto(j))
    BY <1>2, <1>3, <1>4, FS_Subset
<1> QED
    BY <1>5 DEF Numbered, upto

LEMMA DocumentsApart ==
    ASSUME NEW spine \in Spines, NEW d \in Documents(spine), NEW e \in Documents(spine),
           d.index = e.index
    PROVE  d = e
<1>1. PICK i \in DOMAIN spine :
          spine[i].kind = "chapter"
          /\ d = [index |-> Numbered(spine, i), order |-> i, text |-> spine[i].text]
    BY DEF Documents
<1>2. PICK j \in DOMAIN spine :
          spine[j].kind = "chapter"
          /\ e = [index |-> Numbered(spine, j), order |-> j, text |-> spine[j].text]
    BY DEF Documents
<1>3. Numbered(spine, i) = Numbered(spine, j)
    BY <1>1, <1>2
<1>4. i \in Int /\ j \in Int
  <2>1. DOMAIN spine = 1..Len(spine)
      BY LibraryAssumption
  <2> QED
      BY <2>1
<1>5. i = j
  <2>1. spine[i].kind # "thin" /\ spine[j].kind # "thin"
      BY <1>1, <1>2
  <2>2. ~(i < j)
      BY <1>3, <2>1, NumberedApart
  <2>3. ~(j < i)
      BY <1>3, <2>1, NumberedApart
  <2> QED
      BY <1>4, <2>2, <2>3
<1> QED
    BY <1>1, <1>2, <1>5

LEMMA DocumentText ==
    ASSUME NEW spine \in Spines, NEW d \in Documents(spine)
    PROVE  /\ IsFiniteSet({d.index} \X DOMAIN d.text)
           /\ \A k \in DOMAIN d.text : d.text[k] \in DOMAIN Mentions
<1>1. PICK i \in DOMAIN spine : d.text = spine[i].text
    BY DEF Documents
<1>2. spine \in Seq([kind : {"chapter", "thin", "junk"}, text : Seq(DOMAIN Mentions)])
    BY LibraryAssumption
<1>3. spine[i].text \in Seq(DOMAIN Mentions)
  <2> DEFINE Page == [kind : {"chapter", "thin", "junk"}, text : Seq(DOMAIN Mentions)]
  <2>1. \A page \in Page : page.text \in Seq(DOMAIN Mentions)
      OBVIOUS
  <2>2. spine \in Seq(Page)
      BY <1>2
  <2> HIDE DEF Page
  <2>3. spine[i] \in Page
      BY <2>2
  <2> QED
      BY <2>1, <2>3
<1> DEFINE t == d.text
<1>4. DOMAIN t = 1..Len(t) /\ Len(t) \in Nat /\ \A k \in DOMAIN t : t[k] \in DOMAIN Mentions
    BY <1>1, <1>3
<1> HIDE DEF t
<1>5. IsFiniteSet(DOMAIN t)
  <2>1. 1 \in Int /\ Len(t) \in Int
      BY <1>4
  <2> QED
      BY <1>4, <2>1, FS_Interval
<1>6. IsFiniteSet({d.index} \X DOMAIN t)
  <2>1. IsFiniteSet({d.index})
      BY FS_Singleton
  <2> QED
      BY <1>5, <2>1, FS_Product
<1> QED
    BY <1>4, <1>6 DEF t

LEMMA NewSpansStored ==
    ASSUME NEW spine \in Spines, NEW chapter, DOMAIN chapter = Documents(spine)
    PROVE  Stored(NewSpans(chapter))
<1> DEFINE docs == Documents(spine)
           Ids(d) == {d.index} \X DOMAIN d.text
           all == {Ids(d) : d \in docs}
           From(id) == CHOOSE d \in docs : d.index = id[1]
<1>1. DOMAIN NewSpans(chapter) = UNION all
    BY DEF NewSpans
<1>2. IsFiniteSet(UNION all)
  <2>1. \A d \in docs : IsFiniteSet(Ids(d))
      BY DocumentText
  <2>2. IsFiniteSet(docs)
      BY DocumentsFinite
  <2> HIDE DEF docs, Ids
  <2>3. IsFiniteSet(all)
    <3> DEFINE f == [d \in docs |-> Ids(d)]
    <3>1. f \in [docs -> all] /\ all = {f[d] : d \in docs}
        OBVIOUS
    <3> HIDE DEF f, all
    <3> QED
        BY <2>2, <3>1, ImageFinite
  <2>4. \A T \in all : IsFiniteSet(T)
      BY <2>1
  <2> HIDE DEF all
  <2> QED
      BY <2>3, <2>4, FS_UNION
<1>3. ASSUME NEW id \in UNION all PROVE NewSpans(chapter)[id].passage \in DOMAIN Mentions
  <2>1. NewSpans(chapter)[id].passage = From(id).text[id[2]]
      BY DEF NewSpans
  <2>2. PICK d \in docs : id[1] = d.index /\ id[2] \in DOMAIN d.text
      OBVIOUS
  <2>3. From(id) \in docs /\ From(id).index = d.index
      BY <2>2
  <2>4. From(id) = d
    <3> HIDE DEF From
    <3> QED
        BY <2>2, <2>3, DocumentsApart
  <2> QED
      BY <2>1, <2>2, <2>4, DocumentText
<1> QED
    BY <1>1, <1>2, <1>3 DEF Stored

LEMMA OverStored ==
    ASSUME NEW old, Stored(old), NEW new, Stored(new) PROVE Stored(Over(old, new))
<1>1. DOMAIN Over(old, new) = DOMAIN old \cup DOMAIN new
    BY DEF Over
<1>2. IsFiniteSet(DOMAIN Over(old, new))
    BY <1>1, FS_Union DEF Stored
<1>3. \A id \in DOMAIN old \cup DOMAIN new :
          Over(old, new)[id].passage \in DOMAIN Mentions
    BY DEF Over, Stored
<1> QED
    BY <1>1, <1>2, <1>3 DEF Stored

LEMMA InitStores == Init => StoresInv
<1>1. Stored(NoMap)
    BY EmptyMap, FS_EmptySet DEF Stored
<1> QED
    BY <1>1 DEF Init, Idle, StoresInv, Worked

LEMMA StoresStep == StoresInv /\ CopiesInv /\ WindowInv /\ [Next]_vars => StoresInv'
<1> SUFFICES ASSUME StoresInv, CopiesInv, WindowInv, [Next]_vars PROVE StoresInv'
    OBVIOUS
<1> DEFINE Ours == Stored(spans) /\ (ing.at # "idle" => Stored(ing.spans))
           Theirs == ~Worked({"idle"}) => Stored(enr.base.store)
<1>1. CASE Ingest
  <2>1. PICK spine \in Spines : \/ ing' = With(DocChapters(Documents(spine)))
                                \/ ing' = With(ChunkChapters(Documents(spine)))
      BY <1>1 DEF Ingest
  <2>2. PICK chapter : DOMAIN chapter = Documents(spine) /\ ing' = With(chapter)
    <3>1. DOMAIN DocChapters(Documents(spine)) = Documents(spine)
        BY DEF DocChapters
    <3>2. DOMAIN ChunkChapters(Documents(spine)) = Documents(spine)
        BY DEF ChunkChapters
    <3> QED
        BY <2>1, <3>1, <3>2
  <2>3. ing'.spans = Over(spans, NewSpans(chapter))
      BY <2>2 DEF With
  <2>4. Stored(ing'.spans)
      BY <2>2, <2>3, NewSpansStored, OverStored DEF StoresInv
  <2> QED
      BY <1>1, <2>4 DEF Ingest, enrichment, StoresInv, Worked
<1>2. CASE SaveChapters
    BY <1>2 DEF SaveChapters, enrichment, StoresInv, Worked
<1>3. CASE SaveSpans
    BY <1>3 DEF SaveSpans, enrichment, StoresInv, Worked
<1>4. CASE SaveChunks
    BY <1>4 DEF SaveChunks, enrichment, StoresInv, Worked
<1>5. CASE Reindex \/ IngestDies \/ OpenRebuild \/ RebuildIndex \/ RebuildDies
    BY <1>5 DEF Reindex, IngestDies, OpenRebuild, RebuildIndex, RebuildDies, Idle, enrichment,
                StoresInv, Worked
<1>6. CASE Enrich
  <2>1. enr'.base.store = spans
      BY <1>6 DEF Enrich
  <2> QED
      BY <1>6, <2>1 DEF Enrich, canon, StoresInv
<1>7. CASE UNCHANGED canon /\ (~Worked({"idle"})' => ~Worked({"idle"}) /\ enr'.base = enr.base)
    BY <1>7 DEF canon, StoresInv
<1>8. CASE SkipWindow
    BY <1>7, <1>8 DEF SkipWindow, AtWindow, Worked
<1>9. CASE Extract \/ Discover \/ Summarise \/ Mark
  <2>1. UNCHANGED canon
      BY <1>9 DEF Extract, Discover, Summarise, Mark
  <2>2. ~Worked({"idle"}) /\ enr'.base = enr.base
    <3>1. CASE Extract
        BY <3>1 DEF Extract, AtWindow, Worked
    <3>2. CASE Discover
        BY <3>2 DEF Discover, Worked
    <3>3. CASE Summarise
        BY <3>3 DEF Summarise, Worked
    <3>4. CASE Mark
        BY <3>4 DEF Mark, Worked
    <3> QED
        BY <1>9, <3>1, <3>2, <3>3, <3>4
  <2> QED
      BY <1>7, <2>1, <2>2
<1>10. CASE EnrichEnds \/ EnrichDies
  <2>1. UNCHANGED canon /\ Worked({"idle"})'
      BY <1>10 DEF EnrichEnds, EnrichDies, Idle, Worked
  <2> QED
      BY <1>7, <2>1
<1>11. CASE UNCHANGED vars
    BY <1>11 DEF vars, StoresInv, Worked
<1> QED
    BY <1>1, <1>2, <1>3, <1>4, <1>5, <1>6, <1>8, <1>9, <1>10, <1>11 DEF Next

-----------------------------------------------------------------------------
(* The counts.                                                               *)

\* What a window may hold, and how it is counted.
Legal(read) ==
    /\ IsFiniteSet(DOMAIN read)
    /\ \A id \in DOMAIN read : read[id] \in DOMAIN Mentions

LEMMA WindowLegal == ASSUME NEW base, NEW w, Stored(base.store) PROVE Legal(Window(base, w))
<1>1. DOMAIN Window(base, w) = InWindow(base, w) /\ InWindow(base, w) \in SUBSET DOMAIN base.store
    BY DEF Window, InWindow
<1>2. IsFiniteSet(InWindow(base, w))
    BY <1>1, FS_Subset DEF Stored
<1>3. \A id \in InWindow(base, w) : Window(base, w)[id] \in DOMAIN Mentions
    BY <1>1 DEF Window, Stored
<1> QED
    BY <1>1, <1>2, <1>3 DEF Legal

LEMMA MentionedType ==
    ASSUME NEW read, Legal(read), NEW e \in Entities
    PROVE  /\ Mentioned(read, e) \in Int
           /\ e \notin Naming(read) => Mentioned(read, e) = 0
<1> DEFINE f == [id \in DOMAIN read |-> Mentions[read[id]][e]]
<1>1. \A id \in DOMAIN read : Mentions[read[id]][e] \in Nat
    BY LibraryAssumption DEF Legal
<1>2. IsFiniteSet(DOMAIN f) /\ \A id \in DOMAIN f : f[id] \in Int
    BY <1>1 DEF Legal
<1>3. ASSUME e \notin Naming(read) PROVE \A id \in DOMAIN f : f[id] = 0
  <2> SUFFICES ASSUME NEW id \in DOMAIN read PROVE Mentions[read[id]][e] = 0
      OBVIOUS
  <2>1. ~Names(read[id], e)
      BY <1>3 DEF Naming, Range
  <2> QED
      BY <1>1, <2>1 DEF Names
<1> HIDE DEF f
<1>4. SumFunction(f) \in Int
    BY <1>2, SumIsInt
<1>5. e \notin Naming(read) => SumFunction(f) = 0
    BY <1>2, <1>3, SumOfZeros
<1> QED
    BY <1>4, <1>5 DEF Mentioned, f

\* The count of an entity is what the marked windows say of it, and the window in
\* work when it is there already.
Known(e) == IF e \in DOMAIN counts THEN counts[e] ELSE 0
Marked(e) == SumFunction([w \in saved.done |-> Mentioned(marked[w].passages, e)])
Inside == Worked({"semantic", "arc", "mark"})
InWork(e) == IF Inside THEN Mentioned(Window(enr.base, enr.w), e) ELSE 0
CountInv ==
    /\ IsFiniteSet(saved.done)
    /\ \A w \in saved.done : Legal(marked[w].passages)
    /\ clean => /\ Inside => enr.w \notin saved.done
                /\ \A e \in Entities : Known(e) = Marked(e) + InWork(e)

LEMMA MarkedType == ASSUME CountInv, NEW e \in Entities PROVE Marked(e) \in Int
<1> DEFINE f == [w \in saved.done |-> Mentioned(marked[w].passages, e)]
<1>1. IsFiniteSet(DOMAIN f) /\ \A w \in DOMAIN f : f[w] \in Int
    BY MentionedType DEF CountInv
<1> HIDE DEF f
<1>2. SumFunction(f) \in Int
    BY <1>1, SumIsInt
<1> QED
    BY <1>2 DEF Marked, f

LEMMA WindowInWork ==
    ASSUME StoresInv, Inside \/ enr.at = "next"
    PROVE  Legal(Window(enr.base, enr.w))
BY WindowLegal DEF StoresInv, Inside, Worked

LEMMA CountedIn ==
    ASSUME NEW known, NEW new, NEW e
    PROVE  (IF e \in DOMAIN Counted(known, new) THEN Counted(known, new)[e] ELSE 0)
           = (IF e \in DOMAIN known \cup DOMAIN new
              THEN (IF e \in DOMAIN known THEN known[e] ELSE 0)
                   + (IF e \in DOMAIN new THEN new[e] ELSE 0)
              ELSE 0)
BY DEF Counted

\* A step that neither counts nor marks.
LEMMA CountKept ==
    ASSUME CountInv, UNCHANGED <<counts, marked>>, saved'.done = saved.done, clean' => clean,
           Inside' <=> Inside, Inside => enr'.base = enr.base /\ enr'.w = enr.w
    PROVE  CountInv'
<1>1. \A e : Known(e)' = Known(e) /\ Marked(e)' = Marked(e) /\ InWork(e)' = InWork(e)
    BY DEF Known, Marked, InWork
<1> QED
    BY <1>1 DEF CountInv

LEMMA InitCount == Init => CountInv
<1> SUFFICES ASSUME Init PROVE CountInv
    OBVIOUS
<1>1. saved.done = {} /\ DOMAIN counts = {} /\ ~Inside
    BY EmptyMap DEF Init, Idle, Inside, Worked
<1>2. \A e \in Entities : Marked(e) = 0
  <2> SUFFICES ASSUME NEW e \in Entities PROVE Marked(e) = 0
      OBVIOUS
  <2> DEFINE f == [w \in saved.done |-> Mentioned(marked[w].passages, e)]
  <2>1. DOMAIN f = {}
      BY <1>1
  <2> HIDE DEF f
  <2>2. SumFunction(f) = 0
      BY <2>1, FS_EmptySet, SumOfZeros
  <2> QED
      BY <2>2 DEF Marked, f
<1> QED
    BY <1>1, <1>2, FS_EmptySet DEF CountInv, Known, InWork

LEMMA ExtractCounts ==
    ASSUME CountInv, StoresInv, WindowInv, Extract PROVE CountInv'
<1> DEFINE read == Window(enr.base, enr.w)
<1>1. /\ counts' = Counted(counts, Structural(read)) /\ UNCHANGED <<saved, marked>>
      /\ clean' = (clean /\ enr.w \notin enr.done) /\ enr.at = "next"
      /\ enr' = [enr EXCEPT !.at = IF read = NoMap \/ enr.structural THEN "mark" ELSE "semantic"]
    BY DEF Extract, AtWindow
<1>2. Inside' /\ enr'.base = enr.base /\ enr'.w = enr.w /\ ~Inside
    BY <1>1 DEF Inside, Worked, WindowInv
<1>3. enr.done = saved.done
    BY <1>1 DEF WindowInv, Worked
<1>4. ASSUME clean', NEW e \in Entities PROVE Known(e)' = Marked(e)' + InWork(e)'
  <2>1. Legal(read)
      BY <1>1, WindowInWork
  <2>2. Mentioned(read, e) \in Int /\ (e \notin Naming(read) => Mentioned(read, e) = 0)
      BY <2>1, MentionedType
  <2>3. Known(e) = Marked(e) /\ Marked(e) \in Int
    <3>1. clean /\ InWork(e) = 0
        BY <1>1, <1>2, <1>4 DEF InWork
    <3>2. Marked(e) \in Int
        BY MarkedType
    <3> QED
        BY <3>1, <3>2 DEF CountInv
  <2>4. Marked(e)' = Marked(e) /\ InWork(e)' = Mentioned(read, e)
      BY <1>1, <1>2 DEF Marked, InWork
  <2>5. Known(e)' = Known(e) + Mentioned(read, e)
    <3>1. /\ DOMAIN Structural(read) = Naming(read)
          /\ e \in Naming(read) => Structural(read)[e] = Mentioned(read, e)
        BY StructuralDomain DEF Structural, Naming
    <3>2. Known(e)' = IF e \in DOMAIN counts \cup Naming(read)
                      THEN Known(e) + (IF e \in Naming(read) THEN Mentioned(read, e) ELSE 0)
                      ELSE 0
      <4> HIDE DEF read
      <4> QED
          BY <1>1, <3>1, CountedIn DEF Known
    <3>3. e \notin DOMAIN counts => Known(e) = 0
        BY DEF Known
    <3> HIDE DEF read
    <3> QED
        BY <2>2, <2>3, <3>2, <3>3
  <2> HIDE DEF read
  <2> QED
      BY <2>2, <2>3, <2>4, <2>5
<1> QED
    BY <1>1, <1>2, <1>3, <1>4 DEF CountInv

LEMMA DiscoverCounts ==
    ASSUME CountInv, StoresInv, WindowInv, Discover PROVE CountInv'
<1> DEFINE read == Window(enr.base, enr.w)
<1>1. PICK new \in SUBSET Found(read) : counts' = Counted(counts, [e \in new |-> 1])
    BY DEF Discover
<1>2. UNCHANGED <<saved, marked, clean>> /\ enr.at = "semantic" /\ enr' = [enr EXCEPT !.at = "arc"]
    BY DEF Discover
<1>3. Inside' /\ Inside /\ enr'.base = enr.base /\ enr'.w = enr.w
    BY <1>2 DEF Inside, Worked, WindowInv
<1>4. ASSUME NEW e \in Entities PROVE e \notin new
  <2>1. Legal(read)
      BY <1>3, WindowInWork
  <2>2. \A passage \in Range(read) : passage \in DOMAIN Mentions
      BY <2>1 DEF Legal, Range
  <2>3. \A passage \in Range(read) : e \notin Strangers[passage]
      BY <2>2, LibraryAssumption
  <2> QED
      BY <2>3 DEF Found
<1>5. ASSUME clean, NEW e \in Entities PROVE Known(e)' = Known(e)
  <2>1. Known(e) \in Int
    <3>1. Legal(read)
        BY <1>3, WindowInWork
    <3>2. Marked(e) \in Int /\ InWork(e) \in Int
        BY <3>1, MarkedType, MentionedType DEF InWork
    <3> QED
        BY <1>5, <3>2 DEF CountInv
  <2>2. Known(e)' = IF e \in DOMAIN counts THEN Known(e) + 0 ELSE 0
      BY <1>1, <1>4, CountedIn DEF Known
  <2> QED
      BY <2>1, <2>2 DEF Known
<1>6. \A e : Marked(e)' = Marked(e) /\ InWork(e)' = InWork(e)
    BY <1>2, <1>3 DEF Marked, InWork
<1> QED
    BY <1>2, <1>3, <1>5, <1>6 DEF CountInv

LEMMA MarkCounts ==
    ASSUME CountInv, StoresInv, KnownInv, Mark PROVE CountInv'
<1> USE DEF KnownInv
<1> DEFINE read == Window(enr.base, enr.w)
<1>1. /\ UNCHANGED <<counts, clean>> /\ enr.at = "mark" /\ ~Inside' /\ Inside
      /\ saved'.done = saved.done \cup {enr.w}
  <2>1. /\ UNCHANGED <<counts, clean>> /\ enr.at = "mark" /\ saved'.done = enr.done \cup {enr.w}
        /\ enr' = [enr EXCEPT !.at = "next", !.w = @ + 1, !.done = @ \cup {enr.w}]
      BY DEF Mark, knowledge
  <2>2. enr.done = saved.done
      BY <2>1 DEF WindowInv, Worked
  <2>3. enr'.at = "next"
      BY <2>1 DEF WindowInv, Worked
  <2> QED
      BY <2>1, <2>2, <2>3 DEF Inside, Worked
<1>2. /\ DOMAIN marked' = DOMAIN marked \cup {enr.w} /\ marked'[enr.w].passages = read
      /\ \A w \in DOMAIN marked \ {enr.w} : marked'[w] = marked[w]
    BY DEF Mark, MarkWindow, Read
<1>3. Legal(read)
    BY <1>1, WindowInWork
<1>4. saved.done \subseteq DOMAIN marked
    BY DEF MarkedIsStored
<1>5. IsFiniteSet(saved'.done)
    BY <1>1, FS_AddElement DEF CountInv
<1>6. \A w \in saved'.done : Legal(marked'[w].passages)
    BY <1>1, <1>2, <1>3, <1>4 DEF CountInv
<1>7. ASSUME clean, NEW e \in Entities PROVE Known(e)' = Marked(e)' + InWork(e)'
  <2> DEFINE f == [w \in saved.done |-> Mentioned(marked[w].passages, e)]
             h == [w \in saved'.done |-> Mentioned(marked'[w].passages, e)]
  <2>1. enr.w \notin saved.done /\ Known(e) = Marked(e) + Mentioned(read, e)
      BY <1>1, <1>7 DEF CountInv, InWork
  <2>2. IsFiniteSet(DOMAIN f) /\ enr.w \notin DOMAIN f /\ DOMAIN h = DOMAIN f \cup {enr.w}
      BY <1>1, <2>1 DEF CountInv
  <2>3. \A w \in DOMAIN f : h[w] = f[w]
      BY <1>1, <1>2, <1>4, <2>1
  <2>4. h[enr.w] = Mentioned(read, e)
      BY <1>1, <1>2
  <2>5. \A w \in DOMAIN h : h[w] \in Int
      BY <1>6, MentionedType
  <2>6. Marked(e) = SumFunction(f) /\ Marked(e)' = SumFunction(h)
      BY DEF Marked
  <2> HIDE DEF f, h
  <2>7. SumFunction(h) = SumFunction(f) + h[enr.w]
      BY <2>2, <2>3, <2>5, SumExtended
  <2>8. Known(e)' = Known(e) /\ InWork(e)' = 0
      BY <1>1 DEF Known, InWork
  <2>9. Marked(e) \in Int /\ Mentioned(read, e) \in Int
      BY <1>3, MarkedType, MentionedType
  <2> HIDE DEF read
  <2> QED
      BY <2>1, <2>4, <2>6, <2>7, <2>8, <2>9
<1> QED
    BY <1>1, <1>5, <1>6, <1>7 DEF CountInv

LEMMA CountStep == CountInv /\ StoresInv /\ KnownInv /\ [Next]_vars => CountInv'
<1> SUFFICES ASSUME CountInv, StoresInv, KnownInv, [Next]_vars PROVE CountInv'
    OBVIOUS
<1> USE DEF KnownInv
<1>1. CASE Enrich
    BY <1>1, CountKept DEF Enrich, knowledge, Idle, Inside, Worked
<1>2. CASE SkipWindow
    BY <1>2, CountKept DEF SkipWindow, AtWindow, knowledge, Inside, Worked, WindowInv
<1>3. CASE Extract
    BY <1>3, ExtractCounts
<1>4. CASE Discover
    BY <1>4, DiscoverCounts
<1>5. CASE Summarise
    BY <1>5, CountKept DEF Summarise, Inside, Worked, WindowInv
<1>6. CASE Mark
    BY <1>6, MarkCounts
<1>7. CASE EnrichEnds
    BY <1>7, CountKept DEF EnrichEnds, knowledge, Idle, Inside, Worked
<1>8. CASE EnrichDies
  <2>1. /\ UNCHANGED <<counts, marked>> /\ saved'.done = saved.done /\ ~Inside'
        /\ clean' = (clean /\ enr.at = "next")
      BY <1>8 DEF EnrichDies, knowledge, Idle, Inside, Worked, WindowInv
  <2>2. CASE enr.at = "next"
    <3>1. ~Inside
        BY <2>2 DEF Inside, Worked
    <3> QED
        BY <2>1, <3>1, CountKept
  <2>3. CASE enr.at # "next"
      BY <2>1, <2>3 DEF CountInv
  <2> QED
      BY <2>2, <2>3
<1>9. CASE UNCHANGED enrichment
    BY <1>9, CountKept DEF enrichment, Inside, Worked
<1> QED
    BY <1>1, <1>2, <1>3, <1>4, <1>5, <1>6, <1>7, <1>8, <1>9
    DEF Next, vars, enrichment, Ingest, SaveChapters, SaveSpans, SaveChunks, Reindex,
        IngestDies, OpenRebuild, RebuildIndex, RebuildDies

\* Every mention is counted once, through torn checkpoints, resumed runs, other
\* window sizes and editions, unless a run died inside a window or did one again.
THEOREM CountedCorrect == Spec => []CountedOnce
<1> DEFINE AllInv == CountInv /\ StoresInv /\ KnownInv /\ ChaptersInv /\ CopiesInv /\ MirrorInv
<1>1. Init => AllInv
    BY InitCount, InitStores, InitKnown, InitCanon
<1>2. AllInv /\ [Next]_vars => AllInv'
    BY CountStep, StoresStep, KnownStep, CanonInv DEF KnownInv
<1>3. AllInv => CountedOnce
  <2> SUFFICES ASSUME CountInv, clean, enr = Idle, NEW e \in Entities
               PROVE  Known(e) = Marked(e)
      BY DEF CountedOnce, Known, Marked
  <2>1. InWork(e) = 0
      BY DEF InWork, Inside, Worked, Idle
  <2>2. Marked(e) \in Int
      BY MarkedType
  <2> QED
      BY <2>1, <2>2 DEF CountInv
<1> QED
    BY <1>1, <1>2, <1>3, PTL DEF Spec
=============================================================================
