------------------------- MODULE HybridMemoryProofs -------------------------
(***************************************************************************)
(* HitsAreRight, Forgotten and StoredIsHeld of HybridMemory for every set  *)
(* of contents and every bound.                                            *)
(***************************************************************************)
EXTENDS HybridMemory, TLAPS

LEMMA WithDomain ==
    ASSUME NEW bag, NEW item
    PROVE  DOMAIN With(bag, item) = DOMAIN bag \cup {item}
BY DEF With, (+), SetToBag

LEMMA UpToDomain ==
    ASSUME NEW bag, NEW ch
    PROVE  DOMAIN UpTo(bag, ch) = {i \in DOMAIN bag : i.ref <= ch}
BY DEF UpTo, Restrict

LEMMA EmptyDomain == DOMAIN EmptyBag = {}
BY DEF EmptyBag, SetToBag

LEMMA SetDomain == ASSUME NEW S PROVE DOMAIN SetToBag(S) = S
BY DEF SetToBag

\* The engine works with what it saved; SQLite's rows are empty until used.
Held == (engine # "closed" => items = Loaded(json, db)) \/ uses > 0
Unused == uses \in Nat /\ (uses = 0 => db.rows = {})
AllItems == DOMAIN items \cup DOMAIN json.items \cup db.rows \cup row
\* An item's id says what the item says, and so does a row of the index.
WellNamed ==
    /\ \A i \in AllItems : i.id.of = i.content
    /\ \A r \in index.rows : r.id.of = r.content
Referred == head \in Nat /\ \A i \in AllItems : i.ref \in Nat
\* The index of the SQLite store has every row of its table as it is now.
Matched == db.rows \subseteq db.fts
MemoryInv == Held /\ Unused /\ WellNamed /\ Referred /\ Forgotten /\ Matched

LEMMA LoadedItems ==
    ASSUME NEW file, NEW store
    PROVE  DOMAIN Loaded(file, store) \subseteq DOMAIN file.items \cup store.rows
BY EmptyDomain, SetDomain DEF Loaded

\* What _load takes when the SQLite store is empty.
LEMMA LoadedFile ==
    ASSUME NEW file, NEW store, store.rows = {}
    PROVE  DOMAIN Loaded(file, store) \subseteq DOMAIN file.items
BY EmptyDomain DEF Loaded

LEMMA LoadedSaved ==
    ASSUME NEW bag, NEW store, store.rows = {}
    PROVE  Loaded(Saved(bag), store) = bag
BY DEF Loaded, Saved

LEMMA ItemNames ==
    ASSUME NEW content, NEW ch
    PROVE  /\ ChapterItem(content, ch).id.of = content
           /\ ChapterItem(content, ch).content = content
           /\ ChapterItem(content, ch).ref = ch
           /\ FreshId(content).of = content
BY DEF ChapterItem, FreshId, IdOf

LEMMA RowNames ==
    ASSUME NEW bag, \A i \in DOMAIN bag : i.id.of = i.content
    PROVE  \A r \in Indexed(bag).rows : r.id.of = r.content
BY DEF Indexed, Row

LEMMA InitInv == Init => MemoryInv
BY EmptyDomain DEF Init, MemoryInv, Held, Unused, AllItems, WellNamed, Referred, Forgotten,
                   Matched, Saved

\* The invariant after a step that changes the items and the file only.
LEMMA OpenInv == MemoryInv /\ Open => MemoryInv'
<1> SUFFICES ASSUME MemoryInv, Open PROVE MemoryInv'
    OBVIOUS
<1> USE DEF MemoryInv, Open, files, history
<1>1. AllItems' \subseteq AllItems
    BY LoadedItems DEF AllItems
<1>2. uses = 0 => DOMAIN items' \subseteq DOMAIN json.items
    BY LoadedFile DEF Unused
<1>3. WellNamed' /\ Referred'
    BY <1>1 DEF WellNamed, Referred
<1>4. Held' /\ Unused' /\ Matched'
    BY DEF Held, Unused, Matched
<1>5. Forgotten'
    BY <1>2 DEF Forgotten
<1> QED BY <1>3, <1>4, <1>5

\* A step that adds an item, no later than the head to be, to what it saves.
LEMMA AddInv == MemoryInv /\ Add => MemoryInv'
<1> SUFFICES ASSUME MemoryInv, Add PROVE MemoryInv'
    OBVIOUS
<1> PICK content \in Contents, ref \in 0..head :
        LET item == [id |-> FreshId(content), content |-> content, ref |-> ref]
        IN  items' = With(items, item) /\ row' = {item}
    BY DEF Add
<1> DEFINE item == [id |-> FreshId(content), content |-> content, ref |-> ref]
<1>1. /\ items' = With(items, item) /\ row' = {item} /\ json' = Saved(items')
      /\ index' = index /\ db' = db /\ head' = head /\ cut' = cut /\ uses' = uses
    BY DEF Add, history
<1>2. item.id.of = item.content /\ item.ref \in 0..head /\ head \in Nat
    BY ItemNames DEF MemoryInv, Referred
<1> HIDE DEF item
<1>3. DOMAIN items' = DOMAIN items \cup {item} /\ json'.items = items'
    BY <1>1, WithDomain DEF Saved
<1>4. AllItems' \subseteq AllItems \cup {item}
    BY <1>1, <1>3 DEF AllItems
<1>5. WellNamed' /\ Referred'
    BY <1>1, <1>2, <1>4 DEF MemoryInv, WellNamed, Referred
<1>6. Held' /\ Unused' /\ Matched'
    BY <1>1, LoadedSaved DEF MemoryInv, Held, Unused, Matched
<1>7. Forgotten'
    BY <1>1, <1>2, <1>3 DEF MemoryInv, Forgotten
<1> QED BY <1>5, <1>6, <1>7 DEF MemoryInv

LEMMA IndexInv == MemoryInv /\ (Insert \/ Rebuild \/ RebuildIndex) => MemoryInv'
<1> SUFFICES ASSUME MemoryInv, Insert \/ Rebuild \/ RebuildIndex PROVE MemoryInv'
    OBVIOUS
<1>1. /\ items' = items /\ json' = json /\ db' = db /\ row' \subseteq row
      /\ head' = head /\ cut' = cut /\ uses' = uses /\ engine # "closed"
    BY DEF Insert, Rebuild, RebuildIndex, files, history, Ready
<1>2. AllItems' \subseteq AllItems
    BY <1>1 DEF AllItems
<1>3. \A r \in Indexed(items).rows : r.id.of = r.content
    BY RowNames DEF MemoryInv, WellNamed, AllItems
<1>4. \A r \in {Row(i) : i \in row} : r.id.of = r.content
    BY DEF MemoryInv, WellNamed, AllItems, Row
<1>5. \A r \in index'.rows : r.id.of = r.content
    <2>1. CASE Insert
        BY <2>1, <1>3, <1>4 DEF Insert, MemoryInv, WellNamed
    <2>2. CASE Rebuild
        BY <2>2, <1>3 DEF Rebuild
    <2>3. CASE RebuildIndex
        BY <2>3 DEF RebuildIndex, files, MemoryInv, WellNamed
    <2> QED BY <2>1, <2>2, <2>3
<1>6. WellNamed' /\ Referred'
    BY <1>1, <1>2, <1>5 DEF MemoryInv, WellNamed, Referred
<1>7. Held' /\ Unused' /\ Matched' /\ Forgotten'
    BY <1>1 DEF MemoryInv, Held, Unused, Matched, Forgotten
<1> QED BY <1>6, <1>7 DEF MemoryInv

LEMMA DropInv == MemoryInv /\ (Prune \/ Clear \/ Rollback) => MemoryInv'
<1> SUFFICES ASSUME MemoryInv, Prune \/ Clear \/ Rollback PROVE MemoryInv'
    OBVIOUS
<1>1. /\ DOMAIN items' \subseteq DOMAIN items /\ json' = Saved(items')
      /\ index' = index /\ db' = db /\ row' = row /\ cut' = cut /\ uses' = uses
    BY UpToDomain, EmptyDomain, ZenonT(60) DEF Prune, Clear, Drop, Rollback, history
<1>2. json'.items = items'
    BY <1>1 DEF Saved
<1>3. AllItems' \subseteq AllItems
    BY <1>1, <1>2 DEF AllItems
<1>4. head' \in Nat
    BY DEF Prune, Clear, Drop, Rollback, MemoryInv, Referred
<1>5. WellNamed' /\ Referred'
    BY <1>1, <1>3, <1>4 DEF MemoryInv, WellNamed, Referred
<1>6. Held' /\ Unused' /\ Matched'
    BY <1>1, LoadedSaved DEF MemoryInv, Held, Unused, Matched
<1>7. Forgotten'
    <2>1. CASE Rollback
        <3>1. \A i \in DOMAIN items' : i.ref <= head'
            BY <2>1, UpToDomain, ZenonT(60) DEF Rollback
        <3> QED BY <3>1, <1>2 DEF Forgotten
    <2>2. CASE Prune \/ Clear
        <3>1. head' = head
            BY <2>2 DEF Prune, Clear, Drop
        <3> QED BY <3>1, <1>1, <1>2 DEF MemoryInv, Forgotten
    <2> QED BY <2>1, <2>2
<1> QED BY <1>5, <1>6, <1>7 DEF MemoryInv

LEMMA CommitInv == MemoryInv /\ Commit => MemoryInv'
<1> SUFFICES ASSUME MemoryInv, Commit PROVE MemoryInv'
    OBVIOUS
<1> PICK content \in Contents, ch \in 1..MaxChapter :
        /\ ch <= head + 1
        /\ json' = Staged(ChapterItem(content, ch)) /\ head' = Written(ch)
    BY DEF Commit
<1> DEFINE item == ChapterItem(content, ch)
<1>1. /\ json' = Staged(item) /\ head' = Written(ch) /\ items' = Loaded(json', db)
      /\ index' = index /\ db' = db /\ row' = row /\ cut' = cut /\ uses' = uses
    BY DEF Commit, history
<1>2. item.id.of = item.content /\ item.ref = ch
    BY ItemNames
<1>3. head' \in Nat /\ head <= head' /\ ch <= head' /\ ch \in Nat /\ head \in Nat
    BY <1>1 DEF Written, MemoryInv, Referred
<1> HIDE DEF item
<1>4. DOMAIN json'.items = DOMAIN items \cup {item}
    BY <1>1, WithDomain DEF Staged
<1>5. DOMAIN items' \subseteq DOMAIN json'.items \cup db.rows
    BY <1>1, LoadedItems
<1>6. AllItems' \subseteq AllItems \cup {item}
    BY <1>1, <1>4, <1>5 DEF AllItems
<1>7. WellNamed' /\ Referred'
    BY <1>1, <1>2, <1>3, <1>6 DEF MemoryInv, WellNamed, Referred
<1>8. Held' /\ Unused' /\ Matched'
    BY <1>1 DEF MemoryInv, Held, Unused, Matched
<1>9. Forgotten'
    <2> SUFFICES ASSUME ~cut', uses' = 0, NEW i \in DOMAIN items' \cup DOMAIN json'.items
                 PROVE  i.ref <= head'
        BY DEF Forgotten
    <2>1. i \in DOMAIN items \cup {item}
        BY <1>1, <1>4, LoadedFile DEF MemoryInv, Unused
    <2>2. CASE i = item
        BY <2>2, <1>2, <1>3
    <2>3. CASE i \in DOMAIN items
        BY <2>3, <1>1, <1>3 DEF MemoryInv, Forgotten, Referred, AllItems
    <2> QED BY <2>1, <2>2, <2>3
<1> QED BY <1>7, <1>8, <1>9 DEF MemoryInv

LEMMA UndoInv == MemoryInv /\ Undo => MemoryInv'
<1> SUFFICES ASSUME MemoryInv, Undo PROVE MemoryInv'
    OBVIOUS
<1>1. /\ items' = Loaded(json, db) /\ json' = json /\ index' = index /\ db' = db
      /\ row' = row /\ head' = head /\ cut' = cut /\ uses' = uses
    BY DEF Undo, files, history
<1>2. AllItems' \subseteq AllItems
    BY <1>1, LoadedItems DEF AllItems
<1>3. WellNamed' /\ Referred'
    BY <1>1, <1>2 DEF MemoryInv, WellNamed, Referred
<1>4. Held' /\ Unused' /\ Matched'
    BY <1>1 DEF MemoryInv, Held, Unused, Matched
<1>5. Forgotten'
    BY <1>1, LoadedFile DEF MemoryInv, Unused, Forgotten
<1> QED BY <1>3, <1>4, <1>5 DEF MemoryInv

LEMMA DeathInv == MemoryInv /\ Death => MemoryInv'
<1> SUFFICES ASSUME MemoryInv, Death PROVE MemoryInv'
    OBVIOUS
<1>1. /\ items' = EmptyBag /\ row' = {} /\ engine' = "closed"
      /\ db' = db /\ uses' = uses /\ index'.rows \subseteq index.rows
    BY DEF Death, CommitDies, RollbackDies, Close, RebuildDies, files, history
<1>2. DOMAIN json'.items \subseteq DOMAIN json.items
    BY EmptyDomain DEF Death, CommitDies, RollbackDies, Close, RebuildDies, files
<1>3. AllItems' \subseteq AllItems
    BY <1>1, <1>2, EmptyDomain DEF AllItems
<1>4. head' \in Nat /\ (~cut' => ~cut /\ head <= head')
    <2>1. CASE CommitDies
        BY <2>1 DEF CommitDies, Written, history, MemoryInv, Referred
    <2>2. CASE RollbackDies
        BY <2>2 DEF RollbackDies, MemoryInv, Referred
    <2>3. CASE Close \/ RebuildDies
        BY <2>3 DEF Close, RebuildDies, history, MemoryInv, Referred
    <2> QED BY <2>1, <2>2, <2>3 DEF Death
<1>5. WellNamed' /\ Referred'
    BY <1>1, <1>3, <1>4 DEF MemoryInv, WellNamed, Referred
<1>6. Held' /\ Unused' /\ Matched'
    BY <1>1 DEF MemoryInv, Held, Unused, Matched
<1>7. Forgotten'
    <2> SUFFICES ASSUME ~cut', uses' = 0, NEW i \in DOMAIN items' \cup DOMAIN json'.items
                 PROVE  i.ref <= head'
        BY DEF Forgotten
    <2>1. i \in DOMAIN json.items
        BY <1>1, <1>2, EmptyDomain
    <2>2. i.ref <= head /\ i.ref \in Nat /\ head \in Nat
        BY <2>1, <1>1, <1>4 DEF MemoryInv, Forgotten, Referred, AllItems
    <2> QED BY <2>2, <1>4
<1> QED BY <1>5, <1>6, <1>7 DEF MemoryInv

LEMMA SqliteInv == MemoryInv /\ Sqlite => MemoryInv'
<1> SUFFICES ASSUME MemoryInv, Sqlite PROVE MemoryInv'
    OBVIOUS
<1> USE DEF Sqlite, Migrate, AddItem, DeleteItem, PruneRows, ClearRows, RebuildRows, Store
<1>1. /\ items' = items /\ json' = json /\ index' = index /\ row' = row
      /\ head' = head /\ cut' = cut /\ uses' = uses + 1
    OBVIOUS
<1>2. db'.rows \subseteq db.rows \cup DOMAIN json.items
    OBVIOUS
<1>3. Matched'
    BY DEF MemoryInv, Matched
<1>4. AllItems' \subseteq AllItems
    BY <1>1, <1>2 DEF AllItems
<1>5. WellNamed' /\ Referred'
    BY <1>1, <1>4 DEF MemoryInv, WellNamed, Referred
<1>6. uses' > 0 /\ uses' \in Nat
    BY <1>1 DEF MemoryInv, Unused
<1>7. Held' /\ Unused' /\ Forgotten'
    BY <1>6 DEF Held, Unused, Forgotten
<1> QED BY <1>3, <1>5, <1>7 DEF MemoryInv

LEMMA NextInv == MemoryInv /\ [Next]_vars => MemoryInv'
<1>1. MemoryInv /\ UNCHANGED vars => MemoryInv'
    BY DEF vars, MemoryInv, Held, Unused, AllItems, WellNamed, Referred, Forgotten, Matched
<1> QED BY <1>1, OpenInv, AddInv, IndexInv, DropInv, CommitInv, UndoInv, DeathInv, SqliteInv
        DEF Next, Engine

LEMMA Invariant == Spec => []MemoryInv
BY InitInv, NextInv, PTL DEF Spec

\* What the engine holds is what the next engine will load, whatever was
\* written, undone or rolled back in between.
THEOREM HeldCorrect == Spec => []StoredIsHeld
<1>1. MemoryInv => StoredIsHeld
    BY DEF MemoryInv, Held, StoredIsHeld
<1> QED BY Invariant, <1>1, PTL

\* A rolled back chapter is forgotten.
THEOREM ForgottenCorrect == Spec => []Forgotten
<1>1. MemoryInv => Forgotten
    BY DEF MemoryInv
<1> QED BY Invariant, <1>1, PTL

\* What search answers is about what was asked.
THEOREM HitsCorrect == Spec => []HitsAreRight
<1>1. MemoryInv => HitsAreRight
    <2> SUFFICES ASSUME MemoryInv, NEW word \in Words, NEW i \in Search(word)
                 PROVE  word \in i.content
        BY DEF HitsAreRight
    <2>1. i \in DOMAIN items /\ i.id \in Hits(word) /\ i.id.of = i.content
        BY DEF Search, MemoryInv, WellNamed, AllItems
    <2>2. \/ \E r \in index.rows : word \in r.content /\ r.id = i.id
          \/ \E j \in DOMAIN items : word \in j.content /\ j.id = i.id
        BY <2>1 DEF Hits
    <2> QED BY <2>1, <2>2 DEF MemoryInv, WellNamed, AllItems
<1> QED BY Invariant, <1>1, PTL

\* Whatever the SQLite store holds can be found by its index.
THEOREM SqliteCorrect == Spec => []SqliteFindsAll
<1>1. MemoryInv => SqliteFindsAll
    BY DEF MemoryInv, Matched, SqliteFindsAll
<1> QED BY Invariant, <1>1, PTL
=============================================================================
