---------------------------- MODULE HybridMemory ----------------------------
(***************************************************************************)
(* The story memory of one project: HybridMemoryEngine with its JSON file  *)
(* and the search index it derives from it, SqliteMemoryStore beside them, *)
(* and the chapter commits and rollbacks that write the same file.  One    *)
(* process at a time has the engine; it may die at any step and the next   *)
(* one opens what it left.                                                 *)
(***************************************************************************)
EXTENDS Integers, FiniteSets, Bags, Functions

CONSTANTS
    Contents,     \* what a memory says: a set of sets of words
    MaxChapter,   \* bound: chapters written
    MaxItems,     \* bound: items in memory
    MaxRows,      \* bound: rows in the index when an item is added
    MaxUses       \* bound: operations of the SQLite store

ASSUME MemoryAssumption == MaxChapter \in Nat /\ MaxItems \in Nat /\ MaxRows \in Nat
                           /\ MaxUses \in Nat

VARIABLES
    items,        \* self.items, a bag: the order only breaks ties between hits
    json,         \* hybrid_memory.json: [torn, bare, items]; bare: an item has no item_id
    index,        \* .fts.db: [at, rows], the file absent, without its table, or ready
    db,           \* SqliteMemoryStore: [rows, fts]
    engine,       \* closed, ready, or saved with an index row or a rebuild to come
    row,          \* the item add_memory is putting into the index
    head,         \* the last chapter of the story
    cut,          \* history: a rollback died before the memory was rolled back
    uses          \* history: operations of the SQLite store

vars == <<items, json, index, db, engine, row, head, cut, uses>>
files == <<json, index, db>>
history == <<cut, uses>>

Chapters == 0..MaxChapter
Words == UNION Contents

\* The item_id says where the item was added and what it says (a hash, taken to
\* have no collisions); from_dict makes one of the whole item for a chapter's.
IdByPosition(n, content, copy) == [n |-> n, of |-> {}, copy |-> copy]    \* mutant: no hash
IdOf(n, content, copy) == [n |-> n, of |-> content, copy |-> copy]
ChapterItem(content, ch) ==
    [id |-> [n |-> 0, of |-> content, copy |-> ch], content |-> content, ref |-> ch]
Ids(bag) == {i.id : i \in DOMAIN bag}

\* The suffix loop: the first copy whose id is free.
FreshId(content) ==
    LET n    == BagCardinality(items) + 1
        free == {k \in 0..n : IdOf(n, content, k) \notin Ids(items)}
    IN  IdOf(n, content, CHOOSE k \in free : \A j \in free : k <= j)

With(bag, item) == bag (+) SetToBag({item})
UpTo(bag, ch) == Restrict(bag, {i \in DOMAIN bag : i.ref <= ch})

\* An index row keeps what it was given; nothing updates it.
Row(item) == [id |-> item.id, content |-> item.content]
Indexed(bag) == [at |-> "ready", rows |-> {Row(i) : i \in DOMAIN bag}]

\* _load: SQLite's rows when it has any, else the file; a torn file is no items.
Loaded(file, store) ==
    IF store.rows # {} THEN SetToBag(store.rows)
    ELSE IF file.torn THEN EmptyBag
    ELSE file.items
\* _save: upsert does not exist and its error is swallowed, so the file is all.
Saved(bag) == [torn |-> FALSE, bare |-> FALSE, items |-> bag]

\* search: the index if it has any hit, else the items; ids the engine does not
\* hold are dropped.
Hits(word) ==
    LET found == {r \in index.rows : word \in r.content}
    IN  IF index.at = "ready" /\ found # {} THEN {r.id : r \in found}
        ELSE {i.id : i \in {j \in DOMAIN items : word \in j.content}}
Search(word) == {i \in DOMAIN items : i.id \in Hits(word)}

-----------------------------------------------------------------------------
Init ==
    /\ items = EmptyBag /\ json = Saved(EmptyBag) /\ index = [at |-> "absent", rows |-> {}]
    /\ db = [rows |-> {}, fts |-> {}]
    /\ engine = "closed" /\ row = {} /\ head = 0 /\ cut = FALSE /\ uses = 0

Ready == engine = "ready"

\* HybridMemoryEngine(memory_file)
Open ==
    /\ engine = "closed"
    /\ items' = Loaded(json, db)
    /\ engine' = IF items' # EmptyBag /\ index.at = "absent" THEN "rebuilding" ELSE "ready"
    /\ row' = {}
    /\ UNCHANGED <<files, head, history>>

\* add_memory: the file first, then a row of the index.
Add ==
    /\ Ready /\ BagCardinality(items) < MaxItems /\ Cardinality(index.rows) <= MaxRows
    /\ \E content \in Contents, ref \in 0..head :
          LET item == [id |-> FreshId(content), content |-> content, ref |-> ref]
          IN  items' = With(items, item) /\ row' = {item}
    /\ json' = Saved(items')
    /\ engine' = "indexing"
    /\ UNCHANGED <<index, db, head, history>>
\* _ensure_fts_ready builds a missing index with the new item already in it.
Insert ==
    /\ engine = "indexing"
    /\ index' = [at |-> "ready",
                 rows |-> (IF index.at = "ready" THEN index.rows ELSE Indexed(items).rows)
                          \cup {Row(i) : i \in row}]
    /\ engine' = "ready" /\ row' = {}
    /\ UNCHANGED <<items, json, db, head, history>>

\* prune_future, clear: the rebuild follows the save.
Drop(kept) ==
    /\ Ready
    /\ items' = kept
    /\ json' = Saved(kept)
    /\ engine' = "rebuilding"
    /\ UNCHANGED <<index, db, row, head, history>>
Prune == \E ch \in Chapters : UpTo(items, ch) # items /\ Drop(UpTo(items, ch))
Clear == Drop(EmptyBag)

Rebuild ==
    /\ engine = "rebuilding"
    /\ index' = Indexed(items)
    /\ engine' = "ready"
    /\ UNCHANGED <<items, json, db, row, head, history>>
\* rebuild called for itself, or by a search that finds the index not ready.
RebuildIndex ==
    /\ Ready
    /\ engine' = "rebuilding"
    /\ UNCHANGED <<items, files, row, head, history>>

\* A chapter is committed: its memory is appended in a staged file, which is
\* copied over the JSON, and the engine loads it.  The index is not told.
Staged(item) == [torn |-> FALSE, bare |-> TRUE, items |-> With(items, item)]
Written(ch) == IF ch > head THEN ch ELSE head
Commit ==
    /\ Ready /\ BagCardinality(items) < MaxItems
    /\ \E content \in Contents, ch \in 1..MaxChapter :
          /\ ch <= head + 1
          /\ json' = Staged(ChapterItem(content, ch)) /\ head' = Written(ch)
    /\ items' = Loaded(json', db)
    /\ UNCHANGED <<index, db, engine, row, history>>
\* The commit fails after the copy and is undone: the file as it was, loaded.
UndoWithoutLoad ==      \* mutant: the engine keeps the chapter's memory
    /\ Ready /\ BagCardinality(items) < MaxItems
    /\ \E content \in Contents, ch \in 1..MaxChapter :
          ch <= head + 1 /\ items' = With(items, ChapterItem(content, ch))
    /\ UNCHANGED <<files, engine, row, head, history>>
Undo ==
    /\ Ready
    /\ items' = Loaded(json, db)
    /\ UNCHANGED <<files, engine, row, head, history>>
\* The process dies when the chapter is published, before its memory or inside
\* the copy, which truncates the file.
CommitDies ==
    /\ Ready
    /\ \E ch \in 1..MaxChapter : ch <= head + 1 /\ head' = Written(ch)
    /\ \/ json' = json
       \/ json' = [torn |-> TRUE, bare |-> FALSE, items |-> EmptyBag]
    /\ items' = EmptyBag /\ engine' = "closed" /\ row' = {}
    /\ UNCHANGED <<index, db, history>>

\* rollback_transaction: the project, then the memory; the index is not told.
RollbackUnsaved ==      \* mutant: the items are filtered but not saved
    /\ Ready
    /\ \E ch \in 0..head : head' = ch /\ items' = UpTo(items, ch)
    /\ UNCHANGED <<files, engine, row, history>>
Rollback ==
    /\ Ready
    /\ \E ch \in 0..head : head' = ch /\ items' = UpTo(items, ch) /\ json' = Saved(items')
    /\ UNCHANGED <<index, db, engine, row, history>>
RollbackDies ==
    /\ Ready
    /\ \E ch \in 0..head : head' = ch
    /\ cut' = TRUE
    /\ items' = EmptyBag /\ engine' = "closed" /\ row' = {}
    /\ UNCHANGED <<files, uses>>

\* The process ends, or dies before it has touched the index.
Close ==
    /\ engine # "closed"
    /\ items' = EmptyBag /\ engine' = "closed" /\ row' = {}
    /\ UNCHANGED <<files, head, history>>
\* It dies in a rebuild: the table is dropped and made in transactions of their
\* own, the rows are inserted in a third.
RebuildDies ==
    /\ engine = "rebuilding" \/ (engine = "indexing" /\ index.at # "ready")
    /\ \E at \in {"bare", "ready"} : index' = [at |-> at, rows |-> {}]
    /\ items' = EmptyBag /\ engine' = "closed" /\ row' = {}
    /\ UNCHANGED <<json, db, head, history>>

-----------------------------------------------------------------------------
\* SqliteMemoryStore, used by a process of its own: each operation is one
\* transaction.
Store(rows, fts) ==
    /\ db' = [rows |-> rows, fts |-> fts]
    /\ engine = "closed" /\ uses < MaxUses /\ uses' = uses + 1
    /\ UNCHANGED <<items, json, index, engine, row, head, cut>>
\* migrate_from_json: nothing if an item has no id or two have the same.
Migrate ==
    /\ ~json.torn /\ ~json.bare
    /\ Cardinality(Ids(json.items)) = BagCardinality(json.items)
    /\ Store(DOMAIN json.items, DOMAIN json.items)
\* add_item replaces a row of the table, never one of the index.
AddUnknown ==           \* mutant: the index ignores an id it has
    \E i \in DOMAIN json.items :
        Store({r \in db.rows : r.id # i.id} \cup {i},
              db.fts \cup {k \in {i} : \A r \in db.fts : r.id # k.id})
AddItem ==
    \E i \in DOMAIN json.items :
        Store({r \in db.rows : r.id # i.id} \cup {i}, db.fts \cup {i})
DeleteItem ==
    \E id \in {r.id : r \in db.rows} :
        Store({r \in db.rows : r.id # id}, {r \in db.fts : r.id # id})
PruneRows ==
    \E ch \in Chapters :
        /\ \E r \in db.rows : r.ref > ch    \* else the index is not pruned either
        /\ Store({r \in db.rows : r.ref <= ch}, {r \in db.fts : r.ref <= ch})
ClearRows == Store({}, {})
RebuildRows == Store(db.rows, db.rows)

Engine == Open \/ Add \/ Insert \/ Prune \/ Clear \/ Rebuild \/ RebuildIndex
          \/ Commit \/ Undo \/ Rollback
Death == CommitDies \/ RollbackDies \/ Close \/ RebuildDies
Sqlite == Migrate \/ AddItem \/ DeleteItem \/ PruneRows \/ ClearRows \/ RebuildRows
Next == Engine \/ Death \/ Sqlite

Spec == Init /\ [][Next]_vars

-----------------------------------------------------------------------------
\* As long as the SQLite store is left alone, an engine that is at work holds
\* exactly what the next one will load: no operation, and no commit that was
\* undone, leaves the two apart.
StoredIsHeld == engine # "closed" /\ uses = 0 => items = Loaded(json, db)

\* A rolled back chapter is forgotten: no memory speaks of a chapter after the
\* head, in the engine or in the file, through restarts and undone commits,
\* unless a rollback died half-way.
Forgotten ==
    ~cut /\ uses = 0 => \A i \in DOMAIN items \cup DOMAIN json.items : i.ref <= head

\* What search answers is about the word asked for, also when the index has
\* rows of rolled back items whose ids have been given out again.
HitsAreRight == \A word \in Words : \A i \in Search(word) : word \in i.content

\* Whatever the SQLite store holds can be found by its index, although rows
\* replaced in the table stay in the index and are pruned by their own chapter.
SqliteFindsAll == \A i \in db.rows : \E r \in db.fts : r.id = i.id
=============================================================================
