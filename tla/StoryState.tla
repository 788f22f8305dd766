----------------------------- MODULE StoryState -----------------------------
(***************************************************************************)
(* The story state of core/story_state.py: who owns what, who is hurt, how *)
(* strong and how rich everyone is.  A chapter's text is a set of passages,*)
(* each the smallest piece of text one extraction rule or one checker      *)
(* recognises; extract_state_delta turns it into a delta, TransitionValid- *)
(* ator accepts or refuses the delta and apply_delta makes the next state. *)
(***************************************************************************)
EXTENDS Integers, Sequences, FiniteSets, FiniteSetsExt, Functions

CONSTANTS
    Chars,         \* the characters the extraction knows by name
    Items,         \* known items
    Wounds,        \* known injuries
    Within,        \* <<i, j>>: the name of i is a proper part of the name of j
    Currency,      \* items whose use is not checked against the inventory
    Realms,        \* the realm names a text may use
    Rank,          \* _realm_rank: a realm's place in REALM_ORDER, -1 if unknown
    LowestRealm,   \* the realm of a character of whom none is recorded
    InitialMerit,  \* team_thien_cong: 0 for the active characters, else 100
    Passages,      \* the passages a text may be made of
    Drafts         \* the texts considered

ASSUME StateAssumption ==
    /\ Within \subseteq (Items \X Items) \cup (Wounds \X Wounds)
    /\ \A i \in Items \cup Wounds : <<i, i>> \notin Within
    /\ Currency \subseteq Items
    /\ LowestRealm \in Realms
    /\ Rank \in [Realms -> Int]
    /\ InitialMerit \in [Chars -> Nat]
    /\ Drafts \subseteq SUBSET Passages
    /\ \A d \in Drafts : IsFiniteSet(d)
    /\ \A p \in Passages : /\ p.kind = "takes" => p.what \in Items
                           /\ p.kind = "advances" => p.what \in Realms
                           /\ p.kind = "hurts" => p.what \in Wounds
                           /\ p.kind = "merit" => p.amount \in Int

State == [merit  : [Chars -> Int],
          bag    : [Chars -> SUBSET Items],
          wounds : [Chars -> SUBSET Wounds],
          realm  : UNION {[S -> Realms] : S \in SUBSET Chars},
          dead   : SUBSET Chars]

InitialState == [merit  |-> InitialMerit,
                 bag    |-> [c \in Chars |-> {}],
                 wounds |-> [c \in Chars |-> {}],
                 realm  |-> [c \in {} |-> LowestRealm],
                 dead   |-> {}]

RealmOf(s, c) == IF c \in DOMAIN s.realm THEN s.realm[c] ELSE LowestRealm

-----------------------------------------------------------------------------
Of(d, kind) == {p \in d : p.kind = kind}
By(d, kind, c) == {p \in Of(d, kind) : p.who = c}
Named(d, kind, c) == {p.what : p \in By(d, kind, c)}
Part(i, j) == i = j \/ <<i, j>> \in Within

\* Of several items a text lets someone take, only those count whose name is
\* not part of a longer one taken in the same text.
Taken(d, c) ==
    {i \in Named(d, "takes", c) :
        \A x \in Chars : \A j \in Named(d, "takes", x) : <<i, j>> \notin Within}

\* Every known item whose name the text of the use contains.
Spent(d, c) == {i \in Items : \E j \in Named(d, "uses", c) : Part(i, j)}

\* The rules of extraction go through the triggers one after the other, each
\* overwriting the advancement the one before it found.
Advanced(d, c) ==
    {p.what : p \in {q \in By(d, "advances", c) :
                        \A r \in By(d, "advances", c) : r.trigger <= q.trigger}}

\* Nothing in a text fills alive_changes: a death is not extracted.
Extract(d) ==
    [merit  |-> [c \in {x \in Chars : By(d, "merit", x) # {}} |->
                    SumFunction([p \in By(d, "merit", c) |-> p.amount])],
     got    |-> [c \in Chars |-> Taken(d, c)],
     used   |-> [c \in Chars |-> Spent(d, c)],
     hurt   |-> [c \in Chars |-> Named(d, "hurts", c)],
     healed |-> [c \in Chars |-> Named(d, "heals", c)],
     realm  |-> [c \in {x \in Chars : Advanced(d, x) # {}} |->
                    CHOOSE r \in Realms : r \in Advanced(d, c)],
     alive  |-> [c \in {} |-> TRUE]]

-----------------------------------------------------------------------------
\* Mutants: the balance everyone starts with; the realm everyone starts with.
ValidResourceAtStart(x, s) == \A c \in DOMAIN x.merit : 100 + x.merit[c] >= 0
ValidRealmAtStart(x, s) ==
    \A c \in DOMAIN x.realm : Rank[x.realm[c]] >= Rank[LowestRealm]

\* TransitionValidator.
ValidResource(x, s) == \A c \in DOMAIN x.merit : s.merit[c] + x.merit[c] >= 0

\* Against the inventory before the chapter: what it takes it cannot use.
ValidInventory(x, s) ==
    \A c \in Chars : \A i \in x.used[c] \ Currency : \E j \in s.bag[c] : Part(i, j)

ValidInjury(x, s) ==
    \A c \in Chars : \A w \in x.healed[c] : \E v \in s.wounds[c] : Part(w, v)

ValidAliveStatus(x, s) ==
    /\ \A c \in s.dead : /\ c \notin DOMAIN x.merit \cup DOMAIN x.realm
                         /\ x.got[c] = {}
    /\ \A c \in s.dead \cap DOMAIN x.alive : x.alive[c]

ValidRealm(x, s) == \A c \in DOMAIN x.realm : Rank[x.realm[c]] >= Rank[RealmOf(s, c)]

ValidAll(x, s) ==
    /\ ValidResource(x, s)
    /\ ValidInventory(x, s)
    /\ ValidInjury(x, s)
    /\ ValidAliveStatus(x, s)
    /\ ValidRealm(x, s)

-----------------------------------------------------------------------------
\* The parts of apply_delta.
Balance(x, s) ==
    [c \in Chars |-> IF c \in DOMAIN x.merit THEN s.merit[c] + x.merit[c] ELSE s.merit[c]]

\* Mutants: what is used leaves before what is taken arrives; or not at all.
UseFirst(x, s) == [c \in Chars |-> (s.bag[c] \ x.used[c]) \cup x.got[c]]
UseKeeps(x, s) == [c \in Chars |-> s.bag[c] \cup x.got[c]]

Inventory(x, s) == [c \in Chars |-> (s.bag[c] \cup x.got[c]) \ x.used[c]]

Hurt(x, s) == [c \in Chars |-> (s.wounds[c] \cup x.hurt[c]) \ x.healed[c]]
Standing(x, s) ==
    [c \in DOMAIN x.realm \cup DOMAIN s.realm |->
        IF c \in DOMAIN x.realm THEN x.realm[c] ELSE s.realm[c]]
Dead(x, s) == {c \in Chars : IF c \in DOMAIN x.alive THEN ~x.alive[c] ELSE c \in s.dead}

Apply(x, s) == [merit |-> Balance(x, s), bag |-> Inventory(x, s), wounds |-> Hurt(x, s),
                realm |-> Standing(x, s), dead |-> Dead(x, s)]
=============================================================================
