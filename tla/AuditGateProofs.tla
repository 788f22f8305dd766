--------------------------- MODULE AuditGateProofs ---------------------------
(***************************************************************************)
(* What the transition rules make of a whole story, for any characters,    *)
(* items, names of items, realms and texts: an inventory is decided by the *)
(* last chapter that speaks of an item, what is used up is not used again, *)
(* no one's realm falls and no balance is ever overdrawn.  And what the    *)
(* gate makes of the checkers' results: the score never turns a verdict.   *)
(***************************************************************************)
EXTENDS AuditGate, FiniteSetTheorems, WellFoundedInduction, TLAPS

\* The committed chapters and the text in work are texts.
Texts == told \in Seq(Drafts) /\ text \in Drafts \cup {NoText}

\* Inventories hold items.
Inventories == \A c \in Chars : state.bag[c] \subseteq Items

\* The initial state tells of no chapter.
LEMMA InitTexts == Init => Texts /\ Inventories
BY DEF Init, Texts, InitialState, Inventories

\* Only texts are written, and only the text in work is committed.
LEMMA NextTexts == Texts /\ [Next]_vars => Texts'
<1> SUFFICES ASSUME Texts, [Next]_vars PROVE Texts'
  OBVIOUS
<1> USE DEF Texts
<1>1. ASSUME NEW d \in Drafts, Write(d) \/ Revise(d) PROVE Texts'
  BY <1>1 DEF Write, Revise, Audited
<1>2. CASE GiveUp
  BY <1>2 DEF GiveUp, Idle
<1>3. CASE Commit
  BY <1>3 DEF Commit, Admitted, Idle
<1>4. CASE Refuse
  BY <1>4 DEF Refuse, Idle
<1>5. CASE UNCHANGED vars
  BY <1>5 DEF vars
<1> QED
  BY <1>1, <1>2, <1>3, <1>4, <1>5 DEF Next

\* A step that is no commit leaves the story as it is.
LEMMA OnlyCommitTells == [Next]_vars => Commit \/ UNCHANGED <<state, told>>
BY DEF Next, Write, Revise, GiveUp, Refuse, vars

\* What a text lets someone take is an item.
LEMMA NextInventories == Texts /\ Inventories /\ [Next]_vars => Inventories'
<1> SUFFICES ASSUME Texts, Inventories, [Next]_vars PROVE Inventories'
  OBVIOUS
<1>1. CASE Commit
  <2>1. text \in SUBSET Passages
    BY <1>1, StateAssumption DEF Texts, Commit, Admitted
  <2>2. \A c \in Chars : Extract(text).got[c] \subseteq Items
    BY <2>1, StateAssumption DEF Extract, Taken, Named, By, Of
  <2>3. \A c \in Chars :
          state'.bag[c] = (state.bag[c] \cup Extract(text).got[c]) \ Extract(text).used[c]
    BY <1>1 DEF Commit, Apply, Inventory
  <2> QED
    BY <2>2, <2>3 DEF Inventories
<1>2. CASE UNCHANGED <<state, told>>
  BY <1>2 DEF Inventories
<1> QED
  BY <1>1, <1>2, OnlyCommitTells

-----------------------------------------------------------------------------
\* The inventory of an empty story is empty.
LEMMA InitBag == Init => BagIsLastWord
BY DEF Init, InitialState, BagIsLastWord

\* A commit appends one text; what the earlier chapters gave and used stays.
LEMMA CommitAppends ==
    ASSUME Texts, Commit
    PROVE  /\ Len(told') = Len(told) + 1
           /\ DOMAIN told' = 1..(Len(told) + 1)
           /\ DOMAIN told = 1..Len(told)
           /\ Len(told) \in Nat
           /\ told'[Len(told) + 1] = text
           /\ \A k \in 1..Len(told) : told'[k] = told[k]
BY DEF Texts, Commit, Admitted

\* A commit keeps the correspondence between the inventory and the chapters.
LEMMA CommitBag ==
    ASSUME Texts, BagIsLastWord, Commit
    PROVE  BagIsLastWord'
<1> DEFINE n == Len(told)
           Got(k, c) == Extract(told[k]).got[c]
           Used(k, c) == Extract(told[k]).used[c]
           GotN(k, c) == Extract(told'[k]).got[c]
           UsedN(k, c) == Extract(told'[k]).used[c]
           x == Extract(text)
<1>1. /\ Len(told') = n + 1
      /\ DOMAIN told' = 1..(n + 1)
      /\ DOMAIN told = 1..n
      /\ n \in Nat
      /\ told'[n + 1] = text
      /\ \A k \in 1..n : told'[k] = told[k]
  BY CommitAppends
<1>2. SUFFICES ASSUME NEW c \in Chars, NEW i \in Items
               PROVE i \in state'.bag[c] <=>
                        \E k \in 1..(n + 1) : /\ i \in GotN(k, c)
                                              /\ \A l \in k..(n + 1) : i \notin UsedN(l, c)
  BY <1>1 DEF BagIsLastWord, Delta
<1>3. i \in state'.bag[c] <=> (i \in state.bag[c] \/ i \in x.got[c]) /\ i \notin x.used[c]
  BY DEF Commit, Apply, Inventory
<1>4. i \in state.bag[c] <=>
         \E k \in 1..n : i \in Got(k, c) /\ \A l \in k..n : i \notin Used(l, c)
  BY <1>1 DEF BagIsLastWord, Delta
<1>5. /\ GotN(n + 1, c) = x.got[c]
      /\ UsedN(n + 1, c) = x.used[c]
      /\ \A k \in 1..n : GotN(k, c) = Got(k, c) /\ UsedN(k, c) = Used(k, c)
  BY <1>1
<1> HIDE DEF n, Got, Used, GotN, UsedN, x
<1>6. ASSUME i \in state'.bag[c]
      PROVE \E k \in 1..(n + 1) : /\ i \in GotN(k, c)
                                  /\ \A l \in k..(n + 1) : i \notin UsedN(l, c)
  <2>1. CASE i \in x.got[c]
    BY <2>1, <1>1, <1>3, <1>5, <1>6
  <2>2. CASE i \notin x.got[c]
    <3>1. PICK k \in 1..n : i \in Got(k, c) /\ \A l \in k..n : i \notin Used(l, c)
      BY <2>2, <1>3, <1>4, <1>6
    <3>2. \A l \in k..(n + 1) : l \in k..n \/ l = n + 1
      BY <1>1
    <3>3. \A l \in k..n : l \in 1..n
      BY <1>1
    <3>4. k \in 1..(n + 1)
      BY <1>1
    <3> QED
      BY <3>1, <3>2, <3>3, <3>4, <1>3, <1>5, <1>6
  <2> QED
    BY <2>1, <2>2
<1>7. ASSUME NEW k \in 1..(n + 1), i \in GotN(k, c),
             \A l \in k..(n + 1) : i \notin UsedN(l, c)
      PROVE i \in state'.bag[c]
  <2>1. i \notin x.used[c]
    BY <1>1, <1>5, <1>7
  <2>2. CASE k = n + 1
    BY <2>1, <2>2, <1>3, <1>5, <1>7
  <2>3. CASE k \in 1..n
    <3>1. \A l \in k..n : l \in k..(n + 1) /\ l \in 1..n
      BY <1>1, <2>3
    <3> QED
      BY <2>1, <2>3, <3>1, <1>3, <1>4, <1>5, <1>7
  <2> QED
    BY <2>2, <2>3, <1>1
<1> QED
  BY <1>6, <1>7

\* Every other step changes neither the inventory nor the chapters.
LEMMA NextBag == Texts /\ BagIsLastWord /\ [Next]_vars => BagIsLastWord'
<1> SUFFICES ASSUME Texts, BagIsLastWord, [Next]_vars PROVE BagIsLastWord'
  OBVIOUS
<1>1. CASE Commit
  BY <1>1, CommitBag
<1>2. CASE UNCHANGED <<state, told>>
  BY <1>2 DEF BagIsLastWord, Delta
<1> QED
  BY <1>1, <1>2, OnlyCommitTells

\* Whatever is committed, an item is in a character's inventory iff the last
\* chapter that speaks of it gave it to them (apply_delta, TransitionValidator).
THEOREM InventoryCorrect == Spec => []BagIsLastWord
<1>1. Init => Texts /\ BagIsLastWord
  BY InitTexts, InitBag
<1>2. Texts /\ BagIsLastWord /\ [Next]_vars => (Texts /\ BagIsLastWord)'
  BY NextTexts, NextBag
<1> QED
  BY <1>1, <1>2, PTL DEF Spec

-----------------------------------------------------------------------------
\* The validator asks for the item in the inventory before the chapter, so the
\* chapter that gave it last lies after the chapter that used it last.
LEMMA CommitUsedOnce ==
    ASSUME Texts, Inventories, BagIsLastWord, UsedOnce, Commit
    PROVE  UsedOnce'
<1> DEFINE n == Len(told)
           Got(k, c) == Extract(told[k]).got[c]
           Used(k, c) == Extract(told[k]).used[c]
           GotN(k, c) == Extract(told'[k]).got[c]
           UsedN(k, c) == Extract(told'[k]).used[c]
           x == Extract(text)
           Whole == {j \in Items \ Currency : \A y \in Items : <<j, y>> \notin Within}
<1>1. /\ Len(told') = n + 1
      /\ DOMAIN told' = 1..(n + 1)
      /\ DOMAIN told = 1..n
      /\ n \in Nat
      /\ told'[n + 1] = text
      /\ \A k \in 1..n : told'[k] = told[k]
  BY CommitAppends
<1>2. SUFFICES ASSUME NEW c \in Chars, NEW i \in Whole, NEW l \in 1..(n + 1),
                      NEW k \in 1..(l - 1), i \in UsedN(k, c), i \in UsedN(l, c)
               PROVE \E m \in (k + 1)..(l - 1) : i \in GotN(m, c)
  BY <1>1 DEF UsedOnce, Delta
<1>3. /\ UsedN(n + 1, c) = x.used[c]
      /\ \A j \in 1..n : GotN(j, c) = Got(j, c) /\ UsedN(j, c) = Used(j, c)
  BY <1>1
<1>4. k \in 1..n
  BY <1>1, <1>2
<1>5. CASE l \in 1..n
  <2>1. \E m \in (k + 1)..(l - 1) : i \in Got(m, c)
    BY <1>1, <1>2, <1>3, <1>4, <1>5 DEF UsedOnce, Delta
  <2>2. \A m \in (k + 1)..(l - 1) : m \in 1..n
    BY <1>1, <1>4, <1>5
  <2> QED
    BY <2>1, <2>2, <1>3
<1>6. CASE l = n + 1
  <2>1. i \in state.bag[c]
    <3>1. i \in x.used[c]
      BY <1>2, <1>3, <1>6
    <3>2. ValidInventory(x, state)
      BY DEF Commit, ValidAll
    <3>3. i \in Items /\ i \notin Currency /\ \A y \in Items : <<i, y>> \notin Within
      OBVIOUS
    <3>4. PICK j \in state.bag[c] : Part(i, j)
      BY <3>1, <3>2, <3>3 DEF ValidInventory
    <3>5. i = j \/ <<i, j>> \in Within
      BY <3>4 DEF Part
    <3>6. j \in Items
      BY <3>4 DEF Inventories
    <3> QED
      BY <3>3, <3>4, <3>5, <3>6
  <2>2. PICK m \in 1..n : i \in Got(m, c) /\ \A h \in m..n : i \notin Used(h, c)
    BY <2>1, <1>1 DEF BagIsLastWord, Delta
  <2>3. i \in Used(k, c)
    BY <1>2, <1>3, <1>4
  <2>4. m \in (k + 1)..(l - 1)
    <3>1. k \notin m..n
      BY <2>2, <2>3
    <3> QED
      BY <3>1, <1>1, <1>4, <1>6
  <2> QED
    BY <2>2, <2>4, <1>3
<1> QED
  BY <1>1, <1>5, <1>6

\* What was used up is not used again before a chapter gives it anew, for items
\* whose use is checked and whose name is no part of another's.
THEOREM UseCorrect == Spec => []UsedOnce
<1> DEFINE I == Texts /\ Inventories /\ BagIsLastWord /\ UsedOnce
<1>1. Init => I
  <2>1. Init => UsedOnce
    BY DEF Init, UsedOnce
  <2> QED
    BY <2>1, InitTexts, InitBag
<1>2. I /\ [Next]_vars => I'
  <2> SUFFICES ASSUME I, [Next]_vars PROVE I'
    OBVIOUS
  <2>1. Texts' /\ Inventories' /\ BagIsLastWord'
    BY NextTexts, NextInventories, NextBag
  <2>2. UsedOnce'
    <3>1. CASE Commit
      BY <3>1, CommitUsedOnce
    <3>2. CASE UNCHANGED <<state, told>>
      BY <3>2 DEF UsedOnce, Delta
    <3> QED
      BY <3>1, <3>2, OnlyCommitTells
  <2> QED
    BY <2>1, <2>2
<1> QED
  BY <1>1, <1>2, PTL DEF Spec

-----------------------------------------------------------------------------
\* The realms recorded in the state are realms.
Recorded == \A c \in DOMAIN state.realm : state.realm[c] \in Realms

\* What a text tells of someone's advancement is a realm.
LEMMA AdvancedRealm ==
    ASSUME NEW d \in SUBSET Passages, NEW c \in DOMAIN Extract(d).realm
    PROVE  Extract(d).realm[c] \in Realms
<1>1. c \in Chars /\ Advanced(d, c) # {}
  BY DEF Extract
<1>2. Advanced(d, c) \subseteq Realms
  BY StateAssumption DEF Advanced, By, Of
<1>3. Extract(d).realm[c] = CHOOSE r \in Realms : r \in Advanced(d, c)
  BY <1>1 DEF Extract
<1> QED
  BY <1>1, <1>2, <1>3

\* A commit records realms, and none below the one recorded before.
LEMMA CommitRealm ==
    ASSUME Texts, Recorded, Commit
    PROVE  /\ Recorded'
           /\ \A c \in Chars : Rank[RealmOf(state', c)] >= Rank[RealmOf(state, c)]
<1> DEFINE x == Extract(text)
<1>1. text \in SUBSET Passages
  BY StateAssumption DEF Texts, Commit, Admitted
<1>2. \A c \in DOMAIN x.realm : x.realm[c] \in Realms
  BY <1>1, AdvancedRealm
<1>3. ValidRealm(x, state)
  BY DEF Commit, ValidAll
<1>4. /\ DOMAIN state'.realm = DOMAIN x.realm \cup DOMAIN state.realm
      /\ \A c \in DOMAIN state'.realm :
            state'.realm[c] = IF c \in DOMAIN x.realm THEN x.realm[c] ELSE state.realm[c]
  BY DEF Commit, Apply, Standing
<1> HIDE DEF x
<1>5. Recorded'
  BY <1>2, <1>4 DEF Recorded
<1>6. ASSUME NEW c \in Chars
      PROVE Rank[RealmOf(state', c)] >= Rank[RealmOf(state, c)]
  <2>1. CASE c \in DOMAIN x.realm
    BY <2>1, <1>3, <1>4 DEF ValidRealm, RealmOf
  <2>2. CASE c \notin DOMAIN x.realm
    <3>1. RealmOf(state', c) = RealmOf(state, c)
      BY <2>2, <1>4 DEF RealmOf
    <3>2. Rank[RealmOf(state, c)] \in Int
      BY StateAssumption DEF RealmOf, Recorded
    <3> QED
      BY <3>1, <3>2
  <2> QED
    BY <2>1, <2>2
<1> QED
  BY <1>5, <1>6

\* No chapter, committed or forced, lowers the rank of anyone's realm.
THEOREM RealmCorrect == Spec => RealmNeverFalls
<1> DEFINE Kept == \A c \in Chars : Rank[RealmOf(state', c)] >= Rank[RealmOf(state, c)]
           I == Texts /\ Recorded
<1>1. Init => I
  BY InitTexts DEF Init, InitialState, Recorded
<1>2. I /\ [Next]_vars => I' /\ [Kept]_state
  <2> SUFFICES ASSUME I, [Next]_vars PROVE I' /\ [Kept]_state
    OBVIOUS
  <2>1. CASE Commit
    BY <2>1, CommitRealm, NextTexts
  <2>2. CASE UNCHANGED <<state, told>>
    BY <2>2, NextTexts DEF Recorded
  <2> QED
    BY <2>1, <2>2, OnlyCommitTells
<1> QED
  BY <1>1, <1>2, PTL DEF Spec, RealmNeverFalls

-----------------------------------------------------------------------------
\* The text in work has been checked as it is, against the state as it is.
Fresh == text # NoText => checked = Check(text, state, Len(told) + 1)

LEMMA InitFresh == Init => Fresh
BY DEF Init, Fresh

LEMMA NextFresh == Fresh /\ [Next]_vars => Fresh'
<1> SUFFICES ASSUME Fresh, [Next]_vars PROVE Fresh'
  OBVIOUS
<1>1. ASSUME NEW d \in Drafts, Write(d) \/ Revise(d) PROVE Fresh'
  <2>1. /\ text' = d /\ checked' = Check(d, state, Len(told) + 1)
        /\ state' = state /\ told' = told
    BY <1>1 DEF Write, Revise, Audited
  <2> QED
    BY <2>1 DEF Fresh
<1>2. CASE GiveUp \/ Commit \/ Refuse
  BY <1>2 DEF GiveUp, Commit, Refuse, Idle, Fresh
<1>3. CASE UNCHANGED vars
  BY <1>3 DEF vars, Fresh
<1> QED
  BY <1>1, <1>2, <1>3 DEF Next

\* The realm the state has of someone is the last a chapter told of.
RealmIsLast ==
    \A k \in DOMAIN told : \A c \in Chars :
        Advances(k, c) /\ (\A m \in (k + 1)..Len(told) : ~Advances(m, c))
        => c \in DOMAIN state.realm /\ state.realm[c] = Delta(k).realm[c]

LEMMA CommitRealmIsLast ==
    ASSUME Texts, RealmIsLast, Commit
    PROVE  RealmIsLast'
<1> DEFINE n == Len(told)
           x == Extract(text)
<1>1. /\ DOMAIN told = 1..n /\ DOMAIN told' = 1..(n + 1) /\ n \in Nat /\ Len(told') = n + 1
      /\ told'[n + 1] = text /\ \A k \in 1..n : told'[k] = told[k]
  BY CommitAppends
<1>2. /\ DOMAIN state'.realm = DOMAIN x.realm \cup DOMAIN state.realm
      /\ \A c \in DOMAIN state'.realm :
            state'.realm[c] = IF c \in DOMAIN x.realm THEN x.realm[c] ELSE state.realm[c]
  BY DEF Commit, Apply, Standing
<1>3. \A k \in 1..(n + 1) : Delta(k)' = IF k = n + 1 THEN x ELSE Delta(k)
  <2>1. \A k \in 1..(n + 1) : told'[k] = IF k = n + 1 THEN text ELSE told[k]
    BY <1>1
  <2> QED
    BY <2>1 DEF Delta
<1> HIDE DEF x, n
<1> SUFFICES ASSUME NEW k \in 1..(n + 1), NEW c \in Chars, Advances(k, c)',
                    \A m \in (k + 1)..(n + 1) : ~Advances(m, c)'
             PROVE  c \in DOMAIN state'.realm /\ state'.realm[c] = Delta(k)'.realm[c]
  BY <1>1 DEF RealmIsLast
<1>4. CASE k = n + 1
  BY <1>2, <1>3, <1>4 DEF Advances
<1>5. CASE k # n + 1
  <2>1. k \in 1..n /\ n + 1 \in (k + 1)..(n + 1)
    BY <1>1, <1>5
  <2>2. c \notin DOMAIN x.realm
    BY <1>3, <2>1 DEF Advances
  <2>3. Advances(k, c) /\ \A m \in (k + 1)..n : ~Advances(m, c)
    <3>1. \A m \in (k + 1)..n : m \in 1..n /\ m \in (k + 1)..(n + 1)
      BY <1>1, <2>1
    <3>2. \A m \in 1..n : Delta(m)' = Delta(m)
      BY <1>1, <1>3
    <3>3. \A m \in 1..n : Advances(m, c)' <=> Advances(m, c)
      BY <3>2 DEF Advances
    <3> QED
      BY <2>1, <3>1, <3>3
  <2>4. c \in DOMAIN state.realm /\ state.realm[c] = Delta(k).realm[c]
    BY <1>1, <2>1, <2>3 DEF RealmIsLast, n
  <2> QED
    BY <1>2, <1>3, <2>1, <2>2, <2>4
<1> QED
  BY <1>4, <1>5

\* What the verdict lets pass has been found to be in order by the realm checker.
LEMMA PassedRealms ==
    ASSUME NEW d, NEW s, NEW n, Verdict(Check(d, s, n)) = "PASS"
    PROVE  \A c \in DOMAIN s.realm : By(d, "flies", c) # {} => s.realm[c] \in Flying
<1> DEFINE r == Check(d, s, n)
<1>1. r.realm_strictness = RealmStrictness(d, s) /\ "realm_strictness" \in DOMAIN r
  BY DEF Check
<1> HIDE DEF r
<1>2. ~Blocked(r)
  BY DEF Verdict, r
<1>3. ~(RealmStrictness(d, s).status = "FAIL" /\ RealmStrictness(d, s).severity = "P0")
  BY <1>1, <1>2 DEF Blocked
<1> QED
  BY <1>3 DEF RealmStrictness, JudgeAny, Result, Passed

\* In a chapter the gate let pass nobody flies but those the story itself has last
\* advanced to a realm that flies, and those it has never advanced.
THEOREM FlightCorrect == Spec => []FlightsAreEarned
<1> DEFINE I == Texts /\ Fresh /\ RealmIsLast /\ FlightsAreEarned
                /\ forced \subseteq DOMAIN told
<1>1. Init => I
  BY InitTexts, InitFresh DEF Init, RealmIsLast, FlightsAreEarned
<1>2. I /\ [Next]_vars => I'
  <2> SUFFICES ASSUME I, [Next]_vars PROVE I'
    OBVIOUS
  <2>1. Texts' /\ Fresh'
    BY NextTexts, NextFresh
  <2>2. CASE Commit
    <3> DEFINE n == Len(told)
    <3>1. /\ DOMAIN told = 1..n /\ DOMAIN told' = 1..(n + 1) /\ n \in Nat /\ Len(told') = n + 1
          /\ told'[n + 1] = text /\ \A k \in 1..n : told'[k] = told[k]
      BY <2>2, CommitAppends
    <3>2. \A k \in 1..n : Delta(k)' = Delta(k) /\ \A c : Advances(k, c)' <=> Advances(k, c)
      BY <3>1 DEF Delta, Advances
    <3>3. RealmIsLast'
      BY <2>2, CommitRealmIsLast
    <3>4. forced' = (IF Verdict(checked) = "PASS" THEN forced ELSE forced \cup {n + 1})
      BY <2>2 DEF Commit
    <3> HIDE DEF n
    <3>5. forced' \subseteq DOMAIN told'
      BY <3>1, <3>4
    <3>6. FlightsAreEarned'
      <4> SUFFICES ASSUME NEW l \in (1..(n + 1)) \ forced', NEW c \in Chars,
                          NEW k \in 1..(l - 1), By(told'[l], "flies", c) # {}, Advances(k, c)',
                          \A m \in (k + 1)..(l - 1) : ~Advances(m, c)'
                   PROVE  Delta(k)'.realm[c] \in Flying
        BY <3>1 DEF FlightsAreEarned
      <4>1. k \in 1..n /\ Delta(k)' = Delta(k) /\ Advances(k, c)
        BY <3>1, <3>2
      <4>2. \A m \in (k + 1)..(l - 1) : m \in 1..n /\ ~Advances(m, c)
        <5>1. \A m \in (k + 1)..(l - 1) : m \in 1..n
          BY <3>1
        <5> QED
          BY <3>2, <5>1
      <4>3. CASE l # n + 1
        <5>1. l \in 1..n /\ l \notin forced
          BY <3>1, <3>4, <4>3
        <5>2. By(told[l], "flies", c) # {}
          BY <3>1, <5>1
        <5> QED
          BY <3>1, <4>1, <4>2, <5>1, <5>2 DEF FlightsAreEarned
      <4>4. CASE l = n + 1
        <5>1. Verdict(checked) = "PASS"
          BY <3>4, <4>4
        <5>2. checked = Check(text, state, n + 1)
          BY <2>2 DEF Fresh, Commit, Admitted, n
        <5>3. c \in DOMAIN state.realm /\ state.realm[c] = Delta(k).realm[c]
          <6>1. l - 1 = n
            BY <3>1, <4>4
          <6> QED
            BY <3>1, <4>1, <4>2, <6>1 DEF RealmIsLast, n
        <5>4. By(text, "flies", c) # {}
          BY <3>1, <4>4
        <5> QED
          BY <4>1, <5>1, <5>2, <5>3, <5>4, PassedRealms
      <4> QED
        BY <4>3, <4>4
    <3> QED
      BY <2>1, <3>3, <3>5, <3>6
  <2>3. CASE UNCHANGED <<state, told, forced>>
    BY <2>1, <2>3 DEF RealmIsLast, FlightsAreEarned, Delta, Advances
  <2>4. Commit \/ UNCHANGED <<state, told, forced>>
    BY DEF Next, Write, Revise, GiveUp, Refuse, vars
  <2> QED
    BY <2>2, <2>3, <2>4
<1> QED
  BY <1>1, <1>2, PTL DEF Spec

-----------------------------------------------------------------------------
(* Sums.                                                                     *)

\* Induction over the natural numbers, for a set.
LEMMA Induction ==
    ASSUME NEW S, 0 \in S, \A n \in Nat : n \in S => n + 1 \in S
    PROVE  Nat \subseteq S
<1> SUFFICES ASSUME Nat \ S # {} PROVE FALSE
  OBVIOUS
<1> DEFINE Less == OpToRel(<, Nat)
<1>1. \A x, y : x \in Nat /\ y \in Nat /\ x < y => <<x, y>> \in Less
  BY DEF OpToRel
<1>2. IsWellFoundedOn(Less, Nat)
  BY NatLessThanWellFounded
<1>3. \E x \in Nat \ S : \A y \in Nat \ S : ~(<<y, x>> \in Less)
  <2> HIDE DEF Less
  <2> QED
    BY <1>2, WFMin
<1>4. PICK n \in Nat \ S : \A m \in Nat \ S : ~(m < n)
  BY <1>1, <1>3
<1>5. n # 0 /\ n - 1 \in Nat
  OBVIOUS
<1> QED
  BY <1>4, <1>5

\* The function SumFunction builds on the sets of D, each without the element
\* it chooses.
Pick(s) == CHOOSE x \in s : TRUE
Summed(D, f, g) ==
    g = [s \in D |-> IF s = {} THEN 0 ELSE f[Pick(s)] + g[s \ {Pick(s)}]]

LEMMA SummedExists ==
    ASSUME NEW S, IsFiniteSet(S), NEW f
    PROVE  \E g : Summed(SUBSET S, f, g)
<1> DEFINE Upto(n) == {s \in SUBSET S : Cardinality(s) <= n}
           Good == {n \in Nat : \E g : Summed(Upto(n), f, g)}
<1>1. \A s \in SUBSET S :
        /\ Cardinality(s) \in Nat
        /\ s # {} => /\ Pick(s) \in s
                     /\ s \ {Pick(s)} \in SUBSET S
                     /\ Cardinality(s \ {Pick(s)}) = Cardinality(s) - 1
  <2> SUFFICES ASSUME NEW s \in SUBSET S
      PROVE  /\ Cardinality(s) \in Nat
             /\ s # {} => /\ Pick(s) \in s
                          /\ s \ {Pick(s)} \in SUBSET S
                          /\ Cardinality(s \ {Pick(s)}) = Cardinality(s) - 1
    OBVIOUS
  <2>1. IsFiniteSet(s)
    BY FS_Subset
  <2>2. Cardinality(s) \in Nat
    BY <2>1, FS_CardinalityType
  <2>3. s # {} => Pick(s) \in s
    BY DEF Pick
  <2>4. s # {} => Cardinality(s \ {Pick(s)}) = Cardinality(s) - 1
    BY <2>1, <2>3, FS_RemoveElement
  <2> QED
    BY <2>2, <2>3, <2>4
<1>2. 0 \in Good
  <2> DEFINE g == [s \in Upto(0) |-> 0]
  <2>1. \A s \in Upto(0) : s = {}
    <3> SUFFICES ASSUME NEW s \in Upto(0) PROVE s = {}
      OBVIOUS
    <3>1. s \in SUBSET S /\ Cardinality(s) <= 0
      OBVIOUS
    <3>3. IsFiniteSet(s)
      BY <3>1, FS_Subset
    <3>4. Cardinality(s) \in Nat
      BY <1>1, <3>1
    <3> HIDE DEF Upto
    <3>2. Cardinality(s) = 0
      BY <3>1, <3>4
    <3> QED
      BY <3>2, <3>3, FS_EmptySet
  <2>2. Summed(Upto(0), f, g)
    <3> HIDE DEF Upto
    <3> QED
      BY <2>1 DEF Summed
  <2> QED
    BY <2>2
<1>3. ASSUME NEW n \in Nat, n \in Good PROVE n + 1 \in Good
  <2>1. PICK g : Summed(Upto(n), f, g)
    BY <1>3
  <2> DEFINE Value(s) == IF s = {} THEN 0 ELSE f[Pick(s)] + g[s \ {Pick(s)}]
             h == [s \in Upto(n + 1) |-> Value(s)]
  <2>2. \A s \in Upto(n) : g[s] = Value(s)
    <3> HIDE DEF Upto
    <3> QED
      BY <2>1 DEF Summed
  <2>3. \A s \in Upto(n + 1) : s # {} => s \ {Pick(s)} \in Upto(n)
    BY <1>1
  <2>4. \A s \in Upto(n) : s \in Upto(n + 1)
    <3> SUFFICES ASSUME NEW s \in SUBSET S, Cardinality(s) <= n
        PROVE  Cardinality(s) <= n + 1
      OBVIOUS
    <3>1. Cardinality(s) \in Nat
      BY <1>1
    <3> QED
      BY <3>1
  <2> HIDE DEF Upto
  <2>5. \A s \in Upto(n) : h[s] = g[s]
    BY <2>2, <2>4
  <2>6. \A s \in Upto(n + 1) :
          h[s] = IF s = {} THEN 0 ELSE f[Pick(s)] + h[s \ {Pick(s)}]
    BY <2>3, <2>5
  <2>7. Summed(Upto(n + 1), f, h)
    <3> DEFINE body == [s \in Upto(n + 1) |->
                          IF s = {} THEN 0 ELSE f[Pick(s)] + h[s \ {Pick(s)}]]
    <3>1. DOMAIN h = Upto(n + 1)
      OBVIOUS
    <3>2. h = body
      <4>1. \A s \in Upto(n + 1) : h[s] = body[s]
        BY <2>6
      <4>2. h = [s \in Upto(n + 1) |-> h[s]]
        OBVIOUS
      <4> HIDE DEF h
      <4> QED
        BY <4>1, <4>2
    <3> HIDE DEF h
    <3> QED
      BY <3>2 DEF Summed
  <2> QED
    BY <2>7
<1>4. Cardinality(S) \in Good
  <2> HIDE DEF Good
  <2> QED
    BY <1>2, <1>3, FS_CardinalityType, Induction
<1>5. Upto(Cardinality(S)) = SUBSET S
  BY FS_Subset
<1> QED
  BY <1>4, <1>5

\* A sum is built up from the empty set, one element at a time.
LEMMA SumUnrolled ==
    ASSUME NEW f, IsFiniteSet(DOMAIN f)
    PROVE  \E g : /\ SumFunction(f) = g[DOMAIN f]
                  /\ \A s \in SUBSET (DOMAIN f) :
                        g[s] = IF s = {} THEN 0 ELSE f[Pick(s)] + g[s \ {Pick(s)}]
<1> DEFINE h == CHOOSE g : Summed(SUBSET (DOMAIN f), f, g)
<1>1. Summed(SUBSET (DOMAIN f), f, h)
  <2>1. \E g : Summed(SUBSET (DOMAIN f), f, g)
    BY SummedExists
  <2> QED
    BY <2>1, Zenon
<1>2. SumFunction(f) = h[DOMAIN f]
  BY DEF SumFunction, SumFunctionOnSet, FoldFunctionOnSet, MapThenFoldSet, Summed, Pick
<1> HIDE DEF h
<1>3. \A s \in SUBSET (DOMAIN f) :
        h[s] = IF s = {} THEN 0 ELSE f[Pick(s)] + h[s \ {Pick(s)}]
  BY <1>1 DEF Summed
<1> QED
  BY <1>2, <1>3


\* A sum of integers is an integer.
LEMMA SumType ==
    ASSUME NEW f, IsFiniteSet(DOMAIN f), \A x \in DOMAIN f : f[x] \in Int
    PROVE  SumFunction(f) \in Int
<1>1. PICK g : /\ SumFunction(f) = g[DOMAIN f]
               /\ \A s \in SUBSET (DOMAIN f) :
                     g[s] = IF s = {} THEN 0 ELSE f[Pick(s)] + g[s \ {Pick(s)}]
  BY SumUnrolled, ZenonT(60)
<1> DEFINE Good == {n \in Nat : \A s \in SUBSET (DOMAIN f) :
                                   Cardinality(s) = n => g[s] \in Int}
<1>2. 0 \in Good
  <2> SUFFICES ASSUME NEW s \in SUBSET (DOMAIN f), Cardinality(s) = 0 PROVE g[s] \in Int
    OBVIOUS
  <2>1. s = {}
    BY FS_Subset, FS_EmptySet
  <2> QED
    BY <1>1, <2>1
<1>3. ASSUME NEW n \in Nat, n \in Good PROVE n + 1 \in Good
  <2> SUFFICES ASSUME NEW s \in SUBSET (DOMAIN f), Cardinality(s) = n + 1
      PROVE  g[s] \in Int
    OBVIOUS
  <2>1. IsFiniteSet(s)
    BY FS_Subset
  <2>2. s # {}
    <3>1. Cardinality({}) = 0
      BY FS_EmptySet
    <3> QED
      BY <3>1
  <2>3. Pick(s) \in s
    BY <2>2 DEF Pick
  <2>4. Cardinality(s \ {Pick(s)}) = n
    <3>1. Cardinality(s \ {Pick(s)}) = Cardinality(s) - 1
      BY <2>1, <2>3, FS_RemoveElement
    <3> QED
      BY <3>1
  <2>5. g[s \ {Pick(s)}] \in Int
    BY <1>3, <2>4
  <2> QED
    BY <1>1, <2>2, <2>3, <2>5
<1> HIDE DEF Good
<1>4. Cardinality(DOMAIN f) \in Good
  BY <1>2, <1>3, FS_CardinalityType, Induction
<1> QED
  BY <1>1, <1>4 DEF Good

-----------------------------------------------------------------------------
(* Types and balances.                                                       *)

\* What a text does to a balance is a number.
LEMMA MeritType ==
    ASSUME NEW d \in Drafts, NEW c \in DOMAIN Extract(d).merit
    PROVE  c \in Chars /\ Extract(d).merit[c] \in Int
<1> DEFINE f == [p \in By(d, "merit", c) |-> p.amount]
<1>1. By(d, "merit", c) \subseteq d /\ d \in SUBSET Passages
  BY StateAssumption DEF By, Of
<1>2. IsFiniteSet(DOMAIN f)
  <2>1. IsFiniteSet(d)
    BY StateAssumption
  <2> QED
    BY <1>1, <2>1, FS_Subset
<1>3. \A p \in DOMAIN f : f[p] \in Int
  BY <1>1, StateAssumption DEF By, Of
<1>4. c \in Chars /\ Extract(d).merit[c] = SumFunction(f)
  BY DEF Extract
<1> HIDE DEF f
<1> QED
  BY <1>2, <1>3, <1>4, SumType

\* What a valid delta makes of a story state is a story state.
LEMMA ApplyType ==
    ASSUME NEW d \in Drafts, NEW s \in State
    PROVE  Apply(Extract(d), s) \in State
<1> DEFINE x == Extract(d)
<1>1. d \in SUBSET Passages
  BY StateAssumption
<1>2. Balance(x, s) \in [Chars -> Int]
  BY MeritType DEF Balance, State
<1>3. Inventory(x, s) \in [Chars -> SUBSET Items]
  <2>1. \A c \in Chars : x.got[c] \subseteq Items
    BY <1>1, StateAssumption DEF Extract, Taken, Named, By, Of
  <2> QED
    BY <2>1 DEF Inventory, State
<1>4. Hurt(x, s) \in [Chars -> SUBSET Wounds]
  <2>1. \A c \in Chars : x.hurt[c] \subseteq Wounds
    BY <1>1, StateAssumption DEF Extract, Named, By, Of
  <2> QED
    BY <2>1 DEF Hurt, State
<1>5. Standing(x, s) \in UNION {[S -> Realms] : S \in SUBSET Chars}
  <2>1. PICK S \in SUBSET Chars : s.realm \in [S -> Realms]
    BY DEF State
  <2>2. DOMAIN x.realm \subseteq Chars
    BY DEF Extract
  <2>3. \A c \in DOMAIN x.realm : x.realm[c] \in Realms
    BY <1>1, AdvancedRealm
  <2> HIDE DEF x
  <2>4. DOMAIN x.realm \cup S \in SUBSET Chars
    BY <2>2
  <2>5. Standing(x, s) \in [DOMAIN x.realm \cup S -> Realms]
    BY <2>1, <2>3 DEF Standing
  <2> QED
    BY <2>4, <2>5
<1>6. Dead(x, s) \in SUBSET Chars
  BY DEF Dead
<1> HIDE DEF x
<1> QED
  BY <1>2, <1>3, <1>4, <1>5, <1>6 DEF Apply, State, x

\* A text is only worked on while there is room for it.
Room == TypeOK /\ (text # NoText => Len(told) < MaxChapters)

LEMMA InitRoom == Init => Room
<1>1. Init => state \in State
  <2>1. [c \in {} |-> LowestRealm] \in UNION {[S -> Realms] : S \in SUBSET Chars}
    <3>1. [c \in {} |-> LowestRealm] \in [{} -> Realms] /\ {} \in SUBSET Chars
      OBVIOUS
    <3> QED
      BY <3>1, Zenon
  <2>2. InitialMerit \in [Chars -> Int]
    BY StateAssumption
  <2>3. /\ [c \in Chars |-> {}] \in [Chars -> SUBSET Items]
        /\ [c \in Chars |-> {}] \in [Chars -> SUBSET Wounds]
    OBVIOUS
  <2> DEFINE R == UNION {[S -> Realms] : S \in SUBSET Chars}
  <2> HIDE DEF R
  <2>4. InitialState \in [merit : [Chars -> Int], bag : [Chars -> SUBSET Items],
                          wounds : [Chars -> SUBSET Wounds], realm : R,
                          dead : SUBSET Chars]
    BY <2>1, <2>2, <2>3 DEF InitialState, R
  <2> QED
    BY <2>4 DEF Init, State, R
<1> QED
  BY <1>1, GateAssumption DEF Init, TypeOK, Room

LEMMA NextRoom == Room /\ [Next]_vars => Room'
<1> SUFFICES ASSUME Room, [Next]_vars PROVE Room'
  OBVIOUS
<1> USE GateAssumption DEF TypeOK, Room
<1>1. ASSUME NEW d \in Drafts, Write(d) PROVE Room'
  BY <1>1 DEF Write, Audited
<1>2. ASSUME NEW d \in Drafts, Revise(d) PROVE Room'
  BY <1>2 DEF Revise, Audited
<1>3. CASE GiveUp
  BY <1>3 DEF GiveUp, Idle
<1>4. CASE Commit
  <2>1. text \in Drafts /\ Len(told) < MaxChapters
    BY <1>4 DEF Commit, Admitted
  <2>2. state' \in State
    BY <1>4, <2>1, ApplyType DEF Commit
  <2>3. told' \in Seq(Drafts) /\ Len(told') = Len(told) + 1
    BY <1>4, <2>1 DEF Commit
  <2>4. text' = NoText /\ cycles' = 0
    BY <1>4 DEF Commit, Idle
  <2>5. Len(told') <= MaxChapters
    BY <2>1, <2>3
  <2>6. forced' \subseteq DOMAIN told'
    <3>1. forced' \subseteq forced \cup {Len(told) + 1}
      BY <1>4 DEF Commit
    <3>2. DOMAIN told = 1..Len(told) /\ DOMAIN told' = 1..(Len(told) + 1)
      BY <2>3
    <3> QED
      BY <3>1, <3>2
  <2> QED
    BY <2>2, <2>3, <2>4, <2>5, <2>6
<1>5. CASE Refuse
  BY <1>5 DEF Refuse, Idle
<1>6. CASE UNCHANGED vars
  BY <1>6 DEF vars
<1> QED
  BY <1>1, <1>2, <1>3, <1>4, <1>5, <1>6 DEF Next

\* A committed chapter, forced or not, leaves a well formed project, and the
\* revision loop keeps to its bound.
THEOREM TypesCorrect == Spec => []TypeOK
<1>1. Room => TypeOK
  BY DEF Room
<1> QED
  BY <1>1, InitRoom, NextRoom, PTL DEF Spec

\* The loop of Booked, unrolled.
After(texts, c, g, k) ==
    g = [n \in 0..k |->
            IF n = 0 THEN InitialMerit[c] ELSE g[n - 1] + MeritIn(texts[n], c)]

LEMMA AfterExists ==
    ASSUME NEW texts, NEW c, NEW k \in Nat
    PROVE  \E g : After(texts, c, g, k)
<1> DEFINE Good == {n \in Nat : \E g : After(texts, c, g, n)}
<1>1. 0 \in Good
  <2>1. After(texts, c, [n \in 0..0 |-> InitialMerit[c]], 0)
    BY DEF After
  <2> QED
    BY <2>1
<1>2. ASSUME NEW n \in Nat, n \in Good PROVE n + 1 \in Good
  <2>1. PICK g : After(texts, c, g, n)
    BY <1>2
  <2> DEFINE h == [i \in 0..(n + 1) |->
                     IF i = n + 1 THEN g[n] + MeritIn(texts[n + 1], c) ELSE g[i]]
             body == [i \in 0..(n + 1) |->
                        IF i = 0 THEN InitialMerit[c]
                        ELSE h[i - 1] + MeritIn(texts[i], c)]
  <2>2. ASSUME NEW i \in 0..(n + 1) PROVE h[i] = body[i]
    <3>1. CASE i = 0
      BY <2>1, <3>1 DEF After
    <3>2. CASE i = n + 1
      <4>1. h[i - 1] = g[n]
        BY <3>2
      <4> QED
        BY <3>2, <4>1
    <3>3. CASE i # 0 /\ i # n + 1
      <4>1. i \in 0..n /\ i - 1 \in 0..n /\ h[i - 1] = g[i - 1] /\ h[i] = g[i]
        BY <3>3
      <4>2. g[i] = g[i - 1] + MeritIn(texts[i], c)
        BY <2>1, <3>3, <4>1 DEF After
      <4> QED
        BY <3>3, <4>1, <4>2
    <3> QED
      BY <3>1, <3>2, <3>3
  <2>3. h = body
    BY <2>2
  <2>4. After(texts, c, h, n + 1)
    BY <2>3 DEF After
  <2> QED
    BY <2>4
<1> HIDE DEF Good
<1>3. k \in Good
  BY <1>1, <1>2, Induction
<1> QED
  BY <1>3 DEF Good

LEMMA BookedUnrolled ==
    ASSUME NEW texts, Len(texts) \in Nat, NEW c
    PROVE  After(texts, c, Booked(texts, c), Len(texts))
<1>1. \E g : After(texts, c, g, Len(texts))
  BY AfterExists
<1>2. Booked(texts, c) = CHOOSE g : After(texts, c, g, Len(texts))
  BY DEF Booked, After
<1> QED
  BY <1>1, <1>2

\* A further text adds a balance and leaves the earlier ones.
LEMMA BookedAppend ==
    ASSUME NEW texts \in Seq(Drafts), NEW d \in Drafts, NEW c
    PROVE  /\ \A n \in 0..Len(texts) : Booked(Append(texts, d), c)[n] = Booked(texts, c)[n]
           /\ Booked(Append(texts, d), c)[Len(texts) + 1]
                 = Booked(texts, c)[Len(texts)] + MeritIn(d, c)
<1> DEFINE more == Append(texts, d)
           old == Booked(texts, c)
           new == Booked(more, c)
           Good == {n \in Nat : n <= Len(texts) => new[n] = old[n]}
<1>1. /\ Len(texts) \in Nat /\ Len(more) = Len(texts) + 1
      /\ more[Len(texts) + 1] = d
      /\ \A n \in 1..Len(texts) : more[n] = texts[n]
  OBVIOUS
<1> HIDE DEF more
<1>2. \A n \in 0..Len(texts) :
        old[n] = IF n = 0 THEN InitialMerit[c] ELSE old[n - 1] + MeritIn(texts[n], c)
  <2>1. After(texts, c, old, Len(texts))
    BY <1>1, BookedUnrolled
  <2> HIDE DEF old
  <2> QED
    BY <1>1, <2>1 DEF After
<1>3. \A n \in 0..(Len(texts) + 1) :
        new[n] = IF n = 0 THEN InitialMerit[c] ELSE new[n - 1] + MeritIn(more[n], c)
  <2>1. After(more, c, new, Len(texts) + 1)
    BY <1>1, BookedUnrolled
  <2> HIDE DEF new
  <2> QED
    BY <1>1, <2>1 DEF After
<1> HIDE DEF old, new
<1>4. 0 \in Good
  BY <1>1, <1>2, <1>3
<1>5. ASSUME NEW n \in Nat, n \in Good PROVE n + 1 \in Good
  <2> SUFFICES ASSUME n + 1 <= Len(texts) PROVE new[n + 1] = old[n + 1]
    OBVIOUS
  <2>1. /\ n + 1 \in 0..Len(texts) /\ n + 1 \in 0..(Len(texts) + 1)
        /\ n + 1 \in 1..Len(texts) /\ n + 1 # 0 /\ (n + 1) - 1 = n
    BY <1>1
  <2>2. new[n + 1] = new[n] + MeritIn(texts[n + 1], c)
    BY <1>1, <1>3, <2>1
  <2>3. old[n + 1] = old[n] + MeritIn(texts[n + 1], c)
    BY <1>2, <2>1
  <2>4. new[n] = old[n]
    BY <1>1, <1>5
  <2> QED
    BY <2>2, <2>3, <2>4
<1>6. \A n \in 0..Len(texts) : new[n] = old[n]
  <2> HIDE DEF Good
  <2>1. Nat \subseteq Good
    BY <1>4, <1>5, Induction
  <2> QED
    BY <1>1, <2>1 DEF Good
<1>7. new[Len(texts) + 1] = old[Len(texts)] + MeritIn(d, c)
  <2>1. /\ Len(texts) + 1 \in 0..(Len(texts) + 1) /\ Len(texts) \in 0..Len(texts)
        /\ Len(texts) + 1 # 0 /\ (Len(texts) + 1) - 1 = Len(texts)
    BY <1>1
  <2> QED
    BY <1>1, <1>3, <1>6, <2>1
<1> QED
  BY <1>6, <1>7 DEF new, old, more

\* Nobody ever owes: whatever was committed or forced, the balance on disk is
\* the one the chapters add up to, and after none of them was it below zero.
THEOREM BooksCorrect == Spec => []MeritBooks
<1>1. Init => Room /\ MeritBooks
  <2>1. Init => Room
    BY InitRoom
  <2>2. ASSUME Init PROVE MeritBooks
    <3>1. told = <<>> /\ Len(told) = 0 /\ state.merit = InitialMerit
      BY <2>2 DEF Init, InitialState
    <3>2. \A c : Booked(told, c)[0] = InitialMerit[c]
      <4> SUFFICES ASSUME NEW c PROVE Booked(told, c)[0] = InitialMerit[c]
        OBVIOUS
      <4>1. After(told, c, Booked(told, c), 0)
        BY <3>1, BookedUnrolled
      <4> QED
        BY <4>1 DEF After
    <3>3. \A c \in Chars : InitialMerit[c] \in Nat
      BY StateAssumption
    <3> QED
      BY <3>1, <3>2, <3>3 DEF MeritBooks
  <2> QED
    BY <2>1, <2>2
<1>2. Room /\ MeritBooks /\ [Next]_vars => (Room /\ MeritBooks)'
  <2> SUFFICES ASSUME Room, MeritBooks, [Next]_vars PROVE MeritBooks'
    BY NextRoom
  <2>1. CASE Commit
    <3> DEFINE n == Len(told)
    <3>1. /\ text \in Drafts /\ told \in Seq(Drafts) /\ state \in State /\ n \in Nat
          /\ told' = Append(told, text) /\ Len(told') = n + 1
      BY <2>1 DEF Commit, Admitted, Room, TypeOK
    <3> SUFFICES ASSUME NEW c \in Chars
        PROVE  /\ state'.merit[c] = Booked(told', c)[n + 1]
               /\ \A k \in 0..(n + 1) : Booked(told', c)[k] >= 0
      BY <3>1 DEF MeritBooks
    <3>2. /\ \A k \in 0..n : Booked(told', c)[k] = Booked(told, c)[k]
          /\ Booked(told', c)[n + 1] = Booked(told, c)[n] + MeritIn(text, c)
      BY <3>1, BookedAppend
    <3>3. /\ state.merit[c] = Booked(told, c)[n]
          /\ \A k \in 0..n : Booked(told, c)[k] >= 0
      BY DEF MeritBooks
    <3>4. state.merit[c] \in Int
      BY <3>1 DEF State
    <3>5. /\ state'.merit[c] = state.merit[c] + MeritIn(text, c)
          /\ state'.merit[c] >= 0
      <4>1. state'.merit[c] = IF c \in DOMAIN Extract(text).merit
                              THEN state.merit[c] + Extract(text).merit[c]
                              ELSE state.merit[c]
        BY <2>1 DEF Commit, Apply, Balance
      <4>2. c \in DOMAIN Extract(text).merit => state.merit[c] + Extract(text).merit[c] >= 0
        BY <2>1 DEF Commit, ValidAll, ValidResource
      <4>3. n \in 0..n
        BY <3>1
      <4> QED
        BY <3>3, <3>4, <4>1, <4>2, <4>3 DEF MeritIn
    <3>6. Booked(told', c)[n + 1] = state'.merit[c]
      BY <3>2, <3>3, <3>5
    <3>7. ASSUME NEW k \in 0..(n + 1) PROVE Booked(told', c)[k] >= 0
      <4>1. k \in 0..n \/ k = n + 1
        BY <3>1
      <4> QED
        BY <3>2, <3>3, <3>5, <3>6, <4>1
    <3> QED
      BY <3>6, <3>7
  <2>2. CASE UNCHANGED <<state, told>>
    BY <2>2 DEF MeritBooks
  <2> QED
    BY <2>1, <2>2, OnlyCommitTells
<1> QED
  BY <1>1, <1>2, PTL DEF Spec

-----------------------------------------------------------------------------
(* The score.                                                                *)

\* A sum of scores of which all but those in M are full marks.
LEMMA SumOfMarks ==
    ASSUME NEW f, IsFiniteSet(DOMAIN f), NEW M,
           \A x \in DOMAIN f : f[x] \in Nat /\ (x \notin M => f[x] = 100)
    PROVE  /\ SumFunction(f) \in Int
           /\ SumFunction(f) >= 100 * Cardinality(DOMAIN f \ M)
<1>1. PICK g : /\ SumFunction(f) = g[DOMAIN f]
               /\ \A s \in SUBSET (DOMAIN f) :
                     g[s] = IF s = {} THEN 0 ELSE f[Pick(s)] + g[s \ {Pick(s)}]
  BY SumUnrolled, ZenonT(60)
<1> DEFINE Bound(s) == g[s] \in Int /\ g[s] >= 100 * Cardinality(s \ M)
           Good == {n \in Nat : \A s \in SUBSET (DOMAIN f) : Cardinality(s) = n => Bound(s)}
<1>2. 0 \in Good
  <2> SUFFICES ASSUME NEW s \in SUBSET (DOMAIN f), Cardinality(s) = 0 PROVE Bound(s)
    OBVIOUS
  <2>1. s = {}
    BY FS_Subset, FS_EmptySet
  <2>2. Cardinality(s \ M) = 0
    <3>1. s \ M = {}
      BY <2>1
    <3> QED
      BY <3>1, FS_EmptySet
  <2>3. g[s] = 0
    BY <1>1, <2>1
  <2> QED
    BY <2>2, <2>3
<1>3. ASSUME NEW n \in Nat, n \in Good PROVE n + 1 \in Good
  <2> SUFFICES ASSUME NEW s \in SUBSET (DOMAIN f), Cardinality(s) = n + 1 PROVE Bound(s)
    OBVIOUS
  <2> DEFINE x == Pick(s)
             r == s \ {x}
  <2>1. IsFiniteSet(s)
    BY FS_Subset
  <2>2. s # {} /\ x \in s
    <3>1. Cardinality({}) = 0
      BY FS_EmptySet
    <3>2. s # {}
      BY <3>1
    <3> QED
      BY <3>2 DEF Pick
  <2>3. IsFiniteSet(r) /\ r \in SUBSET (DOMAIN f) /\ Cardinality(r) = n
    <3>1. IsFiniteSet(r) /\ Cardinality(r) = Cardinality(s) - 1
      BY <2>1, <2>2, FS_RemoveElement
    <3> QED
      BY <3>1
  <2>4. g[s] = f[x] + g[r]
    BY <1>1, <2>2
  <2>5. g[r] \in Int /\ g[r] >= 100 * Cardinality(r \ M)
    BY <1>3, <2>3
  <2>6. IsFiniteSet(r \ M) /\ Cardinality(r \ M) \in Nat
    <3>1. r \ M \in SUBSET r
      OBVIOUS
    <3>2. IsFiniteSet(r \ M)
      BY <2>3, <3>1, FS_Subset
    <3> QED
      BY <3>2, FS_CardinalityType
  <2>7. f[x] \in Nat /\ (x \notin M => f[x] = 100)
    BY <2>2
  <2>8. CASE x \in M
    <3>1. s \ M = r \ M
      BY <2>2, <2>8
    <3>2. Cardinality(s \ M) = Cardinality(r \ M)
      BY <3>1
    <3>3. g[s] \in Int /\ g[s] >= g[r]
      <4> HIDE DEF x, r
      <4> QED
        BY <2>4, <2>5, <2>7
    <3> HIDE DEF x, r
    <3> QED
      BY <2>5, <2>6, <3>2, <3>3
  <2>9. CASE x \notin M
    <3>1. s \ M = (r \ M) \cup {x} /\ x \notin r \ M
      BY <2>2, <2>9
    <3>2. Cardinality(s \ M) = Cardinality(r \ M) + 1
      BY <2>6, <3>1, FS_AddElement
    <3> HIDE DEF x, r
    <3> QED
      BY <2>4, <2>5, <2>6, <2>7, <2>9, <3>2
  <2> QED
    BY <2>8, <2>9
<1> HIDE DEF Good
<1>4. Cardinality(DOMAIN f) \in Good
  BY <1>2, <1>3, FS_CardinalityType, Induction
<1> QED
  BY <1>1, <1>4 DEF Good

\* The checkers, and those of them that take marks off without blocking.
Checkers ==
    {"word_count", "alive_dead", "hash_branch", "realm_strictness",
     "resource_ledger", "spatial_continuity", "timeline_consistency",
     "frozen_canon", "ai_pattern", "pod_compatibility", "canon_orphan",
     "butterfly_debt", "divergence_monotonicity", "ooc_fidelity",
     "relationship_dynamics", "pacing", "canon_fidelity",
     "epistemic_claim", "meta_leak", "transition_topology", "domain_fill",
     "style_fingerprint", "identity_reveal", "bounded_progression",
     "combat_style", "sensory_density"}
Lenient == {"ai_pattern", "pacing", "meta_leak", "style_fingerprint",
            "bounded_progression"}

LEMMA HowManyCheckers ==
    /\ IsFiniteSet(Checkers) /\ Cardinality(Checkers) = 26
    /\ Cardinality(Checkers \ Lenient) >= 21
<1> DEFINE name ==
      <<"word_count", "alive_dead", "hash_branch", "realm_strictness",
        "resource_ledger", "spatial_continuity", "timeline_consistency",
        "frozen_canon", "ai_pattern", "pod_compatibility", "canon_orphan",
        "butterfly_debt", "divergence_monotonicity", "ooc_fidelity",
        "relationship_dynamics", "pacing", "canon_fidelity",
        "epistemic_claim", "meta_leak", "transition_topology",
        "domain_fill", "style_fingerprint", "identity_reveal",
        "bounded_progression", "combat_style", "sensory_density">>
<1>1. name \in Bijection(1..26, Checkers)
  <2>1. name \in [1..26 -> Checkers]
    BY DEF Checkers
  <2>2. \A i, j \in 1..26 : name[i] = name[j] => i = j
    OBVIOUS
  <2>3. \A c \in Checkers : \E i \in 1..26 : name[i] = c
    BY DEF Checkers
  <2> HIDE DEF name
  <2> QED
    BY <2>1, <2>2, <2>3 DEF Bijection, Injection, Surjection, IsInjective
<1>2. IsFiniteSet(1..26) /\ Cardinality(1..26) = 26
  <2> HIDE DEF name
  <2>1. 1 \in Int /\ 26 \in Int
    OBVIOUS
  <2>2. /\ IsFiniteSet(1..26)
        /\ Cardinality(1..26) = IF 1 > 26 THEN 0 ELSE 26 - 1 + 1
    BY <2>1, FS_Interval
  <2> QED
    BY <2>2
<1>3. IsFiniteSet(Checkers) /\ Cardinality(Checkers) = 26
  <2> HIDE DEF name
  <2>1. ExistsBijection(1..26, Checkers)
    BY <1>1 DEF ExistsBijection
  <2> QED
    BY <1>2, <2>1, FS_Bijection
<1>4. IsFiniteSet(Lenient) /\ Cardinality(Lenient) <= 5
  <2> DEFINE few == <<"ai_pattern", "pacing", "meta_leak",
                    "style_fingerprint", "bounded_progression">>
  <2>1. few \in Surjection(1..5, Lenient)
    <3>1. few \in [1..5 -> Lenient]
      BY DEF Lenient
    <3>2. \A c \in Lenient : \E i \in 1..5 : few[i] = c
      BY DEF Lenient
    <3> HIDE DEF few
    <3> QED
      BY <3>1, <3>2 DEF Surjection
  <2> HIDE DEF few
  <2>2. IsFiniteSet(1..5) /\ Cardinality(1..5) = 5
    <3> HIDE DEF name
    <3>1. 1 \in Int /\ 5 \in Int
      OBVIOUS
    <3>2. IsFiniteSet(1..5) /\ Cardinality(1..5) = IF 1 > 5 THEN 0 ELSE 5 - 1 + 1
      BY <3>1, FS_Interval
    <3> QED
      BY <3>2
  <2> QED
    BY <2>1, <2>2, FS_Surjection
<1>5. /\ Cardinality(Checkers \ Lenient)
           = Cardinality(Checkers) - Cardinality(Checkers \cap Lenient)
      /\ Cardinality(Checkers \cap Lenient) <= Cardinality(Lenient)
      /\ Cardinality(Checkers \cap Lenient) \in Nat /\ Cardinality(Lenient) \in Nat
  <2>1. /\ IsFiniteSet(Checkers \cap Lenient)
        /\ Cardinality(Checkers \cap Lenient) <= Cardinality(Lenient)
    BY <1>4, FS_Intersection
  <2>2. Cardinality(Checkers \ Lenient)
          = Cardinality(Checkers) - Cardinality(Checkers \cap Lenient)
    BY <1>3, FS_Difference
  <2> QED
    BY <1>4, <2>1, <2>2, FS_CardinalityType
<1> QED
  BY <1>3, <1>4, <1>5

\* When nothing blocks, every checker but the lenient ones gives full marks.
LEMMA Marks ==
    ASSUME NEW d, NEW s, NEW n, ~Blocked(Check(d, s, n))
    PROVE  /\ DOMAIN Check(d, s, n) = Checkers
           /\ \A c \in Checkers : /\ Check(d, s, n)[c].score \in Nat
                                  /\ c \notin Lenient => Check(d, s, n)[c].score = 100
<1> DEFINE r == Check(d, s, n)
<1>1. DOMAIN r = Checkers
  BY Zenon DEF Check, Checkers
<1>2. /\ r.word_count = WordCount(d)
      /\ r.alive_dead = AliveDead(d, {})
      /\ r.hash_branch = HashBranch(TRUE)
      /\ r.realm_strictness = RealmStrictness(d, s)
      /\ r.resource_ledger = ResourceLedger(s)
      /\ r.spatial_continuity = Passed("P0")
      /\ r.timeline_consistency = Timeline(n)
      /\ r.frozen_canon = FrozenCanon(d)
      /\ r.ai_pattern = AIPattern(d)
      /\ r.pod_compatibility = PODCompatibility(d)
      /\ r.canon_orphan = Passed("P0")
      /\ r.butterfly_debt = Passed("P0")
      /\ r.divergence_monotonicity = Passed("P0")
      /\ r.ooc_fidelity = OOCFidelity(d)
      /\ r.relationship_dynamics = RelationshipDynamics(d, {})
      /\ r.pacing = Pacing(d)
      /\ r.canon_fidelity = Passed("P0")
      /\ r.epistemic_claim = EpistemicClaim(d)
      /\ r.meta_leak = MetaLeak(d)
      /\ r.transition_topology = TransitionTopology(d, <<>>)
      /\ r.domain_fill = DomainFill(d, {})
      /\ r.style_fingerprint = StyleFingerprint(d, FALSE)
      /\ r.identity_reveal = IdentityReveal(d, {})
      /\ r.bounded_progression = BoundedProgression(d)
      /\ r.combat_style = CombatStyle(d)
      /\ r.sensory_density = Passed("P2")
  BY DEF Check
<1> HIDE DEF r
<1>3. \A c \in Checkers :
        r[c].severity = "P0" => r[c].status # "FAIL" /\ r[c].status # "UNKNOWN"
  BY <1>1 DEF Blocked, r
<1>4. /\ r.word_count.score = 100
      /\ r.alive_dead.score = 100
      /\ r.hash_branch.score = 100
      /\ r.realm_strictness.score = 100
      /\ r.resource_ledger.score = 100
      /\ r.spatial_continuity.score = 100
      /\ r.timeline_consistency.score = 100
      /\ r.frozen_canon.score = 100
      /\ r.ai_pattern.score \in Nat
      /\ r.pod_compatibility.score = 100
      /\ r.canon_orphan.score = 100
      /\ r.butterfly_debt.score = 100
      /\ r.divergence_monotonicity.score = 100
      /\ r.ooc_fidelity.score = 100
      /\ r.relationship_dynamics.score = 100
      /\ r.pacing.score \in Nat
      /\ r.canon_fidelity.score = 100
      /\ r.epistemic_claim.score = 100
      /\ r.meta_leak.score \in Nat
      /\ r.transition_topology.score = 100
      /\ r.domain_fill.score = 100
      /\ r.style_fingerprint.score \in Nat
      /\ r.identity_reveal.score = 100
      /\ r.bounded_progression.score \in Nat
      /\ r.combat_style.score = 100
      /\ r.sensory_density.score = 100
  <2>0. d # {}
    BY <1>2, <1>3 DEF WordCount, JudgeAny, Result, Passed, Checkers
  <2>1. r.word_count.score = 100
    BY <1>2, <1>3, <2>0 DEF Checkers, WordCount, Judge, JudgeAny, Result, Passed, Unknown
  <2>2. r.alive_dead.score = 100
    BY <1>2, <1>3, <2>0 DEF Checkers, AliveDead, Judge, JudgeAny, Result, Passed, Unknown
  <2>3. r.hash_branch.score = 100
    BY <1>2, <1>3, <2>0 DEF Checkers, HashBranch, Judge, JudgeAny, Result, Passed, Unknown
  <2>4. r.realm_strictness.score = 100
    BY <1>2, <1>3, <2>0 DEF Checkers, RealmStrictness, Judge, JudgeAny, Result, Passed, Unknown
  <2>5. r.resource_ledger.score = 100
    BY <1>2, <1>3, <2>0 DEF Checkers, ResourceLedger, Judge, JudgeAny, Result, Passed, Unknown
  <2>6. r.spatial_continuity.score = 100
    BY <1>2, <1>3, <2>0 DEF Checkers, Judge, JudgeAny, Result, Passed, Unknown
  <2>7. r.timeline_consistency.score = 100
    BY <1>2, <1>3, <2>0 DEF Checkers, Timeline, Judge, JudgeAny, Result, Passed, Unknown
  <2>8. r.frozen_canon.score = 100
    BY <1>2, <1>3, <2>0 DEF Checkers, FrozenCanon, Judge, JudgeAny, Result, Passed, Unknown
  <2>9. r.ai_pattern.score \in Nat
    BY <1>2, <1>3, <2>0 DEF Checkers, AIPattern, Judge, JudgeAny, Result, Passed, Unknown
  <2>10. r.pod_compatibility.score = 100
    BY <1>2, <1>3, <2>0 DEF Checkers, PODCompatibility, Judge, JudgeAny, Result, Passed, Unknown
  <2>11. r.canon_orphan.score = 100
    BY <1>2, <1>3, <2>0 DEF Checkers, Judge, JudgeAny, Result, Passed, Unknown
  <2>12. r.butterfly_debt.score = 100
    BY <1>2, <1>3, <2>0 DEF Checkers, Judge, JudgeAny, Result, Passed, Unknown
  <2>13. r.divergence_monotonicity.score = 100
    BY <1>2, <1>3, <2>0 DEF Checkers, Judge, JudgeAny, Result, Passed, Unknown
  <2>14. r.ooc_fidelity.score = 100
    BY <1>2, <1>3, <2>0 DEF Checkers, OOCFidelity, Judge, JudgeAny, Result, Passed, Unknown
  <2>15. r.relationship_dynamics.score = 100
    BY <1>2, <1>3, <2>0 DEF Checkers, RelationshipDynamics, Judge, JudgeAny, Result, Passed, Unknown
  <2>16. r.pacing.score \in Nat
    BY <1>2, <1>3, <2>0 DEF Checkers, Pacing, Judge, JudgeAny, Result, Passed, Unknown
  <2>17. r.canon_fidelity.score = 100
    BY <1>2, <1>3, <2>0 DEF Checkers, Judge, JudgeAny, Result, Passed, Unknown
  <2>18. r.epistemic_claim.score = 100
    BY <1>2, <1>3, <2>0 DEF Checkers, EpistemicClaim, Judge, JudgeAny, Result, Passed, Unknown
  <2>19. r.meta_leak.score \in Nat
    <3>1. r.meta_leak \in {Result("WARN", "P0", 70),
                             Judge(d, Says(d, "canon word"), "P0", 0)}
      BY <1>2 DEF MetaLeak
    <3>2. Result("WARN", "P0", 70).score \in Nat
      BY DEF Result
    <3>3. Judge(d, Says(d, "canon word"), "P0", 0).score \in Nat
      BY DEF Judge, Result, Passed, Unknown
    <3> QED
      BY <3>1, <3>2, <3>3
  <2>20. r.transition_topology.score = 100
    BY <1>2, <1>3, <2>0 DEF Checkers, TransitionTopology, Judge, JudgeAny, Result, Passed, Unknown
  <2>21. r.domain_fill.score = 100
    BY <1>2, <1>3, <2>0 DEF Checkers, DomainFill, Judge, JudgeAny, Result, Passed, Unknown
  <2>22. r.style_fingerprint.score \in Nat
    <3>1. r.style_fingerprint \in {Result("REVISE", "P0", 50),
                                     Judge(d, Says(d, "off band"), "P0", 0)}
      BY <1>2 DEF StyleFingerprint
    <3>2. Result("REVISE", "P0", 50).score \in Nat
      BY DEF Result
    <3>3. Judge(d, Says(d, "off band"), "P0", 0).score \in Nat
      BY DEF Judge, Result, Passed, Unknown
    <3> QED
      BY <3>1, <3>2, <3>3
  <2>23. r.identity_reveal.score = 100
    BY <1>2, <1>3, <2>0 DEF Checkers, IdentityReveal, Judge, JudgeAny, Result, Passed, Unknown
  <2>24. r.bounded_progression.score \in Nat
    BY <1>2, <1>3, <2>0 DEF Checkers, BoundedProgression, Judge, JudgeAny, Result, Passed, Unknown
  <2>25. r.combat_style.score = 100
    BY <1>2, <1>3, <2>0 DEF Checkers, CombatStyle, Judge, JudgeAny, Result, Passed, Unknown
  <2>26. r.sensory_density.score = 100
    BY <1>2, <1>3, <2>0 DEF Checkers, Judge, JudgeAny, Result, Passed, Unknown
  <2> QED
    BY <2>1, <2>2, <2>3, <2>4, <2>5, <2>6, <2>7, <2>8, <2>9, <2>10, <2>11,
       <2>12, <2>13, <2>14, <2>15, <2>16, <2>17, <2>18, <2>19, <2>20,
       <2>21, <2>22, <2>23, <2>24, <2>25, <2>26
<1> QED
  BY <1>1, <1>4 DEF Checkers, Lenient, r

\* The average never decides: a text is sent back exactly when a P0 checker fails
\* it or cannot tell.
ScoreNeverDecides ==
    text # NoText => (Verdict(checked) = "REVISE" <=> Blocked(checked))

\* The gate asks for an average of 75, and gets 80 from what lets a chapter
\* through: the five checkers that can take marks off without blocking cannot
\* bring 26 of them below it.  So style_fingerprint's own REVISE, which says that it
\* blocks (style_fingerprint.py:5), does not: neither by its status nor by its score.
THEOREM ScoreCorrect == Spec => []ScoreNeverDecides
<1>1. ASSUME NEW d, NEW s, NEW n, ~Blocked(Check(d, s, n))
      PROVE  ~(Average(Check(d, s, n)) < RequiredScore)
  <2> DEFINE r == Check(d, s, n)
             f == [c \in DOMAIN r |-> r[c].score]
  <2>1. DOMAIN r = Checkers
    BY <1>1, Marks
  <2>2. \A c \in Checkers : r[c].score \in Nat /\ (c \notin Lenient => r[c].score = 100)
    BY <1>1, Marks
  <2> HIDE DEF r
  <2>3. DOMAIN f = Checkers
    BY <2>1
  <2>4. \A c \in DOMAIN f : f[c] \in Nat /\ (c \notin Lenient => f[c] = 100)
    BY <2>1, <2>2
  <2> HIDE DEF f
  <2>5. /\ SumFunction(f) \in Int
        /\ SumFunction(f) >= 100 * Cardinality(Checkers \ Lenient)
    BY <2>3, <2>4, HowManyCheckers, SumOfMarks
  <2>6. Cardinality(Checkers \ Lenient) \in Nat
    <3>1. Checkers \ Lenient \in SUBSET Checkers
      OBVIOUS
    <3>2. IsFiniteSet(Checkers \ Lenient)
      BY <3>1, HowManyCheckers, FS_Subset
    <3> QED
      BY <3>2, FS_CardinalityType
  <2>7. SumFunction(f) \in Int /\ SumFunction(f) >= 2100
    BY <2>5, <2>6, HowManyCheckers
  <2>8. Average(r) = SumFunction(f) \div 26
    BY <2>1, HowManyCheckers DEF Average, f
  <2> DEFINE sum == SumFunction(f)
  <2> HIDE DEF sum
  <2>9. sum \in Int /\ sum >= 2100 => sum \div 26 \in Int /\ sum \div 26 >= 75
    OBVIOUS
  <2> QED
    BY <2>7, <2>8, <2>9 DEF sum, RequiredScore, r
<1>2. Fresh => ScoreNeverDecides
  <2> SUFFICES ASSUME Fresh, text # NoText
      PROVE  Verdict(checked) = "REVISE" <=> Blocked(checked)
    BY DEF ScoreNeverDecides
  <2> QED
    BY <1>1 DEF Verdict, Fresh
<1> QED
  BY <1>2, InitFresh, NextFresh, PTL DEF Spec
=============================================================================
