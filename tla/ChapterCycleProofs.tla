------------------------- MODULE ChapterCycleProofs -------------------------
(***************************************************************************)
(* What holds of the chapter cycle for every causal graph, POD, set of     *)
(* texts and bound: the story has no gap, the audit sees all of it, and a  *)
(* debt of overdue ripples is for good.  The propagation ends, and at a    *)
(* moderate intensity its order does not matter and a further divergence   *)
(* only adds to it.  So the ledger has each fact once, the cache beside it *)
(* forbids nothing the ledger does not account for, and what it forbids is *)
(* owed by a ripple, unless it was hit before there was a graph.           *)
(***************************************************************************)
EXTENDS ButterflyCycle, TLAPS, SequenceTheorems, FiniteSetTheorems, WellFoundedInduction

\* An engine at work: what the proofs need to know of its record.
Shape ==
    /\ run = [at |-> run.at, daemon |-> run.daemon, forced |-> run.forced, left |-> run.left,
              ch |-> run.ch, text |-> run.text, led |-> run.led, cache |-> run.cache,
              cycles |-> run.cycles, bound |-> run.bound]
    /\ run.left \in Nat /\ run.ch \in Nat

\* The inductive invariant of NoGap: everything that the next commit may
\* follow on (the head, the head an ingest will write back, the chapters the
\* daemon has behind it) is on disk.
Grounded ==
    /\ DOMAIN book \subseteq Nat
    /\ head \in Nat /\ 1..head \subseteq DOMAIN book
    /\ ingest = NoIngest \/ (ingest \in Nat /\ 1..ingest \subseteq DOMAIN book)
    /\ run = NoRun \/ (Shape /\ 1..(run.ch - 1) \subseteq DOMAIN book)
    /\ NoGap

\* The daemon's step to its next chapter.
LEMMA NextChapterShape ==
    ASSUME Shape, run.left > 1, run' = NextChapter
    PROVE  Shape' /\ run'.ch = run.ch + 1 /\ run'.at = "plan"
<1>1. run' = [run EXCEPT !.at = "plan", !.ch = @ + 1, !.left = @ - 1, !.text = Blank]
  BY DEF NextChapter
<1>2. DOMAIN run = {"at", "daemon", "forced", "left", "ch", "text", "led", "cache", "cycles",
                  "bound"}
  BY DEF Shape
<1>3. /\ run'.at = "plan" /\ run'.daemon = run.daemon /\ run'.forced = run.forced
      /\ run'.left = run.left - 1 /\ run'.ch = run.ch + 1 /\ run'.text = Blank
      /\ run'.led = run.led /\ run'.cache = run.cache /\ run'.cycles = run.cycles
      /\ run'.bound = run.bound
  BY <1>1, <1>2
<1>4. run' = [at |-> "plan", daemon |-> run.daemon, forced |-> run.forced,
              left |-> run.left - 1, ch |-> run.ch + 1, text |-> Blank, led |-> run.led,
              cache |-> run.cache, cycles |-> run.cycles, bound |-> run.bound]
  BY <1>1, <1>2
<1> QED
  BY <1>3, <1>4 DEF Shape

\* The engine at its draft.
LEMMA DraftShape ==
    ASSUME Shape, Draft
    PROVE  Shape' /\ run'.ch = run.ch /\ run'.at = "ledger"
<1>1. PICK t, l, c : run' = [run EXCEPT !.text = t, !.led = l, !.cycles = 0, !.at = "ledger",
                                       !.cache = c]
  BY DEF Draft
<1>2. DOMAIN run = {"at", "daemon", "forced", "left", "ch", "text", "led", "cache", "cycles",
                  "bound"}
  BY DEF Shape
<1>3. /\ run'.at = "ledger" /\ run'.left = run.left /\ run'.ch = run.ch
      /\ run'.daemon = run.daemon /\ run'.forced = run.forced /\ run'.text = t
      /\ run'.led = l /\ run'.cache = c /\ run'.cycles = 0 /\ run'.bound = run.bound
  BY <1>1, <1>2
<1>4. run' = [at |-> "ledger", daemon |-> run.daemon, forced |-> run.forced,
              left |-> run.left, ch |-> run.ch, text |-> t, led |-> l, cache |-> c,
              cycles |-> 0, bound |-> run.bound]
  BY <1>1, <1>2
<1> QED
  BY <1>3, <1>4 DEF Shape

\* The initial state is grounded: there is no chapter.
LEMMA InitGrounded == Init => Grounded
BY DEF Init, Grounded, NoGap, NoIngest

\* A new engine starts after the head.
LEMMA StartGrounded ==
    ASSUME Grounded, NEW d \in BOOLEAN, NEW f \in BOOLEAN, NEW n \in Nat, Start(d, f, n)
    PROVE  Grounded'
<1>1. run'.ch = head + 1 /\ Shape'
  BY DEF Start, Shape, Grounded
<1>2. UNCHANGED <<book, head, ingest>>
  BY DEF Start, story
<1> QED
  BY <1>1, <1>2 DEF Grounded, NoGap

\* Steps that leave the chapters, the head and the ingest alone, and keep the
\* engine at its chapter or end it.
LEMMA SameChapterGrounded ==
    ASSUME Grounded, UNCHANGED <<book, head, ingest>>,
           run' = NoRun \/ run' = run \/ (run # NoRun /\ Shape' /\ run'.ch = run.ch)
    PROVE  Grounded'
<1>1. CASE run' = run
  BY <1>1 DEF Grounded, NoGap, Shape
<1>2. CASE run' = NoRun
  BY <1>2 DEF Grounded, NoGap
<1>3. CASE run # NoRun /\ Shape' /\ run'.ch = run.ch
  BY <1>3 DEF Grounded, NoGap
<1> QED
  BY <1>1, <1>2, <1>3

\* The commit adds the chapter the engine is at, all before which are there.
LEMMA CommitGrounded ==
    ASSUME Grounded, Commit
    PROVE  Grounded'
<1>1. run # NoRun /\ Shape /\ run.ch \in Nat
  BY DEF Commit, Judged, At, NoRun, Grounded, Shape
<1>2. DOMAIN book' = DOMAIN book \cup {run.ch} /\ ingest' = ingest
  BY DEF Commit, story
<1>3. head' = head \/ head' = run.ch
  BY DEF Commit, story
<1>4. 1..(run.ch - 1) \subseteq DOMAIN book
  BY <1>1 DEF Grounded
<1>5. 1..run.ch \subseteq DOMAIN book'
  BY <1>1, <1>2, <1>4
<1>6. head' \in Nat /\ 1..head' \subseteq DOMAIN book'
  BY <1>1, <1>2, <1>3, <1>5 DEF Grounded
<1>7. NoGap'
  BY <1>2, <1>5 DEF Grounded, NoGap
<1>8. run' = NoRun \/ (Shape' /\ 1..(run'.ch - 1) \subseteq DOMAIN book')
  <2>1. CASE run.left > 1
    <3>1. Shape' /\ run'.ch = run.ch + 1
      BY <1>1, <2>1, NextChapterShape DEF Commit
    <3> QED
      BY <1>1, <1>5, <3>1
  <2>2. CASE ~(run.left > 1)
    BY <2>2 DEF Commit, NextChapter
  <2> QED
    BY <2>1, <2>2
<1> QED
  BY <1>1, <1>2, <1>6, <1>7, <1>8 DEF Grounded

\* Every step keeps the story grounded.
LEMMA NextGrounded == Grounded /\ [Next]_vars => Grounded'
<1> SUFFICES ASSUME Grounded, [Next]_vars PROVE Grounded'
  OBVIOUS
<1>1. ASSUME NEW f \in BOOLEAN, Start(FALSE, f, 1) PROVE Grounded'
  BY <1>1, StartGrounded
<1>2. ASSUME NEW n \in 1..MaxChapters, Start(TRUE, FALSE, n) PROVE Grounded'
  <2>1. n \in Nat
    OBVIOUS
  <2> QED
    BY <1>2, <2>1, StartGrounded
<1>3. CASE Draft \/ SaveLedger \/ SaveCache \/ Revise
  <2>1. run # NoRun /\ Shape
    <3>1. run.at # "none"
      BY <1>3 DEF Draft, SaveLedger, SaveCache, Revise, At
    <3> QED
      BY <3>1 DEF NoRun, Grounded
  <2>2. Shape' /\ run'.ch = run.ch
    BY <1>3, <2>1, DraftShape DEF SaveLedger, SaveCache, Revise, Shape
  <2>3. UNCHANGED <<book, head, ingest>>
    BY <1>3 DEF Draft, SaveLedger, SaveCache, Revise, story
  <2> QED
    BY <2>1, <2>2, <2>3, SameChapterGrounded
<1>4. CASE Commit
  BY <1>4, CommitGrounded
<1>5. CASE Blocked \/ Stop \/ Tear \/ Enrich \/ UNCHANGED vars
  <2>1. UNCHANGED <<book, head, ingest>> /\ (run' = NoRun \/ run' = run)
    BY <1>5 DEF Blocked, Stop, Tear, Enrich, vars, story
  <2> QED
    BY <2>1, SameChapterGrounded
<1>6. CASE IngestStart
  BY <1>6 DEF IngestStart, Grounded, NoGap, story, Shape
<1>7. CASE IngestEnd
  BY <1>7 DEF IngestEnd, Grounded, NoGap, Shape
<1> QED
  BY <1>1, <1>2, <1>3, <1>4, <1>5, <1>6, <1>7 DEF Next, Work, WriteNext, Batch

\* The story has no gap, whatever the texts, the propagation and the bounds.
THEOREM GapCorrect == Spec => []NoGap
<1>1. Grounded => NoGap
  BY DEF Grounded
<1> QED
  BY <1>1, InitGrounded, NextGrounded, PTL DEF Spec

-----------------------------------------------------------------------------
\* A commit is recorded, or remembered as one that could not be.
Accounted == DOMAIN book \subseteq records \cup unrecorded

\* The audit of all chapters misses none that could be recorded, though the
\* head may be set back.
THEOREM AuditCorrect == Spec => []AuditSeesStory
<1>1. Init => Accounted
  BY DEF Init, Accounted
<1>2. Accounted /\ [Next]_vars => Accounted'
  <2>1. Next => Commit \/ UNCHANGED <<book, records, unrecorded>>
    BY DEF Next, Work, WriteNext, Batch, Start, Draft, SaveLedger, SaveCache, Revise, Blocked,
           Stop, Tear, IngestStart, IngestEnd, Enrich, story
  <2>2. Accounted /\ Commit => Accounted'
    BY DEF Commit, Accounted, story
  <2> QED
    BY <2>1, <2>2 DEF Accounted, vars
<1>3. Accounted => AuditSeesStory
  BY DEF Accounted, AuditSeesStory, Derived
<1> QED
  BY <1>1, <1>2, <1>3, PTL DEF Spec

-----------------------------------------------------------------------------
\* Induction over the natural numbers, for a set.
LEMMA Induction ==
    ASSUME NEW S, 0 \in S, \A n \in Nat : n \in S => n + 1 \in S
    PROVE  Nat \subseteq S
<1> SUFFICES ASSUME Nat \ S # {} PROVE FALSE
  OBVIOUS
<1> DEFINE Less == OpToRel(<, Nat)
<1>1. \A x, y : x \in Nat /\ y \in Nat /\ x < y => <<x, y>> \in Less
  BY DEF OpToRel
<1>2. IsWellFoundedOn(Less, Nat)
  BY NatLessThanWellFounded
<1>3. \E x \in Nat \ S : \A y \in Nat \ S : ~(<<y, x>> \in Less)
  <2> HIDE DEF Less
  <2> QED
    BY <1>2, WFMin
<1>4. PICK n \in Nat \ S : \A m \in Nat \ S : ~(m < n)
  BY <1>1, <1>3
<1>5. n # 0 /\ n - 1 \in Nat
  OBVIOUS
<1> QED
  BY <1>4, <1>5

\* The results of the loop of Kept over the first k members.
Unrolled(seq, keep, g, k) ==
    g = [n \in 0..k |->
            IF n = 0 THEN <<>>
            ELSE IF seq[n] \in keep THEN Append(g[n - 1], seq[n]) ELSE g[n - 1]]

LEMMA UnrolledExists ==
    ASSUME NEW seq, NEW keep, NEW k \in Nat
    PROVE  \E g : Unrolled(seq, keep, g, k)
<1> DEFINE Good == {n \in Nat : \E g : Unrolled(seq, keep, g, n)}
<1>1. 0 \in Good
  <2>1. Unrolled(seq, keep, [n \in 0..0 |-> <<>>], 0)
    BY DEF Unrolled
  <2> QED
    BY <2>1
<1>2. ASSUME NEW n \in Nat, n \in Good PROVE n + 1 \in Good
  <2>1. PICK g : Unrolled(seq, keep, g, n)
    BY <1>2
  <2> DEFINE last == IF seq[n + 1] \in keep THEN Append(g[n], seq[n + 1]) ELSE g[n]
             h == [i \in 0..(n + 1) |-> IF i = n + 1 THEN last ELSE g[i]]
             body == [i \in 0..(n + 1) |->
                        IF i = 0 THEN <<>>
                        ELSE IF seq[i] \in keep THEN Append(h[i - 1], seq[i]) ELSE h[i - 1]]
  <2>2. ASSUME NEW i \in 0..(n + 1) PROVE h[i] = body[i]
    <3>1. CASE i = 0
      BY <2>1, <3>1 DEF Unrolled
    <3>2. CASE i = n + 1
      <4>1. h[i - 1] = g[n] /\ i - 1 = n
        BY <3>2
      <4> QED
        BY <3>2, <4>1
    <3>3. CASE i # 0 /\ i # n + 1
      <4>1. i \in 0..n /\ i - 1 \in 0..n /\ h[i - 1] = g[i - 1] /\ h[i] = g[i]
        BY <3>3
      <4>2. g[i] = IF seq[i] \in keep THEN Append(g[i - 1], seq[i]) ELSE g[i - 1]
        BY <2>1, <3>3, <4>1 DEF Unrolled
      <4> QED
        BY <3>3, <4>1, <4>2
    <3> QED
      BY <3>1, <3>2, <3>3
  <2>3. h = body
    <3> HIDE DEF last
    <3> QED
      BY <2>2
  <2>4. Unrolled(seq, keep, h, n + 1)
    BY <2>3 DEF Unrolled
  <2> QED
    BY <2>4
<1> HIDE DEF Good
<1>3. k \in Good
  BY <1>1, <1>2, Induction
<1> QED
  BY <1>3 DEF Good

LEMMA KeptUnrolled ==
    ASSUME NEW S, NEW seq \in Seq(S), NEW keep
    PROVE  \E g : Unrolled(seq, keep, g, Len(seq)) /\ Kept(seq, keep) = g[Len(seq)]
<1> DEFINE f == CHOOSE g : Unrolled(seq, keep, g, Len(seq))
<1>1. \E g : Unrolled(seq, keep, g, Len(seq))
  BY UnrolledExists
<1>2. Unrolled(seq, keep, f, Len(seq))
  BY <1>1
<1>3. Kept(seq, keep) = f[Len(seq)]
  BY DEF Kept, Unrolled
<1> QED
  BY <1>2, <1>3

\* What Kept returns: some of the members in their order, all of them kept.
Selection(S, seq, keep, out, n) ==
    /\ out \in Seq(S)
    /\ \E at \in [1..Len(out) -> 1..n] :
          /\ \A i \in 1..Len(out) : out[i] = seq[at[i]] /\ seq[at[i]] \in keep
          /\ \A i, j \in 1..Len(out) : i < j => at[i] < at[j]

LEMMA SelectionStep ==
    ASSUME NEW S, NEW seq \in Seq(S), NEW keep, NEW out, NEW n \in Nat, n + 1 <= Len(seq),
           Selection(S, seq, keep, out, n)
    PROVE  Selection(S, seq, keep,
                     IF seq[n + 1] \in keep THEN Append(out, seq[n + 1]) ELSE out, n + 1)
<1>1. out \in Seq(S) /\ seq[n + 1] \in S /\ Len(out) \in Nat
  BY ElementOfSeq DEF Selection
<1>2. PICK at \in [1..Len(out) -> 1..n] :
        /\ \A i \in 1..Len(out) : out[i] = seq[at[i]] /\ seq[at[i]] \in keep
        /\ \A i, j \in 1..Len(out) : i < j => at[i] < at[j]
  BY DEF Selection
<1>3. CASE seq[n + 1] \notin keep
  <2>1. at \in [1..Len(out) -> 1..(n + 1)]
    BY <1>2
  <2> QED
    BY <1>1, <1>2, <1>3, <2>1 DEF Selection
<1>4. CASE seq[n + 1] \in keep
  <2> DEFINE more == Append(out, seq[n + 1])
             to == [i \in 1..(Len(out) + 1) |-> IF i = Len(out) + 1 THEN n + 1 ELSE at[i]]
  <2>1. /\ more \in Seq(S) /\ Len(more) = Len(out) + 1
        /\ more[Len(out) + 1] = seq[n + 1]
        /\ \A i \in 1..Len(out) : more[i] = out[i]
    BY <1>1, AppendProperties
  <2>2. to \in [1..Len(more) -> 1..(n + 1)]
    BY <1>1, <1>2, <2>1
  <2>3. \A i \in 1..Len(more) : more[i] = seq[to[i]] /\ seq[to[i]] \in keep
    BY <1>1, <1>2, <1>4, <2>1, SMTT(30)
  <2>4. \A i, j \in 1..Len(more) : i < j => to[i] < to[j]
    BY <1>1, <1>2, <2>1, SMTT(30)
  <2> HIDE DEF more, to
  <2>5. Selection(S, seq, keep, more, n + 1)
    BY <2>1, <2>2, <2>3, <2>4 DEF Selection
  <2> QED
    BY <1>4, <2>5 DEF more
<1> QED
  BY <1>3, <1>4

LEMMA KeptCorrect ==
    ASSUME NEW S, NEW seq \in Seq(S), NEW keep
    PROVE  Selection(S, seq, keep, Kept(seq, keep), Len(seq))
<1>1. PICK g : Unrolled(seq, keep, g, Len(seq)) /\ Kept(seq, keep) = g[Len(seq)]
  BY KeptUnrolled
<1>2. Len(seq) \in Nat
  OBVIOUS
<1> DEFINE Good == {n \in Nat : n <= Len(seq) => Selection(S, seq, keep, g[n], n)}
<1>3. 0 \in Good
  <2>1. g[0] = <<>>
    BY <1>1, <1>2 DEF Unrolled
  <2>2. <<>> \in [1..Len(<<>>) -> 1..0] /\ <<>> \in Seq(S) /\ Len(<<>>) = 0
    OBVIOUS
  <2> DEFINE at == <<>>
  <2>3. /\ at \in [1..Len(<<>>) -> 1..0]
        /\ \A i \in 1..Len(<<>>) : <<>>[i] = seq[at[i]] /\ seq[at[i]] \in keep
        /\ \A i, j \in 1..Len(<<>>) : i < j => at[i] < at[j]
    BY <2>2
  <2> HIDE DEF at
  <2>5. Selection(S, seq, keep, <<>>, 0)
    BY <2>2, <2>3 DEF Selection
  <2>4. Selection(S, seq, keep, g[0], 0)
    BY <2>1, <2>5
  <2> QED
    BY <2>4
<1>4. ASSUME NEW n \in Nat, n \in Good PROVE n + 1 \in Good
  <2> SUFFICES ASSUME n + 1 <= Len(seq) PROVE Selection(S, seq, keep, g[n + 1], n + 1)
    OBVIOUS
  <2>1. Selection(S, seq, keep, g[n], n)
    BY <1>2, <1>4
  <2>2. g[n + 1] = IF seq[n + 1] \in keep THEN Append(g[n], seq[n + 1]) ELSE g[n]
    <3>1. n + 1 \in 0..Len(seq) /\ (n + 1) - 1 = n /\ n + 1 # 0
      BY <1>2
    <3> QED
      BY <1>1, <3>1 DEF Unrolled
  <2>3. Selection(S, seq, keep,
                  IF seq[n + 1] \in keep THEN Append(g[n], seq[n + 1]) ELSE g[n], n + 1)
    BY <2>1, SelectionStep
  <2> QED
    BY <2>2, <2>3
<1> HIDE DEF Good
<1>5. Len(seq) \in Good
  BY <1>2, <1>3, <1>4, Induction
<1> QED
  BY <1>1, <1>2, <1>5 DEF Good

-----------------------------------------------------------------------------
\* A ledger's divergences: entries of the POD, each once.
DivsOK(divs) == divs \in Seq(Entries) /\ NoTwice(divs)
Extends(longer, divs) ==
    Len(divs) <= Len(longer) /\ divs = SubSeq(longer, 1, Len(divs))

\* The facts of an entry are one of the POD's.
LEMMA EntryFact ==
    ASSUME NEW x \in Entries
    PROVE  /\ \E i \in 1..Len(ChangedFacts) :
                x.fact = ChangedFacts[i].fact /\ x.op = ChangedFacts[i].op
           /\ x \in [fact : STRING, op : {"assert", "retract"}, chapter : 1..MaxChapters]
<1>1. PICK i \in DOMAIN ChangedFacts, c \in 1..MaxChapters :
        x = [fact |-> ChangedFacts[i].fact, op |-> ChangedFacts[i].op, chapter |-> c]
  BY DEF Entries
<1>2. ChangedFacts[i] \in [fact : STRING, op : {"assert", "retract"}, at : Nat]
      /\ i \in 1..Len(ChangedFacts)
  <2>1. ChangedFacts \in Seq([fact : STRING, op : {"assert", "retract"}, at : Nat])
    BY CycleAssumption
  <2>2. DOMAIN ChangedFacts = 1..Len(ChangedFacts)
    BY <2>1, LenProperties
  <2> QED
    BY <1>1, <2>1, <2>2, ElementOfSeq
<1>3. x.fact = ChangedFacts[i].fact /\ x.op = ChangedFacts[i].op /\ x.chapter = c
  BY <1>1
<1>4. x \in [fact : STRING, op : {"assert", "retract"}, chapter : 1..MaxChapters]
  BY <1>1, <1>2
<1> QED
  BY <1>2, <1>3, <1>4

\* There are no more of them than the POD has facts: what propagate may be
\* asked about is what is asked of the propagation.
LEMMA DivsAreHistories ==
    ASSUME NEW divs, DivsOK(divs)
    PROVE  divs \in Histories
<1>1. /\ divs \in [1..Len(divs) -> Entries] /\ Len(divs) \in Nat /\ NoTwice(divs)
      /\ DOMAIN divs = 1..Len(divs)
  BY LenProperties DEF DivsOK
<1>2. Len(ChangedFacts) \in Nat
  BY CycleAssumption
<1> DEFINE of == [i \in 1..Len(divs) |->
                    CHOOSE j \in 1..Len(ChangedFacts) :
                        /\ divs[i].fact = ChangedFacts[j].fact
                        /\ divs[i].op = ChangedFacts[j].op]
<1>3. \A i \in 1..Len(divs) : /\ of[i] \in 1..Len(ChangedFacts)
                              /\ divs[i].fact = ChangedFacts[of[i]].fact
                              /\ divs[i].op = ChangedFacts[of[i]].op
  BY <1>1, EntryFact
<1> HIDE DEF of
<1>4. \A i, j \in 1..Len(divs) : of[i] = of[j] => i = j
  BY <1>1, <1>3 DEF NoTwice
<1>5. of \in [1..Len(divs) -> 1..Len(ChangedFacts)]
  BY <1>3 DEF of
<1>6. /\ IsFiniteSet(1..Len(divs)) /\ Cardinality(1..Len(divs)) = Len(divs)
      /\ IsFiniteSet(1..Len(ChangedFacts))
      /\ Cardinality(1..Len(ChangedFacts)) = Len(ChangedFacts)
  <2>1. \A n \in Nat : IsFiniteSet(1..n) /\ Cardinality(1..n) = n
    BY FS_Interval
  <2> QED
    BY <1>1, <1>2, <2>1
<1>7. Len(divs) <= Len(ChangedFacts)
  <2>1. of \in Injection(1..Len(divs), 1..Len(ChangedFacts))
    BY <1>4, <1>5 DEF Injection, IsInjective
  <2> QED
    BY <1>6, <2>1, FS_Injection
<1>8. Len(divs) \in 0..Len(ChangedFacts)
  BY <1>1, <1>2, <1>7
<1> QED
  BY <1>1, <1>8 DEF Histories

\* A history's beginning is a history.
LEMMA PrefixOK ==
    ASSUME NEW divs, DivsOK(divs), NEW n \in 0..Len(divs)
    PROVE  DivsOK(SubSeq(divs, 1, n)) /\ Len(SubSeq(divs, 1, n)) = n
<1>1. divs \in Seq(Entries) /\ Len(divs) \in Nat /\ DOMAIN divs = 1..Len(divs)
  BY LenProperties DEF DivsOK
<1>2. \A i \in 1..n : divs[i] \in Entries
  BY <1>1, ElementOfSeq
<1>3. /\ SubSeq(divs, 1, n) \in Seq(Entries) /\ Len(SubSeq(divs, 1, n)) = n
      /\ \A i \in 1..n : SubSeq(divs, 1, n)[i] = divs[i]
  <2> DEFINE sub == SubSeq(divs, 1, n)
  <2>1. /\ sub \in Seq(Entries) /\ Len(sub) = (IF 1 <= n THEN n - 1 + 1 ELSE 0)
        /\ \A i \in 1..(n - 1 + 1) : sub[i] = divs[1 + i - 1]
    BY <1>1, <1>2, SubSeqProperties
  <2> HIDE DEF sub
  <2>2. n \in Nat
    BY <1>1
  <2>3. sub \in Seq(Entries) /\ Len(sub) = n /\ \A i \in 1..n : sub[i] = divs[i]
    BY <2>1, <2>2
  <2> QED
    BY <2>3 DEF sub
<1>4. NoTwice(SubSeq(divs, 1, n))
  <2>1. DOMAIN SubSeq(divs, 1, n) = 1..n
    BY <1>3, LenProperties
  <2> QED
    BY <1>1, <1>3, <2>1 DEF DivsOK, NoTwice
<1> QED
  BY <1>3, <1>4 DEF DivsOK

\* Two sequences, one after the other, extend the first.
LEMMA ConcatExtends ==
    ASSUME NEW S, NEW s \in Seq(S), NEW t \in Seq(S)
    PROVE  Extends(s \o t, s)
<1>1. Len(s) \in Nat /\ Len(t) \in Nat
  OBVIOUS
<1>2. /\ s \o t \in Seq(S) /\ Len(s \o t) = Len(s) + Len(t)
      /\ \A i \in 1..Len(s) : (s \o t)[i] = s[i]
  BY <1>1, ConcatProperties
<1>3. /\ SubSeq(s \o t, 1, Len(s)) \in Seq(S) /\ Len(SubSeq(s \o t, 1, Len(s))) = Len(s)
      /\ \A i \in 1..Len(s) : SubSeq(s \o t, 1, Len(s))[i] = s[i]
  <2>1. \A i \in 1..Len(s) : (s \o t)[i] \in S
    BY <1>1, <1>2, ElementOfSeq
  <2> DEFINE sub == SubSeq(s \o t, 1, Len(s))
  <2>2. /\ sub \in Seq(S) /\ Len(sub) = (IF 1 <= Len(s) THEN Len(s) - 1 + 1 ELSE 0)
        /\ \A i \in 1..(Len(s) - 1 + 1) : sub[i] = (s \o t)[1 + i - 1]
    BY <1>1, <2>1, SubSeqProperties
  <2> HIDE DEF sub
  <2>3. sub \in Seq(S) /\ Len(sub) = Len(s) /\ \A i \in 1..Len(s) : sub[i] = s[i]
    BY <1>1, <1>2, <2>2
  <2> QED
    BY <2>3 DEF sub
<1>4. s = SubSeq(s \o t, 1, Len(s))
  BY <1>3, SeqEqual
<1> QED
  BY <1>1, <1>2, <1>4 DEF Extends

\* The same for a history that is its own extension.
LEMMA ExtendsItself == ASSUME NEW divs, DivsOK(divs) PROVE Extends(divs, divs)
<1>1. divs \in Seq(Entries) /\ Len(divs) \in Nat
  BY LenProperties DEF DivsOK
<1>2. SubSeq(divs, 1, Len(divs)) = divs
  BY <1>1, SubSeqFull
<1> QED
  BY <1>1, <1>2 DEF Extends

\* What a chapter adds to the history: facts of the POD that were not in it,
\* each once.
LEMMA DivergedOK ==
    ASSUME NEW l, DivsOK(l.divs), NEW ch \in 1..MaxChapters, NEW text \in Texts
    PROVE  /\ DivsOK(Diverged(l, ch, News(l, ch, text)))
           /\ Extends(Diverged(l, ch, News(l, ch, text)), l.divs)
<1> DEFINE Fact == [fact : STRING, op : {"assert", "retract"}, at : Nat]
           keep == {c \in PodFactsNow(ch, text) : ~Registered(l, c)}
           news == News(l, ch, text)
           new  == [i \in DOMAIN news |->
                       [fact |-> news[i].fact, op |-> news[i].op, chapter |-> ch]]
<1>1. ChangedFacts \in Seq(Fact) /\ DOMAIN ChangedFacts = 1..Len(ChangedFacts)
      /\ Len(ChangedFacts) \in Nat
  BY CycleAssumption, LenProperties
<1>2. Selection(Fact, ChangedFacts, keep, news, Len(ChangedFacts))
  <2>1. news = Kept(ChangedFacts, keep)
    BY DEF News
  <2> HIDE DEF news, keep, Fact
  <2> QED
    BY <1>1, <2>1, KeptCorrect
<1> HIDE DEF news, Fact
<1>3. news \in Seq(Fact) /\ DOMAIN news = 1..Len(news) /\ Len(news) \in Nat
  BY <1>2, LenProperties DEF Selection
<1>4. PICK at \in [1..Len(news) -> 1..Len(ChangedFacts)] :
        /\ \A i \in 1..Len(news) : news[i] = ChangedFacts[at[i]] /\ ChangedFacts[at[i]] \in keep
        /\ \A i, j \in 1..Len(news) : i < j => at[i] < at[j]
  BY <1>2 DEF Selection
<1>5. \A i, j \in 1..Len(news) : at[i] = at[j] => i = j
  BY <1>3, <1>1, <1>4
<1>6. \A i \in 1..Len(news) : ~Registered(l, news[i])
  BY <1>4
<1>7. \A i \in 1..Len(news) : new[i] \in Entries
  <2> TAKE i \in 1..Len(news)
  <2>1. new[i] = [fact |-> ChangedFacts[at[i]].fact, op |-> ChangedFacts[at[i]].op,
                  chapter |-> ch]
    BY <1>3, <1>4
  <2>2. at[i] \in DOMAIN ChangedFacts
    BY <1>1, <1>4
  <2> QED
    BY <2>1, <2>2 DEF Entries
<1>8. new \in Seq(Entries) /\ Len(new) = Len(news) /\ DOMAIN new = 1..Len(news)
  <2>1. new \in [1..Len(news) -> Entries]
    BY <1>3, <1>7
  <2> HIDE DEF new
  <2> QED
    BY <1>3, <2>1, SeqDef, LenProperties
<1>9. \A i \in 1..Len(news) : new[i].fact = news[i].fact /\ new[i].op = news[i].op
  BY <1>3
<1> DEFINE all == l.divs \o new
<1>10. Diverged(l, ch, News(l, ch, text)) = all
  BY DEF Diverged, news
<1> HIDE DEF new, keep
<1>11. l.divs \in Seq(Entries) /\ Len(l.divs) \in Nat /\ DOMAIN l.divs = 1..Len(l.divs)
  BY LenProperties DEF DivsOK
<1>12. /\ all \in Seq(Entries) /\ Len(all) = Len(l.divs) + Len(news)
       /\ \A i \in 1..(Len(l.divs) + Len(news)) :
             all[i] = IF i <= Len(l.divs) THEN l.divs[i] ELSE new[i - Len(l.divs)]
  <2>1. /\ all \in Seq(Entries) /\ Len(all) = Len(l.divs) + Len(new)
        /\ \A i \in 1..(Len(l.divs) + Len(new)) :
              all[i] = IF i <= Len(l.divs) THEN l.divs[i] ELSE new[i - Len(l.divs)]
    BY <1>8, <1>11, ConcatProperties
  <2> HIDE DEF all
  <2> QED
    BY <1>8, <2>1
<1>13. DOMAIN all = 1..(Len(l.divs) + Len(news))
  BY <1>12, LenProperties
<1>14. Extends(all, l.divs)
  BY <1>8, <1>11, ConcatExtends
<1> HIDE DEF all
<1>15. NoTwice(all)
  <2> SUFFICES ASSUME NEW i \in DOMAIN all, NEW j \in DOMAIN all,
                      all[i].fact = all[j].fact, all[i].op = all[j].op, i < j
               PROVE  FALSE
    BY <1>3, <1>11, <1>13 DEF NoTwice
  <2>1. CASE j <= Len(l.divs)
    <3>1. i \in 1..Len(l.divs) /\ j \in 1..Len(l.divs)
      BY <1>3, <1>11, <1>13, <2>1
    <3>2. all[i] = l.divs[i] /\ all[j] = l.divs[j]
      BY <1>3, <1>11, <1>12, <1>13, <2>1
    <3> QED
      BY <1>11, <3>1, <3>2 DEF DivsOK, NoTwice
  <2>2. CASE i <= Len(l.divs) /\ j > Len(l.divs)
    <3>1. i \in 1..Len(l.divs) /\ j - Len(l.divs) \in 1..Len(news)
      BY <1>3, <1>11, <1>13, <2>2
    <3>2. all[i] = l.divs[i] /\ all[j] = new[j - Len(l.divs)]
      BY <1>3, <1>11, <1>12, <1>13, <2>2
    <3> QED
      BY <1>6, <1>9, <1>11, <3>1, <3>2, ZenonT(60) DEF Registered
  <2>3. CASE i > Len(l.divs)
    <3> DEFINE a == i - Len(l.divs)
               b == j - Len(l.divs)
    <3>1. a \in 1..Len(news) /\ b \in 1..Len(news) /\ a # b
      BY <1>3, <1>11, <1>13, <2>3
    <3>2. all[i] = new[a] /\ all[j] = new[b]
      BY <1>3, <1>11, <1>12, <1>13, <2>3
    <3> HIDE DEF a, b
    <3>3. news[a].fact = news[b].fact /\ news[a].op = news[b].op
      BY <1>9, <3>1, <3>2
    <3>4. at[a] = at[b]
      <4>1. /\ at[a] \in DOMAIN ChangedFacts /\ at[b] \in DOMAIN ChangedFacts
            /\ news[a] = ChangedFacts[at[a]] /\ news[b] = ChangedFacts[at[b]]
        BY <1>1, <1>4, <3>1
      <4> QED
        BY <3>3, <4>1, CycleAssumption
    <3> QED
      BY <1>5, <3>1, <3>4
  <2> QED
    BY <1>3, <1>11, <1>13, <2>1, <2>2, <2>3
<1> QED
  BY <1>10, <1>12, <1>14, <1>15 DEF DivsOK

-----------------------------------------------------------------------------
\* A finite set has a member of the greatest weight.
LEMMA HeaviestExists ==
    ASSUME NEW H, IsFiniteSet(H), H # {}, NEW w \in [H -> Nat]
    PROVE  \E x \in H : \A y \in H : w[y] <= w[x]
<1> DEFINE Good == {n \in Nat : \A K \in SUBSET H :
                       Cardinality(K) = n + 1 => \E x \in K : \A y \in K : w[y] <= w[x]}
<1>1. \A K \in SUBSET H : IsFiniteSet(K) /\ Cardinality(K) \in Nat
  BY FS_Subset, FS_CardinalityType
<1>2. 0 \in Good
  <2> SUFFICES ASSUME NEW K \in SUBSET H, Cardinality(K) = 1
               PROVE  \E x \in K : \A y \in K : w[y] <= w[x]
    OBVIOUS
  <2>1. PICK x : K = {x}
    BY <1>1, FS_Singleton
  <2> QED
    BY <2>1
<1>3. ASSUME NEW n \in Nat, n \in Good PROVE n + 1 \in Good
  <2> SUFFICES ASSUME NEW K \in SUBSET H, Cardinality(K) = (n + 1) + 1
               PROVE  \E x \in K : \A y \in K : w[y] <= w[x]
    OBVIOUS
  <2>1. PICK z \in K : TRUE
    BY <1>1, FS_EmptySet
  <2>2. Cardinality(K \ {z}) = n + 1
    BY <1>1, FS_RemoveElement
  <2>3. PICK x \in K \ {z} : \A y \in K \ {z} : w[y] <= w[x]
    BY <1>3, <2>2
  <2>4. w[x] \in Nat /\ w[z] \in Nat /\ \A y \in K : w[y] \in Nat
    OBVIOUS
  <2>5. CASE w[z] <= w[x]
    BY <2>3, <2>5
  <2>6. CASE w[x] <= w[z]
    BY <2>3, <2>4, <2>6
  <2> QED
    BY <2>4, <2>5, <2>6
<1> HIDE DEF Good
<1>4. Cardinality(H) - 1 \in Nat
  BY <1>1, FS_EmptySet
<1>5. Cardinality(H) - 1 \in Good
  BY <1>2, <1>3, <1>4, Induction
<1> QED
  BY <1>1, <1>4, <1>5 DEF Good

\* Of any size there is a part of it that nothing outside outweighs.
LEMMA TopExists ==
    ASSUME NEW H, IsFiniteSet(H), NEW w \in [H -> Nat], NEW m \in Nat, m <= Cardinality(H)
    PROVE  \E top \in SUBSET H : /\ Cardinality(top) = m
                                 /\ \A e \in top, x \in H \ top : w[x] <= w[e]
<1> DEFINE Top(top, n) == /\ Cardinality(top) = n
                          /\ \A e \in top, x \in H \ top : w[x] <= w[e]
           Good == {n \in Nat : n <= Cardinality(H) => \E top \in SUBSET H : Top(top, n)}
<1>1. Cardinality(H) \in Nat /\ \A K \in SUBSET H : IsFiniteSet(K)
  BY FS_Subset, FS_CardinalityType
<1>2. 0 \in Good
  <2>1. Top({}, 0)
    BY FS_EmptySet
  <2> QED
    BY <2>1
<1>3. ASSUME NEW n \in Nat, n \in Good PROVE n + 1 \in Good
  <2> SUFFICES ASSUME n + 1 <= Cardinality(H) PROVE \E top \in SUBSET H : Top(top, n + 1)
    OBVIOUS
  <2>1. PICK top \in SUBSET H : Top(top, n)
    BY <1>1, <1>3
  <2>2. H \ top # {} /\ IsFiniteSet(H \ top)
    <3>1. top # H
      BY <1>1, <2>1
    <3> QED
      BY <1>1, <3>1
  <2> DEFINE v == [x \in H \ top |-> w[x]]
  <2>3. PICK z \in H \ top : \A y \in H \ top : v[y] <= v[z]
    <3>1. v \in [H \ top -> Nat]
      OBVIOUS
    <3> HIDE DEF v
    <3> QED
      BY <2>2, <3>1, HeaviestExists
  <2>4. \A y \in H \ top : w[y] <= w[z]
    BY <2>3
  <2>5. Cardinality(top \cup {z}) = n + 1
    BY <1>1, <2>1, FS_AddElement
  <2>6. Top(top \cup {z}, n + 1)
    BY <2>1, <2>4, <2>5
  <2> QED
    BY <2>6
<1> HIDE DEF Good
<1>4. m \in Good
  BY <1>2, <1>3, Induction
<1> QED
  BY <1>4 DEF Good

\* What the ledger takes on at once is among what was hit, and is all of it
\* unless the cap cuts it.
LEMMA UrgentIsHit ==
    ASSUME WellFormed, NEW divs \in Histories
    PROVE  LET status == Propagated(divs)
           IN  /\ Urgent(status) \subseteq Hit(status)
               /\ Cardinality(Hit(status)) <= MaxOpen => Urgent(status) = Hit(status)
<1> DEFINE status == Propagated(divs)
           w == [e \in Hit(status) |-> Priority(status[e])]
<1>1. IsFiniteSet(Hit(status)) /\ \A e \in Hit(status) : status[e].force \in Nat
  <2>1. IsFiniteSet(DOMAIN status) /\ \A e \in DOMAIN status : status[e].force \in Nat
    BY DEF WellFormed
  <2>2. Hit(status) \subseteq DOMAIN status
    BY DEF Hit
  <2> QED
    BY <2>1, <2>2, FS_Subset
<1>2. w \in [Hit(status) -> Nat]
  BY <1>1 DEF Priority
<1>3. MaxOpen \in Nat /\ Cardinality(Hit(status)) \in Nat
  BY <1>1, FS_CardinalityType, CycleAssumption
<1>4. CASE Cardinality(Hit(status)) <= MaxOpen
  BY <1>4 DEF Urgent
<1>5. CASE ~(Cardinality(Hit(status)) <= MaxOpen)
  <2> HIDE DEF w, status
  <2>1. \E top \in SUBSET Hit(status) :
          /\ Cardinality(top) = MaxOpen
          /\ \A e \in top, x \in Hit(status) \ top : w[x] <= w[e]
    BY <1>1, <1>2, <1>3, <1>5, TopExists
  <2>2. \E top \in SUBSET Hit(status) :
          /\ Cardinality(top) = MaxOpen
          /\ \A e \in top, x \in Hit(status) \ top : Priority(status[x]) <= Priority(status[e])
    BY <2>1 DEF w
  <2>3. Urgent(status) \in SUBSET Hit(status)
    BY <1>5, <2>2 DEF Urgent
  <2> QED
    BY <1>5, <2>3 DEF status
<1> QED
  BY <1>4, <1>5

-----------------------------------------------------------------------------
\* The image of a finite set.
LEMMA ImageFinite ==
    ASSUME NEW S, IsFiniteSet(S), NEW f, DOMAIN f = S
    PROVE  IsFiniteSet({f[x] : x \in S})
<1> DEFINE T == {f[x] : x \in S}
           g == [x \in S |-> f[x]]
<1>1. g \in [S -> T] /\ \A t \in T : \E x \in S : g[x] = t
  OBVIOUS
<1>2. g \in Surjection(S, T)
  BY <1>1 DEF Surjection
<1> QED
  BY <1>2, FS_Surjection

\* The types of what an engine and the disk hold of the ledger.
RippleSet == [event : STRING, status : DOMAIN Severity, depth : Nat, from : Nat \ {0},
              opens : Nat, closes : Nat, paid : BOOLEAN]
LedgerOK(l) ==
    /\ l = [divs |-> l.divs, ripples |-> l.ripples, blind |-> l.blind]
    /\ DivsOK(l.divs) /\ l.blind \subseteq Nat \ {0}
    /\ l.ripples \subseteq RippleSet /\ IsFiniteSet(l.ripples)

\* What each divergence hit is in the ledger, unless there was no graph to tell
\* or it was too much for the ledger.
Heard(l, n, status) ==
    \/ n \in l.blind
    \/ Cardinality(Hit(status)) > MaxOpen
    \/ \A e \in Hit(status) : \E r \in l.ripples : r.event = e
Complete(l) == \A n \in DOMAIN l.divs : Heard(l, n, Propagated(SubSeq(l.divs, 1, n)))

\* What a cache holds is no worse than these divergences account for.
Behind(c, divs) ==
    Cumulative =>
    \A e \in DOMAIN c : /\ c[e].status \in DOMAIN Severity
                        /\ e \in DOMAIN Propagated(divs)
                        /\ Severity[c[e].status] <= Severity[Propagated(divs)[e].status]

\* A ledger of this shape is of the type of TypeOK.
LEMMA LedgerTyped == ASSUME NEW l, LedgerOK(l) PROVE l \in Ledgers
<1>1. Entries \subseteq [fact : STRING, op : {"assert", "retract"}, chapter : 1..MaxChapters]
  BY EntryFact
<1>2. l.divs \in Seq([fact : STRING, op : {"assert", "retract"}, chapter : 1..MaxChapters])
  BY <1>1, SeqMonotonic DEF LedgerOK, DivsOK
<1>3. /\ l = [divs |-> l.divs, ripples |-> l.ripples, blind |-> l.blind]
      /\ l.ripples \subseteq RippleSet /\ l.blind \subseteq Nat \ {0}
  BY DEF LedgerOK
<1> QED
  BY <1>2, <1>3 DEF Ledgers, RippleSet

\* The ripples of a divergence.
LEMMA RipplesTyped ==
    ASSUME WellFormed, NEW divs, DivsOK(divs), NEW k \in 1..Len(divs)
    PROVE  Ripples(divs, k) \subseteq RippleSet
<1> DEFINE now == SubSeq(divs, 1, k)
           status == Propagated(now)
<1>1. divs \in Seq(Entries) /\ Len(divs) \in Nat
  BY LenProperties DEF DivsOK
<1>2. now \in Histories
  BY <1>1, PrefixOK, DivsAreHistories
<1>3. /\ DOMAIN status \subseteq STRING
      /\ status \in [DOMAIN status ->
                        [status : DOMAIN Severity, depth : Nat \ {0}, force : Nat]]
  BY <1>2 DEF WellFormed
<1>5. divs[k].chapter \in Nat /\ k \in Nat \ {0}
  <2>1. divs[k] \in Entries
    BY <1>1, ElementOfSeq
  <2> QED
    BY <2>1, EntryFact, CycleAssumption
<1>6. \A d \in Nat \ {0} : Window(d)[1] \in Nat /\ Window(d)[2] \in Nat
  <2> TAKE d \in Nat \ {0}
  <2>1. (IF d < 3 THEN d ELSE 3) \in 1..3
    OBVIOUS
  <2> QED
    BY <2>1, CycleAssumption DEF Window
<1>7. Urgent(status) \subseteq DOMAIN status
  BY <1>2, UrgentIsHit DEF Hit
<1> HIDE DEF status
<1>8. ASSUME NEW e \in Urgent(status)
      PROVE  [event |-> e, status |-> status[e].status, depth |-> status[e].depth, from |-> k,
              opens |-> divs[k].chapter + Window(status[e].depth)[1],
              closes |-> divs[k].chapter + Window(status[e].depth)[2], paid |-> FALSE]
                \in RippleSet
  <2>1. e \in STRING /\ status[e].status \in DOMAIN Severity /\ status[e].depth \in Nat \ {0}
    BY <1>3, <1>7
  <2>2. Window(status[e].depth)[1] \in Nat /\ Window(status[e].depth)[2] \in Nat
    BY <1>6, <2>1
  <2> QED
    BY <1>5, <2>1, <2>2 DEF RippleSet
<1> QED
  BY <1>8 DEF Ripples, RipplesOf, status

\* The ripples of a divergence are of all it hit, but for the cap.
LEMMA RipplesOfHit ==
    ASSUME WellFormed, NEW divs, DivsOK(divs), NEW k \in 1..Len(divs)
    PROVE  LET status == Propagated(SubSeq(divs, 1, k))
           IN  \/ Cardinality(Hit(status)) > MaxOpen
               \/ \A e \in Hit(status) : \E r \in Ripples(divs, k) : r.event = e
<1> DEFINE now == SubSeq(divs, 1, k)
           status == Propagated(now)
<1>1. divs \in Seq(Entries) /\ Len(divs) \in Nat
  BY LenProperties DEF DivsOK
<1>2. now \in Histories
  BY <1>1, PrefixOK, DivsAreHistories
<1>3. IsFiniteSet(DOMAIN status)
  BY <1>2 DEF WellFormed
<1>4. Cardinality(Hit(status)) \in Nat /\ MaxOpen \in Nat
  <2>1. Hit(status) \subseteq DOMAIN status
    BY DEF Hit
  <2> QED
    BY <1>3, <2>1, FS_Subset, FS_CardinalityType, CycleAssumption
<1>5. SUFFICES ASSUME Cardinality(Hit(status)) <= MaxOpen
               PROVE  \A e \in Hit(status) : \E r \in Ripples(divs, k) : r.event = e
  BY <1>4
<1>6. Urgent(status) = Hit(status)
  BY <1>2, <1>5, UrgentIsHit
<1>7. Ripples(divs, k) = RipplesOf(status, k, divs[k].chapter)
  BY DEF Ripples
<1> HIDE DEF status
<1> SUFFICES ASSUME NEW e \in Hit(status)
             PROVE  \E r \in RipplesOf(status, k, divs[k].chapter) : r.event = e
  BY <1>7
<1> DEFINE ch == divs[k].chapter
           r == [event |-> e, status |-> status[e].status, depth |-> status[e].depth,
                 from |-> k, opens |-> ch + Window(status[e].depth)[1],
                 closes |-> ch + Window(status[e].depth)[2], paid |-> FALSE]
<1>8. r \in RipplesOf(status, k, ch)
  BY <1>6 DEF RipplesOf
<1>9. r.event = e
  OBVIOUS
<1> QED
  BY <1>8, <1>9

\* There are finitely many of them.
LEMMA RipplesFinite ==
    ASSUME WellFormed, NEW divs, DivsOK(divs), NEW k \in 1..Len(divs)
    PROVE  IsFiniteSet(Ripples(divs, k))
<1> DEFINE now == SubSeq(divs, 1, k)
           status == Propagated(now)
           of == [e \in Urgent(status) |->
                    [event |-> e, status |-> status[e].status, depth |-> status[e].depth,
                     from |-> k, opens |-> divs[k].chapter + Window(status[e].depth)[1],
                     closes |-> divs[k].chapter + Window(status[e].depth)[2], paid |-> FALSE]]
<1>1. now \in Histories
  <2>1. divs \in Seq(Entries) /\ Len(divs) \in Nat
    BY LenProperties DEF DivsOK
  <2> QED
    BY <2>1, PrefixOK, DivsAreHistories
<1>2. IsFiniteSet(Urgent(status))
  <2>1. IsFiniteSet(DOMAIN status)
    BY <1>1 DEF WellFormed
  <2>2. Urgent(status) \subseteq DOMAIN status
    BY <1>1, UrgentIsHit DEF Hit
  <2> QED
    BY <2>1, <2>2, FS_Subset
<1>3. Ripples(divs, k) = {of[e] : e \in Urgent(status)}
  BY DEF Ripples, RipplesOf
<1>4. DOMAIN of = Urgent(status)
  OBVIOUS
<1> HIDE DEF of, status
<1> QED
  BY <1>2, <1>3, <1>4, ImageFinite

\* What a history began with, it begins with in any of its extensions.
LEMMA PrefixOfExtension ==
    ASSUME NEW divs, DivsOK(divs), NEW longer, DivsOK(longer), Extends(longer, divs),
           NEW n \in 0..Len(divs)
    PROVE  SubSeq(longer, 1, n) = SubSeq(divs, 1, n)
<1>1. /\ divs \in Seq(Entries) /\ longer \in Seq(Entries) /\ Len(divs) \in Nat
      /\ Len(longer) \in Nat /\ Len(divs) <= Len(longer) /\ n \in Nat /\ n <= Len(divs)
      /\ DOMAIN divs = 1..Len(divs) /\ DOMAIN longer = 1..Len(longer)
  BY LenProperties DEF DivsOK, Extends
<1>2. \A i \in 1..Len(divs) : divs[i] \in Entries /\ longer[i] \in Entries
  BY <1>1, ElementOfSeq
<1>3. \A i \in 1..Len(divs) : divs[i] = longer[i]
  <2> DEFINE sub == SubSeq(longer, 1, Len(divs))
  <2>1. \A i \in 1..(Len(divs) - 1 + 1) : sub[i] = longer[1 + i - 1]
    BY <1>1, <1>2, SubSeqProperties
  <2>2. divs = sub
    BY DEF Extends
  <2> HIDE DEF sub
  <2> QED
    BY <1>1, <2>1, <2>2
<1> DEFINE long == SubSeq(longer, 1, n)
           short == SubSeq(divs, 1, n)
<1>4. /\ long \in Seq(Entries) /\ Len(long) = (IF 1 <= n THEN n - 1 + 1 ELSE 0)
      /\ \A i \in 1..(n - 1 + 1) : long[i] = longer[1 + i - 1]
  BY <1>1, <1>2, SubSeqProperties
<1>5. /\ short \in Seq(Entries) /\ Len(short) = (IF 1 <= n THEN n - 1 + 1 ELSE 0)
      /\ \A i \in 1..(n - 1 + 1) : short[i] = divs[1 + i - 1]
  BY <1>1, <1>2, SubSeqProperties
<1> HIDE DEF long, short
<1>6. /\ Len(long) = n /\ Len(short) = n
      /\ \A i \in 1..n : long[i] = short[i]
  BY <1>1, <1>3, <1>4, <1>5
<1>7. long = short
  BY <1>4, <1>5, <1>6, SeqEqual
<1> QED
  BY <1>7 DEF long, short

\* The divergences of a chapter are entered: the ledger keeps its shape, and what
\* each of them hit is in it, with a graph to tell.
LEMMA EnteredOK ==
    ASSUME WellFormed, NEW l, LedgerOK(l), Complete(l), NEW divs, DivsOK(divs),
           Extends(divs, l.divs), NEW bound \in BOOLEAN
    PROVE  /\ LedgerOK(Entered(l, divs, bound)) /\ Complete(Entered(l, divs, bound))
           /\ Entered(l, divs, bound).divs = divs
           /\ l.ripples \subseteq Entered(l, divs, bound).ripples
<1> DEFINE in == Entered(l, divs, bound)
           new == (Len(l.divs) + 1)..Len(divs)
           more == UNION {Ripples(divs, k) : k \in new}
<1>1. /\ Len(divs) \in Nat /\ Len(l.divs) \in Nat /\ Len(l.divs) <= Len(divs)
      /\ DOMAIN divs = 1..Len(divs) /\ DOMAIN l.divs = 1..Len(l.divs) /\ DivsOK(l.divs)
  BY LenProperties DEF LedgerOK, DivsOK, Extends
<1>2. /\ in.divs = divs
      /\ in.ripples = IF bound THEN l.ripples \cup more ELSE l.ripples
      /\ in.blind = IF bound THEN l.blind ELSE l.blind \cup new
      /\ in = [divs |-> in.divs, ripples |-> in.ripples, blind |-> in.blind]
  BY DEF Entered
<1>3. new \subseteq 1..Len(divs) /\ new \subseteq Nat \ {0}
  BY <1>1
<1>4. \A k \in new : Ripples(divs, k) \subseteq RippleSet /\ IsFiniteSet(Ripples(divs, k))
  BY <1>3, RipplesTyped, RipplesFinite
<1>5. more \subseteq RippleSet /\ IsFiniteSet(more)
  <2> DEFINE f == [k \in new |-> Ripples(divs, k)]
             sets == {f[k] : k \in new}
  <2>1. IsFiniteSet(new)
    <3>1. IsFiniteSet(1..Len(divs))
      BY <1>1, FS_Interval
    <3> QED
      BY <1>3, <3>1, FS_Subset
  <2>2. IsFiniteSet(sets)
    BY <2>1, ImageFinite
  <2>3. sets = {Ripples(divs, k) : k \in new}
    OBVIOUS
  <2> HIDE DEF f, sets, new
  <2>4. \A T \in sets : IsFiniteSet(T) /\ T \subseteq RippleSet
    BY <1>4, <2>3
  <2>5. IsFiniteSet(UNION sets)
    BY <2>2, <2>4, FS_UNION
  <2> QED
    BY <2>3, <2>4, <2>5
<1> HIDE DEF in, more, new
<1>6. LedgerOK(in)
  <2>1. IsFiniteSet(l.ripples \cup more)
    BY <1>5, FS_Union DEF LedgerOK
  <2> QED
    BY <1>2, <1>3, <1>5, <2>1 DEF LedgerOK
<1>7. l.ripples \subseteq in.ripples /\ l.blind \subseteq in.blind
  BY <1>2
<1>8. ASSUME NEW n \in 1..Len(divs)
      PROVE  Heard(in, n, Propagated(SubSeq(divs, 1, n)))
  <2> DEFINE status == Propagated(SubSeq(divs, 1, n))
  <2>1. CASE n \in new /\ bound
    <3>1. Ripples(divs, n) \subseteq in.ripples
      BY <1>2, <2>1 DEF more
    <3>2. \/ Cardinality(Hit(status)) > MaxOpen
          \/ \A e \in Hit(status) : \E r \in Ripples(divs, n) : r.event = e
      BY RipplesOfHit
    <3> HIDE DEF status
    <3>3. Heard(in, n, status)
      BY <3>1, <3>2 DEF Heard
    <3> QED
      BY <3>3 DEF status
  <2>2. CASE n \in new /\ ~bound
    BY <1>2, <2>2 DEF Heard
  <2>3. CASE n \notin new
    <3>1. n \in 1..Len(l.divs) /\ n \in 0..Len(l.divs)
      BY <1>1, <2>3 DEF new
    <3>2. SubSeq(divs, 1, n) = SubSeq(l.divs, 1, n)
      BY <1>1, <3>1, PrefixOfExtension
    <3>3. Heard(l, n, status)
      BY <1>1, <3>1, <3>2 DEF Complete
    <3> HIDE DEF status
    <3>4. Heard(in, n, status)
      BY <1>7, <3>3 DEF Heard
    <3> QED
      BY <3>4 DEF status
  <2> QED
    BY <2>1, <2>2, <2>3
<1>9. Complete(in)
  BY <1>1, <1>2, <1>8 DEF Complete
<1> QED
  BY <1>2, <1>6, <1>7, <1>9 DEF in

\* Paying what a text shows keeps the ledger's shape and what was heard of.
LEMMA SettledOK ==
    ASSUME NEW l, LedgerOK(l), Complete(l), NEW ch, NEW text
    PROVE  /\ LedgerOK(Settled(l, ch, text)) /\ Complete(Settled(l, ch, text))
           /\ Settled(l, ch, text).divs = l.divs
           /\ \A r \in l.ripples : r \notin Due(l, ch) => r \in Settled(l, ch, text).ripples
<1> DEFINE paid == {r \in Due(l, ch) : Shown(r, text)}
           done == [r \in paid |-> [r EXCEPT !.paid = TRUE]]
           new == (l.ripples \ paid) \cup {done[r] : r \in paid}
           out == Settled(l, ch, text)
<1>1. /\ out.divs = l.divs /\ out.ripples = new /\ out.blind = l.blind
      /\ out = [divs |-> out.divs, ripples |-> out.ripples, blind |-> out.blind]
  <2>1. l = [divs |-> l.divs, ripples |-> l.ripples, blind |-> l.blind]
    BY DEF LedgerOK
  <2>2. new = (l.ripples \ paid) \cup {[r EXCEPT !.paid = TRUE] : r \in paid}
    OBVIOUS
  <2>3. out = [l EXCEPT !.ripples = new]
    BY <2>2 DEF Settled
  <2> HIDE DEF new, out
  <2>4. out = [divs |-> l.divs, ripples |-> new, blind |-> l.blind]
    BY <2>1, <2>3
  <2> QED
    BY <2>4
<1>2. paid \subseteq l.ripples /\ paid \subseteq Due(l, ch)
  BY DEF Due
<1>3. DOMAIN done = paid
  OBVIOUS
<1>4. \A r \in paid : done[r] \in RippleSet /\ done[r].event = r.event
  BY <1>2 DEF LedgerOK, RippleSet
<1> HIDE DEF paid, done, out
<1>5. new \subseteq RippleSet
  BY <1>4 DEF LedgerOK
<1>6. IsFiniteSet(new)
  <2>1. IsFiniteSet(l.ripples)
    BY DEF LedgerOK
  <2>2. IsFiniteSet(paid) /\ IsFiniteSet(l.ripples \ paid)
    BY <1>2, <2>1, FS_Subset
  <2>3. IsFiniteSet({done[r] : r \in paid})
    BY <1>3, <2>2, ImageFinite
  <2> QED
    BY <2>2, <2>3, FS_Union
<1>7. \A r \in l.ripples : \E x \in new : x.event = r.event
  <2> TAKE r \in l.ripples
  <2>1. CASE r \in paid
    <3>1. done[r] \in new
      BY <2>1
    <3> QED
      BY <1>4, <2>1, <3>1
  <2>2. CASE r \notin paid
    BY <2>2
  <2> QED
    BY <2>1, <2>2
<1>8. \A r \in l.ripples : r \notin Due(l, ch) => r \in new
  BY <1>2
<1> HIDE DEF new
<1>9. LedgerOK(out)
  BY <1>1, <1>5, <1>6 DEF LedgerOK
<1>10. Complete(out)
  <2> SUFFICES ASSUME NEW n \in DOMAIN l.divs
               PROVE  Heard(out, n, Propagated(SubSeq(l.divs, 1, n)))
    BY <1>1 DEF Complete
  <2> DEFINE status == Propagated(SubSeq(l.divs, 1, n))
  <2>1. Heard(l, n, status)
    BY DEF Complete
  <2> HIDE DEF status
  <2>2. Heard(out, n, status)
    BY <1>1, <1>7, <2>1 DEF Heard
  <2> QED
    BY <2>2 DEF status
<1> QED
  BY <1>1, <1>8, <1>9, <1>10 DEF out

\* The butterfly's part of a chapter keeps the ledger in shape, its history a
\* history that extends the one before, and the consequences complete; and it pays
\* none of the ripples that are overdue.
LEMMA LifecycleOK ==
    ASSUME WellFormed, NEW l, LedgerOK(l), Complete(l), NEW ch \in 1..MaxChapters,
           NEW text \in Texts, NEW bound \in BOOLEAN
    PROVE  /\ LedgerOK(Lifecycle(l, ch, text, bound)) /\ Complete(Lifecycle(l, ch, text, bound))
           /\ Extends(Lifecycle(l, ch, text, bound).divs, l.divs)
           /\ \A c \in Nat : c <= ch =>
                 Overdue(l, c) \subseteq Overdue(Lifecycle(l, ch, text, bound), c)
<1> DEFINE divs == Diverged(l, ch, News(l, ch, text))
           in == Entered(l, divs, bound)
           out == Settled(in, ch, text)
<1>1. DivsOK(divs) /\ Extends(divs, l.divs)
  BY DivergedOK DEF LedgerOK
<1>2. Lifecycle(l, ch, text, bound) = out
  BY DEF Lifecycle
<1> HIDE DEF divs
<1>3. LedgerOK(in) /\ Complete(in) /\ in.divs = divs /\ l.ripples \subseteq in.ripples
  BY <1>1, EnteredOK
<1> HIDE DEF in
<1>4. /\ LedgerOK(out) /\ Complete(out) /\ out.divs = divs
      /\ \A r \in in.ripples : r \notin Due(in, ch) => r \in out.ripples
  BY <1>3, SettledOK
<1> HIDE DEF out
<1>5. ASSUME NEW c \in Nat, c <= ch, NEW r \in Overdue(l, c)
      PROVE  r \in Overdue(out, c)
  <2>1. r \in l.ripples /\ ~r.paid /\ r.closes < c
    BY <1>5 DEF Overdue
  <2>2. r.closes \in Nat
    BY <2>1 DEF LedgerOK, RippleSet
  <2>3. r \notin Due(in, ch)
    <3>1. ch \in Nat
      BY CycleAssumption
    <3> QED
      BY <1>5, <2>1, <2>2, <3>1 DEF Due
  <2> QED
    BY <1>3, <1>4, <2>1, <2>3 DEF Overdue
<1> QED
  BY <1>1, <1>2, <1>4, <1>5

\* A longer history accounts for all that a shorter one accounted for.
LEMMA BehindExtension ==
    ASSUME WellFormed, NEW divs, DivsOK(divs), NEW longer, DivsOK(longer), Extends(longer, divs),
           NEW c, Behind(c, divs)
    PROVE  Behind(c, longer)
<1>0. SUFFICES ASSUME Cumulative PROVE Behind(c, longer)
  BY DEF Behind
<1>1. longer \in Histories /\ divs \in Histories
  BY DivsAreHistories
<1>2. Len(divs) \in 0..Len(longer) /\ divs = SubSeq(longer, 1, Len(divs))
  <2>1. Len(divs) \in Nat /\ Len(longer) \in Nat
    BY LenProperties DEF DivsOK
  <2> QED
    BY <2>1 DEF Extends
<1>3. \A e \in DOMAIN Propagated(divs) :
         /\ e \in DOMAIN Propagated(longer)
         /\ Severity[Propagated(divs)[e].status] <= Severity[Propagated(longer)[e].status]
  BY <1>0, <1>1, <1>2 DEF Cumulative
<1>4. \A s \in DOMAIN Severity : Severity[s] \in Nat
  BY DEF Severity
<1>6. \A h \in Histories : \A e \in DOMAIN Propagated(h) :
         Propagated(h)[e].status \in DOMAIN Severity
  BY DEF WellFormed
<1> SUFFICES ASSUME NEW e \in DOMAIN c
             PROVE  /\ c[e].status \in DOMAIN Severity
                    /\ e \in DOMAIN Propagated(longer)
                    /\ Severity[c[e].status] <= Severity[Propagated(longer)[e].status]
  BY DEF Behind
<1>5. /\ c[e].status \in DOMAIN Severity /\ e \in DOMAIN Propagated(divs)
      /\ Severity[c[e].status] <= Severity[Propagated(divs)[e].status]
  BY <1>0 DEF Behind
<1> QED
  BY <1>1, <1>3, <1>4, <1>5, <1>6

\* The refreshed cache is accounted for by the divergences it comes from.
LEMMA RefreshedBehind ==
    ASSUME WellFormed, NEW divs, DivsOK(divs), NEW c, Behind(c, divs), NEW bound \in BOOLEAN
    PROVE  Behind(Refreshed(c, divs, bound), divs)
<1> DEFINE status == Propagated(divs)
           new == Refreshed(c, divs, bound)
<1>0. SUFFICES ASSUME Cumulative, bound PROVE Behind(new, divs)
  <2>1. CASE ~bound
    BY <2>1 DEF Refreshed
  <2> QED
    BY <2>1 DEF Behind
<1>1. divs \in Histories
  BY DivsAreHistories
<1>2. \A e \in DOMAIN status : status[e].status \in DOMAIN Severity
  BY <1>1 DEF WellFormed
<1>3. \A s \in DOMAIN Severity : Severity[s] \in Nat
  BY DEF Severity
<1>4. DOMAIN new = DOMAIN c \cup DOMAIN status
  BY <1>0 DEF Refreshed
<1>5. DOMAIN c \subseteq DOMAIN status
  BY <1>0 DEF Behind
<1>6. \A e \in DOMAIN status : new[e].status = status[e].status
  BY <1>0 DEF Refreshed
<1> HIDE DEF new
<1>7. Behind(new, divs)
  BY <1>2, <1>3, <1>4, <1>5, <1>6 DEF Behind
<1> QED
  BY <1>7 DEF new

-----------------------------------------------------------------------------
\* The inductive invariant of the ledger and its cache: an engine at work
\* holds a history that extends the one on disk, and what is on disk accounts
\* for the cache beside it.
RunOK ==
    /\ Shape
    /\ run.at \in {"plan", "ledger", "cache", "audit"}
    /\ run.daemon \in BOOLEAN /\ run.forced \in BOOLEAN /\ run.bound \in BOOLEAN
    /\ run.left \in 1..MaxChapters /\ run.ch \in 1..MaxChapters
    /\ run.ch + run.left <= MaxChapters + 1
    /\ run.text \in Texts /\ run.cycles \in 0..MaxRevisions
    /\ LedgerOK(run.led) /\ Complete(run.led)
    /\ Extends(run.led.divs, ledger.divs)
    /\ run.at # "ledger" => run.led = ledger
    /\ Behind(run.cache, run.led.divs)

StoryOK ==
    /\ DOMAIN book \subseteq 1..MaxChapters /\ \A c \in DOMAIN book : book[c] \in Texts
    /\ head \in 0..MaxChapters
    /\ records \cup unrecorded \subseteq DOMAIN book
    /\ ingest \in -1..MaxChapters /\ ingests \in 0..MaxIngests /\ enriched \in BOOLEAN

FilesOK ==
    /\ LedgerOK(ledger) /\ Complete(ledger) /\ torn \subseteq {"ledger", "cache"}
    /\ Behind(cache, ledger.divs)

CycleInv == StoryOK /\ FilesOK /\ (run = NoRun \/ RunOK)

\* Nothing has been written at first.
LEMMA InitCycle == Init => CycleInv
<1> SUFFICES ASSUME Init PROVE CycleInv
  OBVIOUS
<1>1. StoryOK
  <2>1. enriched \in BOOLEAN
    BY DEF Init
  <2> QED
    BY <2>1, CycleAssumption DEF Init, StoryOK, NoIngest
<1>2. /\ ledger = [divs |-> <<>>, ripples |-> {}, blind |-> {}]
      /\ cache = [e \in {} |-> ""] /\ torn = {}
  BY DEF Init
<1>3. DivsOK(<<>>) /\ DOMAIN <<>> = {}
  BY DEF DivsOK, NoTwice
<1>4. LedgerOK(ledger) /\ Complete(ledger)
  BY <1>2, <1>3, FS_EmptySet DEF LedgerOK, Complete
<1>5. Behind(cache, ledger.divs)
  BY <1>2 DEF Behind
<1>6. run = NoRun
  BY DEF Init
<1> QED
  BY <1>1, <1>2, <1>4, <1>5, <1>6 DEF CycleInv, FilesOK

\* An engine starts with what is on disk, at a chapter within the bound.
LEMMA StartCycle ==
    ASSUME CycleInv, NEW d \in BOOLEAN, NEW f \in BOOLEAN, NEW n \in 1..MaxChapters,
           Start(d, f, n)
    PROVE  CycleInv'
<1>1. /\ run' = [at |-> "plan", daemon |-> d, forced |-> f, left |-> n, ch |-> head + 1,
                 text |-> Blank, led |-> ledger, cache |-> cache, cycles |-> 0,
                 bound |-> enriched]
      /\ head + n <= MaxChapters
      /\ UNCHANGED <<story, disk, ingest, ingests, enriched>>
  BY DEF Start
<1>2. Blank \in Texts
  BY CycleAssumption DEF Blank
<1>3. head + 1 \in 1..MaxChapters /\ (head + 1) + n <= MaxChapters + 1
  BY <1>1, CycleAssumption DEF CycleInv, StoryOK
<1>4. Extends(ledger.divs, ledger.divs)
  BY ExtendsItself DEF CycleInv, FilesOK, LedgerOK
<1>5. StoryOK' /\ FilesOK'
  BY <1>1 DEF CycleInv, StoryOK, FilesOK, story, disk, LedgerOK, Complete, Behind
<1>6. Shape'
  BY <1>1, <1>3, CycleAssumption DEF Shape
<1>7. /\ run'.at = "plan" /\ run'.daemon = d /\ run'.forced = f /\ run'.left = n
      /\ run'.ch = head + 1 /\ run'.text = Blank /\ run'.led = ledger /\ run'.cache = cache
      /\ run'.cycles = 0 /\ run'.bound = enriched /\ ledger' = ledger
  BY <1>1 DEF disk
<1>8. RunOK'
  BY <1>2, <1>3, <1>4, <1>6, <1>7, CycleAssumption DEF RunOK, CycleInv, FilesOK, StoryOK
<1> QED
  BY <1>5, <1>8 DEF CycleInv

\* The draft: the ledger and the cache move on, in memory.
LEMMA DraftCycle ==
    ASSUME WellFormed, CycleInv, Draft
    PROVE  CycleInv'
<1>1. RunOK /\ run.at = "plan" /\ UNCHANGED <<story, disk, ingest, ingests, enriched>>
  BY DEF Draft, At, CycleInv, NoRun
<1>0. PICK raw \in Texts : \E t \in Polished(raw) :
        run' = [run EXCEPT !.text = t, !.led = Lifecycle(run.led, run.ch, t, run.bound),
                           !.cycles = 0, !.at = "ledger",
                           !.cache = Refreshed(@, Lifecycle(run.led, run.ch, t, run.bound).divs,
                                               run.bound)]
  BY DEF Draft
<1>2. PICK t \in Polished(raw) :
        run' = [run EXCEPT !.text = t, !.led = Lifecycle(run.led, run.ch, t, run.bound),
                           !.cycles = 0, !.at = "ledger",
                           !.cache = Refreshed(@, Lifecycle(run.led, run.ch, t, run.bound).divs,
                                               run.bound)]
  BY <1>0
<1>3. t \in Texts
  BY DEF Polished
<1> DEFINE l == Lifecycle(run.led, run.ch, t, run.bound)
           c == Refreshed(run.cache, l.divs, run.bound)
<1>4. LedgerOK(l) /\ Complete(l) /\ Extends(l.divs, run.led.divs) /\ run.bound \in BOOLEAN
  BY <1>1, <1>3, LifecycleOK DEF RunOK
<1>5. Behind(c, l.divs)
  <2>1. DivsOK(l.divs) /\ DivsOK(run.led.divs)
    BY <1>1, <1>4 DEF RunOK, LedgerOK
  <2> HIDE DEF l
  <2>2. Behind(run.cache, l.divs)
    BY <1>1, <1>4, <2>1, BehindExtension DEF RunOK
  <2> QED
    BY <1>4, <2>1, <2>2, RefreshedBehind
<1>6. run.led = ledger /\ run.cache = run.cache /\ ledger' = ledger
  BY <1>1 DEF RunOK, disk
<1> HIDE DEF l, c
<1>7. run' = [run EXCEPT !.text = t, !.led = l, !.cycles = 0, !.at = "ledger", !.cache = c]
  BY <1>2 DEF l, c
<1>8. DOMAIN run = {"at", "daemon", "forced", "left", "ch", "text", "led", "cache", "cycles",
                  "bound"}
  BY <1>1 DEF RunOK, Shape
<1>9. /\ run'.at = "ledger" /\ run'.daemon = run.daemon /\ run'.forced = run.forced
      /\ run'.left = run.left /\ run'.ch = run.ch /\ run'.text = t
      /\ run'.led = l /\ run'.cache = c /\ run'.cycles = 0 /\ run'.bound = run.bound
  BY <1>7, <1>8
<1>10. Shape'
  BY <1>1, DraftShape DEF RunOK
<1>11. StoryOK' /\ FilesOK'
  BY <1>1 DEF CycleInv, StoryOK, FilesOK, story, disk, LedgerOK, Complete, Behind
<1>12. RunOK'
  BY <1>1, <1>3, <1>4, <1>5, <1>6, <1>9, <1>10, CycleAssumption DEF RunOK
<1> QED
  BY <1>11, <1>12 DEF CycleInv

\* The ledger is saved: the history on disk moves on under the old cache.
LEMMA SaveLedgerCycle ==
    ASSUME WellFormed, CycleInv, SaveLedger
    PROVE  CycleInv'
<1>1. /\ RunOK /\ run.at = "ledger" /\ ledger' = run.led /\ run' = [run EXCEPT !.at = "cache"]
      /\ UNCHANGED <<story, cache, torn, ingest, ingests, enriched>>
  BY DEF SaveLedger, At, CycleInv, NoRun
<1>2. DOMAIN run = {"at", "daemon", "forced", "left", "ch", "text", "led", "cache", "cycles",
                  "bound"}
  BY <1>1 DEF RunOK, Shape
<1>3. /\ run'.at = "cache" /\ run'.daemon = run.daemon /\ run'.forced = run.forced
      /\ run'.left = run.left /\ run'.ch = run.ch /\ run'.text = run.text
      /\ run'.led = run.led /\ run'.cache = run.cache /\ run'.cycles = run.cycles
      /\ run'.bound = run.bound
  BY <1>1, <1>2
<1>4. Shape'
  BY <1>1, <1>3 DEF RunOK, Shape
<1>5. DivsOK(ledger.divs) /\ DivsOK(run.led.divs)
  BY <1>1 DEF RunOK, CycleInv, FilesOK, LedgerOK
<1>6. Behind(cache, run.led.divs)
  BY <1>1, <1>5, BehindExtension DEF RunOK, CycleInv, FilesOK
<1>7. Extends(run.led.divs, run.led.divs)
  BY <1>5, ExtendsItself
<1>8. StoryOK'
  BY <1>1 DEF CycleInv, StoryOK, story
<1>9. FilesOK'
  BY <1>1, <1>6 DEF CycleInv, FilesOK, RunOK, LedgerOK, Complete, Behind
<1>10. RunOK'
  BY <1>1, <1>3, <1>4, <1>7 DEF RunOK
<1> QED
  BY <1>8, <1>9, <1>10 DEF CycleInv

\* Steps that only move the engine on within its chapter, and what they may
\* leave on disk: the cache as it was or the engine's.
LEMMA EngineCycle ==
    ASSUME CycleInv, run # NoRun, Shape', run.at # "ledger", run'.at \in {"cache", "audit"},
           UNCHANGED <<story, ledger, torn, ingest, ingests, enriched>>,
           cache' = cache \/ cache' = run.cache,
           run'.daemon = run.daemon, run'.forced = run.forced, run'.left = run.left,
           run'.ch = run.ch, run'.text \in Texts, run'.led = run.led, run'.cache = run.cache,
           run'.cycles \in 0..MaxRevisions, run'.bound = run.bound
    PROVE  CycleInv'
<1>1. RunOK /\ run.led = ledger
  BY DEF CycleInv, RunOK
<1>2. StoryOK'
  BY DEF CycleInv, StoryOK, story
<1>3. FilesOK'
  BY <1>1 DEF CycleInv, FilesOK, RunOK, LedgerOK, Complete, Behind
<1>4. RunOK'
  BY <1>1 DEF RunOK
<1> QED
  BY <1>2, <1>3, <1>4 DEF CycleInv

\* The commit: the chapter is in the book, and the daemon goes on.
LEMMA CommitCycle ==
    ASSUME CycleInv, Commit
    PROVE  CycleInv'
<1>1. RunOK /\ run.at = "audit" /\ run' = NextChapter
      /\ UNCHANGED <<disk, ingest, ingests, enriched>>
  BY DEF Commit, Judged, At, CycleInv, NoRun
<1>2. StoryOK'
  <2>1. CASE UNCHANGED story
    BY <1>1, <2>1 DEF CycleInv, StoryOK, story
  <2>2. CASE ~UNCHANGED story
    <3>1. /\ book' = [c \in DOMAIN book \cup {run.ch} |->
                         IF c = run.ch THEN run.text ELSE book[c]]
          /\ head' = IF run.ch > head THEN run.ch ELSE head
          /\ \/ records' = records \cup {run.ch} /\ UNCHANGED unrecorded
             \/ unrecorded' = unrecorded \cup {run.ch} /\ UNCHANGED records
      BY <2>2 DEF Commit
    <3>2. run.ch \in 1..MaxChapters /\ run.text \in Texts /\ MaxChapters \in Nat
      BY <1>1, CycleAssumption DEF RunOK
    <3>3. head' \in 0..MaxChapters
      BY <3>1, <3>2 DEF CycleInv, StoryOK
    <3>4. DOMAIN book' = DOMAIN book \cup {run.ch}
      BY <3>1
    <3>5. DOMAIN book' \subseteq 1..MaxChapters /\ \A c \in DOMAIN book' : book'[c] \in Texts
      BY <3>1, <3>2, <3>4 DEF CycleInv, StoryOK
    <3>6. records' \cup unrecorded' \subseteq DOMAIN book'
      BY <3>1, <3>4 DEF CycleInv, StoryOK
    <3> QED
      BY <1>1, <3>3, <3>5, <3>6 DEF CycleInv, StoryOK
  <2> QED
    BY <2>1, <2>2
<1>3. FilesOK'
  BY <1>1 DEF CycleInv, FilesOK, disk, LedgerOK, Complete, Behind
<1>4. CASE run.left > 1
  <2>1. run' = [run EXCEPT !.at = "plan", !.ch = @ + 1, !.left = @ - 1, !.text = Blank]
    BY <1>1, <1>4 DEF NextChapter
  <2>2. DOMAIN run = {"at", "daemon", "forced", "left", "ch", "text", "led", "cache", "cycles",
                  "bound"}
    BY <1>1 DEF RunOK, Shape
  <2>3. /\ run'.at = "plan" /\ run'.daemon = run.daemon /\ run'.forced = run.forced
        /\ run'.left = run.left - 1 /\ run'.ch = run.ch + 1 /\ run'.text = Blank
        /\ run'.led = run.led /\ run'.cache = run.cache /\ run'.cycles = run.cycles
        /\ run'.bound = run.bound
    BY <2>1, <2>2
  <2>4. Shape'
    BY <1>1, <1>4, NextChapterShape DEF RunOK
  <2>5. Blank \in Texts
    BY CycleAssumption DEF Blank
  <2>6. /\ run.left - 1 \in 1..MaxChapters /\ run.ch + 1 \in 1..MaxChapters
        /\ (run.ch + 1) + (run.left - 1) <= MaxChapters + 1
    <3>1. /\ MaxChapters \in Nat /\ run.left \in 1..MaxChapters /\ run.ch \in 1..MaxChapters
          /\ run.ch + run.left <= MaxChapters + 1
      BY <1>1, CycleAssumption DEF RunOK
    <3> QED
      BY <1>4, <3>1
  <2>7. ledger' = ledger /\ run.led = ledger
    BY <1>1 DEF disk, RunOK
  <2>8. RunOK'
    BY <1>1, <2>3, <2>4, <2>5, <2>6, <2>7 DEF RunOK
  <2> QED
    BY <1>2, <1>3, <2>8 DEF CycleInv
<1>5. CASE ~(run.left > 1)
  BY <1>1, <1>2, <1>3, <1>5 DEF NextChapter, CycleInv
<1> QED
  BY <1>4, <1>5

\* Every step of the engine, the disk and the ingest.
LEMMA NextCycle == ASSUME WellFormed PROVE CycleInv /\ [Next]_vars => CycleInv'
<1> SUFFICES ASSUME CycleInv, [Next]_vars PROVE CycleInv'
  OBVIOUS
<1>1. ASSUME NEW f \in BOOLEAN, Start(FALSE, f, 1) PROVE CycleInv'
  <2>1. 1 \in 1..MaxChapters
    BY <1>1, CycleAssumption DEF Start, CycleInv, StoryOK
  <2> QED
    BY <1>1, <2>1, StartCycle
<1>2. ASSUME NEW n \in 1..MaxChapters, Start(TRUE, FALSE, n) PROVE CycleInv'
  BY <1>2, StartCycle
<1>3. CASE Draft
  BY <1>3, DraftCycle
<1>4. CASE SaveLedger
  BY <1>4, SaveLedgerCycle
<1>5. CASE SaveCache
  <2>1. /\ run.at = "cache" /\ cache' = run.cache /\ run' = [run EXCEPT !.at = "audit"]
        /\ UNCHANGED <<story, ledger, torn, ingest, ingests, enriched>> /\ run # NoRun /\ RunOK
    BY <1>5 DEF SaveCache, At, NoRun, CycleInv
  <2>2. DOMAIN run = {"at", "daemon", "forced", "left", "ch", "text", "led", "cache", "cycles",
                  "bound"}
    BY <2>1 DEF RunOK, Shape
  <2>3. /\ run'.at = "audit" /\ run'.daemon = run.daemon /\ run'.forced = run.forced
        /\ run'.left = run.left /\ run'.ch = run.ch /\ run'.text = run.text
        /\ run'.led = run.led /\ run'.cache = run.cache /\ run'.cycles = run.cycles
        /\ run'.bound = run.bound
    BY <2>1, <2>2
  <2>4. Shape' /\ run.text \in Texts /\ run.cycles \in 0..MaxRevisions
    BY <2>1, <2>3 DEF RunOK, Shape
  <2> QED
    BY <2>1, <2>3, <2>4, EngineCycle
<1>6. CASE Revise
  <2>1. /\ run.at = "audit" /\ run.cycles < MaxRevisions /\ run # NoRun /\ RunOK
        /\ UNCHANGED <<story, ledger, cache, torn, ingest, ingests, enriched>>
    BY <1>6 DEF Revise, At, NoRun, CycleInv, disk
  <2>2. PICK t \in Texts : run' = [run EXCEPT !.text = t, !.cycles = @ + 1]
    BY <1>6 DEF Revise
  <2>3. DOMAIN run = {"at", "daemon", "forced", "left", "ch", "text", "led", "cache", "cycles",
                  "bound"}
    BY <2>1 DEF RunOK, Shape
  <2>4. /\ run'.at = run.at /\ run'.daemon = run.daemon /\ run'.forced = run.forced
        /\ run'.left = run.left /\ run'.ch = run.ch /\ run'.text = t
        /\ run'.led = run.led /\ run'.cache = run.cache /\ run'.cycles = run.cycles + 1
        /\ run'.bound = run.bound
    BY <2>2, <2>3
  <2>5. run.cycles + 1 \in 0..MaxRevisions
    <3>1. run.cycles \in 0..MaxRevisions
      BY <2>1 DEF RunOK
    <3>2. MaxRevisions \in Nat
      BY CycleAssumption
    <3> QED
      BY <2>1, <3>1, <3>2
  <2>6. Shape'
    BY <2>1, <2>2, <2>4 DEF RunOK, Shape
  <2> QED
    BY <2>1, <2>4, <2>5, <2>6, EngineCycle
<1>7. CASE Commit
  BY <1>7, CommitCycle
<1>8. CASE Blocked \/ Stop \/ Tear
  <2>1. /\ run' = NoRun /\ UNCHANGED <<story, ledger, cache, ingest, ingests, enriched>>
        /\ torn' \subseteq {"ledger", "cache"}
    BY <1>8 DEF Blocked, Stop, Tear, At, disk, CycleInv, FilesOK
  <2> QED
    BY <2>1 DEF CycleInv, StoryOK, FilesOK, story, LedgerOK, Complete, Behind
<1>9. CASE IngestStart \/ IngestEnd
  <2>1. UNCHANGED <<book, records, unrecorded, disk, run, enriched>>
    BY <1>9 DEF IngestStart, IngestEnd, story
  <2>2. /\ head' \in 0..MaxChapters /\ ingest' \in -1..MaxChapters
        /\ ingests' \in 0..MaxIngests
    <3>1. /\ head \in 0..MaxChapters /\ ingest \in -1..MaxChapters
          /\ ingests \in 0..MaxIngests /\ MaxIngests \in Nat /\ MaxChapters \in Nat
      BY CycleAssumption DEF CycleInv, StoryOK
    <3>2. CASE IngestStart
      BY <3>1, <3>2 DEF IngestStart, story
    <3>3. CASE IngestEnd
      BY <3>1, <3>3 DEF IngestEnd, NoIngest
    <3> QED
      BY <1>9, <3>2, <3>3
  <2>3. StoryOK' /\ FilesOK'
    BY <2>1, <2>2 DEF CycleInv, StoryOK, FilesOK, disk, LedgerOK, Complete, Behind
  <2>4. run' = NoRun \/ RunOK'
    BY <2>1 DEF CycleInv, RunOK, Shape, disk
  <2> QED
    BY <2>3, <2>4 DEF CycleInv
<1>10. CASE UNCHANGED vars
  <2>1. StoryOK' /\ FilesOK'
    BY <1>10 DEF vars, CycleInv, StoryOK, FilesOK, LedgerOK, Complete, Behind
  <2>2. run' = NoRun \/ RunOK'
    BY <1>10 DEF vars, CycleInv, RunOK, Shape
  <2> QED
    BY <2>1, <2>2 DEF CycleInv
<1>11. CASE Enrich
  <2>1. StoryOK' /\ FilesOK'
    BY <1>11 DEF Enrich, CycleInv, StoryOK, FilesOK, story, disk, LedgerOK, Complete, Behind
  <2>2. run' = NoRun \/ RunOK'
    BY <1>11 DEF Enrich, CycleInv, RunOK, Shape, disk
  <2> QED
    BY <2>1, <2>2 DEF CycleInv
<1> QED
  BY <1>1, <1>2, <1>3, <1>4, <1>5, <1>6, <1>7, <1>8, <1>9, <1>10, <1>11
     DEF Next, Work, WriteNext, Batch

\* In every reachable state.
LEMMA CycleInvariant == ASSUME WellFormed PROVE Spec => []CycleInv
BY InitCycle, NextCycle, PTL DEF Spec

-----------------------------------------------------------------------------
\* The propagation.  Its forces only shrink.
LEMMA PercentBounds ==
    ASSUME NEW f \in Nat, NEW p \in 0..100
    PROVE  Percent(f, p) \in Nat /\ Percent(f, p) <= f
<1>1. f * p \in Nat /\ f * p <= f * 100
  OBVIOUS
<1> QED
  BY <1>1 DEF Percent

\* Rounding down, by what it leaves.
LEMMA Hundredth ==
    ASSUME NEW a \in Nat
    PROVE  /\ a \div 100 \in Nat /\ 100 * (a \div 100) <= a
           /\ a < 100 * (a \div 100) + 100
OBVIOUS

\* What an event takes of a force: 65 percent, as all events are local.
LEMMA ResistedIs ==
    ASSUME NEW e, NEW f \in Nat
    PROVE  /\ Resisted(e, f) = (f * 65) \div 100 /\ Resisted(e, f) \in Nat
           /\ 100 * Resisted(e, f) <= f * 65 /\ f * 65 < 100 * Resisted(e, f) + 100
<1>1. Inertia[Scope(e)] = 35
  BY DEF Inertia, Scope
<1>2. Resisted(e, f) = (f * 65) \div 100
  BY <1>1 DEF Resisted, Percent
<1>3. f * 65 \in Nat
  OBVIOUS
<1> QED
  BY <1>2, <1>3, Hundredth

LinkType == [cause : STRING, effect : STRING, necessity : DOMAIN Transmit, confidence : 0..100]

\* A link passes on at most 75 percent.
LEMMA PassedBounds ==
    ASSUME NEW l \in LinkType, NEW f \in Nat
    PROVE  Passed(l, f) \in Nat /\ 100 * Passed(l, f) <= f * 75
<1> DEFINE a == Percent(f, l.confidence)
           b == Percent(a, Transmit[l.necessity])
<1>1. l.confidence \in 0..100 /\ l.necessity \in DOMAIN Transmit
  BY DEF LinkType
<1>2. Transmit[l.necessity] \in 0..100
  BY <1>1 DEF Transmit
<1>3. a \in Nat /\ a <= f
  BY <1>1, PercentBounds
<1> HIDE DEF a
<1>4. b \in Nat /\ b <= a
  BY <1>2, <1>3, PercentBounds
<1>5. Passed(l, f) = (b * 75) \div 100
  BY DEF Passed, Percent, Damping, a, b
<1> HIDE DEF b
<1>6. b * 75 \in Nat
  BY <1>4
<1> QED
  BY <1>3, <1>4, <1>5, <1>6, Hundredth

\* At a moderate intensity.
LEMMA IntensityTyped == Intensity \in Nat
<1>1. Intensity \in 0..10000
  BY ButterflyAssumption
<1> QED
  BY <1>1

\* Nothing exceeds what reaches the first events.
LEMMA CalmForce ==
    ASSUME Calm, NEW e, NEW f \in Nat, f <= Intensity
    PROVE  Resisted(e, f) \in Nat /\ Resisted(e, f) < 5000
<1>1. Intensity \in Nat
  BY IntensityTyped
<1>2. (Intensity * 65) \div 100 < 5000
  BY <1>1 DEF Calm, Percent, Inertia
<1>3. Intensity * 65 < 500000
  <2>1. Intensity * 65 \in Nat
    BY <1>1
  <2> QED
    BY <1>2, <2>1, Hundredth
<1>4. Resisted(e, f) \in Nat /\ 100 * Resisted(e, f) <= f * 65
  BY ResistedIs
<1> QED
  BY <1>1, <1>3, <1>4

\* What those pass on.
LEMMA CalmPassed ==
    ASSUME NEW l \in LinkType, NEW f \in Nat, f < 5000
    PROVE  Passed(l, f) \in Nat /\ Passed(l, f) < 3750
<1> DEFINE p == Passed(l, f)
<1>1. p \in Nat /\ 100 * p <= f * 75
  BY PassedBounds
<1> HIDE DEF p
<1>2. p \in Nat /\ p < 3750
  BY <1>1
<1> QED
  BY <1>2 DEF p

\* Two links further on nothing is felt.
LEMMA CalmFades ==
    ASSUME NEW e, NEW x, NEW l \in LinkType, NEW f \in Nat, f < 3750
    PROVE  /\ Resisted(e, f) \in Nat /\ Resisted(e, f) < 5000
           /\ Resisted(x, Passed(l, Resisted(e, f))) < Threshold
<1> DEFINE r == Resisted(e, f)
           p == Passed(l, r)
           q == Resisted(x, p)
<1>1. r \in Nat /\ 100 * r <= f * 65
  BY ResistedIs
<1> HIDE DEF r
<1>2. r \in 0..2436
  BY <1>1
<1>3. p \in Nat /\ 100 * p <= r * 75
  BY <1>2, PassedBounds
<1> HIDE DEF p
<1>4. p \in 0..1827
  BY <1>2, <1>3
<1>5. q \in Nat /\ 100 * q <= p * 65
  BY <1>4, ResistedIs
<1> HIDE DEF q
<1>6. q \in 0..1187
  BY <1>4, <1>5
<1>7. r \in Nat /\ r < 5000 /\ q < Threshold
  BY <1>2, <1>6 DEF Threshold
<1> QED
  BY <1>7 DEF p, q, r

-----------------------------------------------------------------------------
\* The graph.
LEMMA LinksTyped ==
    /\ Links \in Seq(LinkType) /\ Len(Links) \in Nat /\ DOMAIN Links = 1..Len(Links)
    /\ \A i \in DOMAIN Links : Links[i] \in LinkType
    /\ Range(Links) \subseteq LinkType
<1>1. Links \in Seq(LinkType)
  BY ButterflyAssumption DEF LinkType
<1>2. Len(Links) \in Nat /\ DOMAIN Links = 1..Len(Links)
  BY <1>1, LenProperties
<1>3. \A i \in DOMAIN Links : Links[i] \in LinkType
  BY <1>1, <1>2, ElementOfSeq
<1> QED
  BY <1>1, <1>2, <1>3 DEF Range

\* The events are named, and finitely many.
LEMMA KnownTyped ==
    /\ Known \subseteq STRING /\ IsFiniteSet(Known)
    /\ \A l \in Range(Links) : l.cause \in Known /\ l.effect \in Known
<1> DEFINE f == [i \in DOMAIN Links |-> {Links[i].cause, Links[i].effect}]
<1>1. Known = UNION {f[i] : i \in DOMAIN Links}
  BY DEF Known
<1>2. IsFiniteSet(DOMAIN Links)
  BY LinksTyped, FS_Interval
<1>3. IsFiniteSet({f[i] : i \in DOMAIN Links})
  <2>1. DOMAIN f = DOMAIN Links
    OBVIOUS
  <2> HIDE DEF f
  <2> QED
    BY <1>2, <2>1, ImageFinite
<1>4. \A i \in DOMAIN Links : IsFiniteSet(f[i])
  <2> TAKE i \in DOMAIN Links
  <2>1. IsFiniteSet({Links[i].cause} \cup {Links[i].effect})
    BY FS_Singleton, FS_Union
  <2>2. f[i] = {Links[i].cause} \cup {Links[i].effect}
    OBVIOUS
  <2> QED
    BY <2>1, <2>2
<1>5. IsFiniteSet(Known)
  <2> HIDE DEF f
  <2> QED
    BY <1>1, <1>3, <1>4, FS_UNION
<1>6. Known \subseteq STRING
  BY LinksTyped DEF Known, LinkType
<1>7. \A l \in Range(Links) : l.cause \in Known /\ l.effect \in Known
  BY DEF Range, Known
<1> QED
  BY <1>5, <1>6, <1>7

\* What is kept of a list is no longer than the list.
LEMMA KeptBounds ==
    ASSUME NEW S, NEW seq \in Seq(S), NEW keep
    PROVE  /\ Kept(seq, keep) \in Seq(S) /\ Len(Kept(seq, keep)) \in Nat
           /\ DOMAIN Kept(seq, keep) = 1..Len(Kept(seq, keep))
           /\ Len(Kept(seq, keep)) <= Len(seq)
           /\ \A i \in DOMAIN Kept(seq, keep) :
                 Kept(seq, keep)[i] \in keep /\ Kept(seq, keep)[i] \in Range(seq)
<1> DEFINE out == Kept(seq, keep)
<1>1. Selection(S, seq, keep, out, Len(seq))
  BY KeptCorrect
<1> HIDE DEF out
<1>2. out \in Seq(S) /\ Len(out) \in Nat /\ DOMAIN out = 1..Len(out) /\ Len(seq) \in Nat
      /\ DOMAIN seq = 1..Len(seq)
  BY <1>1, LenProperties DEF Selection
<1>3. PICK at \in [1..Len(out) -> 1..Len(seq)] :
        /\ \A i \in 1..Len(out) : out[i] = seq[at[i]] /\ seq[at[i]] \in keep
        /\ \A i, j \in 1..Len(out) : i < j => at[i] < at[j]
  BY <1>1 DEF Selection
<1>4. at \in Injection(1..Len(out), 1..Len(seq))
  <2>1. \A i, j \in 1..Len(out) : at[i] = at[j] => i = j
    BY <1>2, <1>3
  <2> QED
    BY <1>3, <2>1 DEF Injection, IsInjective
<1>5. Len(out) <= Len(seq)
  <2>1. \A n \in Nat : IsFiniteSet(1..n) /\ Cardinality(1..n) = n
    BY FS_Interval
  <2>2. /\ IsFiniteSet(1..Len(seq)) /\ Cardinality(1..Len(seq)) = Len(seq)
        /\ Cardinality(1..Len(out)) = Len(out)
    BY <1>2, <2>1
  <2>3. Cardinality(1..Len(out)) <= Cardinality(1..Len(seq))
    BY <1>4, <2>2, FS_Injection
  <2> QED
    BY <2>2, <2>3
<1>6. \A i \in DOMAIN out : out[i] \in keep /\ out[i] \in Range(seq)
  BY <1>2, <1>3 DEF Range
<1> QED
  BY <1>2, <1>5, <1>6 DEF out

\* A function from 1..n is a list of length n.
LEMMA IsList ==
    ASSUME NEW S, NEW n \in Nat, NEW f \in [1..n -> S]
    PROVE  f \in Seq(S) /\ Len(f) = n /\ DOMAIN f = 1..n
BY SeqDef, LenProperties

\* The members of a list, taken apart and put together.
LEMMA RangeOfConcat ==
    ASSUME NEW S, NEW s \in Seq(S), NEW t \in Seq(S)
    PROVE  s \o t \in Seq(S) /\ Range(s \o t) = Range(s) \cup Range(t)
<1>1. /\ Len(s) \in Nat /\ Len(t) \in Nat
      /\ DOMAIN s = 1..Len(s) /\ DOMAIN t = 1..Len(t)
  BY LenProperties
<1>2. /\ s \o t \in Seq(S) /\ Len(s \o t) = Len(s) + Len(t)
      /\ \A i \in 1..(Len(s) + Len(t)) :
            (s \o t)[i] = IF i <= Len(s) THEN s[i] ELSE t[i - Len(s)]
  BY ConcatProperties
<1>3. DOMAIN (s \o t) = 1..(Len(s) + Len(t))
  BY <1>2, LenProperties
<1> DEFINE st == s \o t
<1> HIDE DEF st
<1>4. /\ DOMAIN st = 1..(Len(s) + Len(t))
      /\ \A i \in 1..(Len(s) + Len(t)) : st[i] = IF i <= Len(s) THEN s[i] ELSE t[i - Len(s)]
  BY <1>2, <1>3 DEF st
<1>5. Range(st) \subseteq Range(s) \cup Range(t)
  <2> SUFFICES ASSUME NEW i \in DOMAIN st PROVE st[i] \in Range(s) \cup Range(t)
    BY DEF Range
  <2>1. CASE i <= Len(s)
    <3>1. i \in DOMAIN s /\ st[i] = s[i]
      BY <1>1, <1>4, <2>1
    <3> QED
      BY <3>1 DEF Range
  <2>2. CASE ~(i <= Len(s))
    <3>1. i - Len(s) \in DOMAIN t /\ st[i] = t[i - Len(s)]
      BY <1>1, <1>4, <2>2
    <3> QED
      BY <3>1 DEF Range
  <2> QED
    BY <2>1, <2>2
<1>6. Range(s) \subseteq Range(st)
  <2> SUFFICES ASSUME NEW i \in DOMAIN s PROVE s[i] \in Range(st)
    BY DEF Range
  <2>1. i \in DOMAIN st /\ st[i] = s[i]
    BY <1>1, <1>4
  <2> QED
    BY <2>1 DEF Range
<1>7. Range(t) \subseteq Range(st)
  <2> SUFFICES ASSUME NEW i \in DOMAIN t PROVE t[i] \in Range(st)
    BY DEF Range
  <2>1. Len(s) + i \in DOMAIN st /\ st[Len(s) + i] = t[(Len(s) + i) - Len(s)]
    BY <1>1, <1>4
  <2>2. (Len(s) + i) - Len(s) = i
    BY <1>1
  <2> QED
    BY <2>1, <2>2 DEF Range
<1> QED
  BY <1>2, <1>5, <1>6, <1>7 DEF st

\* The head and the rest of a list.
LEMMA RangeOfTail ==
    ASSUME NEW S, NEW s \in Seq(S), s # <<>>
    PROVE  /\ Head(s) \in S /\ Tail(s) \in Seq(S)
           /\ Range(s) = {Head(s)} \cup Range(Tail(s))
<1>1. /\ Head(s) \in S /\ Tail(s) \in Seq(S) /\ Len(Tail(s)) = Len(s) - 1
      /\ \A i \in 1..Len(Tail(s)) : Tail(s)[i] = s[i + 1]
  BY HeadTailProperties
<1>2. Len(s) \in Nat \ {0} /\ DOMAIN s = 1..Len(s) /\ Head(s) = s[1]
  BY EmptySeq, LenProperties
<1>3. DOMAIN Tail(s) = 1..Len(Tail(s))
  BY <1>1, LenProperties
<1> DEFINE t == Tail(s)
<1> HIDE DEF t
<1>4. DOMAIN t = 1..(Len(s) - 1) /\ \A i \in 1..(Len(s) - 1) : t[i] = s[i + 1]
  BY <1>1, <1>3 DEF t
<1>5. Range(s) \subseteq {s[1]} \cup Range(t)
  <2> SUFFICES ASSUME NEW i \in DOMAIN s, i # 1 PROVE s[i] \in Range(t)
    BY DEF Range
  <2>1. i - 1 \in DOMAIN t /\ t[i - 1] = s[(i - 1) + 1] /\ (i - 1) + 1 = i
    BY <1>2, <1>4
  <2> QED
    BY <2>1 DEF Range
<1>6. Range(t) \subseteq Range(s)
  <2> SUFFICES ASSUME NEW i \in DOMAIN t PROVE t[i] \in Range(s)
    BY DEF Range
  <2>1. i + 1 \in DOMAIN s /\ t[i] = s[i + 1]
    BY <1>2, <1>4
  <2> QED
    BY <2>1 DEF Range
<1>7. s[1] \in Range(s)
  BY <1>2 DEF Range
<1> QED
  BY <1>1, <1>2, <1>5, <1>6, <1>7 DEF t

\* Joined, as Kept above: the results of its loop, and what it returns.
Glued(seqs, g, k) == g = [n \in 0..k |-> IF n = 0 THEN <<>> ELSE g[n - 1] \o seqs[n]]

\* The loop of Joined has its results, for every number of its rounds.
LEMMA GluedExists ==
    ASSUME NEW seqs, NEW k \in Nat
    PROVE  \E g : Glued(seqs, g, k)
<1> DEFINE Good == {n \in Nat : \E g : Glued(seqs, g, n)}
<1>1. 0 \in Good
  <2>1. Glued(seqs, [n \in 0..0 |-> <<>>], 0)
    BY DEF Glued
  <2> QED
    BY <2>1
<1>2. ASSUME NEW n \in Nat, n \in Good PROVE n + 1 \in Good
  <2>1. PICK g : Glued(seqs, g, n)
    BY <1>2
  <2> DEFINE last == g[n] \o seqs[n + 1]
             h == [i \in 0..(n + 1) |-> IF i = n + 1 THEN last ELSE g[i]]
             body == [i \in 0..(n + 1) |-> IF i = 0 THEN <<>> ELSE h[i - 1] \o seqs[i]]
  <2>2. ASSUME NEW i \in 0..(n + 1) PROVE h[i] = body[i]
    <3>1. CASE i = 0
      BY <2>1, <3>1 DEF Glued
    <3>2. CASE i = n + 1
      <4>1. i - 1 = n /\ i # 0
        BY <3>2
      <4>2. h[i - 1] = g[n]
        BY <4>1
      <4>3. h[i] = g[n] \o seqs[i]
        BY <3>2
      <4>4. body[i] = h[i - 1] \o seqs[i]
        <5> HIDE DEF h
        <5> QED
          BY <4>1
      <4> HIDE DEF h, body
      <4> QED
        BY <4>2, <4>3, <4>4
    <3>3. CASE i # 0 /\ i # n + 1
      <4>1. i \in 0..n /\ i - 1 \in 0..n /\ h[i - 1] = g[i - 1] /\ h[i] = g[i]
        BY <3>3
      <4>2. g[i] = g[i - 1] \o seqs[i]
        BY <2>1, <3>3, <4>1 DEF Glued
      <4> QED
        BY <3>3, <4>1, <4>2
    <3> QED
      BY <3>1, <3>2, <3>3
  <2>3. h = body
    <3> HIDE DEF last
    <3> QED
      BY <2>2
  <2>4. Glued(seqs, h, n + 1)
    BY <2>3 DEF Glued
  <2> QED
    BY <2>4
<1> HIDE DEF Good
<1>3. k \in Good
  BY <1>1, <1>2, Induction
<1> QED
  BY <1>3 DEF Good

\* Joined holds the members of all the lists.
LEMMA JoinedCorrect ==
    ASSUME NEW S, NEW seqs \in Seq(Seq(S))
    PROVE  /\ Joined(seqs) \in Seq(S)
           /\ Range(Joined(seqs)) = UNION {Range(seqs[i]) : i \in DOMAIN seqs}
<1>1. Len(seqs) \in Nat /\ DOMAIN seqs = 1..Len(seqs)
      /\ \A i \in 1..Len(seqs) : seqs[i] \in Seq(S)
  BY LenProperties, ElementOfSeq
<1> DEFINE f == CHOOSE g : Glued(seqs, g, Len(seqs))
<1>2. Glued(seqs, f, Len(seqs))
  <2>1. \E g : Glued(seqs, g, Len(seqs))
    BY <1>1, GluedExists
  <2> QED
    BY <2>1
<1>3. Joined(seqs) = f[Len(seqs)]
  BY DEF Joined, Glued
<1> HIDE DEF f
<1> DEFINE Upto(n) == UNION {Range(seqs[i]) : i \in 1..n}
           Good == {n \in Nat : n <= Len(seqs) => f[n] \in Seq(S) /\ Range(f[n]) = Upto(n)}
<1>4. 0 \in Good
  <2>1. f[0] = <<>>
    BY <1>1, <1>2 DEF Glued
  <2>2. <<>> \in Seq(S) /\ Range(<<>>) = {} /\ Upto(0) = {}
    BY DEF Range
  <2> QED
    BY <2>1, <2>2
<1>5. ASSUME NEW n \in Nat, n \in Good PROVE n + 1 \in Good
  <2> SUFFICES ASSUME n + 1 <= Len(seqs)
               PROVE  f[n + 1] \in Seq(S) /\ Range(f[n + 1]) = Upto(n + 1)
    OBVIOUS
  <2>1. f[n] \in Seq(S) /\ Range(f[n]) = Upto(n)
    BY <1>1, <1>5
  <2>2. f[n + 1] = f[n] \o seqs[n + 1]
    <3>1. n + 1 \in 0..Len(seqs) /\ (n + 1) - 1 = n /\ n + 1 # 0
      BY <1>1
    <3> QED
      BY <1>2, <3>1 DEF Glued
  <2>3. f[n + 1] \in Seq(S) /\ Range(f[n + 1]) = Range(f[n]) \cup Range(seqs[n + 1])
    BY <1>1, <2>1, <2>2, RangeOfConcat
  <2>4. Upto(n + 1) = Upto(n) \cup Range(seqs[n + 1])
    <3>1. 1..(n + 1) = (1..n) \cup {n + 1}
      OBVIOUS
    <3> QED
      BY <3>1
  <2> QED
    BY <2>1, <2>3, <2>4
<1> HIDE DEF Good
<1>6. Len(seqs) \in Good
  BY <1>1, <1>4, <1>5, Induction
<1> QED
  BY <1>1, <1>3, <1>6 DEF Good

-----------------------------------------------------------------------------
\* Loops.  The equation of a loop has a solution, whether the loop ends or not:
\* the result of where it leads.
Loop(g, Dom, Done, out, next) ==
    g = [x \in Dom |-> IF x \in Done THEN out[x] ELSE g[next[x]]]

\* Such a function is there, for every successor within the domain.
LEMMA LoopExists ==
    ASSUME NEW Dom, NEW Done, NEW out, NEW next, \A x \in Dom \ Done : next[x] \in Dom
    PROVE  \E g : Loop(g, Dom, Done, out, next)
<1> DEFINE Closed == {S \in SUBSET Dom : \A z \in S \ Done : next[z] \in S}
           Leads(x) == {y \in Dom \cap Done : \A S \in Closed : x \in S => y \in S}
           h == [x \in Dom |-> out[CHOOSE y : y \in Leads(x)]]
<1>1. ASSUME NEW x \in Dom, x \in Done PROVE h[x] = out[x]
  <2>1. {x} \in Closed
    BY <1>1
  <2>2. Leads(x) = {x}
    BY <1>1, <2>1
  <2> HIDE DEF Leads
  <2> QED
    BY <2>2
<1>2. ASSUME NEW x \in Dom, x \notin Done PROVE h[x] = h[next[x]]
  <2>1. next[x] \in Dom
    BY <1>2
  <2>2. Leads(next[x]) \subseteq Leads(x)
    BY <1>2
  <2>3. ASSUME NEW y \in Leads(x) PROVE y \in Leads(next[x])
    <3> SUFFICES ASSUME NEW S \in Closed, next[x] \in S PROVE y \in S
      BY <2>3
    <3>1. S \cup {x} \in Closed
      BY <1>2
    <3>2. y \in S \cup {x} /\ y # x
      BY <1>2, <2>3, <3>1
    <3> QED
      BY <3>2
  <2>4. Leads(x) = Leads(next[x])
    BY <2>2, <2>3
  <2> HIDE DEF Leads
  <2> QED
    BY <2>1, <2>4
<1> HIDE DEF h
<1>3. DOMAIN h = Dom /\ h = [x \in Dom |-> h[x]]
  BY DEF h
<1>4. Loop(h, Dom, Done, out, next)
  BY <1>1, <1>2, <1>3 DEF Loop
<1> QED
  BY <1>4

\* A loop with a measure that each round lowers ends, where its invariant holds.
LEMMA LoopEnds ==
    ASSUME NEW Dom, NEW Done, NEW out, NEW next, NEW m, NEW Inv \in SUBSET Dom, NEW g,
           Loop(g, Dom, Done, out, next),
           \A x \in Inv : m[x] \in Nat,
           \A x \in Inv \ Done : next[x] \in Inv /\ m[next[x]] < m[x],
           NEW start \in Inv
    PROVE  \E y \in Inv \cap Done : g[start] = out[y]
<1> DEFINE Ends(x) == \E y \in Inv \cap Done : g[x] = out[y]
           Good == {n \in Nat : \A x \in Inv : m[x] < n => Ends(x)}
<1>1. 0 \in Good
  OBVIOUS
<1>2. ASSUME NEW n \in Nat, n \in Good PROVE n + 1 \in Good
  <2> SUFFICES ASSUME NEW x \in Inv, m[x] < n + 1 PROVE Ends(x)
    OBVIOUS
  <2>1. CASE x \in Done
    BY <2>1 DEF Loop
  <2>2. CASE x \notin Done
    <3>1. /\ next[x] \in Inv /\ m[next[x]] < m[x] /\ m[next[x]] \in Nat /\ m[x] \in Nat
          /\ g[x] = g[next[x]]
      BY <2>2 DEF Loop
    <3>2. m[next[x]] < n
      BY <3>1
    <3>3. Ends(next[x])
      BY <1>2, <3>1, <3>2
    <3> QED
      BY <3>1, <3>3
  <2> QED
    BY <2>1, <2>2
<1> HIDE DEF Good
<1>3. m[start] + 1 \in Good
  <2>1. m[start] + 1 \in Nat
    OBVIOUS
  <2> QED
    BY <1>1, <1>2, <2>1, Induction
<1> QED
  BY <1>3 DEF Good

-----------------------------------------------------------------------------
\* What the queue holds and what a round does to it.
LEMMA OnwardTyped ==
    ASSUME NEW item, item.depth \in Nat, NEW force \in Nat
    PROVE  /\ Onward(item, force) \in Seq(Items) /\ Len(Onward(item, force)) <= Len(Links)
           /\ \A x \in Range(Onward(item, force)) :
                 /\ x \in Items /\ x.depth = item.depth + 1
                 /\ \E l \in LinkType : x.force = Passed(l, force)
<1> DEFINE out == OutEdges(item.event)
           ls == Kept(out, {l \in Range(Links) : Transmit[l.necessity] # 0})
           on == [i \in DOMAIN ls |-> Item(ls[i].effect, item.depth + 1, Passed(ls[i], force))]
<1>1. out \in Seq(LinkType) /\ Len(out) <= Len(Links) /\ Len(out) \in Nat
  BY LinksTyped, KeptBounds DEF OutEdges
<1> HIDE DEF out
<1>2. /\ Len(ls) <= Len(out) /\ Len(ls) \in Nat /\ DOMAIN ls = 1..Len(ls)
      /\ \A i \in DOMAIN ls : ls[i] \in Range(Links)
  BY <1>1, KeptBounds
<1> HIDE DEF ls
<1>3. ASSUME NEW i \in DOMAIN ls
      PROVE  /\ on[i] \in Items /\ on[i].depth = item.depth + 1
             /\ ls[i] \in LinkType /\ on[i].force = Passed(ls[i], force)
  <2>1. ls[i] \in LinkType /\ ls[i].effect \in Known
    BY <1>2, LinksTyped, KnownTyped
  <2>2. Passed(ls[i], force) \in Nat
    BY <2>1, PassedBounds
  <2> QED
    BY <2>1, <2>2 DEF Item, Items
<1>4. DOMAIN on = DOMAIN ls
  OBVIOUS
<1>5. Onward(item, force) = on
  BY DEF Onward, ls, out
<1> HIDE DEF on
<1>6. on \in [1..Len(ls) -> Items]
  <2>1. on = [i \in DOMAIN ls |-> on[i]]
    BY DEF on
  <2> QED
    BY <1>2, <1>3, <2>1
<1>7. on \in Seq(Items) /\ Len(on) = Len(ls)
  BY <1>2, <1>6, IsList
<1>8. \A x \in Range(on) :
         /\ x \in Items /\ x.depth = item.depth + 1
         /\ \E l \in LinkType : x.force = Passed(l, force)
  BY <1>3, <1>4 DEF Range
<1> QED
  BY <1>1, <1>2, <1>5, <1>7, <1>8, LinksTyped

\* What a divergence seeds starts at depth 1 with the full force.
LEMMA SeedsTyped ==
    ASSUME NEW d
    PROVE  /\ SeedsOf(d) \in Seq(Items)
           /\ \A x \in Range(SeedsOf(d)) : /\ x \in Items
                                              /\ x = Item(x.event, 1, Intensity)
<1> DEFINE ls == Dependents(d.fact)
           on == [i \in DOMAIN ls |-> Item(ls[i].effect, 1, Intensity)]
<1>1. /\ Len(ls) \in Nat /\ DOMAIN ls = 1..Len(ls)
      /\ \A i \in DOMAIN ls : ls[i] \in Range(Links)
  BY LinksTyped, KeptBounds DEF Dependents
<1> HIDE DEF ls
<1>2. Intensity \in Nat
  BY IntensityTyped
<1>3. ASSUME NEW i \in DOMAIN ls
      PROVE  on[i] \in Items /\ on[i] = Item(on[i].event, 1, Intensity)
  BY <1>1, <1>2, KnownTyped DEF Item, Items
<1>4. DOMAIN on = DOMAIN ls
  OBVIOUS
<1>5. SeedsOf(d) = on
  BY DEF SeedsOf, ls
<1> HIDE DEF on
<1>6. on \in [1..Len(ls) -> Items]
  <2>1. on = [i \in DOMAIN ls |-> on[i]]
    BY DEF on
  <2> QED
    BY <1>1, <1>3, <2>1
<1>7. on \in Seq(Items)
  BY <1>1, <1>6, IsList
<1>8. \A x \in Range(on) : x \in Items /\ x = Item(x.event, 1, Intensity)
  BY <1>3, <1>4 DEF Range
<1> QED
  BY <1>5, <1>7, <1>8

\* An event becomes one of the four statuses.
LEMMA BecomesOneOf == ASSUME NEW e, NEW f, NEW divs PROVE Becomes(e, f, divs) \in DOMAIN Order
<1> DEFINE lost == {p \in Preconditions(e) : ~HoldsAfter(p, divs)}
           hard == FirstLink(e).necessity = "load_bearing"
<1>1. DOMAIN Order = {"intact", "weakened", "altered", "cannot_happen"}
  BY DEF Order
<1>2. Becomes(e, f, divs) =
        IF ViolatesProtected(e) THEN "intact"
        ELSE IF lost = {} THEN IF f < 5000 THEN "weakened" ELSE "intact"
        ELSE IF hard THEN "cannot_happen"
        ELSE IF f > 4000 THEN "altered" ELSE "weakened"
  BY DEF Becomes
<1> HIDE DEF lost, hard
<1>3. CASE ViolatesProtected(e)
  BY <1>1, <1>2, <1>3
<1>4. CASE ~ViolatesProtected(e) /\ lost # {} /\ hard
  BY <1>1, <1>2, <1>4
<1>5. CASE ~ViolatesProtected(e) /\ lost # {} /\ ~hard
  BY <1>1, <1>2, <1>5
<1>6. CASE ~ViolatesProtected(e) /\ lost = {}
  BY <1>1, <1>2, <1>6
<1> QED
  BY <1>3, <1>4, <1>5, <1>6

\* The parts of a round.
Impact(loop) == Resisted(Head(loop.queue).event, Head(loop.queue).force)
New(loop, divs) == Becomes(Head(loop.queue).event, Impact(loop), divs)
Seen(loop, divs) ==
    [loop.status EXCEPT ![Head(loop.queue).event] =
        [status |-> New(loop, divs), depth |-> Head(loop.queue).depth, force |-> Impact(loop)]]
Dropped(loop) == Head(loop.queue).depth > MaxDepth \/ Impact(loop) < Threshold
Worsens(loop, divs) == Worse(loop.status[Head(loop.queue).event], New(loop, divs))

\* The four ways a round can go.
LEMMA RoundParts ==
    ASSUME NEW loop, NEW divs
    PROVE  /\ Dropped(loop) => Round(loop, divs) = [status |-> loop.status,
                                                    queue |-> Tail(loop.queue)]
           /\ ~Dropped(loop) /\ New(loop, divs) = "intact"
                => Round(loop, divs) = [status |-> Seen(loop, divs), queue |-> Tail(loop.queue)]
           /\ ~Dropped(loop) /\ New(loop, divs) # "intact" /\ ~Worsens(loop, divs)
                => Round(loop, divs) = [status |-> loop.status, queue |-> Tail(loop.queue)]
           /\ ~Dropped(loop) /\ New(loop, divs) # "intact" /\ Worsens(loop, divs)
                => Round(loop, divs) =
                      [status |-> Seen(loop, divs),
                       queue |-> Tail(loop.queue) \o Onward(Head(loop.queue), Impact(loop))]
<1> DEFINE kept == \/ Dropped(loop)
                   \/ New(loop, divs) # "intact" /\ ~Worsens(loop, divs)
<1>1. Round(loop, divs) =
        [status |-> IF kept THEN loop.status ELSE Seen(loop, divs),
         queue  |-> IF kept \/ New(loop, divs) = "intact" THEN Tail(loop.queue)
                    ELSE Tail(loop.queue) \o Onward(Head(loop.queue), Impact(loop))]
  BY DEF Round, Impact, New, Seen, Dropped, Worsens
<1>2. kept <=> \/ Dropped(loop)
               \/ New(loop, divs) # "intact" /\ ~Worsens(loop, divs)
  OBVIOUS
<1> HIDE DEF kept
<1>3. CASE Dropped(loop)
  BY <1>1, <1>2, <1>3
<1>4. CASE ~Dropped(loop) /\ New(loop, divs) = "intact"
  BY <1>1, <1>2, <1>4
<1>5. CASE ~Dropped(loop) /\ New(loop, divs) # "intact" /\ ~Worsens(loop, divs)
  BY <1>1, <1>2, <1>5
<1>6. CASE ~Dropped(loop) /\ New(loop, divs) # "intact" /\ Worsens(loop, divs)
  BY <1>1, <1>2, <1>6
<1> QED
  BY <1>3, <1>4, <1>5, <1>6

\* What a round needs to know of the item at the head.
LEMMA HeadTyped ==
    ASSUME NEW loop \in Loops, loop.queue # <<>>, NEW divs
    PROVE  /\ Head(loop.queue) \in Items /\ Tail(loop.queue) \in Seq(Items)
           /\ Range(loop.queue) = {Head(loop.queue)} \cup Range(Tail(loop.queue))
           /\ Head(loop.queue).event \in Known /\ Head(loop.queue).depth \in Nat
           /\ Impact(loop) \in Nat
           /\ loop.status \in [Known -> Entry] /\ Seen(loop, divs) \in [Known -> Entry]
           /\ Onward(Head(loop.queue), Impact(loop)) \in Seq(Items)
<1>1. loop.queue \in Seq(Items) /\ loop.status \in [Known -> Entry]
  BY DEF Loops
<1>2. /\ Head(loop.queue) \in Items /\ Tail(loop.queue) \in Seq(Items)
      /\ Range(loop.queue) = {Head(loop.queue)} \cup Range(Tail(loop.queue))
  BY <1>1, RangeOfTail
<1>3. /\ Head(loop.queue).event \in Known /\ Head(loop.queue).depth \in Nat
      /\ Head(loop.queue).force \in Nat
  BY <1>2 DEF Items
<1>4. Impact(loop) \in Nat
  BY <1>3, ResistedIs DEF Impact
<1>5. New(loop, divs) \in DOMAIN Order
  BY BecomesOneOf DEF New
<1>6. [status |-> New(loop, divs), depth |-> Head(loop.queue).depth, force |-> Impact(loop)]
        \in Entry
  BY <1>3, <1>4, <1>5 DEF Entry
<1>7. Seen(loop, divs) \in [Known -> Entry]
  BY <1>1, <1>6 DEF Seen
<1> QED
  BY <1>1, <1>2, <1>3, <1>4, <1>7, OnwardTyped

\* A round keeps the types.
LEMMA RoundTyped ==
    ASSUME NEW loop \in Loops, loop.queue # <<>>, NEW divs
    PROVE  Round(loop, divs) \in Loops
<1>1. Tail(loop.queue) \o Onward(Head(loop.queue), Impact(loop)) \in Seq(Items)
  BY HeadTyped, ConcatProperties
<1>2. \A status \in [Known -> Entry], queue \in Seq(Items) :
         [status |-> status, queue |-> queue] \in Loops
  BY DEF Loops
<1>3. /\ loop.status \in [Known -> Entry] /\ Seen(loop, divs) \in [Known -> Entry]
      /\ Tail(loop.queue) \in Seq(Items)
  BY HeadTyped
<1>4. \/ Round(loop, divs) = [status |-> loop.status, queue |-> Tail(loop.queue)]
      \/ Round(loop, divs) = [status |-> Seen(loop, divs), queue |-> Tail(loop.queue)]
      \/ Round(loop, divs) =
           [status |-> Seen(loop, divs),
            queue |-> Tail(loop.queue) \o Onward(Head(loop.queue), Impact(loop))]
  BY RoundParts
<1> QED
  BY <1>1, <1>2, <1>3, <1>4

-----------------------------------------------------------------------------
\* The propagation ends, whatever the graph: an item stands for the paths that
\* may still be followed from it, and a round gives one of them up.
More(trails) == {<<>>} \cup ((1..Len(Links)) \X trails)
Trails5 == More({<<>>})
Trails4 == More(Trails5)
Trails3 == More(Trails4)
Trails2 == More(Trails3)
Trails1 == More(Trails2)
Trails0 == More(Trails1)
Trails(depth) == CASE depth = 0 -> Trails0 [] depth = 1 -> Trails1 [] depth = 2 -> Trails2
                   [] depth = 3 -> Trails3 [] depth = 4 -> Trails4 [] depth = 5 -> Trails5
                   [] OTHER -> {<<>>}
Ahead(queue) ==
    {z \in (1..Len(queue)) \X Trails0 : z[2] \in Trails(queue[z[1]].depth)}

\* One more link in front of each trail.
LEMMA MoreTrails ==
    ASSUME NEW P, IsFiniteSet(P)
    PROVE  /\ IsFiniteSet(More(P)) /\ <<>> \in More(P)
           /\ \A k \in 1..Len(Links), p \in P : <<k, p>> \in More(P)
           /\ \A Q \in SUBSET P : More(Q) \subseteq More(P)
<1>1. IsFiniteSet(1..Len(Links))
  BY LinksTyped, FS_Interval
<1>2. IsFiniteSet((1..Len(Links)) \X P)
  BY <1>1, FS_Product
<1>3. IsFiniteSet({<<>>})
  BY FS_Singleton
<1> QED
  BY <1>2, <1>3, FS_Union DEF More

\* The trails from each depth are finitely many, and a link leads from those of a
\* depth to those of the next.
LEMMA TrailsOf ==
    /\ IsFiniteSet(Trails0)
    /\ \A depth \in Nat : <<>> \in Trails(depth) /\ Trails(depth) \subseteq Trails0
    /\ \A depth \in Nat, k \in 1..Len(Links) :
          depth <= MaxDepth => \A p \in Trails(depth + 1) : <<k, p>> \in Trails(depth)
<1>0. IsFiniteSet({<<>>})
  BY FS_Singleton
<1>5. /\ IsFiniteSet(Trails5) /\ <<>> \in Trails5 /\ {<<>>} \subseteq Trails5
      /\ \A k \in 1..Len(Links) : <<k, <<>>>> \in Trails5
  BY <1>0, MoreTrails DEF Trails5
<1>4. /\ IsFiniteSet(Trails4) /\ <<>> \in Trails4 /\ Trails5 \subseteq Trails4
      /\ \A k \in 1..Len(Links), p \in Trails5 : <<k, p>> \in Trails4
  BY <1>5, MoreTrails DEF Trails4, Trails5
<1>3. /\ IsFiniteSet(Trails3) /\ <<>> \in Trails3 /\ Trails4 \subseteq Trails3
      /\ \A k \in 1..Len(Links), p \in Trails4 : <<k, p>> \in Trails3
  BY <1>4, MoreTrails DEF Trails3, Trails4
<1>2. /\ IsFiniteSet(Trails2) /\ <<>> \in Trails2 /\ Trails3 \subseteq Trails2
      /\ \A k \in 1..Len(Links), p \in Trails3 : <<k, p>> \in Trails2
  BY <1>3, MoreTrails DEF Trails2, Trails3
<1>1. /\ IsFiniteSet(Trails1) /\ <<>> \in Trails1 /\ Trails2 \subseteq Trails1
      /\ \A k \in 1..Len(Links), p \in Trails2 : <<k, p>> \in Trails1
  BY <1>2, MoreTrails DEF Trails1, Trails2
<1>6. /\ IsFiniteSet(Trails0) /\ <<>> \in Trails0 /\ Trails1 \subseteq Trails0
      /\ \A k \in 1..Len(Links), p \in Trails1 : <<k, p>> \in Trails0
  BY <1>1, MoreTrails DEF Trails0, Trails1
<1>7. /\ Trails(0) = Trails0 /\ Trails(1) = Trails1 /\ Trails(2) = Trails2
      /\ Trails(3) = Trails3 /\ Trails(4) = Trails4 /\ Trails(5) = Trails5
      /\ \A depth \in Nat : depth > 5 => Trails(depth) = {<<>>}
  BY DEF Trails
<1>8. \A depth \in Nat : depth \in {0, 1, 2, 3, 4, 5} \/ depth > 5
  OBVIOUS
<1>9. \A depth \in Nat : <<>> \in Trails(depth) /\ Trails(depth) \subseteq Trails0
  BY <1>1, <1>2, <1>3, <1>4, <1>5, <1>6, <1>7, <1>8
<1>10. ASSUME NEW depth \in Nat, NEW k \in 1..Len(Links), depth <= MaxDepth,
              NEW p \in Trails(depth + 1)
       PROVE  <<k, p>> \in Trails(depth)
  <2>1. depth \in {0, 1, 2, 3, 4, 5}
    BY <1>10 DEF MaxDepth
  <2>2. 0 + 1 = 1 /\ 1 + 1 = 2 /\ 2 + 1 = 3 /\ 3 + 1 = 4 /\ 4 + 1 = 5 /\ 5 + 1 = 6 /\ 6 > 5
        /\ 6 \in Nat
    OBVIOUS
  <2>3. CASE depth = 0
    BY <1>6, <1>7, <1>10, <2>2, <2>3
  <2>4. CASE depth = 1
    BY <1>1, <1>7, <1>10, <2>2, <2>4
  <2>5. CASE depth = 2
    BY <1>2, <1>7, <1>10, <2>2, <2>5
  <2>6. CASE depth = 3
    BY <1>3, <1>7, <1>10, <2>2, <2>6
  <2>7. CASE depth = 4
    BY <1>4, <1>7, <1>10, <2>2, <2>7
  <2>8. CASE depth = 5
    <3>1. Trails(depth + 1) = {<<>>}
      BY <1>7, <2>2, <2>8
    <3> QED
      BY <1>5, <1>7, <1>10, <2>8, <3>1
  <2> QED
    BY <2>1, <2>3, <2>4, <2>5, <2>6, <2>7, <2>8
<1> QED
  BY <1>6, <1>9, <1>10

\* There are finitely many trails ahead of a queue.
LEMMA AheadFinite ==
    ASSUME NEW queue \in Seq(Items)
    PROVE  IsFiniteSet(Ahead(queue)) /\ Cardinality(Ahead(queue)) \in Nat
<1>1. IsFiniteSet(1..Len(queue))
  BY LenProperties, FS_Interval
<1>2. IsFiniteSet((1..Len(queue)) \X Trails0)
  BY <1>1, TrailsOf, FS_Product
<1>3. Ahead(queue) \in SUBSET ((1..Len(queue)) \X Trails0)
  BY DEF Ahead
<1>4. IsFiniteSet(Ahead(queue))
  <2> DEFINE A == Ahead(queue)
             B == (1..Len(queue)) \X Trails0
  <2>1. A \in SUBSET B /\ IsFiniteSet(B)
    BY <1>2, <1>3
  <2> HIDE DEF A, B
  <2>2. IsFiniteSet(A)
    BY <2>1, FS_Subset
  <2> QED
    BY <2>2 DEF A
<1> QED
  BY <1>4, FS_CardinalityType

\* The items a round adds take no more paths than the one it removes had.
LEMMA AheadShrinks ==
    ASSUME NEW queue \in Seq(Items), queue # <<>>, NEW on \in Seq(Items),
           \/ on = <<>>
           \/ /\ Len(on) <= Len(Links) /\ Head(queue).depth <= MaxDepth
              /\ \A x \in Range(on) : x.depth = Head(queue).depth + 1
    PROVE  Cardinality(Ahead(Tail(queue) \o on)) < Cardinality(Ahead(queue))
<1> DEFINE d == Head(queue).depth
           next == Tail(queue) \o on
           n == Len(queue) - 1
           first == <<1, <<>>>>
<1>1. /\ Len(queue) \in Nat \ {0} /\ DOMAIN queue = 1..Len(queue) /\ Head(queue) = queue[1]
      /\ Tail(queue) \in Seq(Items) /\ Len(Tail(queue)) = n
      /\ \A i \in 1..n : Tail(queue)[i] = queue[i + 1]
      /\ \A i \in 1..Len(queue) : queue[i] \in Items
  BY EmptySeq, LenProperties, HeadTailProperties, ElementOfSeq
<1>2. Len(on) \in Nat /\ DOMAIN on = 1..Len(on)
  BY LenProperties
<1>3. /\ next \in Seq(Items) /\ Len(next) = n + Len(on)
      /\ \A i \in 1..(n + Len(on)) : next[i] = IF i <= n THEN queue[i + 1] ELSE on[i - n]
  <2>1. /\ next \in Seq(Items) /\ Len(next) = n + Len(on)
        /\ \A i \in 1..(n + Len(on)) : next[i] = IF i <= n THEN Tail(queue)[i] ELSE on[i - n]
    BY <1>1, ConcatProperties
  <2> HIDE DEF next
  <2> QED
    BY <1>1, <1>2, <2>1
<1>4. d \in Nat /\ \A i \in 1..Len(queue) : queue[i].depth \in Nat
  BY <1>1 DEF Items
<1>5. \A i \in 1..Len(on) :
         /\ i \in 1..Len(Links) /\ d <= MaxDepth
         /\ \A p \in Trails(on[i].depth) : <<i, p>> \in Trails(d)
  <2> TAKE i \in 1..Len(on)
  <2>1. on # <<>>
    BY <1>2
  <2>2. i \in 1..Len(Links) /\ d <= MaxDepth
    BY <1>2, <2>1, LinksTyped
  <2>3. on[i] \in Range(on)
    BY <1>2 DEF Range
  <2>4. on[i].depth = d + 1
    BY <2>1, <2>3
  <2> HIDE DEF d
  <2> QED
    BY <1>4, <2>2, <2>4, TrailsOf
<1> HIDE DEF next, d
<1> DEFINE A == Ahead(queue)
           B == Ahead(next)
           f == [z \in B |-> IF z[1] <= n THEN <<z[1] + 1, z[2]>>
                             ELSE <<1, <<z[1] - n, z[2]>>>>]
<1>6. first \in A
  <2>1. <<>> \in Trails(queue[1].depth) /\ <<>> \in Trails0
    BY <1>1, <1>4, TrailsOf
  <2> QED
    BY <1>1, <2>1 DEF Ahead
<1>7. \A z \in B : /\ z = <<z[1], z[2]>> /\ z[1] \in 1..(n + Len(on)) /\ z[2] \in Trails0
                   /\ z[2] \in Trails(next[z[1]].depth)
  BY <1>3 DEF Ahead
<1>8. ASSUME NEW z \in B PROVE f[z] \in A \ {first}
  <2>1. CASE z[1] <= n
    <3>1. z[1] + 1 \in 1..Len(queue) /\ next[z[1]] = queue[z[1] + 1] /\ z[1] + 1 # 1
      BY <1>1, <1>2, <1>3, <1>7, <2>1
    <3>2. f[z] = <<z[1] + 1, z[2]>>
      BY <2>1
    <3>3. <<z[1] + 1, z[2]>> \in A
      BY <1>7, <3>1 DEF Ahead
    <3> QED
      BY <3>1, <3>2, <3>3
  <2>2. CASE ~(z[1] <= n)
    <3>1. z[1] - n \in 1..Len(on) /\ next[z[1]] = on[z[1] - n]
      BY <1>1, <1>2, <1>3, <1>7, <2>2
    <3>2. f[z] = <<1, <<z[1] - n, z[2]>>>>
      BY <2>2
    <3>3. <<z[1] - n, z[2]>> \in Trails(d)
      BY <1>5, <1>7, <3>1
    <3>4. <<z[1] - n, z[2]>> \in Trails0
      BY <1>4, <3>3, TrailsOf
    <3>5. d = queue[1].depth /\ 1 \in 1..Len(queue)
      BY <1>1 DEF d
    <3>6. <<1, <<z[1] - n, z[2]>>>> \in A
      BY <3>3, <3>4, <3>5 DEF Ahead
    <3>7. <<z[1] - n, z[2]>> # <<>>
      OBVIOUS
    <3> QED
      BY <3>2, <3>6, <3>7
  <2> QED
    BY <2>1, <2>2
<1>9. ASSUME NEW z \in B, NEW w \in B, f[z] = f[w] PROVE z = w
  <2>1. /\ z[1] \in Nat \ {0} /\ w[1] \in Nat \ {0} /\ n \in Nat
    BY <1>1, <1>2, <1>7
  <2>2. CASE z[1] <= n /\ w[1] <= n
    <3>1. <<z[1] + 1, z[2]>> = <<w[1] + 1, w[2]>>
      BY <1>9, <2>2
    <3>2. z[1] + 1 = w[1] + 1 /\ z[2] = w[2]
      BY <3>1
    <3>3. z[1] = w[1]
      BY <2>1, <3>2
    <3> QED
      BY <1>7, <3>2, <3>3
  <2>3. CASE ~(z[1] <= n) /\ ~(w[1] <= n)
    <3>1. <<1, <<z[1] - n, z[2]>>>> = <<1, <<w[1] - n, w[2]>>>>
      BY <1>9, <2>3
    <3>2. z[1] - n = w[1] - n /\ z[2] = w[2]
      BY <3>1
    <3>3. z[1] = w[1]
      BY <2>1, <3>2
    <3> QED
      BY <1>7, <3>2, <3>3
  <2>4. CASE z[1] <= n /\ ~(w[1] <= n)
    <3>1. <<z[1] + 1, z[2]>> = <<1, <<w[1] - n, w[2]>>>>
      BY <1>9, <2>4
    <3>2. z[1] + 1 = 1
      BY <3>1
    <3> QED
      BY <2>1, <3>2
  <2>5. CASE ~(z[1] <= n) /\ w[1] <= n
    <3>1. <<1, <<z[1] - n, z[2]>>>> = <<w[1] + 1, w[2]>>
      BY <1>9, <2>5
    <3>2. w[1] + 1 = 1
      BY <3>1
    <3> QED
      BY <2>1, <3>2
  <2> QED
    BY <2>2, <2>3, <2>4, <2>5
<1>10. f \in Injection(B, A \ {first})
  <2>1. f \in [B -> A \ {first}] /\ DOMAIN f = B
    <3>1. DOMAIN f = B /\ f = [z \in B |-> f[z]]
      OBVIOUS
    <3> HIDE DEF f, A, B
    <3> QED
      BY <1>8, <3>1
  <2> HIDE DEF f, A, B
  <2> QED
    BY <1>9, <2>1 DEF Injection, IsInjective
<1>11. IsFiniteSet(A) /\ Cardinality(A) \in Nat /\ Cardinality(B) \in Nat
  BY <1>3, AheadFinite
<1> HIDE DEF f, A, B, first
<1>12. IsFiniteSet(A \ {first}) /\ Cardinality(A \ {first}) = Cardinality(A) - 1
  BY <1>6, <1>11, FS_RemoveElement
<1>13. Cardinality(B) <= Cardinality(A \ {first})
  BY <1>10, <1>12, FS_Injection
<1>14. Cardinality(B) < Cardinality(A)
  BY <1>11, <1>12, <1>13
<1> QED
  BY <1>14 DEF A, B, next

\* Each round has fewer trails ahead of it than the one before.
LEMMA RoundShrinks ==
    ASSUME NEW loop \in Loops, loop.queue # <<>>, NEW divs
    PROVE  Cardinality(Ahead(Round(loop, divs).queue)) < Cardinality(Ahead(loop.queue))
<1> DEFINE on == Onward(Head(loop.queue), Impact(loop))
<1>1. loop.queue \in Seq(Items)
  BY DEF Loops
<1>2. Cardinality(Ahead(Tail(loop.queue))) < Cardinality(Ahead(loop.queue))
  <2>1. Tail(loop.queue) \o <<>> = Tail(loop.queue) /\ <<>> \in Seq(Items)
    BY HeadTyped, ConcatEmptySeq
  <2>2. Cardinality(Ahead(Tail(loop.queue) \o <<>>)) < Cardinality(Ahead(loop.queue))
    BY <1>1, <2>1, AheadShrinks
  <2> QED
    BY <2>1, <2>2
<1>3. ASSUME ~Dropped(loop)
      PROVE  Cardinality(Ahead(Tail(loop.queue) \o on)) < Cardinality(Ahead(loop.queue))
  <2>1. /\ on \in Seq(Items) /\ Len(on) <= Len(Links)
        /\ \A x \in Range(on) : x.depth = Head(loop.queue).depth + 1
    BY HeadTyped, OnwardTyped
  <2>2. Head(loop.queue).depth <= MaxDepth
    BY <1>3, HeadTyped DEF Dropped, MaxDepth
  <2> HIDE DEF on
  <2> QED
    BY <1>1, <2>1, <2>2, AheadShrinks
<1>4. \/ Round(loop, divs).queue = Tail(loop.queue)
      \/ ~Dropped(loop) /\ Round(loop, divs).queue = Tail(loop.queue) \o on
  <2>1. \/ Round(loop, divs) = [status |-> loop.status, queue |-> Tail(loop.queue)]
        \/ Round(loop, divs) = [status |-> Seen(loop, divs), queue |-> Tail(loop.queue)]
        \/ /\ ~Dropped(loop)
           /\ Round(loop, divs) = [status |-> Seen(loop, divs),
                                   queue |-> Tail(loop.queue) \o on]
    BY RoundParts
  <2> DEFINE more == Tail(loop.queue) \o on
  <2> HIDE DEF on, more
  <2>2. CASE Round(loop, divs) = [status |-> loop.status, queue |-> Tail(loop.queue)]
    BY <2>2
  <2>3. CASE Round(loop, divs) = [status |-> Seen(loop, divs), queue |-> Tail(loop.queue)]
    BY <2>3
  <2>4. CASE ~Dropped(loop) /\ Round(loop, divs) = [status |-> Seen(loop, divs), queue |-> more]
    BY <2>4 DEF more
  <2> QED
    BY <2>1, <2>2, <2>3, <2>4 DEF more
<1> QED
  BY <1>2, <1>3, <1>4

\* What the loop returns is the status of a round that the invariant holds of and
\* that has nothing left to do.
LEMMA VisitedEnds ==
    ASSUME NEW divs, NEW Inv \in SUBSET Loops, NEW start \in Inv,
           \A loop \in Inv : loop.queue # <<>> => Round(loop, divs) \in Inv
    PROVE  \E loop \in Inv : loop.queue = <<>> /\ Visited(start, divs) = loop.status
<1> DEFINE Done == {loop \in Loops : loop.queue = <<>>}
           out == [loop \in Loops |-> loop.status]
           next == [loop \in Loops |-> Round(loop, divs)]
           m == [loop \in Loops |-> Cardinality(Ahead(loop.queue))]
           end == CHOOSE g : g = [loop \in Loops |->
                                    IF loop.queue = <<>> THEN loop.status
                                    ELSE g[Round(loop, divs)]]
<1>1. \A g : Loop(g, Loops, Done, out, next) <=> g = [loop \in Loops |->
                                    IF loop.queue = <<>> THEN loop.status
                                    ELSE g[Round(loop, divs)]]
  BY DEF Loop
<1>2. \A loop \in Loops \ Done : next[loop] \in Loops
  BY RoundTyped
<1>3. \A loop \in Inv : m[loop] \in Nat
  BY AheadFinite DEF Loops
<1>4. \A loop \in Inv \ Done : next[loop] \in Inv /\ m[next[loop]] < m[loop]
  <2> TAKE loop \in Inv \ Done
  <2>1. loop \in Loops /\ loop.queue # <<>> /\ Round(loop, divs) \in Loops
    BY RoundTyped
  <2> QED
    BY <2>1, RoundShrinks
<1>5. \E g : Loop(g, Loops, Done, out, next)
  <2> HIDE DEF Done, out, next
  <2> QED
    BY <1>2, LoopExists
<1>6. Loop(end, Loops, Done, out, next)
  <2>1. \E g : g = [loop \in Loops |-> IF loop.queue = <<>> THEN loop.status
                                       ELSE g[Round(loop, divs)]]
    BY <1>1, <1>5
  <2>2. end = [loop \in Loops |-> IF loop.queue = <<>> THEN loop.status
                                  ELSE end[Round(loop, divs)]]
    BY <2>1
  <2> HIDE DEF end
  <2> QED
    BY <1>1, <2>2
<1>7. Visited(start, divs) = end[start]
  BY DEF Visited
<1>8. \E loop \in Inv \cap Done : end[start] = out[loop]
  <2> HIDE DEF Done, out, next, m, end
  <2> QED
    BY <1>3, <1>4, <1>6, LoopEnds
<1> QED
  BY <1>7, <1>8

-----------------------------------------------------------------------------
\* What propagate starts from, and what it returns.
First(divs) == UNION {Range(SeedsOf(divs[i])) : i \in DOMAIN divs}
Begin(divs) == [status |-> [e \in Known |-> Untouched], queue |-> Seeds(divs)]
Touched(loop) == {e \in Known : loop.status[e] # Untouched}

\* What propagate starts from, item by item.
LEMMA FirstTyped ==
    ASSUME NEW divs, NEW x \in First(divs)
    PROVE  x \in Items /\ x = Item(x.event, 1, Intensity)
BY SeedsTyped DEF First

\* The queue at first: the seeds, and no event has been set.
LEMMA BeginTyped ==
    ASSUME NEW S, NEW divs \in Seq(S)
    PROVE  /\ Begin(divs) \in Loops /\ Begin(divs).queue \in Seq(Items)
           /\ Range(Begin(divs).queue) = First(divs)
           /\ \A e \in Known : Begin(divs).status[e] = Untouched
<1> DEFINE seqs == [i \in DOMAIN divs |-> SeedsOf(divs[i])]
<1>1. Len(divs) \in Nat /\ DOMAIN divs = 1..Len(divs)
  BY LenProperties
<1>2. \A i \in DOMAIN divs : SeedsOf(divs[i]) \in Seq(Items)
  BY SeedsTyped
<1>3. seqs \in [1..Len(divs) -> Seq(Items)]
  BY <1>1, <1>2
<1>4. DOMAIN seqs = DOMAIN divs /\ \A i \in DOMAIN divs : seqs[i] = SeedsOf(divs[i])
  OBVIOUS
<1>5. Seeds(divs) = Joined(seqs)
  BY DEF Seeds
<1> HIDE DEF seqs
<1>6. seqs \in Seq(Seq(Items))
  BY <1>1, <1>3, IsList
<1>7. Joined(seqs) \in Seq(Items)
      /\ Range(Joined(seqs)) = UNION {Range(seqs[i]) : i \in DOMAIN seqs}
  BY <1>6, JoinedCorrect
<1>8. UNION {Range(seqs[i]) : i \in DOMAIN seqs} = First(divs)
  BY <1>4 DEF First
<1>9. Untouched \in Entry
  BY DEF Untouched, Entry
<1>10. [e \in Known |-> Untouched] \in [Known -> Entry]
  BY <1>9
<1>11. Begin(divs) = [status |-> [e \in Known |-> Untouched], queue |-> Joined(seqs)]
  BY <1>5 DEF Begin
<1> HIDE DEF seqs
<1>12. Begin(divs) \in Loops
  BY <1>7, <1>10, <1>11 DEF Loops
<1>13. /\ Begin(divs).queue = Joined(seqs)
       /\ \A e \in Known : Begin(divs).status[e] = Untouched
  BY <1>11
<1> QED
  BY <1>7, <1>8, <1>12, <1>13

\* What holds at first and is kept by each round holds of what propagate returns.
LEMMA PropagateEnds ==
    ASSUME NEW divs, NEW Inv \in SUBSET Loops, Begin(divs) \in Inv,
           \A loop \in Inv : loop.queue # <<>> => Round(loop, divs) \in Inv
    PROVE  \E loop \in Inv : /\ loop.queue = <<>>
                             /\ Propagate(divs) = [e \in Touched(loop) |-> loop.status[e]]
<1>1. PICK loop \in Inv : loop.queue = <<>> /\ Visited(Begin(divs), divs) = loop.status
  BY VisitedEnds
<1>2. Propagate(divs) = [e \in Touched(loop) |-> loop.status[e]]
  BY <1>1 DEF Propagate, Restrict, Begin, Touched
<1> QED
  BY <1>1, <1>2

\* The loop keeps its types: what it has set is one of the four statuses, at a
\* depth that counts from 1.
TypedLoops ==
    {loop \in Loops : /\ \A x \in Range(loop.queue) : x.depth # 0
                      /\ \A e \in Touched(loop) : /\ loop.status[e].status \in DOMAIN Order
                                                  /\ loop.status[e].depth # 0}

\* So propagate returns typed statuses of known events.
LEMMA PropagateTyped ==
    ASSUME NEW S, NEW divs \in Seq(S)
    PROVE  /\ DOMAIN Propagate(divs) \subseteq Known
           /\ Propagate(divs) \in [DOMAIN Propagate(divs) ->
                                      [status : DOMAIN Order, depth : Nat \ {0}, force : Nat]]
<1>1. Begin(divs) \in TypedLoops
  <2>1. \A x \in First(divs) : x.depth # 0
    <3> SUFFICES ASSUME NEW x \in First(divs) PROVE x.depth = 1
      OBVIOUS
    <3>1. x = Item(x.event, 1, Intensity)
      BY FirstTyped
    <3>2. Item(x.event, 1, Intensity).depth = 1
      BY DEF Item
    <3> QED
      BY <3>1, <3>2
  <2> QED
    BY <2>1, BeginTyped DEF TypedLoops, Touched
<1>2. ASSUME NEW loop \in TypedLoops, loop.queue # <<>>
      PROVE  Round(loop, divs) \in TypedLoops
  <2> DEFINE item == Head(loop.queue)
             seen == Seen(loop, divs)
             on == Onward(item, Impact(loop))
             rest == Tail(loop.queue)
  <2>1. loop \in Loops /\ Round(loop, divs) \in Loops
    BY <1>2, RoundTyped DEF TypedLoops
  <2>2. /\ item \in Items /\ item.event \in Known /\ item.depth \in Nat \ {0}
        /\ Range(loop.queue) = {item} \cup Range(rest)
        /\ rest \in Seq(Items) /\ on \in Seq(Items)
        /\ loop.status \in [Known -> Entry]
    BY <1>2, <2>1, HeadTyped DEF TypedLoops
  <2>3. \A x \in Range(rest) : x.depth # 0
    BY <2>2 DEF TypedLoops
  <2>4. \A x \in Range(on) : x.depth # 0
    <3>1. \A x \in Range(on) : x.depth = item.depth + 1
      BY <1>2, <2>1, <2>2, HeadTyped, OnwardTyped
    <3> QED
      BY <2>2, <3>1
  <2>5. Range(rest \o on) = Range(rest) \cup Range(on)
    <3> HIDE DEF rest, on
    <3> QED
      BY <2>2, RangeOfConcat
  <2>6. \A e \in Known : seen[e] # Untouched =>
            seen[e].status \in DOMAIN Order /\ seen[e].depth # 0
    <3>1. New(loop, divs) \in DOMAIN Order
      BY BecomesOneOf DEF New
    <3>2. \A e \in Known :
             seen[e] = IF e = item.event
                       THEN [status |-> New(loop, divs), depth |-> item.depth,
                             force |-> Impact(loop)]
                       ELSE loop.status[e]
      BY <2>2 DEF Seen
    <3>3. \A e \in Known : loop.status[e] # Untouched =>
              loop.status[e].status \in DOMAIN Order /\ loop.status[e].depth # 0
      BY DEF TypedLoops, Touched
    <3> HIDE DEF seen, item
    <3> QED
      BY <2>2, <3>1, <3>2, <3>3
  <2>7. \A e \in Known : loop.status[e] # Untouched =>
            loop.status[e].status \in DOMAIN Order /\ loop.status[e].depth # 0
    BY DEF TypedLoops, Touched
  <2>8. \/ Round(loop, divs) = [status |-> loop.status, queue |-> rest]
        \/ Round(loop, divs) = [status |-> seen, queue |-> rest]
        \/ Round(loop, divs) = [status |-> seen, queue |-> rest \o on]
    BY RoundParts
  <2> DEFINE r == Round(loop, divs)
             more == rest \o on
  <2>9. /\ r.status = loop.status \/ r.status = seen
        /\ r.queue = rest \/ r.queue = more
    <3> HIDE DEF seen, rest, on, more, r
    <3>1. \/ r = [status |-> loop.status, queue |-> rest]
          \/ r = [status |-> seen, queue |-> rest]
          \/ r = [status |-> seen, queue |-> more]
      BY <2>8 DEF r, more
    <3> QED
      BY <3>1
  <2>10. \A x \in Range(r.queue) : x.depth # 0
    <3> HIDE DEF r, rest, on
    <3> QED
      BY <2>3, <2>4, <2>5, <2>9
  <2>11. \A e \in Touched(r) : r.status[e].status \in DOMAIN Order /\ r.status[e].depth # 0
    <3> HIDE DEF r, seen
    <3> QED
      BY <2>6, <2>7, <2>9 DEF Touched
  <2> QED
    BY <2>1, <2>10, <2>11 DEF TypedLoops
<1>3. PICK loop \in TypedLoops : Propagate(divs) = [e \in Touched(loop) |-> loop.status[e]]
  <2>1. TypedLoops \in SUBSET Loops
    BY DEF TypedLoops
  <2> QED
    BY <1>1, <1>2, <2>1, PropagateEnds
<1>4. \A e \in Touched(loop) :
         loop.status[e] \in [status : DOMAIN Order, depth : Nat \ {0}, force : Nat]
  <2> TAKE e \in Touched(loop)
  <2>1. loop.status[e] \in Entry
    BY DEF Touched, TypedLoops, Loops
  <2>2. loop.status[e].status \in DOMAIN Order /\ loop.status[e].depth # 0
    BY DEF TypedLoops
  <2> QED
    BY <2>1, <2>2 DEF Entry
<1> QED
  BY <1>3, <1>4 DEF Touched

\* The propagation is what is asked of it, for every graph, POD and intensity.
LEMMA HistoryList == ASSUME NEW h \in Histories PROVE DivsOK(h) /\ Len(h) \in Nat
<1>1. PICK n \in 0..Len(ChangedFacts) : h \in [1..n -> Entries]
  BY DEF Histories
<1>2. n \in Nat
  BY CycleAssumption
<1>3. h \in Seq(Entries) /\ Len(h) = n
  BY <1>1, <1>2, IsList
<1> QED
  BY <1>2, <1>3 DEF Histories, DivsOK

\* Nothing diverged, nothing changes.
LEMMA EmptyHistory == <<>> \in Histories /\ DOMAIN Propagate(<<>>) = {}
<1>1. DivsOK(<<>>)
  BY EmptySeq DEF DivsOK, NoTwice
<1>2. <<>> \in Histories
  BY <1>1, DivsAreHistories
<1>3. /\ Begin(<<>>) \in Loops /\ Begin(<<>>).queue \in Seq(Items)
      /\ Range(Begin(<<>>).queue) = {}
      /\ \A e \in Known : Begin(<<>>).status[e] = Untouched
  <2>1. First(<<>>) = {}
    BY DEF First
  <2> QED
    BY <1>1, <2>1, BeginTyped DEF DivsOK
<1>4. Begin(<<>>).queue = <<>>
  <2> DEFINE q == Begin(<<>>).queue
  <2> HIDE DEF q
  <2>1. q \in Seq(Items) /\ Range(q) = {}
    BY <1>3 DEF q
  <2>2. SUFFICES ASSUME q # <<>> PROVE FALSE
    BY DEF q
  <2>3. Len(q) \in Nat \ {0} /\ DOMAIN q = 1..Len(q)
    BY <2>1, <2>2, EmptySeq, LenProperties
  <2>4. q[1] \in Range(q)
    BY <2>3 DEF Range
  <2> QED
    BY <2>1, <2>4
<1>5. \E loop \in {Begin(<<>>)} : Propagate(<<>>) = [e \in Touched(loop) |-> loop.status[e]]
  <2> DEFINE Inv == {Begin(<<>>)}
  <2>1. Inv \in SUBSET Loops /\ Begin(<<>>) \in Inv
    BY <1>3
  <2>2. \A loop \in Inv : loop.queue # <<>> => Round(loop, <<>>) \in Inv
    BY <1>4
  <2> HIDE DEF Inv
  <2>3. \E loop \in Inv : Propagate(<<>>) = [e \in Touched(loop) |-> loop.status[e]]
    BY <2>1, <2>2, PropagateEnds
  <2> QED
    BY <2>3 DEF Inv
<1>6. Touched(Begin(<<>>)) = {}
  BY <1>3 DEF Touched
<1> QED
  BY <1>2, <1>5, <1>6

\* The propagation ends with typed statuses of finitely many events, and with none
\* as long as nothing has diverged, for every graph (loops in it included), POD
\* and intensity: the loop over the queue in propagate.
THEOREM PropagationIsWellFormed == WellFormed
<1>1. DOMAIN Propagated(<<>>) = {}
  BY EmptyHistory, CompositionAssumption
<1> SUFFICES ASSUME NEW h \in Histories
             PROVE  /\ DOMAIN Propagated(h) \subseteq STRING /\ IsFiniteSet(DOMAIN Propagated(h))
                    /\ Propagated(h) \in [DOMAIN Propagated(h) ->
                          [status : DOMAIN Severity, depth : Nat \ {0}, force : Nat]]
  BY <1>1 DEF WellFormed
<1>2. Propagated(h) = Propagate(h) /\ h \in Seq(Entries)
  BY HistoryList, CompositionAssumption DEF DivsOK
<1>3. /\ DOMAIN Propagate(h) \subseteq Known
      /\ Propagate(h) \in [DOMAIN Propagate(h) ->
                              [status : DOMAIN Order, depth : Nat \ {0}, force : Nat]]
  BY <1>2, PropagateTyped
<1>4. IsFiniteSet(DOMAIN Propagate(h)) /\ DOMAIN Propagate(h) \subseteq STRING
  BY <1>3, KnownTyped, FS_Subset
<1>5. DOMAIN Order = DOMAIN Severity
  BY DEF Order, Severity
<1> QED
  BY <1>2, <1>3, <1>4, <1>5

-----------------------------------------------------------------------------
\* What arrives, at a moderate intensity: at the events that depend on a fact
\* that diverged, and at what they cause.
Spread(divs) ==
    UNION {Range(Onward(y, Resisted(y.event, y.force))) :
              y \in {z \in Felt(First(divs)) : Change(z, divs) # "intact"}}

\* At such a force only a protected invariant keeps an event intact.
LEMMA BecomesCalm ==
    ASSUME NEW e, NEW f \in Nat, f < 5000, NEW divs
    PROVE  Becomes(e, f, divs) = "intact" <=> ViolatesProtected(e)
<1> DEFINE lost == {p \in Preconditions(e) : ~HoldsAfter(p, divs)}
           hard == FirstLink(e).necessity = "load_bearing"
<1>1. Becomes(e, f, divs) =
        IF ViolatesProtected(e) THEN "intact"
        ELSE IF lost = {} THEN IF f < 5000 THEN "weakened" ELSE "intact"
        ELSE IF hard THEN "cannot_happen"
        ELSE IF f > 4000 THEN "altered" ELSE "weakened"
  BY DEF Becomes
<1> HIDE DEF lost, hard
<1>3. CASE ViolatesProtected(e)
  BY <1>1, <1>3
<1>4. CASE ~ViolatesProtected(e) /\ lost # {} /\ hard
  BY <1>1, <1>4
<1>5. CASE ~ViolatesProtected(e) /\ lost # {} /\ ~hard
  BY <1>1, <1>5
<1>6. CASE ~ViolatesProtected(e) /\ lost = {}
  BY <1>1, <1>6
<1> QED
  BY <1>3, <1>4, <1>5, <1>6

\* The events that depend on a fact that diverged.
LEMMA FirstCalm ==
    ASSUME Calm, NEW divs, NEW x \in First(divs)
    PROVE  /\ x \in Items /\ x.depth = 1 /\ x.force = Intensity
           /\ x = Item(x.event, 1, Intensity)
           /\ Resisted(x.event, x.force) \in Nat /\ Resisted(x.event, x.force) < 5000
<1>1. x \in Items /\ x = Item(x.event, 1, Intensity)
  BY FirstTyped
<1>2. /\ Item(x.event, 1, Intensity).depth = 1
      /\ Item(x.event, 1, Intensity).force = Intensity
  BY DEF Item
<1>3. x.depth = 1 /\ x.force = Intensity
  BY <1>1, <1>2
<1>4. Resisted(x.event, x.force) \in Nat /\ Resisted(x.event, x.force) < 5000
  BY <1>3, IntensityTyped, CalmForce
<1> QED
  BY <1>1, <1>3, <1>4

\* What those cause.
LEMMA SpreadCalm ==
    ASSUME Calm, NEW divs, NEW x \in Spread(divs)
    PROVE  /\ x \in Items /\ x.depth = 2 /\ x.force \in Nat /\ x.force < 3750
           /\ Resisted(x.event, x.force) \in Nat /\ Resisted(x.event, x.force) < 5000
<1>1. PICK y \in First(divs) : x \in Range(Onward(y, Resisted(y.event, y.force)))
  BY DEF Spread, Felt
<1>2. y.depth = 1 /\ Resisted(y.event, y.force) \in Nat /\ Resisted(y.event, y.force) < 5000
  BY <1>1, FirstCalm
<1>3. y.depth \in Nat
  BY <1>2
<1>4. /\ x \in Items /\ x.depth = y.depth + 1
      /\ \E l \in LinkType : x.force = Passed(l, Resisted(y.event, y.force))
  BY <1>1, <1>2, <1>3, OnwardTyped
<1>5. PICK l \in LinkType : x.force = Passed(l, Resisted(y.event, y.force))
  BY <1>4
<1>6. x.depth = 2 /\ x.force \in Nat /\ x.force < 3750
  BY <1>2, <1>4, <1>5, CalmPassed
<1>7. Resisted(x.event, x.force) \in Nat /\ Resisted(x.event, x.force) < 5000
  BY <1>5, <1>6, CalmFades
<1> QED
  BY <1>4, <1>6, <1>7

\* What a change at depth 2 passes on is not felt.
LEMMA BeyondCalm ==
    ASSUME Calm, NEW divs, NEW x \in Spread(divs),
           NEW z \in Range(Onward(x, Resisted(x.event, x.force)))
    PROVE  z.depth = 3 /\ Resisted(z.event, z.force) < Threshold
<1>1. x \in Items /\ x.depth = 2 /\ x.force \in Nat /\ x.force < 3750
      /\ Resisted(x.event, x.force) \in Nat
  BY SpreadCalm
<1>2. x.depth \in Nat
  BY <1>1
<1>3. PICK l \in LinkType : z.force = Passed(l, Resisted(x.event, x.force))
  BY <1>1, <1>2, OnwardTyped
<1>4. z.depth = x.depth + 1
  BY <1>1, <1>2, OnwardTyped
<1>5. Resisted(z.event, Passed(l, Resisted(x.event, x.force))) < Threshold
  BY <1>1, CalmFades
<1> QED
  BY <1>1, <1>3, <1>4, <1>5

\* What a set of arrivals passes on, and the arrivals over paths of each length.
Passing(arrived, divs) ==
    Felt(UNION {Range(Onward(x, Resisted(x.event, x.force))) :
                   x \in {y \in arrived : Change(y, divs) # "intact"}})
ByLength(at, divs) ==
    at = [depth \in 1..MaxDepth |->
             IF depth = 1 THEN Felt(First(divs)) ELSE Passing(at[depth - 1], divs)]

\* The arrivals over paths of each length are well defined.
LEMMA ByLengthExists == ASSUME NEW divs PROVE \E at : ByLength(at, divs)
<1> DEFINE a1 == Felt(First(divs))
           a2 == Passing(a1, divs)
           a3 == Passing(a2, divs)
           a4 == Passing(a3, divs)
           a5 == Passing(a4, divs)
           at == [depth \in 1..MaxDepth |->
                     CASE depth = 1 -> a1 [] depth = 2 -> a2 [] depth = 3 -> a3
                       [] depth = 4 -> a4 [] OTHER -> a5]
<1>1. a2 = Passing(a1, divs) /\ a3 = Passing(a2, divs) /\ a4 = Passing(a3, divs)
      /\ a5 = Passing(a4, divs) /\ a1 = Felt(First(divs))
  OBVIOUS
<1> HIDE DEF a1, a2, a3, a4, a5
<1>2. /\ DOMAIN at = 1..5 /\ at[1] = a1 /\ at[2] = a2 /\ at[3] = a3 /\ at[4] = a4
      /\ at[5] = a5 /\ at = [depth \in 1..MaxDepth |-> at[depth]]
  BY DEF MaxDepth
<1> HIDE DEF at
<1>3. ASSUME NEW depth \in 1..MaxDepth
      PROVE  at[depth] = IF depth = 1 THEN Felt(First(divs)) ELSE Passing(at[depth - 1], divs)
  <2>1. depth \in {1, 2, 3, 4, 5}
    BY DEF MaxDepth
  <2>2. 2 - 1 = 1 /\ 3 - 1 = 2 /\ 4 - 1 = 3 /\ 5 - 1 = 4
    OBVIOUS
  <2> QED
    BY <1>1, <1>2, <2>1, <2>2
<1>4. ByLength(at, divs)
  BY <1>2, <1>3 DEF ByLength
<1> QED
  BY <1>4

\* So all that arrives does so over at most two links.
LEMMA CalmArrivals ==
    ASSUME Calm, NEW divs
    PROVE  Arrivals(divs) = Felt(First(divs)) \cup Felt(Spread(divs))
<1> DEFINE at == CHOOSE f : ByLength(f, divs)
<1>1. ByLength(at, divs)
  BY ByLengthExists
<1>2. Arrivals(divs) = UNION {at[depth] : depth \in 1..MaxDepth}
  BY DEF Arrivals, ByLength, Passing, First
<1> HIDE DEF at
<1>3. at[1] = Felt(First(divs))
  BY <1>1 DEF ByLength, MaxDepth
<1>4. \A depth \in 2..5 : at[depth] = Passing(at[depth - 1], divs)
  <2> TAKE depth \in 2..5
  <2>1. depth \in 1..MaxDepth /\ depth # 1
    BY DEF MaxDepth
  <2> QED
    BY <1>1, <2>1 DEF ByLength
<1>5. at[2] = Felt(Spread(divs))
  <2>1. at[2] = Passing(at[2 - 1], divs) /\ 2 - 1 = 1
    BY <1>4
  <2>2. at[2] = Passing(Felt(First(divs)), divs)
    BY <1>3, <2>1
  <2> QED
    BY <2>2 DEF Passing, Spread
<1>6. at[3] = {}
  <2>1. at[3] = Passing(at[3 - 1], divs) /\ 3 - 1 = 2
    BY <1>4
  <2>2. at[3] = Passing(Felt(Spread(divs)), divs)
    BY <1>5, <2>1
  <2>3. ASSUME NEW z \in Passing(Felt(Spread(divs)), divs) PROVE FALSE
    <3>1. PICK x \in Spread(divs) : z \in Range(Onward(x, Resisted(x.event, x.force)))
      BY <2>3 DEF Passing, Felt
    <3>2. z.depth = 3 /\ Resisted(z.event, z.force) < Threshold
      BY <3>1, BeyondCalm
    <3>3. Resisted(z.event, z.force) >= Threshold /\ Resisted(z.event, z.force) \in Nat
      <4>1. x.depth \in Nat /\ Resisted(x.event, x.force) \in Nat
        BY <3>1, SpreadCalm
      <4>2. z \in Items
        BY <3>1, <4>1, OnwardTyped
      <4>3. Resisted(z.event, z.force) \in Nat
        BY <4>2, ResistedIs DEF Items
      <4> QED
        BY <2>3, <4>3 DEF Passing, Felt
    <3> DEFINE r == Resisted(z.event, z.force)
    <3>4. r < Threshold /\ r >= Threshold /\ r \in Nat
      BY <3>2, <3>3
    <3> HIDE DEF r
    <3> QED
      BY <3>4 DEF Threshold
  <2> QED
    BY <2>2, <2>3
<1>7. Passing({}, divs) = {}
  BY DEF Passing, Felt
<1>8. at[4] = {} /\ at[5] = {}
  <2>1. at[4] = Passing(at[4 - 1], divs) /\ 4 - 1 = 3
    BY <1>4
  <2>2. at[5] = Passing(at[5 - 1], divs) /\ 5 - 1 = 4
    BY <1>4
  <2> QED
    BY <1>6, <1>7, <2>1, <2>2
<1>9. 1..MaxDepth = {1, 2, 3, 4, 5}
  BY DEF MaxDepth
<1> QED
  BY <1>2, <1>3, <1>5, <1>6, <1>8, <1>9

-----------------------------------------------------------------------------
\* The invariant of the loop at a moderate intensity.  A change is settled when
\* its event has a status that is no better than the change makes it.
Settles(loop, x, divs) ==
    /\ loop.status[x.event] # Untouched
    /\ Order[Change(x, divs)] <= Order[loop.status[x.event].status]

\* The queue holds changes that arrive, or that are not felt.
QueueCalm(loop, divs) ==
    \A x \in Range(loop.queue) :
        \/ x \in First(divs) \cup Spread(divs)
        \/ x.depth = 3 /\ ~(Resisted(x.event, x.force) >= Threshold)
\* The seeds are visited first.
SeedsFirst(queue) ==
    \A i, j \in DOMAIN queue : i < j /\ queue[j].depth = 1 => queue[i].depth = 1
\* A status is that of a change that arrived.
StatusCalm(loop, divs) ==
    \A e \in Known :
        loop.status[e] = Untouched \/
        \E x \in Felt(First(divs)) \cup Felt(Spread(divs)) :
            /\ x.event = e
            /\ loop.status[e] = [status |-> Change(x, divs), depth |-> x.depth,
                                 force |-> Resisted(x.event, x.force)]
\* A change that arrives is settled, or is in the queue, or will be once the
\* change that causes it has been visited.
NothingLost(loop, divs) ==
    /\ \A y \in Felt(First(divs)) : Settles(loop, y, divs) \/ y \in Range(loop.queue)
    /\ \A y \in Felt(First(divs)) : Change(y, divs) # "intact" =>
          \A x \in Felt(Range(Onward(y, Resisted(y.event, y.force)))) :
              \/ Settles(loop, x, divs)
              \/ x \in Range(loop.queue)
              \/ y \in Range(loop.queue) /\ loop.status[y.event] = Untouched
CalmLoops(divs) ==
    {loop \in Loops : /\ QueueCalm(loop, divs) /\ SeedsFirst(loop.queue)
                      /\ StatusCalm(loop, divs) /\ NothingLost(loop, divs)}

\* The invariant holds at first.
LEMMA BeginCalm ==
    ASSUME Calm, NEW S, NEW divs \in Seq(S)
    PROVE  Begin(divs) \in CalmLoops(divs)
<1> DEFINE b == Begin(divs)
<1>1. /\ b \in Loops /\ b.queue \in Seq(Items) /\ Range(b.queue) = First(divs)
      /\ \A e \in Known : b.status[e] = Untouched
  BY BeginTyped
<1> HIDE DEF b
<1>2. QueueCalm(b, divs)
  BY <1>1 DEF QueueCalm
<1>3. SeedsFirst(b.queue)
  <2>1. \A i \in DOMAIN b.queue : b.queue[i] \in First(divs)
    BY <1>1 DEF Range
  <2>2. \A i \in DOMAIN b.queue : b.queue[i].depth = 1
    BY <2>1, FirstCalm
  <2> QED
    BY <2>2 DEF SeedsFirst
<1>4. StatusCalm(b, divs)
  BY <1>1 DEF StatusCalm
<1>5. NothingLost(b, divs)
  <2>1. \A y \in Felt(First(divs)) : y \in First(divs)
    BY DEF Felt
  <2>2. \A y \in First(divs) : y.event \in Known
    BY FirstTyped DEF Items
  <2> QED
    BY <1>1, <2>1, <2>2 DEF NothingLost
<1> QED
  BY <1>1, <1>2, <1>3, <1>4, <1>5 DEF CalmLoops, b

Arrived(divs) == Felt(First(divs)) \cup Felt(Spread(divs))

\* The statuses are ordered by numbers, intact the least.
LEMMA OrderTyped == Order["intact"] = 0 /\ \A s \in DOMAIN Order : Order[s] \in Nat
BY DEF Order

\* A change that arrives.
LEMMA ArrivedCalm ==
    ASSUME Calm, NEW divs, NEW x \in Arrived(divs)
    PROVE  /\ x.event \in Known /\ Change(x, divs) \in DOMAIN Order
           /\ Order[Change(x, divs)] \in Nat
           /\ Change(x, divs) = "intact" <=> ViolatesProtected(x.event)
<1>1. /\ x \in Items
      /\ Resisted(x.event, x.force) \in Nat /\ Resisted(x.event, x.force) < 5000
  <2>1. x \in First(divs) \/ x \in Spread(divs)
    BY DEF Arrived, Felt
  <2> QED
    BY <2>1, FirstCalm, SpreadCalm
<1>2. x.event \in Known
  BY <1>1 DEF Items
<1>3. Change(x, divs) = "intact" <=> ViolatesProtected(x.event)
  BY <1>1, BecomesCalm DEF Change
<1>4. Change(x, divs) \in DOMAIN Order
  BY BecomesOneOf DEF Change
<1> QED
  BY <1>2, <1>3, <1>4, OrderTyped

\* The order of the queue, over a round.
LEMMA SeedsFirstRound ==
    ASSUME NEW queue \in Seq(Items), queue # <<>>, SeedsFirst(queue), NEW on \in Seq(Items),
           \A x \in Range(on) : x.depth # 1
    PROVE  /\ SeedsFirst(Tail(queue)) /\ SeedsFirst(Tail(queue) \o on)
           /\ Head(queue).depth # 1 => \A x \in Range(queue) : x.depth # 1
<1> DEFINE n == Len(queue) - 1
<1>1. /\ Len(queue) \in Nat \ {0} /\ DOMAIN queue = 1..Len(queue) /\ Head(queue) = queue[1]
      /\ Tail(queue) \in Seq(Items) /\ Len(Tail(queue)) = n
      /\ \A i \in 1..n : Tail(queue)[i] = queue[i + 1]
  BY EmptySeq, LenProperties, HeadTailProperties
<1>2. Len(on) \in Nat /\ DOMAIN on = 1..Len(on) /\ DOMAIN Tail(queue) = 1..n
  BY <1>1, LenProperties
<1>3. SeedsFirst(Tail(queue))
  <2> SUFFICES ASSUME NEW i \in 1..n, NEW j \in 1..n, i < j, queue[j + 1].depth = 1
               PROVE  queue[i + 1].depth = 1
    BY <1>1, <1>2 DEF SeedsFirst
  <2>1. i + 1 \in DOMAIN queue /\ j + 1 \in DOMAIN queue /\ i + 1 < j + 1
    BY <1>1
  <2> QED
    BY <2>1 DEF SeedsFirst
<1>4. SeedsFirst(Tail(queue) \o on)
  <2> DEFINE next == Tail(queue) \o on
             rest == Tail(queue)
  <2>1. /\ next \in Seq(Items) /\ Len(next) = n + Len(on)
        /\ \A i \in 1..(n + Len(on)) : next[i] = IF i <= n THEN rest[i] ELSE on[i - n]
    BY <1>1, ConcatProperties
  <2>2. DOMAIN next = 1..(n + Len(on))
    <3> HIDE DEF next
    <3> QED
      BY <2>1, LenProperties
  <2> HIDE DEF next, rest
  <2> SUFFICES ASSUME NEW i \in 1..(n + Len(on)), NEW j \in 1..(n + Len(on)), i < j,
                      next[j].depth = 1
               PROVE  next[i].depth = 1
    BY <2>2 DEF SeedsFirst, next
  <2>3. n \in Nat
    BY <1>1
  <2>4. CASE j <= n
    <3>1. i \in DOMAIN rest /\ j \in DOMAIN rest /\ next[i] = rest[i] /\ next[j] = rest[j]
      BY <1>2, <2>1, <2>3, <2>4 DEF rest
    <3> QED
      BY <1>3, <3>1 DEF SeedsFirst, rest
  <2>5. CASE ~(j <= n)
    <3>1. j - n \in DOMAIN on /\ next[j] = on[j - n]
      BY <1>2, <2>1, <2>3, <2>5
    <3>2. next[j].depth # 1
      BY <3>1 DEF Range
    <3> QED
      BY <3>2
  <2> QED
    BY <2>4, <2>5
<1>5. ASSUME Head(queue).depth # 1, NEW x \in Range(queue) PROVE x.depth # 1
  <2>1. PICK j \in DOMAIN queue : x = queue[j]
    BY DEF Range
  <2>2. 1 \in DOMAIN queue /\ (j = 1 \/ 1 < j)
    BY <1>1
  <2> QED
    BY <1>1, <1>5, <2>1, <2>2 DEF SeedsFirst
<1> QED
  BY <1>3, <1>4, <1>5

\* The item at the head is felt and arrived, or is dropped.
LEMMA HeadCalm ==
    ASSUME Calm, NEW divs, NEW loop \in CalmLoops(divs), loop.queue # <<>>
    PROVE  LET item == Head(loop.queue)
           IN  /\ loop \in Loops /\ item \in Items /\ item.event \in Known
               /\ Range(loop.queue) = {item} \cup Range(Tail(loop.queue))
               /\ Dropped(loop) => ~(Resisted(item.event, item.force) >= Threshold)
               /\ ~Dropped(loop) => item \in Arrived(divs)
               /\ New(loop, divs) = Change(item, divs)
               /\ Impact(loop) = Resisted(item.event, item.force)
<1> DEFINE item == Head(loop.queue)
           r == Resisted(item.event, item.force)
<1>1. /\ loop \in Loops /\ QueueCalm(loop, divs)
  BY DEF CalmLoops
<1>2. /\ item \in Items /\ item.event \in Known
      /\ Range(loop.queue) = {item} \cup Range(Tail(loop.queue))
  BY <1>1, HeadTyped
<1>3. /\ New(loop, divs) = Change(item, divs) /\ Impact(loop) = r
  BY DEF New, Impact, Change
<1>4. r \in Nat
  BY <1>2, ResistedIs DEF Items
<1>5. \/ item \in First(divs) \cup Spread(divs)
      \/ item.depth = 3 /\ ~(r >= Threshold)
  BY <1>1, <1>2 DEF QueueCalm
<1>6. item.depth \in {1, 2, 3}
  <2>1. \A x \in First(divs) : x.depth = 1
    BY FirstCalm
  <2>2. \A x \in Spread(divs) : x.depth = 2
    BY SpreadCalm
  <2> HIDE DEF r, item
  <2> QED
    BY <1>5, <2>1, <2>2
<1>7. ~(item.depth > MaxDepth)
  BY <1>6 DEF MaxDepth
<1>8. Dropped(loop) <=> r < Threshold
  BY <1>3, <1>7 DEF Dropped
<1>9. r < Threshold <=> ~(r >= Threshold)
  <2> HIDE DEF r
  <2> QED
    BY <1>4 DEF Threshold
<1>10. ~Dropped(loop) => item \in Arrived(divs)
  BY <1>5, <1>8, <1>9 DEF Arrived, Felt
<1> QED
  BY <1>1, <1>2, <1>3, <1>8, <1>9, <1>10

\* Setting a status settles the item, and unsettles nothing that arrived.
LEMMA SeenCalm ==
    ASSUME Calm, NEW divs, NEW loop \in CalmLoops(divs), loop.queue # <<>>, ~Dropped(loop),
           New(loop, divs) = "intact" \/ Worsens(loop, divs),
           NEW next, next.status = Seen(loop, divs)
    PROVE  /\ Settles(next, Head(loop.queue), divs) /\ StatusCalm(next, divs)
           /\ \A x \in Arrived(divs) : Settles(loop, x, divs) => Settles(next, x, divs)
           /\ \A e \in Known \ {Head(loop.queue).event} : next.status[e] = loop.status[e]
<1> DEFINE item == Head(loop.queue)
           new == New(loop, divs)
           set == [status |-> new, depth |-> item.depth, force |-> Impact(loop)]
<1>1. /\ loop \in Loops /\ item \in Items /\ item.event \in Known /\ item \in Arrived(divs)
      /\ new = Change(item, divs) /\ Impact(loop) = Resisted(item.event, item.force)
      /\ loop.status \in [Known -> Entry]
  BY HeadCalm DEF Loops
<1>2. next.status = [loop.status EXCEPT ![item.event] = set]
  BY DEF Seen
<1>3. /\ next.status[item.event] = set
      /\ \A e \in Known : e # item.event => next.status[e] = loop.status[e]
  BY <1>1, <1>2
<1>4. new \in DOMAIN Order /\ Order[new] \in Nat /\ new # "untouched"
  BY <1>1, ArrivedCalm DEF Order
<1>5. set # Untouched /\ set.status = new
  BY <1>4 DEF Untouched
<1>6. Settles(next, item, divs)
  BY <1>1, <1>3, <1>4, <1>5 DEF Settles
<1>7. StatusCalm(loop, divs)
  BY DEF CalmLoops
<1>8. StatusCalm(next, divs)
  <2> SUFFICES ASSUME NEW e \in Known, next.status[e] # Untouched
               PROVE  \E x \in Felt(First(divs)) \cup Felt(Spread(divs)) :
                         /\ x.event = e
                         /\ next.status[e] = [status |-> Change(x, divs), depth |-> x.depth,
                                              force |-> Resisted(x.event, x.force)]
    BY DEF StatusCalm
  <2>1. CASE e = item.event
    BY <1>1, <1>3, <2>1 DEF Arrived
  <2>2. CASE e # item.event
    BY <1>3, <1>7, <2>2 DEF StatusCalm
  <2> QED
    BY <2>1, <2>2
<1>9. ASSUME NEW x \in Arrived(divs), Settles(loop, x, divs) PROVE Settles(next, x, divs)
  <2>1. /\ x.event \in Known /\ Change(x, divs) \in DOMAIN Order
        /\ Order[Change(x, divs)] \in Nat
        /\ Change(x, divs) = "intact" <=> ViolatesProtected(x.event)
    BY ArrivedCalm
  <2>2. CASE x.event # item.event
    BY <1>3, <1>9, <2>1, <2>2 DEF Settles
  <2>3. CASE x.event = item.event /\ new = "intact"
    <3>1. Change(x, divs) = "intact"
      BY <1>1, <2>1, <2>3, ArrivedCalm
    <3> QED
      BY <1>3, <1>5, <2>3, <3>1, OrderTyped DEF Settles
  <2>4. CASE x.event = item.event /\ Worsens(loop, divs)
    <3> DEFINE old == loop.status[item.event]
    <3>1. old # Untouched /\ Order[Change(x, divs)] <= Order[old.status]
      BY <1>9, <2>4 DEF Settles
    <3>2. Order[old.status] < Order[new]
      BY <2>4, <3>1 DEF Worsens, Worse
    <3>3. old.status \in DOMAIN Order
      <4>1. PICK y \in Arrived(divs) : old = [status |-> Change(y, divs), depth |-> y.depth,
                                              force |-> Resisted(y.event, y.force)]
        BY <1>1, <1>7, <3>1 DEF StatusCalm, Arrived
      <4> QED
        BY <4>1, ArrivedCalm
    <3>4. Order[Change(x, divs)] <= Order[new]
      <4> HIDE DEF old, new
      <4> QED
        BY <1>4, <2>1, <3>1, <3>2, <3>3, OrderTyped
    <3> QED
      BY <1>3, <1>5, <2>4, <3>4 DEF Settles
  <2> QED
    BY <2>2, <2>3, <2>4
<1> QED
  BY <1>3, <1>6, <1>8, <1>9

\* What a round must do so that nothing is lost by it.
LEMMA NothingLostRound ==
    ASSUME Calm, NEW divs, NEW loop, NothingLost(loop, divs), loop.queue # <<>>,
           Range(loop.queue) = {Head(loop.queue)} \cup Range(Tail(loop.queue)),
           NEW next, Range(Tail(loop.queue)) \subseteq Range(next.queue),
           \/ Settles(next, Head(loop.queue), divs)
           \/ ~(Resisted(Head(loop.queue).event, Head(loop.queue).force) >= Threshold),
           \A x \in Arrived(divs) : Settles(loop, x, divs) => Settles(next, x, divs),
           \A y \in Felt(First(divs)) :
              Change(y, divs) # "intact" /\ y \in Range(loop.queue)
                 /\ loop.status[y.event] = Untouched
              => \/ y \in Range(next.queue) /\ next.status[y.event] = Untouched
                 \/ Range(Onward(y, Resisted(y.event, y.force))) \subseteq Range(next.queue)
    PROVE  NothingLost(next, divs)
<1> DEFINE item == Head(loop.queue)
<1>1. ASSUME NEW x, Resisted(x.event, x.force) >= Threshold, x \in Range(loop.queue)
      PROVE  Settles(next, x, divs) \/ x \in Range(next.queue)
  <2>1. CASE x = item
    BY <1>1, <2>1
  <2>2. CASE x # item
    BY <1>1, <2>2
  <2> QED
    BY <2>1, <2>2
<1>2. ASSUME NEW y \in Felt(First(divs))
      PROVE  Settles(next, y, divs) \/ y \in Range(next.queue)
  <2>1. y \in Arrived(divs) /\ Resisted(y.event, y.force) >= Threshold
    BY DEF Arrived, Felt
  <2> QED
    BY <1>1, <2>1 DEF NothingLost
<1>3. ASSUME NEW y \in Felt(First(divs)), Change(y, divs) # "intact",
             NEW x \in Felt(Range(Onward(y, Resisted(y.event, y.force))))
      PROVE  \/ Settles(next, x, divs)
             \/ x \in Range(next.queue)
             \/ y \in Range(next.queue) /\ next.status[y.event] = Untouched
  <2>1. x \in Arrived(divs) /\ Resisted(x.event, x.force) >= Threshold
        /\ x \in Range(Onward(y, Resisted(y.event, y.force)))
    BY <1>3 DEF Arrived, Felt, Spread
  <2>2. \/ Settles(loop, x, divs)
        \/ x \in Range(loop.queue)
        \/ y \in Range(loop.queue) /\ loop.status[y.event] = Untouched
    BY <1>3 DEF NothingLost
  <2>3. CASE Settles(loop, x, divs)
    BY <2>1, <2>3
  <2>4. CASE x \in Range(loop.queue)
    BY <1>1, <2>1, <2>4
  <2>5. CASE y \in Range(loop.queue) /\ loop.status[y.event] = Untouched
    BY <1>3, <2>1, <2>5
  <2> QED
    BY <2>2, <2>3, <2>4, <2>5
<1> QED
  BY <1>2, <1>3 DEF NothingLost

\* The invariant is kept by each of the four kinds of round.
LEMMA RoundCalm ==
    ASSUME Calm, NEW divs, NEW loop \in CalmLoops(divs), loop.queue # <<>>
    PROVE  Round(loop, divs) \in CalmLoops(divs)
<1> DEFINE item == Head(loop.queue)
           rest == Tail(loop.queue)
           on == Onward(item, Impact(loop))
           next == Round(loop, divs)
           more == rest \o on
<1>1. /\ loop \in Loops /\ QueueCalm(loop, divs) /\ SeedsFirst(loop.queue)
      /\ StatusCalm(loop, divs) /\ NothingLost(loop, divs)
  BY DEF CalmLoops
<1>2. /\ item \in Items /\ item.event \in Known
      /\ Range(loop.queue) = {item} \cup Range(rest)
      /\ Dropped(loop) => ~(Resisted(item.event, item.force) >= Threshold)
      /\ ~Dropped(loop) => item \in Arrived(divs)
      /\ New(loop, divs) = Change(item, divs)
      /\ Impact(loop) = Resisted(item.event, item.force)
  BY HeadCalm
<1>3. /\ loop.queue \in Seq(Items) /\ rest \in Seq(Items) /\ on \in Seq(Items)
      /\ next \in Loops
  BY <1>1, HeadTyped, RoundTyped DEF Loops
<1>4. Range(more) = Range(rest) \cup Range(on)
  <2> HIDE DEF rest, on
  <2> QED
    BY <1>3, RangeOfConcat
\* The depths of what the item passes on.
<1>5. item.depth \in {1, 2, 3}
  <2>1. \A x \in First(divs) : x.depth = 1
    BY FirstCalm
  <2>2. \A x \in Spread(divs) : x.depth = 2
    BY SpreadCalm
  <2>3. item \in First(divs) \/ item \in Spread(divs) \/ item.depth = 3
    BY <1>1, <1>2 DEF QueueCalm
  <2> HIDE DEF item
  <2> QED
    BY <2>1, <2>2, <2>3
<1>6. \A x \in Range(on) : x.depth # 1
  <2>1. item.depth \in Nat /\ Impact(loop) \in Nat
    BY <1>1, HeadTyped
  <2>2. \A x \in Range(on) : x.depth = item.depth + 1
    BY <2>1, OnwardTyped
  <2> HIDE DEF item, on
  <2> QED
    BY <1>5, <2>2
<1>7. /\ SeedsFirst(rest) /\ SeedsFirst(more)
      /\ item.depth # 1 => \A x \in Range(loop.queue) : x.depth # 1
  <2> HIDE DEF on
  <2> QED
    BY <1>1, <1>3, <1>6, SeedsFirstRound
<1>8. \A x \in Range(rest) :
         \/ x \in First(divs) \cup Spread(divs)
         \/ x.depth = 3 /\ ~(Resisted(x.event, x.force) >= Threshold)
  BY <1>1, <1>2 DEF QueueCalm
<1> HIDE DEF next
<1> SUFFICES /\ QueueCalm(next, divs) /\ SeedsFirst(next.queue)
             /\ StatusCalm(next, divs) /\ NothingLost(next, divs)
  BY <1>3 DEF CalmLoops, next
<1>9. CASE Dropped(loop)
  <2>1. next.status = loop.status /\ next.queue = rest
    <3>1. Round(loop, divs) = [status |-> loop.status,
                               queue |-> Tail(loop.queue)]
      BY <1>9, RoundParts
    <3> HIDE DEF item, rest, on, more
    <3>2. next = [status |-> loop.status, queue |-> rest]
      BY <3>1 DEF next, item, rest, on, more
    <3> QED
      BY <3>2
  <2>2. QueueCalm(next, divs) /\ SeedsFirst(next.queue)
    BY <1>7, <1>8, <2>1 DEF QueueCalm
  <2>3. StatusCalm(next, divs)
    BY <1>1, <2>1 DEF StatusCalm
  <2>4. \A x : Settles(loop, x, divs) => Settles(next, x, divs)
    BY <2>1 DEF Settles
  <2>5. \A y \in Felt(First(divs)) :
           y \in Range(loop.queue) /\ loop.status[y.event] = Untouched
           => y \in Range(next.queue) /\ next.status[y.event] = Untouched
    BY <1>2, <1>9, <2>1 DEF Felt
  <2>6. NothingLost(next, divs)
    BY <1>1, <1>2, <1>9, <2>1, <2>4, <2>5, NothingLostRound
  <2> QED
    BY <2>2, <2>3, <2>6
<1>10. CASE ~Dropped(loop) /\ New(loop, divs) = "intact"
  <2>1. next.status = Seen(loop, divs) /\ next.queue = rest
    <3>1. Round(loop, divs) = [status |-> Seen(loop, divs),
                               queue |-> Tail(loop.queue)]
      BY <1>10, RoundParts
    <3> HIDE DEF item, rest, on, more
    <3>2. next = [status |-> Seen(loop, divs), queue |-> rest]
      BY <3>1 DEF next, item, rest, on, more
    <3> QED
      BY <3>2
  <2>2. QueueCalm(next, divs) /\ SeedsFirst(next.queue)
    BY <1>7, <1>8, <2>1 DEF QueueCalm
  <2>3. /\ Settles(next, item, divs) /\ StatusCalm(next, divs)
        /\ \A x \in Arrived(divs) : Settles(loop, x, divs) => Settles(next, x, divs)
        /\ \A e \in Known \ {item.event} : next.status[e] = loop.status[e]
    BY <1>10, <2>1, SeenCalm
  <2>4. ASSUME NEW y \in Felt(First(divs)), Change(y, divs) # "intact",
               y \in Range(loop.queue), loop.status[y.event] = Untouched
        PROVE  y \in Range(next.queue) /\ next.status[y.event] = Untouched
    <3>1. y \in Arrived(divs)
      BY DEF Arrived
    <3>2. ViolatesProtected(item.event) /\ ~ViolatesProtected(y.event) /\ y.event \in Known
      BY <1>2, <1>10, <2>4, <3>1, ArrivedCalm
    <3>3. y.event # item.event
      BY <3>2
    <3>4. y # item
      BY <3>3
    <3> QED
      BY <1>2, <2>1, <2>3, <2>4, <3>2, <3>3, <3>4
  <2>5. NothingLost(next, divs)
    BY <1>1, <1>2, <2>1, <2>3, <2>4, NothingLostRound
  <2> QED
    BY <2>2, <2>3, <2>5
<1>11. CASE ~Dropped(loop) /\ New(loop, divs) # "intact" /\ ~Worsens(loop, divs)
  <2>1. next.status = loop.status /\ next.queue = rest
    <3>1. Round(loop, divs) = [status |-> loop.status,
                               queue |-> Tail(loop.queue)]
      BY <1>11, RoundParts
    <3> HIDE DEF item, rest, on, more
    <3>2. next = [status |-> loop.status, queue |-> rest]
      BY <3>1 DEF next, item, rest, on, more
    <3> QED
      BY <3>2
  <2>2. QueueCalm(next, divs) /\ SeedsFirst(next.queue)
    BY <1>7, <1>8, <2>1 DEF QueueCalm
  <2>3. StatusCalm(next, divs)
    BY <1>1, <2>1 DEF StatusCalm
  <2>4. \A x : Settles(loop, x, divs) => Settles(next, x, divs)
    BY <2>1 DEF Settles
  <2> DEFINE old == loop.status[item.event]
             new == New(loop, divs)
  <2>5. old # Untouched /\ ~(Order[old.status] < Order[new])
    BY <1>11 DEF Worsens, Worse
  <2>6. Settles(next, item, divs)
    <3>1. PICK y \in Arrived(divs) : old = [status |-> Change(y, divs), depth |-> y.depth,
                                            force |-> Resisted(y.event, y.force)]
      BY <1>1, <1>2, <2>5 DEF StatusCalm, Arrived
    <3>2. Order[old.status] \in Nat /\ Order[new] \in Nat
      BY <1>2, <1>11, <3>1, ArrivedCalm
    <3>3. Order[new] <= Order[old.status]
      <4> DEFINE a == Order[new]
                 b == Order[old.status]
      <4>1. a \in Nat /\ b \in Nat /\ ~(b < a)
        BY <2>5, <3>2
      <4> HIDE DEF a, b
      <4>2. a <= b
        BY <4>1
      <4> QED
        BY <4>2 DEF a, b
    <3> QED
      BY <1>2, <2>1, <2>5, <3>3 DEF Settles
  <2>7. \A y \in Felt(First(divs)) :
           y \in Range(loop.queue) /\ loop.status[y.event] = Untouched
           => y \in Range(next.queue) /\ next.status[y.event] = Untouched
    BY <1>2, <2>1, <2>5
  <2>8. NothingLost(next, divs)
    BY <1>1, <1>2, <2>1, <2>4, <2>6, <2>7, NothingLostRound
  <2> QED
    BY <2>2, <2>3, <2>8
<1>12. CASE ~Dropped(loop) /\ New(loop, divs) # "intact" /\ Worsens(loop, divs)
  <2>1. next.status = Seen(loop, divs) /\ next.queue = more
    <3>1. Round(loop, divs) = [status |-> Seen(loop, divs),
                               queue |-> Tail(loop.queue) \o Onward(Head(loop.queue), Impact(loop))]
      BY <1>12, RoundParts
    <3> HIDE DEF item, rest, on, more
    <3>2. next = [status |-> Seen(loop, divs), queue |-> more]
      BY <3>1 DEF next, item, rest, on, more
    <3> QED
      BY <3>2
  <2>2. item \in Arrived(divs) /\ on = Onward(item, Resisted(item.event, item.force))
        /\ Change(item, divs) # "intact"
    BY <1>2, <1>12
  <2>3. \A x \in Range(on) :
           \/ x \in First(divs) \cup Spread(divs)
           \/ x.depth = 3 /\ ~(Resisted(x.event, x.force) >= Threshold)
    <3>1. CASE item \in Felt(First(divs))
      BY <2>2, <3>1 DEF Spread
    <3>2. CASE item \in Felt(Spread(divs))
      <4> SUFFICES ASSUME NEW x \in Range(on)
                   PROVE  x.depth = 3 /\ ~(Resisted(x.event, x.force) >= Threshold)
        OBVIOUS
      <4>1. item \in Spread(divs)
        BY <3>2 DEF Felt
      <4>2. x.depth = 3 /\ Resisted(x.event, x.force) < Threshold
        BY <2>2, <4>1, BeyondCalm
      <4>3. Resisted(x.event, x.force) \in Nat
        <5>1. item.depth \in Nat /\ Impact(loop) \in Nat
          BY <1>1, HeadTyped
        <5>2. x \in Items
          BY <5>1, OnwardTyped
        <5> QED
          BY <5>2, ResistedIs DEF Items
      <4> DEFINE r == Resisted(x.event, x.force)
      <4>4. r \in Nat /\ r < Threshold
        BY <4>2, <4>3
      <4> HIDE DEF r
      <4>5. ~(r >= Threshold)
        BY <4>4 DEF Threshold
      <4> QED
        BY <4>2, <4>5 DEF r
    <3> QED
      BY <2>2, <3>1, <3>2 DEF Arrived
  <2>4. QueueCalm(next, divs) /\ SeedsFirst(next.queue)
    BY <1>4, <1>7, <1>8, <2>1, <2>3 DEF QueueCalm
  <2>5. /\ Settles(next, item, divs) /\ StatusCalm(next, divs)
        /\ \A x \in Arrived(divs) : Settles(loop, x, divs) => Settles(next, x, divs)
        /\ \A e \in Known \ {item.event} : next.status[e] = loop.status[e]
    BY <1>12, <2>1, SeenCalm
  <2>6. ASSUME NEW y \in Felt(First(divs)), Change(y, divs) # "intact",
               y \in Range(loop.queue), loop.status[y.event] = Untouched
        PROVE  \/ y \in Range(next.queue) /\ next.status[y.event] = Untouched
               \/ Range(Onward(y, Resisted(y.event, y.force))) \subseteq Range(next.queue)
    <3>1. y \in First(divs)
      BY DEF Felt
    <3>2. y \in Items /\ y.depth = 1 /\ y = Item(y.event, 1, Intensity)
      BY <3>1, FirstCalm
    <3>3. CASE y.event = item.event
      <4>1. item.depth = 1
        BY <1>7, <2>6, <3>2
      <4>2. item \in First(divs)
        <5>1. \A x \in Spread(divs) : x.depth = 2
          BY SpreadCalm
        <5> QED
          BY <2>2, <4>1, <5>1 DEF Arrived, Felt
      <4>3. item = Item(item.event, 1, Intensity)
        BY <4>2, FirstCalm
      <4>4. y = item
        BY <3>2, <3>3, <4>3
      <4> HIDE DEF item, on
      <4> QED
        BY <1>4, <2>1, <2>2, <4>4
    <3>4. CASE y.event # item.event
      <4>1. y # item /\ y.event \in Known
        BY <3>2, <3>4 DEF Items
      <4> HIDE DEF item, on, rest, more
      <4> QED
        BY <1>2, <1>4, <2>1, <2>5, <2>6, <3>4, <4>1
    <3> QED
      BY <3>3, <3>4
  <2>7. NothingLost(next, divs)
    <3>1. Range(rest) \subseteq Range(next.queue)
      BY <1>4, <2>1
    <3> QED
      BY <1>1, <1>2, <2>5, <2>6, <3>1, NothingLostRound
  <2> QED
    BY <2>4, <2>5, <2>7
<1> QED
  BY <1>9, <1>10, <1>11, <1>12

\* What the propagation returns at a moderate intensity: for each event that a
\* change reaches, what the worst of the changes makes of it.
LEMMA CalmPropagate ==
    ASSUME Calm, NEW S, NEW divs \in Seq(S)
    PROVE  /\ DOMAIN Propagate(divs) \subseteq Known
           /\ \A e \in DOMAIN Propagate(divs) :
                 \E x \in Arrivals(divs) : /\ x.event = e
                                           /\ Propagate(divs)[e].status = Change(x, divs)
           /\ \A x \in Arrivals(divs) :
                 /\ x.event \in DOMAIN Propagate(divs)
                 /\ Order[Change(x, divs)] <= Order[Propagate(divs)[x.event].status]
<1>1. Begin(divs) \in CalmLoops(divs)
  BY BeginCalm
<1>2. \A loop \in CalmLoops(divs) : loop.queue # <<>> => Round(loop, divs) \in CalmLoops(divs)
  BY RoundCalm
<1>3. CalmLoops(divs) \in SUBSET Loops
  BY DEF CalmLoops
<1>4. PICK loop \in CalmLoops(divs) :
         /\ loop.queue = <<>>
         /\ Propagate(divs) = [e \in Touched(loop) |-> loop.status[e]]
  BY <1>1, <1>2, <1>3, PropagateEnds
<1>5. /\ Arrivals(divs) = Felt(First(divs)) \cup Felt(Spread(divs))
      /\ StatusCalm(loop, divs) /\ NothingLost(loop, divs)
  BY CalmArrivals DEF CalmLoops
<1>6. Range(loop.queue) = {}
  BY <1>4 DEF Range
<1>7. \A x \in Arrivals(divs) : x.event \in Known
  BY <1>5, ArrivedCalm DEF Arrived
<1>8. ASSUME NEW e \in DOMAIN Propagate(divs)
      PROVE  \E x \in Arrivals(divs) : /\ x.event = e
                                       /\ Propagate(divs)[e].status = Change(x, divs)
  <2>1. e \in Known /\ loop.status[e] # Untouched /\ Propagate(divs)[e] = loop.status[e]
    BY <1>4, <1>8 DEF Touched
  <2>2. PICK x \in Arrivals(divs) :
           /\ x.event = e
           /\ loop.status[e] = [status |-> Change(x, divs), depth |-> x.depth,
                                force |-> Resisted(x.event, x.force)]
    BY <1>5, <2>1 DEF StatusCalm
  <2> QED
    BY <2>1, <2>2
<1>9. ASSUME NEW x \in Arrivals(divs) PROVE Settles(loop, x, divs)
  <2>1. CASE x \in Felt(First(divs))
    BY <1>5, <1>6, <2>1 DEF NothingLost
  <2>2. CASE x \in Felt(Spread(divs))
    <3>1. PICK y \in Felt(First(divs)) :
            /\ Change(y, divs) # "intact"
            /\ x \in Felt(Range(Onward(y, Resisted(y.event, y.force))))
      BY <2>2 DEF Felt, Spread
    <3> QED
      BY <1>5, <1>6, <3>1 DEF NothingLost
  <2> QED
    BY <1>5, <2>1, <2>2
<1>10. ASSUME NEW x \in Arrivals(divs)
       PROVE  /\ x.event \in DOMAIN Propagate(divs)
              /\ Order[Change(x, divs)] <= Order[Propagate(divs)[x.event].status]
  BY <1>4, <1>7, <1>9 DEF Settles, Touched
<1> QED
  BY <1>4, <1>8, <1>10 DEF Touched

\* The maximum of a set of integers is the member that none exceeds.
LEMMA MaxIs ==
    ASSUME NEW T \in SUBSET Int, NEW m \in T, \A n \in T : n <= m
    PROVE  Max(T) = m
<1>1. \A z : (z \in T /\ \A n \in T : n <= z) => z = m
  OBVIOUS
<1> QED
  BY <1>1 DEF Max

\* So the worst that arrives at an event is what it ends with.
LEMMA WorstIs ==
    ASSUME Calm, NEW S, NEW divs \in Seq(S), NEW e \in Known
    PROVE  Worst(e, divs)
             = IF e \in DOMAIN Propagate(divs) THEN Order[Propagate(divs)[e].status] ELSE 0
<1> DEFINE at == {y \in Arrivals(divs) : y.event = e}
           T == {0} \cup {Order[Change(x, divs)] : x \in at}
<1>1. Worst(e, divs) = Max(T)
  BY DEF Worst
<1>2. \A x \in Arrivals(divs) : Order[Change(x, divs)] \in Nat
  BY CalmArrivals, ArrivedCalm DEF Arrived
<1>3. T \in SUBSET Int /\ 0 \in T /\ \A n \in T : n = 0 \/ \E x \in at : n = Order[Change(x, divs)]
  BY <1>2
<1>4. CASE e \in DOMAIN Propagate(divs)
  <2> DEFINE m == Order[Propagate(divs)[e].status]
  <2>1. PICK x \in at : m = Order[Change(x, divs)]
    BY <1>4, CalmPropagate
  <2>2. m \in T /\ m \in Nat
    BY <1>2, <2>1
  <2>3. \A y \in at : Order[Change(y, divs)] <= m
    BY CalmPropagate
  <2> HIDE DEF m, at, T
  <2>4. \A n \in T : n <= m
    BY <1>3, <2>2, <2>3
  <2>5. Max(T) = m
    BY <1>3, <2>2, <2>4, MaxIs
  <2> QED
    BY <1>1, <1>4, <2>5 DEF m
<1>5. CASE e \notin DOMAIN Propagate(divs)
  <2>1. at = {}
    BY <1>5, CalmPropagate
  <2>2. T = {0}
    BY <2>1
  <2> HIDE DEF T
  <2>3. Max(T) = 0
    BY <2>2, MaxIs
  <2> QED
    BY <1>1, <1>5, <2>3
<1> QED
  BY <1>4, <1>5

\* At a moderate intensity, whatever the graph and the POD, the order in which
\* propagate visits its queue does not matter: an event ends with the worst of
\* the changes that reach it over any path (the merge of _worse_status).
THEOREM SpreadCorrect == ASSUME Calm PROVE Spec => []SpreadIsOrderFree
<1>1. CycleInv => SpreadIsOrderFree
  <2> SUFFICES ASSUME CycleInv PROVE SpreadIsOrderFree
    OBVIOUS
  <2>1. ledger.divs \in Histories
    BY DivsAreHistories DEF CycleInv, FilesOK, LedgerOK
  <2> DEFINE h == ledger.divs
  <2>2. h \in Seq(Entries) /\ Propagated(h) = Propagate(h)
    BY <2>1, HistoryList, CompositionAssumption DEF DivsOK
  <2> HIDE DEF h
  <2>3. ASSUME NEW e \in Known
        PROVE  Worst(e, h)
                 = IF e \in DOMAIN Propagated(h) THEN Order[Propagated(h)[e].status] ELSE 0
    BY <2>2, WorstIs
  <2>4. \A e \in Known : <<h, e, Worst(e, h)>> \in WorstReaching
    BY <2>1 DEF WorstReaching, h
  <2> QED
    BY <2>3, <2>4 DEF SpreadIsOrderFree, h
<1>2. Spec => []CycleInv
  BY CycleInvariant, PropagationIsWellFormed
<1> QED
  BY <1>1, <1>2, PTL

-----------------------------------------------------------------------------
\* A further divergence, when the POD is of one mind.
LEMMA MinIn ==
    ASSUME NEW T \in SUBSET Nat, T # {}
    PROVE  Min(T) \in T
<1> DEFINE Good == {n \in Nat : \A m \in 0..n : m \notin T}
<1>1. SUFFICES ASSUME ~\E x \in T : \A y \in T : x =< y PROVE FALSE
  BY DEF Min
<1>2. 0 \in Good
  BY <1>1
<1>3. ASSUME NEW n \in Nat, n \in Good PROVE n + 1 \in Good
  <2>1. ASSUME n + 1 \in T PROVE FALSE
    <3>1. \A y \in T : n + 1 =< y
      <4> SUFFICES ASSUME NEW y \in T, y < n + 1 PROVE FALSE
        OBVIOUS
      <4>1. y \in 0..n
        OBVIOUS
      <4> QED
        BY <1>3, <4>1
    <3> QED
      BY <1>1, <2>1, <3>1
  <2> QED
    BY <1>3, <2>1
<1>4. \A n \in T : n \in Good
  <2> TAKE n \in T
  <2> HIDE DEF Good
  <2> QED
    BY <1>2, <1>3, Induction
<1>5. PICK n \in T : n \in Good
  BY <1>4
<1>6. n \in 0..n
  OBVIOUS
<1> QED
  BY <1>5, <1>6

\* What holds is what the POD says, whichever of its facts have diverged so far.
PodHolds(fact) ==
    LET pod == {i \in DOMAIN PodFacts : PodFacts[i].fact = fact}
    IN  pod # {} => PodFacts[Min(pod)].op = "assert"

\* That is what holds_after answers: the divergences are facts of the same POD.
LEMMA HoldsIsPods ==
    ASSUME OneMind, NEW divs \in Seq(Entries), NEW fact
    PROVE  HoldsAfter(fact, divs) = PodHolds(fact)
<1> DEFINE of == {i \in DOMAIN divs : divs[i].fact = fact}
           pod == {i \in DOMAIN PodFacts : PodFacts[i].fact = fact}
<1>1. HoldsAfter(fact, divs) =
        CASE of # {}  -> divs[Min(of)].op = "assert"
          [] of = {} /\ pod # {} -> PodFacts[Min(pod)].op = "assert"
          [] OTHER -> TRUE
  BY DEF HoldsAfter
<1>2. PodHolds(fact) = (pod # {} => PodFacts[Min(pod)].op = "assert")
  BY DEF PodHolds
<1>3. /\ Len(PodFacts) \in Nat /\ DOMAIN PodFacts = 1..Len(PodFacts)
      /\ Len(divs) \in Nat /\ DOMAIN divs = 1..Len(divs)
  BY ButterflyAssumption, LenProperties
<1>4. pod \in SUBSET Nat /\ of \in SUBSET Nat
  BY <1>3
<1>5. CASE of # {}
  <2>1. Min(of) \in of
    <3> HIDE DEF of
    <3> QED
      BY <1>4, <1>5, MinIn
  <2>2. divs[Min(of)] \in Entries /\ divs[Min(of)].fact = fact
    BY <2>1, <1>3, ElementOfSeq
  <2>3. PICK i \in DOMAIN PodFacts : /\ divs[Min(of)].fact = PodFacts[i].fact
                                     /\ divs[Min(of)].op = PodFacts[i].op
    <3> DEFINE d == divs[Min(of)]
    <3>1. d \in Entries /\ PodFacts = ChangedFacts
      BY <2>2, CompositionAssumption
    <3> HIDE DEF d, of
    <3> QED
      BY <3>1, EntryFact, <1>3 DEF d
  <2>4. i \in pod
    BY <2>2, <2>3
  <2>5. Min(pod) \in pod
    <3> HIDE DEF pod
    <3> QED
      BY <1>4, <2>4, MinIn
  <2>6. PodFacts[Min(pod)].op = divs[Min(of)].op
    BY <2>3, <2>4, <2>5 DEF OneMind
  <2> HIDE DEF of, pod
  <2> QED
    BY <1>1, <1>2, <1>5, <2>4, <2>6
<1>6. CASE of = {} /\ pod # {}
  <2> HIDE DEF of, pod
  <2> QED
    BY <1>1, <1>2, <1>6
<1>7. CASE of = {} /\ pod = {}
  <2> HIDE DEF of, pod
  <2> QED
    BY <1>1, <1>2, <1>7
<1> QED
  BY <1>5, <1>6, <1>7

\* So a change makes the same of its event, whatever else has diverged.
LEMMA SameChange ==
    ASSUME OneMind, NEW divs \in Seq(Entries), NEW more \in Seq(Entries), NEW x
    PROVE  Change(x, divs) = Change(x, more)
<1> DEFINE e == x.event
           f == Resisted(e, x.force)
<1>1. \A p : HoldsAfter(p, divs) = HoldsAfter(p, more)
  BY HoldsIsPods
<1>2. {p \in Preconditions(e) : ~HoldsAfter(p, divs)}
        = {p \in Preconditions(e) : ~HoldsAfter(p, more)}
  BY <1>1
<1>3. Becomes(e, f, divs) = Becomes(e, f, more)
  <2> DEFINE one == {p \in Preconditions(e) : ~HoldsAfter(p, divs)}
             two == {p \in Preconditions(e) : ~HoldsAfter(p, more)}
             B(lost) == IF ViolatesProtected(e) THEN "intact"
                        ELSE IF lost = {} THEN IF f < 5000 THEN "weakened" ELSE "intact"
                        ELSE IF FirstLink(e).necessity = "load_bearing" THEN "cannot_happen"
                        ELSE IF f > 4000 THEN "altered" ELSE "weakened"
  <2>1. Becomes(e, f, divs) = B(one) /\ Becomes(e, f, more) = B(two)
    BY DEF Becomes
  <2>2. one = two
    BY <1>2
  <2> HIDE DEF B, one, two
  <2> QED
    BY <2>1, <2>2
<1> QED
  BY <1>3 DEF Change

\* More divergences bring more changes.
LEMMA MoreArrive ==
    ASSUME Calm, OneMind, NEW divs \in Seq(Entries), NEW more \in Seq(Entries),
           \A i \in DOMAIN divs : i \in DOMAIN more /\ more[i] = divs[i]
    PROVE  Arrivals(divs) \subseteq Arrivals(more)
<1>1. First(divs) \subseteq First(more)
  BY DEF First
<1>2. Felt(First(divs)) \subseteq Felt(First(more))
  BY <1>1 DEF Felt
<1>3. \A y : Change(y, divs) = Change(y, more)
  BY SameChange
<1>4. Spread(divs) \subseteq Spread(more)
  BY <1>2, <1>3 DEF Spread
<1>5. Felt(Spread(divs)) \subseteq Felt(Spread(more))
  BY <1>4 DEF Felt
<1> QED
  BY <1>2, <1>5, CalmArrivals

\* A further divergence never takes an event out of what has changed, nor makes
\* it less severe: what a cache refreshed earlier holds stays accounted for.
THEOREM PropagationIsCumulative == ASSUME Calm, OneMind PROVE Cumulative
<1> SUFFICES ASSUME NEW h \in Histories, NEW n \in 0..Len(h),
                    NEW e \in DOMAIN Propagated(SubSeq(h, 1, n))
             PROVE  /\ e \in DOMAIN Propagated(h)
                    /\ Severity[Propagated(SubSeq(h, 1, n))[e].status]
                         <= Severity[Propagated(h)[e].status]
  BY DEF Cumulative
<1> DEFINE part == SubSeq(h, 1, n)
<1>1. DivsOK(h) /\ Len(h) \in Nat
  BY HistoryList
<1>2. DivsOK(part) /\ Len(part) = n
  BY <1>1, PrefixOK
<1>3. h \in Seq(Entries) /\ part \in Seq(Entries)
  BY <1>1, <1>2 DEF DivsOK
<1>4. Propagated(h) = Propagate(h) /\ Propagated(part) = Propagate(part)
  BY <1>2, DivsAreHistories, CompositionAssumption
<1>5. \A i \in DOMAIN part : i \in DOMAIN h /\ h[i] = part[i]
  <2>1. DOMAIN part = 1..n /\ DOMAIN h = 1..Len(h) /\ n \in Nat /\ n <= Len(h)
    <3> HIDE DEF part
    <3> QED
      BY <1>1, <1>2, <1>3, LenProperties
  <2>2. \A i \in 1..n : part[i] = h[i]
    <3>1. \A i \in 1..n : h[i] \in Entries
      BY <1>3, <2>1, ElementOfSeq
    <3>2. 1 \in Int /\ n \in Int
      BY <2>1
    <3>3. \A i \in 1..(n - 1 + 1) : part[i] = h[1 + i - 1]
      BY <3>1, <3>2, SubSeqProperties
    <3> HIDE DEF part
    <3> QED
      BY <2>1, <3>3
  <2> QED
    BY <2>1, <2>2
<1> HIDE DEF part
<1>6. PICK x \in Arrivals(part) : x.event = e /\ Propagate(part)[e].status = Change(x, part)
  BY <1>3, <1>4, CalmPropagate DEF part
<1>7. x \in Arrivals(h) /\ Change(x, part) = Change(x, h)
  BY <1>3, <1>5, MoreArrive, SameChange
<1>8. e \in DOMAIN Propagate(h) /\ Order[Change(x, h)] <= Order[Propagate(h)[e].status]
  BY <1>3, <1>6, <1>7, CalmPropagate
<1>9. Order = Severity
  BY DEF Order, Severity
<1> QED
  BY <1>4, <1>6, <1>7, <1>8, <1>9 DEF part

-----------------------------------------------------------------------------
\* Type correctness, with the bounds of the revision loop and the batch.
THEOREM TypesCorrect == Spec => []TypeOK
<1>1. CycleInv => TypeOK
  <2> SUFFICES ASSUME CycleInv PROVE TypeOK
    OBVIOUS
  <2>1. ledger \in Ledgers
    BY LedgerTyped DEF CycleInv, FilesOK
  <2>2. run = NoRun \/ (run \in Runs /\ run.ch + run.left <= MaxChapters + 1)
    <3>1. SUFFICES ASSUME RunOK PROVE run \in Runs /\ run.ch + run.left <= MaxChapters + 1
      BY DEF CycleInv
    <3>2. run.led \in Ledgers
      BY <3>1, LedgerTyped DEF RunOK
    <3> QED
      BY <3>1, <3>2 DEF RunOK, Shape, Runs
  <2> QED
    BY <2>1, <2>2 DEF CycleInv, StoryOK, FilesOK, TypeOK
<1> QED
  BY <1>1, CycleInvariant, PropagationIsWellFormed, PTL

\* A fact of the POD diverges once, for every POD: over crashes, dropped drafts
\* and chapters written again the ledger never holds it twice.
THEOREM OnceCorrect == Spec => []OncePerFact
<1>1. CycleInv => OncePerFact
  BY DEF CycleInv, FilesOK, LedgerOK, DivsOK, OncePerFact
<1> QED
  BY <1>1, CycleInvariant, PropagationIsWellFormed, PTL

\* The cache on disk never says of an event what the ledger beside it does not
\* account for, wherever the process died between the two files.
THEOREM CacheCorrect == ASSUME Calm, OneMind PROVE Spec => []CacheNeverAhead
<1>1. Cumulative
  BY PropagationIsCumulative
<1>2. CycleInv => CacheNeverAhead
  BY <1>1 DEF CycleInv, FilesOK, Behind, CacheNeverAhead
<1>3. Spec => []CycleInv
  BY CycleInvariant, PropagationIsWellFormed
<1> QED
  BY <1>2, <1>3, PTL

\* An event the writer must not write any more has its ripple in the ledger, or each
\* divergence that hit it came before the causal graph or was over the cap.
THEOREM OwedCorrect == ASSUME Calm, OneMind PROVE Spec => []ConsequencesOwed
<1>0. Cumulative
  BY PropagationIsCumulative
<1>1. CycleInv => ConsequencesOwed
  <2> SUFFICES ASSUME CycleInv, NEW e \in DOMAIN cache, cache[e].status = "cannot_happen",
                      ~ \E r \in ledger.ripples : r.event = e
               PROVE  HitAfter(e) # {} /\ HitAfter(e) \subseteq Unheard
    BY DEF ConsequencesOwed
  <2> DEFINE divs == ledger.divs
             status == Propagated(divs)
  <2>1. /\ DivsOK(divs) /\ divs \in Histories /\ divs \in Seq(Entries)
        /\ Len(divs) \in Nat /\ DOMAIN divs = 1..Len(divs)
    BY DivsAreHistories, LenProperties DEF CycleInv, FilesOK, LedgerOK, DivsOK
  <2>2. e \in DOMAIN status /\ Severity["cannot_happen"] <= Severity[status[e].status]
    BY <1>0 DEF CycleInv, FilesOK, Behind
  <2>3. e \in Hit(status)
    <3>1. Severity["cannot_happen"] = 3 /\ Severity["intact"] = 0
      BY DEF Severity
    <3>2. status[e].status # "intact"
      BY <2>2, <3>1
    <3> QED
      BY <2>2, <3>2 DEF Hit
  <2>4. Len(divs) > 0
    <3>1. divs # <<>>
      BY <2>2, PropagationIsWellFormed DEF WellFormed
    <3> QED
      BY <2>1, <3>1, EmptySeq
  <2>5. HitAfter(e) # {}
    <3>1. SubSeq(divs, 1, Len(divs)) = divs /\ Len(divs) \in DOMAIN divs
      BY <2>1, <2>4, SubSeqFull
    <3>2. Len(divs) \in HitAfter(e)
      BY <2>3, <3>1 DEF HitAfter
    <3> QED
      BY <3>2
  <2>6. ASSUME NEW n \in HitAfter(e)
        PROVE  n \in Unheard
    <3> DEFINE hit == Hit(Propagated(SubSeq(divs, 1, n)))
    <3>1. n \in DOMAIN divs /\ e \in hit
      BY DEF HitAfter
    <3>2. \/ n \in ledger.blind \/ Cardinality(hit) > MaxOpen
          \/ \A x \in hit : \E r \in ledger.ripples : r.event = x
      BY <3>1 DEF CycleInv, FilesOK, Complete, Heard
    <3>3. n \in ledger.blind \/ Cardinality(hit) > MaxOpen
      BY <3>1, <3>2
    <3> QED
      BY <3>1, <3>3 DEF Unheard
  <2> QED
    BY <2>5, <2>6
<1>2. Spec => []CycleInv
  BY CycleInvariant, PropagationIsWellFormed
<1> QED
  BY <1>1, <1>2, PTL

\* An engine works beyond the head, with all the ledger on disk has overdue: what it
\* is about to save cannot pay for it.
Indebted ==
    /\ ingest = NoIngest \/ ingest <= head
    /\ run # NoRun =>
          /\ head < run.ch
          /\ \A c \in Nat : c <= run.ch => Overdue(ledger, c) \subseteq Overdue(run.led, c)

\* What is overdue stays overdue in later chapters.
LEMMA OverdueLater ==
    ASSUME NEW l, LedgerOK(l), NEW c \in Nat, NEW d \in Nat, c <= d
    PROVE  /\ Overdue(l, c) \subseteq Overdue(l, d)
           /\ IsFiniteSet(Overdue(l, d)) /\ Cardinality(Overdue(l, d)) \in Nat
<1>1. IsFiniteSet(Overdue(l, d))
  BY FS_Subset DEF Overdue, LedgerOK
<1>2. \A r \in l.ripples : r.closes \in Nat
  BY DEF LedgerOK, RippleSet
<1> QED
  BY <1>1, <1>2, FS_CardinalityType DEF Overdue

\* Every step keeps the engine's ledger as indebted as the one on disk.
LEMMA NextIndebted ==
    ASSUME WellFormed, CycleInv, Indebted, [Next]_vars
    PROVE  Indebted'
<1>1. head \in Nat /\ ingest \in Int /\ MaxChapters \in Nat
  BY CycleAssumption DEF CycleInv, StoryOK
<1>2. CASE WriteNext \/ Batch
  <2>1. run'.ch = head + 1 /\ run'.led = ledger /\ UNCHANGED <<head, ledger, ingest>>
    BY <1>2 DEF WriteNext, Batch, Start, story, disk
  <2> QED
    BY <1>1, <2>1 DEF Indebted
<1>3. CASE Draft
  <2>1. RunOK /\ UNCHANGED <<head, ledger, ingest>> /\ run # NoRun
    BY <1>3 DEF Draft, At, CycleInv, NoRun, story, disk
  <2>2. PICK t \in Texts : run'.led = Lifecycle(run.led, run.ch, t, run.bound)
    <3>1. PICK raw \in Texts : \E t \in Polished(raw) :
            run' = [run EXCEPT !.text = t, !.led = Lifecycle(run.led, run.ch, t, run.bound),
                               !.cycles = 0, !.at = "ledger",
                               !.cache = Refreshed(@, Lifecycle(run.led, run.ch, t, run.bound).divs,
                                                   run.bound)]
      BY <1>3 DEF Draft
    <3>2. PICK t \in Polished(raw) :
            run' = [run EXCEPT !.text = t, !.led = Lifecycle(run.led, run.ch, t, run.bound),
                               !.cycles = 0, !.at = "ledger",
                               !.cache = Refreshed(@, Lifecycle(run.led, run.ch, t, run.bound).divs,
                                                   run.bound)]
      BY <3>1
    <3>3. DOMAIN run = {"at", "daemon", "forced", "left", "ch", "text", "led", "cache", "cycles",
                        "bound"}
      BY <2>1 DEF RunOK, Shape
    <3>4. t \in Texts
      BY DEF Polished
    <3> QED
      BY <3>2, <3>3, <3>4
  <2>3. run'.ch = run.ch
    BY <1>3, <2>1, DraftShape DEF RunOK
  <2>4. \A c \in Nat : c <= run.ch => Overdue(run.led, c) \subseteq Overdue(run'.led, c)
    BY <2>1, <2>2, LifecycleOK DEF RunOK
  <2> QED
    BY <2>1, <2>3, <2>4 DEF Indebted
<1>4. CASE SaveLedger \/ SaveCache \/ Revise
  <2>1. RunOK /\ run # NoRun
    <3>1. run.at \in {"ledger", "cache", "audit"}
      BY <1>4 DEF SaveLedger, SaveCache, Revise, At
    <3>2. run # NoRun
      BY <3>1 DEF NoRun
    <3> QED
      BY <3>2 DEF CycleInv
  <2>2. UNCHANGED <<head, ingest>> /\ (ledger' = ledger \/ ledger' = run.led)
    BY <1>4 DEF SaveLedger, SaveCache, Revise, story, disk
  <2>3. run'.led = run.led /\ run'.ch = run.ch
    BY <1>4, <2>1 DEF SaveLedger, SaveCache, Revise, RunOK, Shape
  <2> QED
    BY <2>1, <2>2, <2>3 DEF Indebted
<1>5. CASE Commit
  <2>1. /\ RunOK /\ run.led = ledger /\ run # NoRun /\ UNCHANGED <<ledger, ingest>>
        /\ run' = NextChapter /\ run.ch \in Nat
    BY <1>5 DEF Commit, Judged, At, CycleInv, RunOK, NoRun, disk, Shape
  <2>2. head' = head \/ head' = run.ch
    BY <1>5 DEF Commit, story
  <2>3. head < run.ch
    BY <2>1 DEF Indebted
  <2>4. ingest' = NoIngest \/ ingest' <= head'
    BY <1>1, <2>1, <2>2, <2>3 DEF Indebted
  <2>5. CASE run.left > 1
    <3>1. run'.ch = run.ch + 1 /\ run'.led = run.led
      BY <2>1, <2>5 DEF NextChapter, RunOK, Shape
    <3> QED
      BY <1>1, <2>1, <2>2, <2>3, <2>4, <3>1 DEF Indebted
  <2>6. CASE ~(run.left > 1)
    BY <2>1, <2>4, <2>6 DEF NextChapter, Indebted
  <2> QED
    BY <2>5, <2>6
<1>6. CASE Blocked \/ Stop \/ Tear
  BY <1>6 DEF Blocked, Stop, Tear, Indebted, story
<1>7. CASE IngestStart
  BY <1>1, <1>7 DEF IngestStart, Indebted, story, disk
<1>8. CASE IngestEnd
  <2>1. head' <= head /\ head' \in Int /\ ingest' = NoIngest /\ UNCHANGED <<run, ledger>>
    BY <1>1, <1>8 DEF IngestEnd, Indebted, disk
  <2>2. run # NoRun => run.ch \in Nat
    BY DEF CycleInv, RunOK, Shape
  <2> QED
    BY <1>1, <2>1, <2>2 DEF Indebted
<1>9. CASE Enrich \/ UNCHANGED vars
  BY <1>9 DEF Enrich, vars, Indebted, story, disk
<1> QED
  BY <1>2, <1>3, <1>4, <1>5, <1>6, <1>7, <1>8, <1>9 DEF Next, Work

\* A debt is for good, for any texts, POD and causal graph: no draft, revision, crash
\* or new engine pays for what is overdue, and only force goes on with the story.
THEOREM DebtCorrect == Spec => DebtIsForGood
<1>1. Init => Indebted
  BY DEF Init, Indebted, NoRun
<1>2. CycleInv /\ Indebted /\ [Next]_vars => Indebted'
  BY NextIndebted, PropagationIsWellFormed
<1>3. ASSUME CycleInv, Indebted, [Next]_vars, InDebt
      PROVE  head' < head \/ (InDebt' /\ (book' # book => run.forced))
  <2>1. /\ head \in Nat /\ ingest \in Int /\ MaxOverdue \in Nat
        /\ LedgerOK(ledger) /\ (run = NoRun \/ RunOK)
    BY <1>3, CycleAssumption DEF CycleInv, StoryOK, FilesOK
  <2>2. ASSUME NEW l, LedgerOK(l), NEW c \in Nat,
               Overdue(ledger, head + 1) \subseteq Overdue(l, c)
        PROVE  Cardinality(Overdue(l, c)) > MaxOverdue
    <3>1. IsFiniteSet(Overdue(l, c)) /\ Cardinality(Overdue(l, c)) \in Nat
      BY <2>2, OverdueLater
    <3>2. /\ Cardinality(Overdue(ledger, head + 1)) <= Cardinality(Overdue(l, c))
          /\ Cardinality(Overdue(ledger, head + 1)) \in Nat
      BY <2>1, <2>2, <3>1, FS_Subset, FS_CardinalityType
    <3> QED
      BY <1>3, <2>1, <3>1, <3>2 DEF InDebt
  <2>3. CASE UNCHANGED <<head, ledger, book>>
    BY <1>3, <2>3 DEF InDebt
  <2>4. CASE SaveLedger
    <3>1. RunOK /\ run # NoRun /\ ledger' = run.led /\ UNCHANGED <<head, book>>
      BY <2>1, <2>4 DEF SaveLedger, At, NoRun, story
    <3>2. head + 1 \in Nat /\ head + 1 <= run.ch
      BY <1>3, <2>1, <3>1 DEF Indebted, RunOK, Shape
    <3>3. Overdue(ledger, head + 1) \subseteq Overdue(run.led, head + 1)
      BY <1>3, <3>1, <3>2 DEF Indebted
    <3>4. Cardinality(Overdue(run.led, head + 1)) > MaxOverdue
      BY <2>2, <3>1, <3>2, <3>3 DEF RunOK
    <3> QED
      BY <3>1, <3>4 DEF InDebt
  <2>5. CASE Commit
    <3>1. /\ RunOK /\ run # NoRun /\ run.led = ledger /\ ledger' = ledger /\ run.ch \in Nat
          /\ (head' = head \/ head' = run.ch)
      BY <2>1, <2>5 DEF Commit, Judged, At, NoRun, RunOK, Shape, disk, story
    <3>2. head < run.ch
      BY <1>3, <3>1 DEF Indebted
    <3>3. Overdue(ledger, head + 1) \subseteq Overdue(ledger, run.ch)
      BY <2>1, <3>1, <3>2, OverdueLater
    <3>4. run.forced
      <4>1. Cardinality(Overdue(run.led, run.ch)) > MaxOverdue
        BY <2>1, <2>2, <3>1, <3>3
      <4>2. ~ReceiptPasses
        <5>1. Cardinality(Overdue(run.led, run.ch)) \in Nat
          BY <2>1, <3>1, OverdueLater
        <5> QED
          BY <2>1, <4>1, <5>1 DEF ReceiptPasses, Passes
      <4> QED
        BY <2>5, <4>2 DEF Commit
    <3>5. Overdue(ledger, head + 1) \subseteq Overdue(ledger, head' + 1)
      BY <2>1, <3>1, <3>2, OverdueLater
    <3>6. Cardinality(Overdue(ledger, head' + 1)) > MaxOverdue
      BY <2>1, <2>2, <3>1, <3>2, <3>5
    <3> QED
      BY <3>1, <3>4, <3>6 DEF InDebt
  <2>6. CASE IngestEnd
    <3>1. head' <= head /\ head' \in Int /\ UNCHANGED <<book, ledger>>
      BY <1>3, <2>1, <2>6 DEF IngestEnd, Indebted, disk
    <3> QED
      BY <1>3, <2>1, <3>1 DEF InDebt
  <2>7. CASE WriteNext \/ Batch \/ Draft \/ SaveCache \/ Revise \/ Blocked \/ Stop \/ Tear
             \/ IngestStart \/ Enrich \/ UNCHANGED vars
    <3>1. UNCHANGED <<head, ledger, book>>
      BY <2>7 DEF WriteNext, Batch, Start, Draft, SaveCache, Revise, Blocked, Stop, Tear,
                  IngestStart, Enrich, story, disk, vars
    <3> QED
      BY <2>3, <3>1
  <2> QED
    BY <1>3, <2>4, <2>5, <2>6, <2>7 DEF Next, Work
<1>4. Spec => []CycleInv
  BY CycleInvariant, PropagationIsWellFormed
<1> QED
  BY <1>1, <1>2, <1>3, <1>4, PTL DEF Spec, DebtIsForGood

\* Only an ingest takes the head in project_meta.json off the story's last
\* chapter (INV-2): without one, nothing that blocks, stops or dies does.
Forward == ingests = 0 /\ ingest = NoIngest /\ DOMAIN book \subseteq 1..head

\* Without an ingest the head is never behind the story.
LEMMA NextForward ==
    ASSUME MaxIngests = 0, CycleInv, Forward, [Next]_vars
    PROVE  Forward'
<1>1. head \in Nat /\ (run = NoRun \/ run.ch \in Nat)
  BY CycleAssumption DEF CycleInv, StoryOK, RunOK, Shape
<1>2. CASE UNCHANGED vars
  BY <1>2 DEF Forward, vars, story
<1>3. CASE WriteNext \/ Batch \/ Draft \/ SaveLedger \/ SaveCache \/ Revise \/ Blocked \/ Stop
           \/ Tear \/ Enrich
  BY <1>3 DEF Forward, WriteNext, Batch, Start, Draft, SaveLedger, SaveCache, Revise, Blocked,
              Stop, Tear, Enrich, story
<1>4. CASE Commit
  <2>1. ingests' = 0 /\ ingest' = NoIngest /\ run.ch \in Nat
    BY <1>1, <1>4 DEF Forward, Commit, Judged, At, NoRun
  <2>2. CASE UNCHANGED story
    BY <2>1, <2>2 DEF Forward, story
  <2>3. CASE DOMAIN book' = DOMAIN book \cup {run.ch}
             /\ head' = IF run.ch > head THEN run.ch ELSE head
    <3>1. 1..head \subseteq 1..head' /\ (run.ch >= 1 => run.ch \in 1..head')
      BY <1>1, <2>1, <2>3
    <3>2. run.ch >= 1
      BY <1>4 DEF CycleInv, RunOK, Commit, Judged, At, NoRun
    <3> QED
      BY <2>1, <2>3, <3>1, <3>2 DEF Forward
  <2> QED
    BY <1>4, <2>2, <2>3 DEF Commit
<1>5. CASE IngestStart \/ IngestEnd
  BY <1>5 DEF Forward, IngestStart, IngestEnd
<1> QED
  BY <1>2, <1>3, <1>4, <1>5 DEF Next, Work

\* So without an ingest the head is the number of chapters whenever no engine is at
\* work, whatever was blocked, declined, written again or died: of the steps here
\* only cmd_ingest breaks INV-2, by writing back the head it read.
THEOREM HeadCorrect == ASSUME MaxIngests = 0 PROVE Spec => []HeadIsStory
<1>1. Init => Forward
  BY DEF Init, Forward, NoIngest
<1>2. CycleInv /\ Forward /\ [Next]_vars => Forward'
  BY NextForward
<1>3. Spec => []CycleInv
  BY CycleInvariant, PropagationIsWellFormed
<1>4. Grounded /\ Forward => HeadIsStory
  <2> SUFFICES ASSUME Grounded, Forward PROVE head = Cardinality(DOMAIN book)
    BY DEF HeadIsStory
  <2>1. DOMAIN book = 1..head /\ head \in Nat
    BY DEF Grounded, Forward
  <2>2. \A n \in Nat : Cardinality(1..n) = n
    BY FS_Interval
  <2> QED
    BY <2>1, <2>2
<1>5. Spec => []Grounded
  BY InitGrounded, NextGrounded, PTL DEF Spec
<1> QED
  BY <1>1, <1>2, <1>3, <1>4, <1>5, PTL DEF Spec
=============================================================================
