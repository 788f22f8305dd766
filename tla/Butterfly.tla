----------------------------- MODULE Butterfly -----------------------------
(***************************************************************************)
(* The butterfly effect of butterfly/propagator.py over the causal graph   *)
(* that CanonGraphV2 makes of the enriched causal links: what becomes of   *)
(* the canon's events once some facts have diverged.  Forces are counted   *)
(* in 1/10000, the factors they are multiplied by in percent.              *)
(***************************************************************************)
EXTENDS Integers, Sequences, FiniteSets, FiniteSetsExt, Functions, Lists

CONSTANTS
    Links,      \* the causal links in the order they are stored: a sequence of
                \* [cause, effect, necessity, confidence]
    PodFacts,   \* changed_facts of pod.json: a sequence of [op, fact, at]
    Protected,  \* protected_invariants of pod.json
    Intensity   \* intensity of pod.json

\* NECESSITY_TRANSMIT.
Transmit == [load_bearing |-> 100, contingent |-> 50, incidental |-> 0]

ASSUME ButterflyAssumption ==
    /\ Links \in Seq([cause : STRING, effect : STRING, necessity : DOMAIN Transmit,
                      confidence : 0..100])
    /\ \A i \in DOMAIN Links : Links[i].cause # Links[i].effect
    /\ \A i, j \in DOMAIN Links : /\ Links[i].cause = Links[j].cause
                                  /\ Links[i].effect = Links[j].effect
                                  => i = j
    /\ PodFacts \in Seq([fact : STRING, op : {"assert", "retract"}, at : Nat])
    /\ Intensity \in 0..10000

-----------------------------------------------------------------------------
\* The graph.  The link that mentions an event first decides what it depends on.
Known == UNION {{Links[i].cause, Links[i].effect} : i \in DOMAIN Links}
FirstLink(e) == Links[Min({i \in DOMAIN Links : e \in {Links[i].cause, Links[i].effect}})]
Preconditions(e) == IF FirstLink(e).effect = e THEN {FirstLink(e).cause} ELSE {}
OutEdges(e) == Kept(Links, {l \in Range(Links) : l.cause = e})
Dependents(fact) ==
    Kept(Links, {l \in Range(Links) : l.cause = fact /\ FirstLink(l.effect) = l})

\* Policy: ButterflyPolicy.default and INERTIA.
Damping == 75
MaxDepth == 5
Threshold == 1200
Inertia == [personal |-> 15, local |-> 35, faction |-> 60, world |-> 85]
Scope(e) == "local"

Percent(force, p) == (force * p) \div 100
Resisted(e, force) == Percent(force, 100 - Inertia[Scope(e)])
Passed(l, force) == Percent(Percent(Percent(force, l.confidence), Transmit[l.necessity]), Damping)

Order == [intact |-> 0, weakened |-> 1, altered |-> 2, cannot_happen |-> 3]

\* holds_after: the first divergence of a fact decides, then the POD itself.
HoldsAfter(fact, divs) ==
    LET of == {i \in DOMAIN divs : divs[i].fact = fact}
        pod == {i \in DOMAIN PodFacts : PodFacts[i].fact = fact}
    IN  CASE of # {}  -> divs[Min(of)].op = "assert"
          [] of = {} /\ pod # {} -> PodFacts[Min(pod)].op = "assert"
          [] OTHER -> TRUE

ViolatesProtected(e) == Preconditions(e) \cap Protected # {}

\* What an event becomes when a change reaches it with a force that counts.
Becomes(e, force, divs) ==
    LET lost == {p \in Preconditions(e) : ~HoldsAfter(p, divs)}
    IN  IF ViolatesProtected(e) THEN "intact"
        ELSE IF lost = {} THEN IF force < 5000 THEN "weakened" ELSE "intact"
        ELSE IF FirstLink(e).necessity = "load_bearing" THEN "cannot_happen"
        ELSE IF force > 4000 THEN "altered" ELSE "weakened"

\* The queue of propagate: seeds are the events that depend on a diverged fact.
Item(e, depth, force) == [event |-> e, depth |-> depth, force |-> force]
SeedsOf(d) == LET ls == Dependents(d.fact)
              IN  [i \in DOMAIN ls |-> Item(ls[i].effect, 1, Intensity)]
Seeds(divs) == Joined([i \in DOMAIN divs |-> SeedsOf(divs[i])])
Onward(item, force) ==
    LET ls == Kept(OutEdges(item.event), {l \in Range(Links) : Transmit[l.necessity] # 0})
    IN  [i \in DOMAIN ls |-> Item(ls[i].effect, item.depth + 1, Passed(ls[i], force))]

Entry == [status : DOMAIN Order \cup {"untouched"}, depth : Nat, force : Nat]
Untouched == [status |-> "untouched", depth |-> 0, force |-> 0]
Items == [event : Known, depth : Nat, force : Nat]

\* Merge worse; the mutant lets the last change win.
LastWins(old, new) == TRUE
Worse(old, new) == old = Untouched \/ Order[old.status] < Order[new]

\* The loop of propagate over its queue: one round, and all of them.
Loops == [status : [Known -> Entry], queue : Seq(Items)]
Round(loop, divs) ==
    LET item  == Head(loop.queue)
        e     == item.event
        force == Resisted(e, item.force)
        new   == Becomes(e, force, divs)
        seen  == [loop.status EXCEPT ![e] = [status |-> new, depth |-> item.depth,
                                             force |-> force]]
        kept  == \/ item.depth > MaxDepth \/ force < Threshold
                 \/ new # "intact" /\ ~Worse(loop.status[e], new)
    IN  [status |-> IF kept THEN loop.status ELSE seen,
         queue  |-> IF kept \/ new = "intact" THEN Tail(loop.queue)
                    ELSE Tail(loop.queue) \o Onward(item, force)]
Visited(start, divs) ==
    LET end[loop \in Loops] ==
            IF loop.queue = <<>> THEN loop.status ELSE end[Round(loop, divs)]
    IN  end[start]

Propagate(divs) ==
    LET status == Visited([status |-> [e \in Known |-> Untouched], queue |-> Seeds(divs)], divs)
    IN  Restrict(status, {e \in Known : status[e] # Untouched})

-----------------------------------------------------------------------------
\* The same without a queue: all the changes that arrive over any causal path.
Felt(items) == {x \in items : Resisted(x.event, x.force) >= Threshold}
Change(x, divs) == Becomes(x.event, Resisted(x.event, x.force), divs)
Arrivals(divs) ==
    LET at[depth \in 1..MaxDepth] ==
            IF depth = 1 THEN Felt(UNION {Range(SeedsOf(divs[i])) : i \in DOMAIN divs})
            ELSE Felt(UNION {Range(Onward(x, Resisted(x.event, x.force))) :
                                x \in {y \in at[depth - 1] : Change(y, divs) # "intact"}})
    IN  UNION {at[depth] : depth \in 1..MaxDepth}
Worst(e, divs) ==
    Max({0} \cup {Order[Change(x, divs)] : x \in {y \in Arrivals(divs) : y.event = e}})
=============================================================================
