--------------------------- MODULE MCChapterCycle ---------------------------
(***************************************************************************)
(* ChapterCycle over the propagation of Butterfly: a small canon with a    *)
(* chain, a fork that joins again and a loop, and a POD that changes two   *)
(* of its facts, the second a chapter later.                               *)
(***************************************************************************)
EXTENDS ButterflyCycle

Link(cause, effect, necessity, confidence) ==
    [cause |-> cause, effect |-> effect, necessity |-> necessity, confidence |-> confidence]

MCLinks ==
    <<Link("known", "meets", "load_bearing", 90),
      Link("known", "flees", "contingent", 90),
      Link("meets", "duel", "load_bearing", 95),
      Link("meets", "flees", "load_bearing", 90),
      Link("ignorant", "trusts", "contingent", 90),
      Link("trusts", "duel", "load_bearing", 100),
      Link("duel", "meets", "load_bearing", 90)>>

MCFacts == <<[fact |-> "known", op |-> "retract", at |-> 1],
             [fact |-> "ignorant", op |-> "retract", at |-> 2]>>

Shows(event, status, depth) == [event |-> event, status |-> status, depth |-> depth]
MCTexts ==
    {[names |-> TRUE, shows |-> {}, good |-> TRUE, fit |-> 1],
     [names |-> FALSE, good |-> FALSE, fit |-> 2,
      shows |-> {Shows("meets", "cannot_happen", 1)}]}

MCWindows == <<<<0, 1>>, <<1, 1>>, <<1, 2>>>>

\* The propagation does not look at the chapters of the divergences: it is
\* tabulated for all that can diverge.
Bare(divs) == [i \in DOMAIN divs |-> [fact |-> divs[i].fact, op |-> divs[i].op, chapter |-> 0]]
AllDivs == {Bare(q) : q \in UNION {[1..n -> Range(MCFacts)] : n \in 0..3}}
Table == [divs \in AllDivs |-> Propagate(divs)]
MCPropagated(divs) == Table[Bare(divs)]

\* What the proofs assume of the POD, and what they conclude of the propagation.
ASSUME InstanceAssumption == Calm /\ OneMind /\ WellFormed /\ Cumulative
=============================================================================
