--------------------------- MODULE ButterflyCycle ---------------------------
(***************************************************************************)
(* The chapter cycle with the butterfly effect's own propagation.          *)
(***************************************************************************)
EXTENDS ChapterCycle, Butterfly

\* The engine gives propagate the divergences of its ledger, which are facts of
\* the same pod.json.
ASSUME CompositionAssumption ==
    /\ PodFacts = ChangedFacts
    /\ \A h \in Histories : Propagated(h) = Propagate(h)

\* A moderate intensity, as the default of pod.py and that of its POD:001: no
\* change is too strong to matter, and none is felt beyond the effects of what
\* depends on a fact that diverged.
Calm == Percent(Intensity, 100 - Inertia["local"]) < 5000
\* A POD of one mind does not both assert and retract a fact.
OneMind ==
    \A i, j \in DOMAIN PodFacts : PodFacts[i].fact = PodFacts[j].fact
                                  => PodFacts[i].op = PodFacts[j].op

\* The worst that reaches an event over any path, for all that may have diverged.
WorstReaching ==
    {<<h, e, Worst(e, h)>> : h \in Histories, e \in Known}

\* Whatever has diverged, the order in which the paths of the causal graph are
\* followed does not matter: an event ends with the worst that reaches it.
SpreadIsOrderFree ==
    LET status == Propagated(ledger.divs)
        end(e) == IF e \in DOMAIN status THEN Order[status[e].status] ELSE 0
    IN  \A e \in Known : <<ledger.divs, e, end(e)>> \in WorstReaching
=============================================================================
