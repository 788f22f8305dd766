------------------------------ MODULE AuditGate ------------------------------
(***************************************************************************)
(* The gates a chapter passes before it becomes part of the story: the 26  *)
(* checkers of packages/auditor and the verdict AuditRunner makes of them, *)
(* the aperture topology of packages/governance, the revision loop of the  *)
(* engine, and the transition rules of StoryState at the commit.  Checkers *)
(* read the committed story state; `told' remembers what the committed     *)
(* chapters really said.                                                   *)
(***************************************************************************)
EXTENDS StoryState

CONSTANTS
    Flying,        \* the realms power_ladder lets fly
    Apertures,     \* aperture_order of aperture_topology.json, a sequence
    MaxChapters,   \* bound: chapters committed
    MaxRevisions,  \* max_revision_cycles
    NoText         \* no text has been written

ASSUME GateAssumption ==
    /\ Flying \subseteq Realms
    /\ MaxChapters \in Nat
    /\ MaxRevisions \in Nat
    /\ NoText \notin Drafts

VARIABLES
    state,     \* story_state.json
    told,      \* history: the texts of the committed chapters
    forced,    \* history: the numbers of those committed against the verdict
    text,      \* the text being worked on
    checked,   \* the results of the checkers for it (last_audit_receipt)
    cycles     \* revisions made of it

vars == <<state, told, forced, text, checked, cycles>>

-----------------------------------------------------------------------------
\* Results of a checker; scores in hundredths.
Result(status, severity, score) ==
    [status |-> status, severity |-> severity, score |-> score]
Passed(severity) == Result("PASS", severity, 100)
Unknown(severity) == Result("UNKNOWN", severity, 50)

Says(d, kind) == Of(d, kind) # {}

\* A checker that wants a text and fails it with a score if it shows a fault.
Judge(d, fault, severity, score) ==
    IF d = {} THEN Unknown(severity)
    ELSE IF fault THEN Result("FAIL", severity, score)
    ELSE Passed(severity)

\* A checker that takes an empty text for a good one.
JudgeAny(fault, severity, score) ==
    IF fault THEN Result("FAIL", severity, score) ELSE Passed(severity)

WordCount(d) == JudgeAny(d = {} \/ Says(d, "short"), "P0", IF d = {} THEN 0 ELSE 50)
AliveDead(d, dead_characters) ==
    Judge(d, \E c \in dead_characters : By(d, "acts", c) # {}, "P0", 0)
HashBranch(packet_hash) == JudgeAny(~packet_hash, "P0", 0)
\* Mutant: the realms as the draft itself would leave them.
RealmsOfDraft(d, s) ==
    LET realm == Standing(Extract(d), s)
    IN  JudgeAny(\E c \in DOMAIN realm : By(d, "flies", c) # {} /\ realm[c] \notin Flying,
                 "P0", 0)
RealmStrictness(d, s) ==
    JudgeAny(\E c \in DOMAIN s.realm : By(d, "flies", c) # {} /\ s.realm[c] \notin Flying,
             "P0", 0)
ResourceLedger(s) == JudgeAny(\E c \in Chars : s.merit[c] < 0, "P0", 0)
Timeline(chapter) == JudgeAny(chapter <= 0, "P0", 0)
FrozenCanon(d) == JudgeAny(Says(d, "denies"), "P0", 0)
AIPattern(d) ==
    JudgeAny(Says(d, "loops") \/ Says(d, "cliche"), "P1", IF Says(d, "loops") THEN 30 ELSE 60)
PODCompatibility(d) == JudgeAny(Says(d, "early"), "P0", 0)
OOCFidelity(d) == Judge(d, Says(d, "begs"), "P0", 0)
RelationshipDynamics(d, relationships) ==
    Judge(d, \E p \in relationships : By(d, "rushes", p) # {}, "P1", 0)
Pacing(d) ==
    IF d = {} THEN Result("FAIL", "P0", 0)
    ELSE IF Says(d, "talk") THEN Result("WARN", "P1", 60)
    ELSE Passed("P1")
EpistemicClaim(d) == Judge(d, Says(d, "secret"), "P0", 0)
MetaLeak(d) ==
    IF d # {} /\ ~Says(d, "canon word") /\ Says(d, "plot word")
    THEN Result("WARN", "P0", 70)
    ELSE Judge(d, Says(d, "canon word"), "P0", 0)
DomainFill(d, canonicalized_terms) ==
    Judge(d, \E p \in Of(d, "acupoint") : p.what \notin canonicalized_terms, "P0", 0)
\* In the mode fanfic_voice, the one a story state without style_mode has.
StyleFingerprint(d, manual_review) ==
    IF d # {} /\ ~Says(d, "off band") /\ Says(d, "near band") /\ ~manual_review
    THEN Result("REVISE", "P0", 50)
    ELSE Judge(d, Says(d, "off band"), "P0", 0)
IdentityReveal(d, canon_time) ==
    Judge(d, \E p \in Of(d, "alias") : canon_time # {} /\ p.reveal > Max(canon_time), "P0", 0)
BoundedProgression(d) == Judge(d, Says(d, "overclaims"), "P1", 0)
CombatStyle(d) == Judge(d, FALSE, "P2", 100)

-----------------------------------------------------------------------------
\* TransitionTopology.  Apertures a text says are opened; if it opens none that
\* is new, those it says are prepared.  Only the last of them is the target.
Place(a) == CHOOSE k \in DOMAIN Apertures : Apertures[k] = a
Declared(d, opened) ==
    LET New(kind) == {Place(p.what) : p \in {q \in Of(d, kind) : q.what \notin Range(opened)}}
    IN  IF New("opens") # {} THEN New("opens") ELSE New("prepares")

\* The edges of the topology lead from each aperture to the next in order.
ValidProgression(opened, targets) ==
    /\ opened = SubSeq(Apertures, 1, Len(opened))
    /\ targets # {} =>
          Max(targets) = (IF opened = <<>> THEN 0 ELSE Place(opened[Len(opened)])) + 1

ValidArtifact(d, opened) ==
    ValidProgression(opened, Declared(d, opened)) /\ ~Says(d, "acupoint")

TransitionTopology(d, opened_apertures) ==
    Judge(d, ~ValidArtifact(d, opened_apertures), "P0", 0)

-----------------------------------------------------------------------------
RequiredScore == 75

\* The checkers as the registry runs them on a chapter of a project.  The keys
\* dead_characters, relationships, canonicalized_terms, style_manual_review,
\* canon_time_max and opened_apertures of the story state are written by no
\* operation: the checkers find their defaults.
Check(d, s, chapter) ==
    [word_count            |-> WordCount(d),
     alive_dead            |-> AliveDead(d, {}),
     hash_branch           |-> HashBranch(TRUE),
     realm_strictness      |-> RealmStrictness(d, s),
     resource_ledger       |-> ResourceLedger(s),
     spatial_continuity    |-> Passed("P0"),
     timeline_consistency  |-> Timeline(chapter),
     frozen_canon          |-> FrozenCanon(d),
     ai_pattern            |-> AIPattern(d),
     pod_compatibility     |-> PODCompatibility(d),
     canon_orphan          |-> Passed("P0"),
     butterfly_debt        |-> Passed("P0"),
     divergence_monotonicity |-> Passed("P0"),
     ooc_fidelity          |-> OOCFidelity(d),
     relationship_dynamics |-> RelationshipDynamics(d, {}),
     pacing                |-> Pacing(d),
     canon_fidelity        |-> Passed("P0"),
     epistemic_claim       |-> EpistemicClaim(d),
     meta_leak             |-> MetaLeak(d),
     transition_topology   |-> TransitionTopology(d, <<>>),
     domain_fill           |-> DomainFill(d, {}),
     style_fingerprint     |-> StyleFingerprint(d, FALSE),
     identity_reveal       |-> IdentityReveal(d, {}),
     bounded_progression   |-> BoundedProgression(d),
     combat_style          |-> CombatStyle(d),
     sensory_density       |-> Passed("P2")]

\* Only FAIL and UNKNOWN block: a checker's own REVISE costs its score, no more.
Blocked(results) ==
    \E c \in DOMAIN results : /\ results[c].status \in {"FAIL", "UNKNOWN"}
                              /\ results[c].severity = "P0"
Average(results) ==
    SumFunction([c \in DOMAIN results |-> results[c].score])
        \div Cardinality(DOMAIN results)
Verdict(results) ==
    IF Blocked(results) \/ Average(results) < RequiredScore THEN "REVISE" ELSE "PASS"

-----------------------------------------------------------------------------
Init ==
    /\ state = InitialState
    /\ told = <<>> /\ forced = {}
    /\ text = NoText
    /\ checked = NoText
    /\ cycles = 0

Audited(d) ==
    /\ text' = d
    /\ checked' = Check(d, state, Len(told) + 1)

Idle == text' = NoText /\ checked' = NoText /\ cycles' = 0

Write(d) ==
    /\ text = NoText
    /\ Len(told) < MaxChapters
    /\ Audited(d)
    /\ UNCHANGED <<state, told, forced, cycles>>

\* Mutant: the loop does not count.
ReviseUncounted(d) ==
    /\ text # NoText
    /\ Audited(d)
    /\ cycles' = cycles + 1
    /\ UNCHANGED <<state, told, forced>>

\* While the verdict is REVISE, a new text from the writer; the critic may ask
\* for one too when the checkers pass.
Revise(d) ==
    /\ text # NoText
    /\ cycles < MaxRevisions
    /\ Audited(d)
    /\ cycles' = cycles + 1
    /\ UNCHANGED <<state, told, forced>>

\* The receipt lets the chapter through, or write-next --force-auto does when
\* the revisions are used up.
Admitted == text # NoText /\ (Verdict(checked) = "PASS" \/ cycles = MaxRevisions)

GiveUp ==
    /\ text # NoText
    /\ Verdict(checked) = "REVISE"
    /\ cycles = MaxRevisions
    /\ Idle
    /\ UNCHANGED <<state, told, forced>>

Commit ==
    /\ Admitted
    /\ ValidAll(Extract(text), state)
    /\ state' = Apply(Extract(text), state)
    /\ told' = Append(told, text)
    /\ forced' = IF Verdict(checked) = "PASS" THEN forced ELSE forced \cup {Len(told) + 1}
    /\ Idle

Refuse ==
    /\ Admitted
    /\ ~ValidAll(Extract(text), state)
    /\ Idle
    /\ UNCHANGED <<state, told, forced>>

Next ==
    \/ \E d \in Drafts : Write(d) \/ Revise(d)
    \/ GiveUp
    \/ Commit
    \/ Refuse

Spec == Init /\ [][Next]_vars

-----------------------------------------------------------------------------
\* The variables have their types; no more revisions are made than allowed.
TypeOK ==
    /\ state \in State
    /\ told \in Seq(Drafts) /\ forced \subseteq DOMAIN told
    /\ Len(told) <= MaxChapters
    /\ text \in Drafts \cup {NoText}
    /\ cycles \in 0..MaxRevisions

Delta(k) == Extract(told[k])

\* The balances that a story's texts leave, one after the other.
MeritIn(d, c) == IF c \in DOMAIN Extract(d).merit THEN Extract(d).merit[c] ELSE 0
Booked(texts, c) ==
    LET after[n \in 0..Len(texts)] ==
            IF n = 0 THEN InitialMerit[c] ELSE after[n - 1] + MeritIn(texts[n], c)
    IN  after

\* Everyone's balance is what they began with and what every committed chapter
\* changed, counted once, and no chapter leaves it overdrawn: validate_resource
\* looks at one chapter's total, apply_delta adds it.
MeritBooks ==
    \A c \in Chars :
        /\ state.merit[c] = Booked(told, c)[Len(told)]
        /\ \A n \in 0..Len(told) : Booked(told, c)[n] >= 0

\* A character holds an item iff a chapter gave it to them and neither that
\* chapter nor a later one has them use it (or something its name is part of).
BagIsLastWord ==
    \A c \in Chars : \A i \in Items :
        i \in state.bag[c] <=>
            \E k \in DOMAIN told : /\ i \in Delta(k).got[c]
                                  /\ \A l \in k..Len(told) : i \notin Delta(l).used[c]

\* What was used up is not used again before it is acquired again: between two
\* chapters in which a character uses an item lies one that gives it to them.
\* Not of currency, nor of an item that passes for a longer-named one.
UsedOnce ==
    \A c \in Chars : \A i \in {j \in Items \ Currency : \A x \in Items : <<j, x>> \notin Within} :
        \A l \in DOMAIN told : \A k \in 1..(l - 1) :
            i \in Delta(k).used[c] \cap Delta(l).used[c] =>
                \E m \in (k + 1)..(l - 1) : i \in Delta(m).got[c]

\* No step lowers the rank of anyone's realm, also when a text tells of several
\* advancements or names a realm that is not in the table.
RealmNeverFalls ==
    [][\A c \in Chars : Rank[RealmOf(state', c)] >= Rank[RealmOf(state, c)]]_state

\* In a chapter that passed the gate nobody flies before they have earned it: of whom
\* an advancement has been told, the last told before that chapter is to a realm that
\* flies.  The draft's own advancement does not count, nor does a chapter in between
\* change it; of whom none has been told, the checker knows no realm and says nothing.
Advances(k, c) == c \in DOMAIN Delta(k).realm
FlightsAreEarned ==
    \A l \in DOMAIN told \ forced : \A c \in Chars : \A k \in 1..(l - 1) :
        /\ By(told[l], "flies", c) # {}
        /\ Advances(k, c)
        /\ \A m \in (k + 1)..(l - 1) : ~Advances(m, c)
        => Delta(k).realm[c] \in Flying

\* "Every aperture newly declared with respect to the committed ones must follow
\* a legal edge" (validate_artifact): a text that opens just the aperture after
\* those the committed chapters opened is not failed for the order.
Opened == UNION {{p.what : p \in Of(told[k], "opens")} : k \in DOMAIN told}
LegalOpeningPasses ==
    \A k \in DOMAIN Apertures :
        (/\ text # NoText
         /\ Opened = {Apertures[j] : j \in 1..(k - 1)}
         /\ {p.what : p \in Of(text, "opens")} = {Apertures[k]}
         /\ ~Says(text, "acupoint"))
            => checked.transition_topology.status # "FAIL"
=============================================================================
