---------------------------- MODULE MCAuditGate ----------------------------
(***************************************************************************)
(* A small instance of AuditGate: two characters, three items one of which *)
(* is named inside another, and texts of up to two passages.               *)
(***************************************************************************)
EXTENDS AuditGate

\* "Lệnh bài" and "Lệnh bài Tố Nữ Đạo"; "Linh thạch" is currency.
MCItems == {"token", "nun token", "stones"}
MCWithin == {<<"token", "nun token">>}

\* Names with the ranks REALM_ORDER gives them, "Ngoại Cảnh Tam Trọng Thiên"
\* (found by the part "Ngoại Cảnh") and one the table does not know.
MCRank == [aperture |-> 10, late |-> 12, exterior |-> 20, third |-> 20, second |-> 22,
           unheard |-> -1]

\* aperture_topology.json without its last aperture.
MCApertures == <<"eye", "ear", "nose">>

MCInitialMerit == [meng |-> 0, jiang |-> 100]

Act(kind, who, what) == [kind |-> kind, who |-> who, what |-> what]
Merit(who, amount) == [kind |-> "merit", who |-> who, amount |-> amount]
Advance(what, trigger) ==
    [kind |-> "advances", who |-> "meng", what |-> what, trigger |-> trigger]
Fault(kind) == [kind |-> kind]

\* Texts that change the story state.
StoryDrafts ==
    {{Act("takes", "meng", "nun token"), Act("takes", "meng", "token"), Merit("meng", 100)},
     {Act("takes", "meng", "token"), Act("hurts", "meng", "cut")},
     {Act("uses", "meng", "nun token"), Merit("meng", -50)},
     {Act("uses", "meng", "token")},
     {Act("takes", "meng", "nun token"), Act("uses", "meng", "nun token")},
     {Act("heals", "meng", "cut"), Merit("jiang", -100), Act("uses", "jiang", "stones")},
     {Advance("late", 1)}, {Advance("second", 1)},
     {Advance("second", 1), Advance("third", 2), Act("flies", "meng", "")},
     {Advance("unheard", 1)}}

\* Every fault of a checker that is not P0, and the P0 checkers' warnings.
Minor == {Fault(k) : k \in {"loops", "overclaims", "talk", "plot word", "near band"}}

\* Texts that only the checkers look at.
GateDrafts ==
    {{}, Minor, {Fault("cliche")}, {Act("flies", "meng", "")},
     {Act("acts", "jiang", ""), Act("rushes", "meng", ""), [kind |-> "alias", reveal |-> 9]},
     {Act("opens", "", "eye")}, {Act("opens", "", "ear")},
     {Act("opens", "", "eye"), Act("opens", "", "ear")},
     {Act("prepares", "", "nose")}, {Act("acupoint", "", "yingxiang")}}
    \cup {{Fault(k)} : k \in {"short", "denies", "early", "begs", "secret", "canon word",
                              "off band"}}

MCDrafts == StoryDrafts \cup GateDrafts
\* Texts that open one aperture each.
OpeningDrafts == {{Act("opens", "", a)} : a \in {"eye", "ear", "nose"}}

MCPassages == UNION (MCDrafts \cup OpeningDrafts)

\* Bound: chapters that change no story state are the last one committed.
Explored == \A k \in DOMAIN told : told[k] \in StoryDrafts
=============================================================================
