----------------------------- MODULE MCLibrary -----------------------------
(***************************************************************************)
(* Library with a short canon in two editions: the second corrects a       *)
(* passage and has one chapter less, and both have a page that is skipped. *)
(***************************************************************************)
EXTENDS Library

Page(kind, text) == [kind |-> kind, text |-> text]
MCSpines == {<<Page("chapter", <<"p">>), Page("chapter", <<"q", "r">>),
               Page("thin", <<>>), Page("chapter", <<"p">>)>>,
             <<Page("chapter", <<"s">>), Page("junk", <<>>), Page("chapter", <<"q">>)>>}

MCEntities == {"meng", "gu"}
Named(meng, gu) == [e \in MCEntities |-> IF e = "meng" THEN meng ELSE gu]
MCMentions == [p \in {"p", "q", "r", "s"} |->
                  CASE p = "p" -> Named(2, 0) [] p = "q" -> Named(0, 1)
                    [] p = "r" -> Named(1, 0) [] p = "s" -> Named(1, 1)]
MCStrangers == [p \in {"p", "q", "r", "s"} |-> IF p = "q" THEN {"ren"} ELSE {}]

Option(size, max, resume, structural) ==
    [size |-> size, max |-> max, resume |-> resume, structural |-> structural]
MCOptions == {Option(1, 0, TRUE, FALSE), Option(2, 3, FALSE, TRUE)}
=============================================================================
