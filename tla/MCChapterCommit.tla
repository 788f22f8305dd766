-------------------------- MODULE MCChapterCommit --------------------------
(***************************************************************************)
(* Small instances of ChapterCommit.                                       *)
(***************************************************************************)
EXTENDS ChapterCommit

CONSTANTS d1, d2, main, alt, t1, t2, t3

\* The death of a character happens once: the validator refuses it twice.
MCValid(d, s) == d = d2 => \A k \in DOMAIN s : s[k] # d2

\* Where an error leaves nothing behind: while staging (the documented fault
\* points after_state to after_memory), after the state is published
\* (after_state_commit), when branches.json, the last file before the snapshot,
\* is written, and in the best-effort governance.
EarlyFaults == {"stage", "chapters", "heads", "event"}
\* The last write but one has happened: the snapshot is out.
LateFaults == {"hybrid"}

\* The process may die at any point of a commit or a rollback.
Crashes == {"log_begin", "backup", "stage", "publish", "index", "log_commit",
            "event", "report", "manifest", "cleanup", "rollback"}
\* Before the `try', where nothing is undone.
UnprotectedFaults == {"backup"}

None == {}
=============================================================================
