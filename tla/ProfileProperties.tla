---------------------------- MODULE ProfileProperties ----------------------------
(***************************************************************************)
(* What readers may rely on: rows that make sense, and a cache that says   *)
(* what the tables say or soon will.                                       *)
(***************************************************************************)
EXTENDS ProfileFlow

\* A cached answer was true at some time: neither a profile whose transaction
\* rolled back nor a mixture ever reaches the cache.
NothingInvented ==
    \A s \in Subjects : cache[s] # Missing => cache[s] \in past[s]

Fresh(s) == cache[s] # Missing => cache[s] \in Answers(rows, s)

\* Invalidation before the COMMIT is enough as long as nobody reads a subject
\* while it is recalculated, whatever fails in between.
FreshUnlessRaced == \A s \in Subjects \ raced : Fresh(s)

\* One row per subject, project and day, with the level its score stands for.
\* Only rows without a project may double, and only a row that two overlapping
\* recalculations worked on may carry the level of another score.
RowsSoundUnlessRaced ==
    \A k \in Keys :
        /\ Len(rows[k]) <= 1 \/ (k[2] = None /\ k[1] \in raced)
        /\ k[1] \notin raced => \A row \in Range(rows[k]) : row.level = LevelFor(row.score)

\* The level of every profile row is the one of its score's interval.
LevelFitsScore ==
    \A k \in Keys : \A row \in Range(rows[k]) : row.level = LevelFor(row.score)

\* Whatever raced, once recalculations stop the cache comes to agree with the
\* tables and stays so.
CacheHeals ==
    <>[](\A r \in Requests : ~ Recalculating(r)) => <>[](\A s \in Subjects : Fresh(s))
=============================================================================
