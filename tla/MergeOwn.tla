------------------------------ MODULE MergeOwn ------------------------------
(***************************************************************************)
(* What a merge commit itself authors (tools/task-coverage.mjs, mergeFacts *)
(* to filesIntroducedBy): both gates judge a merge by these files alone.   *)
(***************************************************************************)
CONSTANTS Conflict

(* What a commit itself authors, per path: its content in the commit `m`, in *)
(* each parent, and in the merge bases.                                      *)

CleanMerge(b, p, q) == IF p = q \/ q = b THEN p ELSE IF p = b THEN q ELSE Conflict

(* mergeOwnFiles where git can merge: new content, or a departure from git's *)
(* own merge; Conflict where it cannot.                                    *)
OwnByCleanMerge(m, b, p, q) == (m # p /\ m # q) \/ m # CleanMerge(b, p, q)

(* Its fallback: new content, or a side's change since a base dropped.       *)
OwnByFallback(m, bases, p, q) ==
    \/ m # p /\ m # q
    \/ \E side \in {p, q} : m # side /\ (bases = {} \/ \E b \in bases : side # b)

(* An octopus answers for all it brings to its first parent. *)
OwnOfOctopus(m, sides) == m # sides[1]

=============================================================================
