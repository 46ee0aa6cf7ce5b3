----------------------------- MODULE Rediscovery -----------------------------
(***************************************************************************)
(* tools/adversarial-runner.mjs: what a calibration verdict counts --      *)
(* which of a wave's known defects the claims of a dispatch rediscovered.  *)
(*                                                                         *)
(* A claim is a record: `shared` gives, for each known defect, how many    *)
(* distinctive tokens the two texts share; `dense` are the defects where   *)
(* those tokens are a quarter of the smaller text; `link` is the defect it *)
(* was recorded as rediscovering, or None.  Tokenizing is left out.        *)
(*                                                                         *)
(* Known defects are numbered in the register's order.                     *)
(***************************************************************************)
EXTENDS SequencesExt

CONSTANT None

(* overlapOf: two bars, so that sparse overlap of generic prose counts as 0. *)
OverlapOf(k, c) ==
    IF c.shared[k] >= 4 \/ (c.shared[k] >= 3 /\ k \in c.dense) THEN c.shared[k] ELSE 0

(* The candidate pairs <<known, claim>>, densest first.  The sort is stable, *)
(* so that equals stay in the order of the two loops that made them.         *)
Pairs(known, claims) ==
    {p \in (1 .. known) \X DOMAIN claims : OverlapOf(p[1], claims[p[2]]) > 0}

Before(claims, p, q) ==
    LET a == OverlapOf(p[1], claims[p[2]])
        b == OverlapOf(q[1], claims[q[2]])
    IN  \/ a > b
        \/ a = b /\ p[1] < q[1]
        \/ a = b /\ p[1] = q[1] /\ p[2] < q[2]

Sorted(known, claims) ==
    LET ps == Pairs(known, claims)
        place == [p \in ps |-> Cardinality({q \in ps : Before(claims, q, p)}) + 1]
    IN  [i \in 1 .. Cardinality(ps) |-> CHOOSE p \in ps : place[p] = i]

Covers(m, k) == \E p \in m : p[1] = k
Spends(m, c) == \E p \in m : p[2] = c

(* Mutant: a claim is never spent, and wins any number of defects. *)
MutualMatchBlanket(known, claims) == Pairs(known, claims)

(* Path (a) of calibrationVerdict: each pair in turn is won if both are free.*)
Win(m, p) == IF Covers(m, p[1]) \/ Spends(m, p[2]) THEN m ELSE m \cup {p}

MutualMatch(known, claims) ==
    LET order == Sorted(known, claims)
        won[n \in 0 .. Len(order)] == IF n = 0 THEN {} ELSE Win(won[n - 1], order[n])
    IN  won[Len(order)]

(* Path (b): a link counts when the two texts share two tokens at least.     *)
Linked(known, claims) ==
    {k \in 1 .. known : \E i \in DOMAIN claims :
        claims[i].link = k /\ claims[i].shared[k] >= 2}

Rediscovered(known, claims) ==
    {p[1] : p \in MutualMatch(known, claims)} \cup Linked(known, claims)

(* Two thirds, rounded up. *)
BarOf(known) == (2 * known + 2) \div 3

(* Fewer than three known defects pins nothing. *)
Passes(known, claims) ==
    known >= 3 /\ Cardinality(Rediscovered(known, claims)) >= BarOf(known)
=============================================================================
