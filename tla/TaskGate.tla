------------------------------ MODULE TaskGate ------------------------------
(***************************************************************************)
(* The fact gate (tools/task-gate.mjs): the first touch of a target is     *)
(* refused with a demand for facts, the retry passes.  One session's state *)
(* file is shared by every tool call of the session; a call reads the      *)
(* clock BEFORE it waits for the lock, so calls may decide out of order.   *)
(* The locked read-decide-write is one step (LockFile implements it).      *)
(***************************************************************************)
EXTENDS Naturals, FiniteSets, Sequences

CONSTANTS
    Calls,          \* tool calls that may be in the gate at the same time
    Targets,        \* files whose edit is gated
    Destructive,    \* the one target of every destructive command
    MaxTargets,     \* MAX_TARGETS
    Ttl,            \* TTL_MS
    Skew,           \* bound: a call gets the lock at most Skew after its clock read
    MaxTime,        \* bound on the clock
    MaxDenials      \* bound on the refusals of a behaviour

Keys == Targets \cup {Destructive}

(* "bypass", the kind of a refusal that is no demand, is no file. *)
GateConstants ==
    /\ MaxTargets \in Nat /\ Ttl \in Nat /\ Skew \in Nat /\ MaxTime \in Nat
    /\ "bypass" \notin Keys

ASSUME GateAssumption == GateConstants

VARIABLES
    clock,      \* the wall clock
    state,      \* the state file: [entries, sessionDenials, fullShown, sessionDenialsAt]
    call,       \* call -> [kind, target, nowMs], or Idle
    denials,    \* history: the refusals, in order, [target, ordinal, full, at]
    last        \* history: the last decision taken, [refuse, target, nowMs]

gateVars == <<clock, state, call, denials, last>>

Idle    == [kind |-> "idle", target |-> Destructive, nowMs |-> 0]
Nothing == [refuse |-> TRUE, bypass |-> TRUE, target |-> Destructive, nowMs |-> 0]
NoDenialYet == MaxTime + 1      \* sessionDenialsAt, absent

Fresh == [entries |-> <<>>, sessionDenials |-> 0, fullShown |-> 0, sessionDenialsAt |-> NoDenialYet]

Lapsed(at, nowMs) == nowMs > at + Ttl

-----------------------------------------------------------------------------
(* freshCounters: zeroed when the last denial is older than the TTL. *)
FreshCounters(s, nowMs) ==
    IF s.sessionDenialsAt = NoDenialYet \/ Lapsed(s.sessionDenialsAt, nowMs)
    THEN [Fresh EXCEPT !.entries = s.entries]
    ELSE s

(* loadState: entries past the TTL are dropped at the read. *)
LoadState(s, nowMs) ==
    LET live == {k \in DOMAIN s.entries : ~Lapsed(s.entries[k], nowMs)}
    IN  FreshCounters([s EXCEPT !.entries = [k \in live |-> s.entries[k]]], nowMs)

(* A mutant: the newest asks are evicted. *)
BoundTargetsNewest(entries) ==
    {kept \in SUBSET DOMAIN entries :
        /\ Cardinality(kept) = IF Cardinality(DOMAIN entries) <= MaxTargets
                               THEN Cardinality(DOMAIN entries) ELSE MaxTargets
        /\ \A k \in kept, g \in (DOMAIN entries) \ kept : entries[k] <= entries[g]}

(* boundTargets: the sets of keys it may keep - equal times are either's. *)
BoundTargets(entries) ==
    {kept \in SUBSET DOMAIN entries :
        /\ Cardinality(kept) = IF Cardinality(DOMAIN entries) <= MaxTargets
                               THEN Cardinality(DOMAIN entries) ELSE MaxTargets
        /\ \A k \in kept, g \in (DOMAIN entries) \ kept : entries[k] >= entries[g]}

SaveState(s) ==
    \E kept \in BoundTargets(s.entries) :
        state' = [s EXCEPT !.entries = [k \in kept |-> s.entries[k]]]

(* gateDecision, for a target not freshly asked: the state it leaves. *)
IsFull(s, target) == s.fullShown < 3 \/ target = Destructive

Denied(s, target, nowMs) ==
    [entries |-> [k \in DOMAIN s.entries \cup {target} |-> IF k = target THEN nowMs ELSE s.entries[k]],
     sessionDenials |-> s.sessionDenials + 1,
     fullShown |-> IF IsFull(s, target) THEN s.fullShown + 1 ELSE s.fullShown,
     sessionDenialsAt |-> nowMs]

(* bypassDecision rides the ordinal and is no demand. *)
BypassDenied(s, nowMs) ==
    [entries |-> s.entries, sessionDenials |-> s.sessionDenials + 1, fullShown |-> s.fullShown,
     sessionDenialsAt |-> nowMs]

-----------------------------------------------------------------------------
GateInit ==
    /\ clock = 0 /\ state = Fresh
    /\ call = [c \in Calls |-> Idle]
    /\ denials = <<>> /\ last = Nothing

(* Time passes; a call does not wait for the lock longer than Skew. *)
Tick ==
    /\ clock < MaxTime
    /\ \A c \in Calls : call[c].kind # "idle" => clock < call[c].nowMs + Skew
    /\ clock' = clock + 1
    /\ UNCHANGED <<state, call, denials, last>>

(* A hook payload becomes an edit, a destructive command or a bypass; the clock is read. *)
Arrive(c) ==
    /\ call[c] = Idle
    /\ Len(denials) + Cardinality({d \in Calls : call[d] # Idle}) < MaxDenials
    /\ \E k \in Keys, kind \in {"gate", "bypass"} :
        /\ kind = "bypass" => k = Destructive
        /\ call' = [call EXCEPT ![c] = [kind |-> kind, target |-> k, nowMs |-> clock]]
    /\ UNCHANGED <<clock, state, denials, last>>

Answer(c, refuse) ==
    /\ call' = [call EXCEPT ![c] = Idle]
    /\ last' = [refuse |-> refuse, bypass |-> call[c].kind = "bypass",
                target |-> call[c].target, nowMs |-> call[c].nowMs]
    /\ UNCHANGED clock

Proceed(c) ==
    /\ call[c].kind = "gate"
    /\ LET s == LoadState(state, call[c].nowMs) IN
        /\ call[c].target \in DOMAIN s.entries
        /\ SaveState(s)
    /\ Answer(c, FALSE) /\ UNCHANGED denials

Refuse(c) ==
    /\ call[c].kind = "gate"
    /\ LET s == LoadState(state, call[c].nowMs)
           k == call[c].target
       IN  /\ k \notin DOMAIN s.entries
           /\ SaveState(Denied(s, k, call[c].nowMs))
           /\ denials' = Append(denials, [target |-> k, ordinal |-> s.sessionDenials + 1,
                                          full |-> IsFull(s, k), at |-> call[c].nowMs])
    /\ Answer(c, TRUE)

RefuseBypass(c) ==
    /\ call[c].kind = "bypass"
    /\ LET s == LoadState(state, call[c].nowMs) IN
        /\ SaveState(BypassDenied(s, call[c].nowMs))
        /\ denials' = Append(denials, [target |-> "bypass", ordinal |-> s.sessionDenials + 1,
                                       full |-> FALSE, at |-> call[c].nowMs])
    /\ Answer(c, TRUE)

GateNext == Tick \/ \E c \in Calls : Arrive(c) \/ Proceed(c) \/ Refuse(c) \/ RefuseBypass(c)

GateSpec == GateInit /\ [][GateNext]_gateVars

-----------------------------------------------------------------------------
(* A demand is made once and only once: a call proceeds only on a target   *)
(* whose facts were demanded within the TTL, and a demand just made stands *)
(* - the retry passes - until the TTL lapses or MaxTargets later demands    *)
(* have pushed it out (tools/task-gate.mjs:368, :393).                      *)
Asked(i, target, nowMs) ==
    denials[i].target = target /\ ~Lapsed(denials[i].at, nowMs)

PushedOut(i, upTo) ==
    Cardinality({denials[j].target : j \in {j \in 1..upTo :
        /\ denials[j].target \notin {denials[i].target, "bypass"}
        /\ denials[j].at >= denials[i].at}}) >= MaxTargets

AskedOnce ==
    /\ ~last.refuse => \E i \in DOMAIN denials : Asked(i, last.target, last.nowMs)
    /\ \A i, j \in DOMAIN denials :
        (i < j /\ denials[j].target # "bypass" /\ Asked(i, denials[j].target, denials[j].at + Skew))
            => PushedOut(i, j - 1)

(* No two denials of a session read alike, and none cites demands that were *)
(* not shown: an ordinal comes back only after a silence of the TTL, and a  *)
(* condensed refusal follows three full demands since the last such silence *)
(* (tools/task-gate.mjs:358, :393, :424).                                   *)
DenialsDiffer ==
    /\ \A i, j \in DOMAIN denials :
        (i < j /\ denials[i].ordinal = denials[j].ordinal) =>
            denials[j].at + 2 * Skew > denials[i].at + Ttl
    /\ \A j \in DOMAIN denials : (denials[j].target # "bypass" /\ ~denials[j].full) =>
        \E i \in 1..j :
            /\ Cardinality({k \in i..j : denials[k].full}) >= 3
            /\ \A k \in i..(j - 1) : ~Lapsed(denials[k].at, denials[k + 1].at)

(* Both: what the session is promised of its demands. *)
DemandsStand == AskedOnce /\ DenialsDiffer
=============================================================================
