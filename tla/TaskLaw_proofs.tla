--------------------------- MODULE TaskLaw_proofs ---------------------------
(***************************************************************************)
(* What one appended event does to the facts task-state derives from a     *)
(* record: its phase, its live pins, its approval.                         *)
(***************************************************************************)
EXTENDS TaskLaw, NatOrder_proofs

(* The transitions of a record, if any, have a last one. *)
HasLatest(ev) ==
    LET moves == OfType(ev, "transition")
    IN  moves # {} => \E i \in moves : \A j \in moves : j <= i

LEMMA EventShape ==
    ASSUME NEW e \in Events
    PROVE  /\ e.type = "transition" => e.to \in Phases
           /\ e.type = "scope" => e.patterns \subseteq Patterns
           /\ e.type = "red-check" => e.command \in Commands \cup {None}
BY DEF Events, Created, Approval, PinExemption, Retired, Transition, Scope, Pin, PinRetire

LEMMA EventsTyped ==
    /\ Created \in Events /\ Approval \in Events
    /\ PinExemption \in Events /\ Retired \in Events
    /\ \A t \in Phases : Transition(t) \in Events
    /\ \A ps \in SUBSET Patterns : Scope(ps) \in Events
    /\ \A c \in Commands, x \in Expects, ps \in SUBSET Paths : Pin(c, x, ps) \in Events
    /\ \A ps \in SUBSET Paths : PathCheck(ps) \in Events
    /\ \A c \in Commands, x \in Expects \cup {None} : PinRetire(c, x) \in Events
BY DEF Events, PathCheck

LEMMA AppendShape ==
    ASSUME NEW ev \in Seq(Events), NEW e \in Events
    PROVE  /\ Append(ev, e) \in Seq(Events)
           /\ Len(ev) \in Nat
           /\ Len(Append(ev, e)) = Len(ev) + 1
           /\ DOMAIN ev = 1 .. Len(ev)
           /\ DOMAIN Append(ev, e) = 1 .. Len(ev) + 1
           /\ \A i \in DOMAIN ev : Append(ev, e)[i] = ev[i]
           /\ Append(ev, e)[Len(ev) + 1] = e
OBVIOUS

LEMMA OfTypeAppend ==
    ASSUME NEW ev \in Seq(Events), NEW e \in Events, NEW t
    PROVE  /\ e.type = t => OfType(Append(ev, e), t) = OfType(ev, t) \cup {Len(ev) + 1}
           /\ e.type # t => OfType(Append(ev, e), t) = OfType(ev, t)
BY AppendShape DEF OfType

LEMMA LatestIn ==
    ASSUME NEW S, \E i \in S : \A j \in S : j <= i
    PROVE  Latest(S) \in S /\ \A j \in S : j <= Latest(S)
BY DEF Latest

LEMMA RecordHasLatest ==
    ASSUME NEW ev \in Seq(Events) PROVE HasLatest(ev)
<1> DEFINE moves == OfType(ev, "transition")
<1>1. moves \in SUBSET Nat /\ Len(ev) \in Nat /\ \A m \in moves : m <= Len(ev)
  BY DEF OfType
<1> QED BY <1>1, GreatestElement DEF HasLatest

(* Only a transition and a retirement move the phase. *)
LEMMA PhaseQuiet ==
    ASSUME NEW ev \in Seq(Events), NEW e \in Events,
           e.type \notin {"transition", "retired"}
    PROVE  DerivePhase(Append(ev, e)) = DerivePhase(ev)
<1> DEFINE moves == OfType(ev, "transition")
<1>1. /\ OfType(Append(ev, e), "transition") = moves
      /\ OfType(Append(ev, e), "retired") = OfType(ev, "retired")
  BY OfTypeAppend
<1>2. ASSUME moves # {} PROVE Append(ev, e)[Latest(moves)] = ev[Latest(moves)]
  <2>1. Latest(moves) \in moves
    BY <1>2, RecordHasLatest, LatestIn DEF HasLatest
  <2> QED BY <2>1, AppendShape DEF OfType
<1> QED BY <1>1, <1>2 DEF DerivePhase

LEMMA PhaseMove ==
    ASSUME NEW ev \in Seq(Events), NEW t \in Phases, OfType(ev, "retired") = {}
    PROVE  DerivePhase(Append(ev, Transition(t))) = t
<1> DEFINE e == Transition(t)
           new == Append(ev, e)
           moves == OfType(new, "transition")
<1>1. e \in Events /\ e.type = "transition" /\ e.to = t
  BY DEF Events, Transition
<1>2. /\ moves = OfType(ev, "transition") \cup {Len(ev) + 1}
      /\ OfType(new, "retired") = {}
  BY <1>1, OfTypeAppend
<1>3. OfType(ev, "transition") \subseteq 1 .. Len(ev) /\ Len(ev) \in Nat
  BY AppendShape DEF OfType
<1>4. Latest(moves) = Len(ev) + 1
  <2>1. \A j \in moves : j <= Len(ev) + 1
    BY <1>2, <1>3
  <2>2. Len(ev) + 1 \in moves
    BY <1>2
  <2>3. Latest(moves) \in moves /\ \A j \in moves : j <= Latest(moves)
    BY <2>1, <2>2, LatestIn
  <2>4. Latest(moves) <= Len(ev) + 1 /\ Len(ev) + 1 <= Latest(moves)
    BY <2>1, <2>2, <2>3
  <2>5. Latest(moves) \in Nat
    BY <1>2, <1>3, <2>3
  <2> HIDE DEF moves
  <2> QED BY <1>3, <2>4, <2>5
<1>5. new[Len(ev) + 1] = e
  BY <1>1, AppendShape
<1> QED BY <1>1, <1>2, <1>4, <1>5 DEF DerivePhase

LEMMA PhaseRetired ==
    ASSUME NEW ev \in Seq(Events)
    PROVE  DerivePhase(Append(ev, Retired)) = "retired"
<1>1. Retired \in Events /\ Retired.type = "retired"
  BY DEF Events, Retired
<1>2. OfType(Append(ev, Retired), "retired") # {}
  BY <1>1, OfTypeAppend
<1> QED BY <1>2 DEF DerivePhase

LEMMA PhaseTyped ==
    ASSUME NEW ev \in Seq(Events)
    PROVE  DerivePhase(ev) \in Phases \cup {"retired"}
<1> DEFINE moves == OfType(ev, "transition")
<1>1. ASSUME moves # {} PROVE ev[Latest(moves)].to \in Phases
  <2>1. Latest(moves) \in moves
    BY <1>1, RecordHasLatest, LatestIn DEF HasLatest
  <2>2. ev[Latest(moves)] \in Events /\ ev[Latest(moves)].type = "transition"
    BY <2>1, AppendShape DEF OfType
  <2> QED BY <2>2, EventShape
<1>2. "intake" \in Phases
  BY DEF Phases, Rank
<1> QED BY <1>1, <1>2 DEF DerivePhase

(* An open record was never retired. *)
LEMMA OpenNotRetired ==
    ASSUME NEW ev, AppendLawful(ev) PROVE OfType(ev, "retired") = {}
BY DEF AppendLawful, Terminal, DerivePhase

(* Only a red-check and a pin-retire touch the live pins. *)
LEMMA PinsQuiet ==
    ASSUME NEW ev \in Seq(Events), NEW e \in Events,
           e.type \notin {"red-check", "pin-retire"}
    PROVE  CommandPins(Append(ev, e)) = CommandPins(ev)
<1> DEFINE new == Append(ev, e)
<1>1. /\ OfType(new, "red-check") = OfType(ev, "red-check")
      /\ OfType(new, "pin-retire") = OfType(ev, "pin-retire")
  BY OfTypeAppend
<1>2. /\ \A i \in OfType(ev, "red-check") \cup OfType(ev, "pin-retire") : new[i] = ev[i]
      /\ OfType(ev, "red-check") \subseteq DOMAIN ev /\ DOMAIN ev \subseteq DOMAIN new
  BY AppendShape DEF OfType
<1>3. ASSUME NEW i \in OfType(ev, "red-check")
      PROVE  i \in RetiredPins(new) <=> i \in RetiredPins(ev)
  <2>1. i \in DOMAIN ev /\ i \in DOMAIN new
    BY <1>2
  <2>2. \A j \in OfType(ev, "pin-retire") :
           RetireReaches(new[j], new[i]) <=> RetireReaches(ev[j], ev[i])
    <3> TAKE j \in OfType(ev, "pin-retire")
    <3>1. new[j] = ev[j] /\ new[i] = ev[i]
      BY <1>2
    <3> HIDE DEF new
    <3> QED BY <3>1
  <2> HIDE DEF new
  <2> QED BY <1>1, <2>1, <2>2 DEF RetiredPins
<1> QED BY <1>1, <1>2, <1>3 DEF CommandPins

(* A command pin is live when it is recorded, whatever was retired before.   *)
LEMMA PinIsLive ==
    ASSUME NEW ev \in Seq(Events), NEW c \in Commands, NEW x \in Expects,
           NEW ps \in SUBSET Paths
    PROVE  Len(ev) + 1 \in CommandPins(Append(ev, Pin(c, x, ps)))
<1> DEFINE e == Pin(c, x, ps)
           new == Append(ev, e)
<1>1. e \in Events /\ e.type = "red-check" /\ e.command = c /\ c # None
  <2>1. e \in Events
    BY DEF Events
  <2> QED BY <2>1, TaskLawAssumption DEF Pin
<1>2. /\ new[Len(ev) + 1] = e /\ Len(ev) + 1 \in DOMAIN new
      /\ DOMAIN new = 1 .. Len(ev) + 1 /\ Len(ev) \in Nat
  BY <1>1, AppendShape
<1>3. Len(ev) + 1 \in OfType(new, "red-check")
  BY <1>1, <1>2 DEF OfType
<1>4. Len(ev) + 1 \notin RetiredPins(new)
  BY <1>2 DEF RetiredPins, OfType
<1> QED BY <1>1, <1>2, <1>3, <1>4 DEF CommandPins
=============================================================================
