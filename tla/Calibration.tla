----------------------------- MODULE Calibration -----------------------------
(***************************************************************************)
(* tools/adversarial-runner.mjs: calibrate, calibrate-record and           *)
(* calibrate-verdict on the calibration register of one wave.              *)
(*                                                                         *)
(* `calibrate` opens a dispatch pinned to the wave's swept range; claims   *)
(* are recorded into the open dispatch; the verdict grades it and closes   *)
(* it.  Each command reads the wave's register first and writes under the  *)
(* calibration register's lock afterwards: two steps, with the command's   *)
(* own view of the register carried between them in `session`.             *)
(*                                                                         *)
(* The wave's register is re-prepared and gains defects meanwhile.         *)
(***************************************************************************)
EXTENDS Rediscovery

CONSTANTS
    Sessions,        \* the shells that have a command in flight
    Ranges,          \* the commit ranges a pass may sweep
    Profiles,        \* claims, but for their link: [shared, dense]
    Links,           \* the known defects that claims are linked to
    MaxKnown,        \* bound: CRITICAL and HIGH findings of the wave
    MaxClaims,       \* bound: claims in the calibration register
    MaxEpochs        \* bound: closed dispatches

ASSUME CalibrationAssumption ==
    /\ MaxKnown \in Nat /\ MaxClaims \in Nat /\ MaxEpochs \in Nat
    /\ Profiles \subseteq [shared: [1 .. MaxKnown -> Nat], dense: SUBSET (1 .. MaxKnown)]
    /\ Links \subseteq 1 .. MaxKnown /\ None \notin Links

VARIABLES
    wave,          \* the findings register: its swept range and known defects
    calibration,   \* the calibration register, or None
    session        \* session -> the command it has in flight

vars == <<wave, calibration, session>>

Claim(profile, link) == [shared |-> profile.shared, dense |-> profile.dense, link |-> link]

Idle            == [op |-> "idle"]
Calibrating(r)  == [op |-> "calibrate", swept |-> r]
Recording(n)    == [op |-> "record", known |-> n]
Grading(v)      == [op |-> "verdict", verdict |-> v]

(* A verdict: whether it passed, and (history) the range and the stretch of  *)
(* the claims that were graded to get it.                                    *)
Verdict(c, known, graded) ==
    [passed |-> Passes(known, graded), swept |-> c.swept,
     from |-> Len(c.claims) - Len(graded), to |-> Len(c.claims)]

Init ==
    /\ wave \in [swept: Ranges, known: {0}]
    /\ calibration = None
    /\ session = [s \in Sessions |-> Idle]

Begin(s, command) == session[s] = Idle /\ session' = [session EXCEPT ![s] = command]
End(s)            == session' = [session EXCEPT ![s] = Idle]

-----------------------------------------------------------------------------
(* calibrate *)

(* replayFactsOf: at least three known defects, a pinned range. *)
Replayable == wave.known >= 3

(* The dispatch under way, as it joins the epochs, graded or not. *)
Closed(c) == [from |-> c.from, to |-> Len(c.claims), swept |-> c.swept, verdict |-> c.verdict]

(* Mutant: the first dispatch is opened without its sweep. *)
FirstDispatchUnpinned(swept) ==
    [epochs |-> <<>>, from |-> 0, claims |-> <<>>, swept |-> None, verdict |-> None]

FirstDispatch(swept) ==
    [epochs |-> <<>>, from |-> 0, claims |-> <<>>, swept |-> swept, verdict |-> None]

(* Mutant: the new dispatch starts at the first claim ever recorded. *)
OpenDispatchAtZero(c, swept) ==
    IF c = None THEN FirstDispatch(swept)
    ELSE [c EXCEPT !.epochs = Append(@, Closed(c)), !.from = 0,
                   !.swept = swept, !.verdict = None]

(* A new dispatch, pinned to the wave's sweep, that starts after every claim *)
(* there is; the claims stay.                                                *)
OpenDispatch(c, swept) ==
    IF c = None THEN FirstDispatch(swept)
    ELSE [c EXCEPT !.epochs = Append(@, Closed(c)), !.from = Len(c.claims),
                   !.swept = swept, !.verdict = None]

CalibrateRead(s) ==
    /\ Replayable
    /\ Begin(s, Calibrating(wave.swept))
    /\ UNCHANGED <<wave, calibration>>

CalibrateWrite(s) ==
    /\ session[s].op = "calibrate"
    /\ calibration # None => Len(calibration.epochs) < MaxEpochs
    /\ calibration' = OpenDispatch(calibration, session[s].swept)
    /\ End(s)
    /\ UNCHANGED wave

-----------------------------------------------------------------------------
(* calibrate-record and calibrate-verdict *)

(* Mutant of the write law: a graded dispatch still takes writes. *)
OpenForWriteAlways == calibration # None

(* parseCalibrationForWrite: a dispatch was opened and has no verdict yet. *)
OpenForWrite == calibration # None /\ calibration.verdict = None

(* A claim may be linked to a defect that is known when the command looks.   *)
RecordRead(s) ==
    /\ Replayable
    /\ Begin(s, Recording(wave.known))
    /\ UNCHANGED <<wave, calibration>>

(* What appendFinding refuses (a proof that is owed) is a GiveUp.            *)
RecordWrite(s) ==
    /\ session[s].op = "record"
    /\ OpenForWrite
    /\ Len(calibration.claims) < MaxClaims
    /\ \E p \in Profiles, link \in {k \in Links : k <= session[s].known} \cup {None} :
          calibration' = [calibration EXCEPT !.claims = Append(@, Claim(p, link))]
    /\ End(s)
    /\ UNCHANGED wave

(* dispatchClaimsOf, and a mutant that grades every claim ever recorded. *)
AllClaimsOf(c) == c.claims
DispatchClaimsOf(c) == SubSeq(c.claims, c.from + 1, Len(c.claims))

(* gradeCalibration, outside the lock: the sweep must be the wave's own.  It *)
(* reads the two files back to back, in one step here.                       *)
Grade(s) ==
    /\ calibration # None
    /\ calibration.swept = wave.swept
    /\ Begin(s, Grading(Verdict(calibration, wave.known, DispatchClaimsOf(calibration))))
    /\ UNCHANGED <<wave, calibration>>

RecordVerdict(s) ==
    /\ session[s].op = "verdict"
    /\ OpenForWrite
    /\ calibration' = [calibration EXCEPT !.verdict = session[s].verdict]
    /\ End(s)
    /\ UNCHANGED wave

-----------------------------------------------------------------------------
(* A command is refused, or killed. *)
GiveUp(s) ==
    /\ session[s] # Idle
    /\ End(s)
    /\ UNCHANGED <<wave, calibration>>

(* The wave is re-prepared, over any range ... *)
Prepare ==
    /\ wave' \in [swept: Ranges, known: {wave.known}]
    /\ UNCHANGED <<calibration, session>>

(* ... and gains a defect, recorded or raised to HIGH or CRITICAL. *)
FindDefect ==
    /\ wave.known < MaxKnown
    /\ wave' = [wave EXCEPT !.known = @ + 1]
    /\ UNCHANGED <<calibration, session>>

Next ==
    \/ Prepare \/ FindDefect
    \/ \E s \in Sessions :
          \/ CalibrateRead(s) \/ CalibrateWrite(s)
          \/ RecordRead(s) \/ RecordWrite(s)
          \/ Grade(s) \/ RecordVerdict(s)
          \/ GiveUp(s)

Spec == Init /\ [][Next]_vars

-----------------------------------------------------------------------------
(* Properties *)

Claims == {Claim(p, link) : p \in Profiles, link \in Links \cup {None}}

Verdicts == [passed: BOOLEAN, swept: Ranges, from: Nat, to: Nat]

Epochs == [from: Nat, to: Nat, swept: Ranges, verdict: Verdicts \cup {None}]

Registers ==
    [epochs: Seq(Epochs), from: Nat, claims: Seq(Claims),
     swept: Ranges, verdict: Verdicts \cup {None}]

ASSUME NoneAssumption == None \notin Registers

TypeOK ==
    /\ wave \in [swept: Ranges, known: 0 .. MaxKnown]
    /\ calibration \in Registers \cup {None}
    /\ session \in [Sessions ->
          {Idle} \cup {Calibrating(r) : r \in Ranges}
            \cup {Recording(n) : n \in 0 .. MaxKnown} \cup [op: {"verdict"}, verdict: Verdicts]]

(* "Earlier dispatches' claims stay but are never graded again": the         *)
(* dispatches cut the claims into consecutive pieces, none of which overlap  *)
(* and none of which is left out, however many sessions calibrate at once.   *)
DispatchesTileClaims ==
    calibration # None =>
        LET es == calibration.epochs
            n  == Len(es)
            EndOf(i) == IF i = 0 THEN 0 ELSE es[i].to
        IN  /\ \A i \in 1 .. n : es[i].from = EndOf(i - 1) /\ es[i].from <= es[i].to
            /\ calibration.from = EndOf(n)
            /\ calibration.from <= Len(calibration.claims)

(* "One verdict per dispatch -- a retry is a NEW dispatch": a graded         *)
(* dispatch takes no further claim and no second verdict, it only moves, as  *)
(* it is, into the history; and the history is never rewritten.              *)
Filed(c, d) == d.epochs = Append(c.epochs, Closed(c))

OneVerdictPerDispatch ==
    [][calibration # None =>
          /\ calibration'.epochs = calibration.epochs \/ Filed(calibration, calibration')
          /\ calibration.verdict # None /\ calibration' # calibration =>
                Filed(calibration, calibration') /\ calibration'.claims = calibration.claims
      ]_vars

OneToOne(m) == \A p, q \in m : p[1] = q[1] \/ p[2] = q[2] => p = q

BestMatch(known, claims) ==
    Max({Cardinality(m) : m \in {x \in SUBSET Pairs(known, claims) : OneToOne(x)}})

(* "Each claim can win at most one known": the greedy match never counts     *)
(* more defects than one-to-one assignments can cover, and at least half.    *)
MatchCountsFairly ==
    calibration # None =>
        LET claims == DispatchClaimsOf(calibration)
            best   == BestMatch(wave.known, claims)
            won    == Cardinality({p[1] : p \in MutualMatch(wave.known, claims)})
        IN  won <= best /\ best <= 2 * won

(* A verdict never rests on "the union" of several dispatches, nor on two    *)
(* sweeps: the claims it graded all belong to one dispatch, pinned to the    *)
(* range the verdict was given for.                                          *)
VerdictGradesOneDispatch ==
    calibration # None =>
        LET dispatches == {calibration.epochs[i] : i \in DOMAIN calibration.epochs}
                              \cup {Closed(calibration)}
        IN  \A d \in dispatches : d.verdict # None =>
                \E e \in dispatches : /\ e.from = d.verdict.from /\ d.verdict.to <= e.to
                                      /\ e.swept = d.verdict.swept

(* What the comment at openDispatch says: the claims of earlier dispatches   *)
(* "are never graded again" -- a dispatch's verdict starts at its own first  *)
(* claim.                                                                    *)
EarlierClaimsNeverGraded ==
    calibration # None =>
        /\ calibration.verdict # None => calibration.verdict.from >= calibration.from
        /\ \A i \in DOMAIN calibration.epochs :
              LET e == calibration.epochs[i]
              IN  e.verdict # None => e.verdict.from >= e.from
=============================================================================
