-------------------------- MODULE Calibration_proofs --------------------------
(***************************************************************************)
(* For any number of sessions, claims, defects and dispatches: the         *)
(* dispatches tile the claims, a dispatch has one verdict, and a verdict   *)
(* -- even one that is written into the wrong dispatch -- was computed on  *)
(* the claims of a single one; and for any overlaps of claims and defects, *)
(* what the greedy match of them is worth.                                 *)
(***************************************************************************)
EXTENDS Calibration, NatOrder_proofs, FiniteSetTheorems, FunctionTheorems

USE CalibrationAssumption, NoneAssumption

(* The dispatches of a register, and what a verdict rests on. *)
DispatchesOf(c) == {c.epochs[i] : i \in DOMAIN c.epochs} \cup {Closed(c)}

RestsOnOne(v, c) ==
    \E e \in DispatchesOf(c) : e.from = v.from /\ v.to <= e.to /\ e.swept = v.swept

EndOf(c, i) == IF i = 0 THEN 0 ELSE c.epochs[i].to

Tiled(c) ==
    /\ \A i \in 1 .. Len(c.epochs) :
          c.epochs[i].from = EndOf(c, i - 1) /\ c.epochs[i].from <= c.epochs[i].to
    /\ c.from = EndOf(c, Len(c.epochs))
    /\ c.from <= Len(c.claims)

(* A verdict in flight was computed on a dispatch, and that dispatch is      *)
(* still there, with as many claims as then or more.                         *)
InFlightGrades ==
    \A s \in Sessions : session[s].op = "verdict" =>
        calibration # None /\ RestsOnOne(session[s].verdict, calibration)

IInv ==
    /\ TypeOK
    /\ calibration # None =>
          /\ Tiled(calibration)
          /\ \A d \in DispatchesOf(calibration) :
                d.verdict # None => RestsOnOne(d.verdict, calibration)
    /\ InFlightGrades

(***************************************************************************)
(* What the writes do to the register: they extend it.                     *)
(***************************************************************************)
Extends(c, d) ==
    \A e \in DispatchesOf(c) : \E f \in DispatchesOf(d) :
        f.from = e.from /\ e.to <= f.to /\ f.swept = e.swept

LEMMA ClosedTyped ==
    ASSUME NEW c \in Registers
    PROVE  /\ Closed(c) \in Epochs
           /\ Closed(c).from = c.from /\ Closed(c).to = Len(c.claims)
           /\ Closed(c).swept = c.swept /\ Closed(c).verdict = c.verdict
BY DEF Registers, Closed, Epochs

LEMMA DispatchesTyped ==
    ASSUME NEW c \in Registers, NEW d \in DispatchesOf(c)
    PROVE  d \in Epochs
BY ClosedTyped DEF Registers, DispatchesOf

(* What rested on a dispatch rests on the one it became. *)
LEMMA RestsOn ==
    ASSUME NEW c \in Registers, NEW d \in Registers, Extends(c, d),
           NEW v \in Verdicts, RestsOnOne(v, c)
    PROVE  RestsOnOne(v, d)
<1>1. PICK e \in DispatchesOf(c) : e.from = v.from /\ v.to <= e.to /\ e.swept = v.swept
  BY DEF RestsOnOne
<1>2. PICK f \in DispatchesOf(d) : f.from = e.from /\ e.to <= f.to /\ f.swept = e.swept
  BY <1>1 DEF Extends
<1>3. v.to \in Nat /\ e.to \in Nat /\ f.to \in Nat
  BY <1>1, <1>2, DispatchesTyped DEF Verdicts, Epochs
<1> QED BY <1>1, <1>2, <1>3 DEF RestsOnOne

(* A first dispatch. *)
LEMMA FirstShape ==
    ASSUME NEW r \in Ranges
    PROVE  LET d == FirstDispatch(r)
           IN  /\ d \in Registers /\ Tiled(d)
               /\ \A e \in DispatchesOf(d) : e.verdict = None
<1> DEFINE d == FirstDispatch(r)
<1>1. d \in Registers /\ Len(d.epochs) = 0 /\ DOMAIN d.epochs = {} /\ Len(d.claims) = 0
  BY DEF FirstDispatch, Registers
<1>2. DispatchesOf(d) = {Closed(d)}
  BY <1>1 DEF DispatchesOf
<1>3. Tiled(d)
  BY <1>1 DEF Tiled, EndOf, FirstDispatch
<1> QED BY <1>1, <1>2, <1>3, ClosedTyped DEF FirstDispatch

(* A dispatch opened on a register that has some. *)
LEMMA ReopenShape ==
    ASSUME NEW c \in Registers, NEW r \in Ranges, Tiled(c), c # None
    PROVE  LET d == OpenDispatch(c, r)
           IN  /\ d \in Registers /\ Tiled(d) /\ Extends(c, d)
               /\ d.epochs = Append(c.epochs, Closed(c)) /\ d.claims = c.claims
               /\ \A e \in DispatchesOf(d) : e.verdict # None => e \in DispatchesOf(c)
<1> DEFINE d == OpenDispatch(c, r)
           n == Len(c.epochs)
<1>1. /\ d = [epochs |-> Append(c.epochs, Closed(c)), from |-> Len(c.claims),
              claims |-> c.claims, swept |-> r, verdict |-> None]
  BY DEF OpenDispatch, Registers
<1>2. /\ n \in Nat /\ DOMAIN c.epochs = 1 .. n /\ c.epochs \in Seq(Epochs)
      /\ Closed(c) \in Epochs /\ Len(c.claims) \in Nat
  BY ClosedTyped DEF Registers
<1>3. /\ d.epochs = Append(c.epochs, Closed(c)) /\ d.epochs \in Seq(Epochs)
      /\ Len(d.epochs) = n + 1 /\ DOMAIN d.epochs = 1 .. n + 1
      /\ \A i \in 1 .. n : d.epochs[i] = c.epochs[i]
      /\ d.epochs[n + 1] = Closed(c)
  BY <1>1, <1>2
<1>4. d \in Registers
  BY <1>1, <1>2, <1>3 DEF Registers
<1>5. DispatchesOf(d) = DispatchesOf(c) \cup {Closed(d)}
  BY <1>2, <1>3 DEF DispatchesOf
<1>6. Tiled(d)
  <2>1. \A i \in 0 .. n : EndOf(d, i) = EndOf(c, i)
    BY <1>2, <1>3 DEF EndOf
  <2>2. EndOf(d, n + 1) = Len(c.claims)
    BY <1>2, <1>3, ClosedTyped DEF EndOf
  <2>3. ASSUME NEW i \in 1 .. n + 1
        PROVE  d.epochs[i].from = EndOf(d, i - 1) /\ d.epochs[i].from <= d.epochs[i].to
    <3>1. CASE i \in 1 .. n
      BY <3>1, <2>1, <1>2, <1>3 DEF Tiled
    <3>2. CASE i = n + 1
      BY <3>2, <2>1, <1>2, <1>3, ClosedTyped DEF Tiled
    <3> QED BY <3>1, <3>2, <1>2
  <2>4. d.from = Len(c.claims) /\ Len(d.claims) = Len(c.claims)
    BY <1>1
  <2> QED BY <1>2, <1>3, <2>2, <2>3, <2>4 DEF Tiled
<1>7. Extends(c, d)
  <2>1. \A e \in DispatchesOf(c) : e.to \in Nat
    BY DispatchesTyped DEF Epochs
  <2> QED BY <1>5, <2>1 DEF Extends
<1>8. \A e \in DispatchesOf(d) : e.verdict # None => e \in DispatchesOf(c)
  <2>1. Closed(d).verdict = None
    BY <1>1 DEF Closed
  <2> QED BY <1>5, <2>1
<1>9. d.claims = c.claims
  BY <1>1
<1> HIDE DEF d
<1> QED BY <1>3, <1>4, <1>6, <1>7, <1>8, <1>9 DEF d

(* A claim recorded into a dispatch that is open. *)
LEMMA ClaimShape ==
    ASSUME NEW c \in Registers, NEW x \in Claims, Tiled(c), c.verdict = None
    PROVE  LET d == [c EXCEPT !.claims = Append(@, x)]
           IN  /\ d \in Registers /\ Tiled(d) /\ Extends(c, d) /\ d.epochs = c.epochs
               /\ \A e \in DispatchesOf(d) : e.verdict # None => e \in DispatchesOf(c)
<1> DEFINE d == [c EXCEPT !.claims = Append(@, x)]
<1>0. c = [epochs |-> c.epochs, from |-> c.from, claims |-> c.claims,
           swept |-> c.swept, verdict |-> c.verdict]
  BY DEF Registers
<1>1. d = [epochs |-> c.epochs, from |-> c.from, claims |-> Append(c.claims, x),
           swept |-> c.swept, verdict |-> None]
  BY <1>0, SMTT(20)
<1>2. /\ Len(c.claims) \in Nat /\ Len(d.claims) = Len(c.claims) + 1
      /\ d.claims \in Seq(Claims)
  BY <1>1 DEF Registers
<1>3. d \in Registers
  BY <1>1, <1>2 DEF Registers
<1>4. d.epochs = c.epochs /\ d.from = c.from /\ d.swept = c.swept /\ d.verdict = None
  BY <1>1
<1> HIDE DEF d
<1>5. Tiled(d)
  <2>1. \A i : EndOf(d, i) = EndOf(c, i)
    BY <1>4 DEF EndOf
  <2>2. c.from \in Nat
    BY DEF Registers
  <2> QED BY <1>2, <1>4, <2>1, <2>2 DEF Tiled
<1>6. Extends(c, d)
  <2>1. ASSUME NEW e \in DispatchesOf(c)
        PROVE  \E f \in DispatchesOf(d) :
                  f.from = e.from /\ e.to <= f.to /\ f.swept = e.swept
    <3>1. CASE e = Closed(c)
      <4>1. Closed(d) \in DispatchesOf(d)
        BY DEF DispatchesOf
      <4> QED BY <3>1, <4>1, <1>2, <1>3, <1>4, ClosedTyped
    <3>2. CASE e # Closed(c)
      <4>1. e \in DispatchesOf(d)
        BY <3>2, <1>4 DEF DispatchesOf
      <4> QED BY <4>1, DispatchesTyped DEF Epochs
    <3> QED BY <3>1, <3>2
  <2> QED BY <2>1 DEF Extends
<1>7. \A e \in DispatchesOf(d) : e.verdict # None => e \in DispatchesOf(c)
  <2>1. Closed(d).verdict = None
    BY <1>3, <1>4, ClosedTyped
  <2> QED BY <1>4, <2>1 DEF DispatchesOf
<1> QED BY <1>3, <1>4, <1>5, <1>6, <1>7 DEF d

(* A verdict written into a dispatch that is open. *)
LEMMA VerdictShape ==
    ASSUME NEW c \in Registers, NEW v \in Verdicts, Tiled(c)
    PROVE  LET d == [c EXCEPT !.verdict = v]
           IN  /\ d \in Registers /\ Tiled(d) /\ Extends(c, d) /\ d.epochs = c.epochs
               /\ \A e \in DispatchesOf(d) : e.verdict = v \/ e \in DispatchesOf(c)
<1> DEFINE d == [c EXCEPT !.verdict = v]
<1>1. d = [epochs |-> c.epochs, from |-> c.from, claims |-> c.claims,
           swept |-> c.swept, verdict |-> v]
  BY DEF Registers
<1>2. d \in Registers
  BY <1>1 DEF Registers
<1>3. /\ d.epochs = c.epochs /\ d.from = c.from /\ d.swept = c.swept
      /\ d.verdict = v /\ d.claims = c.claims
  BY <1>1
<1> HIDE DEF d
<1>4. Tiled(d)
  <2>1. \A i : EndOf(d, i) = EndOf(c, i)
    BY <1>3 DEF EndOf
  <2> QED BY <1>3, <2>1 DEF Tiled
<1>5. Extends(c, d)
  <2>1. ASSUME NEW e \in DispatchesOf(c)
        PROVE  \E f \in DispatchesOf(d) :
                  f.from = e.from /\ e.to <= f.to /\ f.swept = e.swept
    <3>0. e.to \in Nat
      BY DispatchesTyped DEF Epochs
    <3>1. CASE e = Closed(c)
      <4>1. Closed(d) \in DispatchesOf(d)
        BY DEF DispatchesOf
      <4> QED BY <3>0, <3>1, <4>1, <1>2, <1>3, ClosedTyped
    <3>2. CASE e # Closed(c)
      <4>1. e \in DispatchesOf(d)
        BY <3>2, <1>3 DEF DispatchesOf
      <4> QED BY <3>0, <4>1
    <3> QED BY <3>1, <3>2
  <2> QED BY <2>1 DEF Extends
<1>6. \A e \in DispatchesOf(d) : e.verdict = v \/ e \in DispatchesOf(c)
  <2>1. Closed(d).verdict = v
    BY <1>2, <1>3, ClosedTyped
  <2> QED BY <1>3, <2>1 DEF DispatchesOf
<1> QED BY <1>2, <1>3, <1>4, <1>5, <1>6 DEF d

(* What gradeCalibration computes rests on the dispatch under way. *)
LEMMA GradeShape ==
    ASSUME NEW c \in Registers, NEW n, Tiled(c)
    PROVE  LET v == Verdict(c, n, DispatchClaimsOf(c))
           IN  v \in Verdicts /\ RestsOnOne(v, c)
<1> DEFINE graded == DispatchClaimsOf(c)
           v == Verdict(c, n, graded)
<1>1. c.from \in Nat /\ Len(c.claims) \in Nat /\ c.from <= Len(c.claims)
  BY DEF Registers, Tiled
<1>2. Len(graded) = Len(c.claims) - c.from
  BY <1>1 DEF DispatchClaimsOf, Registers
<1>3. Passes(n, graded) \in BOOLEAN
  BY DEF Passes
<1> HIDE DEF graded
<1>4. v = [passed |-> Passes(n, graded), swept |-> c.swept, from |-> c.from, to |-> Len(c.claims)]
  BY <1>1, <1>2 DEF Verdict
<1>5. v \in Verdicts
  BY <1>1, <1>3, <1>4 DEF Verdicts, Registers
<1>6. RestsOnOne(v, c)
  BY <1>1, <1>4, ClosedTyped DEF RestsOnOne, DispatchesOf
<1> QED BY <1>5, <1>6 DEF graded

-----------------------------------------------------------------------------
LEMMA InitIInv == Init => IInv
<1> SUFFICES ASSUME Init PROVE IInv OBVIOUS
<1>1. wave \in [swept: Ranges, known: 0 .. MaxKnown]
  BY DEF Init
<1>2. \A s \in Sessions : session[s] = Idle /\ session[s].op = "idle"
  BY DEF Init, Idle
<1> QED BY <1>1, <1>2 DEF Init, IInv, TypeOK, InFlightGrades

(* The commands in flight are typed, and so is the next of them. *)
LEMMA EndTyped ==
    ASSUME TypeOK, NEW s \in Sessions, End(s)
    PROVE  /\ \A t \in Sessions : session'[t].op = "verdict" =>
                 session[t].op = "verdict" /\ session'[t].verdict = session[t].verdict
           /\ TypeOK' <=> /\ wave' \in [swept: Ranges, known: 0 .. MaxKnown]
                          /\ calibration' \in Registers \cup {None}
<1>1. \A t \in Sessions : session'[t] = session[t] \/ session'[t] = Idle
  BY DEF TypeOK, End
<1>2. Idle.op = "idle"
  BY DEF Idle
<1>3. session' \in [Sessions ->
          {Idle} \cup {Calibrating(r) : r \in Ranges}
            \cup {Recording(n) : n \in 0 .. MaxKnown} \cup [op: {"verdict"}, verdict: Verdicts]]
  BY DEF TypeOK, End
<1> QED BY <1>1, <1>2, <1>3 DEF TypeOK

LEMMA VerdictInFlight ==
    ASSUME TypeOK, NEW s \in Sessions, session[s].op = "verdict"
    PROVE  session[s].verdict \in Verdicts
<1>1. /\ Idle.op # "verdict"
      /\ \A r : Calibrating(r).op # "verdict"
      /\ \A n : Recording(n).op # "verdict"
  BY DEF Idle, Calibrating, Recording
<1>2. session[s] \in {Idle} \cup {Calibrating(r) : r \in Ranges}
            \cup {Recording(n) : n \in 0 .. MaxKnown} \cup [op: {"verdict"}, verdict: Verdicts]
  BY DEF TypeOK
<1> QED BY <1>1, <1>2

(* The three writes and the refusal end a command and extend the register. *)
LEMMA WriteIInv ==
    ASSUME IInv, NEW s \in Sessions, End(s), UNCHANGED wave,
           calibration \in Registers, calibration' \in Registers,
           Tiled(calibration'), Extends(calibration, calibration'),
           \A e \in DispatchesOf(calibration') : e.verdict # None =>
              \/ e \in DispatchesOf(calibration)
              \/ session[s].op = "verdict" /\ e.verdict = session[s].verdict
    PROVE  IInv'
<1>0. /\ TypeOK /\ InFlightGrades /\ calibration # None /\ calibration' # None
      /\ wave \in [swept: Ranges, known: 0 .. MaxKnown]
  BY DEF IInv, TypeOK
<1>1. TypeOK'
  BY <1>0, EndTyped
<1>2. ASSUME NEW t \in Sessions, session[t].op = "verdict"
      PROVE  RestsOnOne(session[t].verdict, calibration')
  BY <1>0, <1>2, RestsOn, VerdictInFlight DEF InFlightGrades
<1>3. InFlightGrades'
  BY <1>0, <1>2, EndTyped DEF InFlightGrades, RestsOnOne
<1>4. ASSUME NEW e \in DispatchesOf(calibration'), e.verdict # None
      PROVE  RestsOnOne(e.verdict, calibration')
  <2>1. CASE e \in DispatchesOf(calibration)
    <3>1. e.verdict \in Verdicts
      BY <2>1, <1>4, DispatchesTyped DEF Epochs
    <3>2. RestsOnOne(e.verdict, calibration)
      BY <2>1, <1>0, <1>4 DEF IInv
    <3> QED BY <3>1, <3>2, RestsOn
  <2>2. CASE session[s].op = "verdict" /\ e.verdict = session[s].verdict
    BY <2>2, <1>2
  <2> QED BY <2>1, <2>2, <1>4
<1> QED BY <1>1, <1>3, <1>4 DEF IInv, Tiled, EndOf, DispatchesOf, RestsOnOne, Closed

LEMMA ExtendsSelf ==
    ASSUME NEW c \in Registers PROVE Extends(c, c)
<1>1. \A e \in DispatchesOf(c) : e.to \in Nat
  BY DispatchesTyped DEF Epochs
<1> QED BY <1>1 DEF Extends

(* A command that begins with what it read: the register stays as it is. *)
LEMMA BeginIInv ==
    ASSUME IInv, NEW s \in Sessions, NEW a, Begin(s, a), UNCHANGED <<wave, calibration>>,
           \/ a \in {Calibrating(r) : r \in Ranges} \cup {Recording(n) : n \in 0 .. MaxKnown}
           \/ \E v \in Verdicts : /\ a = Grading(v)
                                 /\ calibration # None /\ RestsOnOne(v, calibration)
    PROVE  IInv'
<1>0. TypeOK /\ InFlightGrades
  BY DEF IInv
<1>1. /\ a \in {Calibrating(r) : r \in Ranges} \cup {Recording(n) : n \in 0 .. MaxKnown}
                   \cup [op: {"verdict"}, verdict: Verdicts]
      /\ a.op = "verdict" => calibration # None /\ RestsOnOne(a.verdict, calibration)
  BY DEF Calibrating, Recording, Grading
<1>2. \A t \in Sessions : session'[t] = session[t] \/ session'[t] = a
  BY <1>0 DEF TypeOK, Begin
<1>3. TypeOK'
  BY <1>0, <1>1 DEF TypeOK, Begin
<1>4. InFlightGrades'
  BY <1>0, <1>1, <1>2 DEF InFlightGrades, RestsOnOne, DispatchesOf, Closed
<1> QED BY <1>3, <1>4 DEF IInv, Tiled, EndOf, DispatchesOf, RestsOnOne, Closed

LEMMA GiveUpIInv ==
    ASSUME IInv, NEW s \in Sessions, GiveUp(s) PROVE IInv'
<1>0. /\ TypeOK /\ InFlightGrades /\ UNCHANGED <<wave, calibration>> /\ End(s)
  BY DEF IInv, GiveUp
<1>1. TypeOK'
  BY <1>0, EndTyped DEF TypeOK
<1>2. InFlightGrades'
  BY <1>0, EndTyped DEF InFlightGrades, RestsOnOne, DispatchesOf, Closed
<1> QED BY <1>0, <1>1, <1>2 DEF IInv, Tiled, EndOf, DispatchesOf, RestsOnOne, Closed

LEMMA CalibrateWriteIInv ==
    ASSUME IInv, NEW s \in Sessions, CalibrateWrite(s) PROVE IInv'
<1>0. /\ TypeOK /\ InFlightGrades /\ UNCHANGED wave /\ End(s) /\ session[s].op = "calibrate"
      /\ calibration' = OpenDispatch(calibration, session[s].swept)
  BY DEF IInv, CalibrateWrite
<1>1. session[s].swept \in Ranges
  <2>1. /\ Idle.op # "calibrate"
        /\ \A r : Calibrating(r).swept = r
        /\ \A n : Recording(n).op # "calibrate"
    BY DEF Idle, Calibrating, Recording
  <2> QED BY <1>0, <2>1 DEF TypeOK
<1>2. CASE calibration = None
  <2>1. /\ calibration' \in Registers /\ Tiled(calibration')
        /\ \A e \in DispatchesOf(calibration') : e.verdict = None
    BY <1>0, <1>1, <1>2, FirstShape DEF OpenDispatch
  <2>2. TypeOK'
    BY <1>0, <2>1, EndTyped DEF TypeOK
  <2>3. \A t \in Sessions : session[t].op # "verdict"
    BY <1>0, <1>2 DEF InFlightGrades
  <2>4. InFlightGrades'
    BY <1>0, <2>3, EndTyped DEF InFlightGrades
  <2> QED BY <2>1, <2>2, <2>4 DEF IInv, Tiled, EndOf, DispatchesOf, Closed
<1>3. CASE calibration # None
  <2>1. calibration \in Registers /\ Tiled(calibration)
    BY <1>0, <1>3 DEF TypeOK, IInv
  <2> QED BY <1>0, <1>1, <1>3, <2>1, ReopenShape, WriteIInv
<1> QED BY <1>2, <1>3

LEMMA RecordWriteIInv ==
    ASSUME IInv, NEW s \in Sessions, RecordWrite(s) PROVE IInv'
<1>1. /\ UNCHANGED wave /\ End(s)
      /\ calibration \in Registers /\ Tiled(calibration) /\ calibration.verdict = None
  BY DEF IInv, TypeOK, RecordWrite, OpenForWrite
<1>2. PICK p \in Profiles, link \in Links \cup {None} :
         calibration' = [calibration EXCEPT !.claims = Append(@, Claim(p, link))]
  BY DEF RecordWrite
<1>3. Claim(p, link) \in Claims
  BY DEF Claims
<1> QED BY <1>1, <1>2, <1>3, ClaimShape, WriteIInv

LEMMA RecordVerdictIInv ==
    ASSUME IInv, NEW s \in Sessions, RecordVerdict(s) PROVE IInv'
<1>1. /\ UNCHANGED wave /\ End(s) /\ session[s].op = "verdict"
      /\ calibration \in Registers /\ Tiled(calibration)
      /\ calibration' = [calibration EXCEPT !.verdict = session[s].verdict]
  BY DEF IInv, TypeOK, RecordVerdict, OpenForWrite
<1>2. session[s].verdict \in Verdicts
  BY <1>1, VerdictInFlight DEF IInv
<1> QED BY <1>1, <1>2, VerdictShape, WriteIInv

LEMMA WaveIInv ==
    ASSUME IInv, Prepare \/ FindDefect PROVE IInv'
<1>1. wave' \in [swept: Ranges, known: 0 .. MaxKnown] /\ UNCHANGED <<calibration, session>>
  BY DEF IInv, TypeOK, Prepare, FindDefect
<1> QED BY <1>1 DEF IInv, TypeOK, InFlightGrades, Tiled, EndOf, DispatchesOf, RestsOnOne, Closed

LEMMA StepIInv == IInv /\ [Next]_vars => IInv'
<1> SUFFICES ASSUME IInv, [Next]_vars PROVE IInv' OBVIOUS
<1>0. TypeOK
  BY DEF IInv
<1>1. CASE Prepare \/ FindDefect
  BY <1>1, WaveIInv
<1>2. ASSUME NEW s \in Sessions, CalibrateRead(s) PROVE IInv'
  BY <1>0, <1>2, BeginIInv DEF CalibrateRead, TypeOK
<1>3. ASSUME NEW s \in Sessions, RecordRead(s) PROVE IInv'
  BY <1>0, <1>3, BeginIInv DEF RecordRead, TypeOK
<1>4. ASSUME NEW s \in Sessions, Grade(s) PROVE IInv'
  <2>1. calibration \in Registers /\ Tiled(calibration) /\ calibration # None
    BY <1>4 DEF Grade, IInv, TypeOK
  <2> QED BY <1>4, <2>1, GradeShape, BeginIInv DEF Grade
<1>5. CASE UNCHANGED vars
  BY <1>5 DEF vars, IInv, TypeOK, InFlightGrades, Tiled, EndOf, DispatchesOf, RestsOnOne, Closed
<1> QED
  BY <1>1, <1>2, <1>3, <1>4, <1>5,
     CalibrateWriteIInv, RecordWriteIInv, RecordVerdictIInv, GiveUpIInv DEF Next

-----------------------------------------------------------------------------
(* The invariant: dispatches tile the claims, and every verdict, recorded or  *)
(* still carried by a grading command, was computed on one dispatch's claims. *)
THEOREM CalibrationInvariant == Spec => []IInv
<1> QED BY InitIInv, StepIInv, PTL DEF Spec

(* Types, for every value of the constants. *)
THEOREM CalibrationTyped == Spec => []TypeOK
<1>1. IInv => TypeOK
  BY DEF IInv
<1> QED BY <1>1, CalibrationInvariant, PTL

(* The claims of one dispatch are never among those of another. *)
THEOREM DispatchesTile == Spec => []DispatchesTileClaims
<1>1. IInv => DispatchesTileClaims
  BY DEF IInv, Tiled, EndOf, DispatchesTileClaims
<1> QED BY <1>1, CalibrationInvariant, PTL

(* Whichever dispatch a verdict closes, it was computed on the claims of one.*)
THEOREM VerdictsRestOnOne == Spec => []VerdictGradesOneDispatch
<1>1. IInv => VerdictGradesOneDispatch
  BY DEF IInv, DispatchesOf, RestsOnOne, VerdictGradesOneDispatch
<1> QED BY <1>1, CalibrationInvariant, PTL

(* A graded dispatch only moves, as it is, into the history. *)
THEOREM VerdictsAreFinal == Spec => OneVerdictPerDispatch
<1> DEFINE A == calibration # None =>
          /\ calibration'.epochs = calibration.epochs \/ Filed(calibration, calibration')
          /\ calibration.verdict # None /\ calibration' # calibration =>
                Filed(calibration, calibration') /\ calibration'.claims = calibration.claims
<1>1. IInv /\ [Next]_vars => [A]_vars
  <2> SUFFICES ASSUME IInv, Next, calibration # None PROVE A
    OBVIOUS
  <2>1. calibration \in Registers /\ Tiled(calibration) /\ TypeOK
    BY DEF IInv, TypeOK
  <2>2. CASE UNCHANGED calibration
    BY <2>2
  <2>3. ASSUME NEW s \in Sessions, CalibrateWrite(s) PROVE A
    <3>1. calibration' = [calibration EXCEPT
                !.epochs = Append(@, Closed(calibration)), !.from = Len(calibration.claims),
                !.swept = session[s].swept, !.verdict = None]
      BY <2>3 DEF CalibrateWrite, OpenDispatch
    <3>2. /\ calibration'.epochs = Append(calibration.epochs, Closed(calibration))
          /\ calibration'.claims = calibration.claims
      BY <2>1, <3>1 DEF Registers
    <3> QED BY <3>2 DEF Filed
  <2>4. ASSUME NEW s \in Sessions, RecordWrite(s) \/ RecordVerdict(s) PROVE A
    BY <2>1, <2>4 DEF RecordWrite, RecordVerdict, OpenForWrite, Registers
  <2> QED BY <2>2, <2>3, <2>4 DEF Next, Prepare, FindDefect, CalibrateRead, RecordRead, Grade, GiveUp
<1> QED BY <1>1, CalibrationInvariant, PTL DEF Spec, OneVerdictPerDispatch

-----------------------------------------------------------------------------
(* What the greedy match of the pairs is worth *)

(* A one-to-one set of pairs has as many defects as pairs. *)
LEMMA DefectsOfPairs ==
    ASSUME NEW m, IsFiniteSet(m), OneToOne(m)
    PROVE  Cardinality({p[1] : p \in m}) = Cardinality(m)
<1> DEFINE D == {p[1] : p \in m}
           f == [p \in m |-> p[1]]
<1>1. f \in [m -> D]
  OBVIOUS
<1>2. f \in Injection(m, D)
  <2>1. \A p, q \in m : f[p] = f[q] => p = q
    BY DEF OneToOne
  <2> HIDE DEF f, D
  <2> QED BY <1>1, <2>1, Fun_IsInj
<1>3. f \in Surjection(m, D)
  <2>1. \A d \in D : \E p \in m : f[p] = d
    OBVIOUS
  <2> HIDE DEF f, D
  <2> QED BY <1>1, <2>1, Fun_IsSurj
<1> HIDE DEF f, D
<1>4. Cardinality(D) = Cardinality(m)
  BY <1>2, <1>3, FS_Surjection
<1> QED BY <1>4 DEF D

(* Pairs whose defects - or whose claims - are all among those of m are no   *)
(* more than m: such pairs name their m-pair, and no two name the same.      *)
LEMMA NamedAreFewer ==
    ASSUME NEW m, IsFiniteSet(m), NEW x, OneToOne(x), NEW i \in {1, 2},
           \A p \in x : \E q \in m : q[i] = p[i]
    PROVE  IsFiniteSet(x) /\ Cardinality(x) <= Cardinality(m)
<1> DEFINE f == [p \in x |-> CHOOSE q \in m : q[i] = p[i]]
<1>1. \A p \in x : f[p] \in m /\ f[p][i] = p[i]
  OBVIOUS
<1>2. f \in [x -> m]
  BY <1>1
<1>3. \A p, q \in x : f[p] = f[q] => p = q
  <2> TAKE p, q \in x
  <2> HAVE f[p] = f[q]
  <2>1. p[i] = q[i]
    BY <1>1
  <2> QED BY <2>1 DEF OneToOne
<1> HIDE DEF f
<1>4. f \in Injection(x, m)
  BY <1>2, <1>3, Fun_IsInj
<1> QED BY <1>4, FS_Injection

(* A one-to-one set that no pair of ps can join has half of any other's pairs. *)
Unjoinable(m, ps) == \A p \in ps : Covers(m, p[1]) \/ Spends(m, p[2])

LEMMA UnjoinableIsHalf ==
    ASSUME NEW ps, NEW m, IsFiniteSet(m), Unjoinable(m, ps),
           NEW x \in SUBSET ps, OneToOne(x)
    PROVE  Cardinality(x) <= 2 * Cardinality(m)
<1> DEFINE a == {p \in x : Covers(m, p[1])}
           b == {p \in x : Spends(m, p[2])}
<1>1. x = a \cup b
  BY DEF Unjoinable
<1>2. IsFiniteSet(a) /\ Cardinality(a) <= Cardinality(m)
  <2>1. OneToOne(a) /\ \A p \in a : \E q \in m : q[1] = p[1]
    BY DEF OneToOne, Covers
  <2> HIDE DEF a
  <2> QED BY <2>1, NamedAreFewer
<1>3. IsFiniteSet(b) /\ Cardinality(b) <= Cardinality(m)
  <2>1. OneToOne(b) /\ \A p \in b : \E q \in m : q[2] = p[2]
    BY DEF OneToOne, Spends
  <2> HIDE DEF b
  <2> QED BY <2>1, NamedAreFewer
<1> HIDE DEF a, b
<1>4. /\ Cardinality(x) = Cardinality(a) + Cardinality(b) - Cardinality(a \cap b)
      /\ IsFiniteSet(a \cap b)
  BY <1>1, <1>2, <1>3, FS_Union, FS_Intersection
<1>5. /\ Cardinality(a) \in Nat /\ Cardinality(b) \in Nat /\ Cardinality(a \cap b) \in Nat
      /\ Cardinality(m) \in Nat
  BY <1>2, <1>3, <1>4, FS_CardinalityType
<1> QED BY <1>2, <1>3, <1>4, <1>5

(* The recursion of the match, unrolled. *)
LEMMA MatchUnrolls ==
    ASSUME NEW known, NEW claims, Len(Sorted(known, claims)) \in Nat
    PROVE  LET order == Sorted(known, claims)
           IN  \E won : /\ won[0] = {}
                        /\ \A n \in 1 .. Len(order) : won[n] = Win(won[n - 1], order[n])
                        /\ MutualMatch(known, claims) = won[Len(order)]
<1> DEFINE order == Sorted(known, claims)
           Unrolled(f, n) ==
               f = [i \in 0 .. n |-> IF i = 0 THEN {} ELSE Win(f[i - 1], order[i])]
           S == {n \in Nat : \E f : Unrolled(f, n)}
<1>1. 0 \in S
  <2> DEFINE f == [i \in 0 .. 0 |-> {}]
  <2> HIDE DEF order
  <2>1. Unrolled(f, 0)
    OBVIOUS
  <2> QED BY <2>1
<1>2. ASSUME NEW n \in S PROVE n + 1 \in S
  <2> HIDE DEF order
  <2>1. n \in Nat
    OBVIOUS
  <2>2. PICK f : Unrolled(f, n)
    OBVIOUS
  <2> DEFINE g == [i \in 0 .. (n + 1) |-> IF i <= n THEN f[i] ELSE Win(f[n], order[n + 1])]
  <2>3. \A i \in 0 .. (n + 1) : g[i] = IF i = 0 THEN {} ELSE Win(g[i - 1], order[i])
    <3> TAKE i \in 0 .. (n + 1)
    <3>1. CASE i <= n
      <4>1. i \in 0 .. n /\ g[i] = f[i] /\ (i # 0 => i - 1 \in 0 .. (n + 1) /\ i - 1 <= n)
        BY <2>1, <3>1
      <4>2. i # 0 => g[i - 1] = f[i - 1]
        BY <4>1
      <4>3. f[i] = IF i = 0 THEN {} ELSE Win(f[i - 1], order[i])
        BY <2>2, <4>1
      <4> HIDE DEF g
      <4> QED BY <4>1, <4>2, <4>3
    <3>2. CASE i = n + 1
      BY <2>1, <3>2
    <3> QED BY <2>1, <3>1, <3>2
  <2>4. Unrolled(g, n + 1)
    BY <2>3
  <2> HIDE DEF g, Unrolled
  <2> QED BY <2>1, <2>4
<1>3. S = Nat
  <2>1. S \in SUBSET Nat
    OBVIOUS
  <2> HIDE DEF S
  <2> QED BY <1>1, <1>2, <2>1, SetInduction
<1> DEFINE won == CHOOSE f : Unrolled(f, Len(order))
<1>4. Unrolled(won, Len(order))
  <2>1. \E f : Unrolled(f, Len(order))
    BY <1>3
  <2> HIDE DEF Unrolled
  <2> QED BY <2>1
<1>5. MutualMatch(known, claims) = won[Len(order)]
  BY DEF MutualMatch
<1> HIDE DEF won, order
<1>6. Len(order) \in Nat
  BY DEF order
<1>7. won[0] = {} /\ \A n \in 1 .. Len(order) : won[n] = Win(won[n - 1], order[n])
  <2>1. \A i \in 0 .. Len(order) : won[i] = IF i = 0 THEN {} ELSE Win(won[i - 1], order[i])
    BY <1>4
  <2> HIDE DEF Unrolled
  <2>2. 0 \in 0 .. Len(order) /\ \A n \in 1 .. Len(order) : n \in 0 .. Len(order) /\ n # 0
    BY <1>6
  <2> QED BY <2>1, <2>2
<1> HIDE DEF Unrolled
<1> QED BY <1>5, <1>7 DEF order

(* The pairs are put in a row: each of them, once. *)
LEMMA OverlapIsNat ==
    ASSUME NEW c \in Claims, NEW k \in 1 .. MaxKnown
    PROVE  OverlapOf(k, c) \in Nat
<1>1. PICK p \in Profiles, link \in Links \cup {None} : c = Claim(p, link)
  BY DEF Claims
<1>2. c.shared = p.shared /\ p.shared \in [1 .. MaxKnown -> Nat]
  BY <1>1 DEF Claim
<1>3. c.shared[k] \in Nat
  BY <1>2
<1> QED BY <1>3 DEF OverlapOf

LEMMA PairsFinite ==
    ASSUME NEW known \in Nat, NEW claims, Len(claims) \in Nat, DOMAIN claims = 1 .. Len(claims)
    PROVE  IsFiniteSet(Pairs(known, claims))
<1>1. IsFiniteSet(1 .. known) /\ IsFiniteSet(DOMAIN claims)
  BY FS_Interval
<1>2. IsFiniteSet((1 .. known) \X DOMAIN claims)
  BY <1>1, FS_Product
<1>3. Pairs(known, claims) \in SUBSET ((1 .. known) \X DOMAIN claims)
  BY DEF Pairs
<1> QED BY <1>2, <1>3, FS_Subset

LEMMA BeforeOrders ==
    ASSUME NEW known \in 0 .. MaxKnown, NEW claims \in Seq(Claims),
           NEW p \in Pairs(known, claims), NEW q \in Pairs(known, claims)
    PROVE  /\ ~Before(claims, p, p)
           /\ p # q => Before(claims, p, q) \/ Before(claims, q, p)
           /\ \A r \in Pairs(known, claims) :
                Before(claims, p, q) /\ Before(claims, q, r) => Before(claims, p, r)
<1> DEFINE w(r) == OverlapOf(r[1], claims[r[2]])
<1>1. ASSUME NEW r \in Pairs(known, claims) PROVE w(r) \in Nat /\ r[1] \in Nat /\ r[2] \in Nat
  <2>1. r \in (1 .. known) \X DOMAIN claims
    BY DEF Pairs
  <2>2. r[1] \in 1 .. MaxKnown /\ claims[r[2]] \in Claims /\ r[1] \in Nat /\ r[2] \in Nat
    BY <2>1
  <2>3. w(r) \in Nat
    BY <2>2, OverlapIsNat
  <2> QED BY <2>2, <2>3
<1>2. \A r, s : Before(claims, r, s) <=>
          \/ w(r) > w(s)
          \/ w(r) = w(s) /\ r[1] < s[1]
          \/ w(r) = w(s) /\ r[1] = s[1] /\ r[2] < s[2]
  BY DEF Before
<1>3. p # q => p[1] # q[1] \/ p[2] # q[2]
  <2>1. p \in (1 .. known) \X DOMAIN claims /\ q \in (1 .. known) \X DOMAIN claims
    BY DEF Pairs
  <2> QED BY <2>1
<1> HIDE DEF w
<1>4. ~Before(claims, p, p)
  BY <1>1, <1>2
<1>5. p # q => Before(claims, p, q) \/ Before(claims, q, p)
  BY <1>1, <1>2, <1>3
<1>6. ASSUME NEW r \in Pairs(known, claims), Before(claims, p, q), Before(claims, q, r)
      PROVE  Before(claims, p, r)
  BY <1>1, <1>2, <1>6
<1> QED BY <1>4, <1>5, <1>6

LEMMA SortedIsARow ==
    ASSUME NEW known \in 0 .. MaxKnown, NEW claims \in Seq(Claims)
    PROVE  LET order == Sorted(known, claims)
               ps == Pairs(known, claims)
           IN  /\ Len(order) \in Nat
               /\ \A i \in 1 .. Len(order) : order[i] \in ps
               /\ \A p \in ps : \E i \in 1 .. Len(order) : order[i] = p
<1> DEFINE ps == Pairs(known, claims)
           n == Cardinality(ps)
           B(p) == {q \in ps : Before(claims, q, p)}
           place == [p \in ps |-> Cardinality(B(p)) + 1]
<1>1. IsFiniteSet(ps) /\ n \in Nat
  <2>1. IsFiniteSet(ps)
    BY PairsFinite
  <2> QED BY <2>1, FS_CardinalityType
<1>2. \A p, q, r \in ps :
          /\ ~Before(claims, p, p)
          /\ p # q => Before(claims, p, q) \/ Before(claims, q, p)
          /\ Before(claims, p, q) /\ Before(claims, q, r) => Before(claims, p, r)
  BY BeforeOrders
<1>3. Sorted(known, claims) = [i \in 1 .. n |-> CHOOSE p \in ps : place[p] = i]
  BY DEF Sorted
<1> HIDE DEF ps, n
<1>4. ASSUME NEW p \in ps, NEW q \in ps, Before(claims, p, q)
      PROVE  Cardinality(B(p)) < Cardinality(B(q))
  <2>1. IsFiniteSet(B(q)) /\ B(p) \in SUBSET B(q)
    <3>1. B(q) \in SUBSET ps
      OBVIOUS
    <3>2. \A r \in B(p) : r \in B(q)
      BY <1>2, <1>4
    <3> HIDE DEF B
    <3> QED BY <1>1, <3>1, <3>2, FS_Subset
  <2>2. p \in B(q) /\ p \notin B(p)
    BY <1>2, <1>4
  <2> HIDE DEF B
  <2>3. /\ Cardinality(B(p)) <= Cardinality(B(q)) /\ Cardinality(B(p)) # Cardinality(B(q))
        /\ IsFiniteSet(B(p))
    BY <2>1, <2>2, FS_Subset
  <2>4. Cardinality(B(p)) \in Nat /\ Cardinality(B(q)) \in Nat
    BY <2>1, <2>3, FS_CardinalityType
  <2> QED BY <2>3, <2>4
<1>5. \A p, q \in ps : place[p] = place[q] => p = q
  <2> SUFFICES ASSUME NEW p \in ps, NEW q \in ps, place[p] = place[q], p # q PROVE FALSE
    OBVIOUS
  <2>1. IsFiniteSet(B(p)) /\ IsFiniteSet(B(q))
    <3>1. B(p) \in SUBSET ps /\ B(q) \in SUBSET ps
      OBVIOUS
    <3> HIDE DEF B
    <3> QED BY <1>1, <3>1, FS_Subset
  <2>2. Before(claims, p, q) \/ Before(claims, q, p)
    BY <1>2
  <2>3. Cardinality(B(p)) < Cardinality(B(q)) \/ Cardinality(B(q)) < Cardinality(B(p))
    <3> HIDE DEF B
    <3> QED BY <1>4, <2>2
  <2>4. Cardinality(B(p)) + 1 = Cardinality(B(q)) + 1
    OBVIOUS
  <2> HIDE DEF B
  <2>5. Cardinality(B(p)) \in Nat /\ Cardinality(B(q)) \in Nat
    BY <2>1, FS_CardinalityType
  <2> QED BY <2>3, <2>4, <2>5
<1>6. \A p \in ps : place[p] \in 1 .. n
  <2> TAKE p \in ps
  <2>1. B(p) \in SUBSET ps /\ p \notin B(p)
    BY <1>2
  <2>2. place[p] = Cardinality(B(p)) + 1
    OBVIOUS
  <2> HIDE DEF B, place
  <2>3. IsFiniteSet(B(p)) /\ Cardinality(B(p)) <= n /\ Cardinality(B(p)) # n
    BY <1>1, <2>1, FS_Subset DEF n
  <2>4. Cardinality(B(p)) \in Nat
    BY <2>3, FS_CardinalityType
  <2> QED BY <1>1, <2>2, <2>3, <2>4
<1>7. \A i \in 1 .. n : \E p \in ps : place[p] = i
  <2>1. place \in [ps -> 1 .. n]
    BY <1>6
  <2> HIDE DEF place
  <2>2. place \in Injection(ps, 1 .. n)
    BY <1>5, <2>1, Fun_IsInj
  <2>3. IsFiniteSet(1 .. n) /\ Cardinality(1 .. n) = n
    BY <1>1, FS_Interval
  <2>4. place \in Surjection(ps, 1 .. n)
    BY <2>2, <2>3, FS_Injection DEF n
  <2> QED BY <2>4 DEF Surjection
<1>8. \A p \in ps : place[p] = Cardinality(B(p)) + 1
  OBVIOUS
<1> HIDE DEF place, B
<1> DEFINE order == Sorted(known, claims)
<1>9. ASSUME NEW i \in 1 .. n PROVE order[i] \in ps /\ place[order[i]] = i
  <2>1. PICK p \in ps : place[p] = i
    BY <1>7
  <2>2. order[i] = CHOOSE q \in ps : place[q] = i
    BY <1>3
  <2> HIDE DEF order
  <2> QED BY <2>1, <2>2
<1>10. Len(order) = n
  <2>1. order \in Seq(ps) /\ DOMAIN order = 1 .. n
    <3>1. order \in [1 .. n -> ps]
      BY <1>3, <1>9
    <3> HIDE DEF order
    <3> QED BY <1>1, <3>1
  <2> HIDE DEF order
  <2> QED BY <1>1, <2>1
<1>11. ASSUME NEW p \in ps PROVE \E i \in 1 .. n : order[i] = p
  <2>1. place[p] \in 1 .. n
    BY <1>6
  <2>2. order[place[p]] \in ps /\ place[order[place[p]]] = place[p]
    BY <1>9, <2>1
  <2> HIDE DEF order
  <2> QED BY <1>5, <2>1, <2>2
<1> HIDE DEF order
<1> QED BY <1>1, <1>9, <1>10, <1>11 DEF order, ps


(* What the match ends with: pairs, no two of them alike in their defect or  *)
(* in their claim, that no pair can join.                                    *)
LEMMA MatchIsMaximal ==
    ASSUME NEW known \in 0 .. MaxKnown, NEW claims \in Seq(Claims)
    PROVE  LET m == MutualMatch(known, claims)
               ps == Pairs(known, claims)
           IN  m \in SUBSET ps /\ OneToOne(m) /\ Unjoinable(m, ps)
<1> DEFINE ps == Pairs(known, claims)
           order == Sorted(known, claims)
           Judged(m, n) ==
               \A i \in 1 .. n : Covers(m, order[i][1]) \/ Spends(m, order[i][2])
<1>1. /\ Len(order) \in Nat
      /\ \A i \in 1 .. Len(order) : order[i] \in ps
      /\ \A p \in ps : \E i \in 1 .. Len(order) : order[i] = p
  BY SortedIsARow
<1>2. PICK won : /\ won[0] = {}
                 /\ \A n \in 1 .. Len(order) : won[n] = Win(won[n - 1], order[n])
                 /\ MutualMatch(known, claims) = won[Len(order)]
  BY <1>1, MatchUnrolls
<1> HIDE DEF ps, order
<1>3. ASSUME NEW m \in SUBSET ps, OneToOne(m), NEW p \in ps
      PROVE  /\ Win(m, p) \in SUBSET ps /\ OneToOne(Win(m, p)) /\ m \subseteq Win(m, p)
             /\ Covers(Win(m, p), p[1]) \/ Spends(Win(m, p), p[2])
  BY <1>3 DEF Win, OneToOne, Covers, Spends
<1> DEFINE Fine(n) == won[n] \in SUBSET ps /\ OneToOne(won[n]) /\ Judged(won[n], n)
           S == {n \in Nat : n <= Len(order) => Fine(n)}
<1>4. 0 \in S
  BY <1>2 DEF OneToOne
<1>5. ASSUME NEW n \in S PROVE n + 1 \in S
  <2> SUFFICES ASSUME n + 1 <= Len(order) PROVE Fine(n + 1)
    OBVIOUS
  <2>1. n \in Nat /\ n + 1 \in 1 .. Len(order) /\ n + 1 - 1 = n /\ Fine(n)
    BY <1>1
  <2>2. won[n + 1] = Win(won[n], order[n + 1]) /\ order[n + 1] \in ps
    BY <1>1, <1>2, <2>1
  <2>3. /\ won[n + 1] \in SUBSET ps /\ OneToOne(won[n + 1]) /\ won[n] \subseteq won[n + 1]
        /\ Covers(won[n + 1], order[n + 1][1]) \/ Spends(won[n + 1], order[n + 1][2])
    BY <1>3, <2>1, <2>2
  <2>4. ASSUME NEW i \in 1 .. (n + 1)
        PROVE  Covers(won[n + 1], order[i][1]) \/ Spends(won[n + 1], order[i][2])
    <3>1. CASE i \in 1 .. n
      BY <2>1, <2>3, <3>1 DEF Covers, Spends
    <3>2. CASE i = n + 1
      BY <2>3, <3>2
    <3> QED BY <2>1, <3>1, <3>2
  <2> QED BY <2>3, <2>4
<1>6. S = Nat
  <2>1. S \in SUBSET Nat
    OBVIOUS
  <2> HIDE DEF S
  <2> QED BY <1>4, <1>5, <2>1, SetInduction
<1>7. Fine(Len(order))
  BY <1>1, <1>6
<1>8. Unjoinable(won[Len(order)], ps)
  BY <1>1, <1>7 DEF Unjoinable
<1> QED BY <1>2, <1>7, <1>8 DEF ps

(* Its worth: no one-to-one set of pairs is larger than the best, and the    *)
(* best is at most twice as large.                                           *)
LEMMA MatchIsFair ==
    ASSUME NEW known \in 0 .. MaxKnown, NEW claims \in Seq(Claims)
    PROVE  LET best == BestMatch(known, claims)
               won  == Cardinality({p[1] : p \in MutualMatch(known, claims)})
           IN  won <= best /\ best <= 2 * won
<1> DEFINE ps == Pairs(known, claims)
           m == MutualMatch(known, claims)
           X == {x \in SUBSET ps : OneToOne(x)}
           C == {Cardinality(x) : x \in X}
<1>1. IsFiniteSet(ps) /\ Cardinality(ps) \in Nat
  <2>1. IsFiniteSet(ps)
    BY PairsFinite
  <2> QED BY <2>1, FS_CardinalityType
<1>2. m \in SUBSET ps /\ OneToOne(m) /\ Unjoinable(m, ps)
  BY MatchIsMaximal
<1>3. BestMatch(known, claims) = Max(C)
  BY DEF BestMatch
<1> HIDE DEF ps, m
<1>4. \A x \in X : IsFiniteSet(x) /\ Cardinality(x) \in Nat /\ Cardinality(x) <= Cardinality(ps)
  BY <1>1, FS_Subset, FS_CardinalityType
<1>5. m \in X
  BY <1>2
<1>6. Cardinality({p[1] : p \in m}) = Cardinality(m)
  BY <1>2, <1>4, <1>5, DefectsOfPairs
<1>7. \A x \in X : Cardinality(x) <= 2 * Cardinality(m)
  <2> TAKE x \in X
  <2>1. x \in SUBSET ps /\ OneToOne(x) /\ IsFiniteSet(m)
    BY <1>4, <1>5
  <2> QED BY <1>2, <2>1, UnjoinableIsHalf
<1>8. Max(C) \in C /\ \A c \in C : c <= Max(C)
  <2>1. C \in SUBSET Nat /\ C # {} /\ \A c \in C : c <= Cardinality(ps)
    BY <1>4, <1>5
  <2> HIDE DEF C
  <2>2. PICK n \in C : \A c \in C : c <= n
    BY <1>1, <2>1, GreatestElement
  <2>3. \E n2 \in C : \A c \in C : n2 >= c
    BY <2>1, <2>2
  <2>4. Max(C) \in C /\ \A c \in C : Max(C) >= c
    BY <2>3 DEF Max
  <2> QED BY <2>1, <2>4
<1>9. Cardinality(m) \in C /\ \A c \in C : c <= 2 * Cardinality(m)
  BY <1>5, <1>7
<1> HIDE DEF C
<1>10. Cardinality(m) <= Max(C) /\ Max(C) <= 2 * Cardinality(m)
  BY <1>8, <1>9
<1> QED BY <1>3, <1>6, <1>10 DEF m

(* Whatever was recorded so far: a verdict counts no more defects than       *)
(* one-to-one assignments can cover, and at least half as many               *)
(* (tools/adversarial-runner.mjs:969).                                       *)
THEOREM MatchesFairly == Spec => []MatchCountsFairly
<1>1. IInv => MatchCountsFairly
  <2> SUFFICES ASSUME IInv, calibration # None
               PROVE  LET claims == DispatchClaimsOf(calibration)
                          best   == BestMatch(wave.known, claims)
                          won    == Cardinality({p[1] : p \in MutualMatch(wave.known, claims)})
                      IN  won <= best /\ best <= 2 * won
    BY DEF MatchCountsFairly
  <2>1. wave.known \in 0 .. MaxKnown /\ calibration \in Registers /\ Tiled(calibration)
    BY DEF IInv, TypeOK
  <2>2. DispatchClaimsOf(calibration) \in Seq(Claims)
    BY <2>1 DEF DispatchClaimsOf, Registers, Tiled
  <2> QED BY <2>1, <2>2, MatchIsFair
<1> QED BY <1>1, CalibrationInvariant, PTL
=============================================================================
