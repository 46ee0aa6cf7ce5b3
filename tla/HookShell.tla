------------------------------ MODULE HookShell ------------------------------
(***************************************************************************)
(* Does a refusing gate stop the hook that runs it?  Two readers answer    *)
(* from a hook's text: the wiring doctor (tools/task-coverage.mjs) and the *)
(* gate registry (tools/gate-registry.mjs).  Both are compared with what a *)
(* POSIX shell does with the same script.                                  *)
(*                                                                         *)
(* A script is the sequence of its live lines; a line is the command it    *)
(* starts with and, when that is the gate, the form the gate is run in.    *)
(***************************************************************************)
EXTENDS Naturals, Sequences, FiniteSets

(* A gate's line: `if` and `!` before it, a `sh -c` around it, `&&` after    *)
(* it, and how the line ends.  The end is inside the quotes of a `sh -c`,    *)
(* a swallow (`|| true`) outside.  `body` is what an if-probe's branch does. *)
Form == [head: {"", "!", "if", "if !", "sh -c"}, chain: BOOLEAN,
         tail: {"", "|| exit 1", "|| exit 0", "|| true", "; true", "&", "| tee"},
         body: {"exit 1", "warn"}]

NoForm == [head |-> "", chain |-> FALSE, tail |-> "", body |-> "warn"]

(* `flips`: an odd number of quotes; `continues`: it ends in a backslash.    *)
Line(cmd, column0, flips, continues) ==
    [cmd |-> cmd, form |-> NoForm, column0 |-> column0, flips |-> flips, continues |-> continues]

GateLine(f)  == [Line("gate", TRUE, FALSE, FALSE) EXCEPT !.form = f]
Command(cmd) == Line(cmd, TRUE, FALSE, FALSE)

Probe(f) == f.head \in {"if", "if !"}

-----------------------------------------------------------------------------
(* What a line hands to the next: an open quote, a continuation, or nothing. *)
CarriedState(carried, line) ==
    LET open == (carried = "quote") # line.flips
    IN  IF open THEN "quote" ELSE IF line.continues THEN "backslash" ELSE "none"

(* What the lines above line i hand it: a quote is open after an odd number  *)
(* of lines that open or close one.                                          *)
OpenQuote(script, i) == Cardinality({j \in 1..(i - 1) : script[j].flips}) % 2 = 1

CarriedBefore(script, i) ==
    IF OpenQuote(script, i) THEN "quote"
    ELSE IF i > 1 /\ script[i - 1].continues THEN "backslash" ELSE "none"

(* Errexit is on at line i if the script starts with it (line 0) or a        *)
(* `set -e` at column 0 of a `fresh` line turns it on, and no `set +e`,      *)
(* which counts anywhere, follows.                                           *)
ErrexitAbove(script, i, initial, fresh) ==
    \E j \in 0..(i - 1) :
        /\ IF j = 0 THEN initial ELSE script[j].cmd = "set -e" /\ script[j].column0 /\ j \in fresh
        /\ \A k \in (j + 1)..(i - 1) : script[k].cmd # "set +e"

(* The doctor: errexitBefore. *)
ErrexitBefore(script, i) ==
    ErrexitAbove(script, i, FALSE, {j \in DOMAIN script : CarriedBefore(script, j) = "none"})

(* hookInvocation: an allowlist; a `sh -c` never blocks by itself. *)
Invocation(f) == f.head \in {"", "sh -c"} /\ ~f.chain /\ f.tail \in {"", "|| exit 1"}
Blocking(f)   == f.head = "" /\ f.tail = "|| exit 1"

(* invokesMode, for a hook. *)
InvokesMode(script) ==
    \E i \in DOMAIN script :
        /\ script[i].cmd = "gate" /\ Invocation(script[i].form)
        /\ Blocking(script[i].form) \/ i = Len(script) \/ ErrexitBefore(script, i)

-----------------------------------------------------------------------------
(* The registry: errexitAt has no trailing-backslash state. *)
ErrexitAt(script, i, initial) ==
    ErrexitAbove(script, i, initial, {j \in DOMAIN script : ~OpenQuote(script, j)})

(* keepsVerdict over chainTail: `set -e` does not stop on the left of `&&`,  *)
(* and the exit of a `sh -c` is not the hook's.                              *)
KeepsVerdict(f, errexit, last) ==
    IF Probe(f) THEN f.body = "exit 1"
    ELSE /\ f.head # "!"
         /\ f.tail \in {"", "|| exit 1"}
         /\ \/ errexit /\ (f.head = "sh -c" \/ ~f.chain)
            \/ f.head = "" /\ f.tail = "|| exit 1"
            \/ last

(* carries, for a gate that is not advisory. *)
Carries(script, initial) ==
    \E i \in DOMAIN script :
        /\ script[i].cmd = "gate" /\ ~OpenQuote(script, i)
        /\ KeepsVerdict(script[i].form, ErrexitAt(script, i, initial), i = Len(script))

-----------------------------------------------------------------------------
(* The shell, when the gate passes or refuses and all other commands succeed.*)

Succeeds(st)    == [st EXCEPT !.ok = TRUE]
ExitsWith(st, k) == [st EXCEPT !.exited = TRUE, !.ok = k]

(* A command that ended with `ok`; errexit stops on it when it `trips`.      *)
Ends(st, ok, trips) ==
    IF ~ok /\ trips /\ st.errexit THEN ExitsWith(st, FALSE) ELSE [st EXCEPT !.ok = ok]

(* A command after it, unless the script has ended. *)
GoesOn(st) == IF st.exited THEN st ELSE Succeeds(st)

RunProbe(st, f, pass) ==
    IF pass = (f.head = "if") /\ f.body = "exit 1" THEN ExitsWith(st, FALSE) ELSE Succeeds(st)

RunGate(st, f, pass) ==
    LET ok == IF f.head = "!" THEN ~pass ELSE pass
        sh == f.head = "sh -c"
    IN  CASE f.tail \in {"|| true", "&", "| tee"} -> Succeeds(st)
          [] f.tail = "; true"    -> IF sh THEN Succeeds(st)
                                     ELSE GoesOn(Ends(st, ok, f.head = "" /\ ~f.chain))
          [] f.tail = "|| exit 0" -> IF ok \/ sh THEN Succeeds(st) ELSE ExitsWith(st, TRUE)
          [] f.tail = "|| exit 1" -> IF sh THEN Ends(st, ok, TRUE)
                                     ELSE IF ok THEN Succeeds(st) ELSE ExitsWith(st, FALSE)
          [] f.tail = ""          -> Ends(st, ok, sh \/ (f.head = "" /\ ~f.chain))

RunCommand(st, line, pass) ==
    CASE line.cmd = "gate"     -> IF Probe(line.form) THEN RunProbe(st, line.form, pass)
                                  ELSE RunGate(st, line.form, pass)
      [] line.cmd = "set -e"   -> Succeeds([st EXCEPT !.errexit = TRUE])
      [] line.cmd = "set +e"   -> Succeeds([st EXCEPT !.errexit = FALSE])
      [] line.cmd = "if false" -> Succeeds([st EXCEPT !.dead = TRUE])
      [] line.cmd = "exit 0"   -> ExitsWith(st, TRUE)
      [] OTHER                 -> Succeeds(st)

(* In a quote or after a backslash a line is data; in a dead branch only the *)
(* `fi` is read.                                                             *)
Step(st, line, pass) ==
    LET runs == ~st.exited /\ st.carried = "none"
        next == IF runs /\ line.cmd = "fi" THEN [st EXCEPT !.dead = FALSE]
                ELSE IF runs /\ ~st.dead THEN RunCommand(st, line, pass) ELSE st
    IN  [next EXCEPT !.carried = CarriedState(st.carried, line)]

Started(initial) == [errexit |-> initial, carried |-> "none", dead |-> FALSE, exited |-> FALSE, ok |-> TRUE]

Run(script, initial, pass) ==
    LET after[i \in 0..Len(script)] ==
            IF i = 0 THEN Started(initial) ELSE Step(after[i - 1], script[i], pass)
    IN  after[Len(script)].ok

-----------------------------------------------------------------------------
(* Properties of a script.  Both readers judge a line by its text and by the *)
(* `set` commands above it, and each leaves one question open.               *)

(* Is line i between an `if false` and the next `fi`? *)
InBranch(script, i) ==
    \E b \in 1..(i - 1) : script[b].cmd = "if false" /\ \A k \in (b + 1)..(i - 1) : script[k].cmd # "fi"

(* Left open by both: whether the shell gets to the gate's line.  It is in no *)
(* dead branch, and each `exit 0` above it is in one, or is data.            *)
GateIsReached(script) ==
    \A i \in DOMAIN script : script[i].cmd = "gate" =>
        /\ ~InBranch(script, i)
        /\ \A j \in 1..(i - 1) : script[j].cmd = "exit 0" =>
                InBranch(script, j) \/ CarriedBefore(script, j) # "none"

(* Left open by the doctor: whether the gate's line starts a command.  It    *)
(* follows the quotes and continuations of the lines above for `set -e` only *)
(* (errexitBefore), never for the invocation itself (invokesMode).           *)
GateIsCommand(script) ==
    \A i \in DOMAIN script : script[i].cmd = "gate" => CarriedBefore(script, i) = "none"

(* A hook the doctor certifies refuses when its gate refuses, if the shell   *)
(* runs the gate: the verdict reaches git through any `set`, any form of the *)
(* line and any lines around it.                                             *)
CertifiedHookBlocks(script) ==
    GateIsReached(script) /\ GateIsCommand(script) /\ InvokesMode(script) => ~Run(script, FALSE, FALSE)

(* In a transport that carries a gate which the shell gets to, the gate's    *)
(* verdict decides the script's.  A continuation before a `set -e` is the    *)
(* reader's stated residual.                                                 *)
CarriedGateDecides(script, initial) ==
    /\ GateIsReached(script) /\ Carries(script, initial)
    /\ \A i \in DOMAIN script : ~script[i].continues
    => Run(script, initial, TRUE) # Run(script, initial, FALSE)

(* What task-coverage.mjs:160 says of the doctor: the invocation must start  *)
(* the command, an `echo` that mentions the tool wires nothing.              *)
EchoWiresNothing(script) == InvokesMode(script) => GateIsCommand(script)
=============================================================================
