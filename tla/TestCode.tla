------------------------------ MODULE TestCode ------------------------------
(***************************************************************************)
(* The lines of a source that reader-existence cuts as test code: it scans *)
(* characters for the end of a declaration, and closes over what only test *)
(* code reaches (tools/reader-existence.mjs:295-523).                      *)
(***************************************************************************)
EXTENDS Naturals, Integers, Sequences, FiniteSets, SequencesExt

(* A line is a sequence of characters, an identifier or a keyword being one  *)
(* of them.  The scanner's state is [depth, parens, started, str, block,     *)
(* prev, holes, binding]; str and prev are "" when they are null.            *)
Quotes     == {"\"", "'", "tick"}
RegexAfter == {"(", ",", "=", ":", "[", "!", "&", "|", "?", "{", ";", "+", "-", "*", "%", "<", ">"}
Keywords   == {"return", "typeof"}

At(line, k) == IF k \in DOMAIN line THEN line[k] ELSE ""
Goes(k, st)  == [next |-> k, ended |-> FALSE, st |-> st]

-----------------------------------------------------------------------------
(* headerStep, bodyStep: braces of the parameter list are not the body's.    *)
HeaderStep(c, st) ==
    CASE c = "(" -> [st EXCEPT !.parens = @ + 1]
      [] c = ")" -> [st EXCEPT !.parens = @ - 1]
      [] c = "{" /\ st.parens = 0 -> [st EXCEPT !.depth = 1, !.started = TRUE]
      [] OTHER   -> st
BodyStep(c, st) ==
    CASE c = "{" -> [st EXCEPT !.depth = @ + 1]
      [] c = "}" -> [st EXCEPT !.depth = @ - 1]
      [] OTHER   -> st

FunctionStep(c, st) ==
    LET new == IF st.started THEN BodyStep(c, st) ELSE HeaderStep(c, st)
    IN  [st |-> new, ended |-> new.started /\ new.depth <= 0]
StatementStep(c, st) ==
    LET new == CASE c \in {"(", "[", "{"} -> [st EXCEPT !.depth = @ + 1]
                 [] c \in {")", "]", "}"} -> [st EXCEPT !.depth = @ - 1]
                 [] OTHER                 -> st
    IN  [st |-> new, ended |-> c = ";" /\ new.depth <= 0]

(* regexCanStart, regexEnd: 0 when no `/` on the line closes it. *)
RegexCanStart(line, k, st) ==
    /\ ~(At(line, k - 1) = "+" /\ At(line, k - 2) = "+")
    /\ st.prev = "" \/ st.prev \in RegexAfter \/ At(line, k - 1) \in Keywords

RECURSIVE RegexEnd(_, _, _)
RegexEnd(line, j, class) ==
    CASE j > Len(line)                -> 0
      [] At(line, j) = "\\"           -> RegexEnd(line, j + 2, class)
      [] At(line, j) = "/" /\ ~class  -> j
      [] OTHER                        -> RegexEnd(line, j + 1, IF line[j] \in {"[", "]"} THEN line[j] = "[" ELSE class)

(* slashStep: a comment, a regex, or <<>>: division, an ordinary character.  *)
SlashStep(line, k, st) ==
    LET end == IF RegexCanStart(line, k, st) THEN RegexEnd(line, k + 1, FALSE) ELSE 0
    IN  CASE At(line, k + 1) = "/" -> <<Goes(Len(line) + 1, st)>>
          [] At(line, k + 1) = "*" -> <<Goes(k + 2, [st EXCEPT !.block = TRUE])>>
          [] At(line, k + 1) \notin {"/", "*"} /\ end > 0 -> <<Goes(end + 1, st)>>
          [] OTHER                 -> <<>>

(* holeCloses: [closes, st]. *)
HoleCloses(c, st) ==
    LET top == Len(st.holes)
    IN  CASE top = 0                          -> [closes |-> FALSE, st |-> st]
          [] top > 0 /\ c = "{"               -> [closes |-> FALSE, st |-> [st EXCEPT !.holes[top] = @ + 1]]
          [] top > 0 /\ c = "}" /\ st.holes[top] > 0 -> [closes |-> FALSE, st |-> [st EXCEPT !.holes[top] = @ - 1]]
          [] top > 0 /\ c = "}" /\ st.holes[top] = 0 -> [closes |-> TRUE, st |-> [st EXCEPT !.holes = Front(@), !.str = "tick"]]
          [] OTHER                            -> [closes |-> FALSE, st |-> st]

(* A mutant: a hole of a template is text, like the rest of it. *)
StringStepFlat(line, k, st) ==
    CASE line[k] = "\\"   -> Goes(k + 2, st)
      [] line[k] = st.str -> Goes(k + 1, [st EXCEPT !.str = ""])
      [] OTHER            -> Goes(k + 1, st)

StringStep(line, k, st) ==
    CASE line[k] = "\\" -> Goes(k + 2, st)
      [] st.str = "tick" /\ line[k] = "$" /\ At(line, k + 1) = "{" ->
            Goes(k + 2, [st EXCEPT !.holes = Append(@, 0), !.str = ""])
      [] line[k] = st.str -> Goes(k + 1, [st EXCEPT !.str = ""])
      [] OTHER            -> Goes(k + 1, st)

BlockStep(line, k, st) ==
    IF line[k] = "*" /\ At(line, k + 1) = "/" THEN Goes(k + 2, [st EXCEPT !.block = FALSE]) ELSE Goes(k + 1, st)

CodeStep(line, k, st) ==
    LET c     == line[k]
        slash == IF c = "/" THEN SlashStep(line, k, st) ELSE <<>>
        hole  == HoleCloses(c, st)
        seen  == [hole.st EXCEPT !.str = IF c \in Quotes THEN c ELSE @, !.prev = c]
        shape == IF st.binding THEN StatementStep(c, seen) ELSE FunctionStep(c, seen)
    IN  CASE slash # <<>>                   -> slash[1]
          [] slash = <<>> /\ hole.closes    -> Goes(k + 1, hole.st)
          [] OTHER                          -> [next |-> k + 1, ended |-> shape.ended, st |-> shape.st]

Consume(line, k, st) ==
    CASE st.block                  -> BlockStep(line, k, st)
      [] ~st.block /\ st.str # ""  -> StringStep(line, k, st)
      [] OTHER                     -> CodeStep(line, k, st)

RECURSIVE ScanLine(_, _, _)
ScanLine(line, k, st) ==
    IF k > Len(line) THEN [ended |-> FALSE, st |-> st]
    ELSE LET step == Consume(line, k, st)
         IN  IF step.ended THEN step ELSE ScanLine(line, step.next, step.st)

(* declarationEnd: the end of the file when a quote stays open at a line's   *)
(* end, or when nothing closes.                                              *)
RECURSIVE EndFrom(_, _, _)
EndFrom(lines, j, st) ==
    IF j > Len(lines) THEN Len(lines)
    ELSE LET scan == ScanLine(lines[j], 1, st)
         IN  CASE scan.ended -> j
               [] ~scan.ended /\ scan.st.str \in {"\"", "'"} -> Len(lines)
               [] OTHER -> EndFrom(lines, j + 1, scan.st)

DeclarationEnd(lines, start) ==
    EndFrom(lines, start, [depth |-> 0, parens |-> 0, started |-> FALSE, str |-> "", block |-> FALSE, prev |-> "",
                           holes |-> <<>>, binding |-> "const" \in {At(lines[start], 1), At(lines[start], 2)}])

-----------------------------------------------------------------------------
(* selfTestRanges: from the first line on, each range after the last.        *)
IsSelfTest(line) ==
    LET bare == IF At(line, 1) = "export" THEN Tail(line) ELSE line
    IN  At(bare, 1) \in {"function", "const"} /\ At(bare, 2) = "selfTest"

RECURSIVE SelfTestRanges(_, _)
SelfTestRanges(lines, i) ==
    CASE i > Len(lines)            -> {}
      [] i <= Len(lines) /\ IsSelfTest(lines[i]) -> {i..DeclarationEnd(lines, i)} \cup SelfTestRanges(lines, DeclarationEnd(lines, i) + 1)
      [] OTHER                     -> SelfTestRanges(lines, i + 1)

(* privateDeclarations, identifierLines, onlyTestReached *)
PrivateDeclarations(lines) ==
    {[name |-> lines[i][2], range |-> i..DeclarationEnd(lines, i)] :
        i \in {j \in DOMAIN lines : At(lines[j], 1) \in {"function", "const"} /\ ~IsSelfTest(lines[j])}}
IdentifierLines(lines, name) == {i \in DOMAIN lines : name \in Range(lines[i])}
OnlyTestReached(lines, d, cut) == IdentifierLines(lines, d.name) \ d.range \subseteq cut

(* testCodeRanges, as the set of lines it cuts. *)
RECURSIVE Closure(_, _, _)
Closure(lines, pending, cut) ==
    LET reached == {d \in pending : OnlyTestReached(lines, d, cut)}
    IN  IF reached = {} THEN cut
        ELSE Closure(lines, pending \ reached, cut \cup UNION {d.range : d \in reached})

TestCodeRanges(lines) == Closure(lines, PrivateDeclarations(lines), UNION SelfTestRanges(lines, 1))

-----------------------------------------------------------------------------
(* A program as its author wrote it: declarations [name, binding, exported,  *)
(* header, body, mentions], a body being pieces of one line or more, each    *)
(* whole by JavaScript's grammar.                                            *)
Pieces == {
    <<<<"w", ";">>>>,                       <<<<"{", "w", "}">>>>,
    <<<<"w", "=", "\"", "}", "\"", ";">>>>, <<<<"\"", "\\", "\"", "}", "\"", ";">>>>,
    <<<<"'", "\"", "}", "'", ";">>>>,       <<<<"tick", "}">>, <<"{", ";", "tick", ";">>>>,
    <<<<"tick", "$", "{", "{", "}", "}", "}", "tick", ";">>>>,
    <<<<"tick", "$", "{", "tick", "}", "tick", "}", "'", "tick", ";">>>>,
    <<<<"/", "/", "}", "'">>, <<>>>>,       <<<<"/", "*", "}">>, <<"tick", "*", "/">>>>,
    <<<<"w", "=", "/", "[", "/", "}", "]", "\"", "/", ";">>>>,
    <<<<"return", "/", "}", "\\", "/", "\"", "/", ";">>>>,
    <<<<"w", "/", "w", ";">>>>,             <<<<"w", "+", "+", "/", "w", ";">>>>,
    <<<<"(", "w", ")", "/", "w", ";">>>>,   <<<<"[", "{", "}", "]">>>>}

(* Text of two pieces: the second goes on where the first stops. *)
Join(a, b)   == Front(a) \o <<Last(a) \o Head(b)>> \o Tail(b)
TextOf(body) == FoldLeft(Join, <<<<>>>>, body)

Headers == {<<"(", ")">>, <<"(", "{", "}", ")">>, <<"(", "w", "=", "{", "}", ")">>}

Declared(d) ==
    LET head == (IF d.exported THEN <<"export">> ELSE <<>>)
                \o (IF d.binding THEN <<"const", d.name, "=">> \o d.header \o <<"=", ">">> ELSE <<"function", d.name>> \o d.header)
                \o <<"{">>
        uses == SetToSeq(d.mentions)
    IN  <<head>> \o TextOf(d.body) \o [i \in DOMAIN uses |-> <<uses[i], "(", ")", ";">>]
        \o <<IF d.binding THEN <<"}", ";">> ELSE <<"}">>>>

RECURSIVE Source(_)
Source(program) == IF program = <<>> THEN <<>> ELSE Declared(Head(program)) \o Source(Tail(program))

FirstLine(program, n) == Len(Source(SubSeq(program, 1, n - 1))) + 1
Lines(program, n)     == FirstLine(program, n)..(FirstLine(program, n) + Len(Declared(program[n])) - 1)

(* What is test code, by the calls: what no exported declaration reaches but *)
(* through a selfTest, which `main` calls as it calls everything else.       *)
RECURSIVE ReachedFrom(_, _, _)
ReachedFrom(program, names, n) ==
    IF n = 0 THEN names
    ELSE LET callers == {i \in DOMAIN program : program[i].name \in names}
         IN  ReachedFrom(program, names \cup (UNION {program[i].mentions : i \in callers} \ {"selfTest"}), n - 1)
Production(program) ==
    ReachedFrom(program, {program[i].name : i \in {j \in DOMAIN program : program[j].exported /\ program[j].name # "selfTest"}}, Len(program))

(* The cut is the test code, to the line: nothing of it is left in the       *)
(* corpus, where its literals would count as producers and consumers, and    *)
(* nothing that production reaches is lost, whatever quotes, templates,      *)
(* regexes and comments say (tools/reader-existence.mjs:334, :387).          *)
CutIsTestCode(program) ==
    TestCodeRanges(Source(program)) =
        UNION {Lines(program, n) : n \in {k \in DOMAIN program : program[k].name \notin Production(program)}}
=============================================================================
