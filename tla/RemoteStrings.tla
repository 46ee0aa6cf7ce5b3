--------------------------- MODULE RemoteStrings ---------------------------
(***************************************************************************)
(* remote-string-lint: which functions of a corpus of scripts dispatch to  *)
(* the host, which lines stand inside a string that is sent there, and     *)
(* which of those would be expanded at home                                *)
(* (tools/remote-string-lint.mjs:98-410, :618-665).                        *)
(***************************************************************************)
EXTENDS Naturals, Sequences, FiniteSets, FiniteSetsExt, SequencesExt

(* A script is a sequence of lines, a line a sequence of words.  "Q" is a    *)
(* double quote, "bt" and "$(" are live, "\\bt" and "\\$(" escaped.          *)
At(line, i) == IF i \in DOMAIN line THEN line[i] ELSE ""
Quotes(line, S) == Cardinality({i \in S : line[i] = "Q"})

-----------------------------------------------------------------------------
(* shellFunctions: comment lines are removed; parens between case and esac   *)
(* do not count; a body ends where its bracket closes.                       *)
Code(lines) == [i \in DOMAIN lines |-> IF At(lines[i], 1) = "#" THEN <<>> ELSE lines[i]]
Blanked(ws) ==
    [k \in DOMAIN ws |->
        IF /\ ws[k] \in {"(", ")"}
           /\ \E i \in 1..k, j \in k..Len(ws) : ws[i] = "case" /\ ws[j] = "esac" /\ \A n \in i..k : ws[n] # "esac"
        THEN "" ELSE ws[k]]
HeadLength(line) ==
    CASE At(line, 1) = "function" /\ At(line, 3) \in {"{", "("} -> 3
      [] At(line, 1) # "function" /\ At(line, 2) = "()" /\ At(line, 3) \in {"{", "("} -> 3
      [] OTHER -> 0
Body(ws, from) ==
    LET b      == Blanked(ws)
        close  == IF ws[from] = "{" THEN "}" ELSE ")"
        seen(c, k) == Cardinality({i \in from..k : b[i] = c})
        ends   == {k \in from..Len(ws) : seen(ws[from], k) = seen(close, k)}
    IN  SubSeq(ws, from + 1, IF ends = {} THEN Len(ws) ELSE Min(ends) - 1)
ShellFunctions(lines) ==
    LET code == Code(lines)
    IN  {[name |-> IF code[i][1] = "function" THEN code[i][2] ELSE code[i][1],
          body |-> Range(Body(FlattenSeq(SubSeq(code, i, Len(code))), HeadLength(code[i])))] :
            i \in {j \in DOMAIN code : HeadLength(code[j]) > 0}}

(* remoteWrapperNames, indirectWrapperNames, corpusWrapperNames *)
RemoteWrapperNames(lines) == {f.name : f \in {g \in ShellFunctions(lines) : "ssh" \in g.body}}
IndirectWrapperNames(lines, known) ==
    {f.name : f \in {g \in ShellFunctions(lines) : (known \ {g.name}) \cap g.body # {}}}

RECURSIVE Grown(_, _)
Grown(files, names) ==
    LET more == names \cup UNION {IndirectWrapperNames(files[i], names) : i \in DOMAIN files}
    IN  IF more = names THEN names ELSE Grown(files, more)
CorpusWrapperNames(files) == Grown(files, UNION {RemoteWrapperNames(files[i]) : i \in DOMAIN files})

-----------------------------------------------------------------------------
(* OPENS, SSH_OPENS with its count of quotes, opensBlock, CLOSES *)
StaticOpens(line) ==
    LET n == Len(line)
    IN  /\ At(line, n) = "Q"
        /\ \/ At(line, n - 1) = "--command"
           \/ At(line, n - 1) = "P_REMOTE=" /\ (n = 2 \/ (n = 3 /\ line[1] \in {"export", "local"}))
SshOpens(line) ==
    LET n == Len(line)
    IN  /\ At(line, n) = "Q" /\ Quotes(line, DOMAIN line) % 2 = 1
        /\ \E k \in 1..(n - 2) :
            /\ line[k] = "ssh" /\ Quotes(line, (k + 1)..(n - 1)) % 2 = 0
            /\ \A i \in (k + 1)..(n - 1) : line[i] \in {";", "&&", "|", "||"} => Quotes(line, (k + 1)..i) % 2 = 1
OpensBlock(line, wrappers) ==
    StaticOpens(line) \/ SshOpens(line) \/ (At(line, Len(line)) = "Q" /\ At(line, Len(line) - 1) \in wrappers)
Closes(line) == At(line, 1) = "Q" /\ (Len(line) = 1 \/ line[2] \in {")", ";", "&&", "|", "||", ">"})

LiveExpansion(line) == {"bt", "$("} \cap Range(line) # {}

(* A mutant: a line that closes a block is not asked whether it opens one.   *)
ScanStepOnce(wrappers, acc, line) ==
    CASE ~acc.inside                    -> [acc EXCEPT !.n = @ + 1, !.inside = OpensBlock(line, wrappers)]
      [] acc.inside /\ Closes(line)     -> [acc EXCEPT !.n = @ + 1, !.inside = FALSE]
      [] OTHER -> [acc EXCEPT !.n = @ + 1, !.found = @ \cup (IF LiveExpansion(line) /\ "allow" \notin Range(line) THEN {acc.n} ELSE {})]

(* scan: [inside, found, n], line by line. *)
ScanStep(wrappers, acc, line) ==
    CASE ~acc.inside                    -> [acc EXCEPT !.n = @ + 1, !.inside = OpensBlock(line, wrappers)]
      [] acc.inside /\ Closes(line)     -> [acc EXCEPT !.n = @ + 1, !.inside = OpensBlock(Tail(line), wrappers)]
      [] OTHER -> [acc EXCEPT !.n = @ + 1, !.found = @ \cup (IF LiveExpansion(line) /\ "allow" \notin Range(line) THEN {acc.n} ELSE {})]
Scan(lines, wrappers) ==
    FoldLeft(LAMBDA acc, line : ScanStep(wrappers, acc, line), [inside |-> FALSE, found |-> {}, n |-> 1], lines).found

(* floorDefects, lintCorpus, main: the findings are pairs of script and line.*)
FloorDefects(files, wrappers, config) ==
    Len(files) < config.minScripts \/ Cardinality(wrappers) < config.minDispatchers
LintCorpus(files, wrappers) == UNION {{<<i, n>> : n \in Scan(files[i], wrappers)} : i \in DOMAIN files}
LintGreen(files, config) ==
    LET wrappers == CorpusWrapperNames(files)
    IN  ~FloorDefects(files, wrappers, config) /\ LintCorpus(files, wrappers) = {}

-----------------------------------------------------------------------------
(* Scripts as their authors mean them.  A declaration is [name, form, does,  *)
(* callee]: its body runs ssh, or another function, or neither.              *)
BodyOf(d) ==
    LET ssh == <<"ssh", "Q", "$H", "Q", "Q", "$1", "Q">>
    IN  CASE d.does = "ssh"      -> <<ssh>>
          [] d.does = "cased"    -> <<<<"case", "$1", "in">>, <<"a", ")", "w", ";;">>, <<"esac">>, ssh>>
          [] d.does = "comments" -> <<<<"#", "ssh", "}">>, <<"w">>>>
          [] d.does = "calls"    -> <<<<d.callee, "Q", "$1", "Q">>>>
          [] d.does = "defaults" -> <<<<"Q", "$", "{", "X:-", d.callee, "}", "Q", "$1">>>>
Declared(d) ==
    CASE d.form = "braces"   -> <<<<d.name, "()", "{">>>> \o BodyOf(d) \o <<<<"}">>>>
      [] d.form = "keyword"  -> <<<<"function", d.name, "{">>>> \o BodyOf(d) \o <<<<"}">>>>
      [] d.form = "subshell" -> <<<<d.name, "()", "(">>>> \o BodyOf(d) \o <<<<")">>>>

(* The functions that reach ssh: the least set closed under calling.         *)
Dispatchers(ds) ==
    LET names == {ds[i].name : i \in DOMAIN ds}
        closed(S) == \A i \in DOMAIN ds :
            (ds[i].does \in {"ssh", "cased"} \/ (ds[i].does \in {"calls", "defaults"} /\ ds[i].callee \in S)) => ds[i].name \in S
    IN  {n \in names : \A S \in SUBSET names : closed(S) => n \in S}

(* A string is [opener, to, lines]: sent to the host, kept, or handed to a   *)
(* function.  A chain of them: what closes one may open the next.            *)
Opener(text, to) == [text |-> text, to |-> to]
Openers == {Opener(<<"x", "--command", "Q">>, "host"), Opener(<<"P_REMOTE=", "Q">>, "host"), Opener(<<"export", "P_REMOTE=", "Q">>, "host"),
            Opener(<<"sudo", "ssh", "Q", "$H", "Q", "Q">>, "host"), Opener(<<"A=", "$(", "r", "Q">>, "r"), Opener(<<"if", "s", "Q">>, "s"),
            Opener(<<"echo", "Q">>, "kept"), Opener(<<"echo", "Q", "ssh", "w", "Q", "&&", "echo", "Q">>, "kept"),
            Opener(<<"ssh", "Q", "$H", "Q", "Q", "w", "Q", ";", "echo", "Q">>, "kept")}
Contents == {<<"w">>, <<"#", "bt", "w", "bt">>, <<"A=", "$(", "w", ")">>, <<"\\bt", "\\$(", "w">>,
             <<"\\bt", "bt">>, <<"$(", "w", ")", "#", "allow">>, <<"Q", "w", "Q", "\\">>}
Closers  == {<<"Q">>, <<"Q", ")">>, <<"Q", ";", "then">>, <<"Q", "||", "w">>, <<"Q", ">", "w">>}
Links    == {<<"Q", "&&">>, <<"Q", ")", ";">>, <<"Q", "|">>}

ChainText(chain, link, closer) ==
    FoldLeft(LAMBDA text, i :
            text \o <<(IF i = 1 THEN <<>> ELSE link) \o chain[i].opener.text>> \o chain[i].lines,
        <<>>, [i \in DOMAIN chain |-> i]) \o <<closer>>

(* The lines that would be expanded at home, `before` being what precedes.   *)
Expanded(chain, before, sent) ==
    LET start(i) == before + i + FoldLeft(LAMBDA n, b : n + Len(b.lines), 0, SubSeq(chain, 1, i - 1))
    IN  UNION {{start(i) + k : k \in {n \in DOMAIN chain[i].lines :
                    LiveExpansion(chain[i].lines[n]) /\ "allow" \notin Range(chain[i].lines[n])}} :
            i \in {j \in DOMAIN chain : chain[j].opener.to \in sent}}

(* What the lint follows from one string to the next: not an assignment, and *)
(* not ssh itself after a string that was kept, whose last quote it counts.  *)
Followed(chain) ==
    \A i \in 2..Len(chain) :
        /\ "P_REMOTE=" \notin Range(chain[i].opener.text)
        /\ chain[i - 1].opener.to # "host" => "ssh" \notin Range(chain[i].opener.text)

(* The lint reports exactly the lines of the strings that reach the host and *)
(* would be expanded where they are built, through any chain of functions in *)
(* any file; it is red when there is one, and when the functions it found    *)
(* are fewer than the floor (tools/remote-string-lint.mjs:247, :353).        *)
ReportsWhatIsExpanded(lib, own, chain, link, closer) ==
    LET text   == FlattenSeq([i \in DOMAIN own |-> Declared(own[i])])
        files  == <<FlattenSeq([i \in DOMAIN lib |-> Declared(lib[i])]), text \o ChainText(chain, link, closer)>>
        sent   == Dispatchers(lib \o own)
        truly  == Expanded(chain, Len(text), sent \cup {"host"})
        names  == CorpusWrapperNames(files)
    IN  Followed(chain) =>
        /\ Scan(files[1], names) = {}
        /\ Scan(files[2], names) = truly
        /\ LintGreen(files, [minScripts |-> 2, minDispatchers |-> Cardinality(sent)]) <=> truly = {}
        /\ ~LintGreen(files, [minScripts |-> 2, minDispatchers |-> Cardinality(sent) + 1])
=============================================================================
