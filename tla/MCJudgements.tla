---------------------------- MODULE MCJudgements ----------------------------
(***************************************************************************)
(* Small inputs of the judgements, and the judgements over text; MCTools   *)
(* adds more of both.                                                      *)
(***************************************************************************)
EXTENDS Judgements, SequencesExt

Sh == INSTANCE Commands
Cut == INSTANCE TestCode
Use == INSTANCE MemberUses
Remote == INSTANCE RemoteStrings

UpTo(S, n) == UNION {[1..k -> S] : k \in 0..n}

(* The editor's payloads, the harnesses above a session, the task records.   *)
Payload(json, object, cwd, fp, fP, p) ==
    [json |-> json, object |-> object, cwd |-> cwd, file_path |-> fp, filePath |-> fP, path |-> p]

Named == {Null, "", "number", "code", "doc", "outside"}
Above == UpTo({"none", "good", "throwing", "unexporting"}, 2)

TaskFile(json, id, phase, refused, throws, covers, at) ==
    [json |-> json, id |-> id, phase |-> phase, refused |-> refused, throws |-> throws,
     covers |-> covers, at |-> at]
FilesOf(f, g) ==
    {TaskFile(FALSE, f, "executing", FALSE, FALSE, TRUE, Null), TaskFile(TRUE, g, "executing", FALSE, FALSE, TRUE, Null),
     TaskFile(TRUE, f, "executing", FALSE, TRUE, TRUE, Null),   TaskFile(TRUE, f, "verified", TRUE, FALSE, TRUE, Null),
     TaskFile(TRUE, f, "planned", FALSE, FALSE, TRUE, Null)}
    \cup {TaskFile(TRUE, f, "executing", FALSE, FALSE, covers, Null) : covers \in BOOLEAN}
    \cup {TaskFile(TRUE, f, "done", FALSE, FALSE, TRUE, at) : at \in {Null, 1, 2}}
Directories ==
    {[f \in {"a", "b"} |-> IF f = "a" THEN x ELSE y] : x \in FilesOf("a", "b"), y \in FilesOf("b", "a")}
Git == [upstream : {Null, 0, 1}, originMain : {Null, 2}]

(* Commands: a verb, an argument in every style, and what may precede it.    *)
Arg(words, style, redirect) == [words |-> words, style |-> style, redirect |-> redirect]
Bare(words) == [i \in DOMAIN words |-> Arg(<<words[i]>>, "bare", <<>>)]

Verbs == {<<<<"git", "commit">>, {"--no-verify", "-n", "--amend"}>>, <<<<"git", "push">>, {"--force", "--force-with-lease", "--no-verify"}>>,
          <<<<"git", "log">>, {"-n"}>>, <<<<"git", "reset">>, {"--hard"}>>, <<<<"rm">>, {"-rf"}>>,
          <<<<"git", "config", "core.hooksPath">>, {".githooks", "x"}>>, <<<<"git", "config", "--unset">>, {"core.hooksPath"}>>}
Styles    == {"bare", "escaped", "continued", "'", "\""}
Redirects == {<<>>, <<"&", ">", "x">>, <<">", "|", "x">>}
Between   == {<<>>, <<Arg(<<>>, "bare", <<"2", ">", "&", "1">>)>>, <<Arg(<<"-n", " ", ";", "x">>, "'", <<>>)>>,
              <<Arg(<<"a", "|", "b">>, "\"", <<>>)>>, <<Arg(<<";">>, "escaped", <<>>)>>}
Adjacent  == {<<"git", "reset">>, <<"git", "config", "core.hooksPath">>, <<"git", "config", "--unset">>}  \* judged by the next word
Styled    == UNION {{Bare(v[1]) \o b \o <<Arg(<<w>>, st, r)>> : b \in IF v[1] \in Adjacent THEN {<<>>} ELSE Between, w \in v[2], st \in Styles, r \in Redirects} : v \in Verbs}
Plain     == {Bare(ws) : ws \in {<<"git", "commit", "x">>, <<"git", "log", "-n">>, <<"git", "push", "--force">>,
                                <<"git", "push", "--force-with-lease">>, <<"rm", "x">>}}
Separators == {<<";">>, <<"&">>, <<"&", "&">>, <<"|">>, <<"|", "&">>, <<"nl">>}
Typed(c, d, separator) == Sh!TextOf(c) \o separator \o Sh!TextOf(d)
Wrapped(q, text) == <<"sh", " ", "-c", " ", q>> \o text \o <<q>>
Holds(c, q) == q \in Range(Sh!TextOf(c))

(* GateMaps: lawful files but for two fields; maps of four paths; registers. *)
Values == {"good", "empty", "wrong", "absent", "misspelt"}
FilesOfSchema(schema) ==
    {[state |-> "object", twice |-> twice,
      fields |-> [x \in Map!FieldsOf(schema) |-> IF x = a THEN v ELSE IF x = b THEN w ELSE "good"]] :
        a, b \in Map!FieldsOf(schema), v, w \in Values, twice \in BOOLEAN}
    \cup {[state |-> st, twice |-> FALSE, fields |-> [x \in Map!FieldsOf(schema) |-> "good"]] : st \in {"missing", "torn", "array"}}

SourcePath(n, js, code, config, generated) == [n |-> n, js |-> js, code |-> code, config |-> config, generated |-> generated]
C1 == SourcePath(1, TRUE, TRUE, FALSE, FALSE)
C2 == SourcePath(2, FALSE, TRUE, FALSE, FALSE)
C3 == SourcePath(3, FALSE, TRUE, TRUE, FALSE)
C4 == SourcePath(4, TRUE, TRUE, FALSE, TRUE)
Trees3 == {{C1, C2, C3, C4}, {C1, C3}, {C2}}
GatesOf == [spec : {{C1}, {C2}, {C1, C2}, {C1, C2, C3, C4}, {}}, exclude : {{}, {C1}}, misspelt : {{}, {C1}, {C2}}]
Maps == [gates : UpTo(GatesOf, 2), exempt : {<<>>} \cup {<<[spec |-> {p}, why |-> why]>> : p \in {C1, C2}, why \in BOOLEAN}]

DebtRows ==
    [id : {<<"PD">>, <<"**PD**">>}, due : {<<"next">>, <<"soon">>},
     item : {<<"x">>, <<"DROPPED", "x">>, <<"a", "|", "b">>, <<"a", "\\|", "b">>, <<"SHIPPED", "|", "next">>},
     status : {<<"OPEN">>, <<"SHIPPED", "\\|", "x">>, <<"SHIPPED", "|", "x">>, <<"DROPPED">>, <<"later">>}]
DebtRegisters == {<<r>> : r \in DebtRows} \cup {<<r, q>> : r \in DebtRows, q \in {s \in DebtRows : s.item = <<"x">> /\ s.due = <<"next">>}}

(* DocClaims: a tool, a hook without an extension, a doc.                    *)
DocFile(grammar, docs, listed, code, comment, disk) ==
    [grammar |-> grammar, docs |-> docs, listed |-> listed, code |-> code, comment |-> comment, disk |-> disk]
DocTrees == {[p \in {"js", "sh", "md"} |->
                CASE p = "js" -> DocFile("js", FALSE, TRUE, a, b, disk)
                  [] p = "sh" -> DocFile("hash", FALSE, sh, c, 1, TRUE)
                  [] p = "md" -> DocFile("none", TRUE, md, 0, d, TRUE)] :
                a, b, c, d \in 0..1, disk, sh, md \in BOOLEAN}
Evidence(kind, at, want, hollow, ignore) == [kind |-> kind, at |-> at, want |-> want, hollow |-> hollow, ignore |-> ignore]
RepoCounts == {Evidence("repo-count", Null, want, FALSE, ignore) : want \in 0..2, ignore \in {{}, {"sh"}, {"js", "sh", "md"}}}
InFile == {Evidence(kind, at, 1, FALSE, {}) : kind \in {"symbol", "absent", "count", "caller"}, at \in {"js", "sh", "md", Null}}
Odd == {Evidence("symbol", "js", 1, TRUE, {}), Evidence("absent", "js", 1, FALSE, {"js"})}
DocClaim(scoped, stamp, evidence) == [anchored |-> TRUE, scoped |-> scoped, stamp |-> stamp, evidence |-> evidence]
ClaimsOf == {DocClaim(scoped, "renewed", <<e>>) : scoped \in BOOLEAN, e \in RepoCounts \cup InFile \cup Odd}
            \cup {DocClaim(TRUE, stamp, <<e, f>>) : stamp \in {"renewed", "stale"}, e \in {r \in RepoCounts : r.ignore = {}}, f \in {g \in InFile : g.at = "js"}}

(* Vendoring: the gate, a file, the manifest, a file beside the corpus, a doc.*)
Vendored1 == [p \in {"gate", "a", "m", "b", "doc"} |-> IF p \in {"gate", "a", "doc"} THEN "v" ELSE Absent]
Disks == {d \in [{"gate", "a", "m", "b", "doc"} -> {"v", "w", Absent, "unreadable"}] : d["m"] = "w" /\ d["doc"] \in {"v", Absent}}
Manifests1 ==
    {Null} \cup
    {[at |-> at, tracked |-> tracked, lawful |-> lawful, corpus |-> corpus, docs |-> docs,
      files |-> [p \in files |-> "v"]] :
        at \in {"m", "b"}, tracked \in BOOLEAN, lawful \in BOOLEAN, docs \in {{}, {"doc"}},
        corpus \in {Null, {"gate", "a", "m", "b"}, {"a"}, {"gate"}}, files \in {{"gate", "a"}}}
    \cup {[at |-> "m", tracked |-> tracked, lawful |-> TRUE, corpus |-> {f}, docs |-> {}, files |-> [p \in {f} |-> "v"]] :
            tracked \in BOOLEAN, f \in {"gate", "a"}}

(* Readers: registers of one and of two findings, torn and foreign ones.     *)
F(id, status, evidence, why) ==
    [id |-> id, status |-> status, high |-> FALSE, proof |-> FALSE, old |-> FALSE, evidence |-> evidence, why |-> why]
Findings1 == [id : {"f"}, status : Read!FindingStatuses \cup {"bogus"}, high : BOOLEAN, proof : BOOLEAN, old : BOOLEAN,
              evidence : SUBSET {"live", "dead"}, why : BOOLEAN]
Findings2(id) == {F(id, "UNRESOLVED", {}, FALSE), F(id, "RESOLVED", {"live"}, FALSE), F(id, "RESOLVED", {"live", "dead"}, FALSE),
                  F(id, "WONT-FIX", {}, TRUE), F(id, "WONT-FIX", {}, FALSE)}
Pairs == {<<f, g>> : f \in Findings2("f"), g \in Findings2("f") \cup Findings2("g")}
Register(json, schema, task, marker, findings) ==
    [json |-> json, schema |-> schema, task |-> task, marker |-> marker, findings |-> findings]
RegisterFiles ==
    {Null} \cup {Register(TRUE, TRUE, "a", "set", fs) : fs \in {<<f>> : f \in Findings1} \cup Pairs}
    \cup {Register(json, schema, task, marker, fs) : json, schema \in BOOLEAN, task \in {"a", "b"},
            marker \in {"set", "null", "missing", "wrong"}, fs \in {<<>>} \cup {<<f>> : f \in Findings2("f")}}
DirectoryFiles(task) ==
    {Null, Register(FALSE, TRUE, task, "set", <<>>)}
    \cup {Register(TRUE, TRUE, t, "set", fs) : t \in {"a", "b"}, fs \in {<<>>} \cup {<<f>> : f \in Findings2("f")} \cup
            {<<F("f", "WONT-FIX", {}, TRUE), F("g", "WONT-FIX", {}, TRUE)>>}}
RecordFiles == {Null} \cup [json : BOOLEAN, schema : BOOLEAN, id : {"a", "b"}, events : BOOLEAN]

(* TestCode: a selfTest, its helpers, production.                            *)
Programs ==
    LET plain == <<<<<<"w", ";">>>>>>
        none  == <<"(", ")">>
        D(n, b, e, h, body, m) == [name |-> n, binding |-> b, exported |-> e, header |-> h, body |-> body, mentions |-> m]
        test(b, x, h, body, m) == D("selfTest", b, x, h, body, m)
        p(b, h, body, m) == D("p", b, FALSE, h, body, m)
        q(m) == D("q", TRUE, FALSE, none, plain, m)
        e(m) == D("e", FALSE, TRUE, none, plain, m \cup {"selfTest"})
        one  == {<<x>> : x \in Cut!Pieces}
        two  == one \cup {<<x, y>> : x, y \in Cut!Pieces}
    IN  {<<test(b, FALSE, h, body, {"p"}), p(FALSE, none, plain, {}), e(m)>> : b \in BOOLEAN, h \in Cut!Headers, body \in one, m \in SUBSET {"p"}}
        \cup {<<test(b, TRUE, none, body, {"p"}), p(FALSE, none, plain, {}), e({})>> : b \in BOOLEAN, body \in two}
        \cup {<<p(b, none, body, m), test(FALSE, TRUE, none, plain, ms), q(mq), e(me)>> : b \in BOOLEAN, body \in one,
                 m \in {{}, {"p"}, {"q"}}, mq \in {{}, {"q"}}, ms \in SUBSET {"p", "q"}, me \in {{}, {"p"}, {"q"}}}

(* MemberUses: the clauses of a line, a clause returned by itself apart.     *)
UseLines ==
    {[returns |-> FALSE, a |-> a, b |-> b] : a, b \in Use!Reads \cup Use!Supplies \cup Use!Neither}
    \cup {[returns |-> TRUE, a |-> a, b |-> b] : a, b \in Use!Reads \cup Use!Supplies \cup Use!Returned \cup {<<"m">>}}
UseFiles ==
    {<<u, g, use>> : u \in Use!Unions, g \in Use!Guards, use \in Use!Uses}

(* PinRuns: a signature, one that matches everything, the wrong one.         *)
Expects == {Null, {"fails"}, {"fails", "crashes", "holds"}, {"crashes"}, Pin!Malformed}
Runs2   == {o \in Pin!Outcomes : o.lost => o.asserts \in {"fails", "crashes"}}

(* RemoteStrings: functions of a library and of the script, two strings.     *)
Forms == {"braces", "keyword", "subshell"}
Function(name, form, does, callee) == [name |-> name, form |-> form, does |-> does, callee |-> callee]
FunctionsOf(name, callee) ==
    {Function(name, form, does, callee) : form \in Forms, does \in {"ssh", "cased", "comments", "calls", "defaults"}}
Block(o, lines) == [opener |-> o, lines |-> lines]
Marked == {<<"w">>, <<"#", "bt", "w", "bt">>, <<"Q", "w", "Q", "\\">>}
Live  == <<<<"#", "bt", "w", "bt">>>>
Via   == {o \in Remote!Openers : o.to \in {"r", "s"}}
Direct == <<Function("r", "braces", "ssh", "s")>>

AReading ==
    \/ \E f \in FunctionsOf("r", "s"), g \in {d \in FunctionsOf("s", "t") : d.form = "keyword"}, does \in {"ssh", "comments", "calls"}, o \in Via :
            input = <<"remote", <<f, Function("t", "braces", does, "r")>>, <<g>>, <<Block(o, Live)>>, <<>>, <<"Q">>>>
    \/ \E own \in {<<>>, <<Function("s", "keyword", "comments", "r")>>}, o \in Remote!Openers, a \in Remote!Contents, b \in Marked, closer \in Remote!Closers :
            input = <<"remote", Direct, own, <<Block(o, <<a, b>>)>>, <<>>, closer>>
    \/ \E does \in {"comments", "calls"}, o, p \in Remote!Openers, link \in Remote!Links, a \in {Live, <<<<"w">>>>} :
            input = <<"remote", Direct, <<Function("s", "braces", does, "r")>>, <<Block(o, a), Block(p, Live)>>, link, <<"Q", ")">>>>
    \/ \E f \in RegisterFiles : input = <<"register", "a", f>>
    \/ \E f \in DirectoryFiles("a"), g \in DirectoryFiles("b") :
            input = <<"directory", [x \in {"a", "b"} |-> IF x = "a" THEN f ELSE g], "a">>
    \/ \E f \in RecordFiles : input = <<"record", "a", f>>
    \/ \E p \in Programs : input = <<"program", p>>
    \/ \E l \in UseLines, f \in UseFiles :
            (f[2] = <<>> \/ l.a = <<"m">>) /\ input = <<"uses", f[1], f[2], f[3], l.returns, l.a, l.b>>
    \/ \E e \in Expects, noisy, cutover \in BOOLEAN, before, first, second \in Runs2 :
            (e # Null => cutover) /\ input = <<"pin", e, noisy, cutover, before, <<first, second>>>>

AJudgement ==
    \/ \E schema \in Map!Schemas : \E f \in FilesOfSchema(schema) : input = <<"file", schema, f>>
    \/ \E map \in Maps, paths \in Trees3 : input = <<"map", map, paths>>
    \/ \E rows \in DebtRegisters, outer \in BOOLEAN, since \in 1..2 : input = <<"debt", rows, outer, 1, since>>
    \/ \E tree \in DocTrees, c \in ClaimsOf, ignored \in {{}, {"md"}} : input = <<"claims", tree, <<c>>, ignored>>
    \/ \E m \in Manifests1, disk \in Disks : input = <<"host", m, Vendored1, disk>>
    \/ \E c \in Styled, d \in Plain, separator \in {<<"&">>, <<"|", "&">>} :
            input = <<"command", Typed(c, d, separator), {c, d}>>
    \/ \E c, d \in Plain, separator \in Separators, q \in {"'", "\""} :
            input = <<"command", Wrapped(q, Typed(c, d, separator)), {c, d}>>
    \/ \E c \in Styled, d \in Plain :
            ~Holds(c, "'") /\ c[2].words # <<"config">> /\ input = <<"command", Typed(d, <<>>, <<";">>) \o Wrapped("'", Sh!TextOf(c)), {c, d}>>
    \/ \E files \in Directories, above \in Above, target \in {"code", "doc", "outside"} :
            input = <<"edit", Payload(TRUE, TRUE, TRUE, target, Null, Null), above, <<>>, files, [upstream |-> 1, originMain |-> Null]>>
    \/ \E files \in {d \in Directories : d["b"].phase = "done" /\ d["a"].phase # "executing"}, a, b, c \in Named, object \in BOOLEAN :
            input = <<"edit", Payload(TRUE, object, TRUE, a, b, c), <<"good">>, <<>>, files, [upstream |-> Null, originMain |-> Null]>>
    \/ \E files \in Directories, json, cwd \in BOOLEAN, above, own \in {<<>>, <<"good">>}, git \in Git :
            input = <<"edit", Payload(json, TRUE, cwd, "code", Null, Null), above, own, files, git>>
=============================================================================
