------------------------------ MODULE Commands ------------------------------
(***************************************************************************)
(* How the fact gate reads a shell command (tools/task-gate.mjs): its      *)
(* segments, their words, and which of them is destructive or skips the    *)
(* commit hooks.  A text is a sequence of words and marks; the marks are   *)
(* the blanks, the quotes, the backslash, "$", and ";", "&", "|", ">".     *)
(***************************************************************************)
EXTENDS Naturals, Sequences, FiniteSets, FiniteSetsExt, SequencesExt

Blanks == {" ", "nl"}
At(s, i) == IF i \in DOMAIN s THEN s[i] ELSE ""
Rest(s, i) == SubSeq(s, i, Len(s))
WordAt(ws, i) == IF i \in DOMAIN ws THEN ws[i] ELSE <<>>

(* The first place of one of cs from i on, or the end. *)
Find(s, i, cs) == LET ps == {j \in i .. Len(s) : s[j] \in cs} IN IF ps = {} THEN Len(s) + 1 ELSE Min(ps)

RECURSIVE Trim(_)
Trim(s) == IF s # <<>> /\ s[1] \in Blanks THEN Trim(Tail(s))
           ELSE IF s # <<>> /\ Last(s) \in Blanks THEN Trim(Front(s)) ELSE s

(* decodeAnsiC, inside $'..': a backslash's word is the character it spells. *)
DecodeAnsiC(s) == SelectSeq(s, LAMBDA c : c # "\\")

(* Where the double quote opened before i closes; \x is no end. *)
RECURSIVE DoubleEnd(_, _)
DoubleEnd(s, i) ==
    CASE i > Len(s) \/ At(s, i) = "\"" -> i
      [] At(s, i) = "\\"               -> DoubleEnd(s, i + 2)
      [] OTHER                         -> DoubleEnd(s, i + 1)

Unescaped(s) == SelectSeq(s, LAMBDA c : c # "\\")

(* A quoted text is the word it holds, or a value that vanishes. *)
QuotedWord(inner) == IF \E i \in DOMAIN Trim(inner) : Trim(inner)[i] \in Blanks THEN <<>> ELSE inner

(* classifiedText, without the payloads: the words as the shell passes them. *)
RECURSIVE Unquoted(_)
Unquoted(s) ==
    CASE s = <<>>                         -> <<>>
      [] At(s, 1) = "\\"                  -> (IF Len(s) = 1 THEN <<>> ELSE <<s[2]>>) \o Unquoted(Rest(s, 3))
      [] At(s, 1) = "'"                   -> LET end == Find(s, 2, {"'"})
                                             IN  QuotedWord(SubSeq(s, 2, end - 1)) \o Unquoted(Rest(s, end + 1))
      [] At(s, 1) = "\""                  -> LET end == DoubleEnd(s, 2)
                                             IN  QuotedWord(Unescaped(SubSeq(s, 2, end - 1))) \o Unquoted(Rest(s, end + 1))
      [] At(s, 1) = "$" /\ At(s, 2) = "\"" -> Unquoted(Tail(s))
      [] At(s, 1) = "$" /\ At(s, 2) = "'"  -> LET end == Find(s, 3, {"'"})
                                              IN  QuotedWord(DecodeAnsiC(SubSeq(s, 3, end - 1))) \o Unquoted(Rest(s, end + 1))
      [] OTHER                            -> <<s[1]>> \o Unquoted(Tail(s))

(* interpreterPayloads: what is quoted after sh, or eval, and its flags.     *)
Payloads(s) ==
    LET quoteAt(i) ==      \* past the flags of the interpreter at i
            IF At(s, i) = "sh" /\ (i = 1 \/ At(s, i - 1) \in Blanks \cup {";", "&", "|"}) /\ At(s, i + 1) \in Blanks
            THEN IF At(s, i + 2) = "-c" /\ At(s, i + 3) \in Blanks THEN i + 4 ELSE i + 2
            ELSE 0
        held(q) == CASE At(s, q) = "'"  -> {SubSeq(s, q + 1, Find(s, q + 1, {"'"}) - 1)}
                     [] At(s, q) = "\"" -> {SubSeq(s, q + 1, DoubleEnd(s, q + 1) - 1)}
                     [] OTHER           -> {}
    IN  UNION {held(quoteAt(i)) : i \in {j \in DOMAIN s : quoteAt(j) > 0}}

(* separatorAt: the length of the separator at i; an & or | of a redirect is *)
(* none, unless the > before it was escaped.  And a mutant that knows no     *)
(* redirects.                                                                *)
SeparatorAtAny(s, i, literal) ==
    IF <<s[i], At(s, i + 1)>> \in {<<"&", "&">>, <<"|", "|">>, <<"|", "&">>} THEN 2
    ELSE IF s[i] \in {"nl", ";", "&", "|"} THEN 1 ELSE 0

SeparatorAt(s, i, literal) ==
    LET redirect == (At(s, i - 1) = ">" /\ i - 1 # literal) \/ (s[i] = "&" /\ At(s, i + 1) = ">")
    IN  IF <<s[i], At(s, i + 1)>> \in {<<"&", "&">>, <<"|", "|">>, <<"|", "&">>} THEN 2
        ELSE IF s[i] \in {"nl", ";"} \/ (s[i] \in {"&", "|"} /\ ~redirect) THEN 1 ELSE 0

(* quoteAwareSplit: cut outside quotes.  A quote opened by $ is a pair of    *)
(* characters, which no single character closes.                             *)
RECURSIVE SplitFrom(_, _, _, _, _)
SplitFrom(s, i, quote, literal, part) ==
    LET more(k) == SplitFrom(s, i + k, quote, literal, part \o SubSeq(s, i, Min({i + k - 1, Len(s)})))
        opens(q) == SplitFrom(s, i + 1, q, literal, Append(part, s[i]))
        segment == IF Trim(part) = <<>> THEN <<>> ELSE <<Trim(part)>>
    IN  CASE i > Len(s)                                   -> segment
          [] i <= Len(s) /\ quote # ""                    ->
                IF quote # "'" /\ s[i] = "\\" THEN more(2)
                ELSE IF s[i] = quote THEN opens("") ELSE more(1)
          [] i <= Len(s) /\ quote = "" /\ s[i] = "\\"     ->
                SplitFrom(s, i + 2, "", i + 1, IF At(s, i + 1) = "nl" THEN part ELSE part \o SubSeq(s, i, Min({i + 1, Len(s)})))
          [] i <= Len(s) /\ quote = "" /\ s[i] \in {"'", "\""} -> opens(s[i])
          [] i <= Len(s) /\ quote = "" /\ s[i] = "$" /\ At(s, i + 1) \in {"'", "\""} -> opens("$")
          [] OTHER                                        ->
                LET n == SeparatorAt(s, i, literal)
                IN  IF n = 0 THEN more(1) ELSE segment \o SplitFrom(s, i + n, "", literal, <<>>)

QuoteAwareSplit(s) == SplitFrom(s, 1, "", 0, <<>>)

CommandSegments(s) == Range(QuoteAwareSplit(s)) \cup UNION {Range(QuoteAwareSplit(p)) : p \in Payloads(s)}

(* commandWords: what a segment runs, every mark left in it a blank.  A text *)
(* of words is cut at its blanks; glued words are one.                       *)
RECURSIVE Cut(_)
Cut(s) == LET end == Find(s, 1, Blanks \cup {";", "|", "&", ">"})
          IN  IF s = <<>> THEN <<>>
              ELSE (IF end = 1 THEN <<>> ELSE <<SubSeq(s, 1, end - 1)>>) \o Cut(Rest(s, end + 1))

CommandWords(segment) ==
    {Cut(Unquoted(c)) : c \in {segment} \cup UNION {Range(QuoteAwareSplit(p)) : p \in Payloads(segment)}}

-----------------------------------------------------------------------------
(* The laws, over the words of one command *)

GitHooked == {"commit", "merge", "push"}

BypassToken(w, commit) == w = "--no-verify" \/ (commit /\ w = "-n")

SkipsHooksBy(ws) ==
    /\ \E i \in DOMAIN ws : ws[i] \in {<<v>> : v \in GitHooked}
    /\ \E i \in DOMAIN ws : \E w \in {"--no-verify", "-n"} :
          ws[i] = <<w>> /\ BypassToken(w, Contains(ws, <<"commit">>))

SkipsHooks(segment) == \E ws \in CommandWords(segment) : SkipsHooksBy(ws)

(* The words from i on begin with `head`. *)
Follows(ws, i, head) == IsPrefix(head, Rest(ws, i))

(* git config, then flags, then core.hooksPath and the value written there. *)
HooksPathMoved(ws) ==
    \/ \E i \in DOMAIN ws : Follows(ws, i, <<<<"-c">>, <<"core.hooksPath=">>>>)
    \/ \E i \in DOMAIN ws, k \in 0 .. 1 :
          LET flag == WordAt(ws, i + 2)
              name == i + 2 + k
              value == SelectSeq(WordAt(ws, name + 1), LAMBDA c : c \notin {"'", "\""})
          IN  /\ Follows(ws, i, <<<<"git">>, <<"config">>>>)
              /\ k = 1 => flag \in {<<"--unset">>, <<"--global">>, <<"--get">>}
              /\ WordAt(ws, name) = <<"core.hooksPath">>
              /\ \/ k = 1 /\ flag = <<"--unset">>
                 \/ value # <<>> /\ ((k = 1 /\ flag = <<"--global">>) \/ value # <<".githooks">>)

(* bypassRefusal: git is a word of it, and a segment skips the hooks or the  *)
(* whole moves them.                                                         *)
BypassRefused(s) ==
    LET texts == {Unquoted(s)} \cup Payloads(s)
        word  == UNION {{i \in DOMAIN t : t[i] = "git" /\ At(t, i + 1) \in Blanks \cup {">", "&"}} : t \in texts}
    IN  /\ word # {}
        /\ \/ \E segment \in CommandSegments(s) : SkipsHooks(segment)
           \/ \E t \in texts : HooksPathMoved(Cut(t))

(* DESTRUCTIVE: a head, and a flag next to it or anywhere after it.          *)
Row(head, flags, next) == [head |-> head, flags |-> {<<f>> : f \in flags}, next |-> next]
Rows ==
    {Row(<<<<"rm">>>>, {"-rf", "-r"}, FALSE),
     Row(<<<<"git">>, <<"reset">>>>, {"--hard"}, TRUE),
     Row(<<<<"git">>, <<"clean">>>>, {"-f"}, TRUE),
     Row(<<<<"git">>, <<"push">>>>, {"--force", "-f"}, FALSE),
     Row(<<<<"git">>, <<"commit">>>>, {"--amend"}, FALSE)}

Matches(ws, row) ==
    \E i \in DOMAIN ws :
        LET after == i + Len(row.head)
        IN  /\ Follows(ws, i, row.head)
            /\ \E j \in after .. (IF row.next THEN after ELSE Len(ws)) : WordAt(ws, j) \in row.flags

(* destructiveAs: segment by segment; a lease exempts its own. *)
Leased(segment) == LET ws == Cut(segment) IN \E i, j \in DOMAIN ws :
    i < j /\ Follows(ws, i, <<<<"git">>, <<"push">>>>) /\ ws[j] = <<"--force-with-lease">>

DestructiveAs(s) ==
    \E segment \in CommandSegments(s) :
        ~Leased(segment) /\ \E ws \in CommandWords(segment), row \in Rows : Matches(ws, row)

-----------------------------------------------------------------------------
(* The shell, external.  A command is a sequence of arguments, each its      *)
(* words, how they are quoted, and the redirect glued to it; one of no words *)
(* is a redirect alone.                                                      *)
Rendered(a) ==
    CASE a.style = "bare"      -> a.words \o a.redirect
      [] a.style = "escaped"   -> <<"\\">> \o a.words \o a.redirect
      [] a.style = "continued" -> <<"\\", "nl">> \o a.words \o a.redirect
      [] a.style \in {"'", "\""} -> <<a.style>> \o a.words \o <<a.style>> \o a.redirect
TextOf(command) == FoldLeft(LAMBDA s, a : (IF s = <<>> THEN s ELSE Append(s, " ")) \o Rendered(a), <<>>, command)

(* The arguments the shell passes: a redirect is none, a value is one.       *)
Argv(command) == SelectSeq([i \in DOMAIN command |-> command[i].words], LAMBDA words : words # <<>>)

(* A text is judged by the commands the shell runs of it, each by its own    *)
(* arguments: a separator in a quote, after a backslash or in a redirect     *)
(* cuts nothing, a quoted or glued flag is the flag, a flag in a message is  *)
(* none, a lease exempts its own push only, and what `sh -c` is given is     *)
(* judged like what is typed (tools/task-gate.mjs:79, :218, :230, :289).     *)
ReadAsRun(text, commands) ==
    LET argvs == {Argv(c) : c \in commands}
    IN  /\ BypassRefused(text) <=> \E ws \in argvs : SkipsHooksBy(ws) \/ HooksPathMoved(ws)
        /\ DestructiveAs(text) <=>
              \E ws \in argvs : ~Contains(ws, <<"--force-with-lease">>) /\ \E row \in Rows : Matches(ws, row)
=============================================================================
