----------------------------- MODULE MemberUses -----------------------------
(***************************************************************************)
(* How reader-existence reads the uses of a union's member: the members a  *)
(* contract declares, the lines of the declaration, the role of each other *)
(* line that names the member (tools/reader-existence.mjs:174-285).        *)
(***************************************************************************)
EXTENDS Naturals, Integers, Sequences, FiniteSets, FiniteSetsExt, SequencesExt

(* A line is a sequence of tokens.  "X" is the member's literal, "K" the key *)
(* of an object union, "Y" another literal; `.has(` and its like are one.    *)
Equals     == {"===", "!==", "==", "!="}
Predicates == {".has(", ".includes(", ".some("}

At(line, i) == IF i \in DOMAIN line THEN line[i] ELSE ""
Bracketed(line, i, j) == \A k \in i..j : line[k] \notin {"[", "]"}

-----------------------------------------------------------------------------
(* consumerShapes: the spans of a line that read the member. *)
ComparedAt(line, i)  == line[i] = "X" /\ (At(line, i - 1) \in Equals \/ At(line, i + 1) \in {"===", "!=="})
LabelAt(line, i)     == line[i] = "X" /\ At(line, i - 1) = "case"
ArgumentAt(line, i)  == line[i] = "X" /\ At(line, i - 1) \in Predicates
InlineFrom(line, i, j) ==
    /\ line[i] = "[" /\ line[j] = "]" /\ Bracketed(line, i + 1, j - 1)
    /\ \E k \in (i + 1)..(j - 1) : line[k] = "X" /\ At(line, k - 1) \in {"[", ","} /\ At(line, k + 1) \in {",", "]"}
    /\ At(line, IF At(line, j + 1) = ")" THEN j + 2 ELSE j + 1) \in Predicates

Read(line) ==
    {i \in DOMAIN line : ComparedAt(line, i) \/ LabelAt(line, i) \/ ArgumentAt(line, i)}
    \cup UNION {i..j : <<i, j>> \in {s \in (DOMAIN line) \X (DOMAIN line) : s[1] < s[2] /\ InlineFrom(line, s[1], s[2])}}

ConsumerRoles(line) == IF Read(line) = {} THEN {} ELSE {"CONSUMER"}

(* A mutant: what a return reads counts as supplied. *)
ProducerRolesRead(line) ==
    IF \/ \E i, j \in DOMAIN line : i < j /\ line[i] = "return" /\ line[j] = "X"
       \/ \E i \in DOMAIN line : line[i] = "X" /\ At(line, i - 1) \in {":", ".push(", "="}
       \/ \E i \in DOMAIN line : line[i] = "X" /\ At(line, i - 1) = "," /\ At(line, i - 2) = "...B"
    THEN {"PRODUCER"} ELSE {}

(* producerRoles: a return and a spread supply what they do not read. *)
ProducerRoles(line) ==
    LET unread == {i \in DOMAIN line \ Read(line) : line[i] = "X"}
    IN  IF \/ \E i \in DOMAIN line, j \in unread : i < j /\ line[i] = "return"
           \/ \E i \in DOMAIN line : line[i] = "X" /\ At(line, i - 1) \in {":", ".push(", "="}
           \/ \E i \in unread : At(line, i - 1) = "," /\ At(line, i - 2) = "...B"
        THEN {"PRODUCER"} ELSE {}

ClassifyLine(line, inPredicate) ==
    LET roles == ConsumerRoles(line) \cup ProducerRoles(line)
    IN  CASE roles # {}                 -> roles
          [] roles = {} /\ inPredicate  -> {"CONSUMER"}
          [] OTHER                      -> {"AMBIGUOUS"}

-----------------------------------------------------------------------------
(* closingBracketLine: on the declaration's own line, at the line's end, or  *)
(* at the head of a later one; 0 when there is none.                         *)
ClosingBracketLine(lines, from) ==
    LET ends(line)   == \E n \in 0..2 : At(line, Len(line) - n) = "]" /\ \A k \in 0..(n - 1) : line[Len(line) - k] \in {")", ";"}
        closes(line) == At(line, 1) = "]" \/ (At(line, 1) = ")" /\ At(line, 2) = "]")
        later        == {j \in DOMAIN lines : j > from /\ closes(lines[j])}
    IN  CASE ends(lines[from])                  -> from
          [] ~ends(lines[from]) /\ later # {}   -> Min(later)
          [] OTHER                              -> 0

(* predicateArrayRanges: of the sets that a predicate is called on. *)
PredicateArrayRanges(lines) ==
    LET declared(i) == At(lines[i], 1) = "const" /\ "[" \in Range(lines[i])
        tested(g)   == \E j \in DOMAIN lines, k \in 1..8 : At(lines[j], k) = g /\ At(lines[j], k + 1) \in Predicates
    IN  UNION {i..ClosingBracketLine(lines, i) :
                i \in {k \in DOMAIN lines : declared(k) /\ tested(lines[k][2]) /\ ClosingBracketLine(lines, k) # 0}}

(* unionMembers: the literals from the bracket to the first that closes it;  *)
(* declarationRange: the lines they stand on.                                *)
Opens(lines) == {i \in DOMAIN lines : At(lines[i], 1) = "export const S ="}
DeclarationRange(lines) ==
    LET from == Min(Opens(lines))
    IN  IF Opens(lines) = {} THEN {}
        ELSE from..Min({j \in DOMAIN lines : j >= from /\ {"]", "}"} \cap Range(lines[j]) # {}})
UnionMembers(lines) ==
    {t \in UNION {Range(lines[i]) : i \in DeclarationRange(lines)} : t \in {"X", "Y"}}
Aliased(lines) == \E i \in DeclarationRange(lines) : "K" \in Range(lines[i])

(* countRoles: the roles of the lines of one file, but the dead ones.        *)
RolesAt(lines, i) ==
    CASE Aliased(lines) /\ "S.K" \in Range(lines[i]) -> {"PRODUCER", "CONSUMER"}
      [] ~(Aliased(lines) /\ "S.K" \in Range(lines[i])) /\ "X" \in Range(lines[i]) ->
            ClassifyLine(lines[i], i \in PredicateArrayRanges(lines))
      [] OTHER -> {}
CountRoles(lines, dead) == UNION {RolesAt(lines, i) : i \in DOMAIN lines \ (DeclarationRange(lines) \cup dead)}

(* memberVerdict: whether there is a finding. *)
Finding(roles) == "AMBIGUOUS" \notin roles /\ ~({"PRODUCER", "CONSUMER"} \subseteq roles)

-----------------------------------------------------------------------------
(* A line as its author meant it: clauses that read the member, or supply it.*)
Reads    == {<<"m", "===", "X">>, <<"X", "!==", "m">>, <<"m", ".includes(", "X", ")">>,
             <<"[", "X", ",", "Y", "]", ".includes(", "m", ")">>, <<"[", "...B", ",", "X", "]", ".some(", "f", ")">>,
             <<"(", "[", "Y", ",", "X", "]", ")", ".has(", "m", ")">>}
Supplies == {<<"k", ":", "X">>, <<"a", ".push(", "X", ")">>, <<"m", "=", "X">>, <<"[", "...B", ",", "X", "]">>}
Neither  == {<<"f(", "X", ")">>, <<"m">>}

LineOf(returns, a, b) == (IF returns THEN <<"return">> ELSE <<>>) \o a \o <<"&&">> \o b
Returned == {<<"X">>, <<"[", "X", ",", "Y", "]">>}

Meant(returns, a, b) ==
    (IF a \in Reads \/ b \in Reads THEN {"CONSUMER"} ELSE {})
    \cup (IF a \in Supplies \/ b \in Supplies \/ (returns /\ {a, b} \cap Returned # {}) THEN {"PRODUCER"} ELSE {})

(* A union, a guard set that is tested or only iterated, and one more line.  *)
Unions == {<<<<"export const S =", "[", "X", ",", "Y", "]">>>>,
           <<<<"export const S =", "[">>, <<"X", ",">>, <<"Y">>, <<"]", ";">>>>,
           <<<<"export const S =", "{", "K", ":", "X", "}">>>>}
Guards == {<<>>, <<<<"const", "G", "=", "[", "X", "]", ";">>>>, <<<<"const", "G", "=", "new Set(", "[", "X", "]", ")", ";">>>>,
           <<<<"const", "G", "=", "[">>, <<"X", ",">>, <<"]", ";">>>>,
           <<<<"const", "G", "=", "new Set(", "[">>, <<"Y", ",">>, <<"X">>, <<"]", ")", ";">>>>}
Uses   == {<<>>, <<<<"G", ".has(", "m", ")">>>>, <<<<"of", "G">>>>}

(* A member is found wired by lines that do what their author meant: each    *)
(* line has the roles it was written with, a guard set reads its members when*)
(* a predicate is called on it and otherwise silences the member, the union's*)
(* own lines have none; and a finding is of a member that is in truth not    *)
(* both supplied and read (tools/reader-existence.mjs:224, :265, :657).      *)
ClassifiedAsMeant(union, guard, use, returns, a, b) ==
    LET source == union \o guard \o use \o <<LineOf(returns, a, b)>>
        tested == guard # <<>> /\ use = <<<<"G", ".has(", "m", ")">>>>
        meant  == Meant(returns, a, b)
        guards == CASE guard = <<>> -> {} [] guard # <<>> /\ tested -> {"CONSUMER"} [] OTHER -> {"AMBIGUOUS"}
    IN  /\ UnionMembers(source) = {"X"} \cup (IF "K" \in Range(union[1]) THEN {} ELSE {"Y"})
        /\ DeclarationRange(source) = DOMAIN union
        /\ RolesAt(source, Len(source)) \ {"AMBIGUOUS"} = meant
        /\ CountRoles(source, {Len(source)}) = guards
        /\ Finding(CountRoles(source, {})) => ~({"PRODUCER", "CONSUMER"} \subseteq meant \cup guards)
=============================================================================
