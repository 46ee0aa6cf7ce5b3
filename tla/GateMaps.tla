------------------------------ MODULE GateMaps ------------------------------
(***************************************************************************)
(* The files the static gates are told by: what each loader takes as a     *)
(* lawful file, the census of sources under gates (tools/gate-coverage.mjs)*)
(* and the register of process debt (tools/debt-gate.mjs).  A gate that    *)
(* reads less than was written passes for the wrong reason.                *)
(***************************************************************************)
EXTENDS Naturals, Sequences, FiniteSets, FiniteSetsExt

-----------------------------------------------------------------------------
(* A file is [state, fields, twice]: each field the author wrote as "good",  *)
(* "empty", "wrong", under a "misspelt" key, or left "absent"; `twice` when  *)
(* two entries bear one name.  A field stands in its parent's entries.       *)
Must(parent, names) == {[field |-> n, parent |-> parent, must |-> TRUE, empty |-> FALSE] : n \in names}
May(parent, names)  == {[r EXCEPT !.must = FALSE] : r \in Must(parent, names)}
OrEmpty(rows)       == {[r EXCEPT !.empty = TRUE] : r \in rows}
Schema(closed, once, rows) == [closed |-> closed, once |-> once, orNone |-> FALSE, rows |-> rows]

CoverageMap == Schema(TRUE, TRUE,
    Must("top", {"gates"}) \cup Must("gates", {"name", "sees", "spec"}) \cup May("gates", {"exclude"})
    \cup OrEmpty(May("top", {"exempt"})) \cup Must("exempt", {"exempt.spec", "exempt.why"}))
GuardsRegistry == Schema(TRUE, TRUE,
    Must("top", {"guards"}) \cup Must("guards", {"name", "script", "probe", "why", "content"})
    \cup OrEmpty(May("guards", {"args"})) \cup May("guards", {"expect"})
    \cup OrEmpty(May("top", {"notRegistered"})) \cup Must("notRegistered", {"absent.name", "absent.reason"}))
GateRegistry == Schema(FALSE, TRUE,
    Must("top", {"gates"}) \cup Must("gates", {"id", "invocation", "transports"}) \cup May("gates", {"advisory"}))
ReaderContracts == Schema(FALSE, FALSE,
    Must("top", {"contracts", "roots"}) \cup Must("contracts", {"path", "symbol"})
    \cup OrEmpty(May("top", {"exclude"})) \cup OrEmpty(Must("exclude", {"exclude.spec"})) \cup Must("exclude", {"exclude.why"})
    \cup OrEmpty(Must("top", {"accepted"})) \cup Must("accepted", {"reason"}))
RemoteConfig == Schema(FALSE, FALSE, Must("top", {"walk"}) \cup May("top", {"minScripts", "minDispatchers"}))
ComplexityConfig == Schema(FALSE, FALSE,
    Must("top", {"threshold", "includes", "excludes"}) \cup OrEmpty(Must("top", {"testGlobs"})))
ComplexityBaseline == [Schema(FALSE, FALSE,
    OrEmpty(Must("top", {"functions"})) \cup OrEmpty(Must("functions", {"file", "name"})) \cup Must("functions", {"complexity"}))
    EXCEPT !.orNone = TRUE]
ClaimsRegistry == Schema(FALSE, FALSE,
    Must("top", {"claims", "extensions"}) \cup Must("claims", {"id", "doc", "anchor", "why", "evidence"})
    \cup OrEmpty(Must("top", {"ignore"})) \cup Must("ignore", {"ignore.glob", "ignore.why"}))
VendorManifest == Schema(FALSE, FALSE,
    Must("top", {"schema", "upstream", "vendored", "files"})
    \cup Must("files", {"source", "adapted"}) \cup OrEmpty(Must("files", {"sha256"}))
    \cup OrEmpty(May("top", {"docs"})) \cup Must("docs", {"docs.host"}))

Schemas == {CoverageMap, GuardsRegistry, GateRegistry, ReaderContracts, RemoteConfig,
            ComplexityConfig, ComplexityBaseline, ClaimsRegistry, VendorManifest}
FieldsOf(schema) == {r.field : r \in schema.rows}

(* The rows that a loader comes to. *)
Reached(schema, f) == {r \in schema.rows : r.parent = "top" \/ f.fields[r.parent] = "good"}

(* A mutant: a key the loader does not know is passed over. *)
LawfulFieldOpen(schema, r, value) ==
    value = "good" \/ (value = "empty" /\ r.empty) \/ (value \in {"absent", "misspelt"} /\ ~r.must)

LawfulField(schema, r, value) ==
    \/ value = "good"
    \/ value = "empty" /\ r.empty
    \/ value = "absent" /\ ~r.must
    \/ value = "misspelt" /\ ~r.must /\ ~schema.closed

Loads(schema, f) ==
    \/ f.state = "missing" /\ schema.orNone
    \/ /\ f.state = "object"
       /\ \A r \in Reached(schema, f) : LawfulField(schema, r, f.fields[r.field])
       /\ schema.once => ~f.twice

(* What a loader that accepts a file takes from it is what was written: only *)
(* the optional keys of the loaders that pass over unknown ones may be lost  *)
(* to a misspelling (tools/gate-coverage.mjs:101, tools/guard-reach.mjs:134).*)
LoadedAsWritten(schema, f) ==
    Loads(schema, f) /\ f.state # "missing" =>
        \A r \in Reached(schema, f) :
            f.fields[r.field] # "absent" /\ (schema.closed \/ r.must) =>
                f.fields[r.field] = "good" \/ (r.empty /\ f.fields[r.field] = "empty")

-----------------------------------------------------------------------------
(* gate-coverage.  A path is [js, code, config, generated]; an entry of the  *)
(* map names paths: a gate [spec, exclude, misspelt], an exemption           *)
(* [spec, why].  `misspelt` is an exclusion under a key that is not known.   *)
IsSource(p) == p.js \/ (p.code /\ ~p.config)
TrackedSources(paths) == {p \in paths : IsSource(p) /\ ~p.generated}

MapLoads(map) ==
    map.gates # <<>> /\ (\A g \in Range(map.gates) : g.spec # {} /\ g.misspelt = {})
    /\ \A e \in Range(map.exempt) : e.spec # {} /\ e.why

GatesThatSee(map, p) == {i \in DOMAIN map.gates : p \in map.gates[i].spec /\ p \notin map.gates[i].exclude}
Exempted(map, p)     == \E e \in Range(map.exempt) : p \in e.spec

Census(map, paths) ==
    LET files == TrackedSources(paths)
    IN  [orphans |-> {p \in files : ~Exempted(map, p) /\ GatesThatSee(map, p) = {}},
         dead |-> {i \in DOMAIN map.gates :
                     ~\E p \in files : ~Exempted(map, p) /\ GatesThatSee(map, p) # {} /\ i = Min(GatesThatSee(map, p))}]

CensusGreen(map, paths) == MapLoads(map) /\ Census(map, paths).orphans = {}

(* A green census: whatever the fence judges and is no gate's own file stands*)
(* under a gate that means to see it, or under a stated exemption; and a gate*)
(* that is silent about being dead is the only one to see something, or is   *)
(* ahead of the others (tools/gate-coverage.mjs:171).                        *)
SourcesAreSeen(map, paths) ==
    CensusGreen(map, paths) =>
        /\ \A p \in paths : (p.code \/ p.js) /\ ~p.generated /\ ~(p.config /\ ~p.js) =>
            \/ \E e \in Range(map.exempt) : p \in e.spec /\ e.why
            \/ \E g \in Range(map.gates) : p \in g.spec \ (g.exclude \cup g.misspelt)
        /\ \A i \in DOMAIN map.gates \ Census(map, paths).dead :
            \E p \in TrackedSources(paths) : p \in map.gates[i].spec \ map.gates[i].exclude

-----------------------------------------------------------------------------
(* debt-gate.  A line is a sequence of tokens: words, pipes, escaped pipes   *)
(* ("\\|").  A row is what its author means: [id, item, due, status].        *)
Candidate(line) == {"|", "\\|"} \cap Range(line) # {} /\ {"PD", "**PD**"} \cap Range(line) # {}

(* Where the cells of a line end: at each pipe that is not escaped, and at   *)
(* the end.  A pipe that opens the line opens no cell.                       *)
Text(line)      == IF line # <<>> /\ Head(line) = "|" THEN Tail(line) ELSE line
Cuts(text)      == {0, Len(text) + 1} \cup {i \in DOMAIN text : text[i] = "|"}
Before(text, i) == Max({j \in Cuts(text) : j < i})
Cell(text, i)   == SubSeq(text, Before(text, i) + 1, i - 1)

(* An empty last cell is what follows a pipe that closes the line. *)
LastCut(text) ==
    LET end == Len(text) + 1
    IN  IF Cell(text, end) = <<>> THEN Before(text, end) ELSE end

Statuses == {"OPEN", "SHIPPED", "DROPPED"}

(* parseRow: the status, or Unparsed; the cells are read by position. *)
Unparsed == "unparsed"
ParseRow(line) ==
    LET text == Text(line)
        last == LastCut(text)
    IN  IF /\ last # 0 /\ Before(text, last) # 0
           /\ Cell(text, Min(Cuts(text) \ {0})) = <<"PD">>
           /\ Cell(text, Before(text, last)) = <<"next">>
           /\ Cell(text, last) # <<>> /\ Head(Cell(text, last)) \in Statuses
        THEN Head(Cell(text, last)) ELSE Unparsed

(* parseRegister: the statuses of the rows, or a defect (no rows). *)
ParseRegister(baseline, lines) ==
    LET rows == {i \in DOMAIN lines : Candidate(lines[i])}
    IN  IF ~baseline \/ \E i \in rows : ParseRow(lines[i]) = Unparsed THEN <<>>
        ELSE [i \in rows |-> ParseRow(lines[i])]

(* overdueRows, runGate: commit `budget` of the budget is inside it. *)
Overdue(status, budget, since) == status = "OPEN" /\ since > budget
DebtGreen(baseline, lines, budget, since) ==
    LET rows == ParseRegister(baseline, lines)
    IN  DOMAIN rows # {} /\ \A i \in DOMAIN rows : ~Overdue(rows[i], budget, since)

(* GFM, external: a row in a table may stand without its outer pipes, and a  *)
(* pipe that is cell text is escaped.                                        *)
RowText(row, outer) ==
    LET body == row.id \o <<"|">> \o row.item \o <<"|">> \o row.due \o <<"|">> \o row.status
    IN  IF outer THEN <<"|">> \o body \o <<"|">> ELSE body

(* A row that is open and past its budget is never read as anything else,    *)
(* whatever its other cells say and however it is laid out                   *)
(* (tools/debt-gate.mjs:71).                                                 *)
DebtIsRead(baseline, rows, outer, budget, since) ==
    DebtGreen(baseline, [i \in DOMAIN rows |-> RowText(rows[i], outer)], budget, since) =>
        /\ since <= budget \/ \A i \in DOMAIN rows : Head(rows[i].status) # "OPEN"
        /\ \A i \in DOMAIN rows : Head(rows[i].status) \in Statuses
=============================================================================
