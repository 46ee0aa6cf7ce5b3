------------------------------ MODULE EditHook ------------------------------
(***************************************************************************)
(* The editor's two hooks as processes (tools/zcode-plugin): the authoring *)
(* gate, whose exit 0 lets an edit through and whose exit 2 blocks it, and *)
(* the banner, which is advice and fails open.  Both look for the harness  *)
(* above a directory and judge by the law of that harness.                 *)
(***************************************************************************)
EXTENDS Naturals, Sequences, FiniteSets, FiniteSetsExt

CONSTANTS Null, Silent

(* A payload is [json, object, cwd, file_path, filePath, path]: whether it   *)
(* parses, to an object, that gives a directory, and the three names of the  *)
(* edited file, each as the kind of file it names.  `above` lists what the   *)
(* directories from that one up to the root hold, "none" or the state of a   *)
(* harness, and `own` the same for the directory the hook runs in.           *)
(* `files` maps the name of each file of the state directory to what it      *)
(* holds: [json, id, phase, refused, throws, covers, at].                    *)

Coalesce(seq) == IF \A i \in DOMAIN seq : seq[i] = Null THEN Null
                 ELSE seq[Min({i \in DOMAIN seq : seq[i] # Null})]

NamedFile(p) == Coalesce(<<p.file_path, p.filePath, p.path>>)

(* parseEditPayload: Null when the payload names no file. *)
ParseEditPayload(p) == IF p.object /\ NamedFile(p) \notin {"", "number"} THEN NamedFile(p) ELSE Null

(* findHarnessRoot, layoutAt: the nearest directory that holds a harness.    *)
FindHarnessRoot(above) ==
    LET carrying == {i \in DOMAIN above : above[i] # "none"}
    IN  IF carrying = {} THEN "none" ELSE above[Min(carrying)]

(* The harness of the payload's directory, or of the process's own.          *)
HarnessOf(p, above, own) == FindHarnessRoot(IF p.json /\ p.cwd THEN above ELSE own)

(* loadLaw: an import that throws, or that lacks an export, is a reason.     *)
LawLoads(harness) == harness \notin {"none", "unimportable", "unexporting"}

(* readRecords, and the staged gate's readTaskRecords over loadRecord: a     *)
(* file that parses, to the task that it names.                              *)
ReadRecords(files) == {f \in DOMAIN files : files[f].json /\ files[f].id = f}

ReadTaskRecords(files) ==
    LET error(f) == ~files[f].json \/ files[f].id # f
    IN  {f \in DOMAIN files : ~error(f)}

(* A mutant: a law that throws on a record is not caught. *)
StandingUncaught(harness, r) ==
    IF harness = "throwing" \/ r.throws THEN "crash"
    ELSE IF r.phase \notin {"executing", "verified", "adversarial"} THEN "none"
    ELSE IF r.refused THEN "refused" ELSE "active"

(* standingOf: "none" outside the window; a record the law throws on         *)
(* authorizes nothing.                                                       *)
StandingOf(harness, r) ==
    IF harness = "throwing" \/ r.throws THEN "refused"
    ELSE IF r.phase \notin {"executing", "verified", "adversarial"} THEN "none"
    ELSE IF r.refused THEN "refused" ELSE "active"

Standings(harness, files) == {<<f, StandingOf(harness, files[f])>> : f \in ReadRecords(files)}

Active(harness, files) == {s[1] : s \in {t \in Standings(harness, files) : t[2] = "active"}}

Crashes(harness, files) == \E s \in Standings(harness, files) : s[2] = "crash"

(* authoringDecision: "allow", "deny", or "crash" when it throws. *)
AuthoringDecision(target, harness, files) ==
    CASE target = "outside"                          -> "deny"
      [] target # "outside" /\ harness = "throwing"  -> "crash"
      [] target = "doc" /\ harness # "throwing"      -> "allow"
      [] target = "code" /\ harness # "throwing"     ->
            IF Crashes(harness, files) THEN "crash"
            ELSE IF \E f \in Active(harness, files) : files[f].covers THEN "allow" ELSE "deny"

(* authoring-gate.mjs, main and its catch: every end but an allow is exit 2. *)
GateExit(p, above, own, files) ==
    LET target  == ParseEditPayload(p)
        harness == HarnessOf(p, above, own)
    IN  IF ~p.json \/ target = Null \/ ~LawLoads(harness) THEN 2
        ELSE IF AuthoringDecision(target, harness, files) = "allow" THEN 0 ELSE 2

-----------------------------------------------------------------------------
(* The banner *)

(* doneFactsOf over doneAtOf and newerLastDone: the done records, and the    *)
(* newest of those that say when.  One record that throws costs both.        *)
Dated(files) == {f \in ReadRecords(files) : files[f].phase = "done" /\ files[f].at # Null}

DoneFacts(harness, files) ==
    IF harness = "throwing" \/ \E f \in ReadRecords(files) : files[f].throws
    THEN [count |-> 0, last |-> {}]
    ELSE [count |-> Cardinality({f \in ReadRecords(files) : files[f].phase = "done"}),
          last  |-> {f \in Dated(files) : \A g \in Dated(files) : files[g].at <= files[f].at}]

(* sitrepFacts, defaultAheadOf: the upstream's count, or else origin/main's. *)
AheadOf(git) == Coalesce(<<git.upstream, git.originMain>>)

(* sitrepLine: the facts that are there, or no line at all. *)
SitrepLine(facts, ahead) ==
    [done  |-> facts.count,
     last  |-> IF facts.count = 0 THEN {} ELSE facts.last,
     ahead |-> IF ahead \in Nat /\ ahead > 0 THEN ahead ELSE 0]

(* banner.mjs main, bannerContext, bannerLine: a line per record in the      *)
(* window, whether it says that none authorizes, and the sitrep.             *)
Banner(p, above, own, files, git) ==
    LET harness == HarnessOf(p, above, own)
    IN  IF ~LawLoads(harness) \/ Crashes(harness, files) THEN Silent
        ELSE [next   |-> Active(harness, files),
              refused |-> {s[1] : s \in {t \in Standings(harness, files) : t[2] = "refused"}},
              noTask  |-> Active(harness, files) = {},
              sitrep  |-> SitrepLine(DoneFacts(harness, files), AheadOf(git))]

-----------------------------------------------------------------------------
(* What hooks promise: "the banner and the gate never contradict each        *)
(* other", "one junk file must not block every other task", "a crash blocks, *)
(* it never passes", and readRecords "must keep exactly these records" that  *)
(* the staged gate counts.  So over one directory: a code edit passes only   *)
(* when the banner names a task that authorizes, and each such task lets its *)
(* own files through; no banner means no harness, and then no code edit; and *)
(* a file that is torn, copied or unjudgeable changes neither verdict.       *)
HooksAgree(p, above, own, files, git) ==
    LET banner  == Banner(p, above, own, files, git)
        gate    == GateExit(p, above, own, files)
        sound   == {f \in DOMAIN files : files[f].json /\ files[f].id = f /\ ~files[f].throws}
    IN  /\ ReadRecords(files) = ReadTaskRecords(files)
        /\ gate = 0 =>
              /\ p.json /\ NamedFile(p) \in {"code", "doc"}
              /\ banner # Silent
              /\ NamedFile(p) = "code" => \E f \in banner.next : files[f].covers
        /\ banner # Silent =>
              /\ banner.noTask <=> banner.next = {}
              /\ banner.next \cap banner.refused = {}
              /\ \A f \in banner.next : p.json /\ ParseEditPayload(p) = "code" /\ files[f].covers => gate = 0
              /\ \A f \in banner.sitrep.last : files[f].phase = "done" /\ banner.sitrep.done > 0
              /\ banner.sitrep.done > 0 /\ Dated(files) # {} => banner.sitrep.last # {}
        /\ gate = GateExit(p, above, own, [f \in sound |-> files[f]])
        /\ (banner = Silent) <=> ~LawLoads(HarnessOf(p, above, own))
=============================================================================
