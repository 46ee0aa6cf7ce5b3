----------------------------- MODULE Judgements -----------------------------
(***************************************************************************)
(* The judgements that are functions of one input: what an input may be,   *)
(* of any size, and what each judgement promises of it.  MCJudgements and  *)
(* MCTools enumerate small inputs; Judgements_proofs is for every input.   *)
(***************************************************************************)
EXTENDS Naturals, Sequences, FiniteSets

CONSTANTS
    Null, Silent, NoFooter, Absent,
    Dangling,       \* a link that names no file
    Flags,          \* the options a gate may be given
    Roots,          \* directories of the fence's surface, and files of it
    SurfaceFiles

VARIABLES input     \* <<kind, ...>>

Shell   == INSTANCE HookShell
Editor  == INSTANCE EditHook
Message == INSTANCE CommitMessage
Wired   == INSTANCE Wiring
Read    == INSTANCE Readers
Pin     == INSTANCE PinRuns
Scan     == INSTANCE Scans
Docs     == INSTANCE DocClaims
Vendored == INSTANCE Vendoring
Map      == INSTANCE GateMaps
Glob     == INSTANCE ScopeGlob

-----------------------------------------------------------------------------
(* Payloads, task records, registers, the runs of a pin. *)
PathNames  == {"", "number", "code", "doc", "outside"}
AnyPayload == [json : BOOLEAN, object : BOOLEAN, cwd : BOOLEAN,
               file_path : PathNames \cup {Null}, filePath : PathNames \cup {Null}, path : PathNames \cup {Null}]
AnyTask    == [json : BOOLEAN, id : STRING, phase : STRING, refused : BOOLEAN, throws : BOOLEAN,
               covers : BOOLEAN, at : Nat \cup {Null}]
AnyFinding == [id : STRING, status : STRING, high : BOOLEAN, proof : BOOLEAN, old : BOOLEAN,
               evidence : SUBSET {"live", "dead"}, why : BOOLEAN]
AnyRegister == [json : BOOLEAN, schema : BOOLEAN, task : STRING,
                marker : {"set", "null", "missing", "wrong"}, findings : Seq(AnyFinding)]
AnyBanner  == [next : SUBSET STRING, refused : SUBSET STRING, noTask : BOOLEAN,
               sitrep : [done : Nat, last : SUBSET STRING, ahead : Nat]]

Paragraphs == {"text", "comment", "scissors", "diff"}
Marks      == {"holds", "fails", "crashes", "hangs", "malformed"}

AnyScriptLine == [cmd : STRING, form : Shell!Form, column0 : BOOLEAN, flips : BOOLEAN, continues : BOOLEAN]
AnyCommand == [script : STRING, args : Seq(STRING), join : {"&&", ";"}]
AnyEntry   == [dispatches : BOOLEAN, resolves : BOOLEAN, matches : SUBSET STRING]
AnyLine    == [kind : {"lane", "text", "section"}, n : Nat]

AnySource == LET Stored == Seq(Nat) \cup {Absent}
             IN  [head : Stored, index : Stored, added : Stored, disk : Stored \cup {Dangling}]
AnyContract == [file : STRING, symbol : STRING, members : SUBSET STRING]
AnyFile   == [grammar : {"js", "hash", "none"}, docs : BOOLEAN, listed : BOOLEAN, disk : BOOLEAN,
              code : Nat, comment : Nat]
AnyEvidence(paths) == [kind : STRING, at : paths \cup {Null}, want : Nat, hollow : BOOLEAN, ignore : SUBSET STRING]
AnyClaim(paths)    == [anchored : BOOLEAN, scoped : BOOLEAN, stamp : STRING, evidence : Seq(AnyEvidence(paths))]
AnyPath   == [n : Nat, js : BOOLEAN, code : BOOLEAN, config : BOOLEAN, generated : BOOLEAN]
AnyGate   == [spec : SUBSET AnyPath, exclude : SUBSET AnyPath, misspelt : SUBSET AnyPath]
AnyRow    == [id : {<<"PD">>, <<"**PD**">>}, item : Seq(STRING), due : Seq(STRING), status : Seq(STRING)]

(* Of a name and of a segment of a glob, no character is a separator.        *)
AnyName   == Seq(STRING \ {"/"})

(* A directory of the surface is named by one name or by two.                *)
RootsAreShallow == \A root \in Roots : root \in Seq(AnyName) /\ Len(root) \in 1..2
ASSUME RootsAssumption == RootsAreShallow

(* Null and Silent are values of the program that are none of the others. *)
NothingIsNoValue ==
    /\ Null \notin AnyRegister \cup PathNames \cup Nat
    /\ \A output \in SUBSET Marks : Null # output /\ \A e \in 0..1 : Null # [exitCode |-> e, output |-> output]
    /\ Silent \notin AnyBanner
ASSUME JudgementsAssumption == NothingIsNoValue

IsDirectory(files, File) ==
    /\ DOMAIN files \subseteq STRING /\ IsFiniteSet(DOMAIN files)
    /\ \A f \in DOMAIN files : files[f] \in File

(* A scissors line of an earlier editor is there only under --verbose. *)
IsMessage(tail, c) ==
    /\ tail \in Seq(Paragraphs)
    /\ c \in [editor : BOOLEAN, verbose : BOOLEAN, kept : BOOLEAN, cleanup : STRING]
    /\ (\E i \in DOMAIN tail : tail[i] = "scissors") => c.verbose

(* A script runs its gate once, whole on a line of its own.  A branch starts *)
(* and ends where a command can start, holds no other branch, and what it    *)
(* holds is indented: that an unindented `set -e` in a dead branch counts is *)
(* the readers' stated residual (tools/task-coverage.mjs:190).               *)
IsScript(script) ==
    /\ script \in Seq(AnyScriptLine)
    /\ \A i, j \in DOMAIN script : script[i].cmd = "gate" /\ script[j].cmd = "gate" => i = j
    /\ \A i \in DOMAIN script : script[i].cmd = "gate" =>
            /\ ~script[i].flips /\ ~script[i].continues
            /\ Shell!Probe(script[i].form) => script[i].form.tail = "" /\ ~script[i].form.chain
    /\ \A i \in DOMAIN script :
            /\ script[i].cmd \in {"if false", "fi"} => Shell!CarriedBefore(script, i) = "none"
            /\ script[i].cmd \in {"if false", "fi"} => (script[i].cmd = "fi" <=> Shell!InBranch(script, i))
            /\ script[i].cmd = "if false" => \E k \in i..Len(script) : script[k].cmd = "fi"
            /\ script[i].cmd = "set -e" /\ Shell!InBranch(script, i) => ~script[i].column0

(* An entry of the index that jj or `git add -N` adds has no staged content. *)
IsSource(s) == s \in AnySource /\ (s.added # Absent => s.index = Absent)

(* A file whose comments no grammar reads and that is no doc has none (JSON). *)
IsTree(tree) ==
    IsDirectory(tree, AnyFile) /\ \A p \in DOMAIN tree : tree[p].grammar = "none" /\ ~tree[p].docs => tree[p].comment = 0

(* A manifest that lies beside the gate records what was vendored. *)
IsManifest(m, vendored) ==
    m # Null /\ m.corpus # Null =>
        /\ m.at # "gate" /\ \A p \in DOMAIN m.files : m.files[p] # Null
        /\ \A p \in m.corpus \ {m.at} : vendored[p] = IF p \in DOMAIN m.files THEN m.files[p] ELSE Absent

(* What a note after a pipe in the status cell says is no status. *)
IsDebtRow(row) ==
    /\ row \in AnyRow /\ row.status # <<>>
    /\ \A i \in DOMAIN row.status : row.status[i] = "|" =>
            i = Len(row.status) \/ row.status[i + 1] \notin Map!Statuses

IsInput ==
    CASE input[1] = "hook"      -> IsScript(input[2])
      [] input[1] = "scope"     -> input[2] \in Seq(AnyName) \ {<<>>} /\ input[3] \subseteq Seq(AnyName)
      [] input[1] = "edit"      -> input[2] \in AnyPayload /\ IsDirectory(input[5], AnyTask)
      [] input[1] = "message"   -> IsMessage(input[2], input[3])
      [] input[1] = "battery"   -> input[2] \in Seq(AnyCommand)
      [] input[1] = "plugin"    -> input[2].pre \in Seq(AnyEntry)
      [] input[1] = "clone"     -> input[2].checklist \in Seq(AnyLine)
      [] input[1] = "register"  -> input[2] \in STRING /\ input[3] \in AnyRegister \cup {Null}
      [] input[1] = "directory" -> IsDirectory(input[2], AnyRegister \cup {Null}) /\ input[3] \in DOMAIN input[2]
      [] input[1] = "pin"       -> /\ input[2] \in SUBSET Marks \cup {Null} /\ input[3] \in BOOLEAN
                                   /\ input[5] \in Pin!Outcomes /\ \A i \in 1..2 : input[6][i] \in Pin!Outcomes
      [] input[1] = "source"    -> IsSource(input[2]) /\ input[3] \in Seq(Nat)
      [] input[1] = "corpus"    -> input[2] \in Seq(AnyContract)
      [] input[1] = "claims"    -> IsTree(input[2]) /\ input[3] \in Seq(AnyClaim(DOMAIN input[2]))
      [] input[1] = "host"      -> IsManifest(input[2], input[3])
      [] input[1] = "map"       -> input[2].gates \in Seq(AnyGate)
      [] input[1] = "debt"      -> /\ input[3] \in BOOLEAN /\ input[4] \in Nat /\ input[5] \in Nat
                                   /\ \A i \in DOMAIN input[2] : IsDebtRow(input[2][i])
      [] OTHER                  -> TRUE

(* An input is judged as it is. *)
Judging == IsInput /\ [][FALSE]_input

-----------------------------------------------------------------------------
(* HookShell, Wiring: what the registry and the doctor certify is what runs. *)
(* A hook either of them passes stops when its gate refuses, if the shell    *)
(* runs the gate: that neither judges whether it gets there, nor the doctor  *)
(* whether the line starts a command, are HookShell's named exclusions.      *)
CertifiedWiringRuns ==
    CASE input[1] = "hook"    -> /\ Shell!CertifiedHookBlocks(input[2])
                                 /\ \A on \in BOOLEAN : Shell!CarriedGateDecides(input[2], on)
      [] input[1] = "wire"    -> Wired!TransportWired(input[2], input[3], input[4], input[5])
      [] input[1] = "battery" -> Wired!BatteryDecides(input[2], input[3])
      [] input[1] = "plugin"  -> Wired!EditsAreGated(input[2])
      [] input[1] = "clone"   -> Wired!CertifiedIsEnforced(input[2], input[3])
      [] OTHER                -> TRUE

(* HookShell: the doctor certifies no hook whose gate is mentioned by the    *)
(* data of another command only, as its comment says (task-coverage.mjs:160).*)
CertifiedGateIsACommand == input[1] = "hook" => Shell!EchoWiresNothing(input[2])

(* ScopeGlob: a scope pattern that matches fence surface needs the tier. *)
ScopedSurfaceIsTiered == input[1] = "scope" => Glob!ScopedSurfaceIsTiered(input[2], input[3])

(* CommitMessage, EditHook: the footer that the hook reads is the one that   *)
(* git commits, and the two hooks of an editor agree.                        *)
HooksReadAlike ==
    CASE input[1] = "message" -> Message!HookReadsWhatIsCommitted("T", input[2], input[3])
      [] input[1] = "edit"    -> Editor!HooksAgree(input[2], input[3], input[4], input[5], input[6])
      [] OTHER                -> TRUE

(* Readers, PinRuns: what a task's files record is what each reader of them  *)
(* takes, and a pin's runs show what the pin says.                           *)
RecordsReadTrue ==
    CASE input[1] = "register"  -> Read!RegisterReadAlike(input[2], input[3])
      [] input[1] = "directory" -> Read!LessonsReachThePass(input[2], input[3])
      [] input[1] = "record"    -> Read!RecordReadAlike(input[2], input[3])
      [] input[1] = "pin"       -> Pin!RedThenGreen(input[2], input[3], input[4], input[5], input[6])
      [] OTHER                  -> TRUE

(* Scans, DocClaims, Vendoring: what passes means what its pass is read to   *)
(* mean, of the tree as it is.                                               *)
PassedScansHold ==
    CASE input[1] = "source"   -> Scan!GreenWhateverIsCommitted(input[2], input[3], input[4])
      [] input[1] = "upstream" -> Scan!FreshIsUnmoved(input[2], input[3])
      [] input[1] = "corpus"   -> Scan!DeadWiringIsAccepted(input[2], input[3], Scan!Findings(input[2], input[3]))
      [] input[1] = "claims"   -> Docs!GreenIsBound(input[2], input[3], input[4])
      [] input[1] = "host"     -> Vendored!HostIsAsVendored(input[2], input[3], input[4], "gate", "m")
      [] OTHER                 -> TRUE

(* GateMaps: the files that tell a gate what to judge are read as written.   *)
GatesReadTheirMaps ==
    CASE input[1] = "file" -> Map!LoadedAsWritten(input[2], input[3])
      [] input[1] = "map"  -> Map!SourcesAreSeen(input[2], input[3])
      [] input[1] = "debt" -> Map!DebtIsRead(TRUE, input[2], input[3], input[4], input[5])
      [] OTHER             -> TRUE
=============================================================================
