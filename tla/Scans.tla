------------------------------- MODULE Scans -------------------------------
(***************************************************************************)
(* Three scans that pass or refuse a tree: the complexity ratchet          *)
(* (tools/complexity-gate.mjs), the freshness of a vendored corpus         *)
(* (tools/vendor-drift.mjs --freshness) and the dead-wiring sweep          *)
(* (tools/reader-existence.mjs).  Each is a function of what it reads.     *)
(***************************************************************************)
EXTENDS Naturals, Sequences, SequencesExt, FiniteSets

CONSTANTS
    Absent,         \* no file at a path
    Dangling        \* a link that names no file

-----------------------------------------------------------------------------
(* complexity-gate.  A source has functions of one name; its content is the  *)
(* complexities over the threshold, highest first.  A source stands in HEAD, *)
(* in the index, in jj's working-copy commit (git: an intent-to-add entry)   *)
(* and on disk: [head, index, added, disk].  `rows` are its baseline rows.   *)
Regular(content) == content \notin {Absent, Dangling}

IndexLists(s)   == s.index # Absent \/ s.added # Absent
Listed(s)       == IndexLists(s) \/ s.disk # Absent
StagedChange(s) == s.index # s.head

(* listedOnDisk, as trackedFiles splits and refuses. *)
StagedMissing(s) == Listed(s) /\ ~Regular(s.disk) /\ StagedChange(s)
Skipped(s)       == Listed(s) /\ ~Regular(s.disk) /\ ~StagedChange(s)

(* refuseMissingSources *)
MissingSourceHeld(s, rows) == Skipped(s) /\ rows # <<>> /\ IndexLists(s)

ScanRefuses(s, rows) == StagedMissing(s) \/ MissingSourceHeld(s, rows)

Over(content) == IF Regular(content) THEN content ELSE <<>>

(* judge, without an error: no stale row, no two functions under one name,   *)
(* none risen, none born over the threshold that no test names.              *)
Judged(over, rows, mentioned) ==
    /\ over = <<>> => rows = <<>>
    /\ Len(over) <= 1
    /\ over # <<>> => IF rows = <<>> THEN mentioned ELSE over[1] <= Last(rows)

ComplexityGreen(s, rows, mentioned) ==
    ~ScanRefuses(s, rows) /\ Judged(Over(s.disk), rows, mentioned)

(* The rows --update-baseline leaves. *)
UpdatedRows(s, rows) == IF ScanRefuses(s, rows) THEN rows ELSE Over(s.disk)

(* git and jj, external: what a commit of this tree may hold.  A source that *)
(* is there is committed as it was judged; one that is not stays as the      *)
(* index has it, goes (-a), or stays with jj's sparse patterns.              *)
CommittedContents(s) ==
    IF Regular(s.disk) THEN {s.disk}
    ELSE {s.index, Absent} \cup
         (IF IndexLists(s) THEN {IF s.added # Absent THEN s.added ELSE s.head} ELSE {})

(* What the gate passes, or --update-baseline records, is green in a clean   *)
(* clone of whatever commit is made of it: a source missing from disk can    *)
(* neither lose the ceilings of a copy the commit keeps nor keep those of    *)
(* one it drops (tools/complexity-gate.mjs:211).                             *)
GreenWhateverIsCommitted(s, rows, mentioned) ==
    Judged(Over(IF s.added # Absent THEN s.added ELSE s.head), rows, mentioned) =>
        \A content \in CommittedContents(s) :
            /\ ComplexityGreen(s, rows, mentioned) => Judged(Over(content), rows, mentioned)
            /\ (~ScanRefuses(s, rows) /\ Len(Over(s.disk)) <= 1) =>
                    Judged(Over(content), UpdatedRows(s, rows), mentioned)

-----------------------------------------------------------------------------
(* vendor-drift --freshness.  Upstream's history is a sequence of trees; the *)
(* clone's HEAD is one of them or a local commit on one, and its two fetched *)
(* tips may not resolve (0).  c = [trees, pin, head, local, tips].           *)
PinTree(c)  == c.trees[c.pin]
HeadTree(c) == IF c.local = Absent THEN c.trees[c.head] ELSE c.local

(* The objects the clone holds; merge-base --is-ancestor. *)
KnowsPin(c)      == \E i \in Range(c.tips) \cup {c.head} : c.pin <= i
PinIsAncestor(c) == c.pin <= c.head
BehindPin(c)     == ~PinIsAncestor(c)

(* refuseBehindFetched: the first tip that resolves decides. *)
FetchedTip(c)    == IF c.tips[1] # 0 THEN c.tips[1] ELSE c.tips[2]
BehindFetched(c) == FetchedTip(c) > c.head

(* A mutant: git's rename detection lists a renamed path by its new name. *)
ChangedByRenames(c) ==
    {p \in DOMAIN PinTree(c) :
        /\ PinTree(c)[p] # HeadTree(c)[p]
        /\ ~(HeadTree(c)[p] = Absent /\ \E q \in DOMAIN PinTree(c) :
                PinTree(c)[q] = Absent /\ HeadTree(c)[q] = PinTree(c)[p])}

(* readUpstreamSincePin *)
Changed(c) == {p \in DOMAIN PinTree(c) : PinTree(c)[p] # HeadTree(c)[p]}
AtPin(c)   == {p \in DOMAIN PinTree(c) : PinTree(c)[p] # Absent}

(* freshnessVerdict: FRESH or FRESH FOR THIS WAVE; runFreshness refuses first.*)
FreshnessVerdict(c, sources) == sources \subseteq AtPin(c) /\ sources \cap Changed(c) = {}

ReadsFresh(c, sources) ==
    KnowsPin(c) /\ ~BehindPin(c) /\ ~BehindFetched(c) /\ FreshnessVerdict(c, sources)

NewestTree(c) == c.trees[IF FetchedTip(c) > c.head THEN FetchedTip(c) ELSE c.head]

(* A corpus reads fresh only when every source it names is, at the newest    *)
(* upstream tree the clone has fetched, the file that was vendored: not      *)
(* renamed, not changed in commits fetched and never fast-forwarded to, not  *)
(* read from a HEAD older than the pin (tools/vendor-drift.mjs:847, :893).   *)
FreshIsUnmoved(c, sources) ==
    ReadsFresh(c, sources) =>
        \A p \in sources :
            /\ PinTree(c)[p] # Absent /\ HeadTree(c)[p] = PinTree(c)[p]
            /\ c.local = Absent => NewestTree(c)[p] = PinTree(c)[p]

-----------------------------------------------------------------------------
(* reader-existence.  A line is [file, declares, uses, roles, test]: the     *)
(* union it is part of the declaration of, a member it names in what roles,  *)
(* and whether it is test code.  A contract is [file, symbol, members].      *)

(* testCodeRanges, markDeclarationDead.  The dead lines of a file are kept   *)
(* across contracts, so an earlier contract's declaration is dead for the    *)
(* ones after it.                                                            *)
DeadLines(contracts, n, corpus) ==
    {l \in corpus : l.test \/ \E i \in 1..n :
        l.file = contracts[i].file /\ l.declares = contracts[i].symbol}

RolesOf(lines, member) == UNION {l.roles : l \in {k \in lines : k.uses = member}}

MemberVerdict(roles) ==
    CASE roles = {}                                       -> "DEAD"
      [] roles = {"CONSUMER"}                             -> "NO_PRODUCER"
      [] roles = {"PRODUCER"}                             -> "NO_CONSUMER"
      [] OTHER                                            -> "wired"

(* sweep: the findings of each contract in turn. *)
Sweep(contracts, corpus) ==
    UNION {{<<contracts[n].symbol, m, MemberVerdict(RolesOf(corpus \ DeadLines(contracts, n, corpus), m))>> :
            m \in contracts[n].members} : n \in DOMAIN contracts}

Findings(contracts, corpus) == {f \in Sweep(contracts, corpus) : f[3] # "wired"}

(* baselineVerdict: no finding new, no row stale, no verdict drifted. *)
BaselineGreen(accepted, findings) == accepted = findings

(* What a sweep of one contract alone would say. *)
Alone(contract, m, corpus) ==
    MemberVerdict(RolesOf({l \in corpus : ~l.test /\
        (l.file = contract.file => l.declares # contract.symbol)}, m))

(* A green sweep has an accepted row for every member that lacks a producer  *)
(* or a consumer: cutting other declarations, in whatever order the          *)
(* contracts come, adds findings and silences none                           *)
(* (tools/reader-existence.mjs:630, :735).                                   *)
DeadWiringIsAccepted(contracts, corpus, accepted) ==
    BaselineGreen(accepted, Findings(contracts, corpus)) =>
        \A n \in DOMAIN contracts : \A m \in contracts[n].members :
            Alone(contracts[n], m, corpus) # "wired" => \E v \in {"DEAD", "NO_PRODUCER", "NO_CONSUMER"} :
                <<contracts[n].symbol, m, v>> \in accepted
=============================================================================
