----------------------------- MODULE Vendoring -----------------------------
(***************************************************************************)
(* A vendored tree and its manifest (tools/vendor-drift.mjs): a host holds *)
(* its corpus to the bytes that were vendored, an upstream holds no        *)
(* manifest at all.                                                        *)
(***************************************************************************)
EXTENDS Naturals, FiniteSets

CONSTANTS Absent, Null

(* `disk` maps every path of the repository to its bytes, or Absent, or      *)
(* "unreadable".  A manifest is [at, lawful, corpus, files, docs]: where it  *)
(* lies, whether its shape is lawful, the paths under the directory it names *)
(* (Null when there is no such directory), the digests of the files it       *)
(* declares, the host's docs its mapped docs name.  m = Null: there is none. *)
(* `gate` is the path of the running gate.                                   *)

-----------------------------------------------------------------------------
(* walkCorpus: every file under the directory but the manifest itself. *)
WalkCorpus(m, disk) == {p \in m.corpus : disk[p] # Absent} \ {m.at}

(* digestCorpus: a digest is the bytes it digests, Null of an unreadable one.*)
DigestOf(bytes) == IF bytes = "unreadable" THEN Null ELSE bytes

(* gateInside: the gate's own directory lies in the corpus. *)
GateInside(m, gate) == gate \in m.corpus

(* loadManifestFacts: what is read before there is a verdict. *)
FactsLoad(m) == m # Null /\ m.lawful /\ m.corpus # Null

(* corpusReasons, fileReasons, docReasons: what the verdict refuses on.      *)
CorpusReasons(m, found) == found \ DOMAIN m.files
FileReasons(m, found, disk) == {p \in DOMAIN m.files : p \notin found \/ DigestOf(disk[p]) # m.files[p]}
DocReasons(m, disk) == {d \in m.docs : disk[d] = Absent}

(* driftVerdict, over scopeReason and the three laws; runHost. *)
Drifted(m, disk, gate) ==
    \/ ~GateInside(m, gate)
    \/ CorpusReasons(m, WalkCorpus(m, disk)) # {}
    \/ FileReasons(m, WalkCorpus(m, disk), disk) # {}
    \/ DocReasons(m, disk) # {}

HostPasses(m, disk, gate) == FactsLoad(m) /\ ~Drifted(m, disk, gate)

(* sweepOwnTree, runUpstream: no manifest at the default path, tracked or    *)
(* not, and none that is tracked anywhere in the tree the gate ships in.     *)
UpstreamPasses(swept, manifests, default) ==
    swept /\ ~\E m \in manifests : m.at = default \/ m.tracked

(* The process: a --freshness without its path answers nothing, a path goes  *)
(* before --upstream.                                                        *)
Mode(flags, path) ==
    CASE "--freshness" \in flags /\ path = "" -> "refused"
      [] path # ""                            -> "freshness"
      [] "--upstream" \in flags               -> "upstream"
      [] OTHER                                -> "host"

-----------------------------------------------------------------------------
(* A host that passes holds, byte for byte, what its manifest recorded under *)
(* the directory the gate runs from, and nothing else: no local edit, no     *)
(* deletion, no file added or moved in, no corpus narrowed away from the     *)
(* gate.  And no tree passes as host and as upstream both, unless its        *)
(* manifest is neither tracked nor at the default path                       *)
(* (tools/vendor-drift.mjs:176, :764).                                       *)
HostIsAsVendored(m, vendored, disk, gate, default) ==
    HostPasses(m, disk, gate) =>
        /\ gate \in m.corpus /\ disk[gate] = vendored[gate]
        /\ \A p \in m.corpus \ {m.at} : disk[p] = vendored[p]
        /\ UpstreamPasses(TRUE, {m}, default) => m.at # default /\ ~m.tracked
=============================================================================
