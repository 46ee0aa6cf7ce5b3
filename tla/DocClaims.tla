----------------------------- MODULE DocClaims -----------------------------
(***************************************************************************)
(* Sentences of the docs held to the code (tools/doc-reconcile.mjs).  A    *)
(* claim anchors a sentence and carries evidence: that a symbol is, or is  *)
(* absent, or is counted, in one file or across the corpus.  One symbol is *)
(* enough: a file says how often it is in code and how often in comments.  *)
(***************************************************************************)
EXTENDS Naturals, Sequences, FiniteSets, Functions

CONSTANTS Null

(* A tree maps paths to [grammar, docs, listed, code, comment, disk]: the    *)
(* grammar its comments are read by ("js", "hash", or "none" for prose and   *)
(* JSON), whether it lies under docs/ or is prose, whether its extension is  *)
(* a declared one, and whether the tracked file is on disk.                  *)
(* An evidence is [kind, at, want, hollow, ignore]: the path its spelling    *)
(* resolves to (Null: none in the repository), a count, whether its pattern  *)
(* matches everything or is blank, and the files its count leaves out.       *)
(* A claim is [anchored, scoped, stamp, evidence]: whether its doc holds the *)
(* anchor, whether the anchor speaks of the whole repository, and the stamp  *)
(* of its justification ("none", "renewed", "stale").                        *)

-----------------------------------------------------------------------------
(* maskComments, corpusText: how often the symbol is in what is read.        *)
CorpusText(file) == IF file.grammar = "none" THEN file.code + file.comment ELSE file.code

(* readCorpus: tracked files of a declared extension that no glob leaves     *)
(* out, or an error when one of them is not on disk.                         *)
CorpusFiles(tree, ignored) == {p \in DOMAIN tree : tree[p].listed} \ ignored
ReadCorpus(tree, ignored) ==
    LET files    == CorpusFiles(tree, ignored)
        vanished == {p \in files : ~tree[p].disk}
    IN  [error |-> vanished # {}, files |-> files]

(* countAcross, checkRepoCount *)
CountAcross(tree, files) == Cardinality(UNION {{p} \X (1..CorpusText(tree[p])) : p \in files})
CheckRepoCount(tree, corpus, e) == CountAcross(tree, corpus \ e.ignore) = e.want

(* IN_FILE_CHECKS, checkInFile: a kind that is not known holds of nothing.   *)
CheckInFile(e, file) ==
    CASE e.kind \in {"symbol", "grep"} -> CorpusText(file) > 0
      [] e.kind = "absent"             -> CorpusText(file) = 0
      [] e.kind = "count"              -> CorpusText(file) = e.want
      [] OTHER                         -> FALSE

(* repoPath, evidencePathIsCode, readTreeFile, checkEvidence: judged by the  *)
(* file that is read, not by its spelling.                                   *)
CheckEvidence(tree, corpus, e) ==
    IF e.kind = "repo-count" THEN CheckRepoCount(tree, corpus, e)
    ELSE e.at # Null /\ ~tree[e.at].docs /\ tree[e.at].disk /\ CheckInFile(e, tree[e.at])

(* checkAnchor, checkScopeBinding, checkJustification *)
AnchorHolds(claim)    == claim.anchored
ScopeBound(claim)     == claim.scoped => \E e \in Range(claim.evidence) : e.kind = "repo-count"
JustificationStands(claim) == claim.stamp = "renewed"

(* claimShapeError, isMalformedEvidence, specIsMalformed, fileSpecIsHollow,  *)
(* ignoreIsMalformed: a claim that could not fail is refused.                *)
MalformedEvidence(e) == e.hollow \/ (e.ignore # {} /\ e.kind # "repo-count")
ClaimShapely(claim)  == claim.evidence # <<>> /\ ~\E e \in Range(claim.evidence) : MalformedEvidence(e)

Counts(claims) == \E c \in Range(claims) : \E e \in Range(c.evidence) : e.kind = "repo-count"

(* loadRegistry, loadGate: the corpus is read only when a claim counts it.   *)
GateLoads(tree, claims, ignored) ==
    /\ claims # <<>> /\ \A c \in Range(claims) : ClaimShapely(c)
    /\ Counts(claims) => ~ReadCorpus(tree, ignored).error

(* collectFailures: none. *)
ClaimHolds(tree, corpus, c) ==
    /\ AnchorHolds(c) /\ ScopeBound(c) /\ JustificationStands(c)
    /\ \A e \in Range(c.evidence) : CheckEvidence(tree, corpus, e)

(* main *)
GateGreen(tree, claims, ignored) ==
    GateLoads(tree, claims, ignored)
    /\ \A c \in Range(claims) : ClaimHolds(tree, ReadCorpus(tree, ignored).files, c)

(* describeCorpus, exclusionLines: the carve-outs a run prints, by claim.    *)
Printed(claims, ignored) == ignored \cup UNION {UNION {e.ignore : e \in Range(c.evidence)} : c \in Range(claims)}

-----------------------------------------------------------------------------
(* What a green gate says: a sentence about the whole repository would fail  *)
(* on one more use in any file of a declared extension that no printed       *)
(* carve-out names; one about a file is proved by its code, whatever its     *)
(* comments say and whatever the docs say; and some code would refute it,    *)
(* unless the printed carve-outs leave no file to count                      *)
(* (tools/doc-reconcile.mjs:242, :310, :379).                                *)
Used(tree, p, n) == [tree EXCEPT ![p].code = n]

GreenIsBound(tree, claims, ignored) ==
    GateGreen(tree, claims, ignored) =>
        \A c \in Range(claims) :
            LET green(t) == GateGreen(t, <<c>>, ignored)
            IN  /\ c.scoped => \A p \in {q \in DOMAIN tree : tree[q].listed} \ Printed(<<c>>, ignored) :
                        ~green(Used(tree, p, tree[p].code + 1))
                /\ ~Counts(<<c>>) =>
                        green([p \in DOMAIN tree |-> IF tree[p].docs THEN [tree[p] EXCEPT !.code = 0, !.comment = 0]
                                                     ELSE [tree[p] EXCEPT !.comment = IF tree[p].grammar = "none" THEN @ ELSE 0]])
                /\ \/ \E p \in DOMAIN tree, n \in 0..3 : ~green(Used(tree, p, n))
                   \/ {p \in DOMAIN tree : tree[p].listed} \subseteq Printed(<<c>>, ignored)
=============================================================================
