------------------------------- MODULE ScopeGlob -------------------------------
(***************************************************************************)
(* The two glob dialects a scope pattern is read in.  The scope law        *)
(* (tools/task-coverage.mjs) matches a path segment by segment; the tier   *)
(* law (tools/task-state.mjs) asks tools/pathspec.mjs whether the pattern  *)
(* reaches the fence's own surface.  A path is a sequence of names, a name *)
(* a sequence of characters; a pattern is a sequence of globs, a glob a    *)
(* sequence of characters, "*" and "?" among them.                         *)
(*                                                                         *)
(* A match is read from the end: from[n] is where, in what is matched, the *)
(* last n pieces of the pattern can take over and take all that is left.   *)
(***************************************************************************)
EXTENDS Naturals, Sequences, SequencesExt

CONSTANTS
    Roots,        \* FENCE_SURFACE.roots: paths of one name or of two
    SurfaceFiles  \* FENCE_SURFACE.files: names of files at the repository's root

DoubleStar == <<"*", "*">>

-----------------------------------------------------------------------------
(* One name against one glob: what the two regular expressions have in common. *)
NameMatches(glob, name) ==
    LET from[n \in 0..Len(glob)] ==
            IF n = 0 THEN {Len(name)}
            ELSE LET c    == glob[Len(glob) - n + 1]
                     rest == from[n - 1]
                 IN  IF c = "*" THEN {k \in 0..Len(name) : \E m \in rest : k <= m}
                     ELSE {k \in 0..Len(name) : k + 1 \in rest /\ c \in {"?", name[k + 1]}}
    IN  0 \in from[Len(glob)]

(* segmentsMatch: a glob that is `**` swallows any number of names. *)
SegmentsMatch(pattern, path) ==
    LET from[n \in 0..Len(pattern)] ==
            IF n = 0 THEN {Len(path)}
            ELSE LET glob == pattern[Len(pattern) - n + 1]
                     rest == from[n - 1]
                 IN  IF glob = DoubleStar THEN {k \in 0..Len(path) : \E m \in rest : k <= m}
                     ELSE {k \in 0..Len(path) : k + 1 \in rest /\ NameMatches(glob, path[k + 1])}
    IN  0 \in from[Len(pattern)]

(* globRefusal, on a well-formed pattern: its first segment names a tree. *)
GlobLawful(pattern) == \E i \in DOMAIN Head(pattern) : Head(pattern)[i] \notin {"*", "?"}

(* pathInScope over the patterns scopeCoverageRefusal admits. *)
PathInScope(path, patterns) ==
    \E p \in patterns : GlobLawful(p) /\ SegmentsMatch(p, path)

-----------------------------------------------------------------------------
(* pathspec.  It reads the joined text: a `**` inside a segment crosses      *)
(* separators, and one that ends the pattern covers the directory itself.    *)
Joined(segments) ==
    FoldLeft(LAMBDA text, s : IF text = <<>> THEN s ELSE text \o <<"/">> \o s, <<>>, segments)

At(text, i) == IF i \in DOMAIN text THEN text[i] ELSE ""

(* globToRegExp: the token that starts at i, and what of a text it takes:    *)
(* the characters after k, up to m.                                          *)
TokenLength(glob, i) ==
    IF glob[i] = "*" /\ At(glob, i + 1) = "*" THEN IF At(glob, i + 2) = "/" THEN 3 ELSE 2 ELSE 1

Takes(glob, i, text, k, m) ==
    CASE TokenLength(glob, i) = 3 ->      \* whole segments, none of them empty
            \/ k = m
            \/ k < m /\ text[m] = "/" /\ \A j \in (k + 1)..m : text[j] = "/" => j > k + 1 /\ text[j - 1] # "/"
      [] TokenLength(glob, i) = 2 -> k <= m
      [] TokenLength(glob, i) = 1 /\ glob[i] = "*" -> k <= m /\ \A j \in (k + 1)..m : text[j] # "/"
      [] OTHER -> m = k + 1 /\ (glob[i] = text[m] \/ (glob[i] = "?" /\ text[m] # "/"))

TextMatches(glob, text) ==
    LET from[n \in 0..Len(glob)] ==
            IF n = 0 THEN {Len(text)}
            ELSE LET i    == Len(glob) - n + 1
                     rest == from[n - TokenLength(glob, i)]
                 IN  {k \in 0..Len(text) : \E m \in rest : Takes(glob, i, text, k, m)}
    IN  0 \in from[Len(glob)]

(* matches, for a string spec. *)
Matches(text, spec) ==
    \/ /\ IsSuffix(<<"/", "*", "*">>, spec)
       /\ IsPrefix(SubSeq(spec, 1, Len(spec) - 2), Append(text, "/"))
    \/ TextMatches(spec, text)

-----------------------------------------------------------------------------
(* Does a pattern reach the fence's surface?                                 *)

Segment(pattern, i) == IF i \in DOMAIN pattern THEN pattern[i] ELSE <<>>

(* A mutant: one trailing `**`, before tails were stacked. *)
SurfaceFileReachedOneTail(name, pattern) ==
    Matches(name, Segment(pattern, 1)) /\ Tail(pattern) \in {<<>>, <<DoubleStar>>}

(* surfaceFileReached: `name/**/**` covers the file, `**` swallowing nothing. *)
SurfaceFileReached(name, pattern) ==
    /\ Matches(name, Segment(pattern, 1))
    /\ \A i \in 2..Len(pattern) : pattern[i] = DoubleStar

(* rootReachesPattern, its laws that read no directory. *)
RootReachesPattern(root, pattern) ==
    \/ Len(root) > 1 /\ \A i \in DOMAIN root : Matches(root[i], Segment(pattern, i))
    \/ Len(root) = 1 /\ Matches(root[1], Segment(pattern, 1))
    \/ Matches(Joined(root), Joined(pattern))

(* rootTouchesPattern: what the directory held when it was walked. *)
RootTouchesPattern(onDisk, pattern) == \E path \in onDisk : Matches(Joined(path), Joined(pattern))

CoversFenceSurface(pattern, onDisk) ==
    \/ <<Head(pattern)>> \in Roots
    \/ \E name \in SurfaceFiles : SurfaceFileReached(name, pattern)
    \/ \E root \in Roots : RootReachesPattern(root, pattern)
    \/ RootTouchesPattern(onDisk, pattern)

(* fenceSurfacePath, of a root's file or of a surface file. *)
FenceSurfacePath(path) ==
    \/ Len(path) = 1 /\ path[1] \in SurfaceFiles
    \/ \E root \in Roots : Len(path) > Len(root) /\ IsPrefix(root, path)

-----------------------------------------------------------------------------
(* The two dialects agree where it matters: a pattern that puts a fence's    *)
(* file in scope is one the tier law sees, whatever is on disk.              *)
ScopedSurfaceIsTiered(pattern, paths) ==
    \A path \in paths :
        FenceSurfacePath(path) /\ PathInScope(path, {pattern}) => CoversFenceSurface(pattern, {})
=============================================================================
