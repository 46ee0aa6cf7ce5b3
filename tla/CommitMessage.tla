--------------------------- MODULE CommitMessage ---------------------------
(***************************************************************************)
(* The footer that binds a commit to a task (tools/task-coverage.mjs):     *)
(* the commit-msg hook reads the message before git cleans it, the fence   *)
(* and the next clone read what git committed.                             *)
(***************************************************************************)
EXTENDS Naturals, Sequences, SequencesExt

CONSTANTS NoFooter

(* A message is the id its `task:` footer cites, or NoFooter, and the      *)
(* paragraphs after that footer: "text", "comment" (a '#' line), "scissors", *)
(* "diff".  A cleanup is the paragraphs, by position, that it leaves.        *)
CutAtScissors(tail) == {i \in DOMAIN tail : \A j \in 1..i : tail[j] # "scissors"}

CleanCommitMessage(tail) == {i \in CutAtScissors(tail) : tail[i] # "comment"}

(* A mutant: the message is stripped whoever wrote it. *)
GitCleanupModeAlways(editorUsed, cleanup) == "strip"

GitCleanupMode(editorUsed, cleanup) ==
    IF cleanup = "strip" \/ (cleanup = "default" /\ editorUsed) THEN "strip"
    ELSE IF cleanup = "scissors" /\ editorUsed THEN "scissors" ELSE "raw"

Cleaned(tail, mode) ==
    CASE mode = "strip"    -> CleanCommitMessage(tail)
      [] mode = "scissors" -> CutAtScissors(tail)
      [] mode = "raw"      -> DOMAIN tail

(* taskFooterOf: only in the final paragraph. *)
TaskFooterOf(msg, mode) == IF Cleaned(msg.tail, mode) = {} THEN msg.cites ELSE NoFooter

-----------------------------------------------------------------------------
(* git, external: the buffer the hook sees, and the message it commits.      *)
(* `c` says how it was composed: [editor, verbose, cleanup, kept], where     *)
(* `kept` is whether the writer left git's help in the editor.               *)
Template(c) ==
    IF ~c.editor THEN <<>>
    ELSE (IF c.cleanup = "scissors" THEN <<"scissors", "comment">>
          ELSE IF c.kept THEN <<"comment">> ELSE <<>>)
         \o (IF c.verbose /\ c.cleanup # "scissors" THEN <<"scissors">> ELSE <<>>)
         \o (IF c.verbose THEN <<"diff">> ELSE <<>>)

Buffer(cites, tail, c) == [cites |-> cites, tail |-> tail \o Template(c)]

StripsComments(c) == c.cleanup = "strip" \/ (c.cleanup = "default" /\ c.editor)

CommittedTail(tail, c) ==
    LET cut == IF c.verbose \/ (c.cleanup = "scissors" /\ c.editor) THEN CutAtScissors(tail) ELSE DOMAIN tail
    IN  IF StripsComments(c) THEN {i \in cut : tail[i] # "comment"} ELSE cut

(* A footer the commit-msg hook reads is the footer of the commit git makes,  *)
(* and under the cleanups that drop git's own help none is missed: the hook   *)
(* and the fence judge the same task.  The message of a refused commit ends   *)
(* at an editor's scissors; re-run from the file git saved, it is read right  *)
(* under the `strip` the printed fix names                                    *)
(* (tools/task-coverage.mjs:1107, :1120, :365).                               *)
HookReadsWhatIsCommitted(cites, tail, c) ==
    LET buffer    == Buffer(cites, tail, c)
        hook      == TaskFooterOf(buffer, GitCleanupMode(c.editor, c.cleanup))
        committed == IF CommittedTail(buffer.tail, c) = {} THEN cites ELSE NoFooter
    IN  /\ hook # NoFooter => hook = committed
        /\ c.cleanup = "strip" \/ (c.cleanup \in {"default", "scissors"} /\ ~Contains(tail, "scissors"))
            => hook = committed
=============================================================================
