--------------------------- MODULE AtomicUpdates ---------------------------
(***************************************************************************)
(* What mutateJson promises its callers: a JSON file is a log that grows   *)
(* by one whole update at a time, and a caller that was told its update    *)
(* was written can rely on finding it there.  Nothing is said of locks,    *)
(* temporary files or retries: LockFile is shown to implement this.        *)
(***************************************************************************)
EXTENDS Sequences

CONSTANT Procs          \* the tool invocations that may update the file

VARIABLES log,          \* the updates in the file, each named by its writer
          acked         \* the writers that were told "written"

vars == <<log, acked>>

Logged(p, s) == \E i \in DOMAIN s : s[i] = p

Init == log = <<>> /\ acked = {}

Apply(p) ==
    /\ ~Logged(p, log)
    /\ log' = Append(log, p)
    /\ UNCHANGED acked

Acknowledge(p) ==
    /\ Logged(p, log)
    /\ acked' = acked \cup {p}
    /\ UNCHANGED log

Next == \E p \in Procs : Apply(p) \/ Acknowledge(p)

Spec == Init /\ [][Next]_vars
============================================================================
