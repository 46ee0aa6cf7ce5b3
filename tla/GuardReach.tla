----------------------------- MODULE GuardReach -----------------------------
(***************************************************************************)
(* guard-reach (tools/guard-reach.mjs): a run takes the checkout's lock,   *)
(* plants a probe of its own, runs a guard without and with it, and        *)
(* records the reach it observed in the modes ratchet.  Runs overlap, are  *)
(* killed and signalled at any point; the guard and the ratchet file are   *)
(* edited meanwhile.  One registered guard stands for all: each is probed  *)
(* by itself.                                                              *)
(***************************************************************************)
EXTENDS FiniteSets, Naturals

CONSTANTS
    Runs,           \* runs of the tool, each with a pid of its own
    MaxChanges      \* bound on edits of the guard and of the ratchet file

(* A pid is no word of the protocol. *)
PidsAreNumbers == Runs \cap {"nobody", "none", "empty"} = {}

ASSUME ReachAssumption == PidsAreNumbers

(* What the guard walks: the disk, the index, neither; or it crashes on a   *)
(* file it does not expect.                                                 *)
Sights == {"disk", "index", "none", "crash"}

(* The guard's row of docs/gates/guard-reach-modes.json. *)
RecordedModes == {"none", "disk", "index"}

VARIABLES
    lock,       \* the lock file: [by, text], or NoLock
    step,       \* run -> where it is
    tries,      \* run -> failed attempts to lock
    probes,     \* the runs whose probe lies in the checkout
    seen,       \* run -> the mode it observed, or "none"
    sight,      \* what the guard sees now
    modes,      \* the ratchet file: one of RecordedModes, or "unreadable"
    changes,    \* edits so far
    recorded,   \* history: the entry that stood at first, or that a run wrote last
    replaced,   \* history: a hand or git has put another entry in its place since
    takenOver   \* history: a run removed a lock that was not the dead run's

reachVars == <<lock, step, tries, probes, seen, sight, modes, changes, recorded, replaced, takenOver>>

NoLock == [by |-> "nobody", text |-> "none"]

Outside == {"idle", "create", "pid", "read", "remove", "sweep", "over", "dead"}
Inside  == {"baseline", "plant", "unstaged", "staged", "judge", "record", "exit"}

Go(r, s) == step' = [step EXCEPT ![r] = s]

(* releaseLock: only while it names this run. *)
Released(r) == IF lock.text = r THEN NoLock ELSE lock

-----------------------------------------------------------------------------
(* A mutant: a lock without a pid is a corpse's. *)
HolderAliveUnlessEmpty(text) == text \in Runs /\ step[text] # "dead"

(* holderAlive: an empty lock is held. *)
HolderAlive(text) == text \in Runs => step[text] # "dead"

ReachInit ==
    /\ lock = NoLock /\ probes = {} /\ changes = 0 /\ takenOver = FALSE
    /\ step = [r \in Runs |-> "idle"] /\ tries = [r \in Runs |-> 0]
    /\ seen = [r \in Runs |-> "none"]
    /\ sight \in Sights /\ modes \in RecordedModes /\ recorded = modes /\ replaced = FALSE

(* acquireLock: the exclusive create, and its pid written after it. *)
Create(r) ==
    /\ step[r] \in {"idle", "create"}
    /\ IF lock = NoLock THEN lock' = [by |-> r, text |-> "empty"] /\ Go(r, "pid")
                        ELSE UNCHANGED lock /\ Go(r, "read")
    /\ UNCHANGED <<tries, probes, seen, sight, modes, changes, recorded, replaced, takenOver>>

WritePid(r) ==
    /\ step[r] = "pid"
    /\ lock' = IF lock.by = r THEN [lock EXCEPT !.text = r] ELSE lock
    /\ Go(r, "baseline")
    /\ UNCHANGED <<tries, probes, seen, sight, modes, changes, recorded, replaced, takenOver>>

Again(r) ==
    /\ tries' = [tries EXCEPT ![r] = @ + 1]
    /\ Go(r, IF tries[r] = 0 THEN "create" ELSE "over")

ReadHolder(r) ==
    /\ step[r] = "read"
    /\ \/ lock = NoLock /\ Again(r)
       \/ lock # NoLock /\ Go(r, IF HolderAlive(lock.text) THEN "over" ELSE "remove") /\ UNCHANGED tries
    /\ UNCHANGED <<lock, probes, seen, sight, modes, changes, recorded, replaced, takenOver>>

(* The stale lock is removed by its path, whoever holds it by now. *)
RemoveStale(r) ==
    /\ step[r] = "remove"
    /\ lock' = NoLock /\ Go(r, "sweep")
    /\ takenOver' = (takenOver \/ (lock # NoLock /\ HolderAlive(lock.text)))
    /\ UNCHANGED <<tries, probes, seen, sight, modes, changes, recorded, replaced>>

SweepResidue(r) ==
    /\ step[r] = "sweep"
    /\ probes' = {} /\ Again(r)
    /\ UNCHANGED <<lock, seen, sight, modes, changes, recorded, replaced, takenOver>>

-----------------------------------------------------------------------------
(* checkReach: the outcome of each run of the guard.  Every exit of it       *)
(* removes the run's probe; anything but REACHABLE fails the run.            *)
Outcome(r, s, mode) ==
    /\ Go(r, s)
    /\ seen' = [seen EXCEPT ![r] = mode]
    /\ probes' = probes \ {r}

Baseline(r) ==
    /\ step[r] = "baseline"
    /\ IF sight = "disk" /\ probes # {} THEN Outcome(r, "exit", "none")
       ELSE Go(r, "plant") /\ UNCHANGED <<seen, probes>>
    /\ UNCHANGED <<lock, tries, sight, modes, changes, recorded, replaced, takenOver>>

Plant(r) ==
    /\ step[r] = "plant"
    /\ probes' = probes \cup {r} /\ Go(r, "unstaged")
    /\ UNCHANGED <<lock, tries, seen, sight, modes, changes, recorded, replaced, takenOver>>

(* classify: the failure must name this run's probe, and not be a crash. *)
Unstaged(r) ==
    /\ step[r] = "unstaged"
    /\ IF sight = "disk" /\ probes # {}
       THEN IF r \in probes THEN Outcome(r, "judge", "disk") ELSE Outcome(r, "exit", "none")
       ELSE IF sight = "crash" THEN Outcome(r, "exit", "none")
       ELSE Go(r, "staged") /\ UNCHANGED <<seen, probes>>
    /\ UNCHANGED <<lock, tries, sight, modes, changes, recorded, replaced, takenOver>>

(* stagedEnv throws when the probe was swept meanwhile. *)
Staged(r) ==
    /\ step[r] = "staged"
    /\ IF r \in probes /\ sight \in {"disk", "index"} THEN Outcome(r, "judge", "index")
       ELSE Outcome(r, "exit", "none")
    /\ UNCHANGED <<lock, tries, sight, modes, changes, recorded, replaced, takenOver>>

(* A mutant: an unreadable ratchet reads as no history. *)
RatchetRefusesReadable(mode) == modes = "disk" /\ mode = "index"

(* readRecordedModes, downgradesOf. *)
RatchetRefuses(mode) == modes = "unreadable" \/ (modes = "disk" /\ mode = "index")

Judge(r) ==
    /\ step[r] = "judge"
    /\ Go(r, IF RatchetRefuses(seen[r]) THEN "exit" ELSE "record")
    /\ UNCHANGED <<lock, tries, probes, seen, sight, modes, changes, recorded, replaced, takenOver>>

(* The file in the working tree is written, if it can be: in a read-only     *)
(* checkout the run passes without.                                          *)
Record(r) ==
    /\ step[r] = "record" /\ Go(r, "exit")
    /\ \/ modes' = seen[r] /\ recorded' = seen[r] /\ replaced' = FALSE
       \/ UNCHANGED <<modes, recorded, replaced>>
    /\ UNCHANGED <<lock, tries, probes, seen, sight, changes, takenOver>>

Exit(r) ==
    /\ step[r] = "exit"
    /\ lock' = Released(r) /\ Go(r, "over")
    /\ UNCHANGED <<tries, probes, seen, sight, modes, changes, recorded, replaced, takenOver>>

(* SIGKILL leaves everything, a file it was writing cut short included;      *)
(* SIGINT and SIGTERM clean up, then exit.                                   *)
Killed(r) ==
    /\ step[r] \notin {"idle", "over", "dead"}
    /\ Go(r, "dead")
    /\ \/ UNCHANGED <<lock, probes, modes>>
       \/ step[r] = "record" /\ modes' = "unreadable" /\ UNCHANGED <<lock, probes>>
       \/ step[r] # "pid" /\ lock' = Released(r) /\ probes' = probes \ {r} /\ UNCHANGED modes
    /\ UNCHANGED <<tries, seen, sight, changes, recorded, replaced, takenOver>>

(* The guard is edited.  Or the ratchet file is: damaged, narrowed by hand,  *)
(* or checked out from git, which may hold any entry of the guard - what a   *)
(* run records is committed later, or never.                                 *)
EditGuard ==
    /\ changes < MaxChanges /\ changes' = changes + 1
    /\ \/ sight' \in Sights \ {sight} /\ UNCHANGED <<modes, replaced>>
       \/ /\ modes' \in (RecordedModes \cup {"unreadable"}) \ {modes}
          /\ replaced' = (replaced \/ modes' \notin {recorded, "unreadable"})
          /\ UNCHANGED sight
    /\ UNCHANGED <<lock, step, tries, probes, seen, recorded, takenOver>>

ReachNext ==
    \/ EditGuard
    \/ \E r \in Runs :
        \/ Create(r) \/ WritePid(r) \/ ReadHolder(r) \/ RemoveStale(r) \/ SweepResidue(r)
        \/ Baseline(r) \/ Plant(r) \/ Unstaged(r) \/ Staged(r)
        \/ Judge(r) \/ Record(r) \/ Exit(r) \/ Killed(r)

ReachSpec == ReachInit /\ [][ReachNext]_reachVars

-----------------------------------------------------------------------------
(* At most one run is inside a checkout's corpora - whatever is killed when  *)
(* - unless two runs took over the same dead run's lock and the slower one   *)
(* removed the faster one's (tools/guard-reach.mjs:236, :250).               *)
OneRunPerCheckout ==
    takenOver \/ Cardinality({r \in Runs : step[r] \in Inside}) <= 1

(* A guard that was recorded as walking the disk is not recorded next as     *)
(* walking the index only, through damage of the ratchet file and its repair *)
(* with the same entry, edits of the guard and runs that die on the way      *)
(* (tools/guard-reach.mjs:923, :950).  Outside it: somebody put a different  *)
(* entry in the file - a deliberate narrowing (:957), or the printed         *)
(* `git checkout` (:918) of a commit older than the record.                  *)
RatchetNeverNarrows ==
    [][takenOver' \/ replaced \/ ~(recorded = "disk" /\ recorded' = "index")]_reachVars
=============================================================================
