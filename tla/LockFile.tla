------------------------------ MODULE LockFile ------------------------------
(***************************************************************************)
(* tools/task-findings.mjs: withLock, acquireLock, atomicWriteJson and     *)
(* mutateJson -- the one seam through which every task record and every    *)
(* findings register is written.                                           *)
(*                                                                         *)
(* A process is one invocation of a tool that updates one shared JSON file *)
(* once.  The file system is modelled with inodes: open("w") truncates the *)
(* inode a name points at (or makes a new one), rename moves the name, and *)
(* a process that opened a file goes on writing to the inode it opened.    *)
(* Each process creates at most one inode, which bears its name.           *)
(*                                                                         *)
(* Time appears only as the age of the lockfile: `stale` says its mtime is *)
(* more than 60 seconds old.  A waiter gives up after MaxAttempts (60 in   *)
(* the code, 100 ms apart).                                                *)
(***************************************************************************)
EXTENDS Naturals, Sequences

CONSTANTS
    Procs,           \* the invocations that update the file
    None,            \* no process, no inode
    MaxAttempts,     \* the bound of acquireLock's loop
    Crashers,        \* the processes that may be killed
    StaleOrphans,    \* when may the lock of a dead process grow older than
                     \* 60 s: "never", with one process left, at "any" time?
    StaleHolders     \* may the lock of a live (suspended) holder do so?

ASSUME LockFileAssumption ==
    /\ None \notin Procs
    /\ MaxAttempts \in Nat \ {0}
    /\ Crashers \subseteq Procs
    /\ StaleOrphans \in {"never", "lone", "any"}
    /\ StaleHolders \in BOOLEAN

VARIABLES
    lock,      \* None, or the process whose open(.., "wx") made the lockfile
    stale,     \* the lockfile's mtime is older than 60 s
    target,    \* the inode the shared file's name points at, or None
    tmp,       \* the inode `${path}.tmp` points at, or None
    items,     \* inode -> the updates it holds
    whole,     \* inode -> FALSE between open("w") and the end of the write
    pc,        \* process -> where it is
    attempt,   \* process -> failed attempts at the lock
    snap,      \* process -> the content it loaded
    fd         \* process -> the inode it opened for writing

disk == <<target, tmp, items, whole>>
vars == <<lock, stale, target, tmp, items, whole, pc, attempt, snap, fd>>

(***************************************************************************)
(* Where a process can be.  "releaseOk" and "releaseErr" are the finally   *)
(* of withLock, reached with and without a completed write.                *)
(***************************************************************************)
Trying   == {"create", "check", "break"}
Critical == {"load", "open", "write", "rename", "releaseOk", "releaseErr"}
Settled  == {"ok", "refused", "gaveUp", "crashed"}

Contents == IF target = None THEN <<>> ELSE items[target]

Goto(p, there) == pc' = [pc EXCEPT ![p] = there]

Init ==
    /\ lock = None /\ stale = FALSE
    /\ target = None /\ tmp = None
    /\ items = [p \in Procs |-> <<>>]
    /\ whole = [p \in Procs |-> FALSE]
    /\ pc = [p \in Procs |-> "create"]
    /\ attempt = [p \in Procs |-> 0]
    /\ snap = [p \in Procs |-> <<>>]
    /\ fd = [p \in Procs |-> None]

-----------------------------------------------------------------------------
(* acquireLock *)

(* Mutants: the failed attempt is not counted; the loop has no bound. *)
NextAttemptUncounted(p) ==
    /\ attempt' = attempt
    /\ Goto(p, "create")

NextAttemptUnbounded(p) ==
    /\ attempt' = [attempt EXCEPT ![p] = @ + 1]
    /\ Goto(p, "create")

(* The end of one pass of the loop: wait 100 ms and try again, or give up. *)
NextAttempt(p) ==
    /\ attempt' = [attempt EXCEPT ![p] = @ + 1]
    /\ Goto(p, IF attempt[p] + 1 < MaxAttempts THEN "create" ELSE "gaveUp")

(* A mutant: open(.., "w") instead of "wx" succeeds whoever holds the lock. *)
CreateIgnoringHolder(p) ==
    /\ pc[p] = "create"
    /\ lock' = p /\ stale' = FALSE /\ Goto(p, "load")
    /\ UNCHANGED <<disk, attempt, snap, fd>>

(* openSync(lock, "wx"): the one atomic test-and-set.  EEXIST is contention. *)
Create(p) ==
    /\ pc[p] = "create"
    /\ \/ /\ lock = None
          /\ lock' = p /\ stale' = FALSE
          /\ Goto(p, "load")
       \/ /\ lock # None
          /\ Goto(p, "check")
          /\ UNCHANGED <<lock, stale>>
    /\ UNCHANGED <<disk, attempt, snap, fd>>

(* A mutant: any lockfile that is there counts as stale. *)
CheckAnyLock(p) ==
    /\ pc[p] = "check"
    /\ \/ /\ lock # None
          /\ Goto(p, "break")
          /\ UNCHANGED attempt
       \/ /\ lock = None
          /\ NextAttempt(p)
    /\ UNCHANGED <<lock, stale, disk, snap, fd>>

(* existsSync && statSync(..).mtimeMs: a lock that vanished before the stat  *)
(* (ENOENT) or before existsSync, and a fresh one, both just wait.           *)
CheckStale(p) ==
    /\ pc[p] = "check"
    /\ \/ /\ lock # None /\ stale
          /\ Goto(p, "break")
          /\ UNCHANGED attempt
       \/ /\ ~(lock # None /\ stale)
          /\ NextAttempt(p)
    /\ UNCHANGED <<lock, stale, disk, snap, fd>>

(* A mutant: the stale lockfile is seen and left where it is. *)
BreakStaleInVain(p) ==
    /\ pc[p] = "break"
    /\ NextAttempt(p)
    /\ UNCHANGED <<lock, stale, disk, snap, fd>>

(* rmSync(lock): removes whatever lockfile is there by now. *)
BreakStale(p) ==
    /\ pc[p] = "break"
    /\ lock' = None /\ stale' = FALSE
    /\ NextAttempt(p)
    /\ UNCHANGED <<disk, snap, fd>>

-----------------------------------------------------------------------------
(* mutateJson and atomicWriteJson, holding the lock *)

(* A mutant: the file was loaded when the process started, before the lock. *)
LoadedBeforeLock(p) ==
    /\ pc[p] = "load"
    /\ Goto(p, "open")
    /\ UNCHANGED <<lock, stale, disk, attempt, snap, fd>>

(* Read the file (null when absent) and let `mutate` judge it.  A mutate     *)
(* that throws, that answers null, or that cannot parse half a file, writes  *)
(* nothing.                                                                  *)
Load(p) ==
    /\ pc[p] = "load"
    /\ snap' = [snap EXCEPT ![p] = Contents]
    /\ \/ /\ target # None => whole[target]
          /\ Goto(p, "open")
       \/ Goto(p, "releaseErr")
    /\ UNCHANGED <<lock, stale, disk, attempt, fd>>

(* A mutant: the text is written in place, over the shared file itself. *)
OpenTarget(p) ==
    /\ pc[p] = "open"
    /\ LET inode == IF target = None THEN p ELSE target
       IN  /\ target' = inode /\ tmp' = inode
           /\ fd' = [fd EXCEPT ![p] = inode]
           /\ items' = [items EXCEPT ![inode] = <<>>]
           /\ whole' = [whole EXCEPT ![inode] = FALSE]
    /\ Goto(p, "write")
    /\ UNCHANGED <<lock, stale, attempt, snap>>

(* writeFileSync, first half: open(tmp, "w") truncates or creates. *)
OpenTmp(p) ==
    /\ pc[p] = "open"
    /\ LET inode == IF tmp = None THEN p ELSE tmp
       IN  /\ tmp' = inode
           /\ fd' = [fd EXCEPT ![p] = inode]
           /\ items' = [items EXCEPT ![inode] = <<>>]
           /\ whole' = [whole EXCEPT ![inode] = FALSE]
    /\ Goto(p, "write")
    /\ UNCHANGED <<lock, stale, target, attempt, snap>>

(* writeFileSync, second half.  Two processes that write one inode through   *)
(* two descriptors may leave a mix of both texts.                            *)
WriteTmp(p) ==
    /\ pc[p] = "write"
    /\ items' = [items EXCEPT ![fd[p]] = Append(snap[p], p)]
    /\ \E clean \in BOOLEAN :
          /\ ~whole[fd[p]] => clean
          /\ whole' = [whole EXCEPT ![fd[p]] = clean]
    /\ Goto(p, "rename")
    /\ UNCHANGED <<lock, stale, target, tmp, attempt, snap, fd>>

(* renameSync(tmp, path): ENOENT throws when another rename took the name. *)
Rename(p) ==
    /\ pc[p] = "rename"
    /\ \/ /\ tmp # None
          /\ target' = tmp /\ tmp' = None
          /\ Goto(p, "releaseOk")
       \/ /\ tmp = None
          /\ Goto(p, "releaseErr")
          /\ UNCHANGED <<target, tmp>>
    /\ UNCHANGED <<lock, stale, items, whole, attempt, snap, fd>>

(* The finally of withLock: rmSync(lock, { force: true }), whoever owns it. *)
Release(p) ==
    /\ pc[p] \in {"releaseOk", "releaseErr"}
    /\ lock' = None /\ stale' = FALSE
    /\ Goto(p, IF pc[p] = "releaseOk" THEN "ok" ELSE "refused")
    /\ UNCHANGED <<disk, attempt, snap, fd>>

-----------------------------------------------------------------------------
(* The environment: a kill (or a process.exit inside fn) skips the finally,  *)
(* and the minute after which the lockfile counts as stale passes.           *)
Crash(p) ==
    /\ p \in Crashers
    /\ pc[p] \in Trying \cup Critical
    /\ Goto(p, "crashed")
    /\ UNCHANGED <<lock, stale, disk, attempt, snap, fd>>

OneIsLeft == \A p, q \in Procs : pc[p] \notin Settled /\ pc[q] \notin Settled => p = q

Age ==
    /\ lock # None /\ ~stale
    /\ \/ /\ pc[lock] = "crashed"
          /\ StaleOrphans = "any" \/ (StaleOrphans = "lone" /\ OneIsLeft)
       \/ StaleHolders /\ pc[lock] \in Critical
    /\ stale' = TRUE
    /\ UNCHANGED <<lock, disk, pc, attempt, snap, fd>>

(* Every invocation has ended: not a deadlock. *)
AllSettled ==
    /\ \A p \in Procs : pc[p] \in Settled
    /\ UNCHANGED vars

Step(p) ==
    \/ Create(p) \/ CheckStale(p) \/ BreakStale(p)
    \/ Load(p) \/ OpenTmp(p) \/ WriteTmp(p) \/ Rename(p) \/ Release(p)

Next ==
    \/ \E p \in Procs : Step(p) \/ Crash(p)
    \/ Age
    \/ AllSettled

Spec == Init /\ [][Next]_vars

(* The operating system schedules a process that has not been killed. *)
FairSpec == Spec /\ \A p \in Procs : WF_vars(Step(p))

-----------------------------------------------------------------------------
(* Properties *)

TypeOK ==
    /\ lock \in Procs \cup {None}
    /\ stale \in BOOLEAN
    /\ target \in Procs \cup {None}
    /\ tmp \in Procs \cup {None}
    /\ items \in [Procs -> Seq(Procs)]
    /\ whole \in [Procs -> BOOLEAN]
    /\ pc \in [Procs -> Trying \cup Critical \cup Settled]
    /\ attempt \in [Procs -> 0 .. MaxAttempts]
    /\ snap \in [Procs -> Seq(Procs)]
    /\ fd \in [Procs -> Procs \cup {None}]

(* "Mutual exclusion around one file": no two processes are between the      *)
(* creation of the lockfile and its removal.                                 *)
MutualExclusion ==
    \A p, q \in Procs : pc[p] \in Critical /\ pc[q] \in Critical => p = q

(* "Under the lock every append survives": a process that reported success   *)
(* finds its update in the file, whatever the others did since.              *)
NoLostUpdate ==
    \A p \in Procs : pc[p] = "ok" => \E i \in DOMAIN Contents : Contents[i] = p

(* "Readers never observe a half-written register": status, the gates and    *)
(* the hooks read the file without the lock, at any moment.                  *)
ReadersSeeWholeFile == target # None => whole[target]

(* Every process ends, whatever crashed and however long an orphaned lock    *)
(* stays: contention and orphans cost a refusal, never a hang.               *)
EveryProcessSettles == \A p \in Procs : <>(pc[p] \in Settled)

(* An orphaned lock is not forever: a waiter that has an attempt left when   *)
(* it sees a stale orphan takes the file over, and ends by its own verdict.  *)
(* (For a lone waiter: with two, a fresh holder may come between.)           *)
StaleOrphanIsTakenOver ==
    \A p \in Procs :
        (/\ pc[p] = "check" /\ lock # None /\ lock # p /\ stale
         /\ attempt[p] + 1 < MaxAttempts)
            ~> (pc[p] \in {"ok", "refused", "crashed"})

(* The lock, the temporary file and the rename together implement a log of   *)
(* whole updates.                                                            *)
Updates == INSTANCE AtomicUpdates WITH
              log <- Contents,
              acked <- {p \in Procs : pc[p] = "ok"}

ImplementsAtomicUpdates == Updates!Spec
=============================================================================
