--------------------------- MODULE LockFile_proofs ---------------------------
(***************************************************************************)
(* As long as a lockfile is stale only when one process is left to want    *)
(* it, the lock of task-findings.mjs excludes, loses no update, never      *)
(* shows a half-written file, and implements AtomicUpdates -- for any      *)
(* number of processes, any bound on the attempts, and kills anywhere.     *)
(* The hypothesis is needed: the run lock_stale_race breaks the conclusion *)
(* without it, with two that wait for one orphan.                          *)
(***************************************************************************)
EXTENDS LockFile, TLAPS

StaleIsLone == stale => OneIsLeft

(***************************************************************************)
(* The inductive invariant.  Held: a process inside the critical section   *)
(* made the lockfile that is there now.  BreaksAlone: who has found a      *)
(* stale lockfile is the last one running, so what it removes is nobody's. *)
(* Fresh: a process that has not opened its temporary file has no inode    *)
(* yet, so opening cannot truncate the file readers see.  Loaded: what a   *)
(* holder loaded is still what the file holds.  Prepared: what it is about *)
(* to rename is that and its own update.  Kept and Pending: who is, and    *)
(* who is not yet, in the log.                                             *)
(***************************************************************************)
Counted == \A p \in Procs : pc[p] \in Trying => attempt[p] < MaxAttempts

Held == \A p \in Procs : pc[p] \in Critical => lock = p

BreaksAlone ==
    \A p \in Procs : pc[p] = "break" => \A q \in Procs : q # p => pc[q] \in Settled

Fresh ==
    \A p \in Procs :
        pc[p] \in Trying \cup {"load", "open"} => target # p /\ tmp # p

Apart == tmp # None => tmp # target

Loaded ==
    \A p \in Procs : pc[p] \in {"open", "write", "rename"} => snap[p] = Contents

Prepared ==
    \A p \in Procs :
        /\ pc[p] = "write" => tmp # None /\ tmp = fd[p] /\ ~whole[tmp]
        /\ pc[p] = "rename" => /\ tmp # None
                               /\ items[tmp] = Append(snap[p], p)
                               /\ whole[tmp]

InLog(p) == \E i \in DOMAIN Contents : Contents[i] = p

Kept == \A p \in Procs : pc[p] \in {"releaseOk", "ok"} => InLog(p)

Pending ==
    \A p \in Procs :
        pc[p] \in Trying \cup {"load", "open", "write", "rename"} => ~InLog(p)

IInv ==
    /\ TypeOK
    /\ Counted /\ Held /\ BreaksAlone /\ Fresh /\ Apart
    /\ Loaded /\ Prepared /\ Kept /\ Pending
    /\ ReadersSeeWholeFile

USE LockFileAssumption

LEMMA ContentsTyped ==
    ASSUME TypeOK PROVE Contents \in Seq(Procs)
BY DEF TypeOK, Contents

(* A process in the critical section is alone there. *)
LEMMA Alone ==
    ASSUME IInv, NEW p \in Procs, pc[p] \in Critical
    PROVE  \A q \in Procs : pc[q] \in Critical => q = p
BY DEF IInv, Held

(* What a log holds after an append: what it held, and the new update. *)
LEMMA AppendLogs ==
    ASSUME NEW S, NEW s \in Seq(S), NEW p \in S, NEW q
    PROVE  (\E i \in DOMAIN Append(s, p) : Append(s, p)[i] = q)
             <=> (q = p \/ \E i \in DOMAIN s : s[i] = q)
<1>1. /\ DOMAIN Append(s, p) = 1 .. Len(s) + 1
      /\ \A i \in 1 .. Len(s) : Append(s, p)[i] = s[i]
      /\ Append(s, p)[Len(s) + 1] = p
      /\ DOMAIN s = 1 .. Len(s)
      /\ Len(s) \in Nat
  OBVIOUS
<1> QED BY <1>1

LEMMA InitIInv == Init => IInv
<1> SUFFICES ASSUME Init PROVE IInv OBVIOUS
<1> USE DEF Init
<1>1. TypeOK
  <2>1. <<>> \in Seq(Procs) /\ 0 \in 0 .. MaxAttempts
    OBVIOUS
  <2>2. "create" \in Trying \cup Critical \cup Settled
    BY DEF Trying
  <2> QED BY <2>1, <2>2 DEF TypeOK
<1>2. Contents = <<>> /\ \A p : ~InLog(p)
  BY DEF Contents, InLog
<1>3. Counted /\ Held /\ BreaksAlone /\ Fresh /\ Apart
  BY DEF Counted, Held, BreaksAlone, Fresh, Apart, Critical
<1>4. Loaded /\ Prepared /\ Kept /\ Pending /\ ReadersSeeWholeFile
  BY <1>2 DEF Loaded, Prepared, Kept, Pending, ReadersSeeWholeFile
<1> QED BY <1>1, <1>3, <1>4 DEF IInv

(* A process that runs, and finds no stale lockfile, comes upon nobody who   *)
(* has found one.                                                            *)
LEMMA OthersWait ==
    ASSUME IInv, NEW p \in Procs, pc[p] \notin Settled, pc'[p] # "break",
           \A q \in Procs : q # p => pc'[q] = pc[q]
    PROVE  BreaksAlone'
BY DEF IInv, BreaksAlone

(***************************************************************************)
(* One lemma per action that the invariant permits.                        *)
(***************************************************************************)
LEMMA CreateStep ==
    ASSUME IInv, StaleIsLone, NEW p \in Procs, Create(p) PROVE IInv'
<1> USE DEF Create, Goto, disk
<1>0. TypeOK BY DEF IInv
<1>10. TypeOK'
  <2>1. pc' \in [Procs -> Trying \cup Critical \cup Settled]
    BY <1>0 DEF TypeOK, Trying, Critical
  <2> QED BY <1>0, <2>1 DEF TypeOK
<1>11. Counted'
  BY <1>0 DEF IInv, TypeOK, Counted, Trying
<1>12. Held'
  BY <1>0 DEF IInv, TypeOK, Held, Critical
<1>13. BreaksAlone'
  <2>1. pc[p] \notin Settled /\ pc'[p] # "break" /\ \A q \in Procs : q # p => pc'[q] = pc[q]
    BY <1>0 DEF TypeOK, Trying, Critical, Settled
  <2> QED BY <2>1, OthersWait
<1>14. Fresh'
  BY <1>0 DEF IInv, TypeOK, Fresh, Trying
<1>15. Apart'
  BY <1>0 DEF IInv, TypeOK, Apart
<1>16. Loaded'
  BY <1>0 DEF IInv, TypeOK, Loaded, Contents
<1>17. Prepared'
  BY <1>0 DEF IInv, TypeOK, Prepared
<1>18. Kept'
  BY <1>0 DEF IInv, TypeOK, Kept, InLog, Contents
<1>19. Pending'
  BY <1>0 DEF IInv, TypeOK, Pending, InLog, Contents, Trying
<1>20. ReadersSeeWholeFile'
  BY <1>0 DEF IInv, TypeOK, ReadersSeeWholeFile
<1> QED BY <1>10, <1>11, <1>12, <1>13, <1>14, <1>15, <1>16, <1>17, <1>18, <1>19, <1>20 DEF IInv

LEMMA CheckStaleStep ==
    ASSUME IInv, StaleIsLone, NEW p \in Procs, CheckStale(p) PROVE IInv'
<1> USE DEF CheckStale, Goto, disk, NextAttempt
<1>0. TypeOK BY DEF IInv
<1>10. TypeOK'
  <2>1. pc' \in [Procs -> Trying \cup Critical \cup Settled]
    BY <1>0 DEF TypeOK, Trying, Settled
  <2>2. attempt[p] + 1 \in 0 .. MaxAttempts
    BY <1>0, SMTT(20) DEF IInv, TypeOK, Counted, Trying
  <2>3. attempt' = attempt \/ attempt' = [attempt EXCEPT ![p] = attempt[p] + 1]
    OBVIOUS
  <2>4. attempt' \in [Procs -> 0 .. MaxAttempts]
    BY <1>0, <2>2, <2>3 DEF TypeOK
  <2>5. UNCHANGED <<lock, stale, target, tmp, items, whole, snap, fd>>
    OBVIOUS
  <2> HIDE DEF CheckStale
  <2> QED BY <1>0, <2>1, <2>4, <2>5 DEF TypeOK
<1>11. Counted'
  BY <1>0 DEF IInv, TypeOK, Counted, Trying
<1>12. Held'
  BY <1>0 DEF IInv, TypeOK, Held, Critical
<1>13. BreaksAlone'
  <2>1. CASE stale
    BY <1>0, <2>1 DEF IInv, TypeOK, BreaksAlone, StaleIsLone, OneIsLeft, Settled
  <2>2. CASE ~stale
    BY <1>0, <2>2 DEF IInv, TypeOK, BreaksAlone, Settled
  <2> QED BY <2>1, <2>2
<1>14. Fresh'
  BY <1>0 DEF IInv, TypeOK, Fresh, Trying
<1>15. Apart'
  BY <1>0 DEF IInv, TypeOK, Apart
<1>16. Loaded'
  BY <1>0 DEF IInv, TypeOK, Loaded, Contents
<1>17. Prepared'
  BY <1>0 DEF IInv, TypeOK, Prepared
<1>18. Kept'
  BY <1>0 DEF IInv, TypeOK, Kept, InLog, Contents
<1>19. Pending'
  BY <1>0 DEF IInv, TypeOK, Pending, InLog, Contents, Trying
<1>20. ReadersSeeWholeFile'
  BY <1>0 DEF IInv, TypeOK, ReadersSeeWholeFile
<1> QED BY <1>10, <1>11, <1>12, <1>13, <1>14, <1>15, <1>16, <1>17, <1>18, <1>19, <1>20 DEF IInv

LEMMA BreakStaleStep ==
    ASSUME IInv, NEW p \in Procs, BreakStale(p) PROVE IInv'
<1> USE DEF BreakStale, Goto, disk, NextAttempt
<1>0. TypeOK BY DEF IInv
<1>10. TypeOK'
  <2>1. pc' \in [Procs -> Trying \cup Critical \cup Settled]
    BY <1>0 DEF TypeOK, Trying, Settled
  <2>2. attempt[p] + 1 \in 0 .. MaxAttempts
    BY <1>0, SMTT(20) DEF IInv, TypeOK, Counted, Trying
  <2>3. attempt' = [attempt EXCEPT ![p] = attempt[p] + 1]
    OBVIOUS
  <2>4. attempt' \in [Procs -> 0 .. MaxAttempts]
    BY <1>0, <2>2, <2>3 DEF TypeOK
  <2>5. lock' = None /\ stale' = FALSE /\ UNCHANGED <<target, tmp, items, whole, snap, fd>>
    OBVIOUS
  <2> HIDE DEF BreakStale
  <2> QED BY <1>0, <2>1, <2>4, <2>5 DEF TypeOK
<1>11. Counted'
  BY <1>0 DEF IInv, TypeOK, Counted, Trying
<1>12. Held'
  <2>1. \A q \in Procs : pc'[q] \notin Critical
    BY <1>0 DEF IInv, TypeOK, BreaksAlone, Critical, Settled
  <2> QED BY <2>1 DEF Held
<1>13. BreaksAlone'
  <2>1. pc[p] \notin Settled /\ pc'[p] # "break" /\ \A q \in Procs : q # p => pc'[q] = pc[q]
    BY <1>0 DEF TypeOK, Trying, Critical, Settled
  <2> QED BY <2>1, OthersWait
<1>14. Fresh'
  BY <1>0 DEF IInv, TypeOK, Fresh, Trying
<1>15. Apart'
  BY <1>0 DEF IInv, TypeOK, Apart
<1>16. Loaded'
  BY <1>0 DEF IInv, TypeOK, Loaded, Contents
<1>17. Prepared'
  BY <1>0 DEF IInv, TypeOK, Prepared
<1>18. Kept'
  BY <1>0 DEF IInv, TypeOK, Kept, InLog, Contents
<1>19. Pending'
  BY <1>0 DEF IInv, TypeOK, Pending, InLog, Contents, Trying
<1>20. ReadersSeeWholeFile'
  BY <1>0 DEF IInv, TypeOK, ReadersSeeWholeFile
<1> QED BY <1>10, <1>11, <1>12, <1>13, <1>14, <1>15, <1>16, <1>17, <1>18, <1>19, <1>20 DEF IInv

LEMMA LoadStep ==
    ASSUME IInv, StaleIsLone, NEW p \in Procs, Load(p) PROVE IInv'
<1> USE DEF Load, Goto, disk
<1>0. TypeOK BY DEF IInv
<1>10. TypeOK'
  <2>1. pc' \in [Procs -> Trying \cup Critical \cup Settled]
    BY <1>0 DEF TypeOK, Critical
  <2>2. snap' \in [Procs -> Seq(Procs)]
    BY <1>0, ContentsTyped DEF TypeOK
  <2> QED BY <1>0, <2>1, <2>2 DEF TypeOK
<1>11. Counted'
  BY <1>0 DEF IInv, TypeOK, Counted, Trying
<1>12. Held'
  BY <1>0 DEF IInv, TypeOK, Held, Critical
<1>13. BreaksAlone'
  <2>1. pc[p] \notin Settled /\ pc'[p] # "break" /\ \A q \in Procs : q # p => pc'[q] = pc[q]
    BY <1>0 DEF TypeOK, Trying, Critical, Settled
  <2> QED BY <2>1, OthersWait
<1>14. Fresh'
  BY <1>0 DEF IInv, TypeOK, Fresh, Trying
<1>15. Apart'
  BY <1>0 DEF IInv, TypeOK, Apart
<1>16. Loaded'
  BY <1>0 DEF IInv, TypeOK, Loaded, Contents
<1>17. Prepared'
  BY <1>0 DEF IInv, TypeOK, Prepared
<1>18. Kept'
  BY <1>0 DEF IInv, TypeOK, Kept, InLog, Contents
<1>19. Pending'
  BY <1>0 DEF IInv, TypeOK, Pending, InLog, Contents, Trying
<1>20. ReadersSeeWholeFile'
  BY <1>0 DEF IInv, TypeOK, ReadersSeeWholeFile
<1> QED BY <1>10, <1>11, <1>12, <1>13, <1>14, <1>15, <1>16, <1>17, <1>18, <1>19, <1>20 DEF IInv

LEMMA OpenTmpStep ==
    ASSUME IInv, StaleIsLone, NEW p \in Procs, OpenTmp(p) PROVE IInv'
<1> USE DEF OpenTmp, Goto, disk
<1>0. TypeOK BY DEF IInv
<1>1. \A q \in Procs : pc[q] \in Critical => q = p
  BY Alone DEF Critical
<1> DEFINE inode == IF tmp = None THEN p ELSE tmp
<1>2. /\ inode \in Procs /\ inode # target
      /\ tmp' = inode /\ fd'[p] = inode
      /\ \A q \in Procs : q # inode => items'[q] = items[q] /\ whole'[q] = whole[q]
      /\ \A q \in Procs : pc'[q] = IF q = p THEN "write" ELSE pc[q]
      /\ target' = target /\ snap' = snap /\ ~whole'[inode]
  BY <1>0 DEF IInv, TypeOK, Fresh, Apart
<1>3. Contents' = Contents
  BY <1>0, <1>2 DEF Contents, TypeOK
<1> HIDE DEF inode
<1>10. TypeOK'
  BY <1>0, <1>1, <1>2 DEF IInv, TypeOK, Trying, Critical, Settled, Counted
<1>11. Counted'
  BY <1>0, <1>1, <1>2 DEF IInv, TypeOK, Counted, Trying
<1>12. Held'
  BY <1>0, <1>1, <1>2 DEF IInv, TypeOK, Held, Critical
<1>13. BreaksAlone'
  <2>1. pc[p] \notin Settled /\ pc'[p] # "break" /\ \A q \in Procs : q # p => pc'[q] = pc[q]
    BY <1>0, <1>1, <1>2 DEF TypeOK, Trying, Critical, Settled
  <2> QED BY <2>1, OthersWait
<1>14. Fresh'
  BY <1>0, <1>1, <1>2 DEF IInv, TypeOK, Fresh, Trying
<1>15. Apart'
  BY <1>2 DEF Apart
<1>16. Loaded'
  BY <1>0, <1>1, <1>2, <1>3 DEF IInv, Loaded, Critical
<1>17. Prepared'
  BY <1>0, <1>1, <1>2, <1>3 DEF IInv, Prepared, Critical
<1>18. Kept'
  BY <1>2, <1>3 DEF IInv, Kept, InLog
<1>19. Pending'
  BY <1>2, <1>3 DEF IInv, Pending, InLog, Trying
<1>20. ReadersSeeWholeFile'
  BY <1>0, <1>2 DEF IInv, TypeOK, ReadersSeeWholeFile
<1> QED BY <1>10, <1>11, <1>12, <1>13, <1>14, <1>15, <1>16, <1>17, <1>18, <1>19, <1>20 DEF IInv

LEMMA WriteTmpStep ==
    ASSUME IInv, StaleIsLone, NEW p \in Procs, WriteTmp(p) PROVE IInv'
<1> USE DEF WriteTmp, Goto, disk
<1>0. TypeOK BY DEF IInv
<1>1. \A q \in Procs : pc[q] \in Critical => q = p
  BY Alone DEF Critical
<1>2. /\ tmp \in Procs /\ tmp = fd[p] /\ tmp # target
      /\ snap[p] \in Seq(Procs) /\ Append(snap[p], p) \in Seq(Procs)
      /\ ~whole[tmp]
  BY <1>0 DEF IInv, TypeOK, Prepared, Apart
<1>3. /\ items' = [items EXCEPT ![tmp] = Append(snap[p], p)]
      /\ whole' \in [Procs -> BOOLEAN]
      /\ \A q \in Procs : q # tmp => whole'[q] = whole[q]
      /\ whole'[tmp] /\ tmp' = tmp /\ snap' = snap /\ fd' = fd
      /\ \A q \in Procs : pc'[q] = IF q = p THEN "rename" ELSE pc[q]
  BY <1>0, <1>2 DEF TypeOK
<1>4. Contents' = Contents
  BY <1>0, <1>2, <1>3 DEF Contents, TypeOK
<1>10. TypeOK'
  BY <1>0, <1>2, <1>3 DEF TypeOK, Trying, Critical, Settled
<1>11. Counted'
  BY <1>0, <1>1, <1>2, <1>3 DEF IInv, TypeOK, Counted, Trying
<1>12. Held'
  BY <1>0, <1>1, <1>2, <1>3 DEF IInv, TypeOK, Held, Critical
<1>13. BreaksAlone'
  <2>1. pc[p] \notin Settled /\ pc'[p] # "break" /\ \A q \in Procs : q # p => pc'[q] = pc[q]
    BY <1>0, <1>1, <1>2, <1>3 DEF TypeOK, Trying, Critical, Settled
  <2> QED BY <2>1, OthersWait
<1>14. Fresh'
  BY <1>0, <1>1, <1>2, <1>3 DEF IInv, TypeOK, Fresh, Trying
<1>15. Apart'
  BY <1>0, <1>1, <1>2, <1>3 DEF IInv, TypeOK, Apart
<1>16. Loaded'
  BY <1>1, <1>3, <1>4 DEF IInv, Loaded, Critical
<1>17. Prepared'
  <2>1. items'[tmp'] = Append(snap'[p], p) /\ whole'[tmp'] /\ tmp' # None
    BY <1>0, <1>2, <1>3 DEF TypeOK
  <2>2. \A q \in Procs : pc'[q] \in {"write", "rename"} => q = p /\ pc'[q] = "rename"
    BY <1>1, <1>3 DEF Critical
  <2> QED BY <2>1, <2>2 DEF Prepared
<1>18. Kept'
  BY <1>3, <1>4 DEF IInv, Kept, InLog
<1>19. Pending'
  BY <1>3, <1>4 DEF IInv, Pending, InLog, Trying
<1>20. ReadersSeeWholeFile'
  BY <1>0, <1>2, <1>3 DEF IInv, TypeOK, ReadersSeeWholeFile
<1> QED BY <1>10, <1>11, <1>12, <1>13, <1>14, <1>15, <1>16, <1>17, <1>18, <1>19, <1>20 DEF IInv

LEMMA RenameStep ==
    ASSUME IInv, StaleIsLone, NEW p \in Procs, Rename(p) PROVE IInv'
<1> USE DEF Rename, Goto, disk
<1>0. TypeOK BY DEF IInv
<1>1. \A q \in Procs : pc[q] \in Critical => q = p
  BY Alone DEF Critical
<1>2. /\ tmp \in Procs /\ items[tmp] = Append(snap[p], p) /\ whole[tmp]
      /\ snap[p] = Contents /\ snap[p] \in Seq(Procs)
  BY <1>0 DEF IInv, TypeOK, Prepared, Loaded
<1>3. /\ target' = tmp /\ tmp' = None
      /\ Contents' = Append(Contents, p)
      /\ \A q \in Procs : pc'[q] = IF q = p THEN "releaseOk" ELSE pc[q]
  BY <1>0, <1>2 DEF TypeOK, Contents
<1>4. \A q \in Procs : InLog(q)' <=> (q = p \/ InLog(q))
  BY <1>2, <1>3, AppendLogs DEF InLog
<1>10. TypeOK'
  <2>1. pc' \in [Procs -> Trying \cup Critical \cup Settled]
    BY <1>0 DEF TypeOK, Trying, Critical, Settled
  <2>2. target' \in Procs \cup {None} /\ tmp' \in Procs \cup {None}
    BY <1>2, <1>3
  <2> QED BY <1>0, <2>1, <2>2 DEF TypeOK
<1>11. Counted'
  BY <1>0, <1>1, <1>2, <1>3 DEF IInv, TypeOK, Counted, Trying
<1>12. Held'
  BY <1>0, <1>1, <1>2, <1>3 DEF IInv, TypeOK, Held, Critical
<1>13. BreaksAlone'
  <2>1. pc[p] \notin Settled /\ pc'[p] # "break" /\ \A q \in Procs : q # p => pc'[q] = pc[q]
    BY <1>0, <1>1, <1>2, <1>3 DEF TypeOK, Trying, Critical, Settled
  <2> QED BY <2>1, OthersWait
<1>14. Fresh'
  BY <1>0, <1>1, <1>2, <1>3 DEF IInv, TypeOK, Fresh, Trying
<1>15. Apart'
  BY <1>3 DEF Apart
<1>16. Loaded'
  BY <1>1, <1>3 DEF IInv, Loaded, Critical
<1>17. Prepared'
  BY <1>1, <1>3 DEF IInv, Prepared, Critical
<1>18. Kept'
  BY <1>3, <1>4 DEF IInv, Kept
<1>19. Pending'
  BY <1>3, <1>4 DEF IInv, Pending, Trying
<1>20. ReadersSeeWholeFile'
  BY <1>2, <1>3 DEF ReadersSeeWholeFile
<1> QED BY <1>10, <1>11, <1>12, <1>13, <1>14, <1>15, <1>16, <1>17, <1>18, <1>19, <1>20 DEF IInv

LEMMA ReleaseStep ==
    ASSUME IInv, StaleIsLone, NEW p \in Procs, Release(p) PROVE IInv'
<1> USE DEF Release, Goto, disk
<1>0. TypeOK BY DEF IInv
<1>10. TypeOK'
  BY <1>0 DEF IInv, TypeOK, Trying, Critical, Settled, Counted
<1>11. Counted'
  BY <1>0 DEF IInv, TypeOK, Counted, Trying
<1>12. Held'
  BY <1>0 DEF IInv, TypeOK, Held, Critical
<1>13. BreaksAlone'
  <2>1. pc[p] \notin Settled /\ pc'[p] # "break" /\ \A q \in Procs : q # p => pc'[q] = pc[q]
    BY <1>0 DEF TypeOK, Trying, Critical, Settled
  <2> QED BY <2>1, OthersWait
<1>14. Fresh'
  BY <1>0 DEF IInv, TypeOK, Fresh, Trying
<1>15. Apart'
  BY <1>0 DEF IInv, TypeOK, Apart
<1>16. Loaded'
  BY <1>0 DEF IInv, TypeOK, Loaded, Contents
<1>17. Prepared'
  BY <1>0 DEF IInv, TypeOK, Prepared
<1>18. Kept'
  BY <1>0 DEF IInv, TypeOK, Kept, InLog, Contents
<1>19. Pending'
  BY <1>0 DEF IInv, TypeOK, Pending, InLog, Contents, Trying
<1>20. ReadersSeeWholeFile'
  BY <1>0 DEF IInv, TypeOK, ReadersSeeWholeFile
<1> QED BY <1>10, <1>11, <1>12, <1>13, <1>14, <1>15, <1>16, <1>17, <1>18, <1>19, <1>20 DEF IInv

LEMMA CrashStep ==
    ASSUME IInv, StaleIsLone, NEW p \in Procs, Crash(p) PROVE IInv'
<1> USE DEF Crash, Goto, disk
<1>0. TypeOK BY DEF IInv
<1>10. TypeOK'
  BY <1>0 DEF IInv, TypeOK, Trying, Critical, Settled, Counted
<1>11. Counted'
  BY <1>0 DEF IInv, TypeOK, Counted, Trying
<1>12. Held'
  BY <1>0 DEF IInv, TypeOK, Held, Critical
<1>13. BreaksAlone'
  <2>1. pc[p] \notin Settled /\ pc'[p] # "break" /\ \A q \in Procs : q # p => pc'[q] = pc[q]
    BY <1>0 DEF TypeOK, Trying, Critical, Settled
  <2> QED BY <2>1, OthersWait
<1>14. Fresh'
  BY <1>0 DEF IInv, TypeOK, Fresh, Trying
<1>15. Apart'
  BY <1>0 DEF IInv, TypeOK, Apart
<1>16. Loaded'
  BY <1>0 DEF IInv, TypeOK, Loaded, Contents
<1>17. Prepared'
  BY <1>0 DEF IInv, TypeOK, Prepared
<1>18. Kept'
  BY <1>0 DEF IInv, TypeOK, Kept, InLog, Contents
<1>19. Pending'
  BY <1>0 DEF IInv, TypeOK, Pending, InLog, Contents, Trying
<1>20. ReadersSeeWholeFile'
  BY <1>0 DEF IInv, TypeOK, ReadersSeeWholeFile
<1> QED BY <1>10, <1>11, <1>12, <1>13, <1>14, <1>15, <1>16, <1>17, <1>18, <1>19, <1>20 DEF IInv

(***************************************************************************)
(* One step of the specification, from a state in which a stale lockfile   *)
(* has at most one process left to find it.                                *)
(***************************************************************************)
LEMMA StepIInv ==
    ASSUME IInv, StaleIsLone, [Next]_vars PROVE IInv'
<1>1. ASSUME NEW p \in Procs, Step(p) PROVE IInv'
  <2>1. CASE Create(p) BY <2>1, CreateStep
  <2>2. CASE CheckStale(p) BY <2>2, CheckStaleStep
  <2>3. CASE BreakStale(p) BY <2>3, BreakStaleStep
  <2>4. CASE Load(p) BY <2>4, LoadStep
  <2>5. CASE OpenTmp(p) BY <2>5, OpenTmpStep
  <2>6. CASE WriteTmp(p) BY <2>6, WriteTmpStep
  <2>7. CASE Rename(p) BY <2>7, RenameStep
  <2>8. CASE Release(p) BY <2>8, ReleaseStep
  <2> QED BY <1>1, <2>1, <2>2, <2>3, <2>4, <2>5, <2>6, <2>7, <2>8 DEF Step
<1>2. ASSUME NEW p \in Procs, Crash(p) PROVE IInv'
  BY <1>2, CrashStep
<1>3. CASE Age
  BY <1>3 DEF Age, disk, IInv, TypeOK, Counted, Held, BreaksAlone, Fresh, Apart, Loaded,
             Prepared, Kept, Pending, ReadersSeeWholeFile, InLog, Contents
<1>4. CASE UNCHANGED vars
  BY <1>4 DEF vars, IInv, TypeOK, Counted, Held, BreaksAlone, Fresh, Apart, Loaded,
             Prepared, Kept, Pending, ReadersSeeWholeFile, InLog, Contents
<1> QED BY <1>1, <1>2, <1>3, <1>4 DEF Next, AllSettled

(***************************************************************************)
(* A step of the lock is an update, an acknowledgement or a stutter of     *)
(* AtomicUpdates: Rename appends to the log, a successful Release          *)
(* acknowledges, and nothing else touches what a reader can see.           *)
(***************************************************************************)
Acked == {p \in Procs : pc[p] = "ok"}

LEMMA QuietStep ==
    ASSUME IInv, StaleIsLone, NEW p \in Procs,
           \/ Create(p) \/ CheckStale(p) \/ BreakStale(p) \/ Load(p) \/ OpenTmp(p) \/ WriteTmp(p)
           \/ Crash(p)
    PROVE  UNCHANGED <<Contents, Acked>>
<1>0. TypeOK BY DEF IInv
<1>1. /\ pc[p] # "ok" /\ pc'[p] # "ok"
      /\ \A q \in Procs : q # p => pc'[q] = pc[q]
  BY <1>0 DEF TypeOK, Create, CheckStale, BreakStale, Load, OpenTmp, WriteTmp, Crash, Goto,
              NextAttempt, Trying, Critical
<1>2. UNCHANGED Acked
  BY <1>1 DEF Acked
<1>3. CASE Create(p) \/ CheckStale(p) \/ BreakStale(p) \/ Load(p) \/ Crash(p)
  BY <1>2, <1>3 DEF Create, CheckStale, BreakStale, Load, Crash, disk, Contents
<1>4. CASE OpenTmp(p)
  <2>1. (IF tmp = None THEN p ELSE tmp) # target
    BY <1>0, <1>4 DEF IInv, Fresh, Apart, OpenTmp
  <2>2. UNCHANGED Contents
    BY <1>0, <1>4, <2>1 DEF TypeOK, OpenTmp, Contents
  <2> QED BY <1>2, <2>2
<1>5. CASE WriteTmp(p)
  <2>1. fd[p] # target
    BY <1>0, <1>5 DEF IInv, Prepared, Apart, WriteTmp
  <2>2. UNCHANGED Contents
    BY <1>0, <1>5, <2>1 DEF TypeOK, WriteTmp, Contents
  <2> QED BY <1>2, <2>2
<1> QED BY <1>3, <1>4, <1>5

LEMMA RenameApplies ==
    ASSUME IInv, NEW p \in Procs, Rename(p) PROVE Updates!Apply(p)
<1>0. TypeOK BY DEF IInv
<1>1. /\ tmp \in Procs /\ items[tmp] = Append(Contents, p) /\ ~InLog(p)
  BY <1>0 DEF IInv, TypeOK, Prepared, Loaded, Pending, Rename
<1>2. Contents' = Append(Contents, p)
  BY <1>0, <1>1 DEF Rename, Contents
<1>3. UNCHANGED Acked
  BY <1>0, <1>1 DEF TypeOK, Rename, Goto, Acked
<1> QED BY <1>1, <1>2, <1>3 DEF Updates!Apply, Updates!Logged, InLog, Acked

LEMMA ReleaseAcknowledges ==
    ASSUME IInv, NEW p \in Procs, Release(p)
    PROVE  Updates!Acknowledge(p) \/ UNCHANGED <<Contents, Acked>>
<1>0. TypeOK BY DEF IInv
<1>1. UNCHANGED Contents
  BY DEF Release, disk, Contents
<1>2. CASE pc[p] = "releaseOk"
  <2>1. InLog(p)
    BY <1>2 DEF IInv, Kept
  <2>2. Acked' = Acked \cup {p}
    BY <1>0, <1>2 DEF TypeOK, Release, Goto, Acked
  <2> QED BY <1>1, <2>1, <2>2 DEF Updates!Acknowledge, Updates!Logged, InLog, Acked
<1>3. CASE pc[p] = "releaseErr"
  <2>1. UNCHANGED Acked
    BY <1>0, <1>3 DEF TypeOK, Release, Goto, Acked
  <2> QED BY <1>1, <2>1
<1> QED BY <1>2, <1>3 DEF Release

LEMMA StepRefines ==
    ASSUME IInv, StaleIsLone, [Next]_vars
    PROVE  [Updates!Next]_(Updates!vars)
<1>1. ASSUME NEW p \in Procs, Step(p) \/ Crash(p)
      PROVE  [Updates!Next]_(Updates!vars)
  <2>1. CASE Rename(p)
    BY <2>1, RenameApplies DEF Updates!Next
  <2>2. CASE Release(p)
    BY <2>2, ReleaseAcknowledges DEF Updates!Next, Updates!vars, Acked
  <2>3. CASE Create(p) \/ CheckStale(p) \/ BreakStale(p) \/ Load(p) \/ OpenTmp(p) \/ WriteTmp(p) \/ Crash(p)
    BY <2>3, QuietStep DEF Updates!vars, Acked
  <2> QED BY <1>1, <2>1, <2>2, <2>3 DEF Step
<1>2. CASE Age
  BY <1>2 DEF Age, disk, Updates!vars, Contents
<1>3. CASE UNCHANGED vars
  BY <1>3 DEF vars, Updates!vars, Contents
<1> QED BY <1>1, <1>2, <1>3 DEF Next, AllSettled

LEMMA InitRefines == Init => Updates!Init
BY DEF Init, Updates!Init, Contents

(***************************************************************************)
(* The theorems.  The hypothesis []StaleIsLone is the code's assumption    *)
(* that no lockfile lives for a minute while two processes want the file.  *)
(***************************************************************************)

(* The inductive invariant holds in every run in which a stale lockfile is   *)
(* found by the last process only.                                           *)
THEOREM LockInvariant == Spec /\ []StaleIsLone => []IInv
<1>1. Init => IInv BY InitIInv
<1>2. IInv /\ StaleIsLone /\ [Next]_vars => IInv' BY StepIInv
<1> QED BY <1>1, <1>2, PTL DEF Spec

(* acquireLock and withLock: at most one process is in the critical section. *)
THEOREM LockExcludes == Spec /\ []StaleIsLone => []MutualExclusion
<1>1. IInv => MutualExclusion
  BY DEF IInv, Held, MutualExclusion
<1> QED BY <1>1, LockInvariant, PTL

(* mutateJson: an update its caller saw succeed is in the file for good.     *)
THEOREM UpdatesSurvive == Spec /\ []StaleIsLone => []NoLostUpdate
<1>1. IInv => NoLostUpdate
  BY DEF IInv, Kept, InLog, NoLostUpdate
<1> QED BY <1>1, LockInvariant, PTL

(* atomicWriteJson: a reader without the lock never sees half a file.        *)
THEOREM ReadersSafe == Spec /\ []StaleIsLone => []ReadersSeeWholeFile
<1>1. IInv => ReadersSeeWholeFile
  BY DEF IInv
<1> QED BY <1>1, LockInvariant, PTL

(* The lock, the temporary file and the rename implement AtomicUpdates.      *)
THEOREM LockRefines == Spec /\ []StaleIsLone => ImplementsAtomicUpdates
<1>1. Init => Updates!Init BY InitRefines
<1>2. IInv /\ StaleIsLone /\ [Next]_vars => [Updates!Next]_(Updates!vars)
  BY StepRefines
<1> QED BY <1>1, <1>2, LockInvariant, PTL DEF Spec, ImplementsAtomicUpdates, Updates!Spec

(* Where no live holder's lockfile grows old, and an orphan's only for the   *)
(* last process, the hypothesis keeps itself up.                             *)
LEMMA OrphansAgeForOne ==
    ASSUME IInv, StaleIsLone, [Next]_vars, StaleOrphans # "any", ~StaleHolders
    PROVE  StaleIsLone'
<1>0. TypeOK BY DEF IInv
<1>1. ASSUME NEW p \in Procs, Step(p) \/ Crash(p) PROVE StaleIsLone'
  <2>1. /\ pc[p] \notin Settled
        /\ \A q \in Procs : q # p => pc'[q] = pc[q]
    BY <1>0, <1>1 DEF TypeOK, Step, Create, CheckStale, BreakStale, Load, OpenTmp, WriteTmp, Rename, Release,
                      Crash, Goto, NextAttempt, Trying, Critical, Settled
  <2>2. stale' => stale
    BY <1>1 DEF Step, Create, CheckStale, BreakStale, Load, OpenTmp, WriteTmp, Rename, Release, Crash
  <2> QED BY <2>1, <2>2 DEF StaleIsLone, OneIsLeft
<1>2. CASE Age
  BY <1>2 DEF Age, StaleIsLone, OneIsLeft
<1>3. CASE UNCHANGED vars
  BY <1>3 DEF vars, StaleIsLone, OneIsLeft
<1> QED BY <1>1, <1>2, <1>3 DEF Next, AllSettled

(* The same without a temporal hypothesis, for the instances in which no     *)
(* live holder's lockfile grows old, and an orphan's only for the last one.  *)
THEOREM LockCorrect ==
    ASSUME StaleOrphans # "any", ~StaleHolders
    PROVE  Spec => /\ [](MutualExclusion /\ NoLostUpdate /\ ReadersSeeWholeFile)
                   /\ ImplementsAtomicUpdates
<1>1. Init => IInv /\ StaleIsLone
  BY InitIInv DEF Init, StaleIsLone
<1>2. IInv /\ StaleIsLone /\ [Next]_vars => (IInv /\ StaleIsLone)'
  BY StepIInv, OrphansAgeForOne
<1>3. Spec => []StaleIsLone
  BY <1>1, <1>2, PTL DEF Spec
<1> QED BY <1>3, LockExcludes, UpdatesSurvive, ReadersSafe, LockRefines, PTL

===============================================================================
