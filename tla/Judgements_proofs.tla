------------------------- MODULE Judgements_proofs -------------------------
(***************************************************************************)
(* What the judgements promise, for inputs of any size: registers of any   *)
(* number of findings, directories and trees of any number of files,       *)
(* batteries, checklists, contracts, claims, tables, hook scripts and       *)
(* scope patterns of any length.                                           *)
(***************************************************************************)
EXTENDS Judgements, NatOrder_proofs, FiniteSetTheorems, SequenceTheorems

(* Of the values that a finite set takes, one is the greatest. *)
LEMMA GreatestValue ==
    ASSUME NEW S, IsFiniteSet(S), S # {}, NEW at, \A f \in S : at[f] \in Nat
    PROVE  \E f \in S : \A g \in S : at[g] <= at[f]
<1> DEFINE N == {n \in Nat : \A T \in SUBSET S : Cardinality(T) = n /\ T # {} => \E f \in T : \A g \in T : at[g] <= at[f]}
<1>1. \A T \in SUBSET S : IsFiniteSet(T) /\ Cardinality(T) \in Nat
  BY FS_Subset, FS_CardinalityType
<1>2. 0 \in N
  BY <1>1, FS_EmptySet
<1>3. ASSUME NEW n \in N PROVE n + 1 \in N
  <2> SUFFICES ASSUME NEW T \in SUBSET S, Cardinality(T) = n + 1, T # {}
               PROVE  \E f \in T : \A g \in T : at[g] <= at[f]
    OBVIOUS
  <2>1. PICK x \in T : TRUE
    OBVIOUS
  <2>2. T \ {x} \in SUBSET S /\ Cardinality(T \ {x}) = n
    <3>1. n \in Nat /\ IsFiniteSet(T)
      BY <1>1
    <3>2. Cardinality(T \ {x}) = Cardinality(T) - 1
      BY <2>1, <3>1, FS_RemoveElement
    <3>3. QED
      BY <3>1, <3>2
  <2>3. CASE T \ {x} = {}
    BY <2>1, <2>3
  <2>4. CASE T \ {x} # {}
    <3>1. PICK f \in T \ {x} : \A g \in T \ {x} : at[g] <= at[f]
      BY <2>2, <2>4
    <3>2. at[x] \in Nat /\ \A g \in T : at[g] \in Nat
      BY <2>1
    <3>3. CASE at[x] <= at[f]
      BY <3>1, <3>3
    <3>4. CASE at[f] <= at[x]
      BY <2>1, <3>1, <3>2, <3>4
    <3>5. QED
      BY <3>1, <3>2, <3>3, <3>4
  <2>5. QED
    BY <2>3, <2>4
<1> HIDE DEF N
<1>4. N = Nat
  BY <1>2, <1>3, SetInduction DEF N
<1>5. QED
  BY <1>1, <1>4 DEF N

(* Cardinality, as the judgements' modules see it. *)
LEMMA SameCardinality ==
    ASSUME NEW S
    PROVE  /\ Read!Cardinality(S) = Cardinality(S)
           /\ Editor!Cardinality(S) = Cardinality(S)
           /\ Wired!Cardinality(S) = Cardinality(S)
           /\ Docs!Cardinality(S) = Cardinality(S)
           /\ Shell!Cardinality(S) = Cardinality(S)
<1>1. Read!Cardinality(S) = Cardinality(S)
  BY Zenon DEF Read!Cardinality, Cardinality
<1>2. Editor!Cardinality(S) = Cardinality(S)
  BY Zenon DEF Editor!Cardinality, Cardinality
<1>3. Wired!Cardinality(S) = Cardinality(S)
  BY Zenon DEF Wired!Cardinality, Cardinality
<1>4. Docs!Cardinality(S) = Cardinality(S)
  BY Zenon DEF Docs!Cardinality, Cardinality
<1>5. Shell!Cardinality(S) = Cardinality(S)
  BY Zenon DEF Shell!Cardinality, Cardinality
<1>6. QED
  BY <1>1, <1>2, <1>3, <1>4, <1>5

-----------------------------------------------------------------------------
(* The four readers of a task record. *)
LEMMA RecordsAlike == ASSUME NEW id, NEW file PROVE Read!RecordReadAlike(id, file)
BY DEF Read!RecordReadAlike, Read!TaskRecordOf, Read!LoadTask, Read!ReadTask, Read!Listed, Read!LoadRecord

(* What a register's readers take: none takes what does not load, or another's. *)
LEMMA ReadersTake ==
    ASSUME NothingIsNoValue, NEW id \in STRING, NEW file \in AnyRegister \cup {Null}
    PROVE  LET lawful == file # Null /\ file.json /\ Read!ValidateFindings(file)
           IN  /\ file # Null => file \in AnyRegister
               /\ file = Null => /\ Read!LoadFindings(file) = [ok |-> TRUE, register |-> Null]
                                 /\ Read!LoadOwnedFindings(id, file) = Read!Taken(Null)
                                 /\ Read!ParseRegisterForWrite(id, file) = Read!NoPass
                                 /\ Read!LoadMarkedRegister(id, file) = Read!NoPass
               /\ lawful => Read!LoadFindings(file) = [ok |-> TRUE, register |-> file]
               /\ file # Null /\ ~lawful =>
                    /\ Read!LoadFindings(file) = [ok |-> FALSE, register |-> Null]
                    /\ Read!LoadOwnedFindings(id, file) = Read!Refused(Null)
                    /\ Read!LoadMarkedRegister(id, file) = Read!Refused(Null)
                    /\ Read!ParseRegisterForWrite(id, file) \in {Read!Refused(Null), Read!Refused(file)}
               /\ lawful /\ file.task # id =>
                    /\ Read!LoadOwnedFindings(id, file) = Read!Refused(file)
                    /\ Read!LoadMarkedRegister(id, file) = Read!Refused(file)
                    /\ Read!ParseRegisterForWrite(id, file) = Read!Refused(file)
               /\ lawful /\ file.task = id =>
                    /\ Read!LoadOwnedFindings(id, file) = Read!Taken(file)
                    /\ Read!LoadMarkedRegister(id, file) = IF file.marker = "set" THEN Read!Taken(file) ELSE Read!NoPass
                    /\ Read!ParseRegisterForWrite(id, file) = Read!Taken(file)
<1> DEFINE lawful == file # Null /\ file.json /\ Read!ValidateFindings(file)
<1>1. Read!ValidateFindings(file) \in BOOLEAN
  BY DEF Read!ValidateFindings
<1>2. file # Null => file \in AnyRegister /\ file.json \in BOOLEAN /\ file.task \in STRING
  BY DEF AnyRegister
<1>3. /\ file = Null => Read!LoadFindings(file) = [ok |-> TRUE, register |-> Null]
      /\ lawful => Read!LoadFindings(file) = [ok |-> TRUE, register |-> file]
      /\ file # Null /\ ~lawful => Read!LoadFindings(file) = [ok |-> FALSE, register |-> Null]
  BY <1>1, <1>2 DEF Read!LoadFindings
<1> USE DEF Read!LoadOwnedFindings, Read!LoadMarkedRegister, Read!ParseRegisterForWrite
<1>4. CASE file = Null
  BY <1>3, <1>4
<1>5. CASE file # Null /\ ~lawful
  BY <1>1, <1>2, <1>3, <1>5
<1>6. CASE lawful /\ file.task # id
  BY <1>1, <1>2, <1>3, <1>6
<1>7. CASE lawful /\ file.task = id
  BY <1>1, <1>2, <1>3, <1>7
<1>8. QED
  BY <1>4, <1>5, <1>6, <1>7

LEMMA PinsMove ==
    ASSUME NothingIsNoValue, NEW expect \in SUBSET Marks \cup {Null}, NEW noisy \in BOOLEAN, NEW cutover,
           NEW before \in Pin!Outcomes, NEW after, \A i \in 1..2 : after[i] \in Pin!Outcomes
    PROVE  Pin!RedThenGreen(expect, noisy, cutover, before, after)
<1> DEFINE run(o)  == Pin!RunPinCommand(noisy, o)
           runs  == [i \in 1..2 |-> run(after[i])]
           moved == /\ Pin!RecordedRed(expect, run(before), cutover)
                    /\ Null \notin Pin!Range(runs) /\ Pin!GreenVerdictOf(expect, runs)
<1>1. ASSUME moved, NEW i \in 1..2
      PROVE  /\ after[i].asserts # "hangs" /\ run(after[i]).exitCode = 0
             /\ after[i].asserts = "holds" \/ after[i].lost
             /\ ~Pin!Vacuous(expect, run(after[i]))
             /\ run(after[i]).output = {after[i].asserts} \cup IF noisy THEN {"fails"} ELSE {}
  <2>1. runs[i] # Null
    BY <1>1 DEF Pin!Range
  <2>2. after[i] \in Pin!Outcomes /\ after[i].asserts # "hangs"
    BY <2>1 DEF Pin!RunPinCommand
  <2>3. runs[i].exitCode = 0 /\ ~Pin!Vacuous(expect, runs[i])
    BY <1>1 DEF Pin!GreenVerdictOf, Pin!Steady
  <2>4. QED
    BY <2>2, <2>3 DEF Pin!RunPinCommand, Pin!Outcomes
<1>2. ASSUME moved, expect = {"fails"} PROVE before.asserts = "fails" \/ noisy
  <2>1. expect # Null /\ "fails" \in run(before).output /\ run(before) # Null
    BY <1>2 DEF NothingIsNoValue, Pin!RecordedRed, Pin!Expected, Pin!PatternMatches, Marks
  <2>2. run(before).output = {before.asserts} \cup IF noisy THEN {"fails"} ELSE {}
    BY <2>1 DEF Pin!RunPinCommand
  <2>3. QED
    BY <2>1, <2>2
<1>3. ASSUME moved, expect = {"fails"}, NEW i \in 1..2 PROVE after[i].asserts # "fails" /\ ~noisy
  <2>1. expect # Null /\ expect # Pin!Malformed
    BY <1>3 DEF NothingIsNoValue, Marks, Pin!Malformed
  <2>2. "fails" \notin run(after[i]).output
    BY <1>1, <1>3, <2>1 DEF Pin!Vacuous, Pin!PatternMatches
  <2>3. QED
    BY <1>1, <1>3, <2>2
<1>4. ASSUME moved, ~(\E i \in 1..2 : after[i].lost), NEW i \in 1..2 PROVE after[i].asserts = "holds"
  BY <1>1, <1>4
<1> HIDE DEF moved
<1>5. 1 \in 1..2
  OBVIOUS
<1>6. QED
  BY <1>2, <1>3, <1>4, <1>5 DEF Pin!RedThenGreen, moved

LEMMA RegistersAlike ==
    ASSUME NothingIsNoValue, NEW id \in STRING, NEW file \in AnyRegister \cup {Null}
    PROVE  Read!RegisterReadAlike(id, file)
<1> DEFINE lawful   == file # Null /\ file.json /\ Read!ValidateFindings(file)
           register == Read!LoadOwnedFindings(id, file).register
           told     == Read!Handoff(register)
           blocking == Read!Missing(file) \cup Read!Of(file, "UNRESOLVED")
<1> USE DEF Read!Taken, Read!Refused, Read!NoPass, Read!RemintOffered
<1>1. CASE lawful /\ file.task = id
  <2>1. /\ Read!LoadFindings(file) = [ok |-> TRUE, register |-> file]
        /\ Read!LoadOwnedFindings(id, file) = Read!Taken(file) /\ register = file /\ file # Null
        /\ Read!LoadMarkedRegister(id, file) = IF file.marker = "set" THEN Read!Taken(file) ELSE Read!NoPass
        /\ Read!ParseRegisterForWrite(id, file) = Read!Taken(file)
    BY <1>1, ReadersTake
  <2>2. Read!VerdictClean(id, file) <=> file.marker = "set" /\ Read!Missing(file) = {} /\ Read!Of(file, "UNRESOLVED") = {}
    BY <2>1 DEF Read!VerdictClean
  <2>3. Read!DoneAccepts(id, file) <=> file.marker = "set" /\ Read!Missing(file) = {} /\ Read!Of(file, "UNRESOLVED") = {}
    BY <2>1 DEF Read!DoneAccepts
  <2>4. Read!MetricRow(file).findings = Len(file.findings) /\ ~Read!MetricRow(file).incomplete
    <3>1. Read!MetricRow(file).findings = Len(file.findings)
      BY <2>1 DEF Read!MetricRow
    <3>2. Read!MetricRow(file).incomplete = ~Read!LoadFindings(file).ok
      BY DEF Read!MetricRow
    <3>3. Read!LoadFindings(file).ok
      BY <2>1
    <3>4. ~Read!MetricRow(file).incomplete
      BY <3>2, <3>3, Zenon
    <3>5. QED
      BY <3>1, <3>4, Zenon
  <2>5. file \in Read!LoadRegisters([x \in {id} |-> file]).registers
    BY <2>1 DEF Read!LoadRegisters
  <2>6. \A read \in {Read!LoadOwnedFindings(id, file), Read!ParseRegisterForWrite(id, file),
                     Read!LoadMarkedRegister(id, file)} : ~read.remint
    BY <2>1
  <2>7. ASSUME NEW f \in Read!Range(file.findings)
        PROVE  Cardinality({s \in {"worked", "failed", "notTried"} : f \in told[s]}) = 1
    <3> DEFINE S == {s \in {"worked", "failed", "notTried"} : f \in told[s]}
    <3>1. f.status \in {"UNRESOLVED", "RESOLVED", "WONT-FIX"}
      BY <1>1 DEF Read!ValidateFindings, Read!ShapeLawful, Read!FindingStatuses, Read!Range
    <3>2. \A status : f \in Read!Of(file, status) <=> f.status = status
      BY DEF Read!Of
    <3>3. f \in Read!Missing(file) => f.status = "RESOLVED"
      BY <3>2 DEF Read!Missing
    <3>4. told = [worked |-> Read!Of(file, "RESOLVED") \ Read!Missing(file), failed |-> Read!Of(file, "WONT-FIX"),
                  notTried |-> Read!Of(file, "UNRESOLVED") \cup Read!Missing(file)]
      BY <2>1 DEF Read!Handoff
    <3>5. S \in {{"worked"}, {"failed"}, {"notTried"}}
      BY <3>1, <3>2, <3>3, <3>4
    <3>6. QED
      BY <3>5, FS_Singleton
  <2>8. told.notTried = {} <=> Read!Missing(file) = {} /\ Read!Of(file, "UNRESOLVED") = {}
    BY <2>1 DEF Read!Handoff
  <2>9. Read!VerdictClean(id, file) <=> Read!DoneAccepts(id, file)
    BY <2>2, <2>3
  <2>10. register.marker = "set" => (Read!VerdictClean(id, file) <=> told.notTried = {})
    BY <2>1, <2>2, <2>8
  <2>11. \A f \in Read!Range(register.findings) :
            Cardinality({s \in {"worked", "failed", "notTried"} : f \in told[s]}) = 1
    BY <2>1, <2>7
  <2>12. QED
    BY <2>4, <2>5, <2>6, <2>9, <2>10, <2>11, SameCardinality DEF Read!RegisterReadAlike
<1>2. CASE ~(lawful /\ file.task = id)
  <2>1. /\ ~Read!LoadMarkedRegister(id, file).ok
        /\ Read!LoadOwnedFindings(id, file).register = Null
        /\ \A read \in {Read!LoadOwnedFindings(id, file), Read!ParseRegisterForWrite(id, file),
                        Read!LoadMarkedRegister(id, file)} : read.remint => file.findings = <<>>
    <3> DEFINE none == [ok |-> FALSE, register |-> Null, remint |-> FALSE]
               own  == [ok |-> FALSE, register |-> Null, remint |-> file # Null /\ file.findings = <<>>]
               nil  == [ok |-> TRUE, register |-> Null, remint |-> FALSE]
    <3>1. CASE file = Null
      <4>1. /\ Read!LoadOwnedFindings(id, file) = nil
            /\ Read!LoadMarkedRegister(id, file) = none /\ Read!ParseRegisterForWrite(id, file) = none
        BY <3>1, ReadersTake
      <4>2. ~none.ok /\ ~none.remint /\ ~nil.remint /\ none.register = Null /\ nil.register = Null
        OBVIOUS
      <4> HIDE DEF none, nil
      <4>3. QED
        BY <4>1, <4>2
    <3>2. CASE file # Null /\ ~lawful
      <4>1. /\ Read!LoadOwnedFindings(id, file) = none /\ Read!LoadMarkedRegister(id, file) = none
            /\ Read!ParseRegisterForWrite(id, file) = none \/ Read!ParseRegisterForWrite(id, file) = own
        <5>1. /\ Read!LoadOwnedFindings(id, file) = Read!Refused(Null) /\ Read!LoadMarkedRegister(id, file) = Read!Refused(Null)
              /\ Read!ParseRegisterForWrite(id, file) \in {Read!Refused(Null), Read!Refused(file)}
          BY <3>2, ReadersTake
        <5>2. QED
          BY <5>1
      <4>2. ~none.ok /\ ~none.remint /\ none.register = Null /\ (own.remint => file.findings = <<>>)
        OBVIOUS
      <4> HIDE DEF none, own
      <4>3. QED
        BY <4>1, <4>2
    <3>3. CASE lawful /\ file.task # id
      <4>1. /\ Read!LoadOwnedFindings(id, file) = own /\ Read!LoadMarkedRegister(id, file) = own
            /\ Read!ParseRegisterForWrite(id, file) = own
        BY <3>3, ReadersTake
      <4>2. ~own.ok /\ own.register = Null /\ (own.remint => file.findings = <<>>)
        OBVIOUS
      <4> HIDE DEF own
      <4>3. QED
        BY <4>1, <4>2
    <3>4. QED
      BY <1>2, <3>1, <3>2, <3>3
  <2>2. ~Read!VerdictClean(id, file) /\ ~Read!DoneAccepts(id, file)
    BY <2>1 DEF Read!VerdictClean, Read!DoneAccepts
  <2>3. QED
    BY <2>1, <2>2 DEF Read!RegisterReadAlike
<1>3. QED
  BY <1>1, <1>2

LEMMA LessonsReach ==
    ASSUME NothingIsNoValue, NEW dir, IsDirectory(dir, AnyRegister \cup {Null}), NEW id \in DOMAIN dir
    PROVE  Read!LessonsReachThePass(dir, id)
<1> DEFINE read(x) == dir[x] # Null /\ Read!LoadFindings(dir[x]).ok
           rows(x) == {<<dir[x].task, f.id>> : f \in Read!Of(dir[x], "WONT-FIX")}
           loaded  == Read!LoadRegisters(dir)
<1>1. ASSUME NEW x \in DOMAIN dir, read(x)
      PROVE  Read!LoadFindings(dir[x]).register = dir[x] /\ dir[x] \in loaded.registers
  BY <1>1 DEF Read!LoadFindings, Read!LoadRegisters
<1>2. loaded.registers \subseteq {dir[x] : x \in {y \in DOMAIN dir : read(y)}}
  <2>1. loaded.registers = {Read!LoadFindings(dir[x]).register : x \in {y \in {z \in DOMAIN dir : dir[z] # Null} : Read!LoadFindings(dir[y]).ok}}
    BY DEF Read!LoadRegisters
  <2>2. QED
    BY <1>1, <2>1
<1>3. IsFiniteSet(loaded.registers)
  <2> DEFINE R == {y \in DOMAIN dir : read(y)}
  <2>1. IsFiniteSet(R) /\ R \subseteq DOMAIN dir
    BY FS_Subset DEF IsDirectory
  <2>2. IsFiniteSet({dir[x] : x \in R})
    <3>1. [x \in R |-> dir[x]] \in Surjection(R, {dir[x] : x \in R})
      BY DEF Surjection
    <3>2. QED
      BY <2>1, <3>1, FS_Surjection
  <2>3. QED
    BY <1>2, <2>2, FS_Subset
<1>4. Read!LessonsIndex(loaded.registers).registers # 0 \/ loaded.registers = {}
  <2>1. Read!LessonsIndex(loaded.registers).registers = Cardinality(loaded.registers)
    BY SameCardinality DEF Read!LessonsIndex
  <2>2. QED
    BY <1>3, <2>1, FS_EmptySet
<1>5. Read!LessonsIndex(loaded.registers).wontFix = Read!WontFixOf(loaded.registers)
  BY DEF Read!LessonsIndex
<1>6. ASSUME NEW x \in DOMAIN dir, read(x) PROVE rows(x) \subseteq Read!PreparedLessons(dir).rows
  <2>1. rows(x) \subseteq Read!WontFixOf(loaded.registers)
    BY <1>1, <1>6 DEF Read!WontFixOf
  <2>2. Read!PreparedLessons(dir).rows = Read!BundleBlock(Read!LessonsIndex(loaded.registers))
    BY DEF Read!PreparedLessons
  <2>3. loaded.registers # {}
    BY <1>1, <1>6
  <2>4. QED
    BY <1>4, <1>5, <2>1, <2>2, <2>3 DEF Read!BundleBlock
<1>7. ASSUME NEW x \in DOMAIN dir, dir[x] # Null, ~read(x)
      PROVE  Read!PreparedLessons(dir).warned /\ ~Read!IndexGreen(TRUE, dir)
  <2>1. x \in loaded.skipped
    BY <1>7 DEF Read!LoadRegisters
  <2>2. QED
    BY <2>1 DEF Read!PreparedLessons, Read!IndexGreen
<1> DEFINE others == {r \in loaded.registers : r.task # id}
<1>8. ASSUME NEW x \in DOMAIN dir, read(x), dir[x].task # id PROVE rows(x) \subseteq Read!ReplayedLessons(dir, id)
  <2>1. dir[x] \in others
    BY <1>1, <1>8
  <2>2. IsFiniteSet(others)
    BY <1>3, FS_Subset
  <2>3. Read!LessonsIndex(others).registers = Cardinality(others)
    BY SameCardinality DEF Read!LessonsIndex
  <2>4. Read!LessonsIndex(others).registers # 0
    BY <2>1, <2>2, <2>3, FS_EmptySet
  <2>5. rows(x) \subseteq Read!WontFixOf(others)
    BY <2>1 DEF Read!WontFixOf
  <2>6. QED
    BY <2>4, <2>5 DEF Read!ReplayedLessons, Read!BundleBlock, Read!LessonsIndex
<1>9. ASSUME read(id), dir[id].task = id PROVE rows(id) \cap Read!ReplayedLessons(dir, id) = {}
  <2>1. Read!ReplayedLessons(dir, id) \subseteq Read!WontFixOf(others)
    BY DEF Read!ReplayedLessons, Read!BundleBlock, Read!LessonsIndex
  <2>2. \A row \in Read!WontFixOf(others) : row[1] # id
    BY DEF Read!WontFixOf
  <2>3. \A row \in rows(id) : row[1] = id
    BY <1>9
  <2>4. QED
    BY <2>1, <2>2, <2>3
<1>10. QED
  BY <1>6, <1>7, <1>8, <1>9 DEF Read!LessonsReachThePass

-----------------------------------------------------------------------------
(* The footer: hook and git leave the same paragraphs, or git leaves none. *)
LEMMA FootersRead ==
    ASSUME NEW cites, NEW tail, NEW c, IsMessage(tail, c)
    PROVE  Message!HookReadsWhatIsCommitted(cites, tail, c)
<1> DEFINE below == Message!Template(c)
           text  == tail \o below
           mode  == Message!GitCleanupMode(c.editor, c.cleanup)
           hook  == Message!Cleaned(text, mode)
           git   == Message!CommittedTail(text, c)
<1>1. /\ tail \in Seq(Paragraphs) /\ c.editor \in BOOLEAN /\ c.verbose \in BOOLEAN /\ c.kept \in BOOLEAN
      /\ (\E i \in DOMAIN tail : tail[i] = "scissors") => c.verbose
  BY DEF IsMessage
<1>2. below \in Seq(Paragraphs)
  <2> DEFINE help == IF c.cleanup = "scissors" THEN <<"scissors", "comment">>
                      ELSE IF c.kept THEN <<"comment">> ELSE <<>>
             cut  == IF c.verbose /\ c.cleanup # "scissors" THEN <<"scissors">> ELSE <<>>
             diff == IF c.verbose THEN <<"diff">> ELSE <<>>
  <2>1. help \in Seq(Paragraphs) /\ cut \in Seq(Paragraphs) /\ diff \in Seq(Paragraphs)
    <3>1. /\ <<>> \in Seq(Paragraphs) /\ <<"comment">> \in Seq(Paragraphs) /\ <<"scissors">> \in Seq(Paragraphs)
          /\ <<"diff">> \in Seq(Paragraphs) /\ <<"scissors", "comment">> \in Seq(Paragraphs)
      BY DEF Paragraphs
    <3>2. QED
      BY <3>1, Zenon
  <2>2. below = IF ~c.editor THEN <<>> ELSE help \o cut \o diff
    BY DEF Message!Template
  <2> HIDE DEF help, cut, diff, below
  <2>3. QED
    BY <2>1, <2>2
<1>3. text \in Seq(Paragraphs) /\ \A i \in DOMAIN text : (\E j \in DOMAIN tail : text[i] = tail[j]) \/ (\E j \in DOMAIN below : text[i] = below[j])
  BY <1>1, <1>2
<1>4. ASSUME ~c.verbose, ~(c.editor /\ c.cleanup = "scissors"), NEW i \in DOMAIN text PROVE text[i] # "scissors"
  <2>1. \A j \in DOMAIN tail : tail[j] # "scissors"
    BY <1>1, <1>4
  <2>2. \A j \in DOMAIN below : below[j] # "scissors"
    <3>1. below = <<>> \/ below = <<"comment">>
      <4>1. c.editor => below = (IF c.kept THEN <<"comment">> ELSE <<>>)
        <5> DEFINE kept == IF c.kept THEN <<"comment">> ELSE <<>>
        <5>1. kept \in Seq({"comment"})
          <6>1. <<>> \in Seq({"comment"}) /\ <<"comment">> \in Seq({"comment"})
            OBVIOUS
          <6> QED BY <6>1, Zenon
        <5>2. c.editor => below = kept \o <<>> \o <<>>
          BY <1>4 DEF Message!Template
        <5> HIDE DEF kept, below
        <5>3. kept \o <<>> \o <<>> = kept
          BY <5>1
        <5> QED BY <5>2, <5>3 DEF kept
      <4>2. ~c.editor => below = <<>>
        BY DEF Message!Template
      <4> HIDE DEF below
      <4> QED BY <4>1, <4>2
    <3> HIDE DEF below
    <3> QED BY <3>1
  <2>3. QED
    BY <1>3, <2>1, <2>2
<1>5. (\A i \in DOMAIN text : text[i] # "scissors") => Message!CutAtScissors(text) = DOMAIN text
  BY <1>3 DEF Message!CutAtScissors
<1>6. git \subseteq DOMAIN text
  BY DEF Message!CommittedTail, Message!CutAtScissors
<1>7. ASSUME mode = "strip" PROVE hook = git
  <2>1. Message!StripsComments(c) /\ ~(c.editor /\ c.cleanup = "scissors")
    BY <1>7 DEF Message!GitCleanupMode, Message!StripsComments
  <2>2. hook = {i \in Message!CutAtScissors(text) : text[i] # "comment"}
    BY <1>7 DEF Message!Cleaned, Message!CleanCommitMessage
  <2>3. git = {i \in Message!CutAtScissors(text) : text[i] # "comment"}
    BY <1>4, <1>5, <2>1 DEF Message!CommittedTail
  <2>4. QED
    BY <2>2, <2>3
<1>8. ASSUME mode = "scissors" PROVE hook = git
  <2>1. c.editor /\ c.cleanup = "scissors" /\ ~Message!StripsComments(c)
    BY <1>1, <1>8 DEF Message!GitCleanupMode, Message!StripsComments
  <2>2. hook = Message!CutAtScissors(text)
    BY <1>8 DEF Message!Cleaned
  <2>3. git = Message!CutAtScissors(text)
    BY <2>1 DEF Message!CommittedTail
  <2>4. QED
    BY <2>2, <2>3
<1> DEFINE strict == c.cleanup = "strip" \/ (c.cleanup \in {"default", "scissors"} /\ ~Message!Contains(tail, "scissors"))
<1>9. ASSUME mode = "raw" PROVE hook = DOMAIN text /\ (strict => git = DOMAIN text)
  <2>1. hook = DOMAIN text
    BY <1>9 DEF Message!Cleaned
  <2>2. ~Message!StripsComments(c) /\ ~(c.editor /\ c.cleanup = "scissors")
    BY <1>9 DEF Message!GitCleanupMode, Message!StripsComments
  <2>3. ASSUME c.cleanup \in {"default", "scissors"}, ~Message!Contains(tail, "scissors") PROVE git = DOMAIN text
    <3>1. ~c.editor /\ below = <<>>
      BY <1>1, <1>9, <2>3 DEF Message!GitCleanupMode, Message!Template
    <3>2. \A i \in DOMAIN text : text[i] # "scissors"
      BY <1>1, <2>3, <3>1 DEF Message!Contains
    <3>3. QED
      BY <1>5, <2>2, <3>2 DEF Message!CommittedTail
  <2>4. c.cleanup # "strip"
    BY <1>9 DEF Message!GitCleanupMode
  <2>5. QED
    BY <2>1, <2>3, <2>4
<1>10. mode \in {"strip", "scissors", "raw"}
  BY DEF Message!GitCleanupMode
<1>11. (hook = {} => git = {}) /\ (strict => hook = git)
  BY <1>6, <1>7, <1>8, <1>9, <1>10
<1>12. /\ Message!TaskFooterOf(Message!Buffer(cites, tail, c), mode) = IF hook = {} THEN cites ELSE NoFooter
       /\ Message!Buffer(cites, tail, c).tail = text
  BY DEF Message!TaskFooterOf, Message!Buffer
<1> HIDE DEF below, text, hook, git
<1>13. QED
  BY <1>11, <1>12 DEF Message!HookReadsWhatIsCommitted, git

(* The file a payload names is one of its three names. *)
LEMMA NamesAFile == ASSUME NEW p \in AnyPayload PROVE Editor!NamedFile(p) \in PathNames \cup {Null}
<1> DEFINE names == <<p.file_path, p.filePath, p.path>>
           given == {i \in DOMAIN names : names[i] # Null}
<1>1. DOMAIN names = 1..3 /\ \A i \in 1..3 : names[i] \in PathNames \cup {Null}
  BY DEF AnyPayload
<1>2. CASE given = {}
  <2>1. \A i \in DOMAIN names : names[i] = Null
    BY <1>2
  <2>2. Editor!NamedFile(p) = Null
    BY <2>1 DEF Editor!NamedFile, Editor!Coalesce
  <2>3. QED
    BY <2>2
<1>3. CASE given # {}
  <2>1. given \in SUBSET Nat
    BY <1>1
  <2> HIDE DEF given
  <2>2. Editor!Min(given) \in given
    BY <1>3, <2>1, LeastElement DEF Editor!Min
  <2>3. Editor!NamedFile(p) = names[Editor!Min(given)]
    BY <1>3 DEF Editor!NamedFile, Editor!Coalesce, given
  <2>4. QED
    BY <1>1, <2>2, <2>3 DEF given
<1>4. QED
  BY <1>2, <1>3

(* No record throws out of standingOf, and a record that throws authorizes nothing. *)
LEMMA Standing ==
    ASSUME NEW h, NEW files
    PROVE  /\ ~Editor!Crashes(h, files)
           /\ \A f : f \in Editor!Active(h, files) <=>
                        f \in Editor!ReadRecords(files) /\ Editor!StandingOf(h, files[f]) = "active"
           /\ \A f : Editor!StandingOf(h, files[f]) = "active" => h # "throwing" /\ ~files[f].throws
<1>1. \A r : Editor!StandingOf(h, r) \in {"none", "refused", "active"}
  BY DEF Editor!StandingOf
<1>2. \A r : Editor!StandingOf(h, r) = "active" => h # "throwing" /\ ~r.throws
  BY DEF Editor!StandingOf
<1>3. \A s \in Editor!Standings(h, files) : s[2] # "crash"
  BY <1>1 DEF Editor!Standings
<1>4. ASSUME NEW f
      PROVE  f \in Editor!Active(h, files) <=> f \in Editor!ReadRecords(files) /\ Editor!StandingOf(h, files[f]) = "active"
  <2>1. \A s : s \in Editor!Standings(h, files) <=> \E g \in Editor!ReadRecords(files) : s = <<g, Editor!StandingOf(h, files[g])>>
    BY DEF Editor!Standings
  <2>2. f \in Editor!Active(h, files) <=> \E s \in Editor!Standings(h, files) : s[2] = "active" /\ f = s[1]
    BY DEF Editor!Active
  <2>3. ASSUME NEW s \in Editor!Standings(h, files), s[2] = "active", f = s[1]
        PROVE  f \in Editor!ReadRecords(files) /\ Editor!StandingOf(h, files[f]) = "active"
    BY <2>1, <2>3
  <2>4. ASSUME f \in Editor!ReadRecords(files), Editor!StandingOf(h, files[f]) = "active"
        PROVE  \E s \in Editor!Standings(h, files) : s[2] = "active" /\ f = s[1]
    <3>1. <<f, "active">> \in Editor!Standings(h, files)
      BY <2>1, <2>4
    <3>2. QED
      BY <3>1
  <2>5. QED
    BY <2>2, <2>3, <2>4
<1>5. QED
  BY <1>2, <1>3, <1>4 DEF Editor!Crashes

(* A banner is told from silence. *)
LEMMA BannerSpeaks ==
    ASSUME NothingIsNoValue, NEW h, NEW files, IsDirectory(files, AnyTask), NEW ahead
    PROVE  [next    |-> Editor!Active(h, files),
            refused |-> {s[1] : s \in {t \in Editor!Standings(h, files) : t[2] = "refused"}},
            noTask  |-> Editor!Active(h, files) = {},
            sitrep  |-> Editor!SitrepLine(Editor!DoneFacts(h, files), ahead)] # Silent
<1> DEFINE done  == {f \in Editor!ReadRecords(files) : files[f].phase = "done"}
           facts == Editor!DoneFacts(h, files)
<1>1. Editor!ReadRecords(files) \subseteq DOMAIN files /\ DOMAIN files \subseteq STRING /\ IsFiniteSet(done)
  BY FS_Subset DEF IsDirectory, Editor!ReadRecords
<1>2. Editor!Cardinality(done) \in Nat
  BY <1>1, SameCardinality, FS_CardinalityType
<1>3. facts.count \in Nat /\ facts.last \in SUBSET STRING
  BY <1>1, <1>2 DEF Editor!DoneFacts, Editor!Dated
<1>4. Editor!SitrepLine(facts, ahead) \in [done : Nat, last : SUBSET STRING, ahead : Nat]
  BY <1>3 DEF Editor!SitrepLine
<1>5. Editor!Active(h, files) \in SUBSET STRING
  BY <1>1, Standing
<1>6. {s[1] : s \in {t \in Editor!Standings(h, files) : t[2] = "refused"}} \in SUBSET STRING
  BY <1>1 DEF Editor!Standings
<1>7. (Editor!Active(h, files) = {}) \in BOOLEAN
  OBVIOUS
<1>8. \A next, refused \in SUBSET STRING, noTask \in BOOLEAN, sitrep \in [done : Nat, last : SUBSET STRING, ahead : Nat] :
        [next |-> next, refused |-> refused, noTask |-> noTask, sitrep |-> sitrep] # Silent
  <2> SUFFICES ASSUME NEW next \in SUBSET STRING, NEW refused \in SUBSET STRING, NEW noTask \in BOOLEAN,
                      NEW sitrep \in [done : Nat, last : SUBSET STRING, ahead : Nat]
               PROVE  [next |-> next, refused |-> refused, noTask |-> noTask, sitrep |-> sitrep] # Silent
    OBVIOUS
  <2>1. [next |-> next, refused |-> refused, noTask |-> noTask, sitrep |-> sitrep] \in AnyBanner
    BY DEF AnyBanner
  <2>2. QED
    BY <2>1 DEF NothingIsNoValue
<1>9. QED
  BY <1>4, <1>5, <1>6, <1>7, <1>8, Zenon

(* The newest finished tasks of a directory: some, when some are dated. *)
LEMMA SomeAreNewest ==
    ASSUME NothingIsNoValue, NEW h, NEW files, IsDirectory(files, AnyTask), Editor!Dated(files) # {}
    PROVE  Editor!DoneFacts(h, files).count = 0 \/ Editor!DoneFacts(h, files).last # {}
<1> DEFINE at == [f \in Editor!Dated(files) |-> files[f].at]
<1>1. IsFiniteSet(Editor!Dated(files)) /\ \A f \in Editor!Dated(files) : files[f].at \in Nat
  BY FS_Subset DEF Editor!Dated, Editor!ReadRecords, IsDirectory, AnyTask
<1>2. \E f \in Editor!Dated(files) : \A g \in Editor!Dated(files) : at[g] <= at[f]
  BY <1>1, GreatestValue
<1>3. \E f \in Editor!Dated(files) : \A g \in Editor!Dated(files) : files[g].at <= files[f].at
  BY <1>2
<1>4. QED
  BY <1>3 DEF Editor!DoneFacts

(* The two hooks over one directory. *)
LEMMA EditorsAgree ==
    ASSUME NothingIsNoValue, NEW p \in AnyPayload, NEW above, NEW own,
           NEW files, IsDirectory(files, AnyTask), NEW git
    PROVE  Editor!HooksAgree(p, above, own, files, git)
<1> DEFINE h      == Editor!HarnessOf(p, above, own)
           target == Editor!ParseEditPayload(p)
           banner == Editor!Banner(p, above, own, files, git)
           gate   == Editor!GateExit(p, above, own, files)
           sound  == {f \in DOMAIN files : files[f].json /\ files[f].id = f /\ ~files[f].throws}
           kept   == [f \in sound |-> files[f]]
           active == Editor!Active(h, files)
           said   == [next    |-> active,
                      refused |-> {s[1] : s \in {t \in Editor!Standings(h, files) : t[2] = "refused"}},
                      noTask  |-> active = {},
                      sitrep  |-> Editor!SitrepLine(Editor!DoneFacts(h, files), Editor!AheadOf(git))]
<1>1. Editor!ReadRecords(files) = Editor!ReadTaskRecords(files)
  <2>1. \A f \in DOMAIN files : files[f].json \in BOOLEAN
    BY DEF IsDirectory, AnyTask
  <2>2. QED
    BY <2>1 DEF Editor!ReadRecords, Editor!ReadTaskRecords
<1>2. banner = IF Editor!LawLoads(h) THEN said ELSE Silent
  BY Standing DEF Editor!Banner
<1>3. said # Silent
  BY BannerSpeaks
<1>4. Editor!LawLoads(h) \in BOOLEAN
  BY DEF Editor!LawLoads
<1>5. ASSUME NEW dir
      PROVE  Editor!GateExit(p, above, own, dir) = 0 <=>
                /\ p.json /\ Editor!LawLoads(h) /\ h # "throwing"
                /\ target = "doc" \/ (target = "code" /\ \E f \in Editor!Active(h, dir) : dir[f].covers)
  <2>1. target \in {Null, "code", "doc", "outside"}
    BY NamesAFile DEF PathNames, Editor!ParseEditPayload
  <2>2. ~Editor!Crashes(h, dir)
    BY Standing
  <2>3. Editor!AuthoringDecision(target, h, dir) = "allow" /\ target # Null <=>
            h # "throwing" /\ (target = "doc" \/ (target = "code" /\ \E f \in Editor!Active(h, dir) : dir[f].covers))
    BY <2>1, <2>2 DEF NothingIsNoValue, PathNames, Editor!AuthoringDecision
  <2>4. QED
    BY <2>1, <2>3 DEF Editor!GateExit
<1>6. Editor!Active(h, kept) = active /\ \A f \in active : f \in sound /\ kept[f] = files[f]
  <2>1. ASSUME NEW f PROVE f \in active <=> f \in sound /\ Editor!StandingOf(h, files[f]) = "active"
    <3>1. files[f].throws \in BOOLEAN \/ f \notin DOMAIN files
      BY DEF IsDirectory, AnyTask
    <3>2. QED
      BY <3>1, Standing DEF Editor!ReadRecords
  <2>2. ASSUME NEW f PROVE f \in Editor!Active(h, kept) <=> f \in sound /\ Editor!StandingOf(h, files[f]) = "active"
    <3>1. f \in Editor!ReadRecords(kept) <=> f \in sound
      BY DEF Editor!ReadRecords
    <3>2. QED
      BY <3>1, Standing
  <2>3. QED
    BY <2>1, <2>2
<1>7. gate = Editor!GateExit(p, above, own, kept)
  <2>1. \A dir : Editor!GateExit(p, above, own, dir) \in {0, 2}
    BY DEF Editor!GateExit
  <2>2. (\E f \in active : files[f].covers) <=> \E f \in Editor!Active(h, kept) : kept[f].covers
    BY <1>6
  <2> HIDE DEF h, target, kept, active
  <2>3. gate = 0 <=> Editor!GateExit(p, above, own, kept) = 0
    BY <1>5, <2>2 DEF active
  <2>4. QED
    BY <2>1, <2>3
<1>8. ASSUME gate = 0
      PROVE  /\ p.json /\ Editor!NamedFile(p) \in {"code", "doc"} /\ banner # Silent
             /\ Editor!NamedFile(p) = "code" => \E f \in banner.next : files[f].covers
  <2>1. p.json /\ Editor!LawLoads(h) /\ (target = "doc" \/ (target = "code" /\ \E f \in active : files[f].covers))
    BY <1>5, <1>8
  <2>2. target = Editor!NamedFile(p)
    BY <2>1 DEF NothingIsNoValue, PathNames, Editor!ParseEditPayload
  <2>3. banner = said /\ said.next = active
    BY <1>2, <2>1
  <2> HIDE DEF banner, said
  <2>4. QED
    BY <1>3, <2>1, <2>2, <2>3
<1>9. banner # Silent => banner = said /\ Editor!LawLoads(h)
  BY <1>2, <1>4
<1>10. ASSUME NEW f \in active PROVE f \notin said.refused
  <2>1. \A s \in Editor!Standings(h, files) : s[2] = Editor!StandingOf(h, files[s[1]])
    BY DEF Editor!Standings
  <2>2. Editor!StandingOf(h, files[f]) # "refused"
    BY Standing
  <2>3. QED
    BY <2>1, <2>2
<1>11. ASSUME NEW f \in active, p.json, target = "code", files[f].covers, Editor!LawLoads(h) PROVE gate = 0
  BY <1>5, <1>11, Standing
<1> DEFINE facts == Editor!DoneFacts(h, files)
<1>12. /\ \A f \in said.sitrep.last : files[f].phase = "done" /\ said.sitrep.done > 0
       /\ said.sitrep.done > 0 /\ Editor!Dated(files) # {} => said.sitrep.last # {}
  <2>1. facts.count \in Nat /\ \A f \in facts.last : files[f].phase = "done"
    <3>1. IsFiniteSet({f \in Editor!ReadRecords(files) : files[f].phase = "done"})
      BY FS_Subset DEF IsDirectory, Editor!ReadRecords
    <3>2. Editor!Cardinality({f \in Editor!ReadRecords(files) : files[f].phase = "done"}) \in Nat
      BY <3>1, SameCardinality, FS_CardinalityType
    <3>3. QED
      BY <3>2 DEF Editor!DoneFacts, Editor!Dated
  <2>2. said.sitrep.done = facts.count /\ said.sitrep.last = IF facts.count = 0 THEN {} ELSE facts.last
    BY DEF Editor!SitrepLine
  <2>3. Editor!Dated(files) # {} => facts.count = 0 \/ facts.last # {}
    BY SomeAreNewest
  <2> HIDE DEF facts, said
  <2>4. QED
    BY <2>1, <2>2, <2>3
<1>13. banner # Silent =>
         /\ banner.noTask <=> banner.next = {}
         /\ banner.next \cap banner.refused = {}
         /\ \A f \in banner.next : p.json /\ target = "code" /\ files[f].covers => gate = 0
         /\ \A f \in banner.sitrep.last : files[f].phase = "done" /\ banner.sitrep.done > 0
         /\ banner.sitrep.done > 0 /\ Editor!Dated(files) # {} => banner.sitrep.last # {}
  <2>1. said.next = active /\ (said.noTask <=> said.next = {})
    OBVIOUS
  <2> HIDE DEF banner, said, gate, target, active, h
  <2>2. QED
    BY <1>9, <1>10, <1>11, <1>12, <2>1
<1>14. banner = Silent <=> ~Editor!LawLoads(h)
  BY <1>2, <1>3
<1> HIDE DEF said
<1>15. QED
  BY <1>1, <1>7, <1>8, <1>13, <1>14, Zenon DEF Editor!HooksAgree

-----------------------------------------------------------------------------
(* The states of a shell; a script that runs through them; what the shell is *)
(* like before a line of it, when no gate ran yet.                           *)
ShellState == [errexit : BOOLEAN, carried : {"none", "quote", "backslash"}, dead : BOOLEAN, exited : BOOLEAN, ok : BOOLEAN]

RunsThrough(after, script, initial, pass) ==
    /\ after[0] = Shell!Started(initial)
    /\ \A n \in 1..Len(script) : after[n] = Shell!Step(after[n - 1], script[n], pass)

StandsBefore(st, script, i, initial, fresh) ==
    /\ st \in ShellState /\ ~st.exited /\ st.ok
    /\ st.carried = Shell!CarriedBefore(script, i)
    /\ st.dead <=> Shell!InBranch(script, i)
    /\ Shell!ErrexitAbove(script, i, initial, fresh) => st.errexit

(* What a gate makes of a state, and that the script ends with it unless it  *)
(* goes on past a refusal.                                                   *)
Judged(st, f, pass) == IF Shell!Probe(f) THEN Shell!RunProbe(st, f, pass) ELSE Shell!RunGate(st, f, pass)

Decided(st, script, g, initial, pass, fresh) ==
    /\ st \in ShellState
    /\ Shell!ErrexitAbove(script, g, initial, fresh) => st.errexit
    /\ LET out == Judged(st, script[g].form, pass)
       IN  out.exited \/ out.ok \/ g = Len(script) => Shell!Run(script, initial, pass) = out.ok

(* The states of a shell along a script. *)
LEMMA ShellUnrolls ==
    ASSUME NEW script, Len(script) \in Nat, NEW initial, NEW pass
    PROVE  \E after : RunsThrough(after, script, initial, pass) /\ Shell!Run(script, initial, pass) = after[Len(script)].ok
<1> DEFINE Unrolled(f, n) ==
               f = [i \in 0..n |-> IF i = 0 THEN Shell!Started(initial) ELSE Shell!Step(f[i - 1], script[i], pass)]
           S == {n \in Nat : \E f : Unrolled(f, n)}
<1>1. 0 \in S
  <2> DEFINE f == [i \in 0..0 |-> Shell!Started(initial)]
  <2>1. Unrolled(f, 0)
    OBVIOUS
  <2> QED BY <2>1
<1>2. ASSUME NEW n \in S PROVE n + 1 \in S
  <2>1. n \in Nat
    OBVIOUS
  <2>2. PICK f : Unrolled(f, n)
    OBVIOUS
  <2> DEFINE g == [i \in 0..(n + 1) |-> IF i <= n THEN f[i] ELSE Shell!Step(f[n], script[n + 1], pass)]
  <2>3. \A i \in 0..(n + 1) : g[i] = IF i = 0 THEN Shell!Started(initial) ELSE Shell!Step(g[i - 1], script[i], pass)
    <3> TAKE i \in 0..(n + 1)
    <3>1. CASE i <= n
      BY <2>1, <2>2, <3>1
    <3>2. CASE i = n + 1
      BY <2>1, <3>2
    <3> QED BY <2>1, <3>1, <3>2
  <2>4. Unrolled(g, n + 1)
    BY <2>3
  <2> HIDE DEF g, Unrolled
  <2> QED BY <2>1, <2>4
<1>3. S = Nat
  <2>1. S \in SUBSET Nat
    OBVIOUS
  <2> HIDE DEF S
  <2> QED BY <1>1, <1>2, <2>1, SetInduction
<1> DEFINE after == CHOOSE f : Unrolled(f, Len(script))
<1>4. Unrolled(after, Len(script))
  <2>1. \E f : Unrolled(f, Len(script))
    BY <1>3
  <2> HIDE DEF Unrolled
  <2> QED BY <2>1
<1>5. Shell!Run(script, initial, pass) = after[Len(script)].ok
  BY DEF Shell!Run
<1> HIDE DEF after
<1>6. RunsThrough(after, script, initial, pass)
  BY <1>4 DEF RunsThrough
<1>7. QED
  BY <1>5, <1>6

(* What a line is handed follows from what the line above was, and is. *)
LEMMA CarriedOn ==
    ASSUME NEW script \in Seq(AnyScriptLine)
    PROVE  /\ Shell!CarriedBefore(script, 1) = "none"
           /\ \A i \in DOMAIN script :
                Shell!CarriedBefore(script, i + 1) = Shell!CarriedState(Shell!CarriedBefore(script, i), script[i])
<1> DEFINE flips(i) == {j \in 1..(i - 1) : script[j].flips}
<1>0. /\ Len(script) \in Nat /\ DOMAIN script = 1..Len(script)
      /\ \A i \in DOMAIN script : script[i].flips \in BOOLEAN
  <2>1. Len(script) \in Nat /\ DOMAIN script = 1..Len(script) /\ \A i \in DOMAIN script : script[i] \in AnyScriptLine
    OBVIOUS
  <2>2. \A line \in AnyScriptLine : line.flips \in BOOLEAN
    BY DEF AnyScriptLine
  <2>3. QED
    BY <2>1, <2>2
<1>1. ~Shell!OpenQuote(script, 1)
  <2>1. flips(1) = {}
    OBVIOUS
  <2>2. Cardinality({}) = 0
    BY FS_EmptySet
  <2>3. QED
    BY <2>1, <2>2, SameCardinality DEF Shell!OpenQuote
<1>2. ASSUME NEW i \in DOMAIN script
      PROVE  Shell!OpenQuote(script, i + 1) = (Shell!OpenQuote(script, i) # script[i].flips)
  <2>1. IsFiniteSet(flips(i)) /\ i \notin flips(i) /\ Cardinality(flips(i)) \in Nat
    <3>1. 1 \in Int /\ i - 1 \in Int
      BY <1>0
    <3>2. IsFiniteSet(1..(i - 1)) /\ flips(i) \subseteq 1..(i - 1)
      BY <3>1, FS_Interval
    <3> HIDE DEF flips
    <3>3. IsFiniteSet(flips(i)) /\ Cardinality(flips(i)) \in Nat
      BY <3>2, FS_Subset, FS_CardinalityType
    <3>4. QED
      BY <1>0, <3>2, <3>3
  <2>2. flips(i + 1) = IF script[i].flips THEN flips(i) \cup {i} ELSE flips(i)
    BY <1>0
  <2>3. Shell!OpenQuote(script, i) = (Cardinality(flips(i)) % 2 = 1)
    BY SameCardinality DEF Shell!OpenQuote
  <2>4. Shell!OpenQuote(script, i + 1) = (Cardinality(flips(i + 1)) % 2 = 1)
    <3>1. (i + 1) - 1 = i
      BY <1>0
    <3>2. QED
      BY SameCardinality DEF Shell!OpenQuote
  <2> HIDE DEF flips
  <2>5. Cardinality(flips(i) \cup {i}) = Cardinality(flips(i)) + 1
    BY <2>1, FS_AddElement
  <2> DEFINE n == Cardinality(flips(i))
  <2>6. ((n + 1) % 2 = 1) = (n % 2 # 1)
    BY <2>1
  <2>7. CASE script[i].flips
    <3>1. Shell!OpenQuote(script, i + 1) = ((n + 1) % 2 = 1)
      BY <2>2, <2>4, <2>5, <2>7
    <3>2. QED
      BY <2>3, <2>6, <2>7, <3>1
  <2>8. CASE ~script[i].flips
    <3>1. Shell!OpenQuote(script, i + 1) = Shell!OpenQuote(script, i)
      BY <2>2, <2>3, <2>4, <2>8, Zenon
    <3>2. Shell!OpenQuote(script, i) \in BOOLEAN
      BY <2>3
    <3>3. script[i].flips = FALSE
      BY <1>0, <2>8
    <3>4. QED
      BY <3>1, <3>2, <3>3, Zenon
  <2>9. QED
    BY <1>0, <2>7, <2>8
<1>3. ASSUME NEW i \in DOMAIN script
      PROVE  Shell!CarriedBefore(script, i + 1) = Shell!CarriedState(Shell!CarriedBefore(script, i), script[i])
  <2>1. (Shell!CarriedBefore(script, i) = "quote") = Shell!OpenQuote(script, i)
    BY DEF Shell!CarriedBefore, Shell!OpenQuote
  <2>2. i + 1 > 1 /\ (i + 1) - 1 = i
    BY <1>0
  <2>3. QED
    BY <1>2, <2>1, <2>2 DEF Shell!CarriedBefore, Shell!CarriedState
<1>4. QED
  BY <1>1, <1>3 DEF Shell!CarriedBefore

(* A command that is not the gate succeeds; `exit 0` ends the script so. *)
LEMMA CommandsSucceed ==
    ASSUME NEW st \in ShellState, NEW line, line.cmd # "gate", NEW pass
    PROVE  Shell!RunCommand(st, line, pass) =
            IF line.cmd = "set -e" THEN [st EXCEPT !.errexit = TRUE, !.ok = TRUE]
            ELSE IF line.cmd = "set +e" THEN [st EXCEPT !.errexit = FALSE, !.ok = TRUE]
            ELSE IF line.cmd = "if false" THEN [st EXCEPT !.dead = TRUE, !.ok = TRUE]
            ELSE IF line.cmd = "exit 0" THEN [st EXCEPT !.exited = TRUE, !.ok = TRUE]
            ELSE [st EXCEPT !.ok = TRUE]
BY DEF Shell!RunCommand, Shell!Succeeds, Shell!ExitsWith, ShellState

(* They leave a shell a shell, that succeeded or had ended.                  *)
LEMMA CommandsGoOn ==
    ASSUME NEW st \in ShellState, NEW line, line.cmd # "gate", NEW pass
    PROVE  LET went == Shell!RunCommand(st, line, pass)
           IN  went \in ShellState /\ went.ok /\ (st.exited => went.exited)
<1> DEFINE went == Shell!RunCommand(st, line, pass)
           on   == [st EXCEPT !.errexit = TRUE, !.ok = TRUE]
           off  == [st EXCEPT !.errexit = FALSE, !.ok = TRUE]
           dead == [st EXCEPT !.dead = TRUE, !.ok = TRUE]
           ends == [st EXCEPT !.exited = TRUE, !.ok = TRUE]
           done == [st EXCEPT !.ok = TRUE]
           Fine(u) == u \in ShellState /\ u.ok /\ (st.exited => u.exited)
<1>1. went \in {on, off, dead, ends, done}
  <2>1. went = IF line.cmd = "set -e" THEN on
               ELSE IF line.cmd = "set +e" THEN off
               ELSE IF line.cmd = "if false" THEN dead
               ELSE IF line.cmd = "exit 0" THEN ends
               ELSE done
    BY CommandsSucceed, Zenon
  <2> HIDE DEF went, on, off, dead, ends, done
  <2> QED BY <2>1
<1>2. Fine(on) /\ Fine(off)
  BY DEF ShellState
<1>3. Fine(dead) /\ Fine(ends) /\ Fine(done)
  BY DEF ShellState
<1> HIDE DEF went, on, off, dead, ends, done
<1>4. Fine(went)
  BY <1>1, <1>2, <1>3
<1> QED BY <1>4 DEF went

(* Whatever the gate answers, the shell that ran it reads on in the open.    *)
LEMMA GateKeepsShell ==
    ASSUME NEW st \in ShellState, st.carried = "none", NEW f \in Shell!Form, NEW pass \in BOOLEAN
    PROVE  Judged(st, f, pass) \in ShellState /\ Judged(st, f, pass).carried = "none"
<1> DEFINE Fine(u) == u \in ShellState /\ u.carried = "none"
           ok == IF f.head = "!" THEN ~pass ELSE pass
<1>1. Fine(Shell!Succeeds(st))
  BY DEF Shell!Succeeds, ShellState
<1>2. \A k \in BOOLEAN : Fine(Shell!ExitsWith(st, k))
  BY DEF Shell!ExitsWith, ShellState
<1>3. \A k \in BOOLEAN, trips \in BOOLEAN : Fine(Shell!Ends(st, k, trips))
  <2> SUFFICES ASSUME NEW k \in BOOLEAN, NEW trips \in BOOLEAN PROVE Fine(Shell!Ends(st, k, trips))
    OBVIOUS
  <2>1. Fine([st EXCEPT !.ok = k])
    BY DEF ShellState
  <2> QED BY <1>2, <2>1 DEF Shell!Ends
<1>4. \A u \in ShellState : u.carried = "none" => Fine(Shell!GoesOn(u))
  BY DEF Shell!GoesOn, Shell!Succeeds, ShellState
<1> HIDE DEF Fine
<1>5. ok \in BOOLEAN
  OBVIOUS
<1> HIDE DEF ok
<1>6. \A trips \in BOOLEAN : Fine(Shell!GoesOn(Shell!Ends(st, ok, trips)))
  BY <1>3, <1>4, <1>5 DEF Fine
<1>7. Fine(Shell!RunProbe(st, f, pass))
  BY <1>1, <1>2 DEF Shell!RunProbe
<1>8. Fine(Shell!RunGate(st, f, pass))
  <2>1. f.tail \in {"|| true", "&", "| tee", "; true", "|| exit 0", "|| exit 1", ""} /\ f.chain \in BOOLEAN
    BY DEF Shell!Form
  <2> QED BY <1>1, <1>2, <1>3, <1>5, <1>6, <2>1 DEF Shell!RunGate, ok
<1> QED BY <1>7, <1>8 DEF Judged, Fine

(* Up to a gate that is reached, the shell stands where the readers say. *)
LEMMA UpToGate ==
    ASSUME NEW script, IsScript(script), NEW initial \in BOOLEAN, NEW pass \in BOOLEAN,
           NEW after, RunsThrough(after, script, initial, pass),
           NEW g \in DOMAIN script, \A j \in 1..(g - 1) : script[j].cmd # "gate",
           script[g].cmd = "gate", Shell!GateIsReached(script),
           NEW fresh, \A j \in fresh : Shell!CarriedBefore(script, j) = "none"
    PROVE  StandsBefore(after[g - 1], script, g, initial, fresh)
<1> DEFINE Stands(st, i) == StandsBefore(st, script, i, initial, fresh)
           S == {n \in Nat : n < g => Stands(after[n], n + 1)}
<1>1. /\ script \in Seq(AnyScriptLine) /\ Len(script) \in Nat /\ g \in 1..Len(script) /\ DOMAIN script = 1..Len(script)
      /\ \A i \in DOMAIN script : script[i] \in AnyScriptLine
  <2>1. script \in Seq(AnyScriptLine)
    BY DEF IsScript
  <2>2. QED
    BY <2>1
<1>2. 0 \in S
  <2>1. Shell!Started(initial) \in ShellState /\ Shell!Started(initial).carried = "none"
    BY DEF Shell!Started, ShellState
  <2>2. Shell!CarriedBefore(script, 1) = "none"
    BY <1>1, CarriedOn
  <2>3. ~Shell!InBranch(script, 1)
    BY DEF Shell!InBranch
  <2>4. Shell!ErrexitAbove(script, 1, initial, fresh) => initial
    <3>1. ASSUME NEW j \in 0..(1 - 1) PROVE j = 0
      OBVIOUS
    <3>2. QED
      BY <3>1 DEF Shell!ErrexitAbove
  <2>5. /\ ~Shell!Started(initial).exited /\ Shell!Started(initial).ok /\ ~Shell!Started(initial).dead
        /\ Shell!Started(initial).errexit = initial
    BY DEF Shell!Started
  <2>6. after[0] = Shell!Started(initial)
    BY DEF RunsThrough
  <2>7. Stands(after[0], 0 + 1)
    BY <2>1, <2>2, <2>3, <2>4, <2>5, <2>6 DEF StandsBefore
  <2>8. QED
    BY <2>7
<1>3. ASSUME NEW n \in S PROVE n + 1 \in S
  <2> DEFINE i == n + 1
             st == after[n]
             line == script[i]
             next == after[i]
  <2> SUFFICES ASSUME i < g PROVE Stands(next, i + 1)
    OBVIOUS
  <2>1. n \in Nat /\ i \in DOMAIN script /\ i \in 1..(g - 1) /\ i - 1 = n /\ Stands(st, i)
    BY <1>1
  <2>2. /\ st \in ShellState /\ ~st.exited /\ st.ok
        /\ st.carried = Shell!CarriedBefore(script, i)
        /\ st.dead <=> Shell!InBranch(script, i)
        /\ Shell!ErrexitAbove(script, i, initial, fresh) => st.errexit
    BY <2>1 DEF StandsBefore
  <2>3. line \in AnyScriptLine /\ line.cmd # "gate"
    BY <1>1, <2>1
  <2>4. next = Shell!Step(st, line, pass)
    BY <1>1, <2>1 DEF RunsThrough
  <2>5. Shell!CarriedBefore(script, i + 1) = Shell!CarriedState(st.carried, line)
    BY <1>1, <2>1, <2>2, CarriedOn
  <2>6. /\ Shell!InBranch(script, i + 1) <=> line.cmd = "if false" \/ (Shell!InBranch(script, i) /\ line.cmd # "fi")
    <3>1. (i + 1) - 1 = i
      BY <2>1
    <3>2. \A b \in 1..i : b \in 1..(i - 1) \/ b = i
      BY <2>1
    <3>3. \A b \in 1..(i - 1) : \A k \in (b + 1)..i : k \in (b + 1)..(i - 1) \/ k = i
      BY <2>1
    <3>4. \A k \in (i + 1)..i : FALSE
      BY <2>1
    <3>5. \A b \in 1..(i - 1) : b \in 1..i /\ i \in (b + 1)..i /\ (b + 1)..(i - 1) \subseteq (b + 1)..i
      BY <2>1
    <3>6. i \in 1..i
      BY <2>1
    <3> HIDE DEF i
    <3>7. ASSUME Shell!InBranch(script, i + 1) PROVE line.cmd = "if false" \/ (Shell!InBranch(script, i) /\ line.cmd # "fi")
      <4>1. PICK b \in 1..i : script[b].cmd = "if false" /\ \A k \in (b + 1)..i : script[k].cmd # "fi"
        BY <3>1, <3>7 DEF Shell!InBranch
      <4>2. QED
        BY <3>2, <3>5, <4>1 DEF Shell!InBranch
    <3>8. ASSUME line.cmd = "if false" PROVE Shell!InBranch(script, i + 1)
      BY <3>1, <3>4, <3>6, <3>8 DEF Shell!InBranch
    <3>9. ASSUME Shell!InBranch(script, i), line.cmd # "fi" PROVE Shell!InBranch(script, i + 1)
      <4>1. PICK b \in 1..(i - 1) : script[b].cmd = "if false" /\ \A k \in (b + 1)..(i - 1) : script[k].cmd # "fi"
        BY <3>9 DEF Shell!InBranch
      <4>2. QED
        BY <3>1, <3>3, <3>5, <3>9, <4>1 DEF Shell!InBranch
    <3>10. QED
      BY <3>7, <3>8, <3>9
  <2>7. ASSUME Shell!ErrexitAbove(script, i + 1, initial, fresh)
        PROVE  /\ line.cmd # "set +e"
               /\ \/ Shell!ErrexitAbove(script, i, initial, fresh)
                  \/ line.cmd = "set -e" /\ st.carried = "none" /\ ~st.dead
    <3>1. PICK j \in 0..i :
            /\ IF j = 0 THEN initial ELSE script[j].cmd = "set -e" /\ script[j].column0 /\ j \in fresh
            /\ \A k \in (j + 1)..i : script[k].cmd # "set +e"
      <4>1. (i + 1) - 1 = i
        BY <2>1
      <4>2. QED
        BY <2>7, <4>1 DEF Shell!ErrexitAbove
    <3>2. CASE j < i
      <4>1. j \in 0..(i - 1) /\ i \in (j + 1)..i /\ (j + 1)..(i - 1) \subseteq (j + 1)..i
        BY <2>1, <3>2
      <4>2. QED
        BY <3>1, <4>1 DEF Shell!ErrexitAbove
    <3>3. CASE j = i
      <4>1. line.cmd = "set -e" /\ line.column0 /\ i \in fresh
        <5>1. j # 0
          BY <2>1, <3>3
        <5>2. QED
          BY <3>1, <3>3, <5>1
      <4>2. ~Shell!InBranch(script, i)
        BY <2>1, <4>1 DEF IsScript
      <4>3. QED
        BY <2>2, <4>1, <4>2
    <3>4. j < i \/ j = i
      BY <2>1
    <3>5. QED
      BY <3>2, <3>3, <3>4
  <2>8. /\ line.cmd \in {"if false", "fi"} => st.carried = "none"
        /\ line.cmd = "exit 0" => st.dead \/ st.carried # "none"
    BY <1>1, <2>1, <2>2 DEF IsScript, Shell!GateIsReached
  <2> HIDE DEF i, line, st, next
  <2> DEFINE runs == ~st.exited /\ st.carried = "none"
             ran  == IF runs /\ line.cmd = "fi" THEN [st EXCEPT !.dead = FALSE]
                     ELSE IF runs /\ ~st.dead THEN Shell!RunCommand(st, line, pass) ELSE st
  <2>9. /\ st \in ShellState /\ ~st.exited /\ st.ok
        /\ next = [ran EXCEPT !.carried = Shell!CarriedState(st.carried, line)]
    BY <2>2, <2>4 DEF Shell!Step
  <2>10. Shell!RunCommand(st, line, pass) =
            IF line.cmd = "set -e" THEN [st EXCEPT !.errexit = TRUE, !.ok = TRUE]
            ELSE IF line.cmd = "set +e" THEN [st EXCEPT !.errexit = FALSE, !.ok = TRUE]
            ELSE IF line.cmd = "if false" THEN [st EXCEPT !.dead = TRUE, !.ok = TRUE]
            ELSE IF line.cmd = "exit 0" THEN [st EXCEPT !.exited = TRUE, !.ok = TRUE]
            ELSE [st EXCEPT !.ok = TRUE]
    BY <2>3, <2>9, CommandsSucceed
  <2>11. /\ ran \in ShellState /\ ~ran.exited /\ ran.ok
         /\ ran.dead = IF line.cmd = "if false" THEN TRUE ELSE IF line.cmd = "fi" THEN FALSE ELSE st.dead
         /\ (st.errexit /\ line.cmd # "set +e") \/ (line.cmd = "set -e" /\ st.carried = "none" /\ ~st.dead) => ran.errexit
    BY <2>8, <2>9, <2>10 DEF ShellState
  <2> HIDE DEF ran
  <2>12. Shell!CarriedState(st.carried, line) \in {"none", "quote", "backslash"}
    BY DEF Shell!CarriedState
  <2>13. /\ next \in ShellState /\ ~next.exited /\ next.ok /\ next.dead = ran.dead /\ next.errexit = ran.errexit
         /\ next.carried = Shell!CarriedState(st.carried, line)
    BY <2>9, <2>11, <2>12 DEF ShellState
  <2>14. next.dead <=> Shell!InBranch(script, i + 1)
    BY <2>2, <2>6, <2>11, <2>13
  <2>15. Shell!ErrexitAbove(script, i + 1, initial, fresh) => next.errexit
    BY <2>2, <2>7, <2>11, <2>13
  <2>16. QED
    BY <2>5, <2>13, <2>14, <2>15 DEF StandsBefore
<1>4. S = Nat
  <2>1. S \in SUBSET Nat
    OBVIOUS
  <2> HIDE DEF S
  <2>2. QED
    BY <1>2, <1>3, <2>1, SetInduction
<1>5. g - 1 \in Nat /\ g - 1 < g /\ (g - 1) + 1 = g
  BY <1>1
<1>6. Stands(after[g - 1], g)
  BY <1>4, <1>5
<1>7. QED
  BY <1>6

(* Past the gate, the other commands succeed, or are not reached. *)
LEMMA PastGate ==
    ASSUME NEW script \in Seq(AnyScriptLine), NEW initial, NEW pass \in BOOLEAN,
           NEW after, RunsThrough(after, script, initial, pass),
           NEW g \in DOMAIN script, \A j \in (g + 1)..Len(script) : script[j].cmd # "gate",
           after[g] \in ShellState, after[g].exited \/ after[g].ok
    PROVE  after[Len(script)].ok = after[g].ok
<1> DEFINE Keeps(st) == st \in ShellState /\ (st.exited \/ st.ok) /\ st.ok = after[g].ok
           S == {n \in Nat : g + n <= Len(script) => Keeps(after[g + n])}
<1>1. /\ Len(script) \in Nat /\ g \in 1..Len(script) /\ g \in Nat
      /\ \A i \in 1..Len(script) : script[i] \in AnyScriptLine
  OBVIOUS
<1>2. 0 \in S
  BY <1>1
<1>3. ASSUME NEW n \in S PROVE n + 1 \in S
  <2> SUFFICES ASSUME g + (n + 1) <= Len(script) PROVE Keeps(after[g + (n + 1)])
    OBVIOUS
  <2> DEFINE i == g + (n + 1)
             st == after[g + n]
             line == script[i]
  <2>1. i \in 1..Len(script) /\ i \in (g + 1)..Len(script) /\ i - 1 = g + n /\ Keeps(st)
    BY <1>1
  <2>2. line \in AnyScriptLine /\ line.cmd # "gate" /\ after[i] = Shell!Step(st, line, pass)
    BY <1>1, <2>1 DEF RunsThrough
  <2> HIDE DEF i, st, line
  <2> DEFINE runs == ~st.exited /\ st.carried = "none"
             ran  == IF runs /\ line.cmd = "fi" THEN [st EXCEPT !.dead = FALSE]
                     ELSE IF runs /\ ~st.dead THEN Shell!RunCommand(st, line, pass) ELSE st
  <2>3. st \in ShellState /\ (st.exited \/ st.ok) /\ st.ok = after[g].ok
    BY <2>1
  <2>4. after[i] = [ran EXCEPT !.carried = Shell!CarriedState(st.carried, line)]
    BY <2>2 DEF Shell!Step
  <2>5. Shell!RunCommand(st, line, pass) \in ShellState /\ Shell!RunCommand(st, line, pass).ok
        /\ (st.exited => Shell!RunCommand(st, line, pass).exited)
    <3>1. st \in ShellState /\ line.cmd # "gate"
      BY <2>2, <2>3
    <3>2. QED
      BY <3>1, CommandsGoOn
  <2>6. ran \in ShellState /\ (ran.exited \/ ran.ok) /\ ran.ok = st.ok
    <3>1. CASE ran = st
      BY <2>3, <3>1
    <3>2. CASE ran = [st EXCEPT !.dead = FALSE]
      BY <2>3, <3>2 DEF ShellState
    <3>3. CASE runs /\ ran = Shell!RunCommand(st, line, pass)
      BY <2>3, <2>5, <3>3
    <3>4. QED
      BY <3>1, <3>2, <3>3
  <2> HIDE DEF ran
  <2>7. Shell!CarriedState(st.carried, line) \in {"none", "quote", "backslash"}
    BY DEF Shell!CarriedState
  <2>8. after[i] \in ShellState /\ after[i].exited = ran.exited /\ after[i].ok = ran.ok
    BY <2>4, <2>6, <2>7 DEF ShellState
  <2>9. Keeps(after[i])
    BY <2>3, <2>6, <2>8
  <2>10. QED
    BY <2>9 DEF i
<1>4. S = Nat
  <2>1. S \in SUBSET Nat
    OBVIOUS
  <2> HIDE DEF S
  <2>2. QED
    BY <1>2, <1>3, <2>1, SetInduction
<1>5. Len(script) - g \in Nat /\ g + (Len(script) - g) = Len(script)
  BY <1>1
<1>6. Keeps(after[Len(script)])
  BY <1>4, <1>5
<1>7. QED
  BY <1>6

(* What the shell makes of the gate is what it makes of the script, unless   *)
(* it goes on past a refusal.                                                *)
LEMMA GateDecides ==
    ASSUME NEW script, IsScript(script), NEW initial \in BOOLEAN, NEW pass \in BOOLEAN,
           NEW g \in DOMAIN script, script[g].cmd = "gate", Shell!CarriedBefore(script, g) = "none",
           Shell!GateIsReached(script),
           NEW fresh, \A j \in fresh : Shell!CarriedBefore(script, j) = "none"
    PROVE  \E st : Decided(st, script, g, initial, pass, fresh)
<1>1. script \in Seq(AnyScriptLine) /\ Len(script) \in Nat /\ g \in 1..Len(script) /\ DOMAIN script = 1..Len(script)
  <2>1. script \in Seq(AnyScriptLine)
    BY DEF IsScript
  <2>2. QED
    BY <2>1
<1>2. PICK after : RunsThrough(after, script, initial, pass) /\ Shell!Run(script, initial, pass) = after[Len(script)].ok
  BY <1>1, ShellUnrolls
<1>3. \A j \in 1..Len(script) : j # g => script[j].cmd # "gate"
  BY <1>1 DEF IsScript
<1>4. (\A j \in 1..(g - 1) : script[j].cmd # "gate") /\ (\A j \in (g + 1)..Len(script) : script[j].cmd # "gate")
  BY <1>1, <1>3
<1> DEFINE st == after[g - 1]
           f == script[g].form
           out == Judged(st, f, pass)
<1>5. /\ st \in ShellState /\ ~st.exited /\ st.ok
      /\ st.carried = "none" /\ (st.dead <=> Shell!InBranch(script, g))
      /\ Shell!ErrexitAbove(script, g, initial, fresh) => st.errexit
  <2>1. StandsBefore(st, script, g, initial, fresh)
    BY <1>2, <1>4, UpToGate
  <2>2. QED
    BY <2>1 DEF StandsBefore
<1>6. ~Shell!InBranch(script, g) /\ ~script[g].flips /\ ~script[g].continues /\ f \in Shell!Form
  <2>1. script[g] \in AnyScriptLine
    BY <1>1
  <2>2. f \in Shell!Form
    BY <2>1 DEF AnyScriptLine
  <2>3. QED
    BY <2>2 DEF IsScript, Shell!GateIsReached
<1>7. after[g] = Shell!Step(st, script[g], pass)
  BY <1>1, <1>2 DEF RunsThrough
<1> HIDE DEF st, f
<1>8. out \in ShellState /\ out.carried = "none"
  BY <1>5, <1>6, GateKeepsShell
<1>9. Shell!Step(st, script[g], pass) = [out EXCEPT !.carried = "none"]
  <2>1. Shell!CarriedState(st.carried, script[g]) = "none"
    <3>1. script[g].flips = FALSE
      <4>1. script[g] \in AnyScriptLine
        BY <1>1
      <4>2. script[g].flips \in BOOLEAN
        BY <4>1 DEF AnyScriptLine
      <4>3. QED
        BY <1>6, <4>2
    <3>2. QED
      BY <1>5, <1>6, <3>1 DEF Shell!CarriedState
  <2>2. Shell!RunCommand(st, script[g], pass) = out
    BY DEF Judged, Shell!RunCommand, f
  <2> HIDE DEF out
  <2>3. QED
    BY <1>5, <1>6, <2>1, <2>2 DEF Shell!Step
<1>10. after[g] = out
  BY <1>7, <1>8, <1>9 DEF ShellState
<1> HIDE DEF out
<1>11. ASSUME out.exited \/ out.ok \/ g = Len(script) PROVE Shell!Run(script, initial, pass) = out.ok
  <2>1. CASE g = Len(script)
    BY <1>2, <1>10, <2>1
  <2>2. CASE out.exited \/ out.ok
    <3>1. after[g] \in ShellState /\ (after[g].exited \/ after[g].ok)
      BY <1>8, <1>10, <2>2
    <3>2. after[Len(script)].ok = after[g].ok
      BY <1>1, <1>2, <1>4, <3>1, PastGate
    <3>3. QED
      BY <1>2, <1>10, <3>2
  <2>3. QED
    BY <1>11, <2>1, <2>2
<1>12. QED
  BY <1>5, <1>11 DEF Decided, out, f

(* The two readers of a hook: what either passes stops when its gate refuses. *)
LEMMA HooksBlock == ASSUME NEW script, IsScript(script) PROVE Shell!CertifiedHookBlocks(script)
<1> SUFFICES ASSUME Shell!GateIsReached(script), Shell!GateIsCommand(script), Shell!InvokesMode(script)
             PROVE  ~Shell!Run(script, FALSE, FALSE)
  BY DEF Shell!CertifiedHookBlocks
<1> DEFINE fresh == {j \in DOMAIN script : Shell!CarriedBefore(script, j) = "none"}
<1>1. PICK g \in DOMAIN script :
        /\ script[g].cmd = "gate" /\ Shell!Invocation(script[g].form)
        /\ Shell!Blocking(script[g].form) \/ g = Len(script) \/ Shell!ErrexitBefore(script, g)
  BY DEF Shell!InvokesMode
<1>2. Shell!CarriedBefore(script, g) = "none"
  BY <1>1 DEF Shell!GateIsCommand
<1>3. Shell!ErrexitBefore(script, g) = Shell!ErrexitAbove(script, g, FALSE, fresh)
  BY DEF Shell!ErrexitBefore
<1>4. \A j \in fresh : Shell!CarriedBefore(script, j) = "none"
  OBVIOUS
<1> HIDE DEF fresh
<1> DEFINE f == script[g].form
           Out(st) == Judged(st, f, FALSE)
<1>5. PICK st \in ShellState :
         /\ Shell!ErrexitAbove(script, g, FALSE, fresh) => st.errexit
         /\ Out(st).exited \/ Out(st).ok \/ g = Len(script) => Shell!Run(script, FALSE, FALSE) = Out(st).ok
  <2>1. \E st : Decided(st, script, g, FALSE, FALSE, fresh)
    BY <1>1, <1>2, <1>4, GateDecides
  <2>2. QED
    BY <2>1 DEF Decided
<1> HIDE DEF f
<1>6. f.head \in {"", "sh -c"} /\ ~f.chain /\ f.tail \in {"", "|| exit 1"}
  BY <1>1 DEF Shell!Invocation, f
<1>7. ~Shell!Probe(f) /\ ~Out(st).ok
  BY <1>6 DEF Judged, Shell!Probe, Shell!RunGate, Shell!Ends, Shell!ExitsWith, Shell!Succeeds, ShellState
<1>8. Shell!Blocking(f) \/ st.errexit => Out(st).exited
  BY <1>6 DEF Judged, Shell!Probe, Shell!Blocking, Shell!RunGate, Shell!Ends, Shell!ExitsWith, Shell!Succeeds, ShellState
<1>9. QED
  BY <1>1, <1>3, <1>5, <1>7, <1>8 DEF f

(* In a transport that carries a gate, its verdict is the script's. *)
LEMMA CarriersDecide ==
    ASSUME NEW script, IsScript(script), NEW initial \in BOOLEAN
    PROVE  Shell!CarriedGateDecides(script, initial)
<1> SUFFICES ASSUME \A i \in DOMAIN script : ~script[i].continues, Shell!Carries(script, initial),
                    Shell!GateIsReached(script)
             PROVE  Shell!Run(script, initial, TRUE) # Shell!Run(script, initial, FALSE)
  BY DEF Shell!CarriedGateDecides
<1> DEFINE fresh == {j \in DOMAIN script : ~Shell!OpenQuote(script, j)}
<1>1. DOMAIN script = 1..Len(script) /\ Len(script) \in Nat
  <2>1. script \in Seq(AnyScriptLine)
    BY DEF IsScript
  <2>2. QED
    BY <2>1
<1>2. ASSUME NEW j \in DOMAIN script, ~Shell!OpenQuote(script, j) PROVE Shell!CarriedBefore(script, j) = "none"
  <2>1. j > 1 => j - 1 \in DOMAIN script
    BY <1>1
  <2>2. QED
    BY <1>2, <2>1 DEF Shell!CarriedBefore
<1>3. PICK g \in DOMAIN script :
        /\ script[g].cmd = "gate" /\ ~Shell!OpenQuote(script, g)
        /\ Shell!KeepsVerdict(script[g].form, Shell!ErrexitAt(script, g, initial), g = Len(script))
  BY DEF Shell!Carries
<1>4. Shell!CarriedBefore(script, g) = "none" /\ \A j \in fresh : Shell!CarriedBefore(script, j) = "none"
  BY <1>2, <1>3
<1>5. Shell!ErrexitAt(script, g, initial) = Shell!ErrexitAbove(script, g, initial, fresh)
  BY DEF Shell!ErrexitAt
<1> HIDE DEF fresh
<1> DEFINE f == script[g].form
           on == Shell!ErrexitAbove(script, g, initial, fresh)
           Out(st, pass) == Judged(st, f, pass)
<1>6. ASSUME NEW pass \in BOOLEAN
      PROVE  \E st \in ShellState :
                /\ on => st.errexit
                /\ Out(st, pass).exited \/ Out(st, pass).ok \/ g = Len(script) => Shell!Run(script, initial, pass) = Out(st, pass).ok
  <2>1. \E st : Decided(st, script, g, initial, pass, fresh)
    BY <1>3, <1>4, GateDecides
  <2>2. QED
    BY <2>1 DEF Decided
<1>7. f \in Shell!Form /\ (Shell!Probe(f) => f.tail = "" /\ ~f.chain)
  <2>1. script[g] \in AnyScriptLine
    <3>1. script \in Seq(AnyScriptLine)
      BY DEF IsScript
    <3>2. QED
      BY <3>1
  <2>2. f \in Shell!Form
    BY <2>1 DEF AnyScriptLine
  <2>3. QED
    BY <1>3, <2>2 DEF IsScript
<1>8. Shell!KeepsVerdict(f, on, g = Len(script))
  BY <1>3, <1>5
<1> HIDE DEF f, on
<1>9. CASE Shell!Probe(f)
  <2>1. f.head \in {"if", "if !"} /\ f.body = "exit 1"
    BY <1>8, <1>9 DEF Shell!Probe, Shell!KeepsVerdict
  <2>2. ASSUME NEW pass \in BOOLEAN
        PROVE  Shell!Run(script, initial, pass) = (pass # (f.head = "if"))
    <3>1. PICK st \in ShellState :
             Out(st, pass).exited \/ Out(st, pass).ok \/ g = Len(script) => Shell!Run(script, initial, pass) = Out(st, pass).ok
      BY <1>6
    <3>2. Out(st, pass).ok = (pass # (f.head = "if")) /\ (Out(st, pass).exited \/ Out(st, pass).ok)
      BY <1>9, <2>1 DEF Judged, Shell!RunProbe, Shell!ExitsWith, Shell!Succeeds, ShellState
    <3>3. QED
      BY <3>1, <3>2
  <2>3. QED
    BY <2>2
<1>10. CASE ~Shell!Probe(f)
  <2>1. /\ f.head \in {"", "sh -c"} /\ f.tail \in {"", "|| exit 1"} /\ f.chain \in BOOLEAN
        /\ \/ on /\ (f.head = "sh -c" \/ ~f.chain)
           \/ f.head = "" /\ f.tail = "|| exit 1"
           \/ g = Len(script)
    BY <1>7, <1>8, <1>10 DEF Shell!Probe, Shell!KeepsVerdict, Shell!Form
  <2>2. ASSUME NEW pass \in BOOLEAN
        PROVE  Shell!Run(script, initial, pass) = pass
    <3>1. PICK st \in ShellState :
             /\ on => st.errexit
             /\ Out(st, pass).exited \/ Out(st, pass).ok \/ g = Len(script) => Shell!Run(script, initial, pass) = Out(st, pass).ok
      BY <1>6
    <3>2. Out(st, pass).ok = pass
      BY <1>10, <2>1 DEF Judged, Shell!RunGate, Shell!Ends, Shell!ExitsWith, Shell!Succeeds, ShellState
    <3>3. (on /\ (f.head = "sh -c" \/ ~f.chain)) \/ (f.head = "" /\ f.tail = "|| exit 1") => Out(st, pass).exited \/ pass
      BY <1>10, <2>1, <3>1 DEF Judged, Shell!RunGate, Shell!Ends, Shell!ExitsWith, Shell!Succeeds, ShellState
    <3>4. Out(st, pass).exited \/ Out(st, pass).ok \/ g = Len(script)
      BY <2>1, <3>1, <3>2, <3>3
    <3>5. QED
      BY <3>1, <3>2, <3>4
  <2>3. QED
    BY <2>2
<1>11. QED
  BY <1>9, <1>10

-----------------------------------------------------------------------------
(* A gate declared for a lawful transport runs there whole, and what runs is declared. *)
LEMMA TransportsWired ==
    ASSUME NEW gates, NEW t, NEW text, NEW carried
    PROVE  Wired!TransportWired(gates, t, text, carried)
<1> SUFFICES ASSUME Wired!TransportLawful(gates, t, text, carried)
             PROVE  /\ \A g \in gates : t \in g.transports =>
                         \E c \in carried : Wired!Extends(g, c) /\ (c.decides \/ g.advisory)
                    /\ \A c \in text : Wired!BatterySelfTest(t, c) \/ \E g \in gates : t \in g.transports /\ Wired!Extends(g, c)
  BY DEF Wired!TransportWired
<1>1. \A g, c : Wired!WholeInvocation(g, c) => Wired!Extends(g, c)
  BY DEF Wired!WholeInvocation, Wired!Extends
<1>2. Wired!MissingErrors(gates, t, carried) = {} /\ Wired!ShadowErrors(gates, t, text) = {}
  BY DEF Wired!TransportLawful
<1>3. ASSUME NEW g \in gates, t \in g.transports
      PROVE  \E c \in carried : Wired!WholeInvocation(g, c) /\ (c.decides \/ g.advisory)
  BY <1>2, <1>3 DEF Wired!MissingErrors
<1>4. ASSUME NEW c \in text, ~Wired!BatterySelfTest(t, c)
      PROVE  \E g \in gates : t \in g.transports /\ Wired!Extends(g, c)
  <2>1. /\ \A g \in gates : t \notin g.transports => ~Wired!WholeInvocation(g, c)
        /\ \E g \in gates : Wired!AccountsFor(g, t, c)
    BY <1>2, <1>4 DEF Wired!ShadowErrors
  <2>2. QED
    BY <1>1, <2>1 DEF Wired!AccountsFor
<1>5. QED
  BY <1>1, <1>3, <1>4

(* A clean chain stops at its first failure, whichever commands fail. *)
LEMMA BatteriesDecide ==
    ASSUME NEW script \in Seq(AnyCommand), NEW tools
    PROVE  Wired!BatteryDecides(script, tools)
<1> SUFFICES ASSUME Wired!CleanChain(script), Wired!MissingSelfTests(script, tools) = {}, NEW f \in tools
             PROVE  Wired!BatteryFails(script, {c \in Wired!Range(script) : c.script = f})
  BY DEF Wired!BatteryDecides
<1> DEFINE failing == {c \in Wired!Range(script) : c.script = f}
           bad     == {i \in DOMAIN script : script[i] \in failing}
           chained(j, i) == \A k \in j..(i - 1) : script[k].join = "&&"
           runs == {i \in DOMAIN script : \A j \in 1..(i - 1) : chained(j, i) => script[j] \notin failing}
<1>1. DOMAIN script = 1..Len(script) /\ Len(script) \in Nat
  OBVIOUS
<1>2. bad # {} /\ bad \in SUBSET Nat
  <2>1. PICK i \in DOMAIN script : script[i].script = f
    BY DEF Wired!MissingSelfTests
  <2>2. QED
    BY <1>1, <2>1 DEF Wired!Range
<1> HIDE DEF failing
<1>3. PICK m \in bad : \A i \in bad : m <= i
  BY <1>2, LeastElement
<1>4. ASSUME NEW i \in DOMAIN script, NEW j \in 1..(i - 1) PROVE chained(j, i) /\ j \in DOMAIN script
  BY <1>1 DEF Wired!CleanChain
<1>5. m \in runs
  BY <1>1, <1>3, <1>4
<1>6. ASSUME NEW i \in runs PROVE i <= m
  BY <1>1, <1>3, <1>4
<1>7. runs \in SUBSET Nat
  BY <1>1
<1>8. script[m] \in failing
  BY <1>3
<1> HIDE DEF runs, bad
<1>9. Wired!Max(runs) = m
  <2>1. \A i \in runs : i \in Nat /\ m \in Nat /\ m >= i
    BY <1>5, <1>6, <1>7
  <2>2. Wired!Max(runs) \in runs /\ \A i \in runs : Wired!Max(runs) >= i
    BY <1>5, <2>1 DEF Wired!Max
  <2>3. Wired!Max(runs) >= m /\ m >= Wired!Max(runs)
    BY <1>5, <2>1, <2>2
  <2>4. QED
    BY <1>5, <2>1, <2>2, <2>3
<1>10. QED
  BY <1>5, <1>8, <1>9 DEF Wired!BatteryFails, runs, failing

(* The entry that is judged is the first that dispatches. *)
LEMMA EditsGated == ASSUME NEW m, m.pre \in Seq(AnyEntry) PROVE Wired!EditsAreGated(m)
<1> SUFFICES ASSUME Wired!PluginWired(m), NEW tool \in Wired!EditTools
             PROVE  \E i \in DOMAIN m.pre : m.pre[i].dispatches /\ m.pre[i].resolves /\ tool \in m.pre[i].matches
  BY DEF Wired!EditsAreGated
<1> DEFINE entries == Wired!Dispatching(m.pre)
           first   == CHOOSE i \in entries : \A j \in entries : i <= j
<1>1. entries \in SUBSET Nat /\ entries # {}
  <2>1. entries # {}
    BY DEF Wired!PluginWired
  <2>2. DOMAIN m.pre \in SUBSET Nat
    OBVIOUS
  <2>3. QED
    BY <2>1, <2>2 DEF Wired!Dispatching
<1>2. first \in entries
  <2> HIDE DEF entries
  <2>1. \E i \in entries : \A j \in entries : i <= j
    BY <1>1, LeastElement
  <2>2. QED
    BY <2>1
<1>3. m.pre[first].resolves /\ Wired!EditTools \subseteq m.pre[first].matches
  BY DEF Wired!PluginWired
<1>4. first \in DOMAIN m.pre /\ m.pre[first].dispatches
  BY <1>2 DEF Wired!Dispatching
<1> HIDE DEF first
<1>5. QED
  BY <1>3, <1>4

(* A text line under a lane, in the same section, is that lane's alone. *)
LEMMA ClonesEnforced == ASSUME NEW clone, NEW inCI, clone.checklist \in Seq(AnyLine) PROVE Wired!CertifiedIsEnforced(clone, inCI)
<1> DEFINE lines == clone.checklist
           lanes == Wired!LanesFromChecklist(lines)
           starts == {i \in DOMAIN lines : lines[i].kind = "lane"}
           opened(j) == \E i \in starts : i < j /\ \A k \in i..j : lines[k].kind # "section"
           ordered == {lane.n : lane \in lanes} = 1..Wired!Cardinality(lanes)
           body(i) == {j \in DOMAIN lines : j > i /\ \A k \in (i + 1)..j : lines[k].kind = "text"}
           lane(i) == [at |-> i, n |-> lines[i].n, body |-> body(i)]
<1>1. Wired!DoctorPasses(clone, inCI) => Wired!PushIsJudged(clone) /\ (inCI \/ Wired!CommitIsJudged(clone))
  BY DEF Wired!DoctorPasses, Wired!PushIsJudged, Wired!CommitIsJudged, Wired!HookModes
<1>2. lanes = {lane(i) : i \in starts}
  BY DEF Wired!LanesFromChecklist
<1>3. DOMAIN lines = 1..Len(lines) /\ Len(lines) \in Nat /\ \A i \in DOMAIN lines : lines[i].kind \in {"lane", "text", "section"}
  <2>1. lines \in Seq(AnyLine)
    OBVIOUS
  <2> HIDE DEF lines
  <2>2. \A i \in DOMAIN lines : lines[i] \in AnyLine
    BY <2>1
  <2>3. QED
    BY <2>1, <2>2 DEF AnyLine
<1>4. ASSUME NEW j \in DOMAIN lines, lines[j].kind = "text", opened(j)
      PROVE  Wired!Cardinality({l \in lanes : j \in l.body}) = 1
  <2> DEFINE above == {i \in starts : i < j}
  <2>1. above \in SUBSET Nat /\ above # {} /\ \A i \in above : i <= j
    BY <1>3, <1>4
  <2>2. PICK i \in above : \A k \in above : k <= i
    <3> HIDE DEF above
    <3>1. j \in Nat
      BY <1>3
    <3>2. QED
      BY <2>1, <3>1, GreatestElement
  <2>3. j \in body(i)
    <3>1. PICK o \in starts : o < j /\ \A k \in o..j : lines[k].kind # "section"
      BY <1>4
    <3>2. o <= i /\ o \in Nat /\ i \in Nat /\ j \in Nat /\ i < j
      BY <1>3, <2>2, <3>1
    <3>3. ASSUME NEW k \in (i + 1)..j PROVE lines[k].kind = "text"
      <4>1. k \in DOMAIN lines /\ k \in o..j /\ k > i
        BY <1>3, <3>2
      <4>2. k \notin above
        BY <2>2, <3>2, <4>1
      <4>3. lines[k].kind # "lane"
        BY <1>4, <3>2, <4>1, <4>2
      <4>4. QED
        BY <1>3, <3>1, <4>1, <4>3
    <3>4. QED
      BY <3>2, <3>3
  <2>4. ASSUME NEW k \in starts, j \in body(k) PROVE k = i
    <3>1. k \in above
      BY <2>4
    <3>2. k <= i /\ k \in Nat /\ i \in Nat /\ j \in Nat /\ i < j
      BY <1>3, <2>2, <3>1
    <3>3. ~(k < i)
      <4>1. SUFFICES ASSUME k < i PROVE FALSE
        BY <3>2
      <4>2. i \in (k + 1)..j
        BY <3>2, <4>1
      <4>3. QED
        BY <2>2, <2>4, <4>2
    <3>4. QED
      BY <3>2, <3>3
  <2>5. {l \in lanes : j \in l.body} = {lane(i)}
    BY <1>2, <2>2, <2>3, <2>4
  <2>6. QED
    BY <2>5, SameCardinality, FS_Singleton
<1>5. ASSUME ordered, NEW n PROVE Wired!LaneLawful(n, Wired!Cardinality(lanes)) <=> \E l \in lanes : l.n = n
  BY <1>5 DEF Wired!LaneLawful
<1> HIDE DEF lane, body
<1>6. QED
  BY <1>1, <1>4, <1>5 DEF Wired!CertifiedIsEnforced

-----------------------------------------------------------------------------
(* The ratchet judges what may be committed, and --update lists what it judges. *)
LEMMA SourcesStayGreen ==
    ASSUME NEW s, IsSource(s), NEW rows \in Seq(Nat), NEW mentioned
    PROVE  Scan!GreenWhateverIsCommitted(s, rows, mentioned)
<1> DEFINE kept == IF s.added # Absent THEN s.added ELSE s.head
<1> SUFFICES ASSUME Scan!Judged(Scan!Over(kept), rows, mentioned), NEW content \in Scan!CommittedContents(s)
             PROVE  /\ Scan!ComplexityGreen(s, rows, mentioned) => Scan!Judged(Scan!Over(content), rows, mentioned)
                    /\ (~Scan!ScanRefuses(s, rows) /\ Len(Scan!Over(s.disk)) <= 1) =>
                            Scan!Judged(Scan!Over(content), Scan!UpdatedRows(s, rows), mentioned)
  BY DEF Scan!GreenWhateverIsCommitted
<1>1. CASE Scan!Regular(s.disk)
  <2>1. content = s.disk /\ s.disk \in Seq(Nat)
    BY <1>1 DEF Scan!CommittedContents, IsSource, AnySource, Scan!Regular
  <2>2. Scan!Judged(s.disk, s.disk, mentioned) <=> Len(s.disk) <= 1
    BY <2>1 DEF Scan!Judged, Scan!Last
  <2>3. QED
    BY <1>1, <2>1, <2>2 DEF Scan!ComplexityGreen, Scan!UpdatedRows, Scan!Over
<1>2. CASE ~Scan!Regular(s.disk)
  <2> SUFFICES ASSUME ~Scan!ScanRefuses(s, rows)
               PROVE  /\ Scan!Judged(<<>>, rows, mentioned) => Scan!Judged(Scan!Over(content), rows, mentioned)
                      /\ Scan!Judged(Scan!Over(content), <<>>, mentioned)
    BY <1>2 DEF Scan!ComplexityGreen, Scan!UpdatedRows, Scan!Over
  <2>1. Scan!Over(Absent) = <<>> /\ Scan!Judged(<<>>, <<>>, mentioned)
    BY DEF Scan!Over, Scan!Regular, Scan!Judged
  <2>2. CASE ~Scan!IndexLists(s)
    <3>1. content = Absent
      BY <1>2, <2>2 DEF Scan!CommittedContents, Scan!IndexLists
    <3>2. QED
      BY <2>1, <3>1
  <2>3. CASE Scan!IndexLists(s)
    <3>1. rows = <<>> /\ s.index = s.head
      BY <1>2, <2>3 DEF Scan!ScanRefuses, Scan!StagedMissing, Scan!MissingSourceHeld, Scan!Skipped, Scan!Listed, Scan!StagedChange
    <3>2. content \in {Absent, kept}
      BY <1>2, <2>3, <3>1 DEF Scan!CommittedContents, IsSource
    <3>3. QED
      BY <2>1, <3>1, <3>2
  <2>4. QED
    BY <2>2, <2>3
<1>3. QED
  BY <1>1, <1>2

(* Fresh is said of a pin whose sources did not move up to the newest tree that is known. *)
LEMMA FreshUnmoved == ASSUME NEW c, NEW sources PROVE Scan!FreshIsUnmoved(c, sources)
<1> SUFFICES ASSUME Scan!ReadsFresh(c, sources), NEW p \in sources
             PROVE  /\ Scan!PinTree(c)[p] # Absent /\ Scan!HeadTree(c)[p] = Scan!PinTree(c)[p]
                    /\ c.local = Absent => Scan!NewestTree(c)[p] = Scan!PinTree(c)[p]
  BY DEF Scan!FreshIsUnmoved
<1>1. p \in DOMAIN Scan!PinTree(c) /\ Scan!PinTree(c)[p] # Absent /\ Scan!HeadTree(c)[p] = Scan!PinTree(c)[p]
  BY DEF Scan!ReadsFresh, Scan!FreshnessVerdict, Scan!AtPin, Scan!Changed
<1>2. c.local = Absent => Scan!NewestTree(c) = Scan!HeadTree(c)
  BY DEF Scan!ReadsFresh, Scan!BehindFetched, Scan!NewestTree, Scan!HeadTree
<1>3. QED
  BY <1>1, <1>2

(* A sweep that strikes more lines than its own only finds more dead. *)
LEMMA DeadAreAccepted ==
    ASSUME NEW contracts \in Seq(AnyContract), NEW corpus
    PROVE  Scan!DeadWiringIsAccepted(contracts, corpus, Scan!Findings(contracts, corpus))
<1> SUFFICES ASSUME NEW n \in DOMAIN contracts, NEW m \in contracts[n].members,
                    Scan!Alone(contracts[n], m, corpus) # "wired"
             PROVE  \E v \in {"DEAD", "NO_PRODUCER", "NO_CONSUMER"} :
                        <<contracts[n].symbol, m, v>> \in Scan!Findings(contracts, corpus)
  BY DEF Scan!DeadWiringIsAccepted
<1> DEFINE swept == Scan!RolesOf(corpus \ Scan!DeadLines(contracts, n, corpus), m)
           alone == Scan!RolesOf({l \in corpus : ~l.test /\
                        (l.file = contracts[n].file => l.declares # contracts[n].symbol)}, m)
<1>1. swept \subseteq alone
  <2>1. corpus \ Scan!DeadLines(contracts, n, corpus) \subseteq
            {l \in corpus : ~l.test /\ (l.file = contracts[n].file => l.declares # contracts[n].symbol)}
    <3>1. n \in 1..n
      OBVIOUS
    <3>2. QED
      BY <3>1 DEF Scan!DeadLines
  <2>2. QED
    BY <2>1 DEF Scan!RolesOf
<1> HIDE DEF swept, alone
<1>2. alone \in {{}, {"CONSUMER"}, {"PRODUCER"}}
  BY DEF Scan!Alone, Scan!MemberVerdict, alone
<1>3. swept \in {{}, {"CONSUMER"}, {"PRODUCER"}}
  BY <1>1, <1>2
<1>4. Scan!MemberVerdict(swept) \in {"DEAD", "NO_PRODUCER", "NO_CONSUMER"}
  BY <1>3 DEF Scan!MemberVerdict
<1>5. <<contracts[n].symbol, m, Scan!MemberVerdict(swept)>> \in Scan!Sweep(contracts, corpus)
  <2> DEFINE found(k) == {<<contracts[k].symbol, x, Scan!MemberVerdict(
                             Scan!RolesOf(corpus \ Scan!DeadLines(contracts, k, corpus), x))>> : x \in contracts[k].members}
  <2>1. <<contracts[n].symbol, m, Scan!MemberVerdict(swept)>> \in found(n)
    BY DEF swept
  <2>2. Scan!Sweep(contracts, corpus) = UNION {found(k) : k \in DOMAIN contracts}
    BY DEF Scan!Sweep
  <2> HIDE DEF found
  <2>3. QED
    BY <2>1, <2>2
<1>6. QED
  BY <1>4, <1>5 DEF Scan!Findings

(* A host that passes lies under its manifest: each of its files is the vendored one. *)
LEMMA HostsAreVendored ==
    ASSUME NEW m, NEW vendored, IsManifest(m, vendored), NEW disk, NEW default
    PROVE  Vendored!HostIsAsVendored(m, vendored, disk, "gate", default)
<1> SUFFICES ASSUME Vendored!HostPasses(m, disk, "gate")
             PROVE  /\ "gate" \in m.corpus /\ disk["gate"] = vendored["gate"]
                    /\ \A p \in m.corpus \ {m.at} : disk[p] = vendored[p]
                    /\ Vendored!UpstreamPasses(TRUE, {m}, default) => m.at # default /\ ~m.tracked
  BY DEF Vendored!HostIsAsVendored
<1>1. m # Null /\ m.corpus # Null /\ "gate" \in m.corpus
  BY DEF Vendored!HostPasses, Vendored!FactsLoad, Vendored!Drifted, Vendored!GateInside
<1>2. ASSUME NEW p \in m.corpus \ {m.at} PROVE disk[p] = vendored[p]
  <2>1. CASE p \in DOMAIN m.files
    BY <1>1, <1>2, <2>1 DEF Vendored!HostPasses, Vendored!Drifted, Vendored!FileReasons, Vendored!DigestOf, IsManifest
  <2>2. CASE p \notin DOMAIN m.files
    <3>1. p \notin Vendored!WalkCorpus(m, disk)
      BY <2>2 DEF Vendored!HostPasses, Vendored!Drifted, Vendored!CorpusReasons
    <3>2. QED
      BY <1>1, <1>2, <2>2, <3>1 DEF Vendored!WalkCorpus, IsManifest
  <2>3. QED
    BY <2>1, <2>2
<1>3. "gate" # m.at
  BY <1>1 DEF IsManifest
<1>4. QED
  BY <1>1, <1>2, <1>3 DEF Vendored!UpstreamPasses

(* What a loader accepts, it takes as written. *)
LEMMA LoadedAsTheyAre == ASSUME NEW schema, NEW f PROVE Map!LoadedAsWritten(schema, f)
BY DEF Map!LoadedAsWritten, Map!Loads, Map!LawfulField

(* A source is an orphan, exempt, or under a gate; the first gate over it is alive. *)
LEMMA SourcesSeen ==
    ASSUME NEW map, map.gates \in Seq(AnyGate), NEW paths
    PROVE  Map!SourcesAreSeen(map, paths)
<1> SUFFICES ASSUME Map!CensusGreen(map, paths)
             PROVE  /\ \A p \in paths : (p.code \/ p.js) /\ ~p.generated /\ ~(p.config /\ ~p.js) =>
                        \/ \E e \in Map!Range(map.exempt) : p \in e.spec /\ e.why
                        \/ \E g \in Map!Range(map.gates) : p \in g.spec \ (g.exclude \cup g.misspelt)
                    /\ \A i \in DOMAIN map.gates \ Map!Census(map, paths).dead :
                        \E p \in Map!TrackedSources(paths) : p \in map.gates[i].spec \ map.gates[i].exclude
  BY DEF Map!SourcesAreSeen
<1>1. ASSUME NEW p \in paths, p.code \/ p.js, ~p.generated, ~(p.config /\ ~p.js)
      PROVE  \/ \E e \in Map!Range(map.exempt) : p \in e.spec /\ e.why
             \/ \E g \in Map!Range(map.gates) : p \in g.spec \ (g.exclude \cup g.misspelt)
  <2>1. p \in Map!TrackedSources(paths)
    BY <1>1 DEF Map!TrackedSources, Map!IsSource
  <2>2. Map!Exempted(map, p) \/ Map!GatesThatSee(map, p) # {}
    BY <2>1 DEF Map!CensusGreen, Map!Census
  <2>3. CASE Map!Exempted(map, p)
    BY <2>3 DEF Map!Exempted, Map!CensusGreen, Map!MapLoads
  <2>4. CASE Map!GatesThatSee(map, p) # {}
    <3>1. PICK i \in DOMAIN map.gates : p \in map.gates[i].spec /\ p \notin map.gates[i].exclude
      BY <2>4 DEF Map!GatesThatSee
    <3>2. map.gates[i] \in Map!Range(map.gates)
      BY DEF Map!Range
    <3>3. map.gates[i].misspelt = {}
      BY <3>2 DEF Map!CensusGreen, Map!MapLoads
    <3>4. QED
      BY <3>1, <3>2, <3>3
  <2>5. QED
    BY <2>2, <2>3, <2>4
<1>2. ASSUME NEW i \in DOMAIN map.gates \ Map!Census(map, paths).dead
      PROVE  \E p \in Map!TrackedSources(paths) : p \in map.gates[i].spec \ map.gates[i].exclude
  <2>1. PICK p \in Map!TrackedSources(paths) :
            Map!GatesThatSee(map, p) # {} /\ i = Map!Min(Map!GatesThatSee(map, p))
    BY <1>2 DEF Map!Census
  <2>2. Map!GatesThatSee(map, p) \in SUBSET Nat
    BY DEF Map!GatesThatSee
  <2>3. \E n \in Map!GatesThatSee(map, p) : \A k \in Map!GatesThatSee(map, p) : n <= k
    BY <2>1, <2>2, LeastElement
  <2>4. i \in Map!GatesThatSee(map, p)
    BY <2>1, <2>3 DEF Map!Min
  <2>5. QED
    BY <2>4 DEF Map!GatesThatSee
<1>3. QED
  BY <1>1, <1>2

(* One use more or less in a counted file is one more or less in the count. *)
LEMMA CountsMove ==
    ASSUME NEW tree, IsTree(tree), NEW files \in SUBSET DOMAIN tree, NEW p \in files, NEW n \in Nat, n # tree[p].code
    PROVE  Docs!CountAcross(Docs!Used(tree, p, n), files) # Docs!CountAcross(tree, files)
<1> DEFINE used == Docs!Used(tree, p, n)
           uses(t) == UNION {{q} \X (1..Docs!CorpusText(t[q])) : q \in files}
           text == [q \in files |-> Docs!CorpusText(tree[q])]
           more == [q \in files |-> Docs!CorpusText(used[q])]
<1>1. /\ IsFiniteSet(files) /\ files # {}
      /\ \A q \in files : tree[q] \in AnyFile
  BY FS_Subset DEF IsTree, IsDirectory
<1>2. /\ \A q \in files : text[q] \in Nat /\ more[q] \in Nat
      /\ \A q \in files \ {p} : text[q] = more[q]
      /\ text[p] # more[p]
  <2>1. ASSUME NEW q \in files PROVE used[q] = IF q = p THEN [tree[q] EXCEPT !.code = n] ELSE tree[q]
    BY DEF Docs!Used
  <2>2. \A q \in files : text[q] = Docs!CorpusText(tree[q]) /\ more[q] = Docs!CorpusText(used[q])
    OBVIOUS
  <2> HIDE DEF text, more, used
  <2>3. ASSUME NEW f \in AnyFile PROVE Docs!CorpusText(f) \in Nat
    BY DEF Docs!CorpusText, AnyFile
  <2>4. ASSUME NEW f \in AnyFile, n # f.code
        PROVE  /\ [f EXCEPT !.code = n] \in AnyFile
               /\ Docs!CorpusText([f EXCEPT !.code = n]) # Docs!CorpusText(f)
    BY <2>4 DEF Docs!CorpusText, AnyFile
  <2>5. used[p] = [tree[p] EXCEPT !.code = n] /\ tree[p] \in AnyFile
    BY <1>1, <2>1
  <2>6. text[p] \in Nat /\ more[p] \in Nat /\ text[p] # more[p]
    BY <2>2, <2>3, <2>4, <2>5
  <2>7. ASSUME NEW q \in files \ {p} PROVE text[q] \in Nat /\ text[q] = more[q]
    BY <1>1, <2>1, <2>2, <2>3, <2>7
  <2>8. QED
    BY <2>6, <2>7
<1>3. uses(tree) = {s \in files \X Nat : s[2] \in 1..text[s[1]]} /\ uses(used) = {s \in files \X Nat : s[2] \in 1..more[s[1]]}
  <2>1. \A q \in files : text[q] = Docs!CorpusText(tree[q]) /\ more[q] = Docs!CorpusText(used[q])
    OBVIOUS
  <2> HIDE DEF text, more, used
  <2>2. QED
    BY <2>1
<1> HIDE DEF text, more, uses, used
<1>4. IsFiniteSet(uses(tree)) /\ IsFiniteSet(uses(used))
  <2>1. ASSUME NEW at, \A q \in files : at[q] \in Nat PROVE IsFiniteSet({s \in files \X Nat : s[2] \in 1..at[s[1]]})
    <3>1. PICK m \in files : \A q \in files : at[q] <= at[m]
      BY <1>1, <2>1, GreatestValue
    <3>2. IsFiniteSet(files \X (1..at[m]))
      <4>1. IsFiniteSet(1..at[m])
        BY <2>1, FS_Interval
      <4>2. QED
        BY <1>1, <4>1, FS_Product
    <3>3. {s \in files \X Nat : s[2] \in 1..at[s[1]]} \subseteq files \X (1..at[m])
      BY <2>1, <3>1
    <3>4. QED
      BY <3>2, <3>3, FS_Subset
  <2>2. QED
    BY <1>2, <1>3, <2>1
<1>5. uses(tree) # uses(used) /\ (uses(tree) \subseteq uses(used) \/ uses(used) \subseteq uses(tree))
  <2>1. \A q \in files : text[p] < more[p] => text[q] <= more[q]
    BY <1>2
  <2>2. \A q \in files : more[p] < text[p] => more[q] <= text[q]
    BY <1>2
  <2>3. \A q \in files : \A k : (<<q, k>> \in uses(tree) <=> k \in 1..text[q]) /\ (<<q, k>> \in uses(used) <=> k \in 1..more[q])
    BY <1>3
  <2>4. CASE text[p] < more[p]
    <3>1. more[p] \in 1..more[p] /\ more[p] \notin 1..text[p]
      BY <1>2, <2>4
    <3>2. uses(tree) \subseteq uses(used)
      BY <1>2, <1>3, <2>1, <2>4
    <3>3. QED
      BY <2>3, <3>1, <3>2
  <2>5. CASE more[p] < text[p]
    <3>1. text[p] \in 1..text[p] /\ text[p] \notin 1..more[p]
      BY <1>2, <2>5
    <3>2. uses(used) \subseteq uses(tree)
      BY <1>2, <1>3, <2>2, <2>5
    <3>3. QED
      BY <2>3, <3>1, <3>2
  <2>6. QED
    BY <1>2, <2>4, <2>5
<1>6. Cardinality(uses(tree)) # Cardinality(uses(used))
  BY <1>4, <1>5, FS_Subset
<1>7. Docs!CountAcross(tree, files) = Cardinality(uses(tree)) /\ Docs!CountAcross(used, files) = Cardinality(uses(used))
  BY SameCardinality DEF Docs!CountAcross, uses
<1>8. QED
  BY <1>6, <1>7 DEF used

(* The evidence of a claim is one of those that can be written. *)
LEMMA CitesATree ==
    ASSUME NEW paths, NEW c \in AnyClaim(paths), NEW e \in Docs!Range(c.evidence)
    PROVE  e \in AnyEvidence(paths)
<1>1. c.evidence \in Seq(AnyEvidence(paths))
  BY DEF AnyClaim
<1>2. PICK i \in DOMAIN c.evidence : e = c.evidence[i]
  BY DEF Docs!Range
<1>3. QED
  BY <1>1, <1>2

(* Of a claim that passes, each part. *)
LEMMA GreenAlone ==
    ASSUME NEW tree, NEW ignored, NEW c, Docs!GateGreen(tree, <<c>>, ignored)
    PROVE  /\ Docs!ClaimShapely(c) /\ Docs!AnchorHolds(c) /\ Docs!ScopeBound(c) /\ Docs!JustificationStands(c)
           /\ \A e \in Docs!Range(c.evidence) : Docs!CheckEvidence(tree, Docs!CorpusFiles(tree, ignored), e)
<1>1. c \in Docs!Range(<<c>>)
  BY DEF Docs!Range
<1>2. QED
  BY <1>1 DEF Docs!GateGreen, Docs!GateLoads, Docs!ClaimHolds, Docs!ReadCorpus

(* Another use in a file that a repo-count counts refutes the claim. *)
LEMMA CountsRefute ==
    ASSUME NEW tree, IsTree(tree), NEW ignored, NEW c, Docs!GateGreen(tree, <<c>>, ignored),
           NEW e \in Docs!Range(c.evidence), e.kind = "repo-count",
           NEW p \in DOMAIN tree, tree[p].listed, p \notin Docs!Printed(<<c>>, ignored),
           NEW n \in Nat, n # tree[p].code
    PROVE  ~Docs!GateGreen(Docs!Used(tree, p, n), <<c>>, ignored)
<1> DEFINE files == Docs!CorpusFiles(tree, ignored) \ e.ignore
           used  == Docs!Used(tree, p, n)
<1>1. c \in Docs!Range(<<c>>)
  BY DEF Docs!Range
<1>2. p \in files /\ files \in SUBSET DOMAIN tree
  BY <1>1 DEF Docs!CorpusFiles, Docs!Printed
<1>3. Docs!CorpusFiles(used, ignored) = Docs!CorpusFiles(tree, ignored)
  <2>1. DOMAIN used = DOMAIN tree /\ \A q \in DOMAIN tree : used[q].listed = tree[q].listed
    <3>1. \A q \in DOMAIN tree : tree[q] \in AnyFile
      BY DEF IsTree, IsDirectory
    <3>2. QED
      BY <3>1 DEF Docs!Used, AnyFile
  <2>2. QED
    BY <2>1 DEF Docs!CorpusFiles
<1>4. Docs!CountAcross(used, files) # Docs!CountAcross(tree, files)
  BY <1>2, CountsMove
<1>5. Docs!CountAcross(tree, files) = e.want
  BY GreenAlone DEF Docs!CheckEvidence, Docs!CheckRepoCount
<1> HIDE DEF used
<1>6. ASSUME Docs!GateGreen(used, <<c>>, ignored) PROVE FALSE
  <2>1. Docs!CountAcross(used, files) = e.want
    BY <1>3, <1>6, GreenAlone DEF Docs!CheckEvidence, Docs!CheckRepoCount
  <2>2. QED
    BY <1>4, <1>5, <2>1
<1>7. QED
  BY <1>6 DEF used

(* And so does, in the file of any other evidence, some number of uses. *)
LEMMA FilesRefute ==
    ASSUME NEW tree, IsTree(tree), NEW ignored, NEW c \in AnyClaim(DOMAIN tree), Docs!GateGreen(tree, <<c>>, ignored),
           NEW e \in Docs!Range(c.evidence), e.kind # "repo-count"
    PROVE  \E p \in DOMAIN tree, n \in 0..3 : ~Docs!GateGreen(Docs!Used(tree, p, n), <<c>>, ignored)
<1> DEFINE p == e.at
           used(n) == Docs!Used(tree, p, n)
<1>1. e.at \in DOMAIN tree \cup {Null}
  BY CitesATree DEF AnyEvidence
<1>2. /\ p \in DOMAIN tree /\ ~tree[p].docs /\ Docs!CheckInFile(e, tree[p])
      /\ e.kind \in {"symbol", "grep", "absent", "count"}
  BY <1>1, GreenAlone DEF Docs!CheckEvidence, Docs!CheckInFile
<1>3. tree[p] \in AnyFile /\ (tree[p].grammar = "none" => tree[p].comment = 0)
  BY <1>2 DEF IsTree, IsDirectory
<1>4. PICK n \in 0..1 : ~Docs!CheckInFile(e, [tree[p] EXCEPT !.code = n])
  <2> DEFINE f(n) == [tree[p] EXCEPT !.code = n]
  <2>1. \A n \in 0..1 : Docs!CorpusText(f(n)) = n
    BY <1>3 DEF Docs!CorpusText, AnyFile
  <2> HIDE DEF f
  <2>2. CASE e.kind \in {"symbol", "grep"}
    BY <2>1, <2>2 DEF Docs!CheckInFile, f
  <2>3. CASE e.kind = "absent"
    BY <2>1, <2>3 DEF Docs!CheckInFile, f
  <2>4. CASE e.kind = "count"
    BY <2>1, <2>4 DEF Docs!CheckInFile, f
  <2>5. QED
    BY <1>2, <2>2, <2>3, <2>4
<1>5. used(n)[p] = [tree[p] EXCEPT !.code = n]
  BY <1>2 DEF Docs!Used
<1> HIDE DEF used
<1>6. ~Docs!CheckEvidence(used(n), Docs!CorpusFiles(used(n), ignored), e)
  BY <1>4, <1>5 DEF Docs!CheckEvidence
<1>7. ~Docs!GateGreen(used(n), <<c>>, ignored)
  BY <1>6, GreenAlone
<1>8. n \in 0..3
  OBVIOUS
<1>9. QED
  BY <1>2, <1>7, <1>8 DEF used

(* A scoped claim falls with one more use, and no claim passes by its prose. *)
LEMMA ClaimsBound ==
    ASSUME NEW tree, IsTree(tree), NEW claims \in Seq(AnyClaim(DOMAIN tree)), NEW ignored
    PROVE  Docs!GreenIsBound(tree, claims, ignored)
<1> DEFINE bare == [p \in DOMAIN tree |->
               IF tree[p].docs THEN [tree[p] EXCEPT !.code = 0, !.comment = 0]
               ELSE [tree[p] EXCEPT !.comment = IF tree[p].grammar = "none" THEN @ ELSE 0]]
<1> SUFFICES ASSUME Docs!GateGreen(tree, claims, ignored), NEW c \in Docs!Range(claims)
             PROVE  /\ c.scoped => \A p \in {q \in DOMAIN tree : tree[q].listed} \ Docs!Printed(<<c>>, ignored) :
                            ~Docs!GateGreen(Docs!Used(tree, p, tree[p].code + 1), <<c>>, ignored)
                    /\ ~Docs!Counts(<<c>>) => Docs!GateGreen(bare, <<c>>, ignored)
                    /\ \/ \E p \in DOMAIN tree, n \in 0..3 : ~Docs!GateGreen(Docs!Used(tree, p, n), <<c>>, ignored)
                       \/ {p \in DOMAIN tree : tree[p].listed} \subseteq Docs!Printed(<<c>>, ignored)
  BY DEF Docs!GreenIsBound
<1>1. Docs!Range(<<c>>) = {c} /\ <<c>> # <<>>
  BY DEF Docs!Range
<1>2. Docs!GateGreen(tree, <<c>>, ignored)
  BY <1>1 DEF Docs!GateGreen, Docs!GateLoads, Docs!Counts
<1>3. c \in AnyClaim(DOMAIN tree)
  BY DEF Docs!Range
<1>4. ASSUME NEW p \in DOMAIN tree PROVE tree[p] \in AnyFile
  BY DEF IsTree, IsDirectory
<1>5. ASSUME c.scoped, NEW p \in DOMAIN tree, tree[p].listed, p \notin Docs!Printed(<<c>>, ignored)
      PROVE  ~Docs!GateGreen(Docs!Used(tree, p, tree[p].code + 1), <<c>>, ignored)
  <2>1. PICK e \in Docs!Range(c.evidence) : e.kind = "repo-count"
    BY <1>2, <1>5, GreenAlone DEF Docs!ScopeBound
  <2>2. tree[p].code + 1 \in Nat /\ tree[p].code + 1 # tree[p].code
    BY <1>4, <1>5 DEF AnyFile
  <2>3. QED
    BY <1>2, <1>5, <2>1, <2>2, CountsRefute
<1>6. ASSUME ~Docs!Counts(<<c>>) PROVE Docs!GateGreen(bare, <<c>>, ignored)
  <2>1. \A e \in Docs!Range(c.evidence) : e.kind # "repo-count"
    BY <1>1, <1>6 DEF Docs!Counts
  <2>2. ASSUME NEW e \in Docs!Range(c.evidence)
        PROVE  Docs!CheckEvidence(bare, Docs!CorpusFiles(bare, ignored), e)
    <3>1. /\ e.kind # "repo-count" /\ e.at # Null /\ ~tree[e.at].docs /\ tree[e.at].disk /\ Docs!CheckInFile(e, tree[e.at])
      BY <1>2, <2>1, <2>2, GreenAlone DEF Docs!CheckEvidence
    <3>2. e.at \in DOMAIN tree
      BY <1>3, <3>1, CitesATree DEF AnyEvidence
    <3>3. /\ ~bare[e.at].docs /\ bare[e.at].disk
          /\ Docs!CorpusText(bare[e.at]) = Docs!CorpusText(tree[e.at])
      <4>1. bare[e.at] = [tree[e.at] EXCEPT !.comment = IF tree[e.at].grammar = "none" THEN tree[e.at].comment ELSE 0]
        BY <3>1, <3>2
      <4>2. tree[e.at] \in AnyFile
        BY <1>4, <3>2
      <4> HIDE DEF bare
      <4>3. QED
        BY <3>1, <4>1, <4>2 DEF Docs!CorpusText, AnyFile
    <3> HIDE DEF bare
    <3>4. QED
      BY <3>1, <3>3 DEF Docs!CheckEvidence, Docs!CheckInFile
  <2> HIDE DEF bare
  <2>3. QED
    BY <1>1, <1>2, <1>6, <2>2, GreenAlone DEF Docs!GateGreen, Docs!GateLoads, Docs!ClaimHolds, Docs!ReadCorpus
<1>7. \/ \E p \in DOMAIN tree, n \in 0..3 : ~Docs!GateGreen(Docs!Used(tree, p, n), <<c>>, ignored)
      \/ {p \in DOMAIN tree : tree[p].listed} \subseteq Docs!Printed(<<c>>, ignored)
  <2>1. PICK e \in Docs!Range(c.evidence) : TRUE
    <3>1. c.evidence # <<>> /\ c.evidence \in Seq(Docs!Range(c.evidence))
      BY <1>2, <1>3, GreenAlone DEF Docs!ClaimShapely, AnyClaim, Docs!Range
    <3>2. c.evidence[1] \in Docs!Range(c.evidence)
      BY <3>1
    <3>3. QED
      BY <3>2
  <2>2. CASE e.kind # "repo-count"
    BY <1>2, <1>3, <2>2, FilesRefute
  <2>3. CASE e.kind = "repo-count"
    <3> SUFFICES ASSUME NEW p \in DOMAIN tree, tree[p].listed, p \notin Docs!Printed(<<c>>, ignored)
                 PROVE  \E n \in 0..3 : ~Docs!GateGreen(Docs!Used(tree, p, n), <<c>>, ignored)
      OBVIOUS
    <3>1. PICK n \in 0..1 : n # tree[p].code
      BY <1>4
    <3>2. n \in Nat /\ n \in 0..3
      OBVIOUS
    <3>3. QED
      BY <1>2, <2>3, <3>1, <3>2, CountsRefute
  <2>4. QED
    BY <2>2, <2>3
<1>8. QED
  BY <1>5, <1>6, <1>7

(* The cell that ends a row's text is its status, or no status at all. *)
LEMMA RowsRead ==
    ASSUME NEW row, IsDebtRow(row), NEW outer \in BOOLEAN
    PROVE  LET line == Map!RowText(row, outer)
           IN  /\ Map!Candidate(line)
               /\ Map!ParseRow(line) # Map!Unparsed =>
                    Map!ParseRow(line) = Head(row.status) /\ Head(row.status) \in Map!Statuses
<1> DEFINE T == STRING \cup {"|", "PD", "**PD**"}
           line == Map!RowText(row, outer)
           before == row.id \o <<"|">> \o row.item \o <<"|">> \o row.due \o <<"|">>
           rest == IF outer THEN row.status \o <<"|">> ELSE row.status
           body == before \o rest
           q == Len(before)
           end == Len(body) + 1
<1>1. /\ row.id \in Seq(T) /\ row.id # <<>> /\ row.id[1] \in {"PD", "**PD**"}
      /\ row.item \in Seq(T) /\ row.due \in Seq(T) /\ row.status \in Seq(T) /\ row.status # <<>>
  <2>1. row \in AnyRow /\ row.status # <<>>
    BY DEF IsDebtRow
  <2>2. row.id \in {<<"PD">>, <<"**PD**">>} /\ row.item \in Seq(STRING) /\ row.due \in Seq(STRING) /\ row.status \in Seq(STRING)
    BY <2>1 DEF AnyRow
  <2>3. \A s \in Seq(STRING) : s \in Seq(T)
    OBVIOUS
  <2>4. <<"PD">> \in Seq(T) /\ <<"**PD**">> \in Seq(T)
    OBVIOUS
  <2>5. row.id \in Seq(T) /\ row.id # <<>> /\ row.id[1] \in {"PD", "**PD**"}
    <3>1. <<"PD">> # <<>> /\ <<"**PD**">> # <<>> /\ <<"PD">>[1] = "PD" /\ <<"**PD**">>[1] = "**PD**"
      OBVIOUS
    <3> HIDE DEF T
    <3>2. QED
      BY <2>2, <2>4, <3>1, Zenon
  <2>6. QED
    BY <2>1, <2>2, <2>3, <2>5
<1>2. before \in Seq(T) /\ q \in Nat /\ q > 0 /\ before[q] = "|" /\ before[1] = row.id[1]
  <2> DEFINE left == row.id \o <<"|">> \o row.item \o <<"|">> \o row.due
  <2>1. <<"|">> \in Seq(T)
    OBVIOUS
  <2> HIDE DEF T
  <2>2. ASSUME NEW s \in Seq(T), s # <<>>, NEW t \in Seq(T)
        PROVE  s \o t \in Seq(T) /\ s \o t # <<>> /\ (s \o t)[1] = s[1]
    BY <2>2
  <2>3. left \in Seq(T) /\ left # <<>> /\ left[1] = row.id[1]
    <3> DEFINE a == row.id \o <<"|">>
               b == a \o row.item
               d == b \o <<"|">>
    <3>1. a \in Seq(T) /\ a # <<>> /\ a[1] = row.id[1]
      BY <1>1, <2>1, <2>2
    <3> HIDE DEF a
    <3>2. b \in Seq(T) /\ b # <<>> /\ b[1] = row.id[1]
      BY <1>1, <2>2, <3>1
    <3> HIDE DEF b
    <3>3. d \in Seq(T) /\ d # <<>> /\ d[1] = row.id[1]
      BY <2>1, <2>2, <3>2
    <3>4. left = d \o row.due
      BY DEF a, b
    <3> HIDE DEF d, left
    <3>5. QED
      BY <1>1, <2>2, <3>3, <3>4
  <2>4. before = left \o <<"|">>
    OBVIOUS
  <2> HIDE DEF left, before
  <2>5. QED
    BY <2>1, <2>3, <2>4
<1>3. line = IF outer THEN <<"|">> \o body ELSE body
  <2>1. line = IF outer THEN <<"|">> \o (before \o row.status) \o <<"|">> ELSE before \o row.status
    BY DEF Map!RowText
  <2>2. <<"|">> \in Seq(T)
    OBVIOUS
  <2> HIDE DEF before, T, line
  <2>3. ASSUME NEW s \in Seq(T), NEW t \in Seq(T), NEW u \in Seq(T)
        PROVE  (s \o t) \o u = s \o (t \o u)
    BY ConcatAssociative
  <2>4. <<"|">> \o (before \o row.status) \o <<"|">> = <<"|">> \o (before \o (row.status \o <<"|">>))
    <3>1. before \o row.status \in Seq(T)
      BY <1>1, <1>2, ConcatProperties
    <3>2. (<<"|">> \o (before \o row.status)) \o <<"|">> = <<"|">> \o ((before \o row.status) \o <<"|">>)
      BY <2>2, <2>3, <3>1
    <3>3. (before \o row.status) \o <<"|">> = before \o (row.status \o <<"|">>)
      <4>1. before \in Seq(T) /\ row.status \in Seq(T)
        BY <1>1, <1>2
      <4>2. QED
        BY <2>2, <2>3, <4>1, Zenon
    <3>4. QED
      BY <3>2, <3>3, Zenon
  <2>5. QED
    BY <2>1, <2>4
<1>4. /\ rest \in Seq(T) /\ rest # <<>> /\ rest[1] = Head(row.status)
      /\ \A i \in DOMAIN rest : rest[i] = "|" => i = Len(rest) \/ rest[i + 1] \notin Map!Statuses
  <2>1. \A i \in DOMAIN row.status : row.status[i] = "|" => i = Len(row.status) \/ row.status[i + 1] \notin Map!Statuses
    BY DEF IsDebtRow
  <2>2. CASE ~outer
    BY <1>1, <2>1, <2>2
  <2>3. CASE outer
    <3>1. /\ rest \in Seq(T) /\ Len(rest) = Len(row.status) + 1 /\ rest[Len(rest)] = "|"
          /\ \A i \in 1..Len(row.status) : rest[i] = row.status[i]
      BY <1>1, <2>3
    <3>2. "|" \notin Map!Statuses
      BY DEF Map!Statuses
    <3> HIDE DEF rest
    <3>3. rest # <<>> /\ rest[1] = Head(row.status)
      BY <1>1, <3>1
    <3>4. ASSUME NEW i \in DOMAIN rest, rest[i] = "|" PROVE i = Len(rest) \/ rest[i + 1] \notin Map!Statuses
      <4>1. CASE i < Len(row.status)
        <5>1. i \in 1..Len(row.status) /\ i + 1 \in 1..Len(row.status) /\ i # Len(row.status) /\ DOMAIN row.status = 1..Len(row.status)
          BY <1>1, <3>1, <3>4, <4>1
        <5>2. rest[i] = row.status[i] /\ rest[i + 1] = row.status[i + 1]
          BY <3>1, <5>1
        <5>3. QED
          BY <2>1, <3>4, <5>1, <5>2
      <4>2. CASE i >= Len(row.status)
        BY <1>1, <3>1, <3>2, <3>4, <4>2
      <4>3. QED
        BY <1>1, <3>1, <4>1, <4>2
    <3>5. QED
      BY <3>1, <3>3, <3>4
  <2>4. QED
    BY <2>2, <2>3
<1> HIDE DEF before, rest
<1>5. /\ body \in Seq(T) /\ Len(body) = q + Len(rest) /\ Len(rest) \in Nat /\ Len(rest) > 0
      /\ \A i \in 1..q : body[i] = before[i]
      /\ \A i \in 1..Len(rest) : body[q + i] = rest[i]
  BY <1>2, <1>4
<1>6. body # <<>> /\ Head(body) = row.id[1] /\ body[1] = row.id[1] /\ body[q] = "|"
  BY <1>1, <1>2, <1>5
<1> HIDE DEF body
<1>7. Map!Text(line) = body
  <2>1. CASE outer
    <3>1. line # <<>> /\ Head(line) = "|" /\ Tail(line) = body
      BY <1>5, <1>3, <2>1
    <3> HIDE DEF line
    <3>2. QED
      BY <3>1 DEF Map!Text
  <2>2. CASE ~outer
    <3>1. Head(line) # "|"
      BY <1>1, <1>3, <1>6, <2>2
    <3>2. QED
      BY <1>3, <2>2, <3>1 DEF Map!Text
  <2>3. QED
    BY <2>1, <2>2
<1>8. Map!Candidate(line)
  <2>1. \E i \in DOMAIN line : line[i] = "|"
    <3>1. q \in 1..Len(body) /\ Len(body) \in Nat
      BY <1>2, <1>5
    <3>2. CASE outer
      <4>1. q + 1 \in DOMAIN line /\ line[q + 1] = body[q]
        BY <1>2, <1>3, <1>5, <3>1, <3>2
      <4>2. QED
        BY <1>6, <4>1
    <3>3. CASE ~outer
      BY <1>3, <1>5, <1>6, <3>1, <3>3
    <3>4. QED
      BY <3>2, <3>3
  <2>2. \E i \in DOMAIN line : line[i] \in {"PD", "**PD**"}
    <3>1. CASE outer
      <4>1. 2 \in DOMAIN line /\ line[2] = body[1]
        BY <1>2, <1>5, <1>3, <3>1
      <4>2. QED
        BY <1>1, <1>6, <4>1
    <3>2. CASE ~outer
      <4>1. 1 \in DOMAIN line /\ line[1] = body[1]
        BY <1>2, <1>5, <1>3, <3>2
      <4>2. QED
        BY <1>1, <1>6, <4>1
    <3>3. QED
      BY <3>1, <3>2
  <2> HIDE DEF line
  <2>3. QED
    BY <2>1, <2>2 DEF Map!Candidate, Map!Range
<1> HIDE DEF line
<1>9. ASSUME NEW i \in Nat, q < i, i <= end
      PROVE  LET c == Map!Before(body, i)
             IN  c \in Map!Cuts(body) /\ c \in Nat /\ q <= c /\ c < i /\ (\A j \in Map!Cuts(body) : j < i => j <= c)
  <2> DEFINE below == {j \in Map!Cuts(body) : j < i}
  <2>1. below \in SUBSET Nat /\ q \in below /\ \A j \in below : j <= i
    BY <1>2, <1>5, <1>6, <1>9 DEF Map!Cuts
  <2>2. \E c \in below : \A j \in below : j <= c
    BY <2>1, GreatestElement
  <2> HIDE DEF below
  <2>3. \E c \in below : \A j \in below : c >= j
    BY <2>1, <2>2
  <2>4. Map!Max(below) \in below /\ \A j \in below : Map!Max(below) >= j
    BY <2>3 DEF Map!Max
  <2>5. Map!Max(below) = Map!Before(body, i)
    BY DEF Map!Before, below
  <2>6. QED
    BY <2>1, <2>4, <2>5 DEF below
<1>10. end \in Nat /\ q < end /\ q \in Map!Cuts(body)
  BY <1>2, <1>5, <1>6 DEF Map!Cuts
<1>11. ASSUME NEW i \in Nat, q < i, i <= end, Map!Cell(body, i) # <<>>
       PROVE  LET c == Map!Before(body, i)
              IN  Head(Map!Cell(body, i)) = body[c + 1] /\ c + 1 <= Len(body)
  <2> DEFINE c == Map!Before(body, i)
  <2>1. c \in Nat /\ c < i
    BY <1>9, <1>11
  <2> HIDE DEF c
  <2>2. Map!Cell(body, i) = SubSeq(body, c + 1, i - 1)
    BY DEF Map!Cell, c
  <2>3. c + 1 <= i - 1 /\ i - 1 <= Len(body)
    BY <1>5, <1>11, <2>1, <2>2
  <2>4. Head(SubSeq(body, c + 1, i - 1)) = body[c + 1]
    BY <1>5, <2>1, <2>3
  <2>5. QED
    BY <1>2, <1>5, <2>1, <2>2, <2>3, <2>4 DEF c
<1> DEFINE last == Map!LastCut(body)
<1>12. last \in Nat /\ q < last /\ last <= end
  <2>1. CASE Map!Cell(body, end) # <<>>
    <3>1. last = end
      BY <2>1 DEF Map!LastCut
    <3>2. QED
      BY <1>10, <3>1
  <2>2. CASE Map!Cell(body, end) = <<>>
    <3>1. last = Map!Before(body, end)
      BY <2>2 DEF Map!LastCut
    <3>2. last \in Nat /\ q <= last /\ last < end
      BY <1>9, <1>10, <3>1
    <3>3. last # q
      <4>1. ASSUME last = q PROVE FALSE
        <5>1. SubSeq(body, q + 1, end - 1) = <<>>
          BY <2>2, <3>1, <4>1 DEF Map!Cell
        <5>2. QED
          BY <1>2, <1>5, <5>1
      <4>2. QED
        BY <4>1
    <3> HIDE DEF last
    <3>4. QED
      BY <1>2, <1>10, <3>2, <3>3
  <2>3. QED
    BY <2>1, <2>2
<1>13. ASSUME Map!ParseRow(line) # Map!Unparsed
       PROVE  Map!ParseRow(line) = Head(row.status) /\ Head(row.status) \in Map!Statuses
  <2> DEFINE c == Map!Before(body, last)
  <2>1. /\ Map!Cell(body, last) # <<>> /\ Head(Map!Cell(body, last)) \in Map!Statuses
        /\ Map!ParseRow(line) = Head(Map!Cell(body, last))
    BY <1>7, <1>13 DEF Map!ParseRow
  <2> HIDE DEF last
  <2>2. c \in Map!Cuts(body) /\ c \in Nat /\ q <= c /\ Head(Map!Cell(body, last)) = body[c + 1] /\ c + 1 <= Len(body)
    BY <1>9, <1>11, <1>12, <2>1
  <2> HIDE DEF c
  <2>3. CASE c = q
    <3>1. body[c + 1] = Head(row.status)
      BY <1>4, <1>5, <2>3
    <3>2. QED
      BY <2>1, <2>2, <3>1
  <2>4. CASE c # q
    <3>1. PICK i \in 1..Len(rest) : c = q + i
      <4>1. c - q \in 1..Len(rest) /\ c = q + (c - q)
        BY <1>2, <1>5, <2>2, <2>4
      <4>2. QED
        BY <4>1
    <3>2. rest[i] = "|" /\ i + 1 <= Len(rest) /\ body[c + 1] = rest[i + 1]
      <4>1. body[c] = "|"
        <5>1. c # 0 /\ c # Len(body) + 1
          BY <1>2, <1>5, <2>2, <3>1
        <5>2. QED
          BY <2>2, <5>1 DEF Map!Cuts
      <4>2. i \in Nat /\ c + 1 = q + (i + 1)
        BY <1>2, <3>1
      <4>3. i + 1 <= Len(rest)
        BY <1>2, <1>5, <2>2, <4>2
      <4>4. i + 1 \in 1..Len(rest)
        BY <1>5, <4>2, <4>3
      <4>5. QED
        BY <1>5, <3>1, <4>1, <4>2, <4>3, <4>4
    <3>3. rest[i + 1] \notin Map!Statuses
      BY <1>4, <1>5, <3>1, <3>2
    <3>4. QED
      BY <2>1, <2>2, <3>2, <3>3
  <2>5. QED
    BY <2>3, <2>4
<1>14. QED
  BY <1>8, <1>13 DEF line

(* And the register is read row by row, whole or not at all. *)
LEMMA DebtsRead ==
    ASSUME NEW baseline, NEW rows, \A i \in DOMAIN rows : IsDebtRow(rows[i]), NEW outer \in BOOLEAN,
           NEW budget \in Nat, NEW since \in Nat
    PROVE  Map!DebtIsRead(baseline, rows, outer, budget, since)
<1> DEFINE lines == [i \in DOMAIN rows |-> Map!RowText(rows[i], outer)]
           read  == Map!ParseRegister(baseline, lines)
<1> SUFFICES ASSUME Map!DebtGreen(baseline, lines, budget, since)
             PROVE  /\ since <= budget \/ \A i \in DOMAIN rows : Head(rows[i].status) # "OPEN"
                    /\ \A i \in DOMAIN rows : Head(rows[i].status) \in Map!Statuses
  BY DEF Map!DebtIsRead
<1>1. DOMAIN read # {} /\ \A i \in DOMAIN read : ~Map!Overdue(read[i], budget, since)
  BY DEF Map!DebtGreen
<1>2. \A i \in DOMAIN rows : lines[i] = Map!RowText(rows[i], outer)
  OBVIOUS
<1>3. DOMAIN lines = DOMAIN rows
  OBVIOUS
<1> HIDE DEF lines
<1>4. {i \in DOMAIN lines : Map!Candidate(lines[i])} = DOMAIN rows
  BY <1>2, <1>3, RowsRead
<1>5. /\ \A i \in DOMAIN rows : Map!ParseRow(lines[i]) # Map!Unparsed
      /\ read = [i \in DOMAIN rows |-> Map!ParseRow(lines[i])]
  <2>1. DOMAIN <<>> = {}
    OBVIOUS
  <2>2. read # <<>>
    BY <1>1, <2>1
  <2>3. QED
    BY <1>4, <2>2 DEF Map!ParseRegister
<1>6. ASSUME NEW i \in DOMAIN rows
      PROVE  read[i] = Head(rows[i].status) /\ Head(rows[i].status) \in Map!Statuses /\ i \in DOMAIN read
  <2>1. Map!ParseRow(lines[i]) = Head(rows[i].status) /\ Head(rows[i].status) \in Map!Statuses
    BY <1>2, <1>5, RowsRead
  <2> HIDE DEF read
  <2>2. QED
    BY <1>5, <2>1
<1> HIDE DEF read
<1>7. QED
  BY <1>1, <1>6 DEF Map!Overdue

-----------------------------------------------------------------------------
(* The theorems: an input is judged as it is, so what holds of it holds for *)
(* good.                                                                   *)

(* For any hook's script whose gate the shell runs, and any registry,       *)
(* workflow, battery, manifest and clone: what the gate registry and the    *)
(* wiring doctor certify is what runs.                                      *)
THEOREM WiringIsCertified == Judging => []CertifiedWiringRuns
<1>1. IsInput => CertifiedWiringRuns
  <2> SUFFICES ASSUME IsInput PROVE CertifiedWiringRuns
    OBVIOUS
  <2>1. CASE input[1] = "wire"
    BY <2>1, TransportsWired DEF CertifiedWiringRuns
  <2>2. CASE input[1] = "battery"
    <3>1. input[2] \in Seq(AnyCommand)
      BY <2>2 DEF IsInput
    <3>2. QED
      BY <2>2, <3>1, BatteriesDecide DEF CertifiedWiringRuns
  <2>3. CASE input[1] = "plugin"
    <3>1. input[2].pre \in Seq(AnyEntry)
      BY <2>3 DEF IsInput
    <3>2. QED
      BY <2>3, <3>1, EditsGated DEF CertifiedWiringRuns
  <2>4. CASE input[1] = "clone"
    <3>1. input[2].checklist \in Seq(AnyLine)
      BY <2>4 DEF IsInput
    <3>2. QED
      BY <2>4, <3>1, ClonesEnforced DEF CertifiedWiringRuns
  <2>5. CASE input[1] = "hook"
    <3>1. IsScript(input[2])
      BY <2>5 DEF IsInput
    <3>2. Shell!CertifiedHookBlocks(input[2]) /\ \A on \in BOOLEAN : Shell!CarriedGateDecides(input[2], on)
      BY <3>1, HooksBlock, CarriersDecide
    <3>3. QED
      BY <2>5, <3>2 DEF CertifiedWiringRuns
  <2>6. CASE input[1] \notin {"hook", "wire", "battery", "plugin", "clone"}
    BY <2>6 DEF CertifiedWiringRuns
  <2>7. QED
    BY <2>1, <2>2, <2>3, <2>4, <2>5, <2>6
<1>2. CertifiedWiringRuns /\ [FALSE]_input => CertifiedWiringRuns'
  BY DEF CertifiedWiringRuns
<1>3. QED
  BY <1>1, <1>2, PTL DEF Judging

(* For any message and cleanup, the commit-msg hook reads the footer that   *)
(* git commits; for any payload, harness and task files, the authoring gate *)
(* and the banner agree.                                                    *)
THEOREM HooksReadTheSame == Judging => []HooksReadAlike
<1>1. IsInput => HooksReadAlike
  <2> SUFFICES ASSUME IsInput PROVE HooksReadAlike
    OBVIOUS
  <2>1. CASE input[1] = "message"
    <3>1. IsMessage(input[2], input[3])
      BY <2>1 DEF IsInput
    <3>2. QED
      BY <2>1, <3>1, FootersRead DEF HooksReadAlike
  <2>2. CASE input[1] = "edit"
    <3>1. input[2] \in AnyPayload /\ IsDirectory(input[5], AnyTask)
      BY <2>2 DEF IsInput
    <3>2. QED
      BY <2>2, <3>1, EditorsAgree, JudgementsAssumption DEF HooksReadAlike
  <2>3. CASE input[1] \notin {"message", "edit"}
    BY <2>3 DEF HooksReadAlike
  <2>4. QED
    BY <2>1, <2>2, <2>3
<1>2. HooksReadAlike /\ [FALSE]_input => HooksReadAlike'
  BY DEF HooksReadAlike
<1>3. QED
  BY <1>1, <1>2, PTL DEF Judging

(* For any register, directory of registers, record and pin: its readers    *)
(* take the same from it, and the pin's runs show what it says.             *)
THEOREM RecordsAreReadTrue == Judging => []RecordsReadTrue
<1>1. IsInput => RecordsReadTrue
  <2> SUFFICES ASSUME IsInput PROVE RecordsReadTrue
    OBVIOUS
  <2>1. CASE input[1] = "register"
    <3>1. input[2] \in STRING /\ input[3] \in AnyRegister \cup {Null}
      BY <2>1 DEF IsInput
    <3>2. QED
      BY <2>1, <3>1, RegistersAlike, JudgementsAssumption DEF RecordsReadTrue
  <2>2. CASE input[1] = "directory"
    <3>1. IsDirectory(input[2], AnyRegister \cup {Null}) /\ input[3] \in DOMAIN input[2]
      BY <2>2 DEF IsInput
    <3>2. QED
      BY <2>2, <3>1, LessonsReach, JudgementsAssumption DEF RecordsReadTrue
  <2>3. CASE input[1] = "record"
    BY <2>3, RecordsAlike DEF RecordsReadTrue
  <2>4. CASE input[1] = "pin"
    <3>1. /\ input[2] \in SUBSET Marks \cup {Null} /\ input[3] \in BOOLEAN
          /\ input[5] \in Pin!Outcomes /\ \A i \in 1..2 : input[6][i] \in Pin!Outcomes
      BY <2>4 DEF IsInput
    <3>2. QED
      BY <2>4, <3>1, PinsMove, JudgementsAssumption DEF RecordsReadTrue
  <2>5. CASE input[1] \notin {"register", "directory", "record", "pin"}
    BY <2>5 DEF RecordsReadTrue
  <2>6. QED
    BY <2>1, <2>2, <2>3, <2>4, <2>5
<1>2. RecordsReadTrue /\ [FALSE]_input => RecordsReadTrue'
  BY DEF RecordsReadTrue
<1>3. QED
  BY <1>1, <1>2, PTL DEF Judging

(* For any file and sources, corpus and contracts, tree and claims, host and *)
(* manifest: a gate that passes means what its pass is read to mean.         *)
THEOREM PassesHold == Judging => []PassedScansHold
<1>1. IsInput => PassedScansHold
  <2> SUFFICES ASSUME IsInput PROVE PassedScansHold
    OBVIOUS
  <2>1. CASE input[1] = "source"
    <3>1. IsSource(input[2]) /\ input[3] \in Seq(Nat)
      BY <2>1 DEF IsInput
    <3>2. QED
      BY <2>1, <3>1, SourcesStayGreen DEF PassedScansHold
  <2>2. CASE input[1] = "upstream"
    BY <2>2, FreshUnmoved DEF PassedScansHold
  <2>3. CASE input[1] = "corpus"
    <3>1. input[2] \in Seq(AnyContract)
      BY <2>3 DEF IsInput
    <3>2. QED
      BY <2>3, <3>1, DeadAreAccepted DEF PassedScansHold
  <2>4. CASE input[1] = "claims"
    <3>1. IsTree(input[2]) /\ input[3] \in Seq(AnyClaim(DOMAIN input[2]))
      BY <2>4 DEF IsInput
    <3>2. QED
      BY <2>4, <3>1, ClaimsBound DEF PassedScansHold
  <2>5. CASE input[1] = "host"
    <3>1. IsManifest(input[2], input[3])
      BY <2>5 DEF IsInput
    <3>2. QED
      BY <2>5, <3>1, HostsAreVendored DEF PassedScansHold
  <2>6. CASE input[1] \notin {"source", "upstream", "corpus", "claims", "host"}
    BY <2>6 DEF PassedScansHold
  <2>7. QED
    BY <2>1, <2>2, <2>3, <2>4, <2>5, <2>6
<1>2. PassedScansHold /\ [FALSE]_input => PassedScansHold'
  BY DEF PassedScansHold
<1>3. QED
  BY <1>1, <1>2, PTL DEF Judging

(* For any map of gates and tree, any file a loader takes and any debt      *)
(* register: a gate that passes has read what was written there.            *)
THEOREM MapsAreRead == Judging => []GatesReadTheirMaps
<1>1. IsInput => GatesReadTheirMaps
  <2> SUFFICES ASSUME IsInput PROVE GatesReadTheirMaps
    OBVIOUS
  <2>1. CASE input[1] = "file"
    BY <2>1, LoadedAsTheyAre DEF GatesReadTheirMaps
  <2>2. CASE input[1] = "map"
    <3>1. input[2].gates \in Seq(AnyGate)
      BY <2>2 DEF IsInput
    <3>2. QED
      BY <2>2, <3>1, SourcesSeen DEF GatesReadTheirMaps
  <2>3. CASE input[1] = "debt"
    <3>1. /\ input[3] \in BOOLEAN /\ input[4] \in Nat /\ input[5] \in Nat
          /\ \A i \in DOMAIN input[2] : IsDebtRow(input[2][i])
      BY <2>3 DEF IsInput
    <3>2. QED
      BY <2>3, <3>1, DebtsRead DEF GatesReadTheirMaps
  <2>4. CASE input[1] \notin {"file", "map", "debt"}
    BY <2>4 DEF GatesReadTheirMaps
  <2>5. QED
    BY <2>1, <2>2, <2>3, <2>4
<1>2. GatesReadTheirMaps /\ [FALSE]_input => GatesReadTheirMaps'
  BY DEF GatesReadTheirMaps
<1>3. QED
  BY <1>1, <1>2, PTL DEF Judging

-----------------------------------------------------------------------------
(* Where the last n pieces of a glob can take over, given where fewer can.   *)
NameFrom(f, glob, name, n) ==
    IF n = 0 THEN {Len(name)}
    ELSE IF glob[Len(glob) - n + 1] = "*" THEN {k \in 0..Len(name) : \E m \in f[n - 1] : k <= m}
    ELSE {k \in 0..Len(name) : k + 1 \in f[n - 1] /\ glob[Len(glob) - n + 1] \in {"?", name[k + 1]}}

PathFrom(f, pattern, path, n) ==
    IF n = 0 THEN {Len(path)}
    ELSE IF pattern[Len(pattern) - n + 1] = Glob!DoubleStar THEN {k \in 0..Len(path) : \E m \in f[n - 1] : k <= m}
    ELSE {k \in 0..Len(path) : k + 1 \in f[n - 1] /\ Glob!NameMatches(pattern[Len(pattern) - n + 1], path[k + 1])}

Width(glob, n) == Glob!TokenLength(glob, Len(glob) - n + 1)

TextFrom(f, glob, text, n) ==
    IF n = 0 THEN {Len(text)}
    ELSE {k \in 0..Len(text) : \E m \in f[n - Width(glob, n)] : Glob!Takes(glob, Len(glob) - n + 1, text, k, m)}

ReadsName(f, glob, name)    == \A n \in 0..Len(glob) : f[n] = NameFrom(f, glob, name, n)
ReadsPath(f, pattern, path) == \A n \in 0..Len(pattern) : f[n] = PathFrom(f, pattern, path, n)
ReadsText(f, glob, text)    == \A n \in 0..Len(glob) : f[n] = TextFrom(f, glob, text, n)

(* A name is read from the end of its glob. *)
LEMMA NameUnrolls ==
    ASSUME NEW glob, Len(glob) \in Nat, NEW name
    PROVE  \E f : ReadsName(f, glob, name) /\ (Glob!NameMatches(glob, name) <=> 0 \in f[Len(glob)])
<1> DEFINE Unrolled(f, i) == f = [n \in 0..i |-> NameFrom(f, glob, name, n)]
           S == {i \in Nat : i <= Len(glob) => \E f : Unrolled(f, i)}
<1>1. 0 \in S
  <2> DEFINE f == [n \in 0..0 |-> {Len(name)}]
  <2>1. \A n \in 0..0 : f[n] = NameFrom(f, glob, name, n)
    BY DEF NameFrom
  <2>2. Unrolled(f, 0)
    BY <2>1
  <2> HIDE DEF f, Unrolled
  <2> QED BY <2>2
<1>2. ASSUME NEW i \in S PROVE i + 1 \in S
  <2> SUFFICES ASSUME i + 1 <= Len(glob) PROVE \E f : Unrolled(f, i + 1)
    OBVIOUS
  <2>1. i \in Nat
    OBVIOUS
  <2>2. PICK f : Unrolled(f, i)
    BY <2>1
  <2> DEFINE g == [n \in 0..(i + 1) |-> IF n <= i THEN f[n] ELSE NameFrom(f, glob, name, i + 1)]
  <2>3. \A n \in 0..(i + 1) : NameFrom(g, glob, name, n) = NameFrom(f, glob, name, n)
    <3> TAKE n \in 0..(i + 1)
    <3>1. CASE n = 0
      BY <3>1 DEF NameFrom
    <3>2. CASE n # 0
      <4>1. n - 1 \in 0..(i + 1) /\ n - 1 <= i
        BY <2>1, <3>2
      <4>2. g[n - 1] = f[n - 1]
        BY <4>1
      <4> HIDE DEF g
      <4>3. QED
        BY <3>2, <4>2 DEF NameFrom
    <3> QED BY <3>1, <3>2
  <2>4. \A n \in 0..(i + 1) : g[n] = NameFrom(f, glob, name, n)
    <3> TAKE n \in 0..(i + 1)
    <3>1. CASE n <= i
      <4>1. n \in 0..i
        BY <2>1, <3>1
      <4>2. QED
        BY <2>2, <3>1, <4>1
    <3>2. CASE n = i + 1
      BY <2>1, <3>2
    <3> QED BY <2>1, <3>1, <3>2
  <2>5. \A n \in 0..(i + 1) : g[n] = NameFrom(g, glob, name, n)
    BY <2>3, <2>4
  <2> DEFINE h == [n \in 0..(i + 1) |-> NameFrom(g, glob, name, n)]
  <2>6. g = h
    BY <2>5
  <2>7. Unrolled(g, i + 1)
    BY <2>6
  <2> HIDE DEF g, Unrolled
  <2> QED BY <2>7
<1>3. S = Nat
  <2>1. S \in SUBSET Nat
    OBVIOUS
  <2> HIDE DEF S
  <2> QED BY <1>1, <1>2, <2>1, SetInduction
<1> DEFINE from == CHOOSE f : Unrolled(f, Len(glob))
<1>4. Unrolled(from, Len(glob))
  <2>1. \E f : Unrolled(f, Len(glob))
    BY <1>3
  <2> HIDE DEF Unrolled
  <2> QED BY <2>1
<1>5. Glob!NameMatches(glob, name) <=> 0 \in from[Len(glob)]
  BY DEF Glob!NameMatches, NameFrom
<1> HIDE DEF from
<1>6. ReadsName(from, glob, name)
  <2>1. \A n \in 0..Len(glob) : from[n] = NameFrom(from, glob, name, n)
    BY <1>4
  <2>2. QED
    BY <2>1 DEF ReadsName
<1>7. QED
  BY <1>5, <1>6

(* A path is read from the end of its pattern. *)
LEMMA PathUnrolls ==
    ASSUME NEW pattern, Len(pattern) \in Nat, NEW path
    PROVE  \E f : ReadsPath(f, pattern, path) /\ (Glob!SegmentsMatch(pattern, path) <=> 0 \in f[Len(pattern)])
<1> DEFINE Unrolled(f, i) == f = [n \in 0..i |-> PathFrom(f, pattern, path, n)]
           S == {i \in Nat : i <= Len(pattern) => \E f : Unrolled(f, i)}
<1>1. 0 \in S
  <2> DEFINE f == [n \in 0..0 |-> {Len(path)}]
  <2>1. \A n \in 0..0 : f[n] = PathFrom(f, pattern, path, n)
    BY DEF PathFrom
  <2>2. Unrolled(f, 0)
    BY <2>1
  <2> HIDE DEF f, Unrolled
  <2> QED BY <2>2
<1>2. ASSUME NEW i \in S PROVE i + 1 \in S
  <2> SUFFICES ASSUME i + 1 <= Len(pattern) PROVE \E f : Unrolled(f, i + 1)
    OBVIOUS
  <2>1. i \in Nat
    OBVIOUS
  <2>2. PICK f : Unrolled(f, i)
    BY <2>1
  <2> DEFINE g == [n \in 0..(i + 1) |-> IF n <= i THEN f[n] ELSE PathFrom(f, pattern, path, i + 1)]
  <2>3. \A n \in 0..(i + 1) : PathFrom(g, pattern, path, n) = PathFrom(f, pattern, path, n)
    <3> TAKE n \in 0..(i + 1)
    <3>1. CASE n = 0
      BY <3>1 DEF PathFrom
    <3>2. CASE n # 0
      <4>1. n - 1 \in 0..(i + 1) /\ n - 1 <= i
        BY <2>1, <3>2
      <4>2. g[n - 1] = f[n - 1]
        BY <4>1
      <4> HIDE DEF g
      <4>3. QED
        BY <3>2, <4>2 DEF PathFrom
    <3> QED BY <3>1, <3>2
  <2>4. \A n \in 0..(i + 1) : g[n] = PathFrom(f, pattern, path, n)
    <3> TAKE n \in 0..(i + 1)
    <3>1. CASE n <= i
      <4>1. n \in 0..i
        BY <2>1, <3>1
      <4>2. QED
        BY <2>2, <3>1, <4>1
    <3>2. CASE n = i + 1
      BY <2>1, <3>2
    <3> QED BY <2>1, <3>1, <3>2
  <2>5. \A n \in 0..(i + 1) : g[n] = PathFrom(g, pattern, path, n)
    BY <2>3, <2>4
  <2> DEFINE h == [n \in 0..(i + 1) |-> PathFrom(g, pattern, path, n)]
  <2>6. g = h
    BY <2>5
  <2>7. Unrolled(g, i + 1)
    BY <2>6
  <2> HIDE DEF g, Unrolled
  <2> QED BY <2>7
<1>3. S = Nat
  <2>1. S \in SUBSET Nat
    OBVIOUS
  <2> HIDE DEF S
  <2> QED BY <1>1, <1>2, <2>1, SetInduction
<1> DEFINE from == CHOOSE f : Unrolled(f, Len(pattern))
<1>4. Unrolled(from, Len(pattern))
  <2>1. \E f : Unrolled(f, Len(pattern))
    BY <1>3
  <2> HIDE DEF Unrolled
  <2> QED BY <2>1
<1>5. Glob!SegmentsMatch(pattern, path) <=> 0 \in from[Len(pattern)]
  BY DEF Glob!SegmentsMatch, PathFrom
<1> HIDE DEF from
<1>6. ReadsPath(from, pattern, path)
  <2>1. \A n \in 0..Len(pattern) : from[n] = PathFrom(from, pattern, path, n)
    BY <1>4
  <2>2. QED
    BY <2>1 DEF ReadsPath
<1>7. QED
  BY <1>5, <1>6

(* A token is no longer than what is left of its glob. *)
LEMMA TokensFit ==
    ASSUME NEW glob, Len(glob) \in Nat, DOMAIN glob = 1..Len(glob), NEW n \in 1..Len(glob)
    PROVE  Width(glob, n) \in 1..n
<1>1. Len(glob) \in Nat /\ DOMAIN glob = 1..Len(glob) /\ n \in Nat /\ 1 <= n /\ n <= Len(glob)
  OBVIOUS
<1>2. \A j \in Nat : Glob!At(glob, j) \in {"*", "/"} => j <= Len(glob)
  <2> TAKE j \in Nat
  <2>1. CASE j \in DOMAIN glob
    BY <1>1, <2>1
  <2>2. CASE j \notin DOMAIN glob
    BY <2>2 DEF Glob!At
  <2>3. QED
    BY <2>1, <2>2
<1> DEFINE i == Len(glob) - n + 1
<1>3. i \in Nat /\ n = Len(glob) - i + 1
  BY <1>1
<1> HIDE DEF i
<1>4. (i + 1 <= Len(glob) => 2 <= n) /\ (i + 2 <= Len(glob) => 3 <= n)
  BY <1>1, <1>3
<1>5. /\ Glob!At(glob, i + 1) = "*" => i + 1 <= Len(glob)
      /\ Glob!At(glob, i + 2) = "/" => i + 2 <= Len(glob)
  BY <1>2, <1>3
<1>6. Glob!TokenLength(glob, i) \in 1..n
  BY <1>1, <1>4, <1>5 DEF Glob!TokenLength
<1>7. QED
  BY <1>6 DEF Width, i

(* A text is read from the end of its glob. *)
LEMMA TextUnrolls ==
    ASSUME NEW glob, Len(glob) \in Nat, DOMAIN glob = 1..Len(glob), NEW text
    PROVE  \E f : ReadsText(f, glob, text) /\ (Glob!TextMatches(glob, text) <=> 0 \in f[Len(glob)])
<1> DEFINE Unrolled(f, i) == f = [n \in 0..i |-> TextFrom(f, glob, text, n)]
           S == {i \in Nat : i <= Len(glob) => \E f : Unrolled(f, i)}
<1>0. Len(glob) \in Nat
  OBVIOUS
<1>1. 0 \in S
  <2> DEFINE f == [n \in 0..0 |-> {Len(text)}]
  <2>1. \A n \in 0..0 : f[n] = TextFrom(f, glob, text, n)
    BY DEF TextFrom
  <2>2. Unrolled(f, 0)
    BY <2>1
  <2> HIDE DEF f, Unrolled
  <2> QED BY <2>2
<1>2. ASSUME NEW i \in S PROVE i + 1 \in S
  <2> SUFFICES ASSUME i + 1 <= Len(glob) PROVE \E f : Unrolled(f, i + 1)
    OBVIOUS
  <2>1. i \in Nat
    OBVIOUS
  <2>2. PICK f : Unrolled(f, i)
    BY <2>1
  <2> DEFINE g == [n \in 0..(i + 1) |-> IF n <= i THEN f[n] ELSE TextFrom(f, glob, text, i + 1)]
  <2>3. \A n \in 0..(i + 1) : TextFrom(g, glob, text, n) = TextFrom(f, glob, text, n)
    <3> TAKE n \in 0..(i + 1)
    <3>1. CASE n = 0
      BY <3>1 DEF TextFrom
    <3>2. CASE n # 0
      <4>1. Width(glob, n) \in 1..n
        <5>1. n \in 1..Len(glob)
          BY <1>0, <2>1, <3>2
        <5>2. QED
          BY <5>1, TokensFit
      <4>2. n - Width(glob, n) \in 0..(i + 1) /\ n - Width(glob, n) <= i
        BY <2>1, <3>2, <4>1
      <4>3. g[n - Width(glob, n)] = f[n - Width(glob, n)]
        BY <4>2
      <4> HIDE DEF g
      <4>4. QED
        BY <3>2, <4>3 DEF TextFrom
    <3> QED BY <3>1, <3>2
  <2>4. \A n \in 0..(i + 1) : g[n] = TextFrom(f, glob, text, n)
    <3> TAKE n \in 0..(i + 1)
    <3>1. CASE n <= i
      <4>1. n \in 0..i
        BY <2>1, <3>1
      <4>2. QED
        BY <2>2, <3>1, <4>1
    <3>2. CASE n = i + 1
      BY <2>1, <3>2
    <3> QED BY <2>1, <3>1, <3>2
  <2>5. \A n \in 0..(i + 1) : g[n] = TextFrom(g, glob, text, n)
    BY <2>3, <2>4
  <2> DEFINE h == [n \in 0..(i + 1) |-> TextFrom(g, glob, text, n)]
  <2>6. g = h
    BY <2>5
  <2>7. Unrolled(g, i + 1)
    BY <2>6
  <2> HIDE DEF g, Unrolled
  <2> QED BY <2>7
<1>3. S = Nat
  <2>1. S \in SUBSET Nat
    OBVIOUS
  <2> HIDE DEF S
  <2> QED BY <1>1, <1>2, <2>1, SetInduction
<1> DEFINE from == CHOOSE f : Unrolled(f, Len(glob))
<1>4. Unrolled(from, Len(glob))
  <2>1. \E f : Unrolled(f, Len(glob))
    BY <1>0, <1>3
  <2> HIDE DEF Unrolled
  <2> QED BY <2>1
<1>5. Glob!TextMatches(glob, text) <=> 0 \in from[Len(glob)]
  BY DEF Glob!TextMatches, TextFrom, Width
<1> HIDE DEF from
<1>6. ReadsText(from, glob, text)
  <2>1. \A n \in 0..Len(glob) : from[n] = TextFrom(from, glob, text, n)
    BY <1>0, <1>4
  <2>2. QED
    BY <2>1 DEF ReadsText
<1>7. QED
  BY <1>5, <1>6

(* Where a piece takes over is a place of what is matched. *)
LEMMA FromInside ==
    ASSUME NEW f, NEW glob, NEW name, Len(name) \in Nat, NEW n
    PROVE  NameFrom(f, glob, name, n) \subseteq 0..Len(name) /\ PathFrom(f, glob, name, n) \subseteq 0..Len(name)
<1>1. CASE n = 0
  BY <1>1 DEF NameFrom, PathFrom
<1>2. CASE n # 0
  BY <1>2 DEF NameFrom, PathFrom
<1>3. QED
  BY <1>1, <1>2

(* What a star, a double star and any other character take. *)
LEMMA TakesOf ==
    ASSUME NEW glob, NEW i, NEW text, NEW k \in Nat, NEW m \in Nat
    PROVE  /\ Glob!TokenLength(glob, i) = 2 /\ k <= m => Glob!Takes(glob, i, text, k, m)
           /\ Glob!TokenLength(glob, i) = 1 /\ glob[i] = "*" /\ k <= m /\ (\A j \in (k + 1)..m : text[j] # "/")
                => Glob!Takes(glob, i, text, k, m)
           /\ Glob!TokenLength(glob, i) = 1 /\ glob[i] # "*" /\ m = k + 1 /\ text[m] # "/" /\ glob[i] \in {"?", text[m]}
                => Glob!Takes(glob, i, text, k, m)
BY DEF Glob!Takes

(* A glob that matches a name in the scope's dialect matches it in pathspec's. *)
LEMMA NameIsText ==
    ASSUME NEW glob \in AnyName, NEW name \in AnyName, Glob!NameMatches(glob, name)
    PROVE  Glob!TextMatches(glob, name)
<1>1. /\ Len(glob) \in Nat /\ Len(name) \in Nat /\ DOMAIN glob = 1..Len(glob)
      /\ (\A i \in 1..Len(glob) : glob[i] # "/") /\ (\A j \in 1..Len(name) : name[j] # "/")
  BY DEF AnyName
<1>2. PICK f : ReadsName(f, glob, name) /\ 0 \in f[Len(glob)]
  BY <1>1, NameUnrolls
<1>3. PICK g : ReadsText(g, glob, name) /\ (Glob!TextMatches(glob, name) <=> 0 \in g[Len(glob)])
  BY <1>1, TextUnrolls
<1>4. \A n \in 0..Len(glob) : f[n] \subseteq 0..Len(name)
  <2> TAKE n \in 0..Len(glob)
  <2>1. f[n] = NameFrom(f, glob, name, n)
    BY <1>2 DEF ReadsName
  <2>2. NameFrom(f, glob, name, n) \subseteq 0..Len(name)
    BY <1>1, FromInside
  <2>3. QED
    BY <2>1, <2>2
<1> DEFINE S == {n \in Nat : \A l \in 0..n : l <= Len(glob) => f[l] \subseteq g[l]}
<1>5. 0 \in S
  <2>1. f[0] = NameFrom(f, glob, name, 0) /\ g[0] = TextFrom(g, glob, name, 0)
    BY <1>1, <1>2, <1>3 DEF ReadsName, ReadsText
  <2>2. f[0] = g[0]
    BY <2>1 DEF NameFrom, TextFrom
  <2>3. QED
    BY <2>2
<1>6. ASSUME NEW n \in S PROVE n + 1 \in S
  <2> SUFFICES ASSUME n + 1 <= Len(glob), NEW k \in f[n + 1] PROVE k \in g[n + 1]
    OBVIOUS
  <2> DEFINE l == n + 1
             i == Len(glob) - l + 1
  <2>1. /\ n \in Nat /\ l \in 1..Len(glob) /\ i \in 1..Len(glob) /\ l - 1 = n
        /\ \A j \in 0..n : f[j] \subseteq g[j]
    BY <1>1
  <2>2. /\ Width(glob, l) = Glob!TokenLength(glob, i) /\ Width(glob, l) \in 1..l
        /\ g[l] = {j \in 0..Len(name) : \E m \in g[l - Width(glob, l)] : Glob!Takes(glob, i, name, j, m)}
        /\ f[l] = NameFrom(f, glob, name, l)
    <3>1. Width(glob, l) = Glob!TokenLength(glob, i)
      BY DEF Width
    <3>2. Width(glob, l) \in 1..l
      BY <1>1, <2>1, TokensFit
    <3>3. g[l] = TextFrom(g, glob, name, l) /\ f[l] = NameFrom(f, glob, name, l)
      BY <1>1, <1>2, <1>3, <2>1 DEF ReadsText, ReadsName
    <3>4. TextFrom(g, glob, name, l) = {j \in 0..Len(name) : \E m \in g[l - Width(glob, l)] : Glob!Takes(glob, i, name, j, m)}
      BY <2>1 DEF TextFrom
    <3>5. QED
      BY <3>1, <3>2, <3>3, <3>4
  <2>3. k \in 0..Len(name) /\ k \in Nat /\ k \in f[l]
    BY <1>1, <1>4, <2>1
  <2>4. SUFFICES \E m \in g[l - Width(glob, l)] : Glob!Takes(glob, i, name, k, m)
    BY <2>2, <2>3
  <2>5. CASE glob[i] = "*"
    <3>1. PICK m \in f[n] : k <= m
      BY <2>1, <2>2, <2>3, <2>5 DEF NameFrom
    <3>2. m \in 0..Len(name) /\ m \in Nat
      BY <1>1, <1>4, <2>1, <3>1
    <3>3. CASE Width(glob, l) = 1
      <4>1. m \in g[l - Width(glob, l)]
        BY <2>1, <3>1, <3>3
      <4>2. \A j \in (k + 1)..m : name[j] # "/"
        BY <1>1, <2>3, <3>2
      <4>3. Glob!Takes(glob, i, name, k, m)
        BY <2>2, <2>3, <2>5, <3>1, <3>2, <3>3, <4>2, TakesOf
      <4>4. QED
        BY <4>1, <4>3
    <3>4. CASE Width(glob, l) = 2
      <4>1. Glob!At(glob, i + 1) = "*"
        BY <2>2, <3>4 DEF Glob!TokenLength
      <4>2. i + 1 \in 1..Len(glob) /\ glob[i + 1] = "*"
        BY <1>1, <4>1 DEF Glob!At
      <4>3. n \in 1..Len(glob) /\ Len(glob) - n + 1 = i + 1 /\ n - 1 = l - Width(glob, l) /\ n - 1 \in 0..n
        BY <1>1, <2>1, <3>4, <4>2
      <4>4. f[n] = NameFrom(f, glob, name, n)
        BY <1>1, <1>2, <4>3 DEF ReadsName
      <4>5. PICK p \in f[n - 1] : m <= p
        BY <3>1, <4>2, <4>3, <4>4 DEF NameFrom
      <4>6. p \in Nat /\ p \in g[l - Width(glob, l)]
        BY <1>1, <1>4, <2>1, <4>3, <4>5
      <4>7. k <= p
        BY <2>3, <3>1, <3>2, <4>5, <4>6
      <4>8. Glob!Takes(glob, i, name, k, p)
        BY <2>2, <2>3, <3>4, <4>6, <4>7, TakesOf
      <4>9. QED
        BY <4>6, <4>8
    <3>5. CASE Width(glob, l) = 3
      <4>1. Glob!At(glob, i + 2) = "/"
        BY <2>2, <3>5 DEF Glob!TokenLength
      <4>2. QED
        BY <1>1, <4>1 DEF Glob!At
    <3>6. Glob!TokenLength(glob, i) \in {1, 2, 3}
      BY DEF Glob!TokenLength
    <3>7. QED
      BY <2>2, <3>3, <3>4, <3>5, <3>6
  <2>6. CASE glob[i] # "*"
    <3>1. k + 1 \in f[n] /\ glob[i] \in {"?", name[k + 1]}
      BY <2>1, <2>2, <2>3, <2>6 DEF NameFrom
    <3>2. k + 1 \in 1..Len(name) /\ k + 1 \in g[n]
      <4>1. n \in 0..Len(glob) /\ n \in 0..n
        BY <1>1, <2>1
      <4>2. f[n] \subseteq 0..Len(name) /\ f[n] \subseteq g[n]
        BY <1>4, <2>1, <4>1
      <4>3. QED
        BY <1>1, <2>3, <3>1, <4>2
    <3>3. Width(glob, l) = 1
      BY <2>2, <2>6 DEF Glob!TokenLength
    <3>4. name[k + 1] # "/"
      BY <1>1, <3>2
    <3>5. Glob!Takes(glob, i, name, k, k + 1)
      BY <2>2, <2>3, <2>6, <3>1, <3>2, <3>3, <3>4, TakesOf
    <3>6. QED
      BY <2>1, <3>2, <3>3, <3>5
  <2>7. QED
    BY <2>5, <2>6
<1>7. S = Nat
  <2>1. S \in SUBSET Nat
    OBVIOUS
  <2> HIDE DEF S
  <2>2. QED
    BY <1>5, <1>6, <2>1, SetInduction
<1>8. f[Len(glob)] \subseteq g[Len(glob)]
  BY <1>1, <1>7
<1>9. QED
  BY <1>2, <1>3, <1>8

(* In pathspec, a double star matches every name. *)
LEMMA DoubleStarTakesAll ==
    ASSUME NEW text \in AnyName
    PROVE  Glob!TextMatches(Glob!DoubleStar, text)
<1> DEFINE glob == <<"*", "*">>
<1>1. Len(glob) = 2 /\ glob[1] = "*" /\ glob[2] = "*"
  OBVIOUS
<1>2. Len(text) \in Nat /\ DOMAIN glob = 1..2
  BY <1>1 DEF AnyName
<1> HIDE DEF glob
<1>3. PICK g : ReadsText(g, glob, text) /\ (Glob!TextMatches(glob, text) <=> 0 \in g[2])
  <2>1. Len(glob) \in Nat /\ DOMAIN glob = 1..Len(glob)
    BY <1>1, <1>2
  <2>2. \E g : ReadsText(g, glob, text) /\ (Glob!TextMatches(glob, text) <=> 0 \in g[Len(glob)])
    BY <2>1, TextUnrolls
  <2>3. QED
    BY <1>1, <2>2
<1>4. Glob!TokenLength(glob, 1) = 2 /\ Width(glob, 2) = 2
  <2>1. Glob!At(glob, 2) = "*" /\ Glob!At(glob, 3) = ""
    BY <1>1, <1>2 DEF Glob!At
  <2>2. Glob!TokenLength(glob, 1) = 2
    <3>1. 1 + 1 = 2 /\ 1 + 2 = 3
      OBVIOUS
    <3>2. QED
      BY <1>1, <2>1, <3>1 DEF Glob!TokenLength
  <2>3. QED
    BY <1>1, <2>2 DEF Width
<1>5. g[0] = {Len(text)} /\ g[2] = {k \in 0..Len(text) : \E m \in g[0] : Glob!Takes(glob, 1, text, k, m)}
  BY <1>1, <1>2, <1>3, <1>4 DEF ReadsText, TextFrom
<1>6. Glob!Takes(glob, 1, text, 0, Len(text))
  BY <1>1, <1>2, <1>4, TakesOf
<1>7. QED
  BY <1>1, <1>2, <1>3, <1>5, <1>6 DEF glob, Glob!DoubleStar

(* A pattern the scope law admits and matches: its first segment matches the *)
(* path's first name, and the others match what follows.                     *)
LEMMA FirstName ==
    ASSUME NEW pattern \in Seq(AnyName) \ {<<>>}, NEW path \in Seq(AnyName), Glob!PathInScope(path, {pattern})
    PROVE  /\ path # <<>> /\ Glob!NameMatches(pattern[1], path[1])
           /\ \E f : ReadsPath(f, pattern, path) /\ 1 \in f[Len(pattern) - 1]
<1>1. Len(pattern) \in Nat /\ Len(pattern) >= 1 /\ Len(path) \in Nat /\ Head(pattern) = pattern[1] /\ pattern[1] \in AnyName
  OBVIOUS
<1>2. Glob!GlobLawful(pattern) /\ Glob!SegmentsMatch(pattern, path)
  BY DEF Glob!PathInScope
<1>3. pattern[1] # Glob!DoubleStar
  BY <1>1, <1>2 DEF Glob!GlobLawful, Glob!DoubleStar
<1>4. PICK f : ReadsPath(f, pattern, path) /\ 0 \in f[Len(pattern)]
  BY <1>1, <1>2, PathUnrolls
<1>5. f[Len(pattern)] = PathFrom(f, pattern, path, Len(pattern)) /\ Len(pattern) - Len(pattern) + 1 = 1 /\ Len(pattern) # 0
  BY <1>1, <1>4 DEF ReadsPath
<1>6. 0 + 1 \in f[Len(pattern) - 1] /\ Glob!NameMatches(pattern[1], path[0 + 1])
  BY <1>3, <1>4, <1>5 DEF PathFrom
<1>7. \A n \in 0..Len(pattern) : f[n] \subseteq 0..Len(path)
  <2>1. \A n \in 0..Len(pattern) : f[n] = PathFrom(f, pattern, path, n)
    BY <1>4 DEF ReadsPath
  <2>2. \A n \in 0..Len(pattern) : PathFrom(f, pattern, path, n) \subseteq 0..Len(path)
    BY <1>1, FromInside
  <2>3. QED
    BY <2>1, <2>2
<1>8. Len(path) # 0
  BY <1>1, <1>6, <1>7
<1>9. QED
  BY <1>1, <1>4, <1>6, <1>8

(* After the last name only double stars can match. *)
LEMMA OnlyDoubleStars ==
    ASSUME NEW pattern \in Seq(AnyName), NEW path \in Seq(AnyName), Len(path) = 1, NEW f, ReadsPath(f, pattern, path),
           NEW n \in 0..Len(pattern), 1 \in f[n]
    PROVE  \A i \in (Len(pattern) - n + 1)..Len(pattern) : pattern[i] = Glob!DoubleStar
<1> DEFINE Stars(m) == \A i \in (Len(pattern) - m + 1)..Len(pattern) : pattern[i] = Glob!DoubleStar
           S == {m \in Nat : m <= Len(pattern) /\ 1 \in f[m] => Stars(m)}
<1>1. Len(pattern) \in Nat
  OBVIOUS
<1>2. 0 \in S
  BY <1>1
<1>3. ASSUME NEW m \in S PROVE m + 1 \in S
  <2> SUFFICES ASSUME m + 1 <= Len(pattern), 1 \in f[m + 1] PROVE Stars(m + 1)
    OBVIOUS
  <2> DEFINE l == m + 1
             i == Len(pattern) - l + 1
  <2>1. m \in Nat /\ l \in 1..Len(pattern) /\ m \in 0..Len(pattern) /\ l - 1 = m /\ i \in Nat /\ Len(pattern) - m + 1 = i + 1
    BY <1>1
  <2>2. f[l] = PathFrom(f, pattern, path, l) /\ f[m] = PathFrom(f, pattern, path, m)
    BY <1>1, <2>1 DEF ReadsPath
  <2>3. f[m] \subseteq 0..1
    <3>1. Len(path) \in Nat
      OBVIOUS
    <3>2. PathFrom(f, pattern, path, m) \subseteq 0..Len(path)
      BY <3>1, FromInside
    <3>3. QED
      BY <2>2, <3>2
  <2>4. pattern[i] = Glob!DoubleStar
    <3>1. SUFFICES ASSUME pattern[i] # Glob!DoubleStar PROVE FALSE
      OBVIOUS
    <3>2. 1 + 1 \in f[l - 1]
      BY <2>1, <2>2, <3>1 DEF PathFrom
    <3>3. QED
      BY <2>1, <2>3, <3>2
  <2>5. PICK j \in f[m] : 1 <= j
    BY <2>1, <2>2, <2>4 DEF PathFrom
  <2>6. 1 \in f[m]
    BY <2>3, <2>5
  <2>7. Stars(m)
    BY <1>1, <2>1, <2>6
  <2>8. ASSUME NEW p \in i..Len(pattern) PROVE p = i \/ p \in (i + 1)..Len(pattern)
    BY <1>1, <2>1
  <2>9. QED
    BY <2>1, <2>4, <2>7, <2>8
<1>4. S = Nat
  <2>1. S \in SUBSET Nat
    OBVIOUS
  <2> HIDE DEF S
  <2>2. QED
    BY <1>2, <1>3, <2>1, SetInduction
<1>5. QED
  BY <1>1, <1>4

(* A pattern that puts a file of the fence's surface in scope is one the     *)
(* tier law sees.                                                            *)
LEMMA ScopesAreTiered ==
    ASSUME NEW pattern \in Seq(AnyName) \ {<<>>}, NEW path \in Seq(AnyName),
           Glob!FenceSurfacePath(path), Glob!PathInScope(path, {pattern})
    PROVE  Glob!CoversFenceSurface(pattern, {})
<1>1. /\ Len(pattern) \in Nat /\ Len(pattern) >= 1 /\ DOMAIN pattern = 1..Len(pattern) /\ Len(path) \in Nat
      /\ (\A i \in 1..Len(pattern) : pattern[i] \in AnyName) /\ (\A i \in 1..Len(path) : path[i] \in AnyName)
  OBVIOUS
<1>2. PICK f : ReadsPath(f, pattern, path) /\ 1 \in f[Len(pattern) - 1]
  BY FirstName
<1>3. path # <<>> /\ Glob!NameMatches(pattern[1], path[1])
  BY FirstName
<1>4. Glob!Segment(pattern, 1) = pattern[1] /\ Glob!Matches(path[1], pattern[1])
  <2>1. Glob!TextMatches(pattern[1], path[1])
    BY <1>1, <1>3, NameIsText
  <2>2. QED
    BY <1>1, <2>1 DEF Glob!Segment, Glob!Matches
<1>5. CASE Len(path) = 1 /\ path[1] \in SurfaceFiles
  <2>1. \A i \in (Len(pattern) - (Len(pattern) - 1) + 1)..Len(pattern) : pattern[i] = Glob!DoubleStar
    BY <1>1, <1>2, <1>5, OnlyDoubleStars
  <2>2. Glob!SurfaceFileReached(path[1], pattern)
    BY <1>1, <1>4, <2>1 DEF Glob!SurfaceFileReached
  <2>3. QED
    BY <1>5, <2>2 DEF Glob!CoversFenceSurface
<1>6. ASSUME NEW root \in Roots, Len(path) > Len(root), Glob!IsPrefix(root, path)
      PROVE  Glob!RootReachesPattern(root, pattern)
  <2>1. root \in Seq(AnyName) /\ Len(root) \in 1..2 /\ DOMAIN root = 1..Len(root)
    BY RootsAssumption DEF RootsAreShallow
  <2>2. \A i \in 1..Len(root) : root[i] = path[i]
    BY <1>6, <2>1 DEF Glob!IsPrefix
  <2>3. CASE Len(root) = 1
    BY <1>4, <2>1, <2>2, <2>3 DEF Glob!RootReachesPattern
  <2>4. CASE Len(root) = 2
    <3>1. Len(pattern) > 1
      <4>1. SUFFICES ASSUME Len(pattern) = 1 PROVE FALSE
        BY <1>1
      <4>2. f[0] = {Len(path)}
        <5>1. f[0] = PathFrom(f, pattern, path, 0)
          BY <1>1, <1>2 DEF ReadsPath
        <5>2. QED
          BY <5>1 DEF PathFrom
      <4>3. QED
        BY <1>1, <1>2, <1>6, <2>4, <4>1, <4>2
    <3>2. f[Len(pattern) - 1] = PathFrom(f, pattern, path, Len(pattern) - 1) /\ Len(pattern) - (Len(pattern) - 1) + 1 = 2
      BY <1>1, <1>2, <3>1 DEF ReadsPath
    <3>3. pattern[2] = Glob!DoubleStar \/ Glob!NameMatches(pattern[2], path[1 + 1])
      BY <1>1, <1>2, <3>1, <3>2 DEF PathFrom
    <3>4. path[2] \in AnyName /\ pattern[2] \in AnyName
      BY <1>1, <1>6, <2>4, <3>1
    <3>5. Glob!TextMatches(pattern[2], path[2])
      BY <3>3, <3>4, NameIsText, DoubleStarTakesAll
    <3>6. Glob!Matches(path[2], Glob!Segment(pattern, 2))
      BY <1>1, <3>1, <3>5 DEF Glob!Matches, Glob!Segment
    <3>7. \A i \in DOMAIN root : Glob!Matches(root[i], Glob!Segment(pattern, i))
      BY <1>4, <2>1, <2>2, <2>4, <3>6
    <3>8. QED
      BY <2>4, <3>7 DEF Glob!RootReachesPattern
  <2>5. QED
    BY <2>1, <2>3, <2>4
<1>7. QED
  BY <1>5, <1>6 DEF Glob!FenceSurfacePath, Glob!CoversFenceSurface

(* For scope patterns and paths of any number of segments, of any length: a  *)
(* pattern by which a task puts a file of the fence's surface in its scope   *)
(* is one that the tier law holds against it, whatever is on disk.           *)
THEOREM ScopesReachNoFence == Judging => []ScopedSurfaceIsTiered
<1>1. IsInput => ScopedSurfaceIsTiered
  <2> SUFFICES ASSUME IsInput, input[1] = "scope" PROVE Glob!ScopedSurfaceIsTiered(input[2], input[3])
    BY DEF ScopedSurfaceIsTiered
  <2>1. input[2] \in Seq(AnyName) \ {<<>>} /\ input[3] \subseteq Seq(AnyName)
    BY DEF IsInput
  <2>2. QED
    BY <2>1, ScopesAreTiered DEF Glob!ScopedSurfaceIsTiered
<1>2. ScopedSurfaceIsTiered /\ [FALSE]_input => ScopedSurfaceIsTiered'
  BY DEF ScopedSurfaceIsTiered
<1>3. QED
  BY <1>1, <1>2, PTL DEF Judging
=============================================================================
