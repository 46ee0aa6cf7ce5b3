# TLA+ specifications of the stallion task lifecycle

Stallion moves the rules of agent-written code out of the prompt and into Node
tools that refuse. The tools are short-lived processes: every one reads some
JSON files, perhaps runs commands for minutes, and writes one file under a
lock. Several agents and their owner run them at once on the same files. What
can go wrong is therefore in the *order of steps of different invocations*,
which no self-test of the repository runs. These modules model those steps,
check them with TLC on small instances and prove the most important results
with TLAPS for every instance.

## 1. The system: inventory

| Component | Source (`tools/`) | State it keeps | Operations | Modelled in |
|---|---|---|---|---|
| File lock and atomic JSON update | `task-findings.mjs` 539-600 | `<file>.lock`, `<file>.tmp`, the file | `withLock`, `acquireLock`, `atomicWriteJson`, `mutateJson` | `LockFile`, `AtomicUpdates` |
| Findings register law | `task-findings.mjs` 25-208, 399-460 | findings with status, severity, evidence | append, raise, resolve, repair, wont-fix, aggregate | `FindingsLaw`, `Readers` |
| Task record law | `task-state.mjs` 75-509 | nothing (pure) | phases, pins, scope, guards of each transition | `TaskLaw`, `PinRuns`, `ScopeGlob` |
| Task-state commands | `task-state.mjs` 555-1150 | `tasks/<id>.json` | new, approve, scope, red-check, pin-retire, pin-exempt, retire, advance, adopt-chain, status, handoff, metrics | `TaskLifecycle`, `Remedies`, `EventChain`, `Readers` |
| Adversarial runner | `adversarial-runner.mjs` | `adversarial/state/<id>.json`, lane bundles | prepare, record, resolve, wont-fix, verdict | `TaskLifecycle`, `Readers`, `Wiring` (the checklist's lanes) |
| Calibration | `adversarial-runner.mjs` 890-1178 | `<id>.calibration.json` | calibrate, calibrate-record, calibrate-verdict | `Calibration`, `Rediscovery` |
| Gates on commits and pushes | `task-coverage.mjs` | nothing; reads git, records, anchor | staged, commit-msg and range checks | `CommitLaw`, `PushFence`, `FenceRemedies`, `CommitMessage`, `MergeOwn` |
| Scope glob dialect | `task-coverage.mjs` 387-460, `task-state.mjs` 165-255 | nothing | match, fence-surface tier | `ScopeGlob` |
| Event chain | `task-findings.mjs`, `task-state.mjs` | seq, parent and entry hashes | stamp, check, adopt | `EventChain` |
| Fact gate | `task-gate.mjs` | per-session counters and asked targets | classify a command, deny once, let pass, evict | `TaskGate`, `Commands` |
| jj workspaces | `task-workspace.mjs` | workspaces on disk | add, landing check, forget | `Landing` |
| Detached HEAD guard | `detached-head-guard.mjs` | nothing | verdict on a commit | `Landing` |
| ZCode plugin | `zcode-plugin/` | nothing | authoring gate, turn banner | `EditHook`, `CommitLaw`, `FenceRemedies` |
| Wiring doctor, gate registry | `task-coverage.mjs` 140-360, 1251-1429, `gate-registry.mjs` | nothing | which hook, workflow and battery carries which gate | `HookShell`, `Wiring`, `GateMaps` |
| guard-reach | `guard-reach.mjs` | a lock, a probe, the modes ratchet | probe each guard, record its reach | `GuardReach`, `GateMaps` |
| Complexity ratchet, freshness, dead-wiring sweep | `complexity-gate.mjs`, `vendor-drift.mjs`, `reader-existence.mjs` | a baseline each | scan and compare | `Scans`, `TestCode`, `MemberUses` |
| Doc claims, debt register, gate coverage | `doc-reconcile.mjs`, `debt-gate.mjs`, `gate-coverage.mjs` | nothing | read a map, check a tree against it | `DocClaims`, `GateMaps` |
| Vendored corpus comparison | `vendor-drift.mjs` | a manifest | compare host, upstream and corpus | `Vendoring` |
| Remote-string lint | `remote-string-lint.mjs` | nothing | find what a remote string expands at home | `RemoteStrings` |
| Retrospective, bench | `retrospective.mjs`, `bench/` | nothing | index the lessons of past passes | `Readers` (the index) |
| Git hooks and CI | `.githooks/`, `.github/` | nothing | call the tools above | `HookShell`, `Wiring` |
| Test lint, path obligations, head-glue probe | `test-lint.mjs`, `path-obligations.mjs`, `zz-head-glue-probe.mjs` | nothing | one pass over a tree | not modelled |

How they interact:

- every write of a record, a findings register or a calibration register goes
  through `mutateJson`, and each *file* has a lock of its own;
- `advance` reads the findings register and the evidence files while it holds
  the lock of the *record* only; the runner looks at the record
  (`requireOpenTask`) before it takes the lock of the *register*;
- `red-check` and `advance` run commands outside any lock and write afterwards;
- the gates on commits and pushes, the plugin and the handoff read the files
  without a lock, at any moment; the fence reads the *working tree's* record and
  a copy of it at the remote tip;
- a refusal prints the command that is to repair it, and the agent runs it;
- a dozen readers load the same register or record, each by itself.

What is hard: the windows just named; processes killed in the middle of a
locked section; lockfiles that turn stale; pins that are retired and recorded
again; approvals, scopes and transitions that arrive in any order; findings
recorded, raised and closed by several reviewers; verdicts about something that
has been replaced; what a commit may cite after several pushes and merges; and
two readers of one text (a hook, a command, a glob, a declaration) who differ.
`PROJECT.json` lists the hazards one by one, with the line where each bites and
the property that would catch it.

What makes each component correct:

- *Lock*: exclusion; an acknowledged write survives; readers see whole files;
  every process ends; an orphaned lock is taken over.
- *Record*: phases in order and once each; what a gate ran is what the record
  it wrote calls for; approvals first; terminal records are frozen; a printed
  fix leads out.
- *Register*: append-only but for one repair; one escape is one finding; it
  comes to rest after the task is finished; its readers agree.
- *Calibration*: dispatches cut the claims into pieces; one verdict each; a
  verdict stands on its own dispatch; the count is fair.
- *Gates*: what lands was judged; a finished task authorizes nothing new; what
  is settled stays lawful; the three transports agree.
- *Fact gate*: a target is asked before it passes, and not twice within its TTL;
  a command is judged by what the shell will run of it.
- *Chain, guard-reach, workspaces*: a record that verifies was written as it is;
  one run per checkout, and a recorded reach that damage, edits of the guard and
  kills do not narrow; a landed forget loses nothing and a commit reaches a
  branch.
- *Judgements of a text or a tree*: what passes has the meaning its pass is read
  to have.

## 2. Modules

| Module | What it is | Extends or instantiates |
|---|---|---|
| `AtomicUpdates` | abstract: a log of whole updates, and acknowledgements | |
| `LockFile` | detailed: lockfile, temporary file and rename, one step per file-system call | `AtomicUpdates` |
| `LockFile_proofs` | exclusion, durability, whole files, refinement | `LockFile` |
| `FindingsLaw` | pure operators of the findings register | |
| `TaskLaw` | pure operators of the record: derived state and judges | `FindingsLaw` |
| `NatOrder_proofs` | lemmas: least and greatest naturals of a set, induction over a set | |
| `TaskLaw_proofs` | lemmas: what appending an event does to phase, pins and approval | `TaskLaw`, `NatOrder_proofs` |
| `TaskLifecycle` | one task's record and register under several sessions | `TaskLaw` |
| `TaskLifecycle_proofs` | types, gates, approvals, terminality, phases in order; the findings register | `TaskLifecycle`, `TaskLaw_proofs` |
| `Remedies` | the fix each refused transition prints, and following it | `TaskLifecycle` |
| `Rediscovery` | pure: which known defects a set of claims rediscovers | |
| `Calibration` | dispatches, claims and verdicts under several sessions | `Rediscovery` |
| `Calibration_proofs` | dispatches tile the claims, verdicts rest on one and are final, the match is fair | `Calibration`, `NatOrder_proofs` |
| `CommitLaw` | pure: which code a commit, a push or an edit may carry | `TaskLaw` |
| `PushFence` | commits, merges and pushes of one clone while the task travels | `CommitLaw` |
| `FenceRemedies` | the fix a refused commit or edit prints, and following it | `PushFence` |
| `MergeOwn` | what a merge commit authors, with git's merge and without | |
| `PushFence_proofs` | what the transports let through, judged by each other; merges | `PushFence`, `MergeOwn`, `TaskLaw_proofs` |
| `TaskGate` | the fact gate's state file under concurrent calls | |
| `EventChain` | a record's hash chain under commands and hand edits | |
| `GuardReach` | the lock, the probe and the ratchet | |
| `Landing` | a workspace, the primary copy and HEAD | |
| `Tools_proofs` | guard-reach, workspaces, the fact gate, and that no edit of a chain is laundered | `GuardReach`, `Landing`, `TaskGate`, `EventChain`, `NatOrder_proofs` |
| `HookShell`, `Wiring`, `CommitMessage`, `ScopeGlob`, `Commands`, `EditHook`, `GateMaps`, `Scans`, `TestCode`, `MemberUses`, `DocClaims`, `Vendoring`, `RemoteStrings`, `Readers`, `PinRuns` | judgements: functions of one input, and what their verdict is read to mean | |
| `Judgements` | what an input of a judgement is, of any size, and what six groups of them promise | `HookShell`, `EditHook`, `CommitMessage`, `Wiring`, `Readers`, `PinRuns`, `Scans`, `DocClaims`, `Vendoring`, `GateMaps`, `ScopeGlob` |
| `Judgements_proofs` | wiring, hooks, records, passes, maps and scopes, for every input | `Judgements`, `NatOrder_proofs` |
| `MC*` | constants, inputs and symmetry for TLC | |

### LockFile

A process is one invocation of a tool. `Create`, `CheckStale`, `BreakStale` are
the loop of `acquireLock`; `Load`, `OpenTmp`, `WriteTmp`, `Rename` the body of
`mutateJson`; `Release` the `finally` of `withLock`. Files are inodes: opening
for writing truncates what the name points at, a rename moves the name, and an
open descriptor keeps its inode. `Crash` may hit between any two steps
(`process.exit` inside the section is one: it skips the `finally`). Time is only
the lockfile's age: `Age` makes it older than the 60 s after which a waiter may
remove it, for the lock of a suspended live process (`StaleHolders`) or of a dead
one (`StaleOrphans`: never, only for the last process that still wants the file,
or at any time). `MaxAttempts` stands for the code's 60.

`AtomicUpdates` is what callers rely on: a log that grows by whole updates, and
callers that are told so. `LockFile` refines it with the file's content as the
log and the processes that ended well as the acknowledged ones.

### FindingsLaw, TaskLaw

Events are records, paths, commands, signatures, patterns and claims members of
small sets. A judge is TRUE where the code answers `null` or `{ ok: true }`.
Severities are 0 (LOW) to 3 (CRITICAL). The evidence a finding cites is its
`place`; an equal place, or without one an equal claim, is an equal dedup key.
Not modelled: time stamps and with them the cutovers that exempt old records
(every pin has its `--expect` signature); the hash chain; wording; the glob
dialect (which patterns reach the fence's own surface is the constant
`FencePatterns`); decision headings (whether `approve` finds its heading is
open). A register that exists has its pass marker, since only `prepare` mints
one.

### TaskLifecycle

State: the record (`riskClass`, `events`), the findings `register`, the
`bundles` on disk, the evidence files on `disk`, and for each shell the command
it has in flight (`session`). A command that reads nothing before its lock is
one step: `New`, `Approve`, `AmendScope`, `RetirePin`, `ExemptPin`, `Retire`.
The others are split where the code lets go:

| Command | Steps |
|---|---|
| `red-check` | `RedCheckRun` judges the append law and runs the command; `RedCheckAppend` judges again and appends |
| `advance` | `AdvanceRun` takes a snapshot and runs the battery or the pins; `AdvanceCommit` refuses a moved record, judges and appends |
| `prepare` | `OpenDoor`, `WriteBundles`, `MintPassMarker` |
| `record`, `resolve`, `wont-fix` | `OpenDoor`, then `RecordFinding`, `ResolveFinding`, `WontFixFinding` |

`GiveUp` is a refusal or a kill of any of them. `EditTree` is everybody's
working tree. Whether the battery is green and a pin fails is open. `judged` is
a history variable: what was run for the transitions that were granted.

Why a locked section may be one step: the refinement of `AtomicUpdates`. It
holds while no lockfile turns stale under two contenders, and so do the results
here. `AdvanceCommit`
judges the register while it holds the record's lock only, in one step; the
register may move right after, which `lifecycle_done_clean` shows. `resolve`
looks at the files it cites right after it looked at the record, here in one
step: a file that is deleted in between is a file deleted before.

### Rediscovery, Calibration

`Rediscovery` is `calibrationVerdict`: the greedy match of claims and known
defects by shared tokens, explicit links, the bar of two thirds. Tokenizing is
abstracted to the number of tokens a claim shares with a defect. `Calibration`
is the three commands, each split into its read of the wave's register (for the
verdict, also of the calibration register) and its write under the lock, while
the wave is re-prepared (`Prepare`) and gains defects (`FindDefect`). A verdict
carries, as history, the stretch of claims and the range it was computed from.

### Remedies

`Refusal` gives the reason of a blocked transition in the order the guards give
it, `Fixes` the commands printed for it, `Follow` what the lifecycle makes of
such a command. `Obstacles` counts what stands in the way of the next
transition: one for each of the guard's conditions that fails, two for each pin
that fails or cites lost evidence, since its retirement may leave the task
without a pin. `RemediesLeadOut`: at every record at rest, with a red battery
and any of the pins failing, nothing is refused exactly when the count is zero;
each command of a fix is accepted, and whatever is typed in it, the count is
lower afterwards. So the fixes printed along the way unblock the transition and
no refusal is met twice. Whoever follows a fix needs a command, a signature, a
path or a range to type in it (`Supplied`).

### CommitLaw, PushFence, FenceRemedies, MergeOwn

`CommitLaw` is the pure half of `task-coverage`: `IsCodePath`, `RecordLawful`,
`ScopeAuthorizes`, `IsNewCitation`, the settled anchor, the law of a moved
`.stallion-base`, and the judgements of the staged gate, the commit-msg gate, the
range check and the editor's plugin. Files are members of `Files`; what a path
spells is its membership in the constant sets. A record is what `loadRecord`
returns, so the record of a hand-edited file can be any of them.

`PushFence` is one clone: a `RecordStep` appends an event to the record in the
working tree, `CommitThroughHooks` and `CommitAroundHooks` make commits,
`Merge` joins two branches, `Push` lets the fence judge a range and moves the
remote tip. A commit carries its ancestors, the files it authors, its footer and
what its tree says of the base file and the task, which is all the fence asks
git. `judged` is a history variable.

`FenceRemedies` adds the fix that a refused commit prints (`CitationFix`) and the
records that following it may leave (`Follow`). A fix can be refused in turn, by
the command it names; that refusal prints a fix of its own, which is followed
too. Two printed fixes are of that kind: a protected
task that was retired before it was approved is told to `approve`
(`task-coverage.mjs:589`), which the write seam refuses and answers with a new
task (`task-state.mjs:275`); and a runtime-code task is told to scope over a file
of the fence's surface (`task-coverage.mjs:455`), which the tier law refuses and
answers with a protected task (`task-state.mjs:245`). `Ahead` counts the commands
that are still to come, four at most for a task that may scope over the file;
`LeadsOut` says that a fix is printed exactly as long as some are, and that each
printed fix, its detour included, leaves fewer.

`MergeOwn` says which files a merge commit is held
to; the theorem `FallbackIsNoWeaker` is that the code's fallback, where git
cannot recompute the merge, holds it to no less.

### TaskGate, EventChain, GuardReach, Landing

`TaskGate`: a call reads the clock (`Arrive`), then gets the lock and decides; so
decisions are out of the order of their times, by at most `Skew`. The state file
evicts the oldest asks beyond `MaxTargets` and forgets after `Ttl`.
`DemandsStand` is what a session is promised: `AskedOnce`, about the demands,
and `DenialsDiffer`, about the ordinals and the wording of the refusals.

`EventChain`: commands append stamped events; `Tamper` edits, drops or inserts
one by hand. What verifies was written by commands or blessed by `adopt-chain`.
The chain covers events only (not the risk class), and a tail that is cut off
leaves a prefix that verifies; both are in the property as the code has them.

`GuardReach`: one step per file-system call of the lock, then the runs of the
guard without and with the probe, judge, record. `Killed`, by a signal that is
handled or not, may hit at any step, and may cut short the file that is being
written; `Record` writes the file of the working tree, or fails to in silence as
the code does. `EditGuard` changes the guard or the ratchet file: damages it, or
puts any entry in it, as a hand may or the printed `git checkout` of whatever
was committed. `recorded` is the entry a run wrote last, `replaced` says that
somebody has put another in its place since; both are history variables. Two
runs that judge one dead run's lock remove it in turn, and the slower removes
the lock the faster has just created: `takenOver` marks it, and the properties
hold outside it. A run killed after it removed a lock and before it swept leaves
a probe behind, which the next run sweeps.

`Landing` composes `task-workspace` with the primary copy and the detached-HEAD
guard: edits of a draft that are below the tip, in it, or not yet snapshotted; a
primary whose `@` stands on the trunk or on the draft; rebases that detach HEAD.
jj and git are external: what the actions `Split`, `JjMove`, `StartRebase` do is
how the tools use them. Aborting a rebase gives up its commits on purpose. A
`forget --landed` that is run in a third workspace snapshots nothing of the
workspace it forgets; the model runs it where its directory is. The override
`ALLOW_DETACHED_HEAD` is left out.

### Judgements

These have no state: each is a function the code applies to one input, and a
statement of what its verdict is taken to mean, written against a second,
independent reading of the same input (what a POSIX shell runs, what git
commits, what JavaScript means, what the author of a line meant). The second
reading is external and marked so. TLC evaluates them over all small inputs.
`Judgements` says what an input is whatever its size (`IsInput`: registers with
any findings, directories and trees of any files, hook scripts, batteries,
messages, checklists, claims, tables, scope patterns and paths of any length),
and is extended by the modules that enumerate the small ones; what it promises
of `HookShell`, `CommitMessage`, `EditHook`, `Wiring`, `Readers`, `PinRuns`,
`Scans`, `DocClaims`, `Vendoring`, `GateMaps` and `ScopeGlob` is proved of all of
them. A hook script
(`IsScript`) mentions its gate once, whole on a line of its own, which may stand
in a quote, after a backslash, in a dead branch or below an `exit 0`; its
branches start and end where a command can start, and what they hold is
indented: an unindented `set -e` in a dead branch is a residual that the readers
state themselves.

| Module | What is judged | Against what |
|---|---|---|
| `HookShell` | a hook's text carries its gate (`invokesMode`, `carries`) | the shell: a refusal of the gate that it runs stops the hook |
| `Commands` | a command is destructive, or bypasses the hooks | what the shell runs, through quotes, escapes, continuations and redirects |
| `CommitMessage` | the footer the commit-msg hook reads | what git commits after its cleanup, with comments and scissors |
| `ScopeGlob` | a scope pattern reaches fence surface | matching: no pattern that matches surface escapes the tier |
| `Wiring` | doctor, registry, battery, plugin manifest, checklist | what then runs on a commit, a push or an edit, and which lane is handed out |
| `GateMaps` | the files that tell a gate what to judge | what was written there: misspelt, empty, given twice |
| `EditHook` | the authoring gate and the turn banner | each other, over payloads, harnesses and broken records |
| `Scans` | complexity ratchet, freshness, dead wiring | a clean clone of what is committed; the newest fetched tree; each contract alone |
| `TestCode`, `MemberUses` | which lines are test code, and what the others do with a member | the program and the lines as they were composed |
| `DocClaims` | doc-reconcile's evidence | the tree: a bound claim is refutable by it |
| `Vendoring` | host, upstream and manifest | the files as they were vendored |
| `RemoteStrings` | lines a remote string would expand | the chain of strings and functions as it was composed |
| `Readers` | registers, records, directories | every other reader of the same file |
| `PinRuns` | RED at recording, GREEN at done | the outcomes of the command's runs |

Where the code's reading and the meaning differ, the property says so by a
named exclusion, and this is the list:

- `HookShell`: whether the shell *gets* to the gate's line is judged by neither
  reader: both pass a gate in a dead branch, and one below an `exit 0`
  (`GateIsReached`). Whether that line *starts a command* is not judged by the
  doctor, which takes the quotes and continuations above into account for
  `set -e` only: it certifies a gate inside a multi-line `echo "..."` or after a
  trailing backslash (`GateIsCommand`; the run `hook_gate` shows it against the
  code's own comment). The registry sees the quote, and states that it does not
  see the continuation.
- `GuardReach`: an entry that a hand or a `git checkout` put in the place of the
  recorded one is what the next run is compared with. The fix printed for a
  damaged file restores what was *committed*: an `index` that is older than the
  recorded `disk`, or a file without the guard's row, lets the narrower reach
  pass (`replaced`).
- `Commands`: rows that are judged by the next word only; `$'...'` is split like
  a plain quote; `git config` verbs inside `sh -c '...'` are not seen.
- `GateMaps`: loaders that ignore unknown keys take a file whose optional key is
  misspelt; debt rows with more cells than the header are left out.
- `DocClaims`: a repo-count whose ignores leave no file cannot be refuted.
- `Scans`: the dead lines of a file are shared across contracts, though a
  comment in `reader-existence.mjs` says they are per contract; `findings` are
  only added by it, never silenced, which is what is checked.
- `TestCode`, `MemberUses`: test helpers that call each other and nothing else
  are taken for production; a `]` in a comment inside a union's array ends it.
- `RemoteStrings`: an assignment that follows on the line which closes a string,
  `ssh` on such a line after a local string, strings of one line, and brackets
  used as data in a function's body are not followed.
- `PinRuns`: a command that loses its exit status may turn GREEN by crashing;
  pins recorded before `--expect` carry no signature.
- `Readers`: `status` does not skip a listed record whose events are malformed;
  the replay of a calibration does not ask whose register it excludes.
- `Wiring`: headings of the checklist are counted, not numbered; only for a
  checklist numbered in order is a lane recordable exactly when it was handed
  out. A `## ` line inside a class ends it, and its lines reach nobody.

## 3. Runs

| Run | Question | Bounds |
|---|---|---|
| `lock_safety` | exclusion, no lost update, whole files, termination, refinement, with kills anywhere; does the last waiter take a stale orphan over? | 3 processes, 3 attempts, orphans turn stale for the last process only |
| `lock_stale_race` | no lost update with two waiters at a stale orphan: **violated** | 3 processes, 1 may die, 3 attempts, orphans turn stale at any time |
| `lifecycle_record` | gates, approvals, order and terminality under racing advances and red-checks | 2 sessions, 3 classes, 1 pin, 2 scopes of which one reaches the fence, 2 extra events |
| `lifecycle_pins` | the arc of pins retired and pinned again, up to done, and the fixes printed on the way | 1 session, 1 command, 1 signature, 1 path, 3 extra events |
| `lifecycle_register` | append-only but for vanished evidence, distinct escapes | 2 sessions, 2 claims, 1 place, 2 files, severities LOW and HIGH, 2 findings |
| `lifecycle_settles` | does the register come to rest once the task is terminal? | 2 sessions, 1 finding, 2 ranges, 1 extra event |
| `lifecycle_done_clean` | a done task's register aggregates clean: **violated** | 2 sessions, 1 finding |
| `calibration` | tiling, one verdict per dispatch, a verdict on one dispatch, a fair count | 2 sessions, 2 ranges, 3 defects, 3 kinds of claim, 3 claims of which at most one is linked, 2 dispatches |
| `calibration_race` | earlier dispatches are never graded again: **violated** | 2 sessions, 1 claim, 2 dispatches |
| `fence` | what lands was judged; done authorizes nothing new; settled stays lawful; transports agree; printed fixes lead out | 2 branches, 3 files, 1 protected task, from no record or from its eighth event, 4 events and commits after that |
| `tools` | the four machines and the judgements, one at a time | machines: 2 calls, 3 targets (2 kept), TTL 2, skew 1, 4 ticks, 4 denials; 4 events, 2 hand edits; 3 runs, 2 changes; 2 edits, 2 branches. Judgements: 205,000 inputs |
| `hook_gate` | does the invocation that the doctor certifies start a command? **violated** | the scripts of `tools` |

Why the bounds are enough to be interesting. Three processes are one holder, one
that is about to check the lock and one that overtakes both; three attempts let
a waiter retry, break a stale lock and try again, or give up. In
`TaskLifecycle`, `MaxExtras` bounds the events that are neither `created` nor
transitions (with the red-checks in flight), so a record always has room for all
its transitions; two extras are a pin and what races with it, or an approval and
a scope; three are a pin that is retired and recorded again. In `lifecycle_pins`
a record with a finding has room for one pin only (`PinsOrFindings`). A race on
a record or a register needs two sessions: what a third could do, another
command of the first two can. Two findings make a duplicate, a distinct escape
and a clash of claims possible. Three known defects are the least that a
calibration accepts, and three claims of the kinds in `MCCalibration` let one
claim compete with another for two defects; one linked claim is enough for a
link to meet a match by tokens (`OneLinked`).

`fence` starts from a task without a record or from one that has reached its
eighth event, so four steps of work and commits let a task be cited before and
after it is finished, on either branch, before and after a push of the other;
one more branch would be one more copy of the second. A protected task owes an
approval and may scope over the fence's surface; a second class would double the
run, and the theorems are about all of them. In `tools` a behaviour is
one machine's or one judgement's. Two calls race; three targets exceed the two
that are kept; with a TTL of 2, four ticks let a demand lapse and be made again.
Of three runs of `guard-reach` one is dead and two take its lock over. Two edits
put one above and one below the split of a workspace. Two hand edits of a chain
are an edit and its cover-up. The inputs of the judgements are listed in
`MCTools` and `MCJudgements`: texts of up to a few lines or words, each from an
alphabet that holds one of every kind the code tells apart.

Sets that no action names an element of are symmetric where safety alone is
checked.

*Fairness.* `LockFile!FairSpec` schedules each process that has not been killed
(`WF` of its steps); nothing is assumed of `Crash` and `Age`.
`TaskLifecycle!FairSpec` ends each command in flight, by its write, a refusal or
a kill: the code gives every run a timeout and every lock a bound of attempts.
Nothing forces anybody to issue a command.

*Deadlock* is checked in every run but `fence`, `tools` and `hook_gate`, where
pushes, records and inputs really come to an end; `AllSettled` and `AtRest` are
the places where the others are finished.

### What the violations show

1. `lock_stale_race` (`task-findings.mjs:565`). Breaking a stale lock checks the
   age of the lockfile and then removes it by name. A waiter that judged an
   orphan stale can be overtaken by another, which removes it, creates its own
   and enters: the first then removes the new lock. Both hold it, and an update
   that was acknowledged is overwritten. It takes one dead holder, a minute, and
   two live writers.
2. `lifecycle_done_clean` (`adversarial-runner.mjs:156`). A `record` that looked
   at the task while it was adversarial lands after `advance done` found the
   register clean. A comment in the code concedes the window;
   `docs/TASK-LIFECYCLE.md` does not. `lifecycle_settles` shows what does hold:
   such writers end, and after the last of them the register never moves.
3. `calibration_race` (`adversarial-runner.mjs:1166`). `calibrate-verdict` grades
   outside the lock, and the lock only asks that *some* dispatch is open. One
   that was opened meanwhile receives its predecessor's verdict.
   `VerdictGradesOneDispatch` shows what does hold: a verdict, wherever it is
   written, was computed on the claims of one dispatch, never on a union.
4. `hook_gate` (`task-coverage.mjs:170`). `invokesMode` matches every line of a
   hook by itself, so a hook of an open quote and the gate's line below it is
   certified, and so is one of a backslash and that line. The shell hands the
   line to the command above as text. The comment says that "the invocation must
   start the command (an `echo` mentioning the tool wires nothing)".
   `CertifiedHookBlocks` shows what does hold: where the line starts a command
   and the shell gets to it, a refusal stops the hook.

## 4. Proofs

Checked by TLAPS for every value of the constants that their assumptions admit.

**The lock** (`LockFile_proofs`). Every theorem has `[]StaleIsLone` as a
hypothesis: while a lockfile is stale, at most one process still wants the file.
`LockCorrect` removes it where the constants let only such lockfiles turn stale;
the first violation above shows that it cannot be dropped. The inductive
invariant `IInv` says that a process in the critical
section *is* the one the lockfile names (`Held`), that what it loaded is still
the file's content (`Loaded`: nobody else can write), that between the write and
the rename the temporary name points at a whole copy of that content with its
own update appended (`Prepared`), that a process which has not renamed is not
in the log (`Pending`), that one which reported success is (`Kept`), and that
a process yet to open the temporary file has no inode, so that opening truncates
neither the shared file nor anything a reader sees (`Fresh`, `Apart`), and that
who is about to remove a stale lockfile is the last one running (`BreaksAlone`),
so that no lock of a live holder goes with it. From it
`LockExcludes`, `UpdatesSurvive` and `ReadersSafe` are immediate, and
`LockRefines` follows: `Rename` is `Apply`, `Release` is `Acknowledge`, every
other step stutters.

**The record** (`TaskLaw_proofs`, `TaskLifecycle_proofs`). `TypeCorrect` first.
Then every step either opens the record, appends one event with the judgement
that goes with it (`Granted`), or leaves the record alone (`RecordGrows`); the
lemmas of `TaskLaw_proofs` say what an appended event does to the phase and the
live pins. The properties of the gates are not inductive alone; `RecordInv` adds

- `HasLatest`: the phase is read off a real event, the last transition;
- `Snapshots`: an advance in flight ran what its snapshot called for: the live
  pins when that was adversarial and the target done, the battery when it was
  executing and the target verified. Together with `Unmoved` this is why the
  gate judged the record it wrote;
- `Climbed`: no recorded transition is above the phase, so that a retirement,
  lawful at intake and planned, finds no `executing` behind it.

`GatesHold` (which covers `VerifiedOnBattery` and `CodeDonePinned` too),
`ApprovalsComeFirst` (`FenceScopeApproved` and `RetiredNeverExecuted` too),
`TerminalIsFinal` and `PinsStayLive` follow, for any number of sessions, events,
commands and patterns. `PhasesAreInOrder` needs one fact more, `PhaseCounted`:
until a retirement, the rank of the phase *is* the number of transitions. So a
transition that is granted to the next rank is the next in number, and any other
event changes neither. The ends of the walk (`EndsInPlace`) are inductive by
`StepEnds`: only `new` grants a creation, to a task that has no record; and by
`Climbed`, a record that may still be appended to holds neither a retirement nor
a transition to done (`OpenNotEnded`).

**The findings register** (`TaskLifecycle_proofs`). One lemma carries it: a step
leaves the findings alone, or adds one finding whose escape is new (`Grown`), or
rewrites one finding into one that stands for it (`Rewritten`): same claim, same
place, no lower severity, and, once closed, the same status and the same
evidence unless some of it is gone (`RegisterStep`, from `RaiseStands`,
`ResolveStands` and `WontFixStands`). `RegisterAppendOnly` reads the action
property off it; `EscapesDistinct` is inductive with `TypeOK`, because a finding
that stands for another keeps its deduplication key. Both hold whatever a
command saw before it took the lock: the register is judged inside it.

**Remedies** (`TaskLifecycle_proofs`). `RemediesLead` holds for any record that
can be appended to (`Blockable`, which every reached record satisfies by
`TypeOK`), whatever the record holds and however many pins fail at once. It is
an argument by a measure. A refusal is the first condition of the guard that
fails, so there is one exactly when `Obstacles` is not zero (`RefusedIsBlocked`).
Each fix removes the condition it was printed for and brings up no other:
an approval, a pin or an exemption leaves the live red-checks alone but for its
own (`LiveAppend`); a retirement takes the pin it names, and at worst leaves the
task pinless, which weighs less than the pin did (`Retirements`); a resolution
cites files that exist, so it closes its finding and loses no other's evidence
(`Closings`). `DoneFixed` needs the exception to append-only resolutions: were a
closed finding never touched again, evidence that vanished would have no fix.

**Calibration** (`Calibration_proofs`). The inductive invariant is: the register
is typed; the closed dispatches and the open one cover the claims in order,
without gap or overlap (`Tiled`); every verdict recorded *or carried by a
grading command in flight* was computed on the claims of one dispatch
(`RestsOnOne`, `InFlightGrades`). The second half of the last is what makes it
inductive: grading reads the register outside the lock, and the claims it graded
must still be that dispatch's when the verdict lands. They are, because every
write only extends the register (`Extends`): claims are appended, dispatches are
closed where the claims end, and none is reopened. `DispatchesTile`,
`VerdictsRestOnOne` and `VerdictsAreFinal` follow. What the proof does *not*
give is that the verdict lands in the dispatch it was computed for: it may not,
which is the violation `calibration_race`.

`MatchesFairly` is about the count itself, for any overlaps of claims and
defects. The sort puts every pair in the row exactly once (`SortedIsARow`: the
place of a pair, one more than the pairs before it, is an injection of the pairs
into their number, hence a surjection). By induction along the row the match is
one-to-one, and no pair judged so far can join it (`MatchIsMaximal`). Therefore
it is no larger than the best one-to-one set; and the best is no more than twice
as large, because each of its pairs shares its defect or its claim with a pair
of the match, and no two share the same one (`UnjoinableIsHalf`).

**The fence** (`PushFence_proofs`, under `PushFenceAssumption`). The inductive
invariant `FenceInv` joins the types with

- `History`: a commit is among its own ancestors, they come before it and bring
  theirs, and the pin of the base is one of them;
- `PassedStands`: a commit that a hook let in or a push landed still meets what
  the gates ask of its citation. It is inductive because a step of the record
  never takes that back (`AuthorizesKept`): an approval stays; a scope only
  grows, and by patterns that the tier and the approval let the fence see; a
  phase only rises and, once executing, is out of retirement's reach; a record
  moves to done with the pin or the exemption it owes, and then takes no more
  events;
- `DoneIsDone`: only a done record is found done in a tree.

`SettledStays`, `HookedPasses` and `EditedCommittable` compare one gate with the
next in such a state. `AdoptedLandsJudged` and `DoneAuthorizesNothing` are about
a step: what a push does not audit is behind the pin of the remote's own tip,
hence on the remote already (`PushAudits`). `FallbackIsNoWeaker` is about sets
only: the files the fence asks for where git cannot recompute the merge contain
those it asks for where it can and there is one merge base.

`FixesLeadOut` is about every record task-state can have written, of any class
and in any phase, and every code file that some pattern covers without reaching
more of the fence's surface than the file does (`GlobsOf`). What a commit is told
depends on the class first, then on the phase, then on the scope (`ToldClass`,
`ToldPhase`); in each case the measure `Ahead` falls (`SuccessorIsNearer`,
`ApprovalIsNearer`, `AdvanceIsNearer`, `ScopeIsNearer`). That no printed fix asks
for a hand-edited record to be restored rests on the invariant `MachineWritten`:
nothing follows a retirement, a done record carries its pin, and no scope reaches
the surface without the tier. `FenceRemediesAssumption` says that the records the
exploration starts from are of this kind, and that a pattern which covers a file
of the surface is recognised as such; the second is what `ScopedSurfaceIsTiered`
says of the code's own glob dialects, and is proved of them below.

**The event chain** (`Tools_proofs`). `ChainedAreWritten` bounds neither
the events nor the hand edits. `ChainInv` says that every stamp in the record was
given in a version that a command wrote or adopted, for what the event said
there (`Traceable`); an edit moves stamps about and forges none. If the record
verifies, its last event is that version's at the same index, since a digest
determines what it is of, its index and its parent; and at the greatest index
where the two could differ, the event after it names the same parent in both
(`SharedHistory`). So the record is a prefix of that version. Digests are
injective in the model: this is the assumption that no two contents collide.

**The fact gate** (`Tools_proofs`, under `GateAssumption`: bounds are naturals
and "bypass" names no file). `GateInv` adds to the property the waiting time of
a call (`Waited`) and the correspondence of the state file with the history:
every entry is some demand's, and every demand has its entry until it has lapsed
or enough younger demands have pushed it out (`Entries`); the ordinal in the
file is at least that of every denial since the last silence, and a count of
full demands in the file is backed by as many denials without a silence between
(`Counters`). The hard step is the eviction: an entry is only dropped for
`MaxTargets` others that are no older, and each of these is a demand's, so the
demand it belonged to counts as pushed out. `DemandsAlwaysStand` holds for any
number of calls and targets, any TTL, and any order of decisions that `Skew`
admits.

**guard-reach** (`Tools_proofs`, under `ReachAssumption`: process ids are
numbers, so no run is the empty lockfile). Until a dead run's lock is taken over
twice at once (`takenOver`), `RInv` says that a run inside *is* the holder the
lock names (`Holds`), and that, unless the entry was replaced, a readable ratchet
file holds what was recorded, so a run that has passed the ratchet does not
narrow it (`Judgement`). `OneRunInside` and `ReachNeverNarrows` follow, for any
number of runs and any pattern of kills, signals and edits.

**Workspaces** (`Tools_proofs`, under `LandAssumption`: the words git uses
for a detached HEAD name no branch). `LInv` joins typing, where the edits of a
draft can be (`Drafted`: those not in a commit are in the directory), and what
follows the last landing check (`Followed`). From it, `LandedForgetLosesNothing`
and `JudgedCommitsLand`.

**Judgements** (`Judgements_proofs`, under `JudgementsAssumption`: the values
that stand for nothing, `Null` and `Silent`, are told from every other; and
`RootsAssumption`: a directory of the fence's surface is named by one name or by
two). There is no state to argue about; what is hard is that the input has any
size.

- `RecordsAreReadTrue`. Every reader of a register takes it exactly when it is
  lawful and its own, whatever order it asks in (`ReadersTake`), so what they
  take agrees; the sections of a handoff split the statuses, and the row of
  metrics counts what the law counts (`RegistersAlike`). `PinsMove` goes through
  the outcomes of the runs of a pin.
- `HooksReadTheSame`. Where the hook cleans the message, it leaves the paragraphs
  that git leaves; where it reads the message as it is, it finds a footer only if
  nothing follows that git could cut or keep (`FootersRead`). The editor's two
  hooks sift the same records; one that throws is no active task, so it takes
  nothing from the others (`Standing`), and among finitely many dated records one
  is newest (`GreatestValue`, by induction over the set).
- `WiringIsCertified`. A hook script is run line by line and read backwards from
  its gate; induction over the lines joins the two. A quote is open before a line
  exactly when an odd number of lines above opened or closed one, which is what
  the shell carries to it (`CarriedOn`). So up to a gate that the shell gets to
  (`GateIsReached`) and that starts a command (`GateIsCommand` of the doctor, the
  registry's own reading of quotes) the shell stands where the readers say:
  nothing carried, in no dead branch, errexit on whenever they read it as on
  (`UpToGate`). There the gate's form decides whether its verdict
  is the script's (`GateDecides`), and the lines after it succeed or are not
  reached, which keeps that verdict unless the shell went on past a refusal
  (`PastGate`); the readers pass no form where it does (`HooksBlock`,
  `CarriersDecide`). A battery chained by `&&` alone stops at the first command
  that fails, and its exit status is that command's (`BatteriesDecide`); the line
  of a checklist belongs to the greatest heading above it (`ClonesEnforced`).
- `PassesHold`. What a source has in HEAD, index or disk, the ratchet judges the
  copy that a commit would take (`SourcesStayGreen`); lines that an earlier
  contract struck are missing from a later one's sweep, which only takes roles
  away and so only adds findings (`DeadAreAccepted`). A repository-wide count is
  the size of the union of each file's uses, so one use more or less in any
  counted file changes it (`CountsMove`), and for evidence of every other kind
  some number of uses refutes it (`FilesRefute`); a claim that counts nothing
  passes without any prose (`ClaimsBound`). No host file is left out of the
  comparison (`HostsAreVendored`).
- `MapsAreRead`. The row of a debt table is read by position: whatever its cells
  say and whether or not its outer pipes are written, the last cell that is not
  empty begins with the row's status or with no status at all (`RowsRead`), so
  the register is read row by row or refused (`DebtsRead`). A source under no
  gate is an orphan, and a gate that is not dead is the first over some source
  (`SourcesSeen`).
- `ScopesReachNoFence`. Both dialects are read from the end of the pattern, by a
  set of the places where its last pieces take over. A glob that matches a name
  in the scope law's dialect matches it in `pathspec`'s (`NameIsText`, by
  induction over what is left of the glob). A pattern that the scope law admits
  has a first segment that is no `**`, so it matches the path's first name
  (`FirstName`); and once the last name is taken only segments `**` can still
  match (`OnlyDoubleStars`), so the tier law sees the pattern of a surface file.
  For a directory of two names the second segment is a `**`, which matches any
  name, or matches the second name. This is where `RootsAssumption` is needed,
  which `.githooks`, `.github` and `docs/gates` satisfy: under a root of three
  names, the `**` of `docs/**` could swallow two names and leave no segment to
  compare with the third.

**Induction over data.** The library's induction theorems take an operator as a
parameter, which the installed provers cannot instantiate. Where a proof needs
induction along a sequence or a recursive function (the stamps of a chain, the
match of a calibration), it is done over a *set*: `SetInduction` and
`GreatestElement` (`NatOrder_proofs`) follow from the well-foundedness of `<`,
and a recursive function is unrolled once (`StampsUnroll`, `MatchUnrolls`,
`NameUnrolls`, `PathUnrolls`, `TextUnrolls`).

**Model-checked only.** Liveness (`EveryProcessSettles`,
`StaleOrphanIsTakenOver`, `RegisterSettles`) is out of TLAPS's reach, and so is
what rests on RECURSIVE operators.
Of the judgements, `TextReadAsRun` is evaluated on each of its inputs and not
proved: commands, remote strings and declarations are read along the text, token
by token, by RECURSIVE operators or by folds whose steps depend on what was read
before. Where the type invariant of a
module is proved, no run repeats it.

## 5. What is not modelled, and what is left

What could still be added to what is here: the judgements of commands for texts
of any length; `test-lint.mjs` and `path-obligations.mjs` as judgements.

Not modelled, and why:

- `bench/`, `retrospective.mjs` beyond its index: data and scripts that were run
  once, and prose.
- The self-tests of the tools, and every wording.
- `test-lint.mjs`, `path-obligations.mjs`, `zz-head-glue-probe.mjs`: one pass of
  regular expressions over a tree, whose meaning is the expressions themselves.
- How `complexity-gate` measures a function (a tokenizer), and how the sweeps
  choose which files they walk: `Scans` starts from the measures and the files.
- The staged secret scan: a list of regular expressions.
- The agreement of the vendored copies of the ZCode plugin with their source, a
  comparison byte by byte.
- Time stamps, and with them the cutovers that exempt old records.
- Character escapes inside glob patterns, and the override
  `ALLOW_DETACHED_HEAD`.
