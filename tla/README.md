# Playkeeper in TLA+

Playkeeper runs Minecraft servers on a host: a web **panel** that never touches
Docker, a local **agent** that does every operation, and one container per
server. This directory holds TLA+ models of the parts of both whose correctness
depends on the order in which things happen, the TLC runs that check them on small
instances, and proofs of what matters most for every instance.

Source paths below are relative to the repository's `internal/`.
`PROJECT.json` maps each definition to the lines it stands for.

## 1. The system

| Component | State it keeps | Operations | What makes it hard | What makes it correct |
|---|---|---|---|---|
| **World restore and recovery** `agent/backups.go`, `agent/recovery.go` | world folders (`data`, `data.replaced-*`, `data.failed-restore-*`), a stage with the extracted archive and `swap.json`, the settings row, the operation's record, rollback archives | stage, preview, apply, undo, keep, resume at start, settle, discard a stage or a copy | about 30 durable steps, each of which can fail or be the last before a crash; three stores (folders, journal, database) that must agree | the world and its settings are replaced together or not at all; no played world is lost; every restore ends; a kept journal is settled |
| **Online backup, saving pause** `backup/online.go`, `agent/backups.go` | the game's saving switch, `saving_paused_since`, the saving lock, the console's connection | save-off, flush, copy, save-on with retries; the reconciler's and the owner's save-on | lost and late replies, restarts of the container, several senders of save-on | saving always comes back; no save-on lands in a copy; a copy is of one moment |
| **Operation lock and lifecycle** `agent/lifecycle.go` | the lock, the running operation, desired state, crash counters, the container | start, stop, restart, automatic start, reconcile | operations exclude each other, the reconciler's tick and requests don't | what runs is what is desired, a crash loop ends |
| **Backup rules** `agent/backuprules.go`, `backup/retention` | backups, rules | which backups to keep here and at the destination | each place deletes on its own and later than it was decided | a world's last backup is deleted nowhere |
| **Copies somewhere else** `agent/offsite.go`, `offsite` | upload queue, claims, copies' records | queue, claim, upload, retry, delete, change the place or the key | uploads that outlast a change of settings, lost answers, a queue at its limit | what is on record as copied is there; the newest backup is copied in the end |
| **Machine links** `machinelink` | join codes, machines, sessions, revocations | join, connect, heartbeat, leave, remove | two sessions of one machine, lost join answers, removal racing registration | one machine per code; a removed machine never serves again |
| **Self-update** `agent/update.go`, `install/selfupdate.go` | `request`, `applying`, `result` and `staged` files | stage, hand off, apply, resume, roll back, report | two processes and systemd, a crash of either | never applied twice, a result is never lost, the old version comes back |
| **Sleeping servers** `sleep`, `agent/sleeping.go` | the stand-in's listener, wake limits | sleep, join attempt, wake | the port's handover while players join | one holder of the port; a failed wake sleeps again |
| **Schedules** `schedule`, `agent/schedules.go` | schedules and their last run, the run's retry, a restart's countdown | due, run, record, mark interrupted, edit | an agent that dies during a run, edits during one, warnings that were already given | at most one run per due time, as its owner saved it; warned players hear what becomes of it |
| **Server moves** `panel/moves.go` | `server_moves`, `left_copies`, the route | back up, restore elsewhere, switch, delete, abandon | a saga over two agents without a transaction | exactly one machine serves the server |
| **Disk limits** `agent/disklimits.go` | limits, reservations, scans | hold, done, scan | reservations outlive the scan that misses them | never over the limit |
| **Two-factor sign-in** `twofactor` | factor, failures, locks | check, enrol, recover | counting at limits | a code passes once |
| **Panel** `panel` | users, sessions, machines, teams | requests | one transaction per request | not modelled |
| **Add-ons, packs, imports, maps, files, certificates, integrations, UI** | their own tables and files | | mostly parsing and I/O | not modelled |

How they meet: the panel calls the agent's HTTP routes (over a Unix socket, or a
machine link for a machine that joined). Per server, the agent runs at most one
operation, under `opLock`; a reconcile tick every three seconds observes the
container, settles restores, ends saving pauses and starts what should run. The
agent may be killed at any moment (systemd starts it again) and may be asked to
stop, which cancels its context. Containers outlive the agent.

## 2. Modules and plan

| Module | Models | Checked by | Proved in |
|---|---|---|---|
| `WorldSwap` | what a restore promises: a world and its settings are replaced at once or not at all | `AllOrNothing` in `WorldRestoreOne` | |
| `WorldRestore` | a restore, its undo, its recovery | `WorldRestoreOne`, `WorldRestoreFaults`, `WorldRestoreTwo` | `WorldRestoreProofs` |
| `SavingPause` | online backups against everything else that turns saving on | `SavingPause` | `SavingPauseProofs` |
| `MachineLink` | joining a dashboard, sessions, removal | `MachineLink` | `MachineLinkProofs` |
| `UpdateHandoff` | a dashboard update between agent, updater and systemd | `UpdateHandoff`, `FoundOldCopy` | `UpdateHandoffProofs` |
| `ServerMove` | moving a server between machines | `ServerMove` | `ServerMoveProofs` |
| `ServerSleep` | sleep, joins, wakes, and the reconcile loop | `ServerSleep` | `ServerSleepProofs` |
| `BackupCopies` | backups, their copies somewhere else, and the rules that delete both | `BackupCopies`, `FoundLastCopy` | `BackupCopiesProofs` |
| `Schedules` | one server's schedules: what is due, its run, edits meanwhile | `Schedules` | `SchedulesProofs` |

The `*MC` modules give the constants their small instances.

They meet where the code does. `ServerMove` sends `moved` requests, which are the
restores as a new server of `WorldRestore` (`MovedInStaysStopped` is what a move
relies on: the moved server doesn't start before the dashboard sends its requests
there). `ServerSleep` and `WorldRestore` both hold the agent's operation lock, and
each has the other's operations as ones that may hold it. `MachineLink` carries
the requests of `ServerMove`; a request that fails there is a failing step here.
`Schedules` runs backups and restarts, and meets the same lock as a server that is
busy; the backup it makes is a `MakeBackup` of `BackupCopies`, whose copying is what
`SavingPause` models second by second.

Left, in this order:

1. `DiskHold`: the agent's reservations against a limit and the scans that replace
   them (`agent/disklimits.go`); `ServerMove` has only which machine counts a server.
2. Crash limits and restarts, as an extension of `ServerSleep`'s reconcile loop.
3. Machines that are removed and join again with copies of moved servers
   (`adoptLeftCopy`), as an extension of `ServerMove`.
4. Which backups days, weeks and months keep, as a pure function against its stated
   rules (`backup/retention`), and how instants follow from clock times and zones
   (`schedule/timing.go`), both against a reference definition.

## 3. WorldRestore

### What is modelled

One server. A restore is named by its stage, a world by where it came from (the
one the server began with, the archive of a restore, or the empty one a start
makes) and settings by the world they belong to, so that a world under another
world's settings is a state that can be seen.

| Variables | In the code |
|---|---|
| `live`, `aside`, `failed`, `staged` | `data`, `data.replaced-<stamp>`, `data.failed-restore-<stamp>`, `<stage>/data` |
| `broken` | whether a deletion of the world began and where (as a copy, as a stage) |
| `stage`, `journal` | the stage folder, its `swap.json` (`State`, `HadLive`, `Previous`) |
| `settings`, `op`, `desired`, `rollback` | rows of the database; a verified rollback archive |
| `box`, `ran`, `why` | the container, what it was started with, how its exit looks to the reconciler |
| `agent`, `kind`, `cur`, `pc` | the process; the holder of `opLock`, its restore, its next step |
| `wasUp`, `result`, `asked`, `settled`, `toPrune` | locals of `restoreOp`, the request and `settleKept`'s memory |
| `played`, `was`, `discarded` | history: worlds that were online, the world each restore replaces, worlds the owner discarded |
| `faults`, `crashes` | what the bounds count |

Actions follow `restoreOp` (`Stop` … `SaveRestored`, `JournalChecking`),
`finishRestore` (`Launch`, `Await`, `Keep`), `revertRestore` and `putPreviousBack`
(`Revert`, `BackClear` …), the agent's start (`AgentStart`, `Prune`, `AgentUp`,
`Recover`, `Adopt`, `Forward…`), settling (`SettleTick`, `SettleNext`, `SettleSwap`),
starts, stops and restarts, and what the owner does by hand or from the dashboard.
A step is one durable effect: one rename, one journal write, one settings
transaction, one half of a folder's deletion. Between any two of them the agent may
crash (with the host or alone), be stopped, or the container may exit; a step may
fail while `faults < MaxFaults`.

`WorldSwap` is what a restore promises: a home (world and settings) that is
replaced at once or not at all. `AllOrNothing` is the refinement: while a restore
that may still be undone keeps its journal, the home is the world it replaces,
wherever its folder is by then, with the settings in the journal.

### Abstractions

- Deleting a stage removes its world first and the rest at once; an order that
  removes `swap.json` before the world, and unreadable journals, are left out.
  Deleting a failed or discarded copy is one step.
- `worldMissing`, `keptStages` and the like read one state of the disk.
- Previous settings are always known, so `Previous == nil` is left out.
- `why` abstracts the crash policy: a stopped server that is wanted and whose exit
  nobody asked for may be started, or may not.
- Staging happens while nothing holds the lock, and a discard doesn't fall
  between two steps of a settle of the same stage.
- An automatic start may come before a settling tick, which the code's tick rules
  out; `SettleTick` is therefore strongly fair (a start that is asked for settles
  first, and every tick settles before it starts anything).
- Docker errors while settling, and `MkdirAll` of a folder that exists, don't fail.
- The correction of 0.3.0's operation records (`recoverUndoneRestore`) is left out.

### Runs

| Run | Instance | Checks |
|---|---|---|
| `WorldRestoreOne` | one restore, 1 fault, 2 crashes or stops; about 270,000 states | `TypeOK`, `RunsMatched`, `AsideArchived`, `SucceededMeansRestored`, `AllOrNothing`, and, with fairness, `RestoresSettle` (`RestoresEnd` and `KeptJournalsSettle`) |
| `WorldRestoreFaults` | one restore, 3 faults, 1 crash, stages discarded at any time; about 650,000 states | `RunsInPlace`, `WorldsKept` (`PlayedWorldsSurvive`, `CopyNeverBack` and `EmptyOnlyWithoutWorlds`) |
| `WorldRestoreTwo` | two interchangeable restores, 1 fault, 1 crash, a request that sees the server its operation gets; about 2.3 million states | `RestoresApart` (`OneUnsettled` and `MovedInStaysStopped`) |

Why the bounds are enough: a restore and the recovery that follows it visit each
step once per agent, so two crashes reach a crash of the recovery itself, and one
fault reaches each failing step; a failing undo of a failing step takes two faults,
and `WorldRestoreFaults` has three. Two restores reach a second one over what the
first left; a third would meet the same. With two faults the code violates
`RunsMatched`, `SucceededMeansRestored` and `AllOrNothing` by ignoring an error
(`agent/backups.go:1857`), and with stages discarded at any time `RunsMatched`, since
the discarded journal held the previous settings; so the runs that check these have
one fault and no late discards, and the ones that hold regardless are checked
without those limits. `RunsMatched` exempts a restored world that replaced none and
whose restore failed: nothing could be put back.

Fairness (`FairSpec`): the agent's goroutines go on (`WF` of its steps, among them
its start, which systemd repeats), and `SettleTick` is strongly fair as said above.
Nothing is assumed of the game, of the owner or of faults.

### Disagreements with the code's own words

Each is a property of the module, and TLC finds the violation where a run with that
property and the constants named here is added to `WorldRestoreMC`'s configurations.

- `StageNeverBack` (`agent/backups.go:1715`): a restore as a new server that is
  refused removes its stage while its operation is still on record. An agent that
  dies in the middle leaves part of a world without a journal, which the next one
  takes for a swap to finish (`recovery.go:246-248`) and puts in place. The comment
  at `backups.go:1915-1917` rules that out for the previous world's copy.
- `GaveUpRestarts` (`agent/backups.go:1805`): a restore that can't make its first
  rename returns without `startPrevious`, so a server that ran stays stopped;
  `backups.go:2090-2091` says that it comes back up.
- `OneUnsettled` with `SlowApply = TRUE` and two restores (`agent/handlers.go:1525`):
  `restoreRefusal` is asked before the operation lock is held and not again, so a
  restore can begin over another one's unsettled journal (`backups.go:986-991`).
- `PlayedAsideArchived` (`agent/backups.go:1741`): a world that appeared after the
  preview is replaced without the rollback archive `docs/PRODUCT.md:14` requires.
- `RefusedStartsSettle` (`agent/backups.go:1140`): after an undo that had no
  previous world, and a crash, no tick settles the journal, as `settleDue` wants a
  world folder, and every start is refused until the agent starts again, although
  `backups.go:1010-1011` calls it "the moment before a tick".

### Proofs (`WorldRestoreProofs`)

For every set of restores and any bounds, from the assumptions on the constants in
`WorldRestore` (the named worlds differ, `NoJournal` is no journal, the bounds are
naturals):

- `TypeCorrect`: `Spec => []TypeOK`. `TypeOK` is inductive once one knows that
  the steps that read or rewrite a journal have one (`JournalHeld`).
- `NothingMovesUnderTheServer`: `Spec => []RunsInPlace`. Not inductive as it
  stands: a step that renames the data folder must know that the container is
  stopped, and only an earlier step of the same operation stopped it. The
  strengthening adds that the holder of the lock is up (`LockInit`, `LockNext`) and
  that at each step that moves a folder the box is stopped, which nothing but the
  holder of the lock can change (`BoxInit`, `BoxNext`).

- `RestoresStayApart`: `Spec => RestoresApart`, from the hypothesis `Apart`: what a
  request was told still holds when its operation begins, or there is one restore.
  Without it the code breaks the property (above). `HoldInv` says that while a
  restore runs no other one has a journal, and `MovedInv` what the restore of a
  server that was moved in may find.
- `WhatIsAsideIsArchived`: `Spec => []AsideArchived`, from `Apart`. `AsideInv` follows
  the world from the archive to the copy set aside, through a resumed swap too.

- `NoWorldIsLost`: `Spec => WorldsKept`, with any number of failing steps, crashes and
  restores, from `Apart` and `Told`: stages whose restore was applied aren't discarded,
  or there is one restore. What decides whether a copy is whole is the journal's state:
  a deletion of a copy begins only once its journal says `kept`, and the journal stays
  until the copy is gone or is left. So while the world folder is missing, a journal
  that holds a copy vouches for that copy, and without one every copy is whole
  (`WholeInv`). The four invariants below it say where worlds may be: that a staged
  world leaves its stage once and was not played before (`StagedInv`), that no world
  is in two places (`UniqueInv`), that the world a journal replaces has a place
  (`HomesInv`), and what each step finds whatever failed before it (`FoundInv`);
  `RequestsInv` says what an agent that starts has forgotten. An empty world is only
  started when no copy is left (`EmptyStarts`). `Told` is needed for the model more
  than for the code: with late discards and several restores, the owner who is told to
  move the newest copy back could, in the model, which keeps no order of copies but
  the journals, take an older one whose deletion had begun (TLC shows it with two
  restores and two faults). The code's hint names the newest one. TLC found no
  violation of the parts of this invariant with two restores, two faults and a crash
  (about 6.7 million states), nor with one restore, four faults, two crashes and late
  discards (about 2 million).

The next three have `OneFault` as well as `Apart`: at most one step fails, and no stage is
discarded late; any number of crashes and restores. With two failing steps the code
breaks each of the three, and with late discards `RunsMatched` (see Runs).

- `NoWorldRunsMixed`: `Spec => []RunsMatched`.
- `DoneMeansRestored`: `Spec => SucceededMeansRestored`.
- `SwapImplementsWorldSwap`: `Spec => AllOrNothing`, the refinement of `WorldSwap`,
  step by step.

They share one inductive invariant, `SwapInv`, which adds four parts to those above:
what a kept journal says of folders and settings, by its state (`JournalsInv`); what
holds without a journal, of requests, and of stages left settled (`RestInv`); that a
restored world leaves its stage for good (`PlaceInv`); and what each step of a
restore, an undo, a recovery or a settle finds (`StepsInv`). That one step fails at
most is used where an undo begins: it does because a step failed, so nothing fails
from there on (`FaultSpent`). A crash in an undo leaves a journal that the next agent
reads, and `JournalsInv` is all it knows.

For the refinement, writing a journal, or adopting a swap that lost its own, is
`WorldSwap`'s `Begin`. `Commit` is the journal write (`Keep`) or deletion that ends a
restore whose world is in place, and, where no world was replaced, the journal write
that follows its settings (`JournalChecking`, `ForwardJournal`). `Abort` is the deletion
of a journal when the previous home is back, `Leave` when there was none and the
restored world stays, `Make` a start that creates a world. Every other step stutters:
the renames because a restore that may be undone says where the home is
(`WorldsMove`), the rest because they leave folders, settings and journals alone
(`SwapStutters`).

Each step lemma has one case per action.

## 4. SavingPause

### What is modelled

One server, its container's runs numbered. A pause recorded in run `n` is older than
a container started as run `n + 1`, which is all `started.After(since)` compares. A
console command that was written stays in the game's queue although nobody waits for
its reply, and the game answers in order (`flush`'s comment relies on it).

| Variables | In the code |
|---|---|
| `box`, `run`, `saving`, `queue`, `reply` | the container and the game: outside the repository |
| `rec` | `saving_paused_since` |
| `op`, `lock` | the operation lock and the saving lock |
| `pc`, `ran`, `failing`, `first` | the backup's step, the run it found online, that it only undoes, that no save-on failed yet |
| `rpc` | the step of the reconciler's tick and of `hSavingResume` |
| `torn` | history: the world was written while it was copied |

The backup is `makeBackup` with `backup.Take` of an online server: lock, record,
`save-off`, `save-all flush` with its retries, copy, `save-on` with its retries,
commit; any failure goes through `undo`. `Look` stands for `resumeSaving` and
`hSavingResume` up to their `save-on`: reading the record, the container and the lock
is one step, which takes microseconds where a restart takes seconds.

Left out: backups of stopped servers (they send nothing), a database that can't
record the pause (only logged), the wait between two resumptions, sizes and
archives. A container that starts during a backup was started with Docker by the
host's administrator: its restart policy is "no" and the operation lock keeps
Playkeeper's own starts away. The model lets it start at any time.

### Run

`SavingPause`: two runs of the container, two lost commands or replies, one crash
or stop of the agent, about 180,000 states, with fairness of the goroutines, the
game's console, the agent's restart, and strong fairness of the tick finding no
operation some time. `QuickBackup` is FALSE: no backup begins before the reconciler
has seen a restart. Two losses reach a late command of an earlier backup and a lost
one of the next.

- `PauseRemembered`: an online server that doesn't save has its pause on record.
- `CopyOfOneMoment`: no save-on of the agent is on its way during a copy
  (`CopyUndisturbed`), and a copy that is kept after one save-on is of one moment
  (`OneMomentUnlessRetried`).
- `PausesEnd`: saving comes back (`SavingComesBack`) and the record goes
  (`PauseSettles`).

Two disagreements with the code's own words can be seen by changing the
configuration. `CommittedOneMoment` (with `PausesEnd` left out) fails: a copy of two
moments is kept when the first save-on failed, as the retry that works finds the game
saving already and nothing tells whether it was this backup's first save-on or an
administrator's. `PauseRemembered` fails with `QuickBackup = TRUE` (`agent/backups.go:529`): `setSavingPaused` keeps an older pause's time, so that the
next tick takes the pause for one from before the server's start and forgets it
while saving is off; `docs/ARCHITECTURE.md:57` says it is retried until the server
saves again.

### What is proved

`SavingPauseProofs` proves every safety property the run checks, for any number of
container runs, lost or late commands and crashes, from the assumptions that bounds
are naturals and that `None` isn't one: `PauseTypeCorrect`, `PausesRemembered` (which
also assumes `~QuickBackup`, and must) and `CopiesAreOfOneMoment` (from
`NoSaveOnInACopy` and `KeptCopiesAreOfOneMoment`). None of the properties is
inductive; the invariant is built in layers, each kept by every action given the ones before it:

- `LockInv`: whoever may send `save-on`, or must not be disturbed by one, holds the
  saving lock.
- `ConsoleInv`: once the last command was answered nothing is queued, so a reply to
  `save-on` says what the game does from then on. It is what makes clearing the
  record on that reply safe, and what rules out an old command that comes late.
- `RecordInv`: where saving is off, or a `save-off` is queued, the record is of the
  container's present run, so a tick never takes it for a pause that is over.
- `CopyInv`: from `save-off`'s reply to the copy's end nothing is queued that turns
  saving on or off, and if the world was written during the copy the game saves,
  which the reply to the first `save-on` reports.

## 5. MachineLink

### What is modelled

The dashboard's hub and the hosts that join it, leave it and keep a session with
it. A machine is its key: a host makes one when it joins (`LoadOrCreateIdentity`) and
the dashboard's store knows the machine by it.

| Variables | In the code |
|---|---|
| `machine`, `code`, `usedBy` | `machines` and `machine_join_codes` in the panel's database |
| `revoked`, `session`, `removing` | `Hub.revoked`, `Hub.sessions`, a removal between its mark and the store |
| `conn`, `hello` | the hub's handlers: connections in link mode, a host's join or leave |
| `cmd`, `key`, `dash` | the join or leave command on a host, `link.key`, `dashboard.json` |
| `unit` | the link's service on a host: no unit file, written, enabled, up |
| `link`, `peer` | the host's link process and its connection |
| `cut` | history: hosts whose join or leave ended with the service down |

`PairCheck` and `PairCommit` are the two halves of `pair` around its transaction,
`HubLink` and `HubRegister` those of a connection that is checked and then listed,
`RemoveStart` and `RemoveStore` those of a removal: what happens in between is what
the module is about. A connection breaks on one side and is noticed later on the
other (`HubNotices`, `LinkNotices`); an answer that is sent may be lost; the panel,
the link process and the commands may die at any of their steps.

On the host a join saves `dashboard.json` (`JoinWelcomed`) and then has to write the
link's unit, enable and start it (`EnableLink`), which may fail (`LinkNotStartedError`)
or be cut off; a leave stops and removes the service (`DisableLink`) before it deletes
the files (`Forget`). The link process is only started by a service that is up
(`LinkStart`), which a host without `dashboard.json` skips (`LinkSkipped`,
`ConditionPathExists`); one that is down is started by its owner or, if it is enabled, by
the next boot (`LinkStarted`), which nothing makes happen.

Abstractions: whether a join is turned away for too many tries is a choice
(`join_rate_limited`); `ForgetDashboard`'s two deletions work, in one step unless the
process dies between them; writing the unit, `daemon-reload` and `enable --now` are one
step that may get to any point of it; `disable --now` doesn't fail; development
configurations, which start no service, are left out; a host has one join or leave connection at a time; making a join code drops
the ones before it, which is `CancelCode` here and may happen at any time; the
requests that travel over a session, TLS and the hello's bytes are left out.
`RevokeMayFail` is FALSE in the run.

### Run

`MachineLink`: one host, two keys, two codes, two connections, one fault, 764,533
states. Two keys let a host be removed and join again while its old connection is
still open; two codes let one be cancelled or used while another joins; two
connections are what replacing a session needs. Two hosts share nothing but codes,
and a code's race is between two uses of it, which a host that retries has too.

- `OnlyListedSessions`: a removed machine has no session, also when it registers while
  it is removed (`RemovedIsOut`; `hub.go` marks it in memory before the store for that
  reason), and a connection the hub keeps up is the one it lists (`NoOrphanSession`).
- `KeysKept`: a host never loses the key the dashboard knows it by
  (`JoinedHasItsKey`, `KeyDroppedUnheld`). A join whose answer was lost keeps it
  (`MayHaveJoined`).
- `AdmittedByItsCode`: a code cancelled or used during the check admits nobody.
- `LinkedInTheEnd`: a host that belongs to a dashboard gets its session, unless its
  join or leave ended with the link's service down and nobody started that since
  (`cut`).

Fairness: handlers, the link process, a service that is up and running commands go on,
as goroutines, systemd and processes do; the owner, boots, faults and new commands need
not happen.

The exemption is what the code leaves to its users. A join that saved `dashboard.json`
and didn't get its service started says so, with the command that starts it
(`LinkNotStartedError`); a command that dies there says nothing, and running it again,
which "then finishes that join" (`install/link.go:53-54`) after a lost answer, is refused
(`machine_already_joined`): the machine has joined, is shown offline, and stays so until
somebody enables its service or makes it leave and join again. Without `cut` in it,
`LinkedInTheEnd` fails that way.

With `RevokeMayFail = TRUE`, `ForgottenOnlyIfRemoved` fails (`machinelink/hub.go:513`):
a machine is marked removed before the store records it, and a machine that connects
just then is told so and forgets the dashboard, although the store then fails and
the mark is taken back.

### What is proved

Every safety property of the run, for any hosts, keys, codes, connections and
faults (`LinkTypeCorrect`, `SessionsAreListedOnes`, `KeysAreKept`, `CodesAdmit`), each
from the layer of the invariant it needs:

- `OutInv` for `RemovedIsOut`: a removal under way has its key revoked, and so has a
  checked connection whose machine was removed since, which its registration then
  refuses. Without the last part, a connection checked before the removal could
  register after it.
- `SessionInv` for `NoOrphanSession`: every connection that isn't free has a key.
- `JoinInv` for `JoinedHasItsKey`: while a join waits, its host has no dashboard and
  so no link that could delete the key the join uses, and a welcome belongs to a
  machine that joined (`JoinAsMeant`).
- `DropInv` for `KeyDroppedUnheld`: no two hosts use one key (`KeysApart`), and the
  machine of a new key is unknown until its join is welcomed (`NewKeyUnheld`).
- `AdmittedByItsCode` holds of every single action.

## 6. UpdateHandoff

### What is modelled

The agent stages a release and hands it over in `request`; systemd's path unit
starts the updater, which claims it as `applying`, checks it, copies the version and
the databases that are there, stops the services, installs, starts, and puts the
copy back when the new version isn't healthy; it reports in `result`, which the agent
collects. `playkeeper-update.service` is started again for an `applying` that is
left, and resumes.

| Variables | In the code |
|---|---|
| `op`, `installing`, `staging`, `sawRequest`, `abandoned` | operations' rows, `updateState`, the watch's memory, `kvUpdateAbandoned` |
| `request`, `applying`, `staged`, `result` | the files in the update directory |
| `bin`, `db`, `copy` | the installed version, the newest version that opened the databases, `previous/` |
| `up`, `boot`, `upd` | the services, the machine, the updater's process and step |
| `waited` | time since the handover: within 2 minutes, over 2, over 30 |
| `bad` | versions that don't come up healthy |
| `told` | history: databases that were newer when a result said that putting back failed |

The databases are abstracted to the newest version that opened them. As they hold
the agent's operations too, a copy of the databases holds these records, and putting
them back puts the records back: what the agent then says of the update comes from
the result. `Killed` ends the updater alone, `PowerCut` everything.

Putting the copy back collects its errors and starts the services whatever failed
(`install/upgrade.go:298-352`). So `PutBack` may leave the binary as it was or fail after
it, and of the two databases, the agent's and the panel's, either may stay, go back or be
gone (`PutBackPartly`): `db` is the newest that is left, and an agent whose database is
gone has forgotten its operations (`lost`, which no result finds). An undo that failed
starts the services, doesn't ask whether they are healthy, and reports `failed`
(`Restart`); their start may fail as well (`RestartFails`, `RecoverFails`), after which
nothing runs.

Abstractions: whether a download or a release is good is a choice; the watch looks
every few seconds and systemd stops an updater after 20 minutes
(`TimeoutStartSec=20min`), so no updater is at work 30 minutes after its handover
(`TimePasses`); the undo's `systemctl stop`, whose failure it ignores, does stop the
services; a saved copy's `snapshot.json` that is there can be read (otherwise `Recover`
takes it for none); updates from the command line are left out.

### Run

`UpdateHandoff`: two updates, three faults (failing steps, kills, power cuts), 508,237
states. Two updates are needed for one update to meet what another left; three
faults are two failing steps of an undo and its interruption, after a version that
isn't healthy, which isn't counted; a third update would meet what the second did.

- `GoesBackWhole`: an older version never runs on databases a newer one opened, but
  where putting them back failed and the updater says so (`OldNeverOnNewData`), and the
  version put back is the one this update replaced (`PutsBackWhatItReplaced`).
- `HonestWhenQuiet`: when nothing is under way, the dashboard's record of the newest
  update tells what is installed, also after a watch that gave up and a late result.
- `UpdatesEnd`: no update stays running, unless starting the services again failed and
  no agent is there to read the result that says so.

A failed undo that does run the older version on newer databases is what the code chose
(services start whatever failed); what the property asks is that it is never hidden: an
updater that is about to report `failed`, or a result that did.

Four constants name what the run leaves out, and TLC finds what happens with it:

- `AnyCopy = TRUE` (`FoundOldCopy`): an interruption while only an earlier update's
  copy is there puts that copy back.
- `InterruptedAt <- Anywhere` breaks `OldNeverOnNewData` (`install/upgrade.go:315`):
  interrupted between putting the binary and the databases back, with the services'
  start in systemd's hands, the older version starts on the newer databases.
- `AnyUndo = TRUE` breaks `OldNeverOnNewData` (`install/upgrade.go:332-352`): putting the
  databases back fails, the services are started, and the updater is interrupted before
  its result. `Recover` then finds the older version installed and healthy, and reports
  `rolled_back`, as if all had gone back, while it runs on the newer databases.
- `Overlap = TRUE` lets the next release be handed over while the updater still
  works on one that was given up, as `abandonUpdate` looks for `request` and then
  removes it (`agent/update.go:554`): a result then ends the wrong update.

Fairness: the agent's loop goes on, the machine boots, a running updater ends and
systemd resumes one that didn't finish. It isn't assumed that the path unit starts
an updater for a request: the watch is there for that.

### What is proved

For any number of updates and faults, and for every set of steps at which the updater
may be interrupted:

- `UpdateTypeCorrect`: the types. They need `CopyWhole`: an updater that is past its
  checks works for the update in `applying`, a copy is there in every step that counts
  on it, and there is a version after each that an update starts from.
- `UpdatesGoBackWhole`: `GoesBackWhole`, with the four windows above closed
  (`Closed`), whatever of the undo fails. The invariant is `Whole`. `Replaced` relates the update at hand to what
  is installed: while the updater works no other request is there, the update starts
  from the installed version until it is replaced, and from `stop` on the copy is of
  that version; after an interruption `applying` has its own copy or none, which is
  what `AnyCopy` breaks. `Services` says nothing starts the services while they are
  stopped for the install or the undo, so nothing opens the databases then.
  `DataFit` is the bound on the databases. It is exceeded in one step of an undo that
  works, after the binary and before the databases are put back (hence the second
  window), and after one that fails, which the updater's outcome knows until its result
  has said so (`told`; hence the third). `Named`
  says the records that are put back with the databases know the update at hand: an
  update that were unknown could be begun again, from another version (one whose record
  is lost stays used).
- `TheDashboardIsHonest`: `HonestWhenQuiet`, with the same windows closed. The
  property speaks of the few states in which nothing is under way, so its invariant,
  `Said`, has to say of every other state how it will come out. `Recorded`: operations
  are on record one after the other, in the copied databases too, and a result on
  disk is of the update in `applying`, if one is. `InHand`: no update that is being
  handed over is said to be done, and a watch that is about to give up does so with
  the newest update only if more will be heard of it, which is why its early
  `refused` is harmless. `AfterInv`: an update that began while an older one was
  still at work started from what is installed or was, so the older one's late
  install or undo can't make its record false; the copied databases keep to that as
  well. `Went`: what the updater says fits what is installed, at every step where it
  is about to say so. `Honest`: a result that is out is true, and so is the newest
  update's record once nothing more will be heard of it (`Under`).

## 7. ServerMove

### What is modelled

One customer with one server, the dashboard, and the agents of two machines. A move
is `moveCustomer`'s goroutine (`mover`), whose steps each read or write one table,
or make one request of an agent: stop the server, copy its folder over, have it made
there, send its requests there (`Switch`), delete the copy it left. A restart of the
dashboard ends the goroutine and `ResumeMove` carries on from the tables. Whether the
server ran is the agent's answer (`AskFound`), which the move's row records a step later
(`WriteRow`); until then requests still reach the server.

A request to start a server is over once its agent took it, which the owed restart is
forgotten for (`Starts`, for `StartAgain` and `RetryStarts`); the agent's operation may
fail after that. A pause's stop may fail, which is only logged (`PauseStops`).

| Variables | In the code |
|---|---|
| `record`, `disputed`, `home`, `held` | `server_machines`, its `disputed_by`, `customer_homes`, the customer's state |
| `cmove`, `mv`, `left`, `restart` | `customer_moves`, `server_moves`, `left_copies`, `move_restarts` |
| `mover`, `retry`, `pausing`, `listing`, `sync` | `moveCustomer`, `retryRestarts`, `PauseCustomer` (and that its stop failed), a machine's listing and its disk limits on their way |
| `copy`, `limit` | what each agent has: the server's folder with its world, and whether its limits count it |
| `newest`, `wants`, `deleted` | history: the world's latest state, what was last decided (by the customer, or by an agent that gave up a start it took), the customer's deletion |

A world is a number that playing raises. A listing is asked for and arrives later,
when the tables may say something else (`List`, `Claim`); so do disk limits
(`SyncReads`, `SyncSends`, under `diskSending`).

Abstractions: uploads, backup rules and free room are steps that may fail; a user's
request is routed and acts in one step, so none that was routed before a move's row acts
after it, and a stop or start of theirs that the agent took doesn't fail later; one
listing is in flight; requests of a server without a record are refused
(`machineForServer`'s fallback isn't modelled); removed machines, and their copies when
they join again, aren't modelled.

### Run

`ServerMove`: two machines, two moves, a world that changes once, two faults (failing
steps, restarts of the dashboard, starts and stops that fail), about 8.2 million states.
Two moves go there and back, so that a move meets a copy, a restart or a listing the one
before left; two faults fail a step and the undo of it, or the restart after it. One
change of the world tells any stale copy from the newest.

- `NothingPlayedIsLost`: the machine requests go to has the whole world.
- `TablesAgree`: the server stays known (`StaysKnown`), no copy is forgotten
  (`CopiesKnown`), and the disk limit counts the server where it is
  (`CountedWhereItIs`).
- `RunsAsWanted`: once all is over, the server runs if that was decided last, and not
  if its customer is paused, unless the pause's stop failed: "One that won't stop is
  logged; starting it stays refused while they're paused" (`panel/pausing.go:119-120`).

It is safety only. `Windows` names narrow windows the code leaves open and the run
closes:

- `lateRestart` (`panel/moves.go:1252`): a restart owed by a failed move waits for a
  lock, a new move begins, and the server starts on the machine its folder was just
  sent from: `NothingPlayedIsLost` fails (with `Windows <- LateRestart`).
  `retryRestarts` is to start each "unless ... a move of it is under way"
  (`panel/moves.go:1229-1232`), but asks that before it waits.
- `stopWhileAbandoning` (`panel/moves.go:1172`): the dashboard restarts between
  forgetting a move and starting the server again, so nothing starts it.
- `stopAfterSwitch`: the dashboard restarts, or the request fails, before it stopped
  the moved server of a customer who was paused meanwhile.
- `startWhileAsked` (`panel/moves.go:791`, `820-825`): the customer, or a restart that is
  owed, starts the server after its agent was asked whether it runs and before the move's
  row says so: it arrives stopped. A stop in between isn't left out: the server then runs
  where it arrives, which the property, being about what is wanted running or paused,
  doesn't forbid.

With any of the other three `RunsAsWanted` fails.

A start that an agent took and that then fails counts as that agent's decision: it
records the server as stopped (`startFailed`, `agent/lifecycle.go:1500-1505`), as for any
start of the owner's. `panel/moves.go:1168-1169` says that "A start that fails is tried
again once that machine answers", which holds only of a request that fails: the
dashboard forgets the restart once the request is taken.

`claimLocal` reads the listing and the records apart (`panel/machines.go:633`), and
`leaveCopy` looks for a copy before it deletes it; both are one step here.

### What is proved

Every property of the run, for any number of machines, moves, plays and faults, from the
assumptions on the constants (the bounds are naturals, and no machine is one of the marks
that stand for none): `MoveTypeCorrect`, `TheTablesAgree` with every window open,
`MovesLoseNothing` with `lateRestart` closed (`RestartsInTime`), `MovedServersRun` with all
four closed. None is inductive, nor are the types: the goroutine computes with what it
read some steps ago. The invariant has layers, each kept by every step given those before
it:

- `MoverInv`: while a move goes on, what the goroutine holds is what the move's row says,
  so that what a restart resumes is what it did.
- `PlaceInv`: while a move goes on, the record is where it comes from (`Located`); where
  the record is there is a whole folder, and where requests are about to go there is
  (`HasIt`); a copy anywhere else is the move's or is to be deleted (`CopiesKnown`); a
  listing on its way that has the server is of the machine it is on or of one whose copy
  is hidden, so that a late listing never takes the record back (`Listed`). `GoneInv` says
  what copies there still are of a server that was deleted, also by its customer after
  a move asked for it and before the move's row.
- `LimitInv`: the machine that the record names counts the server, but for limits that a
  step is still to send it.
- `WorldInv`: the newest world is where the record is, and what was copied there is the
  newest while the server has to be stopped for the move.
- `RunInv`: while a move or a pause goes on, the row, the copy there and the restart that is
  owed say how the server was decided to be once it is over, and so does the agent's
  answer until the row has it (`RowKnows`).

Each layer's step is one case per action, and was model-checked as an invariant before.

## 8. ServerSleep

### What is modelled

One server: the operation that puts it to sleep, the stand-in that listens on its
port, the joins that wake it, and who else starts and stops it: its owner, the
reconcile loop, an agent or machine that restarts. An operation's steps are where
other goroutines can look in between.

| Variables | In the code |
|---|---|
| `desired`, `enabled`, `asleep` | `servers.desired`, the sleep setting, an open row of `sleep_periods` |
| `container`, `marked`, `exit` | the container, `s.intentional`, its last exit as the reconcile loop sees it |
| `op` | the operation that holds the server's lock, and whether it took the port over |
| `listening`, `recent`, `waking`, `paused` | `sleep.Manager`'s stand-in, `wakeLimit` |
| `join`, `begun` | each player's connection and the wake it asked for |
| `due`, `seen`, `crashed`, `owed` | what the sleep watch decided, what `reconcile` read, restarts that are due |

`Join` is the manager's first `check`, `Try` the later `try` that counts the wake,
`WakeFor`, `WakeLooks` and `WakeBegins` the wake's way to the lock: several players'
connections pass them in any order. `Refund` returns a wake that never began.

Abstractions: the Minecraft protocol; when a server counts as idle (a choice); one
hour, so that no counted wake grows too old; restarts by the owner, giving up after
`maxCrashes`, database errors, and wakes held back by the machine's other work.

### Run

`ServerSleep`: two players, two wakes an hour, two faults (a stop, a start, a bind or
the game that fails, a death, a restart of agent or machine), 241,448 states. Two
players are what a race for the limit and the lock takes; two wakes reach the limit;
two faults let a wake fail and its clean-up meet a crash.

- `StandInAsMeant`: the stand-in let go of the port before the container starts
  (`PortHandedOver`), only a server meant to sleep has one, and none sleeps whose owner
  turned sleep off (`AsleepAsMeant`).
- `WakesCounted`: a wake that never began isn't counted.
- `StartsOnlyIfMeant`: joins, sleeps and automatic starts leave a stopped server alone.
- `NobodyWaits`: a sleeping server's players get an answer in the end, and a server
  that should run comes back.

Fairness: operations end; the two loops, which look every few seconds, find the lock
free now and then (strong fairness); joins the stand-in took are answered at some
time, as it takes no more once it is released.

`Windows` names sequences the run leaves out. `dieAfterFailedStop` is a disagreement
(`agent/lifecycle.go:1109`): a stop that fails leaves its mark that the exit is meant,
and a server that dies later is taken for stopped and stays down, so `ComesBack` fails
(one player, one wake, two faults and `Windows <- DeathAfterFailedStop`). The others
are narrow: `staleReconcile` (the loop acts on a
desired state it read before the owner changed it), `restartTurningOff`
(`agent/sleeping.go:628`: an agent dies between turning sleep off and the start that
follows), `dockerSilent` (a failed start can't ask Docker whether the server runs). Four more were seen
while reading and are left out of the model: a start or stop of a sleeping server that
somebody started with Docker leaves its sleep period open; so do a crash between
`setDesired` and `leaveSleep`, and `revertRestore` (`agent/backups.go:1964`); and a
wake that returns early, as the server runs by then, stays counted.

### What is proved

Every safety property the run checks, for any number of players, wakes and faults
(`SleepTypeCorrect`, `WakesAreCounted`, `TheStandInIsMeant` from `ThePortIsHandedOver`
and `SleepsAsMeant`, `StartsAsMeant`); all but the first two with `staleReconcile` and `restartTurningOff` excluded (`Excluded`), which break
them. `SleepInv` is what the lock gives: the stand-in has the port only while the
container is stopped, and only for a server that is meant to sleep or that a start or
a failed wake is about to settle, and each step finds the desired state as the steps
before it left it. `WakesCounted` is inductive with the types, once a join's step is
seen to move one player into, within or out of the set it counts.

## 9. BackupCopies

### What is modelled

One server's backups: the operation that makes one, queues it and applies the rules
on this machine; the uploader that empties the queue and applies the rules at the
destination; the owner; and an agent that dies. A backup is a number, later for newer
ones, and a lineage, the world and version it is of. What hours, days, weeks, months
and numbers keep is a choice (`Ruled`), so what is checked holds for any settings: the
part that is modelled is what the rules spare on top of it.

| Variables | In the code |
|---|---|
| `of`, `rows`, `archives` | backups made so far, the table of those on this machine, their files |
| `queue`, `due` | `offsite_uploads`, ordered by when each was queued; those whose `next_attempt` has come |
| `recorded`, `there` | `offsite_copies`; what each destination holds |
| `enabled`, `place` | `offsite.enabled`, the destination in `offsite.config` |
| `uploader`, `op`, `owner` | the uploader's round with what it read, the holder of the operation lock, the rest of a request |
| `given` | history: backups the owner deleted or that can't be copied |

`PlanHere`, `RemoveArchive`, `RemoveRow` and `PlanThere`, `DeleteCopy`, `DeleteRecord`
are the two places' rules: each plans once and then deletes one backup after another.
`CheckUpload` and `CheckSent` are the uploader's looks at settings that may have
changed since its round began. Either may find them unreadable: that ends the round
before an upload; after one that worked, the copy is recorded with the settings it was
made with (`agent/offsite.go:1856-1861`).

Left out: backups made by hand or before a restore, which the rules keep anyway, what
a download to the owner's computer allows them to delete, and what an unfinished
upload left behind.

### Runs

`BackupCopies`: two backups, two lineages, two places, two requests, one fault, 667,182
states. The second backup is what the rules choose over the first, of its lineage or
another; two requests move copies and back, or turn them off and on; a larger instance
with three requests (2.8 million states) passes too.

- `BackupsSpared`: the rules never take the last backup of a world or version
  (`OnlyCopiesKept`), a backup that waits keeps its archive and the one being copied
  its place in the queue (`WaitingKept`).
- `RecordedIsThere`: a copy on record is at the place copies go to now.
- `NewestCopied`: the newest backup is copied in the end.

Fairness: the agent's goroutines go on, a request that began is answered, and time
passes, which is what makes the next attempt due.

`Windows` names what the run leaves out:

- `rulesApart`: the two places' rules run at once. `FoundLastCopy` opens it: the rules
  at the destination plan to delete the last copy of a previous world because this
  machine keeps that backup; a new backup's rules, run meanwhile, delete it here
  because its copy is on record; nothing of that world is left. Nothing else fails.
- `recordLate`: a row or a record can't be removed after its file or copy was, or the
  agent dies in between; `OnlyCopiesKept`, `RecordedIsThere` and `NewestCopied` fail,
  as the code takes the record's word for it.
- `ownerMeanwhile`: the owner moves copies or deletes one in the middle of the rules or
  of a round; every property but the type can fail.
- `unreadMove` (`agent/offsite.go:1856`): the owner moved copies during an upload that
  worked, and the settings can't be read after it: the copy is recorded with the old
  ones, unchecked, so it is on record at the new place and isn't there. `RecordedIsThere`
  fails; the rules on this machine take the record's word and may delete the archive of a
  world that has no other (`OnlyCopiesKept`). `agent/offsite.go:1857` gives the reason
  ("left unrecorded, the next round would make it again"), which holds when the place
  stayed. Settings that can't be read while copies stay where they go, or were turned
  off, are in the run.

### What is proved

Every safety property of the run, for any number of backups, lineages, places, requests
and faults and whatever the rules keep. `CopiesTypeCorrect` holds with any window open:
its invariant `Typed` adds to the types a number that no backup was queued after, so that
who joins the queue comes last and no two were queued at once, and that what is queued or
copied was made. With the four windows closed (`Closed`) hold `RecordsAreTrue` and
`BackupsAreSpared` (from `TheLastIsSpared` and `WaitersAreKept`). Their invariant is
`BackupInv`: values have the shapes that the steps
take apart (`Shapes`), a copy that was sent is at the round's place, which is the present
one when it is recorded (`Carried`), rows have their archives and records their copies but
for the one being deleted (`ListedIsHere`, `RecordedIsThere`), nothing else deletes,
forgets or queues while rules run, and only one place's do (`Alone`), and every lineage
has a backup that isn't in the plan (`Spared`). That a new plan spares one rests on a set
of numbers having a greatest one, which is shown from the well-foundedness of their order.

## 10. Schedules

### What is modelled

One server's runner (`Runner.Run`) with restarts that warn players first, backups, and
quick ones (messages and console commands); the owner's edits, other operations that hold
the server, and an agent that stops or dies. Time is counted in ticks, and when a
schedule is due is a set of them, of which the owner chooses one (`Timings`).

| Variables | In the code |
|---|---|
| `enabled`, `times`, `updated`, `last` | rows of `schedules`: enabled or gone, timing, `updated_at`, `last_run` with its retry |
| `since` | which of them have an `updated_at` after their run finished, what `pendingRetry` compares |
| `runs` | `Runner.runs`, the runs this agent saved, laid over the stored ones |
| `agent`, `pc`, `job` | the process; the runner's step and the job it runs |
| `told` | what players were last told of a restart |
| `edit` | `updateSchedule` between its reads and its save |
| `now`, `begun`, `edited` | the time; history: what began last, which were edited since their run |

`Look` is `Plan` and what `Run` does with it (late ones are recorded as missed, the first
due one is taken); `Begin` records the run as running before it does anything;
`StartRestart` to `OperationEnds` are the job; `Record` is its end. What the server
answers (is it online, who plays, is it busy) may differ at every question. A step that
records may fail, with the record in memory only.

Abstractions: how instants follow from clock times and zones, clocks set back, schedules
made later, the list of recent runs. One edit is under way at a time; a tick is longer
than an edit or a step of the runner. The owner's edits in the run turn a schedule on or
off, with the times it has, as these are what the runner's decisions turn on.

### Run

`Schedules`: a restart at 2 and 4 with warnings from two ticks before, a backup at 1, a
message at 3, five ticks, one edit or deletion, one fault (a failing step or record, a stop
or a death of the agent), about 770,000 states. Two due times are what a retry, a late
restart and a later occurrence compete for; three kinds meet in the order of jobs; five
ticks reach every retry, and all grace periods end within them.

- `RunsOnce`: whatever fails or dies, no occurrence begins twice, nor an earlier after a
  later one.
- `OwnerHeeded`: a schedule runs as it is saved: nothing from before its change begins, a
  retry neither, and a restart turned off during its warnings doesn't come.
- `PlayersTold`: players who were warned of a restart see it or hear that it is off,
  unless the server went down or the agent stopped.
- `AllHandled`: each occurrence is run, recorded as missed, or overtaken, and no run stays
  recorded as running.

Fairness: the runner goes on, an agent that ended starts again (systemd), a request's edit
is saved, and time passes.

`Windows` names what the run leaves out; each breaks one property:

- `editOverRun` (`OwnerHeeded`): an edit that read the clock before a run was recorded and
  is saved after it clears the run's retry in the table, but the runner has the run in
  memory with its retry and lays it over, and the edit's time isn't after the run's end:
  the retry still comes. `agent/schedules.go:613-618` says that every change clears it.
- `staleList` (`OwnerHeeded`): an edit or deletion that falls between reading the list and
  recording a run's beginning (microseconds).
- `unreadable` (`OwnerHeeded`): a restart's countdown that can't read the schedules takes
  itself for still wanted.
- `lostCommand` (`PlayersTold`): the message that calls a restart off fails, which is
  ignored, or a warning's reply is lost after players saw it, so that nothing is called
  off.

### What is proved

Every safety property of the run, for any schedules, times, grace periods, warnings,
bounds: `ScheduleTypeCorrect`; `RunsBeginOnce`, with every window open; `PlayersAreTold`
with `lostCommand` closed (`CommandsArrive`); `OwnersAreHeeded` with the other three closed
(`SavedInOrder`). They rest on what is due: `DueComesAfter` shows that it lies after the
schedule's last run and last change (the latest of a set of instants being one of them,
as for `BackupCopies`). From there each has its own invariant:

- `BegunInv`: what began is on record, and the job that waits to begin comes after it. A
  run that isn't recorded as running isn't begun, which is what `Begin` is for.
- `ToldInv`: only restarts warn, and that they did is in their job until it ends.
- `SavedInv`: what was edited since its run has its `updated_at` after it, and the job
  that waits to begin is of its schedule as it is.

## 11. What is only model-checked

Liveness in every module, as it is out of the prover's reach. Every safety property
of a passing run has a theorem, some with the hypotheses named beside them.

## 12. Not modelled

- The agent's disk reservations, crash limits, the arithmetic of dates in retention and
  schedules: they are next in the plan. `PROJECT.json` lists their hazards.
- Sign-in, teams and the panel's other requests: one transaction each, without a
  protocol between them. Two-factor sign-in is sequential rules.
- Names and certificates, add-ons, packs, imports, maps, files, integrations and
  the web UI: parsing, I/O and services outside the repository.

## 13. Running

    tlc -config WorldRestoreOne.cfg WorldRestoreMC
    tlc -config ServerMove.cfg ServerMoveMC
    tlapm WorldRestoreProofs.tla

and so on: a configuration's module is named after what it checks, and `PROJECT.json`
lists each run with its module.

A definition that stands before the one it changes and is called a mutant in its
comment is a plausible bug: with it in place, the property `PROJECT.json` names fails.
