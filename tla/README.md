# Belka Tunnel in TLA+

TLA+ models, TLC configurations and TLAPS proofs for this repository, which
holds two macOS programs:

- **Belka Tunnel** (`app/`), a menu-bar application that keeps an SSH session
  up and serves a SOCKS5 and an HTTP proxy through it. Its configuration editor
  is the same binary in a process of its own.
- **pfUsers** (`pfusers/`), a window that manages the users of a pfSense router
  over SSH, by splicing its `config.xml` and running commands on its accounts.

Paths below are relative to `src/`. To check a run, in this directory:
`tlc -config Tunnel.cfg Tunnel`; to check a proof: `tlapm TunnelProofs.tla`.

Contents: 1 inventory, 2 modules and how they correspond to the code, 3 runs,
bounds and fairness, 4 proofs, 5 what is only model-checked, 6 what is not
modelled, 7 where the code and its documents disagree, 8 plan.

## 1. Inventory

| Component | State | Operations | Hard behaviour | What makes it correct |
|---|---|---|---|---|
| Tunnel supervisor and session, `app/src/tunnel.rs` | the switch (`Control`, a tokio `watch`), the status, the backoff, the SSH handle, the session's `dead` signal | connect, authenticate, pin, serve, tear down, back off; the watchdog's tick, change and signal | supervisor, watchdog, HTTP task and menu thread in parallel; one signal that stores no permit; flips at any moment | no flip is slept through; the status does not lie; only a closed session or a disabled switch ends a session; a link that is down is dialled again |
| SOCKS5 and HTTP servers, `socks.rs`, `http.rs` | a listener per session, a task per connection | bind, accept, park after a failed bind, stop on `dead`; handshake, open a channel, bridge | both sides of a connection end in any order; bytes that arrive with a head; session ends under a connection | streams arrive in order, whole across half-closes; nothing lingers |
| Menu-bar application, `main.rs` | menu marks, the queue of user events, `RELAUNCH_BUSY` | status, HTTP, listen and login rows, Quit, `ConfigChanged`, `relaunch_self` | events queued behind an exit; clicks against notifications | one replacement for an edit; it leaves only for a replacement or a Quit |
| Configuration store, `config.rs` | `config.json`, temporary files | load, validate, save (`atomic_write`) | three read-modify-write writers without a lock; crashes and power failures between system calls | the file is never partial, and never invalid by a program's doing |
| Configuration watcher, `config_watcher.rs` | the end of the last burst | coalesce notifications for 400 ms | the last notification of a burst | no save is overlooked |
| Configuration editor, `gui.rs` | a draft, a selection, the delete dialog | every profile operation, Discard, Save | a draft older than the file; a dialog that outlives its subject | what it saves is valid |
| Launch at login, `autolaunch.rs` | the plist; launchd's job | enable, disable, is_enabled | several writers; a daemon that is launchd's job or is not; the old process of a relaunch next to the new one | one daemon; Quit means quit |
| Firefox manager, `firefox.rs`, rows in `main.rs` | `/Applications/Firefox.app`, the downloaded image, its volume, two busy flags | install, uninstall, wait for Homebrew | any step fails, the clean-up too; the daemon ends in the middle of one; an uninstall takes no flag | one install at a time; nothing mounted is left; "ready, enforced" is true when it is said |
| Update check, `updater.rs` | none | compare versions | malformed versions | not modelled |
| About window, widgets | none | drawing | none | not modelled |
| pfSense configuration editing, `pfusers/src/pfsense.rs` | `config.xml`, its temporary file, snapshots, accounts | byte-precise mutations; the guarded write; add, update and delete a user | the connection drops in a command; commands outlive it; two operations overlap | mutations change what they are meant to; uids are unique; a whole configuration survives |
| pfSense users window, `pfusers/src/gui.rs` | the list, the form, the delete dialog, `pending_op`, the settings and the pin | connect, refresh, save, add, delete, Save & Reconnect | background tasks that overlap each other and the user; operations that fail after their effect | the signs of work in progress are true and go out; the list is what the router has; settings, file and connection agree |
| pfSense SSH client and settings, `pfusers/src/ssh.rs`, `config.rs` | a connection, the settings file | connect, run a command, save settings | what an unfinished command returns | as seen by the two rows above |
| Build and release tooling, `tools/`, `scripts/` | none at run time | | | not modelled |

How they interact:

- the menu thread flips `Control`; the supervisor and the watchdog each hold a
  receiver of it (shared state with a version number);
- the watchdog tells the two servers and every connection by one
  `Notify::notify_waiters` (a signal heard only by who waits at that moment);
- the editor, the menu thread and the tunnel thread meet only in `config.json`;
  the watcher turns writes of it into `ConfigChanged` events of the daemon's
  loop, which starts a new process and exits. The daemon never re-reads its
  configuration;
- the login row and the editor's toggle meet in the plist and in launchd;
- the Firefox menu's threads live in the daemon's process and end with it, while
  the commands they started need not;
- pfUsers shares nothing with the daemon. Its operations share one temporary
  file and one `config.xml` on the router.

The 40 hazards this comes to, each with its line and the properties that would
catch it, are in `PROJECT.json`.

## 2. Modules

| Module | Models | Extends or instantiates |
|---|---|---|
| `Tunnel` | `run_forever`, `run_one_session`, the watchdog, `socks::serve`, `http::serve`, `Control` | implements `LinkPromise` |
| `LinkPromise` | what the supervisor promises of the link: off, down, dialling, up | |
| `AtomicFile` | `atomic_write` system call by system call | implements `Register` |
| `Register` | a file replaced in one step, which a loss of power may undo | |
| `ConfigStore` | `config.json` and everyone who writes it | |
| `Daemon` | start-up, watcher, event loop, relaunch; several processes | |
| `LoginAgent` | the plist, its two writers, launchd | |
| `FirefoxManager` | the Firefox menu and its threads, next to everything that starts and ends a daemon | composes with `LoginAgent` |
| `Proxy` | one connection: handshake, channel, bridge | |
| `XmlSplice` | the mutations of `config.xml` as splices of a token sequence | |
| `RouterConfig` | the three operations on the router, command by command | |
| `UsersWindow` | the window of pfUsers, its background tasks, its settings and the connection | |
| `TunnelProofs`, `AtomicFileProofs`, `ConfigStoreProofs`, `DaemonProofs` | theorems | the module they are named after |
| `LoginAgentProofs` | theorems about `LoginAgent` and `FirefoxManager` | `FirefoxManager` |
| `RouterConfigProofs`, `UsersWindowProofs`, `ProxyProofs` | theorems | the module they are named after |
| `MC...` | definitions for TLC | the module they are named after |

**Tunnel.** `pc` is where the supervisor's task is; the steps of `run_forever`
between two awaits or two accesses of shared state are one action each. `wd` is
the watchdog, `http` the HTTP task, `ssh` the handle, `seenMain` and the
watchdog's receiver the versions that `watch::Receiver`s have seen. `Notify` is
modelled by what it does: notifying wakes the futures that exist, and a server
in the body of its accept arm has none. Time is abstract: a timer may fire at
any moment after it is set.

**LinkPromise** has four phases of the link and the `cause` for hanging up. The
mapping in `Tunnel` (`Promise == INSTANCE LinkPromise WITH ...`) reads the phase
from `pc`. It promises that a link which is down while the switch is on is
dialled, and that an attempt ends; it does *not* promise that a doomed session
is hung up, because the code does not do that (section 7).

**AtomicFile.** A name points to an inode, an open descriptor keeps its inode,
`rename` repoints the destination, and an inode that is not synced may lose its
data when the power fails. The directory is never synced: `diskDest` and `diskTmp`
are the names as it was last written out, which happens at any moment
(`DirReachesDisk`), and those are the names after a loss of power, with every rename
since then undone. Create, write, sync and rename are separate actions, each of
which may fail; a process may crash at any point, and a later process may get its id
and so its temporary name. `Fsync` tells the application's `atomic_write` (TRUE) from
pfUsers' (FALSE).

**Register** has what a reader gets (`content`) and what a loss of power leaves of it
(`durable`), the contents of an earlier save until `Settle`. It does not promise that
a save which returned survives a loss of power, because the code does not do that
(section 7).

**ConfigStore.** One action per operation of the editor, per half of a menu row
(load with validation, then save) and per half of the recording of a host key.
A save is one step, which is what `AtomicFile` is about. A profile is its host,
its pin, and the two fields that can clash (the HTTP switch with its address,
and the listen switch). A hand edit may put anything valid, or a file that does
not parse, in place; `Broken` stands for the latter.

**Daemon.** `phase` is a process's life, `cfg` the version of the file it read,
`watches` whether its watcher could be started (`WatchFails` is the error arm of
`main.rs:172-180`: a line in the log, and the daemon runs on), `notices` the FSEvents not yet received by its watcher, `quiet` whether the
400 ms window is over, `queue` and `menu` the two inputs of its loop, `turn` where
in a pass of the loop it is. `launches` and `missed` are history variables.

**LoginAgent.** launchd is external: it starts the loaded job at login and, some
time later (`owed`), after a crash; `bootout` unloads it and kills its process some
time later (`killing`). The bundle can move (`at`), so a plist can name a place where
nothing is. There are several processes: `Relaunch` is `relaunch_self`, which starts
another one (or fails to) and leaves the old one `leaving`; until its `Exit` that one
still handles what was queued, clicks and `ConfigChanged`, and may crash. It stands
for the rows and for `ConfigChanged`: `RELAUNCH_BUSY` keeps neither from happening at
some moment, since the rows do not look at it. `crossed` and `others` are history:
`crossed` is set where the code lets an end cross a start (section 7), which is a
leaving daemon that relaunches itself again or is quit again, launchd's job that
crashes while it is leaving, and a daemon that the user opens while launchd's is
owed; it is cleared when all of them are gone. `others` are the processes whose row
has been overtaken by the editor or by another daemon's row.

**FirefoxManager.** `DesktopNext` runs the steps of `LoginAgent` and those of the
Firefox menu over one state: whatever starts or ends a daemon (`Life`,
`SessionEnds`) also stops the threads of those that ended where they are, without
their destructors, and may leave a `ditto` or an `hdiutil` to go on alone. The flag
is a static of the process, so the old process of a relaunch and the new one may both
install, through one image in the temporary directory. `thread` is the step each
install thread is at; the destructors of `DmgMount`, `TempFile` and `BusyFlagGuard`
are part of every step that can return (`CleanUp`, `Ends`), and `hdiutil detach` and
`remove_file` in them may fail, which nobody looks at. `Attach` has the volume that is
mounted without a mount point that could be read. Of the bundle only what matters to
the tunnel is kept: absent, half, whole (`bare`), or whole with the policy that locks
its proxy. `disturbed` (someone else touched the bundle, or the policy could not be
written) and `excused` (an install could not clean up) are history. The wait for
Homebrew ends in a `ConfigChanged` (`main.rs:459-466`), which is one of the reasons
for a `Relaunch`.

**Proxy.** A stream is a sequence of pieces; each read takes any prefix of what
has arrived. `taken` and `drained` are how much of either stream the task has
read, `given` and `got` what it has delivered. The session may end at any step,
and `woken` says that this task's `Notified` existed by then. The rewriting of an
HTTP head is one piece of data.

**XmlSplice.** A document is a sequence of tokens (tags, leaves, line ends,
indentation). The byte walks of the code start and stop at token borders, so
offsets are positions in the sequence. `Elements`, `EndOf` and `Grow` find the
positions the code finds, and each mutation splices there. `View` is what a
document says, and
`Meant` is what the mutation ought to make of it: the reference definition the
splices are compared with.

**RouterConfig.** An operation is a sequence of commands run over SSH. A command
in progress (`shell`, `input`, `fd`) belongs to the router and goes on when the
connection drops; the operation then sees what `exec_inner` returns, which has
the looks of success. `cat` and the rollback's `cp` may fail in the middle of their
file: after the latter config.xml stays torn, and the operation says so
(`rollbackFailed`). What a document says is a function from names to rows and
the next uid; the mutations themselves are those of `XmlSplice` taken as correct.

**UsersWindow.** A handler of the window is one action of the UI thread; a
background task (`task`) goes from `dialling` or `working` through `listing` to
`listed`, one action for each time it takes the lock on `SharedState`. It works on
the copy of the settings or on the handle it was given when it was spawned. An
operation on the router is one step, of which `RouterConfig` has the parts: it is
done, refused, or fails with or without its effect. `alone`, `fresh`, `raced` and
`unsaved` are history.

## 3. Runs

All runs but the three marked *violated* end without an error. Sizes are distinct
states.

| Run | Shows | Bounds | Size |
|---|---|---|---|
| `tunnel` | type, the safety properties, and the refinement of `LinkPromise` with its fairness | 3 flips, backoff 1 to 3 doubling, a pinned profile with HTTP | 9,846 |
| `doomed_session` | *violated*: a doomed session ends | 2 flips, backoff 1 to 2 | |
| `atomic_file` | the file is whole; each save is one step of `Register` | 2 processes with a writer each, 6 inodes, 2 contents | 176 k |
| `atomic_file_two_threads` | *violated*: the same for two threads of the daemon | 1 process, 2 writers | |
| `config_store` | validity, honest mark, no clash | 2 names, 1 host, 2 edits, 1 click, one file that does not parse | 1.96 M |
| `daemon` | one replacement, nothing overlooked, a daemon remains, edits are picked up | 3 processes, 2 saves, up to 2 notifications each, 1 click, `open` and the watcher may fail to start | 185 k |
| `login_agent` | one daemon, Quit, honest mark; one install, nothing left behind, "ready" means locked | 2 places for the bundle, 2 processes at once with 2 install threads each, the switches and the Firefox menu not both in use | 635 k |
| `xml_splice` | insertions and replacements are exact and keep the document well-formed, removals remove | 2 documents, 3 names, 2 groups, 3 mutations in a row | 1,498 |
| `xml_remove_user` | *violated*: a removal leaves the rest alone | 1 mutation | |
| `router_config` | unique uids, a recoverable configuration, complete successes and harmless failures | 2 operations that may overlap, 2 names, 2 data, a drop or a failure at any step | 704 k |
| `users_window` | honest signs that go out, a current list, settings that agree | 2 routers, 1 name with 2 data, 2 tasks at once, 2 spawned besides the first connection | 244 k |
| `proxy` | order, half-close, ends with both sides and with the session | 3 kinds of client, 2 pieces each way, a head of at most 3 | 64 k |

Why the bounds are enough:

- *Tunnel*: a lost or stale flip needs one to be seen and one not; three flips
  allow off, on and off again inside one session or one sleep. The backoff
  reaches its maximum and is clipped there. Sessions are not bounded.
- *AtomicFile*: every interference is between a temporary name, its inode and the
  destination, of two processes; 6 inodes are as many as names can have (the
  destination and two temporary files, as they are and as the directory on disk has
  them). Saves, crashes and power failures are not bounded.
- *ConfigStore*: a clash takes two fields of one profile changed by different
  writers, an unsound default takes two names; two edits suffice for both. Pins,
  relaunches and sessions are not bounded. A second host adds nothing to these
  properties (it matters only for section 7's stale pin).
- *Daemon*: to overlook a save needs one that is watched and one that comes while
  it is handled; three processes are the original, its replacement and that
  one's.
- *LoginAgent* and *FirefoxManager* bound no action. A bundle is where the plist
  says or it is not: two places. Two processes are the old and the new one of a
  relaunch, or launchd's and one that was opened; a third repeats one of these pairs
  (`LoginAgent` alone was also checked with three, 12 k states). Two threads are one
  more than the busy flag admits. The constraint `OneAtATime` keeps an install and a
  use of the switches for launch at login out of each other's way: they share nothing
  but the processes, whose lives go on during both, and without it the state space is
  beyond the run's time. The theorems have none of these bounds.
- *XmlSplice*: a user block has a neighbour before it, after it or none; the
  documents have both orders of the user and group sections, and the third
  mutation runs on a document that two have changed.
- *RouterConfig*: all sharing is between two operations, or an operation and the
  late command of one that was dropped.
- *UsersWindow*: what goes wrong is between two tasks, or a task and the user, so
  two at once; one name is enough for a list to be out of date, for a form to be of
  a user who is gone and for an operation to be refused; two routers whose lists
  differ tell a list of the one from the other's.
- *Proxy*: two pieces each way are one that comes with the head and one that does
  not, or one before and one after a half-close.

`CHECK_DEADLOCK FALSE` is set where the system may stop: all flips used and a
session lost for good (`Tunnel`), every daemon gone (`Daemon`), a closed
connection (`Proxy`), the mutations, operations or clicks used up
(`XmlSplice`, `RouterConfig`, `UsersWindow`).

### Fairness

Users, clients, servers and the network owe nothing in any module: flips, saves,
clicks, data, drops and closings have no fairness.

- `Tunnel`: weak fairness of the supervisor's, the servers' and the watchdog's
  steps. The tokio runtime polls a task that is woken, timers fire, and connect
  and authenticate return (TCP's and the keepalive's time-outs bound them).
  Nothing makes `select!` choose one ready branch over another, nor a server be
  inside its `select!` when it is notified: this is what `doomed_session` shows.
- `Daemon`: weak fairness of each thread of each process (start-up, watch,
  receive, loop).
- `Proxy`: weak fairness of each branch of the bridge and of its end. This
  assumes that both peers read what they are sent: the bridge's writes have no
  time limit. `select!` picks at random among ready branches, so no ready branch
  is starved for ever.
- `UsersWindow`: weak fairness of each background task. The runtime polls it; what
  it awaits ends, with a result or without, because TCP and the 60 s inactivity
  limit that `ssh.rs` sets end a connection that is silent.
- The other modules have safety properties only, and state no fairness.

## 4. Proofs

34 theorems hold for every value of the constants that
the modules' named assumptions admit.

| Module | Theorem | Establishes |
|---|---|---|
| `TunnelProofs` | `TypeCorrect` | `TypeOK` |
| | `NoFlipIsLost` | `NoLostEnable` and `StatusHonest`: no flip is slept through while disabled, nor hides a wrong status in the sleep |
| | `StatusIsHonest` | `StatusHonest` by itself |
| | `BackoffBounded` | `BackoffInRange`: the sleep stays in the profile's bounds |
| | `OnlyDoomedSessionsEnd` | `SignalHasCause`: no healthy session is signalled |
| | `ImplementsPromise` | the safety half of `KeepsPromise` |
| `AtomicFileProofs` | `NeverPartial` | `DestIntact` |
| | `SavesAreAtomic` | `ImplementsRegister` |
| `ConfigStoreProofs` | `TypeCorrect` | `CopiesValid`, with the type |
| | `NeverClashes`, `MarkHonest` | `RunsWithoutClash`, `HttpMarkHonest` |
| | `OnlyValidSaved` | the action property `OnlyListenRowInvalidates` |
| `DaemonProofs` | `AtMostOneReplacement` | `OneReplacement` |
| | `NoEditOverlooked` | `StaleIsTold` |
| | `TypeCorrect`, `NeverNoDaemon` | `TypeOK`, `ThereIsADaemon` |
| `LoginAgentProofs` | `NeverTwoDaemons`, `QuitIsQuit`, `MarkIsHonest` | `OneDaemon`, `QuitMeansQuit`, `MarkAgrees`, of the composition |
| | `AnnouncedIsLocked`, `InstallCleansUp`, `FlagCountsInstalls` | `ReadyIsLocked`, `NothingLeft`, `OneInstaller` |
| | `DesktopTypeCorrect` | `DesktopTypeOK` |
| `RouterConfigProofs` | `UidsStayUnique`, `StaysRecoverable` | `UidsUnique`, `Recoverable`, whatever drops, overlaps or comes late |
| | `TypeCorrect` | `TypeOK` |
| | `FailuresChangeNothing`, `SuccessesAreComplete` | the action properties `FailureLeavesAsBefore`, `SuccessIsComplete` |
| `UsersWindowProofs` | `TypeCorrect` | `TypeOK` |
| | `SignsAreHonest` | `SignsHonest` |
| | `ListShowsRouter` | `ListIsCurrent` |
| | `SettingsStayInStep` | `SettingsAgree` |
| `ProxyProofs` | `StreamsInOrder` | `InOrder` |
| | `BothHaveAll` | the action property `HalfClose` |

The arguments:

- **Tunnel.** `IInv` adds two facts to the type and the backoff's range.
  `FlipsCaught`: wherever a wait begins, the version the supervisor has seen is
  old enough to notice a flip that its last read of the switch missed; its third
  part is that fact between the two reads of the switch, without which
  `StatusHonest` is not inductive. `SessionInv`: which tasks exist at each `pc`, a
  switch that is off dooms the session, and a server is woken by the signal alone. The
  refinement is proved from `IInv`, with one lemma per group of actions.
- **AtomicFile.** `DestIntact` alone is not inductive: a rename of a torn file
  breaks it. `IInv` adds that a writer knows what it wants (`WantKnown`), that its
  descriptor is its own temporary file (`OwnTmpOpen`), that temporary names and
  the destination do not share inodes (`NamesApart`), and that the file about to
  be renamed is complete and synced (`RenamedWhole`). The theorems assume
  `OneWriterPerProcess` (two writers have different process ids) and
  `Fsync = TRUE`; neither can be dropped. The first does *not* hold of the daemon
  (run `atomic_file_two_threads`), the second not of pfUsers. It does hold of the
  editor next to a daemon in which only one thread saves. For losses of power it also
  says of the destination on disk that it is whole and synced (`DiskWhole`) and that no
  temporary name, now or on disk, is its inode (`DiskApart`): else a writer could
  truncate what the next loss of power brings back.
- **ConfigStore.** `IInv` is `TypeOK` with `CopiesValid`, about the two copies
  that are loaded but not yet saved. It says what a stale copy may still be when
  it is written; the properties of the file and of the running profile then follow
  from one step. Lemmas about replacing one profile (`PutType`, `PutValid`) carry
  the profile operations.
- **Daemon.** `OneReplacement` rests on `BusyCounts` (the watcher has launched
  only if the busy flag is set). `StaleIsTold` rests on `Told`, which follows a
  save through notification, window, queue and the drained flag, for processes that
  watch; that only a process which watches is sent notices is part of it. `ThereIsADaemon`
  rests on `Replaced`: until a Quit or a failed `open` there is a process that is not
  on its way out, because a process sets its exit flag only in a step that starts
  another. Without the flag the invariant would count on one that is about to go.
- **LoginAgent and FirefoxManager.** Every step of the composition is a step of
  `LoginAgent` or leaves its variables alone (`DesktopIsAgent`), so `AgentInv` is
  proved for `LoginAgent` once. The three properties are nearly inductive together:
  `OneDaemon` has "launchd is about to start none next to it" beside "only one is
  running", because the former is what a crash makes of the latter. `AgentInv` adds
  that nothing is left or owed when nobody is logged in (`NoneLoggedOut`), and that in
  the middle of `disable` the mark is off and the plist still there, unless another
  took it (`InDisable`). `DiskInv` relates, for any number of processes, the flag to
  the one thread it stands for (`Single`); the volume and the image to a thread that
  will clean them up (`Leftovers`); and, as long as nothing disturbed the bundle, says
  that one process installs, has not said it is ready, and what the bundle is at its
  last two steps (`Underway`). One lemma (`EndKeeps`) is about whatever ends processes.
- **RouterConfig.** `GoodInv`: every configuration there is, in a file, a snapshot, an
  operation or the input of a command that may outlive its operation, is sound or
  torn; `MutatedSound` is the lemma that a mutation keeps it sound. `Kept` says that
  nothing but an operation with a snapshot writes, so the first snapshot was of a whole
  file, and a snapshot is never replaced. `Alone` says where the one command at work
  writes when nothing drops or overlaps, and that config.xml is torn only while a `cp`
  works on it or once one has failed; no operation gets past its first step then, since
  it cannot parse what it reads. The theorems assume finitely many names (the
  uids at first are counted). The two action properties compare a step with what the
  operation read at its beginning, so `OnTrack` says how far an operation has come:
  config.xml is what it read until its command writes, the temporary file is what it
  meant to write, and afterwards config.xml is that. `Undisturbed` says so of every
  operation as long as nothing dropped or overlapped, which is when no other one, and
  no late command, is at work (`OthersRest`).
- **UsersWindow.** One lemma says where a step may bring a task (`TaskMoves`), and that
  a handler starts at most one. `SignsHonest` is then inductive with the type: the
  flags are cleared by any task that ends, but set only together with a new one.
  `ListIsCurrent` needs `AloneInv`: a task that has run alone is the only one there
  is, it works on the connected router, and the list it has read is that router's.
  `SettingsAgree` needs `DialInv`: unless connections overlapped one task dials, with
  the settings of the window and the key of the file. The theorems assume that each of
  `Routers` is a table of rows per host, which is what they are.
- **Proxy.** `InOrder` speaks of prefixes, which are too weak to be inductive: what
  comes next must be what is missing. `Inv` says for each place of the task exactly
  what each side has. Until the bridge, `buf` is what was read beyond the request
  (`AtOpening`); in the bridge, the server has all that was read and the client all
  that was drained, unless the channel or the client is gone, and a direction that is
  over has nothing left to bring (`AtBridge`). `HalfClose` is this last part at the
  step that ends the bridge. An HTTP head is accepted only if it is the two pieces of
  the greeting, so the blank line found first is theirs, whatever `Data` holds and
  whatever `MaxHead` is. Six lemmas about parts and prefixes of sequences carry the
  rest.

`OnTrack`, `AloneInv`, `DialInv` and `Proxy`'s `Inv` were checked by TLC, on the bounds
of section 3, before they were proved; the last also with a blank line among the data.

## 5. What is only model-checked

- **Liveness** everywhere (the fairness of `KeepsPromise`, `PicksUpEdits`,
  `EndsWithBoth`, `EndsWithSession`, `SignsClear`): the proof system has no
  support for liveness under fairness or for `ENABLED`. Of `KeepsPromise` the safety
  half is a theorem.
- `XmlSplice`: its operators compute over sequences, and what they compute for
  every document would need induction over data, which is out of the prover's
  reach. The comparison with `Meant` is bounded.

## 6. What is not modelled

- **Update check**: one request at start, which can only post a notification; the
  comparison of versions is the `semver` crate's.
- **Firefox in `~/Applications`**, the text of the policy, `launch_default`.
- **The way of a status to the menu** (`main.rs:105-119`, 540-597): the `watch`
  channel and the event loop's queue between the supervisor and its row are only
  there as `statusUnseen` in `Tunnel`. With both, the composition has half a million
  states and its liveness is beyond the runs' time.
- **Where Firefox and launch at login meet**: the two are not both in use in the run
  `login_agent` (section 3); the theorems do without this bound.
- **A second editor** of a daemon that was relaunched (`main.rs:909-939`).
- **About window, shared widgets**: drawing without state another part reads.
- **Build, signing and release tooling, workflows**: not part of the
  running system.
- **`set_password`** of `pfsense.rs`: nothing calls it.
- **The window of pfUsers**: toasts, the hidden uid 0, settings that do not parse,
  the search field, and `truncate` (which cuts at byte 40 and can panic within a
  character).
- **The SSH protocol, SOCKS5 addresses, DNS, TLS**: data that no property tells
  apart. `parse_request`'s rewriting of a head is one piece.
- **Snapshots' names** (by the second, `pfsense.rs:855`): each operation has its
  own in `RouterConfig`; two operations in one second share one. **The web UI** of
  the router as another writer of `config.xml` (`pfsense.rs:604`) is left out: what it
  saves between the read and the write is overwritten.
- **Arithmetic of settings**: `Duration::from_secs_f64` of an enormous backoff
  panics (`tunnel.rs:137`), `keepalive * 3` can wrap (`tunnel.rs:214`). The
  multiplier is a whole number here.
- **Coalescing of the man-in-the-middle notice** (`main.rs:115`) and tooltips.

## 7. Where the code and its documents disagree

Three disagreements are counterexamples of runs (`findings` in `PROJECT.json`):

1. `tunnel.rs:301`: the watchdog signals once, with a primitive that stores
   nothing, and exits. A `socks::serve` that is outside its `select!` then (up to
   100 ms after an accept error) or whose `select!` takes the accept arm goes on
   for good. The comment at 321 relies on its return.
2. `config.rs:286`: the temporary file is named after the process, and the daemon
   has two threads that save. The comment at 274-275 says the file is never
   partial.
3. `pfsense.rs:327`: the range of a user's removal begins one line too early and
   takes the end tag of the user before along. The comment at 27-34 says bytes
   outside the splice are untouched. Because the next mutation refuses the result,
   deletion always ends in a refusal.

The following were met while modelling. The models have the steps, unless marked
"outside"; no run states the promise.

*Configuration.* `atomic_write` syncs the file and not its directory
(`config.rs:296-298`), so a save that has returned may be undone as a whole by a loss of
power until the file system has written the directory out; `Register` says so. pfUsers
renames its settings without a sync (`pfusers/src/config.rs:105`). The editor saves a
draft that can be older than the pin the daemon recorded (`gui.rs:98`), and saves
defaults over a file that it could not load (same line, `config.rs:158-159`). The
recording of a host key loads and saves the whole file, so an edit of another profile in
between is lost (`tunnel.rs:359-371`, where the comment at 352-355 says otherwise), and
puts the key of the host it connected to on a profile whose host was edited since
(`tunnel.rs:370`). The listen row saves without the validation of its twin
(`main.rs:819`, comment 828-834) and does not put its mark back when the save fails
(`main.rs:525`).

*Relaunch.* The menu rows do not set `RELAUNCH_BUSY`, so the notification of the
row's own save can relaunch a second time (`main.rs:515`, 601-603). A
`ConfigChanged` queued before Quit is handled after it and starts a new daemon
(`main.rs:604`; `autolaunch.rs:6-8`). A save between reading the configuration and
watching it is missed (`main.rs:172`). A watcher that cannot start is only logged
(`main.rs:179`): that daemon never picks up an edit (`PicksUpEdits` and `StaleIsTold`
are about those that watch). If `open` fails, the daemon exits with no
replacement (`main.rs:979`).

*Login.* "Existing-instance detection in `main`" (`autolaunch.rs:15-17`) is not there, and
`relaunch_self` starts the new process before the old one has ended. So ends and starts
can cross, which is what `OneDaemon` and `QuitMeansQuit` exempt as `crossed`: launchd's
job relaunches itself and crashes before it exits, and launchd starts it again next to
its replacement; the user opens the application in the seconds before launchd starts a
crashed job again; a `ConfigChanged` or a click queued behind a relaunch or a Quit
starts one daemon more. The pair lasts until one of the two ends, and fights for the
ports. `disable` kills its own process with `bootout` before it removes the plist
(`autolaunch.rs:65`, comment 19-21). A relaunched daemon is not launchd's job, so
its crashes are not noticed (`main.rs:964`, `autolaunch.rs:5-7`). Switching off in
the editor stops the daemon at once (`gui.rs:818-819`), and the menu's mark does not
learn of it (`main.rs:283`).

*Tunnel.* A sleep between attempts is cut by a flip that was settled before the
session (`tunnel.rs:133`, comments 43-45 and 58-62). A connection task that has not
been polled when `dead` is notified never hears of it and keeps its socket until its
client moves (`socks.rs:61-71`). A SOCKS port that cannot be bound parks the session
without a retry (`socks.rs:38`).

*Firefox.* "Firefox is ready ... enforced by enterprise policy" is announced after a
policy that could not be written (`firefox.rs:137-148`). A volume whose mount point is
not found in what `hdiutil` prints (306-316), or that it will not detach (327-333),
stays mounted, and an image that cannot be removed stays on disk (342-345), in spite of
the comments at 279-283 and 336-338: what `NothingLeft` exempts as `excused`. The policy
keeps the SOCKS port of the day of the install after the profile's is edited. An install
cut short by a relaunch, a Quit or a crash leaves no Firefox or half of one, its volume
mounted and its image on disk (`firefox.rs:285-345`, 388). After a fresh install the
Uninstall and Launch rows stay grey until the next start, since the menu is built once.

*Menu.* With the status Disconnected the switch is still on, so a click on the row
whose tooltip says "click to connect" turns the tunnel off (`main.rs:405-408`,
580-583). After a relaunch, the editor and About may open a second window each, in
spite of "at-most-one subprocess" (`main.rs:909-912`).

*Router.* A rollback whose `cp` fails halfway leaves config.xml torn, and says so
(`pfsense.rs:886-890`); every later operation is refused until it is recovered by hand.
`cat > tmp && mv` installs half a file if the connection drops while it is
sent (`pfsense.rs:960`; the comment at 956-957 says it can never be loaded).
`removeMember` can eat the line before (`pfsense.rs:460`), and duplicate
memberships are removed with stale offsets. A failed `userdel` is ignored: the
account stays, with a uid that a new user of that name will not have in `config.xml`
(`pfsense.rs:794`; the model has both uids, no property compares them). A
connection dropped in the last command counts as success
(`ssh.rs:167`).

*Users window.* The pin of first use is recorded only in the copy of the settings the
task was given and in the file; the window's own settings never have it, so Save &
Reconnect writes them back without it, and what answers then is trusted and
recorded anew (`pfusers/src/gui.rs:223-233`, 1146, 1188-1195; `pfusers/src/ssh.rs:1-7`).
After a reconnect the list of the former router is shown until the new one's is
read, and is kept if that fails; so is the list from before an operation that failed
after its effect. The first of two overlapping tasks to end clears `pending_op` for
both (`gui.rs:334`), and a toast hides the sign of a pending operation (815-830).
"Connected" stays when the SSH connection is lost. A delete confirmed without a
connection is dropped without a word, and clears the form. Outside: the comment's
"Shell ⊃ Tunnel ⊃ Scp" is not the order of the code below it, nor of `derive_shell`:
both rank Scp before Tunnel (`users.rs:66-84`, `pfsense.rs:1022-1040`).

## 8. Plan

Done, in this order: the tunnel and its promise; the file and the register; the
configuration store; the daemon; launch at login; the splices and the operations
on the router; a proxy connection; the users window; the Firefox menu, composed with
launch at login. The order followed how much several actors share.

Next:

1. Every safety property of a run but those of `XmlSplice` is a theorem. What the
   theorems of one module could lend another: `RouterConfig`'s operations to
   `UsersWindow`, which has them as one step each.
2. The rewriting of heads (`parse_request`) as an operator against a reference
   definition, in `Proxy`'s place for "one piece of data".
3. A composition of `ConfigStore` with `AtomicFile`'s `Register`, to replace "a save is
   one step" by the refinement; of `UsersWindow` with `RouterConfig`, to replace "an
   operation is one step".
4. The way of a status to the menu, over an abstract supervisor small enough for its
   liveness (section 6).
