# A verification of app_support

`app_support` is the shared library of a family of Windows desktop apps. It holds
what those apps need of each other when several of them run at once, each from a
checkout of its own: documents and command files they share, the slot of a serial
device, the launchers that start them, and the updater that keeps every
production checkout at what has shipped. Most of its modules are read by one
process at a time. What is hard in it is the rest: programs that meet in a file,
may be killed at any line, and promise something that no test of one program can
show.

The modules here are TLA+; TLC checks them on small instances, and TLAPS proves
the safety properties for every value of the constants. Each definition that
models code names the lines it stands for in `PROJECT.json`, under `map`.

## The system

| Part | State it keeps | Operations | Talks to others through | What is hard |
|---|---|---|---|---|
| JSON store (`json_store.py`) | a document, `<document>.lock` | `locked_update`, `read_json` | the lock file, opened `O_EXCL` | takeover of a stale lock, crash, gap between close and unlink |
| Updater (`production_update.py`, `git_steps.py`, `file_held_alone.py`) | per checkout: HEAD, venv, `.git/production-update.turn`, `.waiting`, `.progress`; per workspace: status document, pass file | `keep_up` (a pass), `before_launch`, `bring_up` | turn files, the process list, the status document, GitHub | stale plans, apps starting, failing steps, being killed, retry |
| Launchers (`launcher.py`) | handles on turn files, flags of the loading screen | `CatchUp`, `HoldGates`, `Run`, `ReleaseGates`, quit | the updater, turn files, loading screen | gates opened one by one, waiting out an update, cancel |
| `UpdateWatch`, `start_again_after` (in `production_update.py`) | time since it came up | `tick`, run the launcher again | the `.waiting` file | an app that is never closed |
| Hotfix route (`hotfix.py`) | `refs/haglio/hotfix`, `refs/haglio/taken-back` | ask, take back, what production did | refs of the checkout, the updater | two routes at once, a pass in between |
| File channels (`file_channel.py`) | command files, flags, stamps | append, consume, publish | the files | claim and crash, append against claim |
| Frame channel (`frame_channel.py`) | a mapped frame and its sequence | write, latest | shared memory | torn frames, a writer that starts again |
| OSR2 slot (`osr2_slot.py`) | the holder, the relays, the senders | take, relay, kick, close, dial | sockets and threads | take against relay, close against hello, ping-pong |
| Loading screen (`loading_screen.py`) | flags in a meeting place | show, take over, cancel | launcher, updater and app | cancel against start, launches that share a folder |
| Peer watch (`peer_watch.py`) | stand-down marker, time of the last look | tick, stand down | the peer's marker and mutex | closed between two looks |
| Handoff (`origenerator_handoff.py`) | offer, takeover and session files | offer, hand over, take | files of two apps | read, then unlink; pids handed on |
| Processes (`processes.py`, `process_identity.py`, `win32.py`) | none of its own | snapshots of the process list, `whose_process`, job objects | Win32 | process ids that are used again |
| Import sweep (`import_sweep.py`, `subprocess_utils.py`) | the lines of interpreters, a job | `sweep`, `ending_together`, `end_all` | interpreters and what they start | lines written while they are read, processes started while a job ends |
| Newest pins (`newest_pins.py`) | none of its own | `bring_up` at each landing | branch, pull request and merge queue at GitHub | landings that overlap or fail half way |
| Windows settings (`windows_settings.py`, `scheduled_tasks.py`) | shortcuts and tasks of the machine | `changes`, `--write` | the lists of all checkouts | what was found is stale when it is made |
| Flake gate (`flake_gate.py`, `changed_tests.py`) | the clock and pace of a run | `changed_test_ids`, share, chunks | machines that share the tests | what a test reaches; the cap |
| Baseline (`gates/baseline.py`) | entries and stated renames | the tool, the gate | git's renames, main | renames over renames |
| Gates of siblings (`dependencies.py`) | none | `inherited_siblings` and the two gates | the checkouts beside | one that is missing |
| OSR2 mode, other gates, sanitizing, media | files of one run | pure reading and rewriting | none | nothing concurrent: algorithms |

`PROJECT.json` lists all of them with what is modelled of each, and under
`hazards` each place where the code can go wrong in a way a test would hardly
reach, with the properties that would show it.

## What is modelled

### `AtomicDocument`, `JsonStore`

`AtomicDocument` is the promise: an edit is one step that leaves every other
writer's edits in the document. `JsonStore` is `json_store.locked_update` as
several programs run it. A writer's `pc` follows the code: `claim` (the
`os.open` with `O_EXCL`), `look` (`_abandoned`), `take over` (the unlink of a
lock that looked abandoned), `read` and `write` (the change), `close` and
`unlink` (the `finally` clause, whose two steps other writers see). What Windows
does is stated once: a file that somebody has open cannot be unlinked
(`Unlinkable`), and a name that was unlinked may still be there until the last
handle on it is closed (`Deleting`), which `os.open` meets as a
`PermissionError`. The document is how many edits of each writer it holds, `made`
how many each has ever written; what an edit is does not matter.

### `Checkouts`, `ProductionUpdate`, `Launcher`

`Checkouts` is what updaters and launchers share: the branch at GitHub and as
last fetched, HEAD, the libraries in the venv, the pyproject the checkout was
installed from, the marker `.git/production-update.waiting`, who has the turn
file open alone or shared, and how many copies of each app run. A commit is a
number, so an ancestor is a smaller one; `Pins` and `Pyproject` give each version
what it pins and installs. `kept` holds the checkouts that something keeps where
they are (uncommitted changes, another branch, an overlay that lacks a key: the
refusals of `_plan`).

`ProductionUpdate` is one run of the updater, of any number at once. A pass
(`keep_up`) asks GitHub once, fetches and brings every checkout up; a run before
a launch (`before_launch`) only brings up those the launch uses. `bring_up` is
`heading` (the target, and whether it failed a moment ago), `plan`, `turn`,
`replan`, `in use`, `carry out`, `let go`, then the next checkout, and at the end
`record` in the status document. `_carry_out` takes its steps one by one, the
libraries first, and each may fail or be cut off by the end of the process, a pip
install half way.

`Launcher` adds the launchers: `CatchUp` runs the updater, `HoldGate` opens the
turn of each checkout shared, `RunApp` starts the app, `ReleaseGates` lets go,
and `Quit` ends the launcher where it waits while its updater runs on.
`StartAgain` and `RunAgain` are `UpdateWatch.tick` and `start_again_after`: the
launcher is run once the copy has ended, or, when two minutes are up, under a copy
that has not. `startedBy` says whose copy ran a launcher and still is there, also
that of a host app that starts the app of another checkout: as long as the script
goes on (`ScriptRuns`) that copy is one of the parents of the updater
(`IsAParentOf`), and `running_from` leaves those out (`CopiesSeenBy`).

### `Osr2Slot`, `Osr2Senders`

`Osr2Slot` is the broker: `serve` says where the thread of each connection is
(`hello`, `tell`, `relay`, `hand on`, `hear out`, `leave`). `_swap_holder` is two
steps, `SwapHolder` under the lock and `TakenFrom` or `hang_up` outside it, and
so is `_hand_on_if_held`: `ReadLine` looks at the holder, `HandOn` calls the
writer. `Kick` and `TellKicked` are a hold, `Close` and `FinishClose` the end of
the broker. `Osr2Senders` adds the programs that drive the device: `wish` is
`_wanted`, `_taken` and `_closed`, `lane` is `_connection`, `_said_hello` and
`_dial_again_at`. A sender's calls exclude each other by its lock, but the broker
goes on between its look (`LookFindsNothing`) and its write.

A connection is the n-th its sender dials. Up it go lines, of which only the
number matters; down it comes at most one word. What TCP does is stated in
`CloseConnection`, `HangUp` and `WriteIsLost`: closing with data unread resets
the connection, and with it may go what the other end has not read yet. `fate` and `late` are history:
how a connection lost the slot, and how many of its lines were handed on after.

### `FileChannel`, `FrameChannel`, `Channels`

`FileChannel` is a command file. A writer opens it alone (`Opens`), finds its end
(`LooksAtTheEnd`) and writes there (`Writes`); the reader looks, claims by
renaming, reads and unlinks (`LooksForTheFile`, `Claims`, `Reads`, `Unlinks`). A
line is the verbs in it, so that two run together would show. What a fault of the
reader loses is named in `forsaken`, what `append_command` answered true to in
`accepted`.

`FrameChannel` is the mapped frame: `sequence`, `header` and `pixels` are the map,
written piece by piece, and each frame is a number, so that a reader's copy shows
which frames it is of. A writer may stop at any place and another start over the
same file. `Channels` puts the two beside each other; a behaviour is of one.

### `Hotfix`

A commit is how much of the default branch it holds and the fixes made on that.
Routes and the passes of the updater are at steps of their own (`at`): a route
reads where production is headed (`ReadsHeading`, `ForgetsHotfix`), looks at what
is asked for, builds, tags and asks by a compare-and-swap of `refs/haglio/hotfix`
(`MaySwap`, with the second try of `_ask_for`), runs a pass of its own, and looks
at what production did (`Answers`, `Drops`). A pass plans (`Leaves` is the part of
`_plan` that hotfixes bear on), takes the turn, and plans again before
`CarriesOut`. Meanwhile commits land or undo others, some of them pass their
checks, and someone takes back what runs. Which fixes are in effect under reverts
of reverts is `InEffect`, over the whole history.

### `LoadingScreen`, `Peers`, `Handoff`

`LoadingScreen` is one folder of flags (`flags`) between the script, the screen,
the updater and the app of several launches, each of which empties it. The
script's last look (`GoesOn`) and the screen's cancel (`LooksToCancel`, `Cancels`)
are each a look and an act. Pictures that an app left of its screen (`pictures`)
outlast a launch: a screen is shown only where there are some to show. An app may end without a word; that it ended is then said
by the shell it was started from, or not at all.

`Peers` is two apps that start each other: a watch looks at the mutex of its peer
(`SeesItsPeerDown`), then at the marker (`LooksAtTheMarker`), then launches. A
copy that comes up takes the mutex and clears the marker; one that is closed on
purpose writes it.

`Handoff` is the offer of a copy, by its pid and start time, the takeover a
session puts there by a rename, and the read and unlink of the copy that takes
it. Processes end and pids are handed on at any point.

### `Processes`, `ImportSweep`

`Processes` is `running()` and `whose_process`: a snapshot of pids and parents
(`TakesSnapshot`), each pid opened later (`Describes`), and then a walk over what
was found. A process is known by its birth, so that a pid handed on shows.

`ImportSweep` is `sweep()`, the interpreter it starts, the helpers imports start,
and the end of a hang: `ListsTheJob`, `TerminatesTheJob`, `WaitsForABatch` are the
three things `end_all` does while the job lives on.

### `NewestPins`, `WindowsSettings`

`NewestPins` is what each landing does at one repository that pins libraries: it
reads the project, the tags, the open pull request, the offer and the queue, one
call at a time, any of which may fail (`FailsToLand`), and points the branch,
offers and arms. GitHub queues and merges meanwhile, releases come, and people
pin by hand.

`WindowsSettings` compares what every checkout lists with what is on the machine
(`Looks`) and makes the changes one after the other (`Makes`), while lists,
shortcuts and checkouts change. What is at a place is who keeps it and what it
starts.

### `Flakes`, `Ratchet`, `Siblings`

`Flakes` is the flake gate. The file of old tests is there three times: where the
branch left main (`fork`), at the tip of main (`base`) and at HEAD (`tip`); both
sides commit. Whether the branch touched it is asked of the first and the last
(`IsInTheDiff`, the `base...HEAD` of git), and which of its tests mean something
else of the last two (`ChangedTests`, by the names they mention and what those
reach). Then come the share of a machine, and the chunks and repeats under a cap on the time. `Ratchet` is a
section of the quality baseline while files are edited, renamed, moved over one
another and stated to have been, with the tool, the gate and main. `Siblings` is
what a checkout declares, imports and pins of the family, and the loop of
`inherited_siblings` over the checkouts beside it. A sibling may be written by its
old name (`RenamedSiblings`): what is declared is taken by the name of now
(`NamedNow`), while the gate of the pins compares the names as they are written.

### `Family`

`Family` puts these parts and `Channels` side by side. They share no state, so a
behaviour is of one part, and the fairness of all is stated in one place. What two
of them would share is in one of them: the passes that a route of `Hotfix` meets
are its own, as are the turns, and `LoadingScreen` takes for its gate what
`Launcher` has.

A definition whose comment begins with "A fault:" is a variant of the one after
it, changed the way a plausible bug would change it. No action uses them: each is
substituted for its original to see that the properties notice.

## What the runs check

| Run | Instance | Properties |
|---|---|---|
| `json_store` | 2 writers, 2 calls each, 1 crash, `Wait` 1 and `Stale` 2 ticks | `NoEditIsLost`, `OneHolder`, `EditsAreAtomic`, `EveryWaitEnds` |
| `launcher_faults` | a host app and the checkout it starts programs from, its launch holds both gates, 2 copies, 1 pass over the second, 1 death | `NothingMovesUnderAnApp`, `LibrariesBeforeCode`, `NoStartHalfWayThrough` |
| `launcher_arrives` | 1 checkout that somebody keeps for a while, 1 launch, 1 copy, 1 pass, 1 failure, fairness | `ShippedCodeArrives`, `ANeverClosedAppTakesIt`, `NothingMovesUnderAnApp`, `LibrariesBeforeCode` |
| `osr2_slot` | 2 senders with 2 and 1 dials, 1 hold, 1 failure, 2 wants | `HolderIsServed`, `NobodyLosesItForNothing`, `OneLineLate`, `OlderStaysAway` |
| `osr2_ends` | 1 sender with 2 dials, the broker may end, 1 hold, 1 failure, fairness | `NoRelayIsLeftBehind`, `AWishIsAnswered` |
| `family` | each part of `Family` over its instance below | `VersionsAreKept`, `FixesStay`; `ACancelIsHeeded`; `WhatHeClosedStaysClosed`; `TakeoversArrive`; `NoneOfHisIsAnAgents`, `AgentsAreTold`; `EachIsBlamedForItself`, `NothingIsLeftOfAHang`; `PinsNeverGoBack`, `ALandingMends`; `ARunSettles`; `TheChangedAreNamed`, `EachIsRepeatedOrNamed`; `NothingRisesOnMain`; `PinsAreWhatImportsReach`; `VerbsArriveInOrder`, `NoVerbIsLost`, `FramesAreWhole`, `FramesComeOnce` |
| `family_goes_on` | the hotfix route, the loading screen and the command file, fairness | `HotfixesGo`, `EveryScreenGoes`, `EveryVerbArrives` |
| `launcher_home` | 2 checkouts, the updater runs out of the second | `NothingMovesUnderAnUpdater` (violated) |
| `launcher_word` | 1 checkout, 1 failure | `TheWordIsOfAWait` (violated) |
| `launcher_installed` | 1 checkout, 1 failure, fairness | `WhatItInstallsArrives` (violated) |
| `launcher_hangs` | 1 checkout, 1 launch, 2 copies, no faults | `NothingMovesUnderItself` (violated) |
| `frame_restart` | 2 frames, 2 starts of the writer | `OnlyAFrameReadIsPassedOver` (violated) |

The types of the variables (`TypeOK` in each of the older modules) are proved for
every value of the constants and not checked again by a run; so is that two
updaters never have the turn of one checkout (`OneUpdaterAtACheckout`).

- `NoEditIsLost`, `OneHolder`, `EditsAreAtomic`: no order of crashes, stale
  looks and takeovers puts two writers into the read, change and write, and the
  document is never overwritten with one read before another's edit. A crash, its
  stale lock and a second call of the writer that died give three claimants over
  one lock with two writers.
- `EveryWaitEnds`: a writer that waits gets the lock or an error, also when its
  holder hangs with the lock open.
- `NothingMovesUnderAnApp`: neither code nor libraries nor the install of a
  checkout moves while an app runs out of it, or out of a checkout that starts
  programs from it. One program is excepted, which an update does not see: a copy
  that itself ran the launcher the update is for and has not ended, if it is the
  only one; a second copy beside it, a pass, and another launch's update have to
  keep away. `NoStartHalfWayThrough`: no app starts between the first and
  last step of an update of a checkout it uses, even when that update was killed
  and another has begun.
- `LibrariesBeforeCode`: code moves only forward, onto libraries that answer to
  its pins, whatever an earlier attempt left behind.
- `ShippedCodeArrives`: a checkout that is in the end left in peace comes to what
  has shipped, with its libraries, whatever failed on the way.
  `ANeverClosedAppTakesIt`: so does one whose app is never closed and beats an
  `UpdateWatch`.
- `HolderIsServed`, `NobodyLosesItForNothing`: the slot belongs to a connection
  whose thread serves it, and only a newer connection, a hold or the end of the
  broker takes it from one that goes on: a thread that leaves late does not empty
  what is another's, one whose writer raised does not keep it.
- `OneLineLate`: the check for the holder and the call of the writer are two
  steps, so one line may reach the device after a hold took it; never two.
- `OlderStaysAway`: the sender the OSR2 was taken from does not dial until it
  wants it afresh, so two do not take it from each other for ever. The word that
  says so has to survive lines that are under way the other way, which is what
  `_hear_out` is for. A full send buffer is the exception: the sender counts it
  as a lost connection, dials again and takes the OSR2 back.
- `NoRelayIsLeftBehind`, `AWishIsAnswered`: no thread waits for a sender that
  waits for nothing, and one that lost its connection dials until it has the OSR2
  or hears that another took it.
- `VerbsArriveInOrder`, `NoVerbIsLost`, `EveryVerbArrives`: a verb that was
  accepted is handed on once, on a line of its own and in the order it was sent,
  and only a reader that fails between its claim and its unlink loses any: what it
  had claimed, and nothing that comes after.
- `FramesAreWhole`, `FramesComeOnce`: a reader shows one frame, not pieces of
  two, and never one from before the last. `FramesAreWhole` excepts a look during
  which the writer was started again: the sequence counts from zero then and can
  come back to where it was, which TLC finds when the exception is left out.
- `FixesStay`: production moves off a fix it runs only to where that fix is in
  effect, or because it was taken back, however old the plan of a pass is, whoever
  asks meanwhile, and whatever is undone on the default branch.
  `VersionsAreKept`: the version such a fix of a library is pinned to is the one
  its own route tagged. `HotfixesGo`: a checkout is not kept at a hotfix for ever
  once its fixes shipped or it was taken back.
- `ACancelIsHeeded`: a launch that was canceled before its script's last look does
  not start the app, unless another launch emptied the folder in between.
  `EveryScreenGoes`: whichever of script, updater and app died, the screen comes
  down.
- `WhatHeClosedStaysClosed`: a watch that looked while its peer was going does not
  start a peer whose last end was meant, unless it came up and went again within
  the look.
- `TakeoversArrive`: what was handed over was taken or still waits, unless another
  was put over it, or it came in the middle of a take.
- `NoneOfHisIsAnAgents`, `AgentsAreTold`: a process of his is not taken for an
  agent's because a dead parent's pid is an agent's by now, and a process that ran
  under Claude Code all through the look is told for an agent's. Both except looks
  in the middle of which a pid was handed on.
- `EachIsBlamedForItself`: a module is blamed for the end of an interpreter only if
  no interpreter told of it, although lines are written until the moment it is
  ended; in the end each module is told of. `NothingIsLeftOfAHang`: what an import
  starts between the list of a job and its end does not outlive it.
- `PinsNeverGoBack`: no merge takes a repository to an older release, however old
  what a landing read. `ALandingMends`: a landing that nothing crossed leaves the
  newest releases pinned or on offer, whatever an earlier one left half way.
- `ARunSettles`: a run through which nothing fails or changes leaves each place as
  its list has it, and at no step of it is a shortcut lost that someone made for
  himself, whatever moved from list to list before.
- `TheChangedAreNamed`: in a file the branch touched, a test is repeated exactly
  when it means something else at HEAD than at the tip of main, against a
  definition of what it reaches that does not follow the code's. So a test that only
  main changed is repeated too where the branch touched its file, and one that both
  changed alike is not; that is what the code compares, not what the branch did. `EachIsRepeatedOrNamed`: in a share that held up, each test passed every
  repeat or is named as left; each changed test is in one share.
- `NothingRisesOnMain`: what main holds in all never rises, whatever is renamed,
  moved over another file or stated, and however often the tool runs.
- `PinsAreWhatImportsReach`: where both gates hold, what is pinned, by whatever
  name a sibling had, is what the imports reach over every checkout between (`ReachedFrom`, a least set), and they
  refuse no checkout that declares just that.

### What the code does not keep

- `NothingMovesUnderAnUpdater`: the updater moves a checkout "never while
  something of his runs out of it" (`production_update.py:822-823`). The run of
  the updater that a launch starts is such a program, in the venv of the
  updater's own checkout, and it holds no turn there: a pass that looked just
  before moves that checkout under it.
- `TheWordIsOfAWait`: an update that waited, was tried again and then failed
  leaves `.git/production-update.waiting`, although nothing is waited for;
  `StepFailed` leaves `bring_up` past `_not_waiting`.
- `WhatItInstallsArrives`: when the reinstall fails after the code moved, no
  later pass takes it again: the plan looks at HEAD and at the libraries, and
  both are where they should be.
- `NothingMovesUnderItself`: an app that starts again runs its launcher "once this
  copy has ended, [...] so nothing runs out of the venv while the catch-up updates
  it" (the repository's README, lines 108-110). What waits for the copy waits two
  minutes. A copy that hangs longer in its end is a parent of the updater of that
  launch; `running_from` leaves the parents out (`production_update.py:268-271`), the
  copy holds no gate any more, and code and libraries move under it.
- `OnlyAFrameReadIsPassedOver`: a reader passes over a frame whose sequence is
  that of the frame it read last, also when a new writer drew it and counted from
  zero: the first frame of a writer that started again is not shown to a reader
  that showed the first frame of the one before.

Read in the code while modelling, and not the subject of a run of its own:

- A route reads where production is headed before it reads what is asked for
  (`hotfix.py:181-182`). A hotfix that another session asks for between the two
  is taken for the one it saw, and its swap puts its own over it, although
  `tests/test_hotfix.py:529` has it "never overwritten". `Hotfix` has the two reads
  apart, which is why it states nothing of what is asked for and not taken.
- `_the_hotfix_or` deletes the ref without saying what it saw there
  (`production_update.py:363`), so a hotfix asked for after its read goes with it.
- A landing that fails after it pointed the branch and opened the pull request,
  and before it armed it, leaves one that no later landing arms while it offers
  the same (`newest_pins.py:103`).
- A takeover handed over while one is waiting goes over it, and one handed over
  between the read and the unlink goes with the one that was read
  (`origenerator_handoff.py:114`): the two exceptions of `TakeoversArrive`.
- Two launches may find the same log free (`launcher.py:733`): the look and the
  opening are two steps.
- The tool of the baseline refuses a branch that renames again a file whose entry
  it already carried, though nothing rose; a stated rename that is left on main
  and is one of a chain or a swap fails the gate of main itself.
- Siblings that stand on each other round about pass the gate that nothing too
  much is declared, though nothing imports them. And both gates look at the
  checkouts beside, not at the releases that are pinned.

### Bounds

Two writers and two calls are enough for each of the three roles around a lock:
the one that holds or left it, the one whose look is stale, and the one that
claimed in between. `Stale` beyond `Wait` is the order of the real constants
(`STALE_S` is fifteen times `WAIT_S`). Versions 0 and 1 differ in their pins and
pyproject; the libraries may be off at the start too, so that a plan with and
without a move is made. One failure and one death are enough to leave each step
half way and meet it again; a second launch would be another updater, which the
pass is already. Two checkouts are needed for a host and what it starts, and two
copies for a launch under a copy that hangs and for one more beside it. Two
dials are enough for a sender whose older connection is still served when its
newer one says hello, and a second sender for a connection in between; two verbs and two frames before a
restart for an order to go wrong in; one line
of room (`Room`) makes a full buffer, and the two of hello and line an unread one
at a close.

In `family`: two routes and a pass, with three events (starts, landings and
take-backs) between them, for a fix made on another; two launches, since one
empties the folder of the other; three pids and four births, for a parent, a child
and a pid handed on; two landings, one library and three releases, for two
landings that each read another release and a merge between them; three modules
and two helpers, one of them before and one behind the list; two copies of each
of two apps; two pids and three takeovers; two checkouts, each with a place of its
own beside pin, menu and task, and three changes; a test that was there, two new
ones, two definitions that reach each other and two commits, of the branch, of
main or one of each; three files, two of
them over, and two pieces of work on a branch; three siblings, which hold every
chain and cycle a gate can meet, with every way of declaring them, and an old name
of one. Two verbs
and two frames and a restart are as above. `family_goes_on` has two of the three events and
one verb.

Every
bound (`MaxCalls`, `MaxCrashes`, `MaxVersion`, `MaxFailures`, `MaxDeaths`,
`MaxCopies`, `MayBeKept`, `Dials`,
`MaxKicks`, `MaxWants`, `MaxVerbs`,
`MaxFaults`, `MaxFrames`, `MaxStarts`, `MaxOpenings`, `MaxEvents`, `MaxBirths`,
`MaxReleases`, `MaxTrouble`, `MaxTakeovers`, `MaxCopyBirths`, `MaxChanges`,
`MaxCommits`, `Cap`, `Most`, `MaxWork`) is a constant that guards the action it bounds, and the
theorems hold for all of them. `json_store` is checked with deadlock off: writers
that have made their calls are done; the runs of the OSR2 and of the family too, whose
senders, routes and gates come to their ends.

### Fairness

`JsonStore` assumes that time passes, that an unlinked name goes in the end and
that a waiting writer polls (`_claim` is a loop with a sleep); it assumes nothing
of the caller's change, which may hang. `Launcher` assumes that the scheduled
task keeps starting passes, that a run of the updater and a launcher go on, and
that half an hour goes by. Nobody has to launch or close an app. Failures are
bounded, not fair. `ANeverClosedAppTakesIt` takes further, as premises of its
own, that an app beating an `UpdateWatch` comes to a good moment and ends when it
is starting again (`WatchFairness`), and that from some time on the fifteen
minutes a launch waits for a turn outlast whoever has it. `Osr2Senders` assumes
that the broker's threads run on, that a hold or end once begun is told, and that
a sender which wants the OSR2 goes on calling `send`, as the loop of each of the
programs does; nobody has to want, kick or close. `Family` assumes of its channels
that a writer which has begun goes on, that the reader drains on every tick, and,
strongly, that its claim meets the file unheld now and then; of a hotfix, that a
pass that is begun goes on and another follows, as the scheduled task has it, and,
strongly, that his app is closed and the steps succeed now and then; of a launch,
that the script, the screen's polls and the updater's run go on, time passes, and
a dialog is answered. Nobody has to launch, cancel, ask for a hotfix or take one
back, and an app may take for ever to come up or exit.

## What is proved

| Module | Theorem | Of |
|---|---|---|
| `JsonStoreProofs` | `TypeCorrect` | `TypeOK` |
| | `MutualExclusion` | `OneHolder` |
| | `NoLostEdit` | `NoEditIsLost` |
| | `Refinement` | `EditsAreAtomic`: `JsonStore` implements `AtomicDocument` |
| `LauncherProofs` | `Invariance` | the inductive invariant below |
| `LauncherSafety` | `TypeCorrect` | `TypeOK` |
| | `OneUpdater` | `OneUpdaterAtACheckout` |
| | `StartsWhole` | `NoStartHalfWayThrough` |
| | `AppsRunUndisturbed` | `NothingMovesUnderAnApp` |
| | `PlansAlwaysStand` | a plan made under the turn fits the checkout at every step |
| | `LibrariesGoFirst` | `LibrariesBeforeCode` |
| `Osr2Proofs` | `Invariance` | the inductive invariant below |
| | `TypeCorrect` | `TypeOK` |
| | `SlotIsServed` | `HolderIsServed` |
| | `SlotIsKept` | `NobodyLosesItForNothing` |
| | `OneLateLine` | `OneLineLate` |
| | `OlderOnesStayAway` | `OlderStaysAway` |
| `ChannelsProofs` | `NothingIsLost` | `NoVerbIsLost` |
| | `InTheOrderSent` | `VerbsArriveInOrder` |
| | `WholeFrames` | `FramesAreWhole` |
| | `FramesOnce` | `FramesComeOnce` |
| `HotfixProofs` | `HotfixVersionsAreKept` | `VersionsAreKept` |
| | `NoFixIsLeft` | `FixesStay` |
| `FamilyProofs` | `CancelsAreHeeded` | `ACancelIsHeeded` |
| | `ClosedStaysClosed` | `WhatHeClosedStaysClosed` |
| | `EveryTakeoverArrives` | `TakeoversArrive` |
| | `PinsGoForward` | `PinsNeverGoBack` |
| | `LandingsThatMend` | `ALandingMends` |
| | `NothingIsLeftBehind` | `NothingIsLeftOfAHang` |
| | `BlamedForItself` | `EachIsBlamedForItself` |
| | `ImportsReachThePins` | `PinsAreWhatImportsReach` |
| `PartsProofs` | `ARunThatSettles` | `ARunSettles` |
| | `HeldIsRepeated` | `EachIsRepeatedOrNamed` |
| | `ChangedAreNamed` | `TheChangedAreNamed` |
| | `NoneOfHisIsTaken` | `NoneOfHisIsAnAgents` |
| | `AgentsAreNotHis` | `AgentsAreTold` |
| | `MainNeverRises` | `NothingRisesOnMain` |
| | `FamilyIsItsParts` | in a behaviour of the family each part behaves as it is specified |
| | `FamilyIsSafe` | every safety property of the run `family`, of the family |

That is every safety property that a run checks and finds to hold. The theorems
rest only on the named assumptions about the constants, which TLC evaluates in
the runs: that the names of processes, launches and programs are apart
(`ProcessesAssumption` of `Checkouts` and of `Processes`, `NoOneAssumption`,
`PeersAssumption`), that `Stale` is beyond `Wait` (`TimesAssumption`), what launches
hold and passes go through (`OrdersAssumption`), that what a version pins is in its
pyproject (`VersionsAssumption`), that what is not there is no value of its kind
(`PinsAssumption`, `SettingsAssumption`), that there are finitely many pids, tests,
definitions, files and siblings (`FlakesAssumption`, `RatchetAssumption`,
`SiblingsAssumption`), and that the bounds are numbers.

*JSON store.* `OneHolder` is not inductive: it does not say why a takeover cannot
remove a lock in use. The strengthening says that whoever is between claim and
close made the file at the lock's name and has it open
(`TheHolderHasItOpen`). One name has one maker, so two holders are one; an unlink
needs the file not to be open, so it leaves a holder's lock alone. With one
holder, what it read is what the document still is, which gives `NoEditIsLost`
(the invariant names what was read: `WhatWasReadIsThere`), and a write is then an atomic edit, which gives the refinement; every other step
leaves the document.

*Launchers and updaters.* `IInv` has three parts: the types of what
the turns and the programs around them keep (`Shape`); `Locks`, which says that
each run is within its round (`InPlace`), that one between taking a turn and
letting go is the one that has it open alone (`TurnsAreHeld`), that a launcher
has open exactly the gates it has come past (`GatesAreHeld`), and that no turn is
both (`NeverBoth`); and that where a run is carrying out no app runs but a single
copy that ran the launcher of that run (`NothingRunsThere`, over
`NoOtherCopyRuns`). The last is what makes the single look of `in_use`
enough for apps: to start one, a launcher has to hold every gate, and the turn of
that checkout is not free. A copy that comes to be the only one was seen beside the
other and kept the run away; one whose script is gone is a parent no more and is
seen. `LibrariesBeforeCode` needs a second invariant,
`PlansStand`: between the plan under the turn and the move nobody else changes
HEAD or the libraries of that checkout, so an outstanding move is still forward
and the libraries are at its pins once the install is out of the way.

*OSR2 slot.* `NobodyLosesItForNothing` and `HolderIsServed` are together nearly
inductive: what a thread that leaves does depends on whether it holds the slot,
and that on the first. The strengthening adds that a connection not dialed yet
has left no trace (`Undialed`), that what a sender has in hand is one it dialed
(`Connected`), and `LateOnes`: a line is late only in the one step between the
look and the writer's call, after which the thread finds the slot lost and never
hands on again.

`OlderStaysAway` relates the two ends of a connection, and its invariant is
`AwayInv`. The thread of a connection that lost the slot is still there to hear
what its sender sends, unless that hung up (`LostAreHeard`); one that leaves
before has an excuse, a writer that raised or the end of the broker
(`LeavingIsExcused`). So the word is never lost with a connection the sender still
has, and a sender that finds its connection gone without the word, and therefore
dials, had one that came to nothing (`SendersKnow`).

*Channels.* `NoVerbIsLost` needs that the end a writer found still is the end
when it writes (`HeldAlone`: whoever is between open and write has the file), so
that its line goes over nothing, and that a reader about to unlink has read what
it unlinks (`ReadWhole`). For `FramesAreWhole`, a writer that draws has the
sequence at its own odd count (`Marks`), so under an even one lies one frame
(`Settled`); and as long as no writer started, the sequence has only grown since
the reader looked, so if it is the same now, what was copied is what is there
(`Copied`).

`VerbsArriveInOrder` is about lines in three places, and `OrderInv` says that they
make one sequence: every line is one verb, what was handed on was sent before what
is claimed, that before what is in the file (`InHanded`, `InClaimed`, `InFile`),
and a verb still being sent is later than all. A rename takes the whole file, so a
claim keeps the order. `FramesComeOnce` rests on frames being numbered as they are
begun: the header never says one the reader has, but under the sequence at which
the reader read it (`HeaderOfTheLast`), and what it goes on to copy is newer than
what it showed (`WorthIt`).

*Hotfix.* `FixesStay` is about the step that carries out a plan, so it needs what
holds while a plan waits: under the turn nobody else moves HEAD, and the plan made
there still may be carried out although commits land and fixes are undone since
(`UnderItsTurn`, over `MayMove`). A plan reads what is in effect up to its target,
and that is settled once the target is on the branch. `VersionsAreKept` is not
inductive either: it is about HEAD only. The strengthening says the same of every
commit a pass may go to and of what is asked for (`CommitsAreSound`), of a commit
being asked for all but its own fix, which nobody tagged yet (`MadeIsSound`), and
that a route which tagged builds no more (`TagsOnce`), so that no tag is another's
later. `HotfixInv` is these with the types.

*The family.* Each safety property of a part is a theorem of the module of that
part, with an invariant beside it in `FamilyProofs` or `PartsProofs`.

- `ACancelIsHeeded`: a cancel that still counts is in the folder, and an app that
  was started has a script that is past its last look (`ScreenInv`).
- `WhatHeClosedStaysClosed`: a meant end is marked, whoever is up has the mutex, and
  a peer that was seen down and did not cross the look still is (`PeersInv`).
- `TakeoversArrive`: what waits in the middle of a take is what is being taken, or
  came in between (`WhatATakeUnlinks`).
- `PinsNeverGoBack`: no branch pins less than the pins it was made from
  (`BranchesGoForward`); a merge takes a line of the branch only where main has not
  changed it. `ALandingMends`: while a landing is on its own, each thing it read is
  still so and what it wrote lies there (`OnItsOwn`), so what it leaves is what it
  meant to (`Mended`). A queued branch has to be there (`QueuedIsThere`), or the
  merge that comes after would take nothing.
- `NothingIsLeftOfAHang`: from the end of its job on the interpreter runs no more
  and nothing in the job is left (`JobIsOver`). `EachIsBlamedForItself`: the
  interpreter is gone before its lines are read (`TheRecordIsClosed`), and what is
  left to import is what nobody told of (`BlamedAreOut`, `LeftAreIn`). Both need
  that nothing writes any more when the record is read.
- `PinsAreWhatImportsReach`: the loop keeps what is inherited within what the
  declared reach, and when nothing is pending it is whole under what the checkouts
  declare (`LoopInv`); since `ReachedFrom` is the least whole set, being whole and
  within it is being equal to it. The order in which the loop pops is left open.
- `ARunSettles`: while nothing crosses a run, each place is as its list has it or
  has a change to come that makes it so (`TheRestIsAsListed`, `ChangesAreWanted`),
  and no change is to come to what someone made for himself (`TheirsStay`).
- `EachIsRepeatedOrNamed`: a test of the share that is no longer left was repeated
  (`WhatIsNotLeftWasRepeated`), and those of a chunk are the first of what is left
  and have passed all its runs but the one to come
  (`AChunkIsTheFirstOfWhatIsLeft`); that each changed test is in one share needs
  the ids to be in order and without repeats (`Increasing`).
- `TheChangedAreNamed`: what the code reaches it reaches in steps, one for each
  definition at most. Every step but a last one finds a definition more
  (`NothingIsNewAtLast`), so after as many steps as there are definitions the set is
  closed under what its members mention, and the closed sets are what the property
  speaks of.
- `NoneOfHisIsAnAgents`, `AgentsAreTold`: while no pid is handed on in the middle of
  a look, what a process says its parent is and what was last seen of that pid agree
  (`ListedAsTheyAre`), so what an agent's process starts is an agent's
  (`AgentsStartAgents`) and what carries the mark was started by one
  (`AgentsStartTheMarked`), also where the one between has ended. The walk of the
  code goes up by parents or down by children; each lemma about it is by induction
  over how far it went.
- `NothingRisesOnMain`: the entries of main are what is counted there
  (`RatchetInv`), and a branch that may land carries each of its entries from a
  file of main that no other of its files claims (`CarriedFromOne`). What is
  counted on it maps one to one into what main has, so it is no more
  (`LandingRaisesNothing`).

The library's theorems of induction take an operator, which the provers here cannot
instantiate, but that a relation is well-founded is a statement about sets.
`SmallestNumber` draws from it that a set of numbers that is not empty has a least
one, `ByInduction` that a set with 0 and every successor is all of `Nat`, and
`StepAfterStep` that a recursive function over the numbers is given step by step;
the two walks and the definitions a test reaches are proved with these.

`FamilyIsItsParts` says that a behaviour of `Family` is, for each part, a behaviour
of that part alone: each step is one of one part and leaves the variables of the
others. `FamilyIsSafe` follows, which is what the run `family` checks of its
instance, for all values of the constants.

## What is only model-checked

Everything about time going on: `EveryWaitEnds`, `ShippedCodeArrives`,
`ANeverClosedAppTakesIt`, `NoRelayIsLeftBehind`, `AWishIsAnswered`,
`EveryVerbArrives`, `HotfixesGo` and `EveryScreenGoes` are liveness under fairness,
which the prover does not reach. The five violated properties are counterexamples
of TLC.

## What the models leave out

- Which commits are ancestors of which is a line of versions in `Checkouts`, and
  a line with fixes on it in `Hotfix`: a checkout with other commits of its own and
  commit files are in neither. `kept` stands for every refusal. `Hotfix` has the
  plan and the turn of a pass but not its steps, which are in `ProductionUpdate`;
  a shared library's fix ships with the branch that pins its release.
- An exception the updater does not expect ends its run: it is a death.
- `also-runs` does not change while the model runs, although a launcher has it
  baked in when it is generated.
- In `Launcher` a launch begins only when the updater of that launch's last one
  has ended; the flag with which a canceled launch's updater can end the wait of a
  later one is in `LoadingScreen`.
- The two minutes of waiting for a copy to end may be up at any time. An app that
  starts programs of its own without their launchers is `also-runs`; a launch that
  one app makes of another has the copy that ran it for a parent, and chains of more
  than one launcher's script are left out, with them the script that goes on for up to 45
  seconds to watch its app come up. The fair run has a single copy at a time, so
  in it a launch waits until the copy before it has ended.
- Why the target of an update cannot be told (a pyproject that has shipped and
  cannot be read, a commit file that names nothing) is one failure in `HeadingFails`
  or the checkout being kept.
- The writer of the OSR2 slot is there or raises; which session it belongs to,
  and lines it drops because none is up, are left out. A thread that ends lets go
  of the slot and closes its connection in one step, and reads the hello and takes
  the slot in one: nobody else sees what is in between. What one `recv` returned
  is part of the lines unread.
- The command file has one reader, as each of the family's has. Flags, stamps and
  records are published whole by the write that `JsonStore` models. An error
  inside `writing()` is left out: `write` has none to raise there.
- Where a loading screen stands (`SHOWN`) and what it draws. An app that has a
  screen of its own may say that it took over, or not.
- `Handoff` has one session, and a copy takes one takeover at a time; what is in a
  takeover is its number.
- `Processes` has no command lines and no identities on disk; what a process is
  marked with is one flag. Windows hands a pid on at once, which is the worst it
  does. Processes on a hidden desktop of their own (`OFFSCREEN`) are left out: the
  case is decided from the process alone, before anything of its parents is read.
- `NewestPins` looks at one repository: a landing treats each by itself. Titles
  and bodies are left out, and so is what GitHub keeps of closed pull requests.
- `WindowsSettings` leaves out shortcuts that start nothing any more, which are only
  named for a person. Which fields of a shortcut differ follows from who keeps it
  and what it starts.
- `Flakes` has one file that is on both sides of a branch. Main is not merged into
  the branch, nor the branch rebased on it: either is a branch that begins anew. A run of a chunk passes,
  takes twice as long, is cut short or fails; which test of it failed is left out. An
  import that is pointed elsewhere under the same name changes no test, as the
  code has it.
- `Ratchet` is one section of the baseline, which main has, and `origin/main` is
  there: where it is not, the gate has nothing to compare with and passes in silence
  (`gates/baseline.py:224-247`), and none of `NothingRisesOnMain` is promised; the counting itself is
  static analysis of text.
- In `Siblings` the checkouts stand still while the gates run. How imports,
  plugins and requirements are spelled is left out.
- The lines of the import sweep are written whole: an interpreter that is ended in
  the middle of one leaves a cut line, over which `_recorded` raises.
- Wording, logs, progress bars and what a picture shows.

### Not modelled

- OSR2 mode (`osr2_device.py`): a pure reading of stamps and flags that keeps no
  state; a test reaches each of its cases.
- Sanitize and provenance: text checks over git trees, each one pass over what it is
  given.
- Media and settings helpers: sequential parsing and formatting. Favorites edits its
  records through the JSON store.
- The runs of pytest, the launch smoke and the launcher contract: I/O around one
  process each. The rest of `dependencies.py` and of the gates, and the rendering
  of launchers, are rewriting and counting of source text without a state or an
  order to get wrong.

## Plan

What is left, in the order of what it would add:

1. One `Hotfix` over the checkouts of `ProductionUpdate`, so that an install that
   stops half way and a hotfix are seen together, and what is asked for and not
   yet taken has a property once the two reads of a route are in the other order.
2. With that, the proofs of `LibrariesBeforeCode` and `FixesStay` over one state of
   a checkout instead of two.
3. `also-runs` changed between the generation of a launcher and an update, the one
   hazard of the list that no property covers.
