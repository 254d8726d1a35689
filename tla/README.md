# Verification of the O-RAN testbed configurator

TLA+ models of the configurator in `src/`: what its threads may do to the programs of a
demo in whatever order they run, what that guarantees, and proofs of the guarantees for any
number of programs. Paths below are relative to the repository; line numbers are those of the
modelled commit.

## The system

The configurator checks out, patches, builds and runs the components of an O-RAN testbed
(RIC, 5G core, gNB, UEs) and sends traffic through it.

| Component | Source | State | Operations | Talks to |
| --- | --- | --- | --- | --- |
| program states and record | `src/controller/process_managing/program_state_monitor.py` | state and restart count per program, record of initialised and finished programs | change state on output, add to the record, check preconditions | starters, checkers, listeners through two condition variables of the record and one per program |
| process manager base | `.../process_manager_base.py` | stop flag, lists of threads | state checker (watchdog) per program, common shutdown | `_handle_restart` of the subclass |
| output listeners | `.../output_piping.py` | running flag, a named pipe per program | read lines, hand them to the program's state | programs (pipe), record |
| subprocess manager | `.../subproc_manager.py` | a starter per program with its `Popen` | start, restart, shut down | operating system |
| tmux manager | `.../tmux_manager.py` | sessions, panes, a starter per program | the same, by typing into panes | tmux server |
| demo runner, demo configuration | `src/controller/demo_runner.py`, `src/model/program_descr_config.py`, `src/controller/parser/program_config_parser.py` | groups of programs, the pool of selected ones | parse, check, select | process managers |
| build configuration | `src/model/*`, `src/controller/parser/*` | one record per component | parse, look up the component in use | demo runner, builders, checkout |
| REST API | `src/api/` | one shared `APIStatus`, a log queue | configure, checkout, build, watch state and logs | background threads, websockets |
| checkout, builders, patchers | `src/controller/component_checkout_manager.py`, `builder/`, `patcher/` | folders on disk | clone, patch, build | git, docker, shell |
| traffic executor, plan generator, handlers | `src/trafficker/`, `patches/templates/traffic/` | traffic plan, sessions, receivers and senders | generate the plan, send step by step, stop | programs in containers, by pipes |
| live view, dialog, folder manager | `src/view/`, `src/controller/folder_manager.py` | none | print, ask, create folders | signal handler starts the shutdown |

What is hard here is the first group. Per program three threads run (starter, state checker,
output listener) besides the main thread, which shuts everything down in a signal handler. They
share the state of the program under a lock that some of them do not take, wait for
notifications that they can miss, time out, and restart processes whose output is still in the
pipe. The REST API has the same kind of difficulty on a smaller scale (a status shared by request
handlers and background threads); checkout and build are sequences that fail halfway; the traffic
executor is a sequence of timed steps over shared receivers.

What makes each component correct:

* supervision: programs come up in the order of their dependencies, the record never lies,
  restarts are bounded and spare what runs, nothing that hangs is forgotten, a shutdown ends and
  leaves nothing behind;
* configuration: what is selected is what the configuration says, and what passes the checks can
  come up;
* API: however many jobs run at once, the status says what has been done, every report gets to it,
  and watchers miss nothing;
* checkout and build: what is built is the commit that was asked for, or the repository that was
  found; a demo starts only if nothing has failed;
* traffic: the plan carries the traffic asked for, what is sent is received, answers belong to
  their commands, and what was started is stopped.

Where the code does not keep one of these, a property says so and is violated, or excepts the case
by name; both are listed below.

PROJECT.json lists every hazard at its line with the properties that would catch it.

## Modules

| Module | What it is |
| --- | --- |
| `StartupOrder` | the abstract promise: launch after the dependencies are recorded, record after the launch. Three growing sets. |
| `StartupOrderProofs` | what that promise entails for every dependency relation, in particular that programs which block each other never start |
| `ProcessManager` | state, listener, checker and shutdown common to both managers; no `Init`/`Next` of its own |
| `SubprocManager` | extends it by the starters, processes, restarts and shutdown of the subprocess manager; refines `StartupOrder` |
| `SubprocManagerProofs` | types, the inductive invariant with one lemma per part, the action property, the refinement and its corollary |
| `TmuxManager` | extends `ProcessManager` by panes, the starters that type into them, restarts by typing, and the shutdown that kills idle sessions; refines `StartupOrder` |
| `TmuxManagerProofs` | the same proofs for it |
| `Checkout` | the configurations of each kind of component, the one in use, the folders on disk and what cloning and patching do to them; used by the API and by the main program |
| `ApiStatus` | the status of the REST API: component states changed and watched under one asyncio condition |
| `ApiServer` | extends both by the endpoints and the background jobs that check out and build |
| `ApiServerProofs` | types, and that watchers miss nothing while clients read |
| `ApiReportsProofs` | that what the API shows of checkouts and builds is earned |
| `DemoConfiguration` | the demo configuration file: parser, checks, terminal, selection of the programs, as operators |
| `MainProgram` | extends it and `Checkout` by a run of `main.py`, which may be started again on the same disk |
| `MainProgramProofs` | every property of `MainProgram`, from one inductive invariant |
| `TrafficUtils`, `TrafficParser` | times and sizes; from a traffic file to configurations, by recursion |
| `TrafficPlan` | from configurations to a plan: the generator as a machine with a stack. What the parser returns is a parameter |
| `TrafficExecutor` | the executor, the handlers, their shells and the scripts inside them, by pipes and connections that fill up |
| `TrafficExecutorProofs` | types, own answers and clean shutdown, for every plan |
| `Trafficker` | plan and executor together, and what a configuration stands for (`Expected`), a reference definition |
| `TraffickerProofs` | types, that the rows of the plan are the configured ones, exactness of periodic patterns, and that the whole program implements the executor's specification |
| `TrafficReference` | that the generator ends, stated in terms of the file, by recursion |
| `MCSubprocManager`, `MCTmuxManager`, `MCApiServer`, `MCTrafficker`, `MCMainProgram` | instances for TLC |

What the main program selects (`pool` of `MainProgram`) is what a manager is given (`Programs`,
`DependsOn`): `PoolIsClosed` says that the selection contains what it depends on, and
`BlockedNeverStart` (a theorem, checked by no run) what happens when it does not.

### How the model corresponds to the code

`ProcessManager.tla`. `programState` and `curNumRestarts` are the fields of `ProgramStateData`;
`initialised` and `finished` the two lists of `ProgramRecord` as sets (nothing counts
duplicates). Every thread has a program counter per program: `checkerPc`, `listenerPc`, and
`starterPc` in the subclass; the main thread has `cleanupPc`. A step is what a thread does
between two points where another one can interfere: taking a lock, waiting, touching shared state
without its lock. So the listener's read of the state (`output_piping.py:128`,
`program_state_monitor.py:82/86`) is one step, `change_state_to` a second, the entry in the
record a third. The lock of `cv_state_change` is a predicate, `StateLockFree`: only a checker in
`_handle_restart` keeps it across steps. A timed wait may end at any time (`CheckerTimesOut`);
being notified and timing out exclude each other, and a checker that timed out has yet to get the
lock back, which is where the interesting interleavings are. `pipe` holds only the lines that
matter, those with a transition string, oldest first.

`SubprocManager.tla`. The processes launched for a program are numbered; `process` is what the
starter's `_process` refers to (0 for None), `alive` the processes not killed, `printed` (history)
which process wrote which line. The second process of a program is never referred to, because
`_handle_restart` stores it elsewhere. `Launchable` are the programs whose command exists: for
others `Popen` raises and the starter dies. Opening a named pipe waits for a reader and fails once
the pipes are deleted. `unjoined` (history) are the starters whose timed join ran out.

Programs are the environment of both managers: a process writes its first line, then its second, or
stays silent from some point on. The managers never poll their children, so a process that exits is
one that stays silent.

An open of a named pipe that is already waiting when its listener goes never returns
(`StarterHangs`, `RestartHangs`).

The shutdown is the signal handler on the main thread and begins with docker. `docker compose down`
has 30 seconds (`DockerDown`); if they run out, `docker compose kill` follows, inside the except
clause (`DockerKill`). It has no time limit and nothing catches what it raises: either the handler
stands there for good, with nothing stopped, or it is left by the exception, `cleanupPc` is "up"
again and another Ctrl+C may start over. Then come the starters, the kill loop and the watchdogs.

`TmuxManager.tla`. `sent` counts how often the command of a program has been typed; a pane holds
what was typed and not read yet, and what its shell runs. Keys wait while a program runs, and C-c
discards them. `sessions` is the list the shutdown removes killed sessions from; `_handle_restart`
keeps the index it looked up first and uses it at every later step (`RestartLooksUp` to
`RestartTypes`), so that it may point to another session by then. Before that it goes through the
dictionary `_pane_state_pair` (`RestartSearches`), which the main thread still adds to while it sets
up the threads: `paired` is the dictionary, `searched` what it was when the loop began, and a loop
that meets another dictionary dies of a RuntimeError, the checker with it (`SearchBreaks`). Each
iteration of the shutdown's loop is a step, the removal a step of its own, and the starters and
watchdogs are stopped last, as in the code. Panes and shells are the environment; sessions exist
from the start.

`ApiServer.tla`, `ApiStatus.tla`, `Checkout.tla`. Coroutines run until they suspend, so a change
of the status is one step unless the condition's lock is taken; only a state watcher keeps it
while suspended, in the `yield` of `state_watcher`. `ready` are the coroutines that threads have
handed to the loop without waiting for them; `waiters` is the queue of the lock, which is fair.
`set_all_ue_states` gives the lock back between two UEs. A checkout goes through the lists of the
configuration entry by entry (`jobAt`), a build through its stages, all nested in the branch of
the RIC. A configuration is its folder and commit: the folder stands for the implementation.
`results` (history) is how the work on a component has ended: a folder that was in the way is
"found", whatever it holds, and only a clone is "cloned". `behind` and `slow` (history) are
the watchers that have yet to push a change, and whether a client was ever slow. The texts of
errors and what is in the log queues are left out; whether a component has a queue is not, since
a build dies without it. git, docker and the clients are the environment; a docker build needs
the sources to succeed, which all Dockerfiles of the templates copy.

`TrafficParser.tla`, `TrafficPlan.tla`. A file holds what the YAML says, times and sizes in tenths,
so that truncating them is visible. `ParseDict` is the parser, `ParseRaises` where it does not get
through; the generator knows them as its parameters `TrafficConfig` and `IsRejected` only, and that
a configuration consists of members of `Patterns`, each with a `Depth` that exceeds those of its
parts, since what a YAML file says is nested finitely deep; and that the UEs of a file are distinct,
being the keys of a dictionary. The recursion of the generator is `stack`, a frame per call of
`__generate_traffic` with the row so far, and every packet of a periodic pattern is a step: a loop
that never ends is a behaviour that never ends. Entries of rows wrap like the 64-bit integers of
numpy. Where the code draws at random (`Random`, the spread of what rounding leaves) a row is any of
those it can draw; the weights of the normal and exponential distribution are left open: any numbers
of which one is not zero (`Weights`), a uniform distribution has equal ones. Shares are the
quotients rounded towards zero, and a float may fall just short of a whole one (`Shares`). Where
there is no sum to divide by (`Normalises`: a negative variance, or parameters so extreme that all
weights underflow or one overflows, of which a file says only that they are, `extreme`), each slot
becomes the least integer or zero (`Cast`), and what is missing is spread over them as always
(`Missing`).

`TrafficExecutor.tla`. `pc` is the main thread, `send` the worker of each UE, `rsession` and
`ssession` the shells of receivers and senders, which may be dead, `server` and `script` the
processes in them. Of sizes only the sign matters here (`Sign`): a sender script complains, on its
output, of sizes that are not positive, and the executor sends it every one that is not zero.
`stdin`, `unread` and `answers` are the pipes to and from a sender's shell, `inflight` the
connection of a UE; whoever writes to a full one waits. A receiver of the uplink belongs to the
core, one of the downlink to its UE (`ReceiverOf`). `confirmed` is `_server_running`, `dying` a
shell that has a `pkill` to run, `cut` (history) one that was terminated first. Handlers are started
before the `try` block: `StartFails` and a Ctrl+C there end the program as it is; in the block a
Ctrl+C leads through the pool's exit to the `finally` block, and there to the end again
(`MainInterrupted`). The shells are children in the same process group, so that the same Ctrl+C may
kill any of them (`ShellsInterrupted`); then `cut` holds their receivers too, a script goes with its
shell, and servers, which run in the background, stay.

`DemoConfiguration.tla`, `MainProgram.tla`. A setup enters as what the parsers of the components
return, a demo file as what its keys say. `stage` is where `main.py` is; a stage is what happens
between two points where something may fail. Checkout goes through `CheckedOutKinds`, the builds
are the list `todo`, in which only the first native UE counts. `images` are what is on disk by
folder and commit, `found` (history) the folders as the run found them, "patched" being one that
holds nothing but what patchers have copied. The exit code tells an
end, a failure and an exception nobody catches. `Again` starts the program with another command
line and setup, and the same disk. git, docker and the user are the environment.

## Runs

Every bound is a constant of a `.cfg` file. No guard of the managers cuts a behaviour short, since
restarts are bounded by the configuration itself and a process writes two lines at most. The API
is never done, so its model has bounds in the guards: `MaxRequests` requests that set the
configuration or touch the errors, `MaxConfigs` configurations of a kind of component,
`MaxBacklog` scheduled changes that are not made yet, and one run of each job. The executor has
`PipeLines` and `SockBuffer`, the lines and packets a pipe and a connection hold,
`MaxInterrupts`, and `Together`, which lets a Ctrl+C kill all shells or none; the plan `MaxInt`, the
largest number of a slot, and `MaxWeight`, the largest weight of one; the main program `MaxRuns`.
The proofs hold for every value of these, and where `Together` is false for every choice of shells.

| Run | Shows | Instance |
| --- | --- | --- |
| `subproc` | types, `RecordIsEarned`, `RestartsBounded`, `OnlyRestartedSurvive`, `NoRestartOnceRunning`, the refinement `ImplementsStartupOrder`, the inductive invariant `IndInv` of the proofs, and `ReadyIsLaunched`, `RunningOrExhausted`, `ShutdownCompletes` under fairness | a program with transitions, which may be restarted once, and one without that waits for it, both running and initialised; shutdown at any time, with every outcome of docker (507 thousand states) |
| `subproc_stale_reference` | violated: `AliveIsReferenced` | one program with transitions, two restarts |
| `tmux_safety` | types, `RecordIsEarned`, `RestartsBounded`, `OwnPaneUntilShutdown`, `NoRestartOnceRunning`, the refinement and the inductive invariant `IndInv`, all by panes | a program without transitions and one with, which depends on it and comes first in the list, in two sessions (2.4 million states) |
| `tmux_liveness` | `ReadyIsLaunched`, `RunningOrExhausted`, `ShutdownEndsThreads` | one program with transitions that may be restarted twice |
| `api_jobs` | types, `CheckoutStatusIsEarned`, `BuildStatusIsEarned` | one checkout and one build at any time between five requests; core and gNB share a folder and ask for different commits; nothing on disk |
| `api_checked_out` | violated: `CheckedOutIsCloned` | one checkout and one build, nothing on disk |
| `api_watchers` | `NoChangeMissed`, `ReportsGetThrough` | one watcher, one build of everything with two UEs, repositories on disk from before |
| `traffic` | types, `PlanIsAsConfigured`, `PeriodicIsExact`, `CleanShutdown`, `ReportsAreOwn`, `GenerationEnds`, `StepsEnd`, `DownlinkIsReceived` | fifteen files with every pattern and every error, weights without a sum among them, six combinations of handler, direction, protocol and loop, two UEs, pipes and connections that hold one item, two Ctrl+C |
| `traffic_uplink` | violated: `UplinkIsReceived` | two UEs, TCP, a plan that is repeated |
| `traffic_sums` | violated: `SumsAreConfigured` | a distribution with an extreme lambda, one with a negative variance |
| `main_program` | types, `PoolIsUnique`, `PoolIsClosed`, `DemoIsEarned`, `TerminalIsUsable` | two runs on one disk, the second with or without a build; 31 first calls, 26 demo files, six machines |
| `main_groups` | violated: `GroupsRunAsDocumented` | the groups of the demo file that is shipped, and FlexRIC |

Two programs are enough for a manager: threads of different programs meet only in the record,
through preconditions, and one dependent program observes everything the record can get wrong
about the other. One restart gives two processes, enough for output of a dead process to meet its
successor; two restarts (in the violation run) give a survivor nobody refers to. No run has a
program whose command cannot be executed, a dependency that was not selected, or a third program:
what concerns them is proved (`BlockedNeverStartHolds`, and the invariant for every `Launchable`).

Five requests configure everything a build needs, so that its patchers create folders, and leave
room for one that changes the configuration under a job when the proxy is left out. One watcher is
enough for a lock that is kept: the others queue up behind it like the reports do. More
reports than two in the backlog only repeat what two can do, as a thread schedules two at once.

In the traffic runs a pipe or connection that holds one item is the one that blocks soonest; a
second UE is what a shared receiver, and the order of stopping, need. `MaxInt` is 31, which no row
of these files exceeds but those of weights without a sum: `Wrap` is there for the numpy type, and
only they exercise it. Weights up to two are enough for shares that differ and for slots with none.
That a Ctrl+C kills all shells or none (`Together`) keeps the run small. Two Ctrl+C reach every
place one can be pressed at, the second from inside what the first has started. Two runs of the main
program are what a folder or an image from before needs; the calls and demo files are those that
reach every check, one deviation from the shipped configuration at a time.

`CHECK_DEADLOCK FALSE` is set where the system may stop: after a shutdown, at the end of a program,
and when the requests and jobs of the API runs are used up.

### What the violated properties show

* `AliveIsReferenced` (`subproc_manager.py:115`): the restarted process is kept as `self._process`
  of the manager instead of the starter's. A second restart kills the dead one again and launches a
  third beside the second; the shutdown kills none of them. The comment in line 80 says the starters
  refer to the running subprocesses.
* `UplinkIsReceived` (`pysocket_receiver.py:11`): the receiver at the core accepts one connection
  and ends with it. The other UEs' scripts connect through the backlog and send, but nobody reads.
  `doc/Trafficker.md:115` describes one receiver that all UEs share.
* `SumsAreConfigured` (`traffic_plan_generator.py:157`): the weights of a distribution are divided
  by their sum, also where there is none. A negative variance gives NaN, which passes the check for
  one that is not positive (139); extreme parameters let all weights underflow, or one overflow.
  Each slot is then cast to the least integer or zero, and the row sums up to nothing like the size.
  `doc/Trafficker.md:183` says that the slots sum up to `cumulative_size`.
* `CheckedOutIsCloned` (`component_checkout_manager.py:32`): a folder that exists counts as checked
  out. A build whose patchers run before the checkout comes to a component creates the folders for
  its Dockerfiles; the checkout clones nothing and reports success for everything, and `/status`
  says that the repositories are checked out. `api_state.py:121` takes the states for a sign that
  they have been.
* `GroupsRunAsDocumented` (`demo_runner.py:58`, `program_descr_config.py:444`): of the alternatives
  of a core, RIC or gNB the first that fits the build is run, in the run the second RIC; the
  comments of the code say so, `README.md:138-140` says the first of the list is. And only the first
  group of a type is looked up, while every unknown key, such as `run_zmq_proxy` of the shipped
  file, is a group of the type MISC: what of it and `run_misc` is run depends on their order.
  `README.md:142` says that all programs of `run_misc` are executed.

Three more properties that documentation or comments suggest are defined in the modules and do not
hold. No run checks them; TLC finds a counterexample to each in a few steps:

* `RunningOnlyFromInitializing` of `SubprocManager` (`program_state_monitor.py:86`): the listener
  sees an initializing program and its `init_to_running` line, waits for the lock while the watchdog
  kills and relaunches the program, and then marks the new process RUNNING.
* `RunsInOwnPane` of `TmuxManager` (`tmux_manager.py:223`): a watchdog has looked up the index of
  its program's session (207); the shutdown kills and removes another one (260); the command is
  typed into the pane of another program. Before the shutdown it never happens
  (`OwnPaneUntilShutdown`, proved).
* `WatchedUntilRunning` of `TmuxManager` (`tmux_manager.py:202`): the watchdog of a program goes
  through the panes while the main thread adds that of a later program; the loop raises, the
  watchdog is dead, and the program hangs with restarts left. `process_manager_base.py:42-44`
  describes a checker that monitors its program until it is RUNNING and restarts it if it times out.
  `RunningOrExhausted` is about watchdogs that outlive the set-up of the panes.

The models follow the code in further points that surprise, without a property for them:

* a starter sets RUNNING of a program without transitions with no lock (`subproc_manager.py:54`):
  a watchdog past its check resets it to STOPPED and restarts it, which is why
  `NoRestartOnceRunning` speaks of programs with transitions;
* `docker compose kill` at the start of a shutdown may hang or raise (`subproc_manager.py:152`), and
  then nothing is stopped; `ShutdownCompletes` is about what follows it;
* after an aborted shutdown the demo goes on, and the next Ctrl+C tries again;
* a Ctrl+C in the terminal may kill the shells of the trafficker as well (`traffic_handler.py:82`):
  the `pkill` of a confirmed server then has nowhere to go, the error is logged, and the server is
  still there when the `finally` block has ended (`CleanShutdown` excepts it);
* a checkout or build may be shown of a configuration that has been replaced since; the properties
  about the status ask only that it has happened to the component;
* once a client has been slow, other watchers do miss changes (`NoChangeMissed` is about the time
  before), and once a send has timed out, answers are taken for those of later sends
  (`ReportsAreOwn` excepts it);
* a demo without a build starts on whatever folders and images there are: also a folder that holds
  nothing but Dockerfiles that an earlier run for another RIC has copied (`folder_manager.py:61-64`).
  `DemoIsEarned` says that a folder in use is as the run found it or as it cloned it, and only of
  what is built in this run that it is made of a repository;
* the result of `build_ues` is negated (`api_utils.py:235`), and a build of the core, gNB or UEs
  alone builds nothing (`api_utils.py:201-227` are nested in the branch of the RIC);
* a list of UEs that is rejected has taken effect (`api_endpoints.py:149`);
* of two configurations with the same implementation the first stays in use
  (`setup_configuration.py:91-119`);
* after a clone whose commit does not exist, a second checkout finds the folder and succeeds;
* an interval below a millisecond, such as '0.5ms', is truncated to zero and the generator never
  ends; a granularity of '0.5ms' divides by zero (`GenerationEnds` excludes the first);
* a distribution of a negative size is rounded towards zero and nothing is taken away, so that
  its sum is too high by up to a byte per slot;
* `BI` raises for every handler (`traffic_executor.py:56`), although `doc/Trafficker.md:116` refers
  to the Ping handler for it;
* if a session fails to start, the earlier ones are never closed;
* nobody reads what the sender scripts print: the one for UDP a line per packet, the one for TCP a
  complaint per size below zero (`pysocket_sender.py:27-29`), which overlapped random patterns yield
  (`doc/Trafficker.md:277-280`). Once the pipe is full, the executor stands still, which is why
  `StepsEnd` is about TCP without negative sizes;
* what is on its way when the receivers are stopped, before the senders, is lost
  (`DownlinkIsReceived` ends there);
* the demo is skipped without a word if the patching is switched off (`main.py:47`);
* a failed build ends the program with exit code 0;
* what the checks of the demo configuration find is only logged; the properties about the pool
  speak of files that pass them, the demo starts with others as well;
* the parser reads `default_terminal`, the README's example (`README.md:106`) has `used_terminal`.

## Fairness

`FairSpec` has weak fairness for each starter, checker and listener thread and for the shutdown: the
interpreter's threads are preemptive, every lock is released by steps that are themselves fair, and
every wait of these steps is timed. Not fair is `DockerKill`, the one wait of the shutdown without a
limit: a shutdown may stay there for ever, and `ShutdownCompletes` begins after it. It assumes
nothing of the programs (a process need not write anything) and does not assume that the user ever
stops the demo. `TmuxManager` makes the same assumptions, and that a shell reads what is typed when
no program runs in its pane, not that a program ends after C-c. Its set-up of the threads is part of
the main thread and fair.

The API's `FairSpec` is fair to the event loop, the waiting coroutines and the background jobs,
whose clones and builds come to an end. Nothing makes a client read what it is sent, which is why
`ReportsGetThrough` stops at a watcher that keeps the lock.

In `Trafficker` every thread and every process that can go on does (`ExecFairness`): the main
thread, the workers, the scripts and servers, a shell with a `pkill`. All waits for an answer are
timed. A worker that writes to a full pipe cannot go on, and nobody has to press Ctrl+C.
`MainProgram` has no liveness property: git and docker may take for ever.

## Proofs

`SubprocManagerProofs` proves `Spec => []IndInv`, from assumptions only on the types of the
constants (`ProgramsAssumption`, `LaunchableAssumption`), so for every set of programs, every
dependency relation, cyclic ones included, and every number of restarts. The properties of the
runs are not inductive by themselves; the invariant adds what they rest on:

* `LaunchInv`: the starter launches once, and only the first process is ever referred to;
* `RestartInv`: a checker about to relaunch has counted the restart before;
* `LockInv`: while a checker restarts a program with transitions, nobody sets it RUNNING;
* `OutputInv`: whatever the listener is about to do rests on a line that was written;
* `RecordInv`, `OrderInv`: entries are earned, and launched programs had their preconditions met;
* `SurvivorInv`: joined starters have ended, so the kill loop finds what they launched.

Each part has a lemma that every step preserves it, one step of the proof per thread and one per
action where an action disturbs it. From the invariant follow `RecordIsEarned`, `RestartsBounded`
and `OnlyRestartedSurvive`; then the action property `NoRestartOnceRunning`,
the refinement of `StartupOrder` (first launches are `Launch`, entries of the record
`Initialise` and `Finish`, everything else a stutter), and from it, through the theorem of
`StartupOrderProofs` about the abstract specification, `BlockedNeverStart`.

`TmuxManagerProofs` does the same for panes, from `ProgramsAssumption` and `PanesAssumption`, so
for every number of panes in a session and every order of the programs. What differs is the
invariant: a watchdog may type a command before the starter does, so `CountInv` accounts for one
command of each; and `PaneInv` says that before the shutdown an index a watchdog has looked up is
that of its program's session, since no session is removed and the index is injective. In
the refinement the first typing is a `Launch` whoever types, and `NoRestartOnceRunning` follows
from `LockInv`.

`TrafficExecutorProofs` is about `ExecSpec`, from `ModesAssumption` and `BoundsAssumption`: any UEs,
any sizes of pipes, any number of interrupts, any plan. `AnswerInv` says that between two steps of
the plan no worker is at work, and then that a pipe holds at most the command whose answer its
worker waits for. `StopInv` says that a confirmed receiver is trusted and has a shell, that a
trusted one which is not confirmed any more has its kill on the way or behind it, or a shell that
was terminated or died of a Ctrl+C (`cut`), and, in the `finally` block, which shells are closed.

`TraffickerProofs` is about the whole program, from `PatternsAssumption` besides: any files, any
parser that returns configurations with durations, intervals and sizes in their ranges, any
`MaxInt`. `FramesInv` says that the stack consists of calls of such configurations, with rows of
numbers that fit into a slot, and that a call below the inmost one is composite and has parts left.
`PeriodicInv` is the loop invariant of a periodic pattern: the current time is a multiple of the
interval, and each slot holds the packets before that time whose own time falls into the slot. It is
what makes `PeriodicIsExact` inductive. A packet adds one index to one slot's set of packets, which
takes that the division by the granularity finds that slot and no other, and that adding modulo
2 * (MaxInt + 1) and wrapping once at the end come to the same; both are lemmas about `\div` and `%`.
Granularities that divide neither interval nor duration, and numbers that wrap, are covered, which
no run does. An interval of zero leaves the time where it is, and then the loop never ends.
Every step of `Trafficker` is one of `ExecSpec` or leaves the variables of the executor as they are
(`ExecutorImplemented`), so what is proved of the executor alone holds in the program
(`ExecutorSafe`).

`PlanConfigured` is `Spec => []PlanIsAsConfigured`. `Expected`, in `Trafficker`, says without a loop
or a stack what a configuration stands for: the length of its row, bounds of the bytes in it (equal
ones but for random patterns and for distributed ones of a negative size) and the most that a slot
can hold or owe. Where that may exceed `MaxInt` only the length is claimed, since a slot may wrap
around. The argument:

* natural induction is not taken from the library, whose theorem is about an operator, but stated
  for a set of numbers (`Induction`) and proved from the pigeonhole principle. With it
  `SumsEquation` and `ExpectedEquation` say that the recursive functions `Sums` and `Expected` are
  defined and satisfy their equations, the second by induction on `Depth`;
* from these follow the facts about rows: what the sum is of a row that is appended to another,
  added to another, shifted, padded, negated, or made of ones;
* `Matches` says that a row is what figures stand for. A new row of a pattern without parts does
  (`DistributedMatches`, `RowsMatch`), that of a periodic pattern does at the end of its loop
  (`PeriodicMatches`, which adds up what `PeriodicInv` says of each slot), and a row that matches
  the first n parts matches n + 1 of them after the next one has been received
  (`ReceivedMatches`): appended in a sequence, added from its offset on in an overlap, where the
  bound on the slots makes wrapping the identity;
* `RowsInv` is the inductive invariant. Each frame with parts matches those it has received and has
  called the next one (`Nested`), the UEs still to do are the last ones of the list, and those that
  are done have rows that match (`Remaining`). TLC has checked it on the instance of the run.

What is assumed of the weights of a distribution is that they are numbers of which one is not zero:
that the shares then sum up to the size, less at most a byte per slot, which the spread makes up for,
is proved (`ShareFacts`), where they have a sum. Where they have none
`Expected` says that a slot may overflow, and only the length of the row is claimed.

The run shows the same on fifteen files only, whose patterns are nested four deep at most.

`MainProgramProofs` proves `Spec => []IndInv` from `MainAssumption` and the assumptions of `Checkout`
(types of the constants; `"none"` is no folder; the marks of a folder are no commits), for every set
of calls, demo files, folders and commits, and however often the program is started again:

* `LoadedInv`: from the reading of the demo file on, the configurations are those of the setup;
* `FolderInv`: a folder the run has found is never written to, the one being cloned is that of the
  kind at hand, and a folder that is there and was not is that of a kind already checked out;
* `SettledInv`: the folder of each kind that has been passed holds what was asked for or found, so a
  later kind that shares it and asks for another commit has not overwritten it;
* `BuildInv`: whatever the dialog asks for has been built from the folder in use, or is in the list
  of what is left, whose entries are all for the implementation in use;
* `ImagesInv`: what the run has built is of a repository at a commit, not of a folder with nothing
  but Dockerfiles, whose build fails;
* `DemoInv`: the terminal was chosen among the usable ones, and the pool is the selection.

`DemoIsEarned` follows from the first five; `PoolIsUnique`, `PoolIsClosed` and
`TerminalIsUsable` from what the checks and the selection compute. The selection is written with
`Filtered`, the elements of a sequence at the indices of a set by their rank, instead of `SelectSeq`,
of whose recursion the prover knows nothing; `FilteredProperties` says that it returns all of them,
in order, and nothing else.

`ApiServerProofs`, from `RequestsAssumption`, `StatusAssumption` and the assumption on the folders,
proves types with `JobInv` (a job at work points into the lists of the configuration, and a list is
not replaced under it), and `NoChangeMissed` with `NobodyWaits`: as long as no client has been
slow, the condition's lock is free between any two steps, so a change wakes every watcher there is.

`ApiReportsProofs` proves the two properties about what is shown. Reports travel through two queues
(threads to the event loop, event loop to the lock), so neither property is inductive. `StatusInv`
says of each change on its way that it has been earned. `WorkInv` is about `WillShow`, the state a
component is in once both queues have drained: that of the last report about it, wherever it
waits. If it will be shown at work, a job is at it, or it has failed unreported. Each step has a
lemma about what will be shown after it: appending a report decides it for the components
concerned, moving a report from one queue to the other changes nothing, and a change that gives
the lock back between two UEs is not about work that goes on. When all is quiet, what will be shown
is what is shown.

Every invariant of every passing run is proved. Only model-checked are the liveness properties,
which are out of the prover's reach (as is ENABLED). What the parser returns (`TrafficParser`) is
defined by RECURSIVE operators; the proofs take it as a parameter, and every run evaluates
`PatternsAssumption` for the real one.

## Not modelled, and why

* lines split by a non-blocking read, colour codes, log files and the display buffer;
* what docker does to the containers of the programs at the start of a shutdown: of its two
  commands only how they end is modelled;
* a second Ctrl+C during the shutdown of a demo: the model has one handler at a time;
* the executor's start of a server on a port that an earlier run's leftover server still holds, which
  it would confirm as its own; and the exception of the netcat receiver for a shell that is gone
  (`netcat_handler.py:54-55`), for which the interrupted start stands;
* the output of ping, and what `readline` buffers after a `select`;
* what `Popen` raises while images are pushed (`build_runner.py:120`), and a native build on another
  system than Linux without a log folder, which raises and in the model fails;
* the tmux manager's wait for `pane_current_command`, which is read from a pane object that is
  never refreshed: it returns at once or after its timeout, and both are a step of the model;
* the record checker thread: it only logs;
* what is in the API's log queues, their websocket, and the pages and meta data;
* two identical names of UEs, and a list of UEs that is replaced while a job goes through it;
* the rendering of templates, the parsers of the components (field by field) and prompts: text
  in, text out; a setup is what they return;
* the pace of the steps of a plan, the plotting, and the copying of a script to a remote host;
* the display, and the prompts for tmux.

## Plan

Done, in this order: supervision by subprocesses and by tmux with the abstract startup order;
checkout, status and server of the API; the traffic plan and executor; the demo configuration and
the main program; and the proofs of all of these, so that every invariant the runs check is a
theorem.

Left, the most useful first:

1. The log queues of the API: lines appended by a build while a websocket copies and clears the
   queue, or while a configuration sent again replaces it.
2. The shutdown of a demo with a second Ctrl+C inside the first, which needs a stack of handlers
   for the main thread.
3. A listener that reads parts of lines.
4. UDP with pipes that fill up, and what is left behind by the receivers when they are stopped first:
   the models have both, and the liveness properties except them.
