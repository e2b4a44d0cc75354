# A TLA+ model of nsjail

nsjail starts a command in a set of Linux namespaces, with limits, and
supervises it: once, again and again, or once per TCP connection. This
directory holds TLA+ modules translated from the C sources under `src/`, TLC
runs over small instances, and TLAPS proofs for all instances.
`PROJECT.json` lists every run, mutant, mapped line, hazard and theorem.

## The system and its parts

| Part | Source | State | Module |
|---|---|---|---|
| Supervisor loops and signals | `nsjail.c` | `nsjailSigFatal`, `nsjailShowProc`, interval timer | `Supervisor` |
| Jails | `subproc.c` | list `nsjconf->pids`, socketpairs, `/proc/pid/syscall` descriptors | `Supervisor` |
| Connections | `net.c` | listening socket, peer addresses | `Supervisor` |
| Memory cgroup | `cgroup.c` | directories `NSJAIL.<pid>` | `Supervisor`, `SharedCgroup` |
| User namespace | `user.c` | uid and gid maps | `Contain`; outcome in `Supervisor` |
| Process set up | `subproc.c`, `contain.c`, `pid.c`, `uts.c` | credentials, capabilities, limits, descriptors | `Contain` |
| Network in the jail | `net.c` | interfaces `lo` and `vs` | `Contain` |
| Command line | `cmdline.c` | `struct nsjconf_t` | `Cmdline` |
| Mount namespace | `mount.c` | mount table of the jail | `Mount` |
| Seccomp filter | `sandbox.c`, `seccomp/` | BPF program | `Bpf` |
| Log, utilities | `log.c`, `util.c` | log file, directories | parts in `Cmdline`, `Mount`, `SharedCgroup` |

The parts interact through the process table (clone, wait, kill, reused pids),
the socketpair of each jail, signals without `SA_RESTART`, `struct nsjconf_t` and
the file system.

## What is hard about it

One thread serves everything, so the difficult behaviour comes from the
kernel, the jails, the clients and other supervisors moving between any two of
its calls, and from the order of the calls themselves:

* `kill()` and `rmdir()` are called with pids from a list, and pids are reused;
* a jail waits for its parent, which may fail or die at any step of the set up;
* a signal that arrives just before `accept()` or `pause()` wakes nobody up;
* jails stop themselves, are killed from outside, or end at any stage;
* clients reset connections between two `getpeername()` calls, descriptors run out;
* a step of the set up can take away what a later one needs, or undo an earlier one;
* mounts are made in the order of the options and remounted by path.

The list `hazards` in `PROJECT.json` places each of these at its line.

## Modules

Definitions marked *Mutant* are deliberately wrong variants that show that a
property can fail; nothing uses them.

**`Supervisor`** has the supervisor (`pc` names its next call), the stages of each
jail (`proc`), and the kernel between them. Actions carry the names of the C
functions. `subprocRunChild` is the sequence `LimitConns`, `Socketpair`,
`Clone`/`CloneFails`, `subprocAdd`, `netInitNsFromParent`, `cgroupInitNsFromParent`,
`userInitNsFromParent`, `WriteDone`; `subprocReap` is `ReapOne`\*, `ReapDone`, `Sweep`.
`Sweep` is the loop of the time limit: `ReapDone` reads the clock and fixes the jails that
are over their time (`expired`); each of them gets SIGCONT (`SweepCont`) and SIGKILL
(`SweepKill`) in two steps, between which it may stop again.
`mode` is chosen from `Modes` at the start and decides between the listen loop and
the standalone loop. `SupervisorProperties` states what it guarantees.

**`JailLifecycle`** is the abstract promise: a jail is created held, admitted only by
a living supervisor that prepared it, confined only once admitted, and its pid
is not free before it is collected. `LifecycleSpec` states that `Supervisor`
implements it: a jail is *held* until the done byte is in its socketpair,
*admitted* until it has read it, *confined* until it ends, *over* until it is reaped.

**`SharedCgroup`** has several supervisors, which know nothing of each other, under
one cgroup parent (the default one): each write of `cgroupInitNsFromParent` is a
step, `wait4()` frees the pid before `cgroupFinishFromParent` removes the directory
of that name, and supervisors crash and are restarted. `left` is a history of the
directories nobody will remove.

**`Contain`** is one jail on its way from `clone()` (or `unshare()` in EXECVE mode) to
its command. The order of the calls is data: `subprocNewProc`, `containContain`,
`containDropPrivs`, `userInitNsFromParent`, `netInitNsFromChild` and `netConfigureVs`
are sequences of step names, and `pc` indexes them. Each step is an action on the
kernel state of the process: `cred` (ids, groups, capabilities, bounding set,
no_new_privs, parent death signal, limits, filter), `ns` (root, interfaces, host
name, id maps, init of the pid namespace) and `fds`. `StepFails` is the chain of
`return false` up to `exit(1)`. The rules of the kernel (`Permitted`, `IsRoot`,
`CapsAfterExec`) are external. Capabilities are all or none.
`ContainProperties` says what holds when the command runs.

**`Cmdline`** takes the options one by one, in any order, and fills `nsjconf`. A path
is a sequence over `Names`, and `OptionAssumption` gives each option its type; the
arithmetic of limits and ids is modulo `LimMod` and `IdMod`, which stand for 2^64
and 2^32. **`Mount`** goes on from the list it built: `mountInitNsInternal` is a process
of its own in EXECVE mode, the mount table is a sequence in which the youngest
mount on a prefix of a path decides where the path leads, and mount points are
created in the file systems found there. `MountProperties` relates the options to the
mounts.

**`Bpf`** has `bpf_resolve_jumps` with its label table and its 8 bit counter, the
tests of `bpf-helper.h` on 32 and 64 bit arguments, the policy of `sandbox.c`, and the
kernel's machine that runs the filter. A program is the policy, two tests in a
row, or any list of the instructions that the macros write (`Written`), with labels
from `LabelNames`. `Half` is the number of values of half an argument, 2^32 in the
code, and `Bits` are the values of its bits: two halves share a bit of `Bits` or not
(`Common`), which is all that `JSET` asks. `BpfProperties` compares filters with direct
definitions of what they should decide.

The modules meet as follows. What `Supervisor` has as the two steps
`containContain` and `Execv` of a jail is `Contain` in detail, and `Contain`'s step
`readDone` stands for the byte that `WriteDone` sends. The step `mountInitNs` of
`Contain` is `Mount`, its `sandboxApply` is `Bpf`, and the cgroup steps of `Supervisor` and
`Contain` are `SharedCgroup` with one supervisor. `Mount` is composed with `Cmdline`.

`MCSupervisor`, `MCContain`, `MCMount`, `MCBpf` and `MCSharedCgroup` hold the values of
the constants for TLC; the modules ending in `Proofs` hold the theorems.

### Abstractions

* The list of jails is a set of entries: the loop of the time limit takes them in
  any order, subprocKillAll in one step, and that no pid has two entries is part of
  the proved invariant.
* Of a start time only the age up to the limit is kept, which is exact, since
  the code only asks whether the age reaches the limit.
* Of an address only its first byte matters to the code; an address that
  `netConnToText` left uninitialised is an arbitrary byte.
* A text on the command line is a number, the name of an account or another word;
  a path is a sequence of names; an argument of a system call has two halves.
* What is only logged has no state.

`Faults`, `SharedFaults`, `MountFaults`, `ParseFaults` and `PrctlFails` say which calls may
fail for reasons of their own; the proofs hold for every value of them.

## Runs

| Run | Shows |
|---|---|
| `supervisor_safety` | all three modes: exact list; SIGKILL reaches own jails over their time only, and at a shutdown all jails; no jail before its set up and none forgotten in the handshake; cgroup directories, descriptors and connections follow the list; the exit status of ONCE; no standalone run rejected on account of an uninitialised address. Pids reused by others, every failure, resetting clients, few descriptors, stops, shutdown and crash |
| `supervisor_liveness` | listen and ONCE mode: refinement of `JailLifecycle`; no zombie stays, the server goes on, fatal signals end it, ONCE returns, the time limit ends stopped jails, too, although SIGKILL alone would not; neither shutdown nor crash leaves a running jail behind that had set its parent death signal or was still held |
| `shared_cgroup` | three supervisors, one pid that all of them get in turn: a running jail is under its own limit, every directory is accounted for, and those of ended jails go away |
| `contain` | all ids, modes, privilege options, network options and descriptors, every step failing at will: a command that runs is fully confined, has neither capabilities nor groups, dies with its parent, can fork and inherits the passed descriptors only; no step takes away what a later one needs, or gives back what an earlier one took |
| `mounts` | all command lines of up to three options, all failures, helper killed at any moment: success means enclosed, read-only exactly where asked, later options win, sound lists succeed, limits are exact |
| `filters` | all short programs of jumps and labels, one with more labels than rows and one longer than `insn` counts, the policy on all calls but ptrace, all pairs of tests on all arguments |
| `reject_other_ip` | violated: the per-address limit compares one byte (`net.c:213`) |
| `handshake_sigpipe` | violated: SIGPIPE ends the supervisor (`subproc.c:284`) |
| `gid_map_failure` | violated: `while(1)` after a failing `newgidmap` (`user.c:120`) |
| `rerun_fatal_signal` | violated: `continue` skips the check for fatal signals (`nsjail.c:149`) |
| `stopped_shutdown` | violated: `subprocKillAll` sends no SIGCONT (`subproc.c:266`) |
| `policy_comment` | violated: the policy allows ptrace (`sandbox.c:37`) |

### Bounds

* `Supervisor`: two pids give two jails, a jail and a foreign process, or a jail
  and its successor with the same pid; they are symmetric in `supervisor_safety`.
  `MaxConnsPerIp` 1 is reached by the first jail of an address. `TLimit` 1 gives jails
  before and at the limit. With `FdLimit` 4 the second jail finds no descriptor
  for its socketpair while the first one holds its own; two jails at a time have one
  without. socketpair() is the call that really runs out: it takes two descriptors
  and gives one back before the open of /proc/pid/syscall. accept() and open() fail for
  reasons of their own. `supervisor_liveness`
  has one part of the set up, since only whether one fails matters there, and no
  RERUN, in which `FatalSignalStops` does not hold (`rerun_fatal_signal`). The safety
  properties are also proved, for any number.
* `SharedCgroup`: one pid makes every directory contested; of three supervisors
  one can reap, one set up and one have crashed, and one of them has no limit.
* `Contain`: two ids, since the kernel asks only whether an id is root's and
  whether two ids are equal. Descriptors up to 5 leave three beside the standard
  ones; `NaiveLimit` stands for 1024 and leaves one of them beyond the fallback loop.
* `Mount`: three options beside the implicit `/` and `/proc` give a mount, one below
  or on top of it, and a switch that changes their meaning. The host has a
  writable directory, a read-only one and a file. `LimMod` 64, `IdMod` 16 and `MiB` 8 leave
  products below, at and above the range.
* `Bpf`: halves of two bits (`Half` 4, `Bits` 1 and 2) have all orders and all overlaps of
  bits; `InsnMod` 19 is the length of the policy and exceeded by one program, and
  `BPF_LABELS_MAX` 3 is reached and exceeded. Programs of jumps have up to three
  instructions, or four with a final KILL.

Deadlock checking is off where the system really stops: a supervisor that ends,
the set up of a jail, the mounts, and the run of a filter.

### Fairness

`Fairness` of `Supervisor` assumes that the kernel schedules the supervisor and the
jails, that the timer of `nsjailSetTimer` ticks, that a deliverable SIGKILL is
delivered and that init reaps orphans. `FairSpec` of `SharedCgroup` assumes only that
each supervisor is scheduled and woken by its timer. No client has to connect, no
call has to succeed and no command has to end.

## Proofs

The theorems hold for every value of the constants that satisfies the named
`ASSUME`s of the modules; TLC evaluates those in each run.

**`SupervisorProofs`**

* `TypeCorrect`: the type invariant. Inductive with `CurKnown`: while
  `subprocRunChild` works on a jail it has a real pid.
* `ListExact`: from `ListInv`, which adds that the list has one entry per pid and
  none for a jail about to be added, and that only own jails have a SIGKILL pending.
  Without it the removal of one entry would not mean that the pid has left the list.
* `KillsReach`: from `ListInv`, `SweepInv` and `KillInv`. `SweepInv`: what the loop of the
  time limit still has to signal is in the list and over its time, though time
  passes and jails end between its steps; pids cannot be reused before the next
  wait4(). `KillInv`: a jail with a SIGKILL pending is over its time, and after a shutdown
  all have one, because the list that `subprocKillAll` walks is exact and nobody is
  cloned afterwards. A jail that stopped between SIGCONT and SIGKILL therefore stays
  in the reach of the next pass. This is the safety half of `TimeLimitEnforced` and
  `ShutdownEndsRunningJails`; that a deliverable signal is delivered is left to TLC.
* `HandshakeIsSound`: from `SetupInv`, which says what the byte in the socketpair
  stands for and how far the set up is at each call of `subprocInitParent`, and from
  `WaitInv`: a jail without an answer is the one being served (for ever, in the
  `while(1)` of `user.c`), or its supervisor is dead and the kernel about to answer. This is the safety half of `HeldJailLeaves`.
* `SupervisorImplementsLifecycle`: the refinement. Initial states map to initial
  states, and each action is matched with the step of `JailLifecycle` it makes, or
  none. `HandshakeInv` is needed: while `subprocInitParent` works on a jail the byte has
  not been written, so no set up step belongs to an admitted jail.

**`ResourceProofs`**, on top of these

* `CgroupDirsRemoved`: from `CgroupInv`. A directory is made for a listed pid, and
  without a memory limit there is none.
* `DescriptorsAccountedFor`: from `FdInv`, which says for each call which sockets
  are open at that point.
* `ConnectionsLimited`: from `ConnInv`. The first byte counts at least the jails
  of the address, and the answer of `netLimitConns` still holds at `subprocAdd`. It
  speaks of the jails stored with an address; a jail whose client has reset the
  connection before `subprocAdd` has none and is not counted, by the code or here.
* `StandaloneAlwaysRuns`, `ExitCodeTellsFate`: from `AloneInv` and `OnceInv`. The
  standalone loop starts a jail only when the list is empty, and ONCE returns
  the status of its one jail before anything resets it.

**`SharedCgroupProofs`**: `SharedTypeCorrect`, `JailsLimited`, `DirsAccounted`, from
`SharedInv`. A supervisor that prepares a jail is its parent, so no other one has
the pid; a process keeps its directory, since `rmdir()` fails while it is in there.
The two together make the late `rmdir()` of another supervisor harmless.

**`ContainProofs`** has two parts. The first gives every step a rank and shows
that `subprocNewProc` is strictly increasing in rank for every configuration, so
that each step occurs at most once and `Past`, the set of steps behind the
process, holds exactly the configured steps of smaller rank. The second has the
inductive invariant `ContainInv`: every step in `Past` has had its effect and no later
one has undone it (`CredFacts`, `NsFacts`, `FdFacts`). At `execv` everything is in `Past`, which
gives `FullyConfined`, `DiesWithParent`, `NoPrivileges`, `CanFork` and `PassedFds`;
`NeverForbidden` follows from what `Past` holds at each step. `NeverRegained` is the action
property of the same invariant: where a step could give something back, the step
that dropped it is not yet in `Past` (`NotYet`), or the invariant says that it is gone for
good, as for the capabilities that execv() would give to root.

**`TableProofs`**, for every host, command line and failure

* `Parsed`, the invariant `ParseInv` of `cmdlineParse`, and `Exact`. Each field keeps its
  type through every option (`FieldsOK`); every option that asks for a mount has its
  entry in the list, in the order of the options, and the only others are `/` and
  `/proc` (`Owners`); and unless parsing failed, the last limit asked for is the one
  stored, if it fits 64 bits (`LimitsOK`). `Exact` is the third; the other two carry
  the mounts.
* `Enclosed`, `MountTypes`: from `MountInv`. The mount table is never empty, its bottom is
  the tmpfs of the root, every other mount is that of an entry of the list
  (`TableOK`); the loop at `next` has mounted what is before it (`Progress`), and what the
  helper and `mountInitNs` report is true (`Reported`).

**`MountProofs`**, on top of it

* `FlagsHonoured`: from `FlagsInv`. A remount goes by path; it changes no more than the
  flag, so that every path leads where it led before, and the entries before `next`
  stay read-only.
* `LaterWins`: the order of the table is the order of the options, from `Owners`.
* `SoundSucceeds`: from `NodesInv`, which says where each file and directory of the jail
  comes from: the host, an entry mounted before, or a mount point made for one.
  A sound list therefore never meets a file where it needs a directory, nor has
  to make a mount point where nothing can be made. A missing directory of `-D`
  is the one other reason to fail, after everything is mounted.

**`BpfProofs`**: `Filters`, `FilterTypes` and `JumpsReach`, for every program of the macros, any
number of labels and any range of `insn` that the policy fits in. `BpfInv` says
which instructions the two passes have rewritten, that a label has one row, and that a filter that runs is
one the kernel took. `ResolveInv` is the argument for the backward walk: behind `at`
every jump leads to its label, and the table has the places of the labels behind
`at` and of no others, which is why a jump backwards is refused. A program longer
than `insn` counts is walked only in part, so `JumpsReachLabels` speaks of the others.

**`VerdictProofs`** follows a filter that runs, instruction by instruction

* `PolicyHolds`: from `PolicyInv`, which says for each place of the policy what is known
  of the architecture and the number of the call (`PolicyAt`). Calls of ptrace are
  left out of its statement (see `policy_comment`). It needs the jumps
  as `JumpsReach` has them, and `InsnMod >= 19`, so that the policy fits.
* `TestsDecide`: each of the seven tests, on 32 and 64 bit arguments, that is taken
  holds for the whole argument, and does not hold if it is missed, the first match
  wins, and the second test sees the argument as the first one saw it. Of `JLT64` only
  the second half is claimed, of `JNE64` only the first. The proof first shows which
  test is taken (`Outcome`), and that this lies within the claim (`OutcomeWithin`). From
  `Tests64Inv` and `Tests32Inv`, which say at each instruction of a test what the halves compared so far have decided (`Known`, `Known32`). That
  comparing halves compares the whole, and that a bit is common to the whole when
  it is common to the low or the high halves, are lemmas (`OutcomeHalves`,
  `CommonHalves`) from `Half % (2 * b) = 0` for each bit `b`.

The assumptions are about types, with these exceptions: a configuration of `Contain`
starts with the standard descriptors open and one free, and does without a user
namespace only as root (`ConfigAssumption`); an account's id fits a uid_t
(`Texts`); soft limits are at most hard limits (`LimitAssumption` of `Cmdline`); a
directory tree of the host has the parents of what is in it (`HostAssumption`); the
policy fits `insn` and bits fit halves (`BpfAssumption`); and filters are made of the
macros (`ProgramAssumption`).

### Only model-checked

Liveness under fairness: all properties of `supervisor_liveness` but `LifecycleSpec`, and
`EndedJailsLeaveNoDir`. It is outside the prover. Every invariant
and action property that a passing run checks is also proved, and so is the refinement.

## Where the code and its own words differ

Six runs end in a violation. Each compares the code with a line of its own
documentation, comments or messages; `findings` in `PROJECT.json` quotes the line.
`KeepsServing` and `FatalSignalStops` are also checked, and hold, in
`supervisor_liveness`, which has no gid mappings and is not in RERUN mode.

Some limits of the code are named in `hazards` and excluded by the constants or
stated in a property:

* `subprocKillAll` sends no SIGCONT, nor does a parent death signal. `StoppedResistsKill`
  is `TRUE` in both supervisor runs, and what happens to stopped jails is left out of
  `ShutdownEndsRunningJails` and `ArmedJailDiesWithSupervisor` (`Resists`); `stopped_shutdown`
  has the shutdown with a stopped jail.
* A client that resets its connection between `netLimitConns` and `subprocAdd` leaves a jail
  without an address, which no later `netLimitConns` counts; `ConnsPerIpBounded` speaks of
  the others.
* `containMakeFdsCOENaive` stops at descriptor 1024; `OnlyPassedFds` leaves out what is beyond
  it when /proc/self/fd may be unreadable (`Beyond`).
* The sandbox sets no_new_privs even with `disable_no_new_privs`.
* `NoStepForbidden` is stated for maps to the caller's own ids, for addresses that
  parse, and for an interface only outside of EXECVE mode and as root, who alone
  may make a macvlan interface from the host's. Whether root may
  prepare a jail under another outside id before it has taken that id depends
  on the kernel; with EXECVE nobody calls `netInitNsFromParent`, and the interface is
  not there.
* `JNE64` (`bpf-helper.h:170`) takes only arguments that differ in both halves, and
  `JLT64` (`bpf-helper.h:208`) takes the equal one, too. Neither is what its name says;
  `TestsCompare` holds them to the half of it they keep, and the policy uses neither.
* The counter `insn` of `bpf_resolve_jumps` has 8 bits, and nothing refuses a
  filter it cannot count.

Others were met on the way and are modelled as the code has them:

* An architecture that is not x86-64 is taken for i386 by the policy.
* The help text gives 600 as the default time limit, and the message about an
  unknown mode names LISTEN_TCP as the default one; the code has 0 and ONCE. `max`
  as a resource limit is the caller's hard limit, not RLIM_INFINITY.
* Without `--iface_vs_ip` a gateway is not looked at.
* When two entries have the same destination the remount hits the upper one, so
  a writable entry over a read-only one becomes read-only. Submounts of a recursive
  bind stay writable.
* `pivot_root_only` does not use `-c`; without a mount namespace the directory of `-D`,
  the mounts and the read-only flags are not used.
* A part left out of `-U` or `-G` repeats the one before it.

## Not modelled

* Formatting and output of the log, and the help text: no other part reads them.
* Personality, priority, session and environment of the jail: set and never read.
* The printing of filters for debugging, and big endian layouts.
* The netlink and ip(8) calls of the macvlan set up by the parent: one step, which
  succeeds or fails.
* `newuidmap` and `newgidmap`: external programs, of which `Supervisor` has the outcome;
  `Contain` has the maps `user.c` writes itself.
* Supervisors in different pid namespaces under one cgroup parent, whose jails
  can have the same pid at the same time.
* The build for other architectures than x86, where `sandboxApply` does nothing
  (the `#if` of `sandbox.c:42`): `Bpf` and `Contain` are the x86 build.
* Sources of bind mounts that lie one below the other are taken as separate file
  systems: what is made in one does not appear in the other.
* Mount propagation, submounts, and relative paths. Of procfs there is only the
  root: nothing can be made in /proc.
* Wall clock changes: the age of a jail is taken to grow.
* The window in which the dummy init of EXECVE mode has not yet set its parent
  death signal (`pid.c:49`).
