------------------------ MODULE SupervisorProperties ------------------------
(***************************************************************************)
(* What the supervisor guarantees: safety, the lifecycle it implements,    *)
(* and liveness.                                                           *)
(***************************************************************************)
EXTENDS Supervisor

-----------------------------------------------------------------------------
(* Safety.                                                                 *)

PcValues == {"listen", "top", "enter", "blocked", "limit", "socketpair", "clone", "add", "net",
             "cgroup", "user", "write", "reap", "sweep", "kill", "check", "hung", "dead", "gone"}

ExitType == [why : {"none", "return", "fatal", "exit", "sigpipe", "crash"}, code : 0..255]

\* Type invariant: the values the supervisor's and the kernel's state can take.
TypeOK ==
  /\ mode \in Modes /\ pc \in PcValues
  /\ cur \in Pid \cup {NoPid} /\ peer \in Addr \cup {NoAddr}
  /\ pids \subseteq Entry
  /\ fds \subseteq Socket /\ sysfds \subseteq Pid
  /\ nsjailSigFatal \in BOOLEAN /\ nsjailShowProc \in BOOLEAN
  /\ rv \in 0..255 /\ expired \subseteq Pid
  /\ exit \in ExitType
  /\ last \in WaitStatus
  /\ proc \in [Pid -> Child \cup {"free", "foreign"}]
  /\ status \in [Pid -> WaitStatus]
  /\ pipe \in [Pid -> {"none", "open", "byte", "eof"}]
  /\ setup \in [Pid -> SUBSET AllParts]
  /\ killed \subseteq Pid /\ cgroups \subseteq Pid

\* While the supervisor runs its list and its unreaped children are the same
\* pids: subprocAdd follows clone() and subprocRemove follows wait4() on every
\* path, so no jail escapes the time limit or subprocKillAll, and no entry
\* outlives its process.  The one exception is a jail between clone() and
\* subprocAdd.
ListMatchesChildren ==
  Alive =>
    \A p \in Pid : (Listed(p) \/ (pc = "add" /\ p = cur)) <=> proc[p] \in Child

\* The jail of pid p has reached the time limit, and the list still has it.
OverTime(p) == TLimit # 0 /\ \E e \in pids : e.pid = p /\ e.age >= TLimit

\* The SIGKILLs of the supervisor reach those they are meant for.  None is
\* pending on a foreign process: pids are reused, and kill() takes a bare pid from
\* the list.  While the supervisor runs, no jail has one before its time is up;
\* and a jail that resists it, because it stopped between the SIGCONT and the
\* SIGKILL, is still in the list and over its time, so that the next pass wakes it
\* again.  A shutdown on a fatal signal misses no jail that lives.
KillsReachJails ==
  /\ \A p \in killed : proc[p] \in Live
  /\ Alive => \A p \in killed : OverTime(p)
  /\ exit.why = "fatal" => \A p \in Pid : proc[p] \in Live => p \in killed

\* A jail starts to contain itself, and runs the command, only after the
\* parent finished every part of its set up (network interface, cgroup limits,
\* uid and gid maps), whatever fails on either side of the handshake.
JailOnlyAfterSetup == \A p \in Pid : proc[p] \in Released => Parts \subseteq setup[p]

\* Where subprocRunChild holds parent_fd for the jail it sets up; "hung" is the
\* while(1) of user.c.
ServesCur == pc \in {"add", "net", "cgroup", "user", "write", "hung"}

\* The handshake is safe and forgets nobody: besides JailOnlyAfterSetup, a
\* jail before its read of the done byte either has its answer, the byte or the
\* end of file, or is the one the supervisor works on, or the kernel is about
\* to close the dead supervisor's descriptors.
HandshakeSound ==
  /\ JailOnlyAfterSetup
  /\ \A p \in Pid : proc[p] \in Held =>
       pipe[p] \in {"byte", "eof"} \/ (ServesCur /\ p = cur) \/ pc = "dead"

\* Of the jails whose client was still there when subprocAdd asked for its
\* address, at most max_conns_per_ip have the same one: netLimitConns asks for the
\* address before, and other entries may hold uninitialised ones.  A jail whose
\* client has reset the connection by then is stored without an address, and no
\* limit counts it.
ConnsPerIpBounded ==
  MaxConnsPerIp # 0 =>
    \A a \in Addr : Cardinality({e \in pids : e.addr = a}) <= MaxConnsPerIp

\* A cgroup directory belongs to a jail in the list: subprocReap removes it with
\* the jail, so a pid that comes back starts with a fresh one.  It takes a pid
\* namespace, otherwise the jail's descendants keep the directory busy.
CgroupDirsTracked ==
  NewPidNs /\ Alive => \A p \in cgroups : Listed(p)

\* Whenever the supervisor is back in its loop it holds the listening socket
\* and one /proc/pid/syscall descriptor per jail, and nothing of the
\* connections and handshakes that came before, failed ones included.
NoFdLeak ==
  pc \in {"top", "enter", "blocked", "reap", "sweep", "kill", "check"} =>
    /\ fds = IF mode = "LISTEN_TCP" THEN {"listenfd"} ELSE {}
    /\ sysfds = {e.pid : e \in {f \in pids : f.sysfd}}

\* In the standalone modes stdin need not be a socket and netLimitConns compares
\* an uninitialised address; it never rejects the run, since the list is empty
\* whenever subprocRunChild is called.
StandaloneNeverRejects ==
  pc = "limit" /\ mode # "LISTEN_TCP" => \A b \in PeerByte : netLimitConns(b)

\* What ONCE mode returns to the shell tells the jail's fate apart: 0 only for
\* a command that exited with 0, 100 + n for one killed by signal n, something
\* between 1 and 99 for every other exit status.
ExitCodeFaithful ==
  exit.why = "return" /\ last # NoStatus =>
    /\ exit.code = 0 <=> last = Exited(0)
    /\ exit.code >= 100 <=> last.how = "signaled"
    /\ last.how = "signaled" => exit.code = 100 + last.n

\* The supervisor implements JailLifecycle: whatever fails, a jail passes the
\* handshake only with its whole set up done and through a living supervisor.
PhaseOf(p) ==
  CASE proc[p] \in {"free", "foreign"} -> "none"
    [] proc[p] \in Held /\ pipe[p] # "byte" -> "held"
    [] proc[p] \in Held /\ pipe[p] = "byte" -> "admitted"
    [] proc[p] \in Released -> "confined"
    [] OTHER -> "over"

Lifecycle == INSTANCE JailLifecycle WITH
  phase <- [p \in Pid |-> PhaseOf(p)],
  ready <- {p \in Pid : Parts \subseteq setup[p] /\ proc[p] \in Child},
  up    <- Alive

LifecycleSpec == Lifecycle!Spec

\* netLimitConns turns a client away only if its own address already has
\* max_conns_per_ip jails, as the documentation of the option has it.
RejectsOnlyAtLimit ==
  pc = "limit" /\ peer # NoAddr /\ ~netLimitConns(FirstByte[peer]) =>
    Cardinality({e \in pids : e.addr = peer}) >= MaxConnsPerIp

\* The death of a jail during the handshake does not kill the supervisor: the
\* failing write is an error subprocInitParent reports and returns from.
SurvivesJailDeath == exit.why # "sigpipe"

-----------------------------------------------------------------------------
(* Liveness, under Fairness.                                               *)

\* A jail that reaches the time limit is ended and reaped, stopped or not, and
\* whatever moment the supervisor chose to go to sleep.
TimeLimitEnforced ==
  \A p \in Pid : (TLimit # 0 /\ Listed(p)) ~> (~Listed(p) \/ pc = "hung")

\* A jail that ended is reaped although its SIGCHLD may arrive between
\* subprocReap and accept() or pause() and wake nobody up.
ZombiesReaped == \A p \in Pid : proc[p] = "zombie" ~> proc[p] # "zombie"

\* The supervisor comes back to accept() for the next client whatever happened
\* while it set up a jail, unless it ends.
KeepsServing == []<>(pc \in {"blocked", "gone"})

\* A fatal signal ends the supervisor, also when it arrives just before
\* accept() or pause() goes to sleep.
FatalSignalStops == nsjailSigFatal ~> pc = "gone"

\* After a shutdown on a fatal signal no jail is left.
ShutdownEndsJails == exit.why = "fatal" ~> \A p \in Pid : proc[p] \notin Live

\* Stopped, on a kernel where SIGKILL alone does not end a stopped process.
Resists(p) == StoppedResistsKill /\ proc[p] = "stopped"

\* A shutdown on a fatal signal ends every jail that is not stopped, at whatever
\* stage, those included that have not yet set a parent death signal.
ShutdownEndsRunningJails ==
  exit.why = "fatal" ~> \A p \in Pid : proc[p] \notin Live \/ Resists(p)

\* A jail that had set its parent death signal does not survive the death of
\* the supervisor, however that came about, unless it is stopped.
ArmedJailDiesWithSupervisor ==
  \A p \in Pid :
    (pc = "dead" /\ proc[p] \in PdeathArmed) ~> (proc[p] \notin Live \/ Resists(p))

\* A jail that will never be released does not wait for ever: it sees the end
\* of file on its socketpair, also when the supervisor died in the handshake.
HeldJailLeaves ==
  \A p \in Pid : proc[p] \in Held ~> (proc[p] \notin Held \/ pc = "hung")

\* ONCE mode ends when its jail does.
OnceReturns == (mode = "ONCE" /\ last # NoStatus) ~> pc = "gone"

====
