----------------------------- MODULE Supervisor -----------------------------
(***************************************************************************)
(* The nsjail supervisor: the process that runs nsjailListenMode or        *)
(* nsjailStandaloneMode, the jails it clones, and the part of the kernel   *)
(* both talk to (process table, pipes, signals, the one second timer).     *)
(*                                                                         *)
(* The supervisor is a single thread; pc names the call it is about to     *)
(* make.  The jails, the kernel and the clients interleave with it at      *)
(* every value of pc.                                                      *)
(***************************************************************************)
EXTENDS Integers, FiniteSets

CONSTANTS
  Pid,             \* the pids the kernel hands out, and reuses
  NoPid,           \* not a pid
  Addr,            \* client IPv6 addresses
  NoAddr,          \* getpeername() has no answer: not a socket, or peer gone
  Byte,            \* values of the first byte of an address
  FirstByte,       \* FirstByte[a] is the first byte of address a
  Modes,           \* the modes nsjail may be started in
  TLimit,          \* nsjconf->tlimit, in seconds; 0 is no limit
  MaxConnsPerIp,   \* nsjconf->max_conns_per_ip; 0 is no limit
  Parts,           \* what the parent sets up for a jail: SUBSET AllParts
  GidMapping,      \* nsjconf->gid_mappings is not empty
  NewPidNs,        \* nsjconf->clone_newpid
  ExitCode,        \* WEXITSTATUS values a jail may end with
  TermSig,         \* WTERMSIG values a jail may end with
  FdLimit,         \* RLIMIT_NOFILE of the supervisor
  StoppedResistsKill, \* the kernel behaviour subproc.c describes: SIGKILL
                      \* does not end a stopped jail
  Faults           \* what the environment may do: SUBSET AllFaults

AllParts == {"net", "cgroup", "user"}

AllFaults == {"listen", "accept", "reset", "socketpair", "clone", "net",
              "cgroup", "user", "child", "oom", "stop", "fatal", "usr1",
              "crash", "foreign"}

SIGKILL == 9

ASSUME ModeAssumption == Modes \subseteq {"LISTEN_TCP", "ONCE", "RERUN"}

ASSUME LimitAssumption ==
  /\ TLimit \in Nat /\ MaxConnsPerIp \in Nat /\ FdLimit \in Nat
  /\ {GidMapping, NewPidNs, StoppedResistsKill} \subseteq BOOLEAN

ASSUME DataAssumption ==
  /\ NoAddr \notin Addr /\ FirstByte \in [Addr -> Byte] /\ Byte # {}
  /\ Parts \subseteq AllParts /\ Faults \subseteq AllFaults
  /\ ExitCode \subseteq 0..255 /\ 1 \in ExitCode
  /\ TermSig \subseteq 1..64 /\ SIGKILL \in TermSig

ASSUME PidAssumption == IsFiniteSet(Pid) /\ NoPid \notin Pid

VARIABLES
  mode,           \* nsjconf->mode
  pc,             \* where the supervisor is
  cur,            \* pid of the jail subprocRunChild sets up or the time limit
                  \* loop is at
  peer,           \* what getpeername() says of the connection being served
  pids,           \* nsjconf->pids, the list of jails, as a set of entries
  fds,            \* sockets the supervisor holds: SUBSET Socket
  sysfds,         \* pids p whose /proc/p/syscall the supervisor holds open
  nsjailSigFatal, \* a fatal signal was caught
  nsjailShowProc, \* SIGUSR1 was caught
  rv,             \* return value of the subprocReap in progress
  expired,        \* jails its time limit loop still has to signal
  exit,           \* how the supervisor ended
  proc,           \* the process table: what each pid is
  status,         \* wait status of the zombies
  pipe,           \* the socketpair of each jail, seen from the jail
  killed,         \* pids with a SIGKILL pending
  setup,          \* what the parent has set up for each jail
  cgroups,        \* pids p whose directory NSJAIL.p exists
  last            \* history: wait status of the jail ONCE mode ran

supVars  == <<mode, pc, cur, peer, pids, fds, sysfds, nsjailSigFatal, nsjailShowProc, rv, expired,
              exit, last>>
jailVars == <<proc, status, pipe, killed, setup, cgroups>>
vars     == <<supVars, jailVars>>

-----------------------------------------------------------------------------
(* The process table.                                                      *)

\* A jail before and after its handshake; "armed": PDEATHSIG is set; "run":
\* the command has been executed.
Held     == {"new", "wait"}
Released == {"contain", "armed", "run", "stopped"}
Live     == Held \cup Released
Child    == Live \cup {"zombie"}

Exited(n)   == [how |-> "exited", n |-> n]
Signaled(n) == [how |-> "signaled", n |-> n]
NoStatus    == [how |-> "none", n |-> 0]
WaitStatus  == {NoStatus} \cup {Exited(n) : n \in ExitCode} \cup {Signaled(n) : n \in TermSig}

\* An element of nsjconf->pids.  Of p->start only its distance to time(NULL)
\* matters, and of that only whether it reaches TLimit: age is capped there.
\* byte is the first byte of p->remote_addr; addr is the address netConnToText
\* stored, NoAddr when it returned early and left remote_addr uninitialised.
Entry == [pid : Pid, age : 0..TLimit, byte : Byte, addr : Addr \cup {NoAddr}, sysfd : BOOLEAN]

Socket      == {"listenfd", "connfd", "child_fd", "parent_fd"}
FreeFds     == FdLimit - Cardinality(fds) - Cardinality(sysfds)
Listed(p)   == \E e \in pids : e.pid = p
Alive       == pc \notin {"dead", "gone"}
Faulty(f)   == f \in Faults
CurDead     == proc[cur] = "zombie"

Init ==
  /\ mode \in Modes
  /\ pc = IF mode = "LISTEN_TCP" THEN "listen" ELSE "limit"
  /\ cur = NoPid /\ peer = NoAddr
  /\ pids = {} /\ fds = {} /\ sysfds = {}
  /\ nsjailSigFatal = FALSE /\ nsjailShowProc = FALSE
  /\ rv = 0 /\ expired = {} /\ exit = [why |-> "none", code |-> 0] /\ last = NoStatus
  /\ proc = [p \in Pid |-> "free"]
  /\ status = [p \in Pid |-> NoStatus]
  /\ pipe = [p \in Pid |-> "none"]
  /\ setup = [p \in Pid |-> {}]
  /\ killed = {} /\ cgroups = {}

-----------------------------------------------------------------------------
(* Signals.  The handlers are installed without SA_RESTART: a signal that  *)
(* arrives while the supervisor is blocked in accept() or pause() makes    *)
(* the call return, and both loops then call subprocReap.  One that        *)
(* arrives just before the call blocks only sets its flag.                 *)

Interrupt == pc' = IF pc = "blocked" THEN "reap" ELSE pc

\* Mutant: the interval timer is never armed.
NoTimer == FALSE

\* nsjailSetTimer: every mode but EXECVE has a SIGALRM each second.
nsjailSetTimer == mode \in {"LISTEN_TCP", "ONCE", "RERUN"}

\* A second passes.
Tick ==
  /\ Alive
  /\ pids' = {[e EXCEPT !.age = IF e.age < TLimit THEN e.age + 1 ELSE TLimit] : e \in pids}
  /\ IF nsjailSetTimer THEN Interrupt ELSE UNCHANGED pc
  /\ UNCHANGED <<cur, peer, fds, sysfds, nsjailSigFatal, nsjailShowProc, rv, expired, exit, last,
                 mode, jailVars>>

\* nsjailSig for SIGINT and SIGTERM.
FatalSignal ==
  /\ Faulty("fatal") /\ Alive
  /\ nsjailSigFatal' = TRUE
  /\ Interrupt
  /\ UNCHANGED <<cur, peer, pids, fds, sysfds, nsjailShowProc, rv, expired, exit, last, mode,
                 jailVars>>

\* nsjailSig for SIGUSR1.
ShowSignal ==
  /\ Faulty("usr1") /\ Alive
  /\ nsjailShowProc' = TRUE
  /\ Interrupt
  /\ UNCHANGED <<cur, peer, pids, fds, sysfds, nsjailSigFatal, rv, expired, exit, last, mode,
                 jailVars>>

\* kill(p, SIGKILL) for every p in S.  A zombie ignores it, a pid that is not
\* in use is an error the code ignores; a foreign process would be hit.
Kill(S) == killed' = killed \cup {p \in S : proc[p] \in Live \cup {"foreign"}}

\* The supervisor ends: by returning from main, exit() or a deadly signal.
End(why, code) == pc' = "dead" /\ exit' = [why |-> why, code |-> code]

-----------------------------------------------------------------------------
(* subprocRunChild and what it calls in the parent.                        *)

\* Return from subprocRunChild: listen mode closes the connection, and both
\* loops go on with subprocReap.
Return(sockets) ==
  /\ pc' = "reap" /\ cur' = NoPid
  /\ fds' = sockets \ {"connfd"}
  /\ peer' = NoAddr

\* The first byte netConnToText reports: of uninitialised memory if there is
\* no peer to ask about.
PeerByte == IF peer = NoAddr THEN Byte ELSE {FirstByte[peer]}

\* The memcmp in netLimitConns has size sizeof(*s6_addr), one byte.
SameIp(e, b) == e.byte = b

\* Mutant: the limit is off by one.
LimitOffByOne(b) ==
  MaxConnsPerIp = 0 \/ Cardinality({e \in pids : SameIp(e, b)}) <= MaxConnsPerIp

netLimitConns(b) ==
  \/ MaxConnsPerIp = 0
  \/ Cardinality({e \in pids : SameIp(e, b)}) < MaxConnsPerIp

LimitConns ==
  /\ pc = "limit"
  /\ \E b \in PeerByte :
       \/ netLimitConns(b) /\ pc' = "socketpair" /\ UNCHANGED <<cur, fds, peer>>
       \/ ~netLimitConns(b) /\ Return(fds)
  /\ UNCHANGED <<pids, sysfds, nsjailSigFatal, nsjailShowProc, rv, expired, exit, last, mode,
                 jailVars>>

Socketpair ==
  /\ pc = "socketpair"
  /\ \/ /\ FreeFds >= 2
        /\ fds' = fds \cup {"child_fd", "parent_fd"} /\ pc' = "clone"
        /\ UNCHANGED <<cur, peer>>
     \/ (FreeFds < 2 \/ Faulty("socketpair")) /\ Return(fds)
  /\ UNCHANGED <<pids, sysfds, nsjailSigFatal, nsjailShowProc, rv, expired, exit, last, mode,
                 jailVars>>

\* Mutant: parent_fd stays open when clone() fails.
CloneFailureLeaks ==
  /\ pc = "clone"
  /\ Faulty("clone") \/ \A p \in Pid : proc[p] # "free"
  /\ Return(fds \ {"child_fd"})
  /\ UNCHANGED <<pids, sysfds, nsjailSigFatal, nsjailShowProc, rv, expired, exit, last, mode,
                 jailVars>>

\* Mutant: the result -1 of clone() is not checked.
CloneUnchecked ==
  /\ pc = "clone" /\ Faulty("clone")
  /\ fds' = fds \ {"child_fd"} /\ pc' = "add"
  /\ UNCHANGED <<cur, peer, pids, sysfds, nsjailSigFatal, nsjailShowProc, rv, expired, exit, last,
                 mode, jailVars>>

CloneFails ==
  /\ pc = "clone"
  /\ Faulty("clone") \/ \A p \in Pid : proc[p] # "free"
  /\ Return(fds \ {"child_fd", "parent_fd"})
  /\ UNCHANGED <<pids, sysfds, nsjailSigFatal, nsjailShowProc, rv, expired, exit, last, mode,
                 jailVars>>

Clone(p) ==
  /\ pc = "clone" /\ proc[p] = "free"
  /\ proc' = [proc EXCEPT ![p] = "new"]
  /\ pipe' = [pipe EXCEPT ![p] = "open"]
  /\ cur' = p /\ pc' = "add"
  /\ fds' = fds \ {"child_fd"}
  /\ UNCHANGED <<peer, pids, sysfds, nsjailSigFatal, nsjailShowProc, rv, expired, exit, last, mode,
                 status, killed, setup, cgroups>>

\* subprocAdd.  open("/proc/<pid>/syscall") may fail: no descriptor is left, or
\* the kernel refuses.  The entry is inserted all the same.
subprocAdd ==
  /\ pc = "add"
  /\ \E b \in PeerByte, ok \in BOOLEAN :
       /\ ok => FreeFds >= 1
       /\ pids' = pids \cup
            {[pid |-> cur, age |-> 0, byte |-> b, addr |-> peer, sysfd |-> ok]}
       /\ sysfds' = IF ok THEN sysfds \cup {cur} ELSE sysfds
  /\ pc' = "net"
  /\ UNCHANGED <<cur, peer, fds, nsjailSigFatal, nsjailShowProc, rv, expired, exit, last, mode,
                 jailVars>>

\* subprocInitParent goes on with its next call, or returns false: then
\* subprocRunChild closes parent_fd without having written the done byte.
Prepared(part, next) ==
  /\ pc' = next
  /\ setup' = [setup EXCEPT ![cur] = @ \cup ({part} \cap Parts)]
  /\ UNCHANGED <<cur, fds, peer, pipe, exit>>

InitParentFails ==
  /\ pipe' = [pipe EXCEPT ![cur] = "eof"]
  /\ Return(fds \ {"parent_fd"})
  /\ UNCHANGED <<setup, exit>>

\* The set up of a part can fail by itself, or because the jail is gone.
PartFails(part) == part \in Parts /\ (Faulty(part) \/ CurDead)

netInitNsFromParent ==
  /\ pc = "net"
  /\ \/ Prepared("net", "cgroup")
     \/ PartFails("net") /\ InitParentFails
  /\ UNCHANGED <<pids, sysfds, nsjailSigFatal, nsjailShowProc, rv, expired, last, mode, proc,
                 status, killed, cgroups>>

\* A failure makes the supervisor exit(1); the directory may be there by then.
cgroupInitNsFromParent ==
  /\ pc = "cgroup"
  /\ \/ /\ Prepared("cgroup", "user")
        /\ cgroups' = IF "cgroup" \in Parts THEN cgroups \cup {cur} ELSE cgroups
     \/ /\ PartFails("cgroup")
        /\ End("exit", 1)
        /\ cgroups' \in {cgroups, cgroups \cup {cur}}
        /\ UNCHANGED <<cur, fds, peer, pipe, setup>>
  /\ UNCHANGED <<pids, sysfds, nsjailSigFatal, nsjailShowProc, rv, expired, last, mode, proc,
                 status, killed>>

\* Mutant: any failure of the maps ends in the while(1).
UserInitHangs ==
  /\ pc = "user"
  /\ \/ Prepared("user", "write")
     \/ PartFails("user") /\ pc' = "hung" /\ UNCHANGED <<cur, fds, peer, pipe, setup, exit>>
  /\ UNCHANGED <<pids, sysfds, nsjailSigFatal, nsjailShowProc, rv, expired, last, mode, proc,
                 status, killed, cgroups>>

\* With gid mappings a failing newgidmap ends in the while(1) of user.c.
userInitNsFromParent ==
  /\ pc = "user"
  /\ \/ Prepared("user", "write")
     \/ PartFails("user") /\ InitParentFails
     \/ /\ PartFails("user") /\ GidMapping
        /\ pc' = "hung"
        /\ UNCHANGED <<cur, fds, peer, pipe, setup, exit>>
  /\ UNCHANGED <<pids, sysfds, nsjailSigFatal, nsjailShowProc, rv, expired, last, mode, proc,
                 status, killed, cgroups>>

\* The done byte is written and parent_fd closed.  If the jail is dead its end
\* of the socketpair is closed and write() raises SIGPIPE, which nobody handles.
WriteDone ==
  /\ pc = "write"
  /\ \/ /\ ~CurDead
        /\ pipe' = [pipe EXCEPT ![cur] = "byte"]
        /\ Return(fds \ {"parent_fd"})
        /\ UNCHANGED exit
     \/ CurDead /\ End("sigpipe", 0) /\ UNCHANGED <<cur, fds, peer, pipe>>
  /\ UNCHANGED <<pids, sysfds, nsjailSigFatal, nsjailShowProc, rv, expired, last, mode, proc,
                 status, killed, setup, cgroups>>

-----------------------------------------------------------------------------
(* subprocReap.                                                            *)

\* Mutant: the multiples of 100 are not told apart from 0.
ReapStatusModulo(st) == IF st.how = "signaled" THEN 100 + st.n ELSE st.n % 100

\* The value an ended jail gives subprocReap's rv.
ReapStatus(st) ==
  IF st.how = "signaled" THEN 100 + st.n
  ELSE IF st.n % 100 = 0 /\ st.n # 0 THEN 1
  ELSE st.n % 100

\* Mutant: only a jail that exited is removed, not one that was killed.
RemoveExitedOnly(p) ==
  IF status[p].how = "exited"
  THEN \E e \in pids : e.pid = p /\ pids' = pids \ {e} /\ sysfds' = sysfds \ {p}
  ELSE UNCHANGED <<pids, sysfds>>

\* The first entry for pid p goes and its descriptor is closed; a pid that is
\* not in the list is only logged.
subprocRemove(p) ==
  IF Listed(p)
  THEN \E e \in pids :
         /\ e.pid = p
         /\ pids' = pids \ {e}
         /\ sysfds' = IF e.sysfd THEN sysfds \ {p} ELSE sysfds
  ELSE UNCHANGED <<pids, sysfds>>

\* Mutant: the directory is not removed.
CgroupKept(p) == UNCHANGED cgroups

\* rmdir of NSJAIL.p fails, and is only logged, while processes are left in
\* it: without a pid namespace the jail's descendants outlive it.
cgroupFinishFromParent(p) ==
  \/ cgroups' = IF "cgroup" \in Parts THEN cgroups \ {p} ELSE cgroups
  \/ ~NewPidNs /\ UNCHANGED cgroups

\* The kernel forgets a zombie.
Forget(p) ==
  /\ proc' = [proc EXCEPT ![p] = "free"]
  /\ status' = [status EXCEPT ![p] = NoStatus]
  /\ pipe' = [pipe EXCEPT ![p] = "none"]
  /\ setup' = [setup EXCEPT ![p] = {}]

\* Mutant: the pid is signalled once more after wait4().
ReapThenKill(p) ==
  /\ pc = "reap" /\ proc[p] = "zombie"
  /\ rv' = ReapStatus(status[p])
  /\ killed' = killed \cup {p}
  /\ Forget(p) /\ cgroupFinishFromParent(p) /\ subprocRemove(p)
  /\ UNCHANGED <<pc, cur, peer, fds, nsjailSigFatal, nsjailShowProc, expired, exit, last, mode>>

\* One turn of the waitid/wait4 loop.
ReapOne(p) ==
  /\ pc = "reap" /\ proc[p] = "zombie"
  /\ rv' = ReapStatus(status[p])
  /\ last' = IF mode = "ONCE" THEN status[p] ELSE last
  /\ Forget(p)
  /\ cgroupFinishFromParent(p)
  /\ subprocRemove(p)
  /\ UNCHANGED <<pc, cur, peer, fds, nsjailSigFatal, nsjailShowProc, expired, exit, mode, killed>>

\* The jails that have reached the time limit.
Expired == {e.pid : e \in {f \in pids : TLimit # 0 /\ f.age >= TLimit}}

\* No child is left to wait for; the time limit loop reads the clock once.
ReapDone ==
  /\ pc = "reap" /\ \A p \in Pid : proc[p] # "zombie"
  /\ expired' = Expired
  /\ pc' = "sweep"
  /\ UNCHANGED <<cur, peer, pids, fds, sysfds, nsjailSigFatal, nsjailShowProc, rv, exit, last, mode,
                 jailVars>>

\* Mutant: no SIGCONT before the SIGKILL.
NoSigCont(p) == UNCHANGED proc

\* kill(p, SIGCONT).
SigCont(p) == proc' = [proc EXCEPT ![p] = IF @ = "stopped" THEN "run" ELSE @]

\* The loop sends each of them SIGCONT, and SIGKILL in a call of its own: the
\* jail may have stopped again by then.
SweepCont(p) ==
  /\ pc = "sweep" /\ p \in expired
  /\ SigCont(p)
  /\ cur' = p /\ pc' = "kill"
  /\ UNCHANGED <<peer, pids, fds, sysfds, nsjailSigFatal, nsjailShowProc, rv, expired, exit, last,
                 mode, status, pipe, killed, setup, cgroups>>

SweepKill ==
  /\ pc = "kill"
  /\ Kill({cur})
  /\ expired' = expired \ {cur}
  /\ cur' = NoPid /\ pc' = "sweep"
  /\ UNCHANGED <<peer, pids, fds, sysfds, nsjailSigFatal, nsjailShowProc, rv, exit, last, mode,
                 proc, status, pipe, setup, cgroups>>

\* subprocReap returns.
SweepDone ==
  /\ pc = "sweep" /\ expired = {}
  /\ pc' = IF mode = "LISTEN_TCP" THEN "top" ELSE "check"
  /\ rv' = IF mode = "LISTEN_TCP" THEN 0 ELSE rv
  /\ UNCHANGED <<cur, peer, pids, fds, sysfds, nsjailSigFatal, nsjailShowProc, expired, exit, last,
                 mode, jailVars>>

Sweep == (\E p \in Pid : SweepCont(p)) \/ SweepKill \/ SweepDone

-----------------------------------------------------------------------------
(* nsjailListenMode and nsjailStandaloneMode.                              *)

\* netGetRecvSocket; on failure nsjailListenMode returns and main returns 0.
netGetRecvSocket ==
  /\ pc = "listen"
  /\ \/ pc' = "top" /\ fds' = {"listenfd"} /\ UNCHANGED exit
     \/ Faulty("listen") /\ End("return", 0) /\ UNCHANGED fds
  /\ UNCHANGED <<cur, peer, pids, sysfds, nsjailSigFatal, nsjailShowProc, rv, expired, last, mode,
                 jailVars>>

\* Mutant: the shutdown leaves the jails to their parent death signal.
KillNobody == UNCHANGED killed

subprocKillAll == Kill({e.pid : e \in pids})

\* The head of the listen loop.
ListenLoop ==
  /\ pc = "top"
  /\ \/ /\ nsjailSigFatal
        /\ subprocKillAll
        /\ End("fatal", 0)
        /\ fds' = fds \ {"listenfd"}
        /\ UNCHANGED nsjailShowProc
     \/ /\ ~nsjailSigFatal
        /\ nsjailShowProc' = FALSE
        /\ pc' = "enter"
        /\ UNCHANGED <<fds, exit, killed>>
  /\ UNCHANGED <<cur, peer, pids, sysfds, nsjailSigFatal, rv, expired, last, mode, proc, status,
                 pipe, setup, cgroups>>

\* The supervisor enters accept() or pause() and sleeps.
Block ==
  /\ pc = "enter" /\ pc' = "blocked"
  /\ UNCHANGED <<cur, peer, pids, fds, sysfds, nsjailSigFatal, nsjailShowProc, rv, expired, exit,
                 last, mode, jailVars>>

netAcceptConn ==
  /\ pc = "blocked" /\ mode = "LISTEN_TCP"
  /\ \/ /\ FreeFds >= 1
        /\ peer' \in Addr
        /\ fds' = fds \cup {"connfd"}
        /\ pc' = "limit"
     \/ /\ FreeFds < 1 \/ Faulty("accept")
        /\ pc' = "reap" /\ UNCHANGED <<peer, fds>>
  /\ UNCHANGED <<cur, pids, sysfds, nsjailSigFatal, nsjailShowProc, rv, expired, exit, last, mode,
                 jailVars>>

\* Mutant: the head of the list is not counted.
CountWithoutHead == IF pids = {} THEN 0 ELSE Cardinality(pids) - 1

subprocCount == Cardinality(pids)

\* The rest of the standalone loop's body, once subprocReap has returned.
StandaloneLoop ==
  /\ pc = "check"
  /\ rv' = 0
  /\ \/ /\ subprocCount = 0 /\ mode = "ONCE"
        /\ End("return", rv)
        /\ UNCHANGED <<nsjailShowProc, killed>>
     \/ /\ subprocCount = 0 /\ mode # "ONCE"
        /\ pc' = "limit"
        /\ UNCHANGED <<exit, nsjailShowProc, killed>>
     \/ /\ subprocCount # 0 /\ nsjailSigFatal
        /\ nsjailShowProc' = FALSE
        /\ subprocKillAll
        /\ End("fatal", 255)
     \/ /\ subprocCount # 0 /\ ~nsjailSigFatal
        /\ nsjailShowProc' = FALSE
        /\ pc' = "enter"
        /\ UNCHANGED <<exit, killed>>
  /\ UNCHANGED <<cur, peer, pids, fds, sysfds, nsjailSigFatal, expired, last, mode, proc, status,
                 pipe, setup, cgroups>>

\* The supervisor is killed from outside (SIGKILL, the OOM killer).
Crash ==
  /\ Faulty("crash") /\ Alive
  /\ End("crash", 0)
  /\ UNCHANGED <<cur, peer, pids, fds, sysfds, nsjailSigFatal, nsjailShowProc, rv, expired, last,
                 mode, jailVars>>

\* The kernel takes the dead supervisor apart: its descriptors are closed and
\* the jails that asked for it (PR_SET_PDEATHSIG) get a SIGKILL.
PdeathArmed == {"armed", "run", "stopped"}

\* Mutant: no jail asked for a parent death signal.
GoneUnnoticed ==
  /\ pc = "dead" /\ pc' = "gone"
  /\ pipe' = [p \in Pid |-> IF pipe[p] = "open" THEN "eof" ELSE pipe[p]]
  /\ cur' = NoPid /\ peer' = NoAddr /\ rv' = 0 /\ expired' = {}
  /\ pids' = {} /\ fds' = {} /\ sysfds' = {}
  /\ UNCHANGED <<nsjailSigFatal, nsjailShowProc, exit, last, mode, proc, status, killed, setup,
                 cgroups>>

Gone ==
  /\ pc = "dead" /\ pc' = "gone"
  /\ Kill({p \in Pid : proc[p] \in PdeathArmed})
  /\ pipe' = [p \in Pid |-> IF pipe[p] = "open" THEN "eof" ELSE pipe[p]]
  /\ cur' = NoPid /\ peer' = NoAddr /\ rv' = 0 /\ expired' = {}
  /\ pids' = {} /\ fds' = {} /\ sysfds' = {}
  /\ UNCHANGED <<nsjailSigFatal, nsjailShowProc, exit, last, mode, proc, status, setup, cgroups>>

-----------------------------------------------------------------------------
(* The jails (subprocNewProc; Contain.tla has what containContain does)    *)
(* and the rest of the world.                                              *)

\* A jail ends: it becomes a zombie and SIGCHLD is raised.
Ends(p, st) ==
  /\ proc' = [proc EXCEPT ![p] = "zombie"]
  /\ status' = [status EXCEPT ![p] = st]
  /\ killed' = killed \ {p}
  /\ Interrupt

\* A jail goes on to its next stage.
Moves(p, stage) ==
  /\ proc' = [proc EXCEPT ![p] = stage]
  /\ UNCHANGED <<pc, status, killed>>

ChildFrame == UNCHANGED <<cur, peer, pids, fds, sysfds, nsjailSigFatal, nsjailShowProc, rv, expired,
                          exit, last, mode, pipe, setup, cgroups>>

\* containSetupFD.
SetupFD(p) ==
  /\ proc[p] = "new"
  /\ \/ Moves(p, "wait")
     \/ Faulty("child") /\ Ends(p, Exited(1))
  /\ ChildFrame

\* Mutant: the jail does not look at the result of the read.
ReadUnchecked(p) ==
  /\ proc[p] = "wait" /\ pipe[p] \in {"byte", "eof"}
  /\ Moves(p, "contain")
  /\ ChildFrame

\* Mutant: the jail keeps its own copy of parent_fd open, so that the read never
\* sees the end of file.
ReadNoEof(p) ==
  /\ proc[p] = "wait" /\ pipe[p] = "byte"
  /\ Moves(p, "contain")
  /\ ChildFrame

\* The read of the done byte: it blocks while parent_fd is open and empty, and
\* end of file makes the jail exit.
ReadDone(p) ==
  /\ proc[p] = "wait"
  /\ \/ pipe[p] = "byte" /\ Moves(p, "contain")
     \/ pipe[p] = "eof" /\ Ends(p, Exited(1))
  /\ ChildFrame

\* containContain, which sets PDEATHSIG near its end.
containContain(p) ==
  /\ proc[p] = "contain"
  /\ \/ Moves(p, "armed")
     \/ Faulty("child") /\ Ends(p, Exited(1))
  /\ ChildFrame

\* The environment, sandboxApply and execv.
Execv(p) ==
  /\ proc[p] = "armed"
  /\ \/ Moves(p, "run")
     \/ Faulty("child") /\ Ends(p, Exited(1))
  /\ ChildFrame

\* The command exits or is killed by a signal of its own.
JailEnds(p) ==
  /\ proc[p] = "run"
  /\ \E st \in WaitStatus \ {NoStatus} : Ends(p, st)
  /\ ChildFrame

\* A process with a SIGKILL pending does not get to run, and to stop, again.
JailStops(p) ==
  /\ Faulty("stop") /\ proc[p] = "run" /\ p \notin killed
  /\ Moves(p, "stopped") /\ ChildFrame

\* Killed from outside, at any stage.
OomKill(p) == Faulty("oom") /\ proc[p] \in Live /\ Ends(p, Signaled(SIGKILL)) /\ ChildFrame

\* A pending SIGKILL takes effect.
KillTakesEffect(p) ==
  /\ p \in killed
  /\ proc[p] = "stopped" => ~StoppedResistsKill
  /\ proc[p] \in Live /\ Ends(p, Signaled(SIGKILL))
  /\ ChildFrame

\* Without a supervisor init reaps the jails.
InitReaps(p) ==
  /\ pc = "gone" /\ proc[p] = "zombie"
  /\ Forget(p)
  /\ UNCHANGED <<supVars, killed, cgroups>>

\* Other processes come and go, with any pid that is free.
Foreign(p) ==
  /\ \/ Faulty("foreign") /\ proc[p] = "free" /\ proc' = [proc EXCEPT ![p] = "foreign"]
     \/ p \notin killed /\ proc[p] = "foreign" /\ proc' = [proc EXCEPT ![p] = "free"]
  /\ UNCHANGED <<supVars, status, pipe, killed, setup, cgroups>>

\* The client resets the connection: getpeername() fails from here on.
PeerResets ==
  /\ Faulty("reset") /\ peer # NoAddr
  /\ peer' = NoAddr
  /\ UNCHANGED <<pc, cur, pids, fds, sysfds, nsjailSigFatal, nsjailShowProc, rv, expired, exit,
                 last, mode, jailVars>>

-----------------------------------------------------------------------------
\* What the supervisor does by itself; netAcceptConn needs a client.
SupervisorStep ==
  \/ netGetRecvSocket \/ ListenLoop \/ Block \/ StandaloneLoop
  \/ LimitConns \/ Socketpair \/ CloneFails \/ (\E p \in Pid : Clone(p)) \/ subprocAdd
  \/ netInitNsFromParent \/ cgroupInitNsFromParent \/ userInitNsFromParent \/ WriteDone
  \/ (\E p \in Pid : ReapOne(p)) \/ ReapDone \/ Sweep \/ Gone

\* What a jail does on its way to execv.
JailStep(p) == SetupFD(p) \/ ReadDone(p) \/ containContain(p) \/ Execv(p)

Environment ==
  \/ Tick \/ FatalSignal \/ ShowSignal \/ Crash \/ PeerResets \/ netAcceptConn
  \/ \E p \in Pid : \/ JailEnds(p) \/ JailStops(p) \/ OomKill(p) \/ KillTakesEffect(p)
                    \/ InitReaps(p) \/ Foreign(p)

Next == SupervisorStep \/ (\E p \in Pid : JailStep(p)) \/ Environment

Spec == Init /\ [][Next]_vars

\* The scheduler runs the supervisor and the jails, the timer ticks, SIGKILL is
\* delivered and init reaps.  Nothing makes a client connect or a command end.
Fairness ==
  /\ WF_vars(SupervisorStep) /\ WF_vars(Tick)
  /\ \A p \in Pid : /\ WF_vars(JailStep(p))
                    /\ WF_vars(KillTakesEffect(p))
                    /\ WF_vars(InitReaps(p))

FairSpec == Spec /\ Fairness

=============================================================================
