--------------------------- MODULE ResourceProofs ---------------------------
(***************************************************************************)
(* Theorems about what the supervisor holds on behalf of its jails: cgroup *)
(* directories, descriptors, and its share of the connection limit.        *)
(***************************************************************************)
EXTENDS SupervisorProofs, FiniteSetTheorems

\* The second hand of the list: Tick leaves everything but the ages alone.
Older(e) == [e EXCEPT !.age = IF e.age < TLimit THEN e.age + 1 ELSE TLimit]

\* A step of a jail or of a process elsewhere leaves the supervisor alone, but
\* for the SIGCHLD that may wake it up.
WorldQuiet ==
  /\ UNCHANGED <<mode, cur, peer, pids, fds, sysfds, rv, exit, last, cgroups>>
  /\ pc' = pc \/ (pc = "blocked" /\ pc' = "reap")

\* Signals, jails and other processes do not touch what the supervisor holds.
LEMMA WorldIsQuiet ==
  ASSUME \/ FatalSignal \/ ShowSignal
         \/ \E p \in Pid : \/ JailStep(p) \/ JailEnds(p) \/ JailStops(p) \/ OomKill(p)
                           \/ KillTakesEffect(p) \/ InitReaps(p) \/ Foreign(p)
  PROVE  WorldQuiet
<1>1. CASE FatalSignal \/ ShowSignal
  BY <1>1 DEF FatalSignal, ShowSignal, Interrupt, WorldQuiet, jailVars
<1>2. ASSUME NEW p \in Pid, JailStep(p) \/ JailEnds(p) \/ JailStops(p) \/ OomKill(p) \/ KillTakesEffect(p)
      PROVE  WorldQuiet
  <2>1. ChildFrame
    BY <1>2
    DEF JailStep, SetupFD, ReadDone, containContain, Execv, JailEnds, JailStops, OomKill,
        KillTakesEffect
  <2>2. (\E st : Ends(p, st)) \/ (\E stage : Moves(p, stage))
    BY <1>2
    DEF JailStep, SetupFD, ReadDone, containContain, Execv, JailEnds, JailStops, OomKill,
        KillTakesEffect
  <2>. QED
    BY <2>1, <2>2 DEF ChildFrame, Ends, Moves, Interrupt, WorldQuiet
<1>3. ASSUME NEW p \in Pid, InitReaps(p) \/ Foreign(p) PROVE WorldQuiet
  BY <1>3 DEF InitReaps, Foreign, supVars, WorldQuiet
<1>. QED
  BY <1>1, <1>2, <1>3

\* A second ages the entries and changes nothing else of them.
LEMMA TickAges ==
  ASSUME TypeInv, Tick
  PROVE  /\ pids' = {Older(e) : e \in pids}
         /\ \A e \in pids : Older(e).pid = e.pid /\ Older(e).byte = e.byte
                            /\ Older(e).addr = e.addr /\ Older(e).sysfd = e.sysfd
         /\ UNCHANGED <<mode, cur, peer, fds, sysfds, rv, exit, last, proc, cgroups>>
         /\ pc' = pc \/ (pc = "blocked" /\ pc' = "reap")
<1>1. \A e \in pids : Older(e).pid = e.pid /\ Older(e).byte = e.byte
                      /\ Older(e).addr = e.addr /\ Older(e).sysfd = e.sysfd
  BY DEF TypeInv, TypeOK, Entry, Older
<1>2. pids' = {Older(e) : e \in pids}
  BY DEF Tick, Older
<1>. QED
  BY <1>1, <1>2 DEF Tick, Interrupt, jailVars

\* subprocReap takes the one entry of the pid it waited for off the list.
LEMMA ReapRemoves ==
  ASSUME TypeInv, ListInv, NEW p \in Pid, ReapOne(p)
  PROVE  \E e \in pids : /\ e.pid = p /\ pids' = pids \ {e}
                         /\ \A f \in pids' : f.pid # p
                         /\ sysfds' = IF e.sysfd THEN sysfds \ {p} ELSE sysfds
<1>1. Listed(p)
  BY DEF ReapOne, ListInv, ListMatchesChildren, Alive, Child
<1>2. PICK e \in pids : /\ e.pid = p /\ pids' = pids \ {e}
                        /\ sysfds' = IF e.sysfd THEN sysfds \ {p} ELSE sysfds
  BY <1>1 DEF ReapOne, subprocRemove
<1>. QED
  BY <1>2 DEF ListInv, OneEntryPerPid

-----------------------------------------------------------------------------
(* The cgroup directories.                                                 *)

\* CgroupDirsTracked is inductive once it is known that cgroupInitNsFromParent
\* runs for a pid subprocAdd has listed, and that without memory limits there
\* are no directories, so that nobody need remove them.
CgroupInv ==
  /\ CgroupDirsTracked
  /\ "cgroup" \notin Parts => cgroups = {}
  /\ pc \in {"net", "cgroup", "user", "write"} => Listed(cur)

\* A step that leaves the list and the directories alone.
LEMMA CgroupFrame ==
  ASSUME CgroupInv, UNCHANGED <<pids, cgroups>>, Alive' => Alive,
         \/ pc' \notin {"net", "cgroup", "user", "write"}
         \/ pc \in {"net", "cgroup", "user", "write"} /\ cur' = cur
  PROVE  CgroupInv'
BY DEF CgroupInv, CgroupDirsTracked, Listed

\* One step of the system keeps CgroupInv.
LEMMA CgroupStep == TypeInv /\ ListInv /\ CgroupInv /\ [Next]_vars => CgroupInv'
<1>. SUFFICES ASSUME TypeInv, ListInv, CgroupInv, [Next]_vars PROVE CgroupInv'
  OBVIOUS
<1>1. CASE netGetRecvSocket \/ ListenLoop \/ Block \/ StandaloneLoop \/ netAcceptConn \/ LimitConns
           \/ Socketpair \/ CloneFails \/ ReapDone \/ Crash \/ PeerResets
  <2>1. UNCHANGED <<pids, cgroups>>
    BY <1>1
    DEF netGetRecvSocket, ListenLoop, Block, StandaloneLoop, netAcceptConn, LimitConns, Socketpair,
        CloneFails, ReapDone, Crash, PeerResets, jailVars
  <2>2. /\ Alive' => Alive
        /\ (UNCHANGED <<pc, cur>>) \/ pc' \notin {"net", "cgroup", "user", "write"}
    BY <1>1
    DEF netGetRecvSocket, ListenLoop, Block, StandaloneLoop, netAcceptConn, LimitConns, Socketpair,
        CloneFails, ReapDone, Crash, PeerResets, Return, End, Alive
  <2>. QED
    BY <2>1, <2>2, CgroupFrame
<1>a. CASE Sweep
  BY <1>a, SweepEffect, CgroupFrame DEF Alive
<1>2. ASSUME NEW p \in Pid, Clone(p) PROVE CgroupInv'
  BY <1>2, CgroupFrame DEF Clone, Alive
<1>3. CASE subprocAdd
  <2>1. PICK x : x.pid = cur /\ pids' = pids \cup {x}
    BY <1>3, Zenon DEF subprocAdd
  <2>2. pc = "add" /\ pc' = "net" /\ UNCHANGED <<cur, cgroups>>
    BY <1>3 DEF subprocAdd, jailVars
  <2>. QED
    BY <2>1, <2>2 DEF CgroupInv, CgroupDirsTracked, Listed, Alive
<1>4. CASE netInitNsFromParent \/ userInitNsFromParent \/ WriteDone
  BY <1>4, CgroupFrame
  DEF netInitNsFromParent, userInitNsFromParent, WriteDone, Prepared, InitParentFails, Return, End,
      Alive
<1>5. CASE cgroupInitNsFromParent
  <2>1. /\ pc = "cgroup" /\ pc' \in {"user", "dead"} /\ UNCHANGED <<cur, pids>>
        /\ cgroups' = cgroups \/ ("cgroup" \in Parts /\ cgroups' = cgroups \cup {cur})
    BY <1>5 DEF cgroupInitNsFromParent, Prepared, PartFails, End
  <2>. QED
    BY <2>1 DEF CgroupInv, CgroupDirsTracked, Listed, Alive
<1>6. ASSUME NEW p \in Pid, ReapOne(p) PROVE CgroupInv'
  <2>1. PICK e \in pids : e.pid = p /\ pids' = pids \ {e}
    BY <1>6, ReapRemoves
  <2>2. pc' = "reap" /\ pc = "reap"
    BY <1>6 DEF ReapOne
  <2>3. /\ cgroups' \subseteq cgroups
        /\ NewPidNs /\ "cgroup" \in Parts => p \notin cgroups'
    BY <1>6 DEF ReapOne, cgroupFinishFromParent
  <2>. QED
    BY <2>1, <2>2, <2>3 DEF CgroupInv, CgroupDirsTracked, Listed, Alive
<1>7. CASE Gone
  BY <1>7 DEF Gone, CgroupInv, CgroupDirsTracked, Alive
<1>8. CASE Tick
  <2>1. \A p : Listed(p) => Listed(p)'
    BY <1>8, TickAges DEF Listed
  <2>. QED
    BY <1>8, <2>1, TickAges DEF CgroupInv, CgroupDirsTracked, Alive
<1>9. CASE WorldQuiet
  BY <1>9, CgroupFrame DEF WorldQuiet, Alive
<1>10. CASE UNCHANGED vars
  BY <1>10, CgroupFrame DEF vars, supVars, jailVars, Alive
<1>. QED
  BY <1>1, <1>a, <1>2, <1>3, <1>4, <1>5, <1>6, <1>7, <1>8, <1>9, <1>10, WorldIsQuiet
  DEF Next, SupervisorStep, Environment

\* With a pid namespace no cgroup directory of a living supervisor is left
\* behind or belongs to a pid that is not one of its jails, for any number of
\* jails and however their pids are reused.
THEOREM CgroupDirsRemoved == Spec => []CgroupDirsTracked
<1>1. Init => CgroupInv
  BY DEF Init, CgroupInv, CgroupDirsTracked
<1>2. CgroupInv => CgroupDirsTracked
  BY DEF CgroupInv
<1>. QED
  BY <1>1, <1>2, CgroupStep, TypeInvariant, ListInvariant, PTL DEF Spec

-----------------------------------------------------------------------------
(* Descriptors.                                                            *)

\* The sockets subprocRunChild and the loops hold at each point: the listening
\* socket, the connection being served, and the ends of the socketpair that
\* are not closed yet.
ListenFd == IF mode = "LISTEN_TCP" THEN {"listenfd"} ELSE {}

ConnFd == IF mode = "LISTEN_TCP" THEN {"connfd"} ELSE {}

SocketsHeld ==
  /\ pc = "listen" => mode = "LISTEN_TCP"
  /\ pc = "check" => mode # "LISTEN_TCP"
  /\ pc \in {"top", "enter", "blocked", "reap", "sweep", "kill", "check"} => fds = ListenFd
  /\ pc \in {"limit", "socketpair"} => fds = ListenFd \cup ConnFd
  /\ pc = "clone" => fds = ListenFd \cup ConnFd \cup {"child_fd", "parent_fd"}
  /\ pc \in {"add", "net", "cgroup", "user", "write"} => fds = ListenFd \cup ConnFd \cup {"parent_fd"}

SyscallFdsHeld == Alive => sysfds = {e.pid : e \in {f \in pids : f.sysfd}}

FdInv == SocketsHeld /\ SyscallFdsHeld

\* A step that does not touch the sockets and stays at the same point.
LEMMA SocketsFrame ==
  ASSUME SocketsHeld, UNCHANGED <<mode, fds>>,
         pc' = pc \/ pc' \in {"hung", "dead", "gone"}
                  \/ {pc, pc'} \subseteq {"top", "enter", "blocked", "reap", "sweep", "kill"}
                  \/ {pc, pc'} \subseteq {"limit", "socketpair"}
                  \/ {pc, pc'} \subseteq {"add", "net", "cgroup", "user", "write"}
  PROVE  SocketsHeld'
BY DEF SocketsHeld, ListenFd, ConnFd

\* Closing what is left of the handshake and the connection leaves the listening
\* socket.
LEMMA ReturnCloses ==
  ASSUME NEW sockets, sockets \ {"connfd"} = ListenFd, Return(sockets), mode' = mode
  PROVE  SocketsHeld'
BY DEF SocketsHeld, ListenFd, ConnFd, Return

\* One step of the system keeps the account of the sockets.
LEMMA SocketsStep == SocketsHeld /\ [Next]_vars => SocketsHeld'
<1>. SUFFICES ASSUME SocketsHeld, [Next]_vars PROVE SocketsHeld'
  OBVIOUS
<1>1. CASE netGetRecvSocket
  BY <1>1 DEF netGetRecvSocket, End, SocketsHeld, ListenFd, ConnFd
<1>2. CASE ListenLoop
  BY <1>2 DEF ListenLoop, End, SocketsHeld, ListenFd, ConnFd
<1>3. CASE Block \/ ReapDone \/ Crash \/ PeerResets \/ subprocAdd
  BY <1>3, SocketsFrame DEF Block, ReapDone, Crash, PeerResets, subprocAdd, End
<1>4. CASE StandaloneLoop
  BY <1>4 DEF StandaloneLoop, End, SocketsHeld, ListenFd, ConnFd
<1>5. CASE netAcceptConn
  BY <1>5 DEF netAcceptConn, SocketsHeld, ListenFd, ConnFd
<1>6. CASE LimitConns
  <2>1. pc = "limit" /\ mode' = mode
    BY <1>6 DEF LimitConns
  <2>2. fds \ {"connfd"} = ListenFd
    BY <2>1 DEF SocketsHeld, ListenFd, ConnFd
  <2>. QED
    BY <1>6, <2>1, <2>2, SocketsFrame, ReturnCloses DEF LimitConns
<1>7. CASE Socketpair
  <2>1. pc = "socketpair" /\ mode' = mode
    BY <1>7 DEF Socketpair
  <2>2. fds \ {"connfd"} = ListenFd
    BY <2>1 DEF SocketsHeld, ListenFd, ConnFd
  <2>3. CASE fds' = fds \cup {"child_fd", "parent_fd"} /\ pc' = "clone"
    BY <2>1, <2>3 DEF SocketsHeld, ListenFd, ConnFd
  <2>. QED
    BY <1>7, <2>1, <2>2, <2>3, ReturnCloses DEF Socketpair
<1>8. CASE CloneFails
  <2>1. (fds \ {"child_fd", "parent_fd"}) \ {"connfd"} = ListenFd
    BY <1>8 DEF CloneFails, SocketsHeld, ListenFd, ConnFd
  <2>. QED
    BY <1>8, <2>1, ReturnCloses DEF CloneFails
<1>9. ASSUME NEW p \in Pid, Clone(p) PROVE SocketsHeld'
  BY <1>9 DEF Clone, SocketsHeld, ListenFd, ConnFd
<1>10. CASE netInitNsFromParent \/ cgroupInitNsFromParent \/ userInitNsFromParent \/ WriteDone
  <2>1. pc \in {"net", "cgroup", "user", "write"} /\ mode' = mode
    BY <1>10 DEF netInitNsFromParent, cgroupInitNsFromParent, userInitNsFromParent, WriteDone
  <2>2. (fds \ {"parent_fd"}) \ {"connfd"} = ListenFd
    BY <2>1 DEF SocketsHeld, ListenFd, ConnFd
  <2>3. \/ Return(fds \ {"parent_fd"})
        \/ fds' = fds /\ pc' \in {"cgroup", "user", "write", "hung", "dead"}
    BY <1>10
    DEF netInitNsFromParent, cgroupInitNsFromParent, userInitNsFromParent, WriteDone, Prepared,
        InitParentFails, End
  <2>. QED
    BY <2>1, <2>2, <2>3, SocketsFrame, ReturnCloses
<1>11. ASSUME NEW p \in Pid, ReapOne(p) PROVE SocketsHeld'
  BY <1>11, SocketsFrame DEF ReapOne
<1>12. CASE Sweep
  <2>1. UNCHANGED <<mode, fds>>
    BY <1>12 DEF Sweep, SweepCont, SweepKill, SweepDone
  <2>2. CASE SweepDone
    BY <2>1, <2>2 DEF SweepDone, SocketsHeld, ListenFd
  <2>3. CASE SweepKill \/ \E p \in Pid : SweepCont(p)
    BY <2>1, <2>3, SocketsFrame DEF SweepCont, SweepKill
  <2>. QED
    BY <1>12, <2>2, <2>3 DEF Sweep
<1>13. CASE Gone
  BY <1>13 DEF Gone, SocketsHeld
<1>14. CASE Tick
  BY <1>14, SocketsFrame DEF Tick, Interrupt
<1>15. CASE WorldQuiet
  BY <1>15, SocketsFrame DEF WorldQuiet
<1>16. CASE UNCHANGED vars
  BY <1>16, SocketsFrame DEF vars, supVars
<1>. QED
  BY <1>1, <1>2, <1>3, <1>4, <1>5, <1>6, <1>7, <1>8, <1>9, <1>10, <1>11, <1>12, <1>13, <1>14, <1>15,
     <1>16, WorldIsQuiet
  DEF Next, SupervisorStep, Environment

\* One step of the system keeps the account of the /proc/pid/syscall descriptors:
\* subprocAdd opens one for a pid that has none, subprocRemove closes it.
LEMMA SyscallFdsStep ==
  TypeInv /\ ListInv /\ SyscallFdsHeld /\ [Next]_vars => SyscallFdsHeld'
<1>. SUFFICES ASSUME TypeInv, ListInv, SyscallFdsHeld, [Next]_vars PROVE SyscallFdsHeld'
  OBVIOUS
<1>1. CASE subprocAdd
  <2>1. PICK b \in PeerByte, ok \in BOOLEAN :
          /\ pids' = pids \cup {[pid |-> cur, age |-> 0, byte |-> b, addr |-> peer, sysfd |-> ok]}
          /\ sysfds' = IF ok THEN sysfds \cup {cur} ELSE sysfds
    BY <1>1 DEF subprocAdd
  <2>2. Alive
    BY <1>1 DEF subprocAdd, Alive
  <2>. DEFINE x == [pid |-> cur, age |-> 0, byte |-> b, addr |-> peer, sysfd |-> ok]
  <2>3. x.pid = cur /\ x.sysfd = ok
    OBVIOUS
  <2>4. pids' = pids \cup {x}
    BY <2>1
  <2>. HIDE DEF x
  <2>5. CASE ok
    BY <2>1, <2>2, <2>3, <2>4, <2>5, ZenonT(40) DEF SyscallFdsHeld
  <2>6. CASE ~ok
    BY <2>1, <2>2, <2>3, <2>4, <2>6 DEF SyscallFdsHeld
  <2>. QED
    BY <2>5, <2>6
<1>2. ASSUME NEW p \in Pid, ReapOne(p) PROVE SyscallFdsHeld'
  <2>1. PICK e \in pids : /\ e.pid = p /\ pids' = pids \ {e}
                          /\ \A f \in pids' : f.pid # p
                          /\ sysfds' = IF e.sysfd THEN sysfds \ {p} ELSE sysfds
    BY <1>2, ReapRemoves
  <2>2. Alive
    BY <1>2 DEF ReapOne, Alive
  <2>. QED
    BY <2>1, <2>2 DEF SyscallFdsHeld
<1>3. CASE Tick
  <2>1. Alive
    BY <1>3 DEF Tick
  <2>2. {e.pid : e \in {f \in pids' : f.sysfd}} = {e.pid : e \in {f \in pids : f.sysfd}}
    BY <1>3, TickAges
  <2>. QED
    BY <1>3, <2>1, <2>2, TickAges DEF SyscallFdsHeld
<1>4. CASE Gone
  BY <1>4 DEF Gone, SyscallFdsHeld, Alive
<1>5. CASE UNCHANGED <<pids, sysfds>> /\ (Alive' => Alive)
  BY <1>5 DEF SyscallFdsHeld
<1>6. CASE netGetRecvSocket \/ ListenLoop \/ Block \/ StandaloneLoop \/ netAcceptConn \/ LimitConns
           \/ Socketpair \/ CloneFails \/ ReapDone \/ Crash \/ PeerResets
           \/ \E p \in Pid : Clone(p)
  BY <1>5, <1>6
  DEF netGetRecvSocket, ListenLoop, Block, StandaloneLoop, netAcceptConn, LimitConns, Socketpair,
      CloneFails, ReapDone, Crash, PeerResets, Clone, Alive
<1>a. CASE Sweep
  BY <1>5, <1>a, SweepEffect DEF Alive
<1>7. CASE netInitNsFromParent \/ cgroupInitNsFromParent \/ userInitNsFromParent \/ WriteDone
  BY <1>5, <1>7
  DEF netInitNsFromParent, cgroupInitNsFromParent, userInitNsFromParent, WriteDone, Alive
<1>8. CASE WorldQuiet
  BY <1>5, <1>8 DEF WorldQuiet, Alive
<1>9. CASE UNCHANGED vars
  BY <1>5, <1>9 DEF vars, supVars, Alive
<1>. QED
  BY <1>1, <1>2, <1>3, <1>4, <1>6, <1>a, <1>7, <1>8, <1>9, WorldIsQuiet
  DEF Next, SupervisorStep, Environment

\* Whatever failed on the way, the supervisor is back in its loop with the
\* listening socket and one descriptor per jail that has one, and no other.
THEOREM DescriptorsAccountedFor == Spec => []NoFdLeak
<1>1. Init => FdInv
  BY ModeAssumption DEF Init, FdInv, SocketsHeld, SyscallFdsHeld, ListenFd, ConnFd
<1>2. FdInv => NoFdLeak
  BY DEF FdInv, SocketsHeld, SyscallFdsHeld, ListenFd, NoFdLeak, Alive
<1>3. TypeInv /\ ListInv /\ FdInv /\ [Next]_vars => FdInv'
  BY SocketsStep, SyscallFdsStep DEF FdInv
<1>. QED
  BY <1>1, <1>2, <1>3, TypeInvariant, ListInvariant, PTL DEF Spec

-----------------------------------------------------------------------------
(* The connection limit.                                                   *)

JailsOf(a) == {e \in pids : e.addr = a}

\* ConnsPerIpBounded is inductive once it is known that netLimitConns counts, by
\* the first byte, at least the jails of the address it is asked about, and that
\* its answer still holds when subprocAdd inserts the jail: nothing is added in
\* between, and a peer that went away is not counted for any address.
ConnInv ==
  /\ IsFiniteSet(pids)
  /\ \A e \in pids : e.addr # NoAddr => e.byte = FirstByte[e.addr]
  /\ MaxConnsPerIp # 0 =>
       /\ \A a \in Addr : Cardinality(JailsOf(a)) <= MaxConnsPerIp
       /\ pc \in {"socketpair", "clone", "add"} /\ peer # NoAddr =>
            Cardinality(JailsOf(peer)) < MaxConnsPerIp

\* A step that leaves the list alone and does not come from netLimitConns.
LEMMA ConnFrame ==
  ASSUME ConnInv, pids' = pids,
         \/ pc' \notin {"socketpair", "clone", "add"}
         \/ pc \in {"socketpair", "clone", "add"} /\ peer' \in {peer, NoAddr}
  PROVE  ConnInv'
BY DEF ConnInv, JailsOf

\* A list whose entries for each address are no more than before.
LEMMA FewerJails ==
  ASSUME ConnInv, IsFiniteSet(pids'), peer' = peer,
         \A e \in pids' : e.addr # NoAddr => e.byte = FirstByte[e.addr],
         \A a : Cardinality(JailsOf(a)') \in Nat /\ Cardinality(JailsOf(a)) \in Nat
                /\ Cardinality(JailsOf(a)') <= Cardinality(JailsOf(a)),
         pc' = pc \/ pc' = "reap"
  PROVE  ConnInv'
BY LimitAssumption DEF ConnInv

\* When netLimitConns accepts a peer, the address has a place left.
LEMMA LimitConn ==
  ASSUME TypeInv, ConnInv, LimitConns
  PROVE  ConnInv'
<1>1. PICK b \in PeerByte :
        \/ netLimitConns(b) /\ pc' = "socketpair" /\ UNCHANGED <<cur, fds, peer>>
        \/ pc' = "reap"
  BY DEF LimitConns, Return
<1>2. pids' = pids
  BY DEF LimitConns
<1>3. CASE pc' = "reap"
  BY <1>2, <1>3, ConnFrame
<1>4. CASE netLimitConns(b) /\ pc' = "socketpair" /\ peer' = peer
  <2>1. CASE MaxConnsPerIp = 0 \/ peer = NoAddr
    BY <1>2, <1>4, <2>1 DEF ConnInv, JailsOf
  <2>2. CASE MaxConnsPerIp # 0 /\ peer # NoAddr
    <3>. DEFINE Same == {e \in pids : SameIp(e, b)}
    <3>1. b = FirstByte[peer]
      BY <2>2 DEF PeerByte
    <3>2. JailsOf(peer) \in SUBSET Same
      BY <2>2, <3>1 DEF ConnInv, JailsOf, SameIp
    <3>3. IsFiniteSet(Same) /\ Same \in SUBSET pids
      BY FS_Subset DEF ConnInv
    <3>4. Cardinality(Same) < MaxConnsPerIp
      BY <1>4, <2>2 DEF netLimitConns
    <3>5. IsFiniteSet(JailsOf(peer)) /\ Cardinality(JailsOf(peer)) <= Cardinality(Same)
      BY <3>2, <3>3, FS_Subset
    <3>6. Cardinality(Same) \in Nat /\ Cardinality(JailsOf(peer)) \in Nat
      BY <3>3, <3>5, FS_CardinalityType
    <3>7. Cardinality(JailsOf(peer)) < MaxConnsPerIp
      BY <3>4, <3>5, <3>6, LimitAssumption
    <3>. QED
      BY <1>2, <1>4, <3>7 DEF ConnInv, JailsOf
  <2>. QED
    BY <2>1, <2>2
<1>. QED
  BY <1>1, <1>3, <1>4

\* subprocAdd takes that place, and no other.
LEMMA AddConn ==
  ASSUME TypeInv, ConnInv, subprocAdd
  PROVE  ConnInv'
<1>1. PICK b \in PeerByte, ok \in BOOLEAN :
        pids' = pids \cup {[pid |-> cur, age |-> 0, byte |-> b, addr |-> peer, sysfd |-> ok]}
  BY DEF subprocAdd
<1>. DEFINE x == [pid |-> cur, age |-> 0, byte |-> b, addr |-> peer, sysfd |-> ok]
<1>2. x.addr = peer /\ x.byte = b
  OBVIOUS
<1>3. pids' = pids \cup {x}
  BY <1>1
<1>. HIDE DEF x
<1>4. pc = "add" /\ pc' = "net" /\ peer' = peer
  BY DEF subprocAdd
<1>5. IsFiniteSet(pids')
  BY <1>3, FS_AddElement DEF ConnInv
<1>6. \A e \in pids' : e.addr # NoAddr => e.byte = FirstByte[e.addr]
  BY <1>2, <1>3 DEF ConnInv, PeerByte
<1>7. ASSUME MaxConnsPerIp # 0, NEW a \in Addr
      PROVE  Cardinality(JailsOf(a)') <= MaxConnsPerIp
  <2>1. IsFiniteSet(JailsOf(a)) /\ Cardinality(JailsOf(a)) \in Nat
    <3>1. JailsOf(a) \in SUBSET pids
      BY DEF JailsOf
    <3>. QED
      BY <3>1, FS_Subset, FS_CardinalityType DEF ConnInv
  <2>2. CASE peer # a
    <3>1. JailsOf(a)' = JailsOf(a)
      BY <1>2, <1>3, <2>2 DEF JailsOf
    <3>. QED
      BY <1>7, <3>1 DEF ConnInv
  <2>3. CASE peer = a
    <3>1. JailsOf(a)' = JailsOf(a) \cup {x}
      BY <1>2, <1>3, <2>3 DEF JailsOf
    <3>2. Cardinality(JailsOf(a)) < MaxConnsPerIp
      BY <1>4, <1>7, <2>3, DataAssumption DEF ConnInv
    <3>3. Cardinality(JailsOf(a) \cup {x}) =
            IF x \in JailsOf(a) THEN Cardinality(JailsOf(a)) ELSE Cardinality(JailsOf(a)) + 1
      BY <2>1, FS_AddElement, Zenon
    <3>. QED
      BY <2>1, <3>1, <3>2, <3>3, LimitAssumption
  <2>. QED
    BY <2>2, <2>3
<1>. QED
  BY <1>4, <1>5, <1>6, <1>7 DEF ConnInv

\* subprocRemove gives places back.
LEMMA ReapConn ==
  ASSUME TypeInv, ListInv, ConnInv, NEW p \in Pid, ReapOne(p)
  PROVE  ConnInv'
<1>1. pids' \in SUBSET pids
  BY ReapRemoves
<1>2. IsFiniteSet(pids')
  BY <1>1, FS_Subset DEF ConnInv
<1>3. ASSUME NEW a
      PROVE  /\ Cardinality(JailsOf(a)') \in Nat /\ Cardinality(JailsOf(a)) \in Nat
             /\ Cardinality(JailsOf(a)') <= Cardinality(JailsOf(a))
  <2>1. JailsOf(a)' \in SUBSET JailsOf(a) /\ JailsOf(a) \in SUBSET pids
    BY <1>1 DEF JailsOf
  <2>2. IsFiniteSet(JailsOf(a))
    BY <2>1, FS_Subset DEF ConnInv
  <2>. QED
    BY <2>1, <2>2, FS_Subset, FS_CardinalityType
<1>4. peer' = peer /\ pc' = pc
  BY DEF ReapOne
<1>5. \A e \in pids' : e.addr # NoAddr => e.byte = FirstByte[e.addr]
  BY <1>1 DEF ConnInv
<1>. QED
  BY <1>2, <1>3, <1>4, <1>5, FewerJails

\* The passing of time does not change how many jails an address has.
LEMMA TickConn ==
  ASSUME TypeInv, ConnInv, Tick
  PROVE  ConnInv'
<1>1. IsFiniteSet(pids')
  <2>. DEFINE f == [e \in pids |-> Older(e)]
  <2>1. f \in Surjection(pids, pids')
    BY TickAges DEF Surjection
  <2>. QED
    BY <2>1, FS_Surjection DEF ConnInv
<1>2. ASSUME NEW a
      PROVE  /\ Cardinality(JailsOf(a)') \in Nat /\ Cardinality(JailsOf(a)) \in Nat
             /\ Cardinality(JailsOf(a)') <= Cardinality(JailsOf(a))
  <2>. DEFINE f == [e \in JailsOf(a) |-> Older(e)]
  <2>1. JailsOf(a)' = {Older(e) : e \in JailsOf(a)}
    BY TickAges DEF JailsOf
  <2>2. f \in Surjection(JailsOf(a), JailsOf(a)')
    BY <2>1 DEF Surjection
  <2>3. IsFiniteSet(JailsOf(a))
    <3>1. JailsOf(a) \in SUBSET pids
      BY DEF JailsOf
    <3>. QED
      BY <3>1, FS_Subset DEF ConnInv
  <2>4. IsFiniteSet(JailsOf(a)') /\ Cardinality(JailsOf(a)') <= Cardinality(JailsOf(a))
    BY <2>2, <2>3, FS_Surjection
  <2>. QED
    BY <2>3, <2>4, FS_CardinalityType
<1>3. \A e \in pids' : e.addr # NoAddr => e.byte = FirstByte[e.addr]
  BY TickAges DEF ConnInv
<1>. QED
  BY <1>1, <1>2, <1>3, TickAges, FewerJails

\* One step of the system keeps ConnInv.
LEMMA ConnStep == TypeInv /\ ListInv /\ ConnInv /\ [Next]_vars => ConnInv'
<1>. SUFFICES ASSUME TypeInv, ListInv, ConnInv, [Next]_vars PROVE ConnInv'
  OBVIOUS
<1>1. CASE netGetRecvSocket \/ ListenLoop \/ Block \/ StandaloneLoop \/ netAcceptConn \/ Socketpair
           \/ CloneFails \/ ReapDone \/ Crash \/ PeerResets \/ (\E p \in Pid : Clone(p))
  <2>1. pids' = pids
    BY <1>1
    DEF netGetRecvSocket, ListenLoop, Block, StandaloneLoop, netAcceptConn, Socketpair, CloneFails,
        ReapDone, Crash, PeerResets, Clone
  <2>2. \/ pc' \notin {"socketpair", "clone", "add"}
        \/ pc \in {"socketpair", "clone", "add"} /\ peer' \in {peer, NoAddr}
    BY <1>1
    DEF netGetRecvSocket, ListenLoop, Block, StandaloneLoop, netAcceptConn, Socketpair, CloneFails,
        ReapDone, Crash, PeerResets, Clone, Return, End
  <2>. QED
    BY <2>1, <2>2, ConnFrame
<1>a. CASE Sweep
  BY <1>a, SweepEffect, ConnFrame
<1>2. CASE LimitConns \/ subprocAdd \/ Tick \/ (\E p \in Pid : ReapOne(p))
  BY <1>2, LimitConn, AddConn, TickConn, ReapConn
<1>3. CASE netInitNsFromParent \/ cgroupInitNsFromParent \/ userInitNsFromParent \/ WriteDone
  BY <1>3, ConnFrame
  DEF netInitNsFromParent, cgroupInitNsFromParent, userInitNsFromParent, WriteDone, Prepared,
      InitParentFails, Return, End
<1>4. CASE Gone
  <2>1. pids' = {} /\ pc' = "gone"
    BY <1>4, Zenon DEF Gone
  <2>2. \A a \in Addr : JailsOf(a)' = {}
    BY <2>1 DEF JailsOf
  <2>. QED
    BY <2>1, <2>2, FS_EmptySet, LimitAssumption DEF ConnInv
<1>5. CASE WorldQuiet
  BY <1>5, ConnFrame DEF WorldQuiet
<1>6. CASE UNCHANGED vars
  BY <1>6, ConnFrame DEF vars, supVars
<1>. QED
  BY <1>1, <1>a, <1>2, <1>3, <1>4, <1>5, <1>6, WorldIsQuiet DEF Next, SupervisorStep, Environment

\* ConnInv holds in every behaviour of netLimitConns, subprocAdd and subprocRemove.
LEMMA ConnInvariant == Spec => []ConnInv
<1>1. Init => ConnInv
  <2>. SUFFICES ASSUME Init PROVE ConnInv
    OBVIOUS
  <2>1. pids = {} /\ peer = NoAddr
    BY DEF Init
  <2>2. \A a \in Addr : JailsOf(a) = {}
    BY <2>1 DEF JailsOf
  <2>. QED
    BY <2>1, <2>2, FS_EmptySet, LimitAssumption DEF ConnInv
<1>. QED
  BY <1>1, ConnStep, TypeInvariant, ListInvariant, PTL DEF Spec

\* At most max_conns_per_ip jails are listed with the same address, for any number of
\* clients and of jails, and although the limit is tested long before the jail is
\* added to the list.  It says nothing of jails that subprocAdd lists without an
\* address, because their client had reset the connection.
THEOREM ConnectionsLimited == Spec => []ConnsPerIpBounded
<1>1. ConnInv => ConnsPerIpBounded
  BY DEF ConnInv, ConnsPerIpBounded, JailsOf
<1>. QED
  BY <1>1, ConnInvariant, PTL

-----------------------------------------------------------------------------
(* The standalone modes.                                                   *)

\* nsjailStandaloneMode calls subprocRunChild with an empty list.
AloneInv ==
  mode # "LISTEN_TCP" /\ pc \in {"limit", "socketpair", "clone", "add"} => pids = {}

\* ONCE mode runs one jail.  Once it is reaped, the list is empty and subprocReap's
\* result is what the loop returns, before anything resets it.
OnceInv ==
  /\ Alive => exit.why = "none"
  /\ mode # "ONCE" => last = NoStatus
  /\ mode = "ONCE" =>
       /\ \A e, f \in pids : e = f
       /\ last # NoStatus =>
            /\ pids = {} /\ pc \in {"reap", "sweep", "kill", "check", "dead", "gone"}
            /\ Alive => rv = ReapStatus(last)
            /\ exit.why = "return" => exit.code = ReapStatus(last)

\* A step within the loop or within subprocRunChild that leaves the list and the
\* result alone.
LEMMA OnceFrame ==
  ASSUME AloneInv, OnceInv, UNCHANGED <<mode, pids, last, rv, exit>>,
         \/ pc' = pc
         \/ pc \in {"enter", "blocked"} /\ pc' \in {"blocked", "reap"}
         \/ {pc, pc'} \subseteq {"reap", "sweep", "kill"}
         \/ pc \in {"limit", "socketpair", "clone"} /\ pc' \in {"socketpair", "clone", "add", "reap"}
         \/ pc \in {"net", "cgroup", "user", "write"}
              /\ pc' \in {"cgroup", "user", "write", "hung", "reap"}
  PROVE  AloneInv' /\ OnceInv'
BY DEF AloneInv, OnceInv, Alive

\* A step after which the supervisor is dead, other than by returning.
LEMMA OnceEnds ==
  ASSUME AloneInv, OnceInv, UNCHANGED <<mode, pids, last>>,
         NEW why \in {"fatal", "exit", "sigpipe", "crash"}, NEW code, End(why, code)
  PROVE  AloneInv' /\ OnceInv'
BY DEF AloneInv, OnceInv, Alive, End

\* The loop returns what the reaped jail left in rv.
LEMMA LoopOnce ==
  ASSUME TypeInv, ConnInv, SocketsHeld, AloneInv, OnceInv, StandaloneLoop
  PROVE  AloneInv' /\ OnceInv'
<1>1. pc = "check" /\ mode # "LISTEN_TCP" /\ UNCHANGED <<mode, pids, last>>
  BY DEF StandaloneLoop, SocketsHeld
<1>2. subprocCount = 0 <=> pids = {}
  BY FS_EmptySet DEF ConnInv, subprocCount
<1>3. CASE subprocCount = 0 /\ mode = "ONCE" /\ End("return", rv)
  BY <1>1, <1>2, <1>3 DEF AloneInv, OnceInv, Alive, End
<1>4. CASE subprocCount = 0 /\ mode # "ONCE" /\ pc' = "limit" /\ exit' = exit
  BY <1>1, <1>2, <1>4 DEF AloneInv, OnceInv, Alive
<1>5. CASE subprocCount # 0 /\ End("fatal", 255)
  BY <1>1, <1>5, OnceEnds
<1>6. CASE subprocCount # 0 /\ pc' = "enter" /\ exit' = exit
  BY <1>1, <1>2, <1>6 DEF AloneInv, OnceInv, Alive
<1>. QED
  BY <1>3, <1>4, <1>5, <1>6 DEF StandaloneLoop

\* The one jail of ONCE mode is reaped once, and leaves an empty list.
LEMMA ReapOnce ==
  ASSUME TypeInv, ListInv, AloneInv, OnceInv, NEW p \in Pid, ReapOne(p)
  PROVE  AloneInv' /\ OnceInv'
<1>1. PICK e \in pids : e.pid = p /\ pids' = pids \ {e}
  BY ReapRemoves
<1>2. /\ pc = "reap" /\ pc' = "reap" /\ UNCHANGED <<mode, exit>>
      /\ rv' = ReapStatus(status[p])
      /\ last' = IF mode = "ONCE" THEN status[p] ELSE last
  BY DEF ReapOne
<1>. QED
  BY <1>1, <1>2 DEF AloneInv, OnceInv, Alive

\* One step of the system keeps AloneInv and OnceInv.
LEMMA OnceStep ==
  TypeInv /\ ListInv /\ ConnInv /\ SocketsHeld /\ AloneInv /\ OnceInv /\ [Next]_vars
    => AloneInv' /\ OnceInv'
<1>. SUFFICES ASSUME TypeInv, ListInv, ConnInv, SocketsHeld, AloneInv, OnceInv, [Next]_vars
              PROVE  AloneInv' /\ OnceInv'
  OBVIOUS
<1>1. CASE netGetRecvSocket
  BY <1>1 DEF netGetRecvSocket, SocketsHeld, End, AloneInv, OnceInv, Alive
<1>2. CASE ListenLoop
  <2>1. pc = "top" /\ UNCHANGED <<mode, pids, last, rv>>
    BY <1>2 DEF ListenLoop
  <2>2. CASE End("fatal", 0)
    BY <2>1, <2>2, OnceEnds
  <2>3. CASE pc' = "enter" /\ exit' = exit
    BY <2>1, <2>3 DEF AloneInv, OnceInv, Alive
  <2>. QED
    BY <1>2, <2>2, <2>3 DEF ListenLoop
<1>3. CASE StandaloneLoop
  BY <1>3, LoopOnce
<1>4. CASE netAcceptConn
  BY <1>4 DEF netAcceptConn, AloneInv, OnceInv, Alive
<1>5. CASE Block \/ ReapDone \/ LimitConns \/ Socketpair \/ CloneFails \/ PeerResets
           \/ (\E p \in Pid : Clone(p))
  BY <1>5, OnceFrame
  DEF Block, ReapDone, LimitConns, Socketpair, CloneFails, PeerResets, Clone, Return
<1>6. CASE subprocAdd
  <2>1. PICK x : pids' = pids \cup {x}
    BY <1>6, Zenon DEF subprocAdd
  <2>2. pc = "add" /\ pc' = "net" /\ UNCHANGED <<mode, rv, exit, last>>
    BY <1>6 DEF subprocAdd
  <2>. QED
    BY <2>1, <2>2 DEF AloneInv, OnceInv, Alive
<1>7. CASE netInitNsFromParent \/ userInitNsFromParent
  BY <1>7, OnceFrame
  DEF netInitNsFromParent, userInitNsFromParent, Prepared, InitParentFails, Return
<1>8. CASE cgroupInitNsFromParent \/ WriteDone
  <2>1. pc \in {"cgroup", "write"} /\ UNCHANGED <<mode, pids, last, rv>>
    BY <1>8 DEF cgroupInitNsFromParent, WriteDone
  <2>2. CASE End("exit", 1) \/ End("sigpipe", 0)
    BY <2>1, <2>2, OnceEnds
  <2>3. CASE pc' \in {"user", "reap"} /\ exit' = exit
    BY <2>1, <2>3, OnceFrame
  <2>. QED
    BY <1>8, <2>2, <2>3 DEF cgroupInitNsFromParent, WriteDone, Prepared, Return
<1>9. ASSUME NEW p \in Pid, ReapOne(p) PROVE AloneInv' /\ OnceInv'
  BY <1>9, ReapOnce
<1>10. CASE Sweep
  <2>1. CASE SweepDone
    BY <2>1 DEF SweepDone, AloneInv, OnceInv, Alive
  <2>2. CASE SweepKill \/ \E p \in Pid : SweepCont(p)
    BY <2>2, OnceFrame DEF SweepCont, SweepKill
  <2>. QED
    BY <1>10, <2>1, <2>2 DEF Sweep
<1>11. CASE Gone
  BY <1>11 DEF Gone, AloneInv, OnceInv, Alive
<1>12. CASE Crash
  BY <1>12, OnceEnds DEF Crash
<1>13. CASE Tick
  <2>1. UNCHANGED <<mode, rv, exit, last>> /\ (pc' = pc \/ (pc = "blocked" /\ pc' = "reap"))
    BY <1>13, TickAges
  <2>2. /\ pids = {} => pids' = {}
        /\ (\A e, f \in pids : e = f) => \A e, f \in pids' : e = f
    BY <1>13, TickAges
  <2>. QED
    BY <2>1, <2>2 DEF AloneInv, OnceInv, Alive
<1>14. CASE WorldQuiet
  BY <1>14, OnceFrame DEF WorldQuiet
<1>15. CASE UNCHANGED vars
  BY <1>15, OnceFrame DEF vars, supVars
<1>. QED
  BY <1>1, <1>2, <1>3, <1>4, <1>5, <1>6, <1>7, <1>8, <1>9, <1>10, <1>11, <1>12, <1>13, <1>14, <1>15,
     WorldIsQuiet
  DEF Next, SupervisorStep, Environment

\* AloneInv and OnceInv hold in every behaviour of nsjailStandaloneMode.
LEMMA OnceInvariant == Spec => [](AloneInv /\ OnceInv)
<1>1. Init => AloneInv /\ OnceInv
  BY DEF Init, AloneInv, OnceInv
<1>2. Init => SocketsHeld
  BY ModeAssumption DEF Init, SocketsHeld, ListenFd, ConnFd
<1>. QED
  BY <1>1, <1>2, OnceStep, SocketsStep, TypeInvariant, ListInvariant, ConnInvariant, PTL DEF Spec

\* The connection limit never turns a standalone run away, although the address
\* it looks at is uninitialised, for any limit.
THEOREM StandaloneAlwaysRuns == Spec => []StandaloneNeverRejects
<1>1. AloneInv => StandaloneNeverRejects
  <2>. SUFFICES ASSUME AloneInv, pc = "limit", mode # "LISTEN_TCP", NEW b \in PeerByte
                PROVE  netLimitConns(b)
    BY DEF StandaloneNeverRejects
  <2>1. {e \in pids : SameIp(e, b)} = {}
    BY DEF AloneInv
  <2>. QED
    BY <2>1, FS_EmptySet, LimitAssumption DEF netLimitConns
<1>. QED
  BY <1>1, OnceInvariant, PTL

\* subprocReap's result tells a clean exit, another exit and a signal apart.
LEMMA ReapStatusFaithful ==
  ASSUME NEW st \in WaitStatus, st # NoStatus
  PROVE  /\ ReapStatus(st) = 0 <=> st = Exited(0)
         /\ ReapStatus(st) >= 100 <=> st.how = "signaled"
         /\ st.how = "signaled" => ReapStatus(st) = 100 + st.n
<1>1. ASSUME NEW n \in ExitCode, st = Exited(n)
      PROVE  /\ ReapStatus(st) = 0 <=> st = Exited(0)
             /\ ReapStatus(st) < 100 /\ st.how # "signaled"
  <2>1. n \in 0..255
    BY DataAssumption
  <2>2. n % 100 \in 0..99 /\ 0 % 100 = 0
    BY <2>1
  <2>3. ReapStatus(st) = IF n % 100 = 0 /\ n # 0 THEN 1 ELSE n % 100
    BY <1>1 DEF ReapStatus, Exited
  <2>4. st = Exited(0) <=> n = 0
    BY <1>1 DEF Exited
  <2>. QED
    BY <1>1, <2>1, <2>2, <2>3, <2>4 DEF Exited
<1>2. ASSUME NEW n \in TermSig, st = Signaled(n)
      PROVE  st.how = "signaled" /\ ReapStatus(st) = 100 + st.n /\ st # Exited(0) /\ st.n \in 1..64
  BY <1>2, DataAssumption DEF Signaled, Exited, ReapStatus
<1>3. CASE \E n \in ExitCode : st = Exited(n)
  <2>1. ReapStatus(st) \in 0..255
    BY ReapStatusRange
  <2>. QED
    BY <1>1, <1>3, <2>1
<1>4. CASE \E n \in TermSig : st = Signaled(n)
  BY <1>2, <1>4
<1>. QED
  BY <1>3, <1>4 DEF WaitStatus

\* The exit code of ONCE mode tells what became of the jail, for every exit
\* status and every signal: no later reap, timer tick or reset of rv comes between
\* wait4() and main's return.
THEOREM ExitCodeTellsFate == Spec => []ExitCodeFaithful
<1>1. TypeInv /\ OnceInv => ExitCodeFaithful
  <2>. SUFFICES ASSUME TypeInv, OnceInv, exit.why = "return", last # NoStatus
                PROVE  /\ exit.code = 0 <=> last = Exited(0)
                       /\ exit.code >= 100 <=> last.how = "signaled"
                       /\ last.how = "signaled" => exit.code = 100 + last.n
    BY DEF ExitCodeFaithful
  <2>1. exit.code = ReapStatus(last)
    BY DEF OnceInv
  <2>2. last \in WaitStatus
    BY DEF TypeInv, TypeOK
  <2>. QED
    BY <2>1, <2>2, ReapStatusFaithful
<1>. QED
  BY <1>1, OnceInvariant, TypeInvariant, PTL

====
