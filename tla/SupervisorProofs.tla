-------------------------- MODULE SupervisorProofs --------------------------
(***************************************************************************)
(* Theorems about the supervisor, for any set of pids and of clients, any  *)
(* limits and any combination of faults; at the end, that it implements    *)
(* JailLifecycle.                                                          *)
(***************************************************************************)
EXTENDS SupervisorProperties, TLAPS

\* The value subprocReap returns fits an exit status.
LEMMA ReapStatusRange ==
  ASSUME NEW st \in WaitStatus PROVE ReapStatus(st) \in 0..255
<1>1. CASE st = NoStatus
  BY <1>1 DEF ReapStatus, NoStatus
<1>2. ASSUME NEW n \in ExitCode, st = Exited(n) PROVE ReapStatus(st) \in 0..255
  <2>1. n \in 0..255
    BY DataAssumption
  <2>2. n % 100 \in 0..99
    BY <2>1
  <2>. QED
    BY <1>2, <2>1, <2>2 DEF ReapStatus, Exited
<1>3. ASSUME NEW n \in TermSig, st = Signaled(n) PROVE ReapStatus(st) \in 0..255
  <2>1. n \in 1..64
    BY DataAssumption
  <2>. QED
    BY <1>3, <2>1 DEF ReapStatus, Signaled
<1>. QED
  BY <1>1, <1>2, <1>3 DEF WaitStatus

\* Exit statuses the model itself produces are wait statuses.
LEMMA StatusTypes ==
  /\ NoStatus \in WaitStatus
  /\ Exited(1) \in WaitStatus
  /\ Signaled(SIGKILL) \in WaitStatus
BY DataAssumption DEF WaitStatus

\* The way the supervisor ends is of the declared type.
LEMMA EndType ==
  ASSUME NEW why \in {"return", "fatal", "exit", "sigpipe", "crash"}, NEW code \in 0..255,
         End(why, code)
  PROVE  pc' \in PcValues /\ exit' \in ExitType
BY DEF End, PcValues, ExitType

\* kill() adds only pids to the pending signals.
LEMMA KillType ==
  ASSUME killed \subseteq Pid, NEW S \in SUBSET Pid, Kill(S)
  PROVE  killed' \subseteq Pid
BY DEF Kill

\* What the list holds are pids.
LEMMA ListedPids ==
  ASSUME pids \subseteq Entry
  PROVE  {e.pid : e \in pids} \in SUBSET Pid /\ Expired \in SUBSET Pid
BY DEF Entry, Expired

\* While subprocRunChild or the time limit loop works on a jail it knows the
\* jail's pid.  The type invariant is inductive only together with this.
CurKnown == pc \in {"add", "net", "cgroup", "user", "write", "kill"} => cur \in Pid

TypeInv == TypeOK /\ CurKnown

\* The actions of the two loops keep the types.
LEMMA LoopTypes ==
  ASSUME TypeInv, netGetRecvSocket \/ ListenLoop \/ Block \/ StandaloneLoop \/ netAcceptConn
  PROVE  TypeInv'
<1>. USE DEF TypeInv, TypeOK, CurKnown
<1>a. 0 \in 0..255 /\ 255 \in 0..255
  OBVIOUS
<1>1. CASE netGetRecvSocket
  <2>1. exit' \in ExitType /\ pc' \in {"top", "dead"}
    BY <1>1, <1>a, EndType DEF netGetRecvSocket, End
  <2>. QED
    BY <1>1, <2>1, Zenon DEF netGetRecvSocket, Socket, jailVars, PcValues
<1>2. CASE ListenLoop
  <2>1. exit' \in ExitType /\ pc' \in {"enter", "dead"}
    BY <1>2, <1>a, EndType DEF ListenLoop, End
  <2>2. killed' \subseteq Pid
    BY <1>2, KillType, ListedPids DEF ListenLoop, subprocKillAll
  <2>. QED
    BY <1>2, <2>1, <2>2, Zenon DEF ListenLoop, PcValues
<1>3. CASE Block
  BY <1>3 DEF Block, PcValues, jailVars
<1>4. CASE StandaloneLoop
  <2>1. exit' \in ExitType /\ pc' \in {"enter", "limit", "dead"}
    BY <1>4, <1>a, EndType DEF StandaloneLoop, End
  <2>2. killed' \subseteq Pid
    BY <1>4, KillType, ListedPids DEF StandaloneLoop, subprocKillAll
  <2>. QED
    BY <1>4, <1>a, <2>1, <2>2, Zenon DEF StandaloneLoop, PcValues
<1>5. CASE netAcceptConn
  BY <1>5, Zenon DEF netAcceptConn, PcValues, Socket, jailVars
<1>. QED
  BY <1>1, <1>2, <1>3, <1>4, <1>5

\* The actions of subprocRunChild keep the types.
LEMMA RunChildTypes ==
  ASSUME TypeInv,
         \/ LimitConns \/ Socketpair \/ CloneFails \/ (\E p \in Pid : Clone(p)) \/ subprocAdd
         \/ netInitNsFromParent \/ cgroupInitNsFromParent \/ userInitNsFromParent \/ WriteDone
  PROVE  TypeInv'
<1>. USE DEF TypeInv, TypeOK, CurKnown, PcValues
<1>1. CASE LimitConns
  BY <1>1 DEF LimitConns, Return, jailVars
<1>2. CASE Socketpair
  BY <1>2, Zenon DEF Socketpair, Return, Socket, jailVars
<1>3. CASE CloneFails
  BY <1>3 DEF CloneFails, Return, jailVars
<1>4. CASE \E p \in Pid : Clone(p)
  BY <1>4 DEF Clone, Child, Live, Held
<1>5. CASE subprocAdd
  <2>1. PICK b \in PeerByte, ok \in BOOLEAN :
          /\ pids' = pids \cup {[pid |-> cur, age |-> 0, byte |-> b, addr |-> peer, sysfd |-> ok]}
          /\ sysfds' = IF ok THEN sysfds \cup {cur} ELSE sysfds
    BY <1>5 DEF subprocAdd
  <2>2. b \in Byte /\ cur \in Pid
    BY <1>5, DataAssumption DEF PeerByte, subprocAdd
  <2>3. [pid |-> cur, age |-> 0, byte |-> b, addr |-> peer, sysfd |-> ok] \in Entry
    BY <2>2, LimitAssumption DEF Entry
  <2>. QED
    BY <1>5, <2>1, <2>2, <2>3 DEF subprocAdd, jailVars
<1>6. CASE netInitNsFromParent
  BY <1>6 DEF netInitNsFromParent, Prepared, InitParentFails, Return, AllParts
<1>7. CASE cgroupInitNsFromParent
  <2>1. 1 \in 0..255
    OBVIOUS
  <2>2. exit' \in ExitType
    BY <1>7, <2>1, EndType DEF cgroupInitNsFromParent, Prepared
  <2>. QED
    BY <1>7, <2>2 DEF cgroupInitNsFromParent, Prepared, End, AllParts
<1>8. CASE userInitNsFromParent
  BY <1>8 DEF userInitNsFromParent, Prepared, InitParentFails, Return, AllParts
<1>9. CASE WriteDone
  <2>1. 0 \in 0..255
    OBVIOUS
  <2>2. exit' \in ExitType
    BY <1>9, <2>1, EndType DEF WriteDone
  <2>. QED
    BY <1>9, <2>2 DEF WriteDone, Return, End
<1>. QED
  BY <1>1, <1>2, <1>3, <1>4, <1>5, <1>6, <1>7, <1>8, <1>9

\* subprocReap and the end of the supervisor keep the types.
LEMMA ReapTypes ==
  ASSUME TypeInv, (\E p \in Pid : ReapOne(p)) \/ ReapDone \/ Sweep \/ Gone
  PROVE  TypeInv'
<1>. USE DEF TypeInv, TypeOK, CurKnown
<1>1. ASSUME NEW p \in Pid, ReapOne(p) PROVE TypeInv'
  <2>1. rv' \in 0..255
    BY <1>1, ReapStatusRange DEF ReapOne
  <2>2. pids' \subseteq Entry /\ sysfds' \subseteq Pid
    BY <1>1 DEF ReapOne, subprocRemove
  <2>3. cgroups' \subseteq Pid
    BY <1>1 DEF ReapOne, cgroupFinishFromParent
  <2>. QED
    BY <1>1, <2>1, <2>2, <2>3, StatusTypes DEF ReapOne, Forget
<1>2. CASE ReapDone
  BY <1>2, ListedPids DEF ReapDone, PcValues, jailVars
<1>3. CASE Sweep
  <2>1. ASSUME NEW p \in Pid, SweepCont(p) PROVE TypeInv'
    <3>1. proc' \in [Pid -> Child \cup {"free", "foreign"}]
      BY <2>1 DEF SweepCont, SigCont, Child, Live, Released
    <3>. QED
      BY <2>1, <3>1 DEF SweepCont, PcValues
  <2>2. CASE SweepKill
    <3>1. killed' \subseteq Pid
      BY <2>2, KillType DEF SweepKill
    <3>. QED
      BY <2>2, <3>1 DEF SweepKill, PcValues
  <2>3. CASE SweepDone
    <3>1. rv' \in 0..255
      BY <2>3 DEF SweepDone
    <3>. QED
      BY <2>3, <3>1 DEF SweepDone, PcValues, jailVars
  <2>. QED
    BY <1>3, <2>1, <2>2, <2>3 DEF Sweep
<1>4. CASE Gone
  <2>1. killed' \subseteq Pid
    BY <1>4, KillType DEF Gone
  <2>2. pipe' \in [Pid -> {"none", "open", "byte", "eof"}]
    BY <1>4 DEF Gone
  <2>. QED
    BY <1>4, <2>1, <2>2 DEF Gone, PcValues
<1>. QED
  BY <1>1, <1>2, <1>3, <1>4

\* A jail that ends or moves on keeps the types.
LEMMA EndsTypes ==
  ASSUME TypeInv, NEW p \in Pid, NEW st \in WaitStatus, Ends(p, st), ChildFrame
  PROVE  TypeInv'
BY DEF TypeInv, TypeOK, CurKnown, Ends, Interrupt, ChildFrame, PcValues, Child

\* A jail that moves to its next stage keeps the types.
LEMMA MovesTypes ==
  ASSUME TypeInv, NEW p \in Pid, NEW stage \in Live, Moves(p, stage), ChildFrame
  PROVE  TypeInv'
BY DEF TypeInv, TypeOK, CurKnown, Moves, ChildFrame, Child

\* The jails and the environment keep the types.
LEMMA WorldTypes ==
  ASSUME TypeInv,
         \/ Tick \/ FatalSignal \/ ShowSignal \/ Crash \/ PeerResets
         \/ \E p \in Pid : \/ JailStep(p) \/ JailEnds(p) \/ JailStops(p) \/ OomKill(p)
                           \/ KillTakesEffect(p) \/ InitReaps(p) \/ Foreign(p)
  PROVE  TypeInv'
<1>1. CASE Tick
  <2>1. \A e \in pids : [e EXCEPT !.age = IF e.age < TLimit THEN e.age + 1 ELSE TLimit] \in Entry
    BY LimitAssumption DEF TypeInv, TypeOK, Entry
  <2>2. pids' \subseteq Entry
    BY <1>1, <2>1 DEF Tick
  <2>. QED
    BY <1>1, <2>2 DEF Tick, TypeInv, TypeOK, CurKnown, Interrupt, PcValues, jailVars
<1>2. CASE FatalSignal \/ ShowSignal
  <2>1. nsjailSigFatal' \in BOOLEAN /\ nsjailShowProc' \in BOOLEAN
    BY <1>2, Zenon DEF FatalSignal, ShowSignal, TypeInv, TypeOK
  <2>2. pc' \in PcValues /\ CurKnown'
    BY <1>2 DEF FatalSignal, ShowSignal, Interrupt, TypeInv, TypeOK, CurKnown, PcValues
  <2>3. UNCHANGED <<mode, cur, peer, pids, fds, sysfds, rv, expired, exit, last, jailVars>>
    BY <1>2, Zenon DEF FatalSignal, ShowSignal
  <2>. QED
    BY <2>1, <2>2, <2>3 DEF TypeInv, TypeOK, jailVars
<1>3. CASE Crash
  <2>1. 0 \in 0..255
    OBVIOUS
  <2>2. exit' \in ExitType
    BY <1>3, <2>1, EndType DEF Crash
  <2>. QED
    BY <1>3, <2>2 DEF Crash, End, TypeInv, TypeOK, CurKnown, PcValues, jailVars
<1>4. CASE PeerResets
  BY <1>4 DEF PeerResets, TypeInv, TypeOK, CurKnown, jailVars
<1>5. ASSUME NEW p \in Pid, JailStep(p) \/ JailEnds(p) \/ JailStops(p) \/ OomKill(p) \/ KillTakesEffect(p)
      PROVE  TypeInv'
  <2>1. ChildFrame
    BY <1>5 DEF JailStep, SetupFD, ReadDone, containContain, Execv, JailEnds, JailStops, OomKill,
                KillTakesEffect
  <2>2. (\E st \in WaitStatus : Ends(p, st)) \/ (\E stage \in Live : Moves(p, stage))
    BY <1>5, StatusTypes
    DEF JailStep, SetupFD, ReadDone, containContain, Execv, JailEnds, JailStops, OomKill,
        KillTakesEffect, Live, Held, Released
  <2>. QED
    BY <2>1, <2>2, EndsTypes, MovesTypes
<1>6. ASSUME NEW p \in Pid, InitReaps(p) \/ Foreign(p) PROVE TypeInv'
  <2>1. CASE InitReaps(p)
    BY <2>1, StatusTypes DEF InitReaps, Forget, supVars, TypeInv, TypeOK, CurKnown
  <2>2. CASE Foreign(p)
    BY <2>2 DEF Foreign, supVars, TypeInv, TypeOK, CurKnown
  <2>. QED
    BY <1>6, <2>1, <2>2
<1>. QED
  BY <1>1, <1>2, <1>3, <1>4, <1>5, <1>6

\* The strengthened type invariant holds in every behaviour: one case per group of
\* actions.
LEMMA TypeInvariant == Spec => []TypeInv
<1>1. Init => TypeInv
  <2>. SUFFICES ASSUME Init PROVE TypeInv
    OBVIOUS
  <2>1. pc \in PcValues /\ CurKnown
    BY DEF Init, PcValues, CurKnown
  <2>2. exit \in ExitType /\ rv \in 0..255
    BY DEF Init, ExitType
  <2>3. status \in [Pid -> WaitStatus] /\ last \in WaitStatus
    BY StatusTypes DEF Init
  <2>4. nsjailSigFatal \in BOOLEAN /\ nsjailShowProc \in BOOLEAN
    BY Zenon DEF Init
  <2>. QED
    BY <2>1, <2>2, <2>3, <2>4 DEF Init, TypeInv, TypeOK
<1>2. TypeInv /\ [Next]_vars => TypeInv'
  <2>. SUFFICES ASSUME TypeInv, [Next]_vars PROVE TypeInv'
    OBVIOUS
  <2>1. CASE SupervisorStep
    BY <2>1, LoopTypes, RunChildTypes, ReapTypes DEF SupervisorStep
  <2>2. CASE \E p \in Pid : JailStep(p)
    BY <2>2, WorldTypes
  <2>3. CASE Environment
    BY <2>3, LoopTypes, WorldTypes DEF Environment
  <2>4. CASE UNCHANGED vars
    BY <2>4 DEF vars, supVars, jailVars, TypeInv, TypeOK, CurKnown
  <2>. QED
    BY <2>1, <2>2, <2>3, <2>4 DEF Next
<1>. QED
  BY <1>1, <1>2, PTL DEF Spec

\* Type correctness of the supervisor: no path of its loops, of subprocRunChild
\* or of subprocReap leaves the declared values.
THEOREM TypeCorrect == Spec => []TypeOK
BY TypeInvariant, PTL DEF TypeInv

-----------------------------------------------------------------------------
(* The time limit loop.                                                    *)

\* What the loop changes: it wakes jails and sends signals.
LEMMA SweepEffect ==
  ASSUME TypeInv, Sweep
  PROVE  /\ pc \in {"sweep", "kill"} /\ pc' \in {"sweep", "kill", "top", "check"}
         /\ UNCHANGED <<peer, pids, fds, sysfds, exit, last, mode, status, pipe, setup, cgroups>>
         /\ \A p \in Pid : proc'[p] = proc[p] \/ (proc[p] = "stopped" /\ proc'[p] = "run")
<1>1. ASSUME NEW q \in Pid, SweepCont(q)
      PROVE  \A p \in Pid : proc'[p] = proc[p] \/ (proc[p] = "stopped" /\ proc'[p] = "run")
  BY <1>1 DEF SweepCont, SigCont, TypeInv, TypeOK
<1>2. SweepKill \/ SweepDone => proc' = proc
  BY DEF SweepKill, SweepDone, jailVars
<1>3. pc \in {"sweep", "kill"} /\ pc' \in {"sweep", "kill", "top", "check"}
  BY DEF Sweep, SweepCont, SweepKill, SweepDone
<1>4. UNCHANGED <<peer, pids, fds, sysfds, exit, last, mode, status, pipe, setup, cgroups>>
  BY DEF Sweep, SweepCont, SweepKill, SweepDone, jailVars
<1>. QED
  BY <1>1, <1>2, <1>3, <1>4 DEF Sweep

\* Time does not make a jail younger.
LEMMA TickKeepsOverTime ==
  ASSUME TypeInv, Tick, NEW p, OverTime(p)
  PROVE  OverTime(p)'
<1>1. PICK e \in pids : e.pid = p /\ e.age >= TLimit /\ TLimit # 0
  BY DEF OverTime
<1>. DEFINE o == [e EXCEPT !.age = IF e.age < TLimit THEN e.age + 1 ELSE TLimit]
<1>2. e \in Entry
  BY DEF TypeInv, TypeOK
<1>3. o.pid = p /\ o.age = TLimit
  BY <1>1, <1>2, LimitAssumption DEF Entry
<1>4. o \in pids'
  BY DEF Tick
<1>5. TLimit >= TLimit
  BY LimitAssumption
<1>. QED
  BY <1>1, <1>3, <1>4, <1>5 DEF OverTime

\* The jails the time limit loop has still to signal are in the list and over their
\* time, and the loop has none outside of itself: nobody is reaped and nobody is
\* added between its reading of the clock and its last kill().
SweepInv ==
  Alive => /\ \A p \in expired : OverTime(p)
           /\ pc = "kill" => cur \in expired
           /\ pc \notin {"sweep", "kill"} => expired = {}

\* A step outside of the loop.
LEMMA SweepIdle ==
  ASSUME SweepInv, Alive' => Alive, pc \notin {"sweep", "kill"}, pc' \notin {"sweep", "kill"},
         expired' = expired
  PROVE  SweepInv'
BY DEF SweepInv

\* A step of somebody else during the loop.
LEMMA SweepFrame ==
  ASSUME SweepInv, Alive' => Alive, UNCHANGED <<pc, cur, expired>>,
         \A p \in expired : OverTime(p) => OverTime(p)'
  PROVE  SweepInv'
BY DEF SweepInv

\* One step of the system keeps SweepInv.
LEMMA SweepStep == TypeInv /\ SweepInv /\ [Next]_vars => SweepInv'
<1>. SUFFICES ASSUME TypeInv, SweepInv, [Next]_vars PROVE SweepInv'
  OBVIOUS
<1>1. CASE netGetRecvSocket \/ ListenLoop \/ Block \/ StandaloneLoop \/ netAcceptConn
  BY <1>1, SweepIdle
  DEF netGetRecvSocket, ListenLoop, Block, StandaloneLoop, netAcceptConn, End, Alive
<1>2. CASE LimitConns \/ Socketpair \/ CloneFails \/ (\E p \in Pid : Clone(p)) \/ subprocAdd
  BY <1>2, SweepIdle DEF LimitConns, Socketpair, CloneFails, Clone, subprocAdd, Return, Alive
<1>3. CASE netInitNsFromParent \/ cgroupInitNsFromParent \/ userInitNsFromParent \/ WriteDone
  BY <1>3, SweepIdle
  DEF netInitNsFromParent, cgroupInitNsFromParent, userInitNsFromParent, WriteDone, Prepared,
      InitParentFails, Return, End, Alive
<1>4. CASE \E p \in Pid : ReapOne(p)
  BY <1>4, SweepIdle DEF ReapOne, Alive
<1>5. CASE ReapDone
  <2>1. pids' = pids /\ expired' = Expired /\ pc' = "sweep"
    BY <1>5 DEF ReapDone
  <2>2. \A p \in Expired : OverTime(p)
    BY DEF Expired, OverTime
  <2>. QED
    BY <2>1, <2>2 DEF SweepInv, OverTime
<1>6. CASE Sweep
  <2>1. pids' = pids /\ expired' \subseteq expired /\ Alive
    BY <1>6 DEF Sweep, SweepCont, SweepKill, SweepDone, Alive
  <2>2. \A p \in expired' : OverTime(p)'
    BY <2>1 DEF SweepInv, OverTime
  <2>3. pc' = "kill" => cur' \in expired'
    BY <1>6 DEF Sweep, SweepCont, SweepKill, SweepDone
  <2>4. pc' \notin {"sweep", "kill"} => expired' = {}
    BY <1>6 DEF Sweep, SweepCont, SweepKill, SweepDone
  <2>. QED
    BY <2>2, <2>3, <2>4 DEF SweepInv
<1>7. CASE Gone \/ Crash
  BY <1>7 DEF Gone, Crash, End, Alive, SweepInv
<1>8. CASE Tick \/ FatalSignal \/ ShowSignal
  <2>1. expired' = expired /\ cur' = cur /\ (pc' = pc \/ (pc = "blocked" /\ pc' = "reap"))
    BY <1>8 DEF Tick, FatalSignal, ShowSignal, Interrupt
  <2>2. \A p : OverTime(p) => OverTime(p)'
    BY <1>8, TickKeepsOverTime DEF FatalSignal, ShowSignal, OverTime
  <2>. QED
    BY <2>1, <2>2, SweepIdle, SweepFrame DEF Alive
<1>9. CASE PeerResets \/ (\E p \in Pid : InitReaps(p) \/ Foreign(p)) \/ UNCHANGED vars
  BY <1>9, SweepFrame DEF PeerResets, InitReaps, Foreign, vars, supVars, Alive, OverTime
<1>10. ASSUME NEW p \in Pid,
              JailStep(p) \/ JailEnds(p) \/ JailStops(p) \/ OomKill(p) \/ KillTakesEffect(p)
       PROVE  SweepInv'
  <2>1. UNCHANGED <<cur, expired, pids>>
    BY <1>10
    DEF JailStep, SetupFD, ReadDone, containContain, Execv, JailEnds, JailStops, OomKill,
        KillTakesEffect, ChildFrame
  <2>2. pc' = pc \/ (pc = "blocked" /\ pc' = "reap")
    BY <1>10
    DEF JailStep, SetupFD, ReadDone, containContain, Execv, JailEnds, JailStops, OomKill,
        KillTakesEffect, Ends, Moves, Interrupt
  <2>. QED
    BY <2>1, <2>2, SweepIdle, SweepFrame DEF Alive, OverTime
<1>. QED
  BY <1>1, <1>2, <1>3, <1>4, <1>5, <1>6, <1>7, <1>8, <1>9, <1>10
  DEF Next, SupervisorStep, Environment

\* SweepInv holds in every behaviour of subprocReap and the jails.
LEMMA SweepInvariant == Spec => []SweepInv
<1>1. Init => SweepInv
  BY DEF Init, SweepInv, Alive
<1>. QED
  BY <1>1, SweepStep, TypeInvariant, PTL DEF Spec

-----------------------------------------------------------------------------
(* The list of jails.                                                      *)

\* A SIGKILL is pending on living jails only.
SignalsOnlyOwnJails == \A p \in killed : proc[p] \in Live

\* The list has one entry per pid, and none yet for a jail that subprocAdd is
\* about to insert; subprocRemove, which takes out one entry, relies on it.
OneEntryPerPid ==
  /\ \A e, f \in pids : e.pid = f.pid => e = f
  /\ pc = "add" => ~Listed(cur)

ListInv == OneEntryPerPid /\ ListMatchesChildren /\ SignalsOnlyOwnJails

\* A step that leaves the list, the process table and the signals alone.
LEMMA ListFrame ==
  ASSUME ListInv, UNCHANGED <<pids, proc, killed>>, Alive' => Alive,
         pc' = "add" <=> pc = "add", pc = "add" => cur' = cur
  PROVE  ListInv'
BY DEF ListInv, OneEntryPerPid, ListMatchesChildren, SignalsOnlyOwnJails, Listed

\* A SIGKILL for listed pids only reaches living jails.
LEMMA KillListed ==
  ASSUME TypeInv, ListInv, Alive, NEW S, \A p \in S : Listed(p), Kill(S)
  PROVE  \A p \in killed' : proc[p] \in Live
<1>1. \A p \in S : p \in Pid /\ proc[p] \in Child
  BY DEF TypeInv, TypeOK, ListInv, ListMatchesChildren, Listed, Entry
<1>. QED
  BY <1>1 DEF Kill, Child, Live, Held, Released, ListInv, SignalsOnlyOwnJails

\* The two loops, signals and timer keep the list exact.
LEMMA LoopList ==
  ASSUME TypeInv, ListInv,
         netGetRecvSocket \/ ListenLoop \/ Block \/ StandaloneLoop \/ netAcceptConn
  PROVE  ListInv'
<1>1. CASE netGetRecvSocket \/ Block \/ netAcceptConn
  BY <1>1, ListFrame DEF netGetRecvSocket, Block, netAcceptConn, End, Alive, jailVars
<1>2. CASE ListenLoop \/ StandaloneLoop
  <2>1. UNCHANGED <<pids, proc>> /\ Alive /\ pc # "add" /\ pc' # "add"
    BY <1>2 DEF ListenLoop, StandaloneLoop, End, Alive
  <2>2. CASE killed' = killed
    BY <2>1, <2>2, ListFrame
  <2>3. CASE subprocKillAll
    <3>1. \A p \in {e.pid : e \in pids} : Listed(p)
      BY DEF Listed
    <3>2. \A p \in killed' : proc[p] \in Live
      BY <2>1, <2>3, <3>1, KillListed DEF subprocKillAll
    <3>. QED
      BY <2>1, <3>2 DEF ListInv, OneEntryPerPid, ListMatchesChildren, SignalsOnlyOwnJails, Listed
  <2>. QED
    BY <1>2, <2>2, <2>3 DEF ListenLoop, StandaloneLoop
<1>. QED
  BY <1>1, <1>2

\* Every path through subprocRunChild keeps the list exact: clone() makes a child
\* that subprocAdd then lists.
LEMMA RunChildList ==
  ASSUME TypeInv, ListInv,
         \/ LimitConns \/ Socketpair \/ CloneFails \/ (\E p \in Pid : Clone(p)) \/ subprocAdd
         \/ netInitNsFromParent \/ cgroupInitNsFromParent \/ userInitNsFromParent \/ WriteDone
  PROVE  ListInv'
<1>1. CASE LimitConns \/ Socketpair \/ CloneFails
  BY <1>1, ListFrame DEF LimitConns, Socketpair, CloneFails, Return, Alive, jailVars
<1>2. ASSUME NEW p \in Pid, Clone(p) PROVE ListInv'
  <2>1. Alive /\ pc # "add" /\ pc' = "add" /\ cur' = p /\ pids' = pids /\ killed' = killed
    BY <1>2 DEF Clone, Alive
  <2>2. proc[p] = "free" /\ proc' = [proc EXCEPT ![p] = "new"]
    BY <1>2 DEF Clone
  <2>3. ~Listed(p) /\ p \notin killed
    BY <2>1, <2>2 DEF ListInv, ListMatchesChildren, SignalsOnlyOwnJails, Child, Live, Held, Released
  <2>. QED
    BY <2>1, <2>2, <2>3
    DEF ListInv, OneEntryPerPid, ListMatchesChildren, SignalsOnlyOwnJails, Listed, TypeInv, TypeOK,
        Child, Live, Held
<1>3. CASE subprocAdd
  <2>1. PICK x : x.pid = cur /\ pids' = pids \cup {x}
    BY <1>3, Zenon DEF subprocAdd
  <2>2. pc = "add" /\ pc' = "net" /\ UNCHANGED <<cur, proc, killed>>
    BY <1>3 DEF subprocAdd, jailVars
  <2>. QED
    BY <2>1, <2>2
    DEF ListInv, OneEntryPerPid, ListMatchesChildren, SignalsOnlyOwnJails, Listed, Alive
<1>4. CASE netInitNsFromParent \/ cgroupInitNsFromParent \/ userInitNsFromParent \/ WriteDone
  BY <1>4, ListFrame
  DEF netInitNsFromParent, cgroupInitNsFromParent, userInitNsFromParent, WriteDone, Prepared,
      InitParentFails, Return, End, Alive
<1>. QED
  BY <1>1, <1>2, <1>3, <1>4

\* subprocReap and subprocKillAll keep the list exact: a pid leaves it with wait4(),
\* and only listed pids are signalled.
LEMMA ReapList ==
  ASSUME TypeInv, SweepInv, ListInv, (\E p \in Pid : ReapOne(p)) \/ ReapDone \/ Sweep \/ Gone
  PROVE  ListInv'
<1>1. ASSUME NEW p \in Pid, ReapOne(p) PROVE ListInv'
  <2>1. pc = "reap" /\ pc' = "reap" /\ killed' = killed /\ proc[p] = "zombie"
    BY <1>1 DEF ReapOne
  <2>2. proc' = [proc EXCEPT ![p] = "free"]
    BY <1>1 DEF ReapOne, Forget
  <2>3. Listed(p)
    BY <2>1 DEF ListInv, ListMatchesChildren, Alive, Child
  <2>4. PICK e \in pids : e.pid = p /\ pids' = pids \ {e}
    BY <1>1, <2>3 DEF ReapOne, subprocRemove
  <2>5. p \notin killed
    BY <2>1 DEF ListInv, SignalsOnlyOwnJails, Live, Held, Released
  <2>6. \A q \in Pid : Listed(q)' <=> Listed(q) /\ q # p
    BY <2>4 DEF Listed, ListInv, OneEntryPerPid
  <2>7. ListMatchesChildren'
    BY <2>1, <2>2, <2>6
    DEF ListInv, ListMatchesChildren, TypeInv, TypeOK, Alive, Child, Live, Held, Released
  <2>8. SignalsOnlyOwnJails'
    BY <2>1, <2>2, <2>5 DEF ListInv, SignalsOnlyOwnJails, TypeInv, TypeOK
  <2>. QED
    BY <2>1, <2>4, <2>7, <2>8 DEF ListInv, OneEntryPerPid
<1>2. CASE ReapDone
  BY <1>2, ListFrame DEF ReapDone, Alive, jailVars
<1>3. CASE Sweep
  <2>1. ASSUME NEW p \in Pid, SweepCont(p) PROVE ListInv'
    <3>1. proc' = [proc EXCEPT ![p] = IF @ = "stopped" THEN "run" ELSE @]
      BY <2>1 DEF SweepCont, SigCont
    <3>2. pc = "sweep" /\ pc' = "kill" /\ UNCHANGED <<pids, killed>>
      BY <2>1 DEF SweepCont
    <3>3. /\ \A q \in Pid : proc'[q] \in Live <=> proc[q] \in Live
          /\ \A q \in Pid : proc'[q] \in Child <=> proc[q] \in Child
      BY <3>1 DEF TypeInv, TypeOK, Child, Live, Released
    <3>. QED
      BY <3>2, <3>3
      DEF ListInv, OneEntryPerPid, ListMatchesChildren, SignalsOnlyOwnJails, Listed, Alive,
          TypeInv, TypeOK
  <2>2. CASE SweepKill
    <3>1. pc = "kill" /\ pc' = "sweep" /\ UNCHANGED <<pids, proc>> /\ Kill({cur})
      BY <2>2 DEF SweepKill
    <3>2. Listed(cur)
      BY <3>1 DEF SweepInv, OverTime, Listed, Alive
    <3>3. \A p \in killed' : proc[p] \in Live
      BY <3>1, <3>2, KillListed DEF Alive
    <3>. QED
      BY <3>1, <3>3
      DEF ListInv, OneEntryPerPid, ListMatchesChildren, SignalsOnlyOwnJails, Listed, Alive
  <2>3. CASE SweepDone
    BY <2>3, ListFrame DEF SweepDone, Alive, jailVars
  <2>. QED
    BY <1>3, <2>1, <2>2, <2>3 DEF Sweep
<1>4. CASE Gone
  BY <1>4
  DEF Gone, Kill, PdeathArmed, Alive, ListInv, OneEntryPerPid, ListMatchesChildren,
      SignalsOnlyOwnJails, Live, Released
<1>. QED
  BY <1>1, <1>2, <1>3, <1>4

\* A jail that ends or moves on stays a child, and one that ends loses its
\* pending signal.
LEMMA EndsList ==
  ASSUME TypeInv, ListInv, NEW p \in Pid, proc[p] \in Live, NEW st, Ends(p, st), ChildFrame
  PROVE  ListInv'
<1>1. /\ proc' = [proc EXCEPT ![p] = "zombie"] /\ killed' = killed \ {p}
      /\ UNCHANGED <<pids, cur>> /\ (pc' = pc \/ (pc = "blocked" /\ pc' = "reap"))
  BY DEF Ends, Interrupt, ChildFrame
<1>. QED
  BY <1>1
  DEF ListInv, OneEntryPerPid, ListMatchesChildren, SignalsOnlyOwnJails, Listed, TypeInv, TypeOK,
      Alive, Child

\* A jail that moves to its next stage stays an unreaped child.
LEMMA MovesList ==
  ASSUME TypeInv, ListInv, NEW p \in Pid, proc[p] \in Live, NEW stage \in Live,
         Moves(p, stage), ChildFrame
  PROVE  ListInv'
<1>1. /\ proc' = [proc EXCEPT ![p] = stage] /\ UNCHANGED <<pids, cur, pc, killed>>
  BY DEF Moves, ChildFrame
<1>. QED
  BY <1>1
  DEF ListInv, OneEntryPerPid, ListMatchesChildren, SignalsOnlyOwnJails, Listed, TypeInv, TypeOK,
      Alive, Child

\* The jails and the environment keep the list exact: nobody else reaps a child of
\* a living supervisor or takes its pid.
LEMMA WorldList ==
  ASSUME TypeInv, ListInv,
         \/ Tick \/ FatalSignal \/ ShowSignal \/ Crash \/ PeerResets
         \/ \E p \in Pid : \/ JailStep(p) \/ JailEnds(p) \/ JailStops(p) \/ OomKill(p)
                           \/ KillTakesEffect(p) \/ InitReaps(p) \/ Foreign(p)
  PROVE  ListInv'
<1>1. CASE Tick
  <2>1. /\ UNCHANGED <<cur, proc, killed>>
        /\ pc' = pc \/ (pc = "blocked" /\ pc' = "reap")
    BY <1>1 DEF Tick, Interrupt, jailVars
  <2>. DEFINE Older(e) == [e EXCEPT !.age = IF e.age < TLimit THEN e.age + 1 ELSE TLimit]
  <2>a. pids' = {Older(e) : e \in pids}
    BY <1>1 DEF Tick
  <2>2. \A e \in pids : Older(e).pid = e.pid
    BY DEF TypeInv, TypeOK, Entry
  <2>. HIDE DEF Older
  <2>3. \A p \in Pid : Listed(p)' <=> Listed(p)
    BY <2>a, <2>2 DEF Listed
  <2>4. \A e, f \in pids' : e.pid = f.pid => e = f
    BY <2>a, <2>2 DEF ListInv, OneEntryPerPid
  <2>5. pc = "add" => cur \in Pid
    BY DEF TypeInv, CurKnown
  <2>. QED
    BY <2>1, <2>3, <2>4, <2>5
    DEF ListInv, OneEntryPerPid, ListMatchesChildren, SignalsOnlyOwnJails, Alive
<1>2. CASE FatalSignal \/ ShowSignal
  BY <1>2, ListFrame DEF FatalSignal, ShowSignal, Interrupt, Alive, jailVars
<1>3. CASE Crash
  <2>1. pc' = "dead" /\ UNCHANGED <<pids, proc, killed>>
    BY <1>3 DEF Crash, End, jailVars
  <2>. QED
    BY <2>1 DEF ListInv, OneEntryPerPid, ListMatchesChildren, SignalsOnlyOwnJails, Alive
<1>4. CASE PeerResets
  BY <1>4, ListFrame DEF PeerResets, Alive, jailVars
<1>5. ASSUME NEW p \in Pid, JailStep(p) \/ JailEnds(p) \/ JailStops(p) \/ OomKill(p) \/ KillTakesEffect(p)
      PROVE  ListInv'
  <2>1. ChildFrame /\ proc[p] \in Live
    BY <1>5
    DEF JailStep, SetupFD, ReadDone, containContain, Execv, JailEnds, JailStops, OomKill,
        KillTakesEffect, Live, Held, Released
  <2>2. (\E st : Ends(p, st)) \/ (\E stage \in Live : Moves(p, stage))
    BY <1>5
    DEF JailStep, SetupFD, ReadDone, containContain, Execv, JailEnds, JailStops, OomKill,
        KillTakesEffect, Live, Held, Released
  <2>. QED
    BY <2>1, <2>2, EndsList, MovesList
<1>6. ASSUME NEW p \in Pid, InitReaps(p) PROVE ListInv'
  <2>1. /\ pc = "gone" /\ proc[p] = "zombie" /\ proc' = [proc EXCEPT ![p] = "free"]
        /\ UNCHANGED <<pc, pids, killed>>
    BY <1>6 DEF InitReaps, Forget, supVars
  <2>2. p \notin killed
    BY <2>1 DEF ListInv, SignalsOnlyOwnJails, Live, Held, Released
  <2>3. SignalsOnlyOwnJails'
    BY <2>1, <2>2 DEF ListInv, SignalsOnlyOwnJails, TypeInv, TypeOK
  <2>. QED
    BY <2>1, <2>3 DEF ListInv, OneEntryPerPid, ListMatchesChildren, Alive
<1>7. ASSUME NEW p \in Pid, Foreign(p) PROVE ListInv'
  <2>1. /\ proc[p] \notin Child /\ proc' \in {[proc EXCEPT ![p] = "foreign"], [proc EXCEPT ![p] = "free"]}
        /\ UNCHANGED <<pc, cur, pids, killed>>
    BY <1>7 DEF Foreign, supVars, Child, Live, Held, Released
  <2>. QED
    BY <2>1
    DEF ListInv, OneEntryPerPid, ListMatchesChildren, SignalsOnlyOwnJails, Alive, TypeInv, TypeOK,
        Listed, Child, Live, Held, Released
<1>. QED
  BY <1>1, <1>2, <1>3, <1>4, <1>5, <1>6, <1>7

\* One step of the system keeps ListInv.
LEMMA ListStep == TypeInv /\ SweepInv /\ ListInv /\ [Next]_vars => ListInv'
<1>. SUFFICES ASSUME TypeInv, SweepInv, ListInv, [Next]_vars PROVE ListInv'
  OBVIOUS
<1>1. CASE SupervisorStep
  BY <1>1, LoopList, RunChildList, ReapList DEF SupervisorStep
<1>2. CASE \E p \in Pid : JailStep(p)
  BY <1>2, WorldList
<1>3. CASE Environment
  BY <1>3, LoopList, WorldList DEF Environment
<1>4. CASE UNCHANGED vars
  BY <1>4, ListFrame DEF vars, supVars, jailVars, Alive
<1>. QED
  BY <1>1, <1>2, <1>3, <1>4 DEF Next

\* ListInv holds in every behaviour of subprocRunChild, subprocReap and the kernel.
LEMMA ListInvariant == Spec => []ListInv
<1>1. Init => ListInv
  BY DEF Init, ListInv, OneEntryPerPid, ListMatchesChildren, SignalsOnlyOwnJails, Listed, Child,
         Live, Held, Released
<1>. QED
  BY <1>1, ListStep, SweepInvariant, TypeInvariant, PTL DEF Spec

\* The supervisor's list and its unreaped children are the same, on every path
\* through subprocRunChild and subprocReap, for any number of pids.
THEOREM ListExact == Spec => []ListMatchesChildren
BY ListInvariant, PTL DEF ListInv

-----------------------------------------------------------------------------
(* What becomes of the SIGKILLs.                                           *)

\* A pending SIGKILL of a living supervisor is that of the time limit, and the list
\* that subprocKillAll walks is the set of the jails; before the end there has been
\* no shutdown, so that nobody is cloned after it.
KillInv ==
  /\ Alive => exit.why # "fatal" /\ \A p \in killed : OverTime(p)
  /\ exit.why = "fatal" => \A p \in Pid : proc[p] \in Live => p \in killed

\* A step that adds no signal, makes no jail and leaves those with a signal in the
\* list.
LEMMA KillFrame ==
  ASSUME KillInv, Alive' => Alive, exit' = exit \/ (exit'.why # "fatal" /\ ~Alive'),
         killed' \subseteq killed,
         \A p \in killed' : Alive' => (OverTime(p) => OverTime(p)'),
         \A p \in Pid : proc'[p] \in Live => proc[p] \in Live /\ (p \in killed => p \in killed')
  PROVE  KillInv'
BY DEF KillInv

\* The shutdown of either loop signals every jail that lives, because the list
\* is exact.
LEMMA LoopKill ==
  ASSUME TypeInv, ListInv, KillInv, ListenLoop \/ StandaloneLoop
  PROVE  KillInv'
<1>1. /\ Alive /\ pc # "add" /\ proc' = proc /\ pids' = pids
      /\ \/ killed' = killed /\ (exit' = exit \/ (exit'.why # "fatal" /\ ~Alive'))
         \/ subprocKillAll /\ ~Alive'
  BY DEF ListenLoop, StandaloneLoop, End, Alive
<1>2. CASE subprocKillAll /\ ~Alive'
  <2>1. \A p \in Pid : proc[p] \in Live => p \in {e.pid : e \in pids}
    BY <1>1 DEF ListInv, ListMatchesChildren, Listed, Child
  <2>. QED
    BY <1>1, <1>2, <2>1 DEF subprocKillAll, Kill, KillInv
<1>. QED
  BY <1>1, <1>2, KillFrame DEF OverTime

\* subprocReap's time limit loop signals jails that are over their time.
LEMMA TimeLimitKill ==
  ASSUME TypeInv, SweepInv, KillInv, Sweep
  PROVE  KillInv'
<1>1. Alive /\ exit' = exit /\ pids' = pids
  BY DEF Sweep, SweepCont, SweepKill, SweepDone, Alive
<1>2. \A p \in killed' : p \in killed \/ OverTime(p)
  BY <1>1 DEF Sweep, SweepCont, SweepKill, SweepDone, Kill, jailVars, SweepInv
<1>. QED
  BY <1>1, <1>2 DEF KillInv, OverTime

\* wait4() takes a zombie, on which no signal is pending, from the list.
LEMMA ReapKill ==
  ASSUME TypeInv, ListInv, KillInv, NEW p \in Pid, ReapOne(p)
  PROVE  KillInv'
<1>1. UNCHANGED <<pc, exit, killed>> /\ proc[p] = "zombie" /\ proc' = [proc EXCEPT ![p] = "free"]
  BY DEF ReapOne, Forget
<1>2. p \notin killed
  BY <1>1 DEF ListInv, SignalsOnlyOwnJails, Live, Held, Released
<1>3. \A e \in pids : e.pid # p => e \in pids'
  BY DEF ReapOne, subprocRemove
<1>4. \A q \in killed' : OverTime(q) => OverTime(q)'
  BY <1>1, <1>2, <1>3 DEF OverTime
<1>. QED
  BY <1>1, <1>4, KillFrame DEF TypeInv, TypeOK, Alive, Live, Held, Released

\* What a jail does by itself makes no jail and sends no signal.
LEMMA JailKill ==
  ASSUME TypeInv, KillInv, NEW p \in Pid,
         JailStep(p) \/ JailEnds(p) \/ JailStops(p) \/ OomKill(p) \/ KillTakesEffect(p)
  PROVE  KillInv'
<1>1. exit' = exit /\ proc[p] \in Live /\ pids' = pids
  BY DEF JailStep, SetupFD, ReadDone, containContain, Execv, JailEnds, JailStops, OomKill,
         KillTakesEffect, ChildFrame, Live, Held, Released
<1>2. \/ \E st : Ends(p, st)
      \/ \E stage : Moves(p, stage)
  BY Zenon DEF JailStep, SetupFD, ReadDone, containContain, Execv, JailEnds, OomKill,
               KillTakesEffect, JailStops
<1>3. ASSUME NEW st, Ends(p, st) PROVE KillInv'
  <2>1. /\ proc' = [proc EXCEPT ![p] = "zombie"] /\ killed' = killed \ {p}
        /\ Alive' => Alive
    BY <1>3 DEF Ends, Interrupt, Alive
  <2>. QED
    BY <1>1, <2>1, KillFrame DEF TypeInv, TypeOK, OverTime, Live, Held, Released
<1>4. ASSUME NEW stage, Moves(p, stage) PROVE KillInv'
  <2>1. proc' = [proc EXCEPT ![p] = stage] /\ UNCHANGED <<pc, killed>>
    BY <1>4 DEF Moves
  <2>. QED
    BY <1>1, <2>1, KillFrame DEF TypeInv, TypeOK, OverTime, Alive
<1>. QED
  BY <1>2, <1>3, <1>4

\* One step of the system keeps KillInv.
LEMMA KillStep == TypeInv /\ SweepInv /\ ListInv /\ KillInv /\ [Next]_vars => KillInv'
<1>. SUFFICES ASSUME TypeInv, SweepInv, ListInv, KillInv, [Next]_vars PROVE KillInv'
  OBVIOUS
<1>1. CASE \/ netGetRecvSocket \/ Block \/ netAcceptConn \/ LimitConns \/ Socketpair
           \/ CloneFails \/ subprocAdd \/ ReapDone \/ Tick \/ FatalSignal \/ ShowSignal
           \/ Crash \/ PeerResets
  <2>1. UNCHANGED <<proc, killed>>
    BY <1>1
    DEF netGetRecvSocket, Block, netAcceptConn, LimitConns, Socketpair, CloneFails, subprocAdd,
        ReapDone, Tick, FatalSignal, ShowSignal, Crash, PeerResets, jailVars
  <2>2. Alive' => Alive
    BY <1>1
    DEF netGetRecvSocket, Block, netAcceptConn, LimitConns, Socketpair, CloneFails, subprocAdd,
        ReapDone, Tick, FatalSignal, ShowSignal, Crash, PeerResets, Alive
  <2>3. exit' = exit \/ (exit'.why # "fatal" /\ ~Alive')
    BY <1>1
    DEF netGetRecvSocket, Block, netAcceptConn, LimitConns, Socketpair, CloneFails, subprocAdd,
        ReapDone, Tick, FatalSignal, ShowSignal, Crash, PeerResets, End, Alive
  <2>4. Tick \/ pids \subseteq pids'
    BY <1>1, Zenon
    DEF netGetRecvSocket, Block, netAcceptConn, LimitConns, Socketpair, CloneFails, subprocAdd,
        ReapDone, FatalSignal, ShowSignal, Crash, PeerResets
  <2>5. \A p : OverTime(p) => OverTime(p)'
    BY <2>4, TickKeepsOverTime DEF OverTime
  <2>. QED
    BY <2>1, <2>2, <2>3, <2>5, KillFrame
<1>2. CASE netInitNsFromParent \/ cgroupInitNsFromParent \/ userInitNsFromParent \/ WriteDone
  <2>1. UNCHANGED <<pids, proc, killed>> /\ Alive
    BY <1>2
    DEF netInitNsFromParent, cgroupInitNsFromParent, userInitNsFromParent, WriteDone, Alive
  <2>2. exit' = exit \/ (exit'.why # "fatal" /\ ~Alive')
    BY <1>2
    DEF netInitNsFromParent, cgroupInitNsFromParent, userInitNsFromParent, WriteDone, Prepared,
        InitParentFails, Return, End, Alive
  <2>. QED
    BY <2>1, <2>2, KillFrame DEF OverTime
<1>3. ASSUME NEW p \in Pid, Clone(p) PROVE KillInv'
  <2>1. Alive /\ exit' = exit /\ killed' = killed /\ pids' = pids
    BY <1>3 DEF Clone, Alive
  <2>. QED
    BY <2>1 DEF KillInv, OverTime
<1>4. ASSUME NEW p \in Pid, InitReaps(p) \/ Foreign(p) PROVE KillInv'
  <2>1. /\ proc' \in {[proc EXCEPT ![p] = "free"], [proc EXCEPT ![p] = "foreign"]}
        /\ UNCHANGED <<pc, exit, killed, pids>>
    BY <1>4 DEF InitReaps, Foreign, Forget, supVars
  <2>. QED
    BY <2>1, KillFrame DEF Alive, OverTime, TypeInv, TypeOK, Live, Held, Released
<1>5. CASE Gone
  <2>1. UNCHANGED <<exit, proc>> /\ killed \subseteq killed' /\ ~Alive'
    BY <1>5 DEF Gone, Kill, Alive
  <2>. QED
    BY <2>1 DEF KillInv
<1>6. CASE UNCHANGED vars
  BY <1>6, KillFrame DEF vars, supVars, jailVars, Alive, OverTime
<1>. QED
  BY <1>1, <1>2, <1>3, <1>4, <1>5, <1>6, LoopKill, TimeLimitKill, ReapKill, JailKill
  DEF Next, SupervisorStep, Environment

\* Every SIGKILL the supervisor sends is pending on a living jail of its own, however
\* pids are reused; while it runs, on one that is listed and has used up its time,
\* also if the jail stopped again after the SIGCONT and the signal has no effect;
\* and the shutdown leaves no living jail without one.
THEOREM KillsReach == Spec => []KillsReachJails
<1>1. Init => KillInv
  BY DEF Init, KillInv
<1>2. ListInv /\ KillInv => KillsReachJails
  BY DEF ListInv, SignalsOnlyOwnJails, KillInv, KillsReachJails
<1>. QED
  BY <1>1, <1>2, KillStep, ListInvariant, SweepInvariant, TypeInvariant, PTL DEF Spec

-----------------------------------------------------------------------------
(* The handshake.                                                          *)

\* subprocInitParent sets the parts up one after the other, and a jail that
\* can read the done byte has all of them.  JailOnlyAfterSetup alone is not
\* inductive: it does not say what the byte in the socketpair stands for.
SetupInv ==
  /\ JailOnlyAfterSetup
  /\ \A p \in Pid : proc[p] \in Held /\ pipe[p] = "byte" => Parts \subseteq setup[p]
  /\ pc = "cgroup" => Parts \cap {"net"} \subseteq setup[cur]
  /\ pc = "user" => Parts \cap {"net", "cgroup"} \subseteq setup[cur]
  /\ pc = "write" => Parts \subseteq setup[cur]

\* A step that leaves the jails' stages, sockets and set up alone.
LEMMA SetupFrame ==
  ASSUME SetupInv, UNCHANGED <<proc, pipe, setup>>,
         (UNCHANGED <<pc, cur>>) \/ pc' \notin {"cgroup", "user", "write"}
  PROVE  SetupInv'
BY DEF SetupInv, JailOnlyAfterSetup

\* A jail passes the handshake only if the byte was there.
LEMMA MovesSetup ==
  ASSUME TypeInv, SetupInv, NEW p \in Pid, NEW stage \in Live, Moves(p, stage), ChildFrame,
         \/ proc[p] \in Released
         \/ proc[p] \in Held /\ stage \in Held
         \/ proc[p] \in Held /\ pipe[p] = "byte"
  PROVE  SetupInv'
<1>1. proc' = [proc EXCEPT ![p] = stage] /\ UNCHANGED <<pc, cur, pipe, setup>>
  BY DEF Moves, ChildFrame
<1>2. stage \in Released \/ pipe[p] = "byte" => Parts \subseteq setup[p]
  BY DEF SetupInv, JailOnlyAfterSetup, Held, Released
<1>. QED
  BY <1>1, <1>2 DEF SetupInv, JailOnlyAfterSetup, TypeInv, TypeOK, Live

\* A pid whose process is or becomes neither held nor released is of no concern.
LEMMA DropSetup ==
  ASSUME TypeInv, SetupInv, NEW p \in Pid, NEW x \in {"zombie", "free", "foreign"},
         proc' = [proc EXCEPT ![p] = x],
         \A q \in Pid \ {p} : pipe'[q] = pipe[q] /\ setup'[q] = setup[q],
         \/ UNCHANGED <<pc, cur, setup>>
         \/ pc' \notin {"cgroup", "user", "write"}
  PROVE  SetupInv'
BY DEF SetupInv, JailOnlyAfterSetup, TypeInv, TypeOK, Held, Released

\* Lemma for the steps of subprocInitParent.
LEMMA InitParentSetup ==
  ASSUME TypeInv, SetupInv,
         netInitNsFromParent \/ cgroupInitNsFromParent \/ userInitNsFromParent \/ WriteDone
  PROVE  SetupInv'
<1>1. cur \in Pid /\ proc' = proc
  BY DEF netInitNsFromParent, cgroupInitNsFromParent, userInitNsFromParent, WriteDone, TypeInv,
         CurKnown
<1>2. CASE InitParentFails
  BY <1>1, <1>2 DEF InitParentFails, Return, SetupInv, JailOnlyAfterSetup, TypeInv, TypeOK
<1>3. ASSUME NEW part \in AllParts, NEW next, Prepared(part, next),
             <<part, pc, next>> \in {<<"net", "net", "cgroup">>, <<"cgroup", "cgroup", "user">>,
                                     <<"user", "user", "write">>}
      PROVE  SetupInv'
  <2>1. /\ setup' = [setup EXCEPT ![cur] = @ \cup ({part} \cap Parts)]
        /\ UNCHANGED <<cur, pipe>> /\ pc' = next
    BY <1>3 DEF Prepared
  <2>2. \A p \in Pid : setup[p] \subseteq setup'[p]
    BY <1>1, <2>1 DEF TypeInv, TypeOK
  <2>3. {part} \cap Parts \subseteq setup'[cur]
    BY <1>1, <2>1 DEF TypeInv, TypeOK
  <2>4. Parts \subseteq AllParts
    BY DataAssumption
  <2>. QED
    BY <1>1, <1>3, <2>1, <2>2, <2>3, <2>4 DEF SetupInv, JailOnlyAfterSetup, AllParts
<1>4. CASE netInitNsFromParent
  BY <1>2, <1>3, <1>4 DEF netInitNsFromParent, AllParts
<1>5. CASE cgroupInitNsFromParent
  <2>1. CASE Prepared("cgroup", "user")
    BY <1>3, <1>5, <2>1 DEF cgroupInitNsFromParent, AllParts
  <2>2. CASE End("exit", 1) /\ UNCHANGED <<cur, fds, peer, pipe, setup>>
    BY <1>1, <2>2, SetupFrame DEF End
  <2>. QED
    BY <1>5, <2>1, <2>2 DEF cgroupInitNsFromParent
<1>6. CASE userInitNsFromParent
  <2>1. CASE Prepared("user", "write")
    BY <1>3, <1>6, <2>1 DEF userInitNsFromParent, AllParts
  <2>2. CASE pc' = "hung" /\ UNCHANGED <<cur, fds, peer, pipe, setup, exit>>
    BY <1>1, <2>2, SetupFrame
  <2>. QED
    BY <1>2, <1>6, <2>1, <2>2 DEF userInitNsFromParent
<1>7. CASE WriteDone
  <2>1. Parts \subseteq setup[cur] /\ setup' = setup /\ pc' \in {"reap", "dead"}
    BY <1>7 DEF WriteDone, Return, End, SetupInv
  <2>2. pipe' = [pipe EXCEPT ![cur] = "byte"] \/ pipe' = pipe
    BY <1>7 DEF WriteDone
  <2>. QED
    BY <1>1, <2>1, <2>2 DEF SetupInv, JailOnlyAfterSetup, TypeInv, TypeOK
<1>. QED
  BY <1>4, <1>5, <1>6, <1>7

\* One step of the system keeps SetupInv, which ties the done byte of
\* subprocInitParent to the set up it stands for.
LEMMA SetupStep == TypeInv /\ SetupInv /\ [Next]_vars => SetupInv'
<1>. SUFFICES ASSUME TypeInv, SetupInv, [Next]_vars PROVE SetupInv'
  OBVIOUS
<1>1. CASE netGetRecvSocket \/ ListenLoop \/ Block \/ StandaloneLoop \/ netAcceptConn
           \/ LimitConns \/ Socketpair \/ CloneFails \/ subprocAdd \/ ReapDone \/ Crash \/ PeerResets
  <2>1. UNCHANGED <<proc, pipe, setup>>
    BY <1>1, Zenon
    DEF netGetRecvSocket, ListenLoop, Block, StandaloneLoop, netAcceptConn, LimitConns, Socketpair,
        CloneFails, subprocAdd, ReapDone, Crash, PeerResets, jailVars
  <2>2. (UNCHANGED <<pc, cur>>) \/ pc' \notin {"cgroup", "user", "write"}
    BY <1>1, Zenon
    DEF netGetRecvSocket, ListenLoop, Block, StandaloneLoop, netAcceptConn, LimitConns, Socketpair,
        CloneFails, subprocAdd, ReapDone, Crash, PeerResets, Return, End
  <2>. QED
    BY <2>1, <2>2, SetupFrame
<1>2. CASE Tick \/ FatalSignal \/ ShowSignal
  <2>1. UNCHANGED <<proc, pipe, setup, cur>>
    BY <1>2 DEF Tick, FatalSignal, ShowSignal, jailVars
  <2>2. pc' = pc \/ pc' = "reap"
    BY <1>2 DEF Tick, FatalSignal, ShowSignal, Interrupt
  <2>. QED
    BY <2>1, <2>2, SetupFrame
<1>3. ASSUME NEW p \in Pid, Clone(p) PROVE SetupInv'
  BY <1>3 DEF Clone, SetupInv, JailOnlyAfterSetup, TypeInv, TypeOK, Held, Released
<1>4. CASE netInitNsFromParent \/ cgroupInitNsFromParent \/ userInitNsFromParent \/ WriteDone
  BY <1>4, InitParentSetup
<1>5. ASSUME NEW p \in Pid, ReapOne(p) \/ InitReaps(p) PROVE SetupInv'
  <2>1. /\ proc' = [proc EXCEPT ![p] = "free"]
        /\ \A q \in Pid \ {p} : pipe'[q] = pipe[q] /\ setup'[q] = setup[q]
        /\ pc' \in {"reap", "gone"}
    BY <1>5 DEF ReapOne, InitReaps, Forget, supVars, TypeInv, TypeOK
  <2>. QED
    BY <2>1, DropSetup, ZenonT(40)
<1>6. CASE Sweep
  BY <1>6, SweepEffect DEF SetupInv, JailOnlyAfterSetup, Held, Released
<1>7. CASE Gone
  BY <1>7 DEF Gone, SetupInv, JailOnlyAfterSetup
<1>8. ASSUME NEW p \in Pid, JailStep(p) \/ JailEnds(p) \/ JailStops(p) \/ OomKill(p) \/ KillTakesEffect(p)
      PROVE  SetupInv'
  <2>1. ChildFrame
    BY <1>8
    DEF JailStep, SetupFD, ReadDone, containContain, Execv, JailEnds, JailStops, OomKill,
        KillTakesEffect
  <2>2. \/ \E st : Ends(p, st)
        \/ \E stage \in Live :
             /\ Moves(p, stage)
             /\ \/ proc[p] \in Released
                \/ proc[p] \in Held /\ stage \in Held
                \/ proc[p] \in Held /\ pipe[p] = "byte"
    BY <1>8
    DEF JailStep, SetupFD, ReadDone, containContain, Execv, JailEnds, JailStops, OomKill,
        KillTakesEffect, Live, Held, Released
  <2>3. ASSUME NEW st, Ends(p, st) PROVE SetupInv'
    <3>1. /\ proc' = [proc EXCEPT ![p] = "zombie"] /\ UNCHANGED <<pipe, setup, cur>>
          /\ pc' = pc \/ pc' = "reap"
      BY <2>1, <2>3 DEF Ends, Interrupt, ChildFrame
    <3>. QED
      BY <3>1, DropSetup, ZenonT(40)
  <2>. QED
    BY <2>1, <2>2, <2>3, MovesSetup
<1>9. ASSUME NEW p \in Pid, Foreign(p) PROVE SetupInv'
  BY <1>9, DropSetup DEF Foreign, supVars
<1>10. CASE UNCHANGED vars
  BY <1>10, SetupFrame DEF vars, supVars, jailVars
<1>. QED
  BY <1>1, <1>2, <1>3, <1>4, <1>5, <1>6, <1>7, <1>8, <1>9, <1>10
  DEF Next, SupervisorStep, Environment

\* No jail confines itself or runs its command before the parent completed its
\* network, cgroup and user set up, whatever fails and whoever dies.
LEMMA SetupComesFirst == Spec => []JailOnlyAfterSetup
<1>1. Init => SetupInv
  BY ModeAssumption DEF Init, SetupInv, JailOnlyAfterSetup, Held, Released
<1>2. SetupInv => JailOnlyAfterSetup
  BY DEF SetupInv
<1>. QED
  BY <1>1, <1>2, SetupStep, TypeInvariant, PTL DEF Spec

\* A jail that has no answer on its socketpair yet is the one being served; that
\* it has a socketpair is what lets the kernel answer for a dead supervisor.
WaitInv ==
  \A p \in Pid : proc[p] \in Held =>
    /\ pipe[p] # "none"
    /\ pipe[p] \in {"byte", "eof"} \/ (ServesCur /\ p = cur) \/ pc = "dead"

\* A step after which no jail is held that was not held before, and which keeps
\* the answers: the supervisor stays with the jail it serves, dies, or served
\* nobody.
LEMMA WaitFrame ==
  ASSUME WaitInv, \A p \in Pid : proc'[p] \in Held => proc[p] \in Held /\ pipe'[p] = pipe[p],
         \/ pc' = "dead"
         \/ ServesCur /\ ServesCur' /\ cur' = cur
         \/ ~ServesCur /\ pc # "dead"
         \/ pc' = pc /\ cur' = cur
  PROVE  WaitInv'
<1>. SUFFICES ASSUME NEW p \in Pid, proc'[p] \in Held
              PROVE  /\ pipe'[p] # "none"
                     /\ pipe'[p] \in {"byte", "eof"} \/ (ServesCur' /\ p = cur') \/ pc' = "dead"
  BY Zenon DEF WaitInv
<1>1. pipe'[p] = pipe[p] /\ pipe[p] # "none"
  BY Zenon DEF WaitInv
<1>2. pipe[p] \in {"byte", "eof"} \/ (ServesCur /\ p = cur) \/ pc = "dead"
  BY Zenon DEF WaitInv
<1>. QED
  BY <1>1, <1>2, Zenon DEF ServesCur

\* The steps of subprocRunChild after clone(): the jail gets its answer, or the
\* supervisor goes on with it, hangs or dies.
LEMMA ServeWait ==
  ASSUME TypeInv, WaitInv,
         \/ subprocAdd \/ netInitNsFromParent \/ cgroupInitNsFromParent \/ userInitNsFromParent
         \/ WriteDone
  PROVE  WaitInv'
<1>1. cur \in Pid /\ ServesCur /\ pc # "dead" /\ proc' = proc
  BY DEF subprocAdd, netInitNsFromParent, cgroupInitNsFromParent, userInitNsFromParent, WriteDone,
         ServesCur, TypeInv, CurKnown, jailVars
<1>2. \/ pipe' = pipe /\ (pc' = "dead" \/ (ServesCur' /\ cur' = cur))
      \/ pipe' = [pipe EXCEPT ![cur] = "eof"]
      \/ pipe' = [pipe EXCEPT ![cur] = "byte"]
  BY DEF subprocAdd, netInitNsFromParent, cgroupInitNsFromParent, userInitNsFromParent, WriteDone,
         Prepared, InitParentFails, End, ServesCur, jailVars
<1>3. CASE pipe' = pipe /\ (pc' = "dead" \/ (ServesCur' /\ cur' = cur))
  BY <1>1, <1>3, WaitFrame
<1>4. CASE pipe' \in {[pipe EXCEPT ![cur] = "eof"], [pipe EXCEPT ![cur] = "byte"]}
  BY <1>1, <1>4 DEF WaitInv, TypeInv, TypeOK
<1>. QED
  BY <1>2, <1>3, <1>4

\* One step of the system keeps WaitInv.
LEMMA WaitStep == TypeInv /\ WaitInv /\ [Next]_vars => WaitInv'
<1>. SUFFICES ASSUME TypeInv, WaitInv, [Next]_vars PROVE WaitInv'
  OBVIOUS
<1>1. CASE \/ netGetRecvSocket \/ ListenLoop \/ Block \/ StandaloneLoop \/ netAcceptConn
           \/ LimitConns \/ Socketpair \/ CloneFails \/ ReapDone
  <2>1. UNCHANGED <<proc, pipe>>
    BY <1>1
    DEF netGetRecvSocket, ListenLoop, Block, StandaloneLoop, netAcceptConn, LimitConns, Socketpair,
        CloneFails, ReapDone, jailVars
  <2>2. ~ServesCur /\ pc # "dead"
    BY <1>1
    DEF netGetRecvSocket, ListenLoop, Block, StandaloneLoop, netAcceptConn, LimitConns, Socketpair,
        CloneFails, ReapDone, ServesCur
  <2>. QED
    BY <2>1, <2>2, WaitFrame
<1>2. CASE Tick \/ FatalSignal \/ ShowSignal \/ Crash \/ PeerResets \/ UNCHANGED vars
  <2>1. UNCHANGED <<proc, pipe, cur>>
    BY <1>2 DEF Tick, FatalSignal, ShowSignal, Crash, PeerResets, jailVars, vars, supVars
  <2>2. pc' = "dead" \/ pc' = pc \/ (~ServesCur /\ pc # "dead")
    BY <1>2
    DEF Tick, FatalSignal, ShowSignal, Crash, PeerResets, Interrupt, End, ServesCur, vars, supVars
  <2>. QED
    BY <2>1, <2>2, WaitFrame
<1>3. ASSUME NEW p \in Pid, Clone(p) PROVE WaitInv'
  <2>1. /\ ~ServesCur /\ pc # "dead" /\ ServesCur' /\ cur' = p
        /\ proc' = [proc EXCEPT ![p] = "new"] /\ pipe' = [pipe EXCEPT ![p] = "open"]
    BY <1>3 DEF Clone, ServesCur
  <2>. QED
    BY <2>1 DEF WaitInv, TypeInv, TypeOK
<1>4. ASSUME NEW p \in Pid, ReapOne(p) \/ InitReaps(p) PROVE WaitInv'
  <2>1. /\ proc' = [proc EXCEPT ![p] = "free"] /\ pipe' = [pipe EXCEPT ![p] = "none"]
        /\ UNCHANGED <<pc, cur>>
    BY <1>4 DEF ReapOne, InitReaps, Forget, supVars
  <2>2. \A q \in Pid : proc'[q] \in Held => proc[q] \in Held /\ pipe'[q] = pipe[q]
    BY <2>1 DEF TypeInv, TypeOK, Held
  <2>. QED
    BY <2>1, <2>2, WaitFrame
<1>5. CASE Sweep
  <2>1. /\ ~ServesCur /\ pc # "dead" /\ pipe' = pipe
        /\ \A p \in Pid : proc'[p] \in Held => proc[p] \in Held
    BY <1>5, SweepEffect DEF ServesCur, Held
  <2>. QED
    BY <2>1, WaitFrame
<1>6. CASE Gone
  <2>1. proc' = proc /\ \A p \in Pid : pipe'[p] = IF pipe[p] = "open" THEN "eof" ELSE pipe[p]
    BY <1>6 DEF Gone
  <2>. QED
    BY <2>1 DEF WaitInv, TypeInv, TypeOK
<1>7. ASSUME NEW p \in Pid,
             \/ JailStep(p) \/ JailEnds(p) \/ JailStops(p) \/ OomKill(p) \/ KillTakesEffect(p)
             \/ Foreign(p)
      PROVE  WaitInv'
  <2>1. /\ UNCHANGED <<cur, pipe>>
        /\ \E x : proc' = [proc EXCEPT ![p] = x] /\ (x \in Held => proc[p] \in Held)
    BY <1>7, Zenon
    DEF JailStep, SetupFD, ReadDone, containContain, Execv, JailEnds, JailStops, OomKill,
        KillTakesEffect, Foreign, ChildFrame, Ends, Moves, Held, supVars
  <2>2. pc' = pc \/ (~ServesCur /\ pc # "dead")
    BY <1>7, Zenon
    DEF JailStep, SetupFD, ReadDone, containContain, Execv, JailEnds, JailStops, OomKill,
        KillTakesEffect, Foreign, Ends, Moves, Interrupt, ServesCur, supVars
  <2>3. \A q \in Pid : proc'[q] \in Held => proc[q] \in Held
    BY <2>1 DEF TypeInv, TypeOK
  <2>. QED
    BY <2>1, <2>2, <2>3, WaitFrame
<1>. QED
  BY <1>1, <1>2, <1>3, <1>4, <1>5, <1>6, <1>7, ServeWait
  DEF Next, SupervisorStep, Environment

\* The handshake is sound: no jail confines itself or runs its command before
\* its set up is complete, and none is forgotten before its read: it has an
\* answer, or is the one subprocInitParent works on (or hangs over, in user.c),
\* or the supervisor is dead, whatever fails.
THEOREM HandshakeIsSound == Spec => []HandshakeSound
<1>1. Init => WaitInv
  BY DEF Init, WaitInv, Held
<1>2. JailOnlyAfterSetup /\ WaitInv => HandshakeSound
  BY DEF WaitInv, HandshakeSound
<1>. QED
  BY <1>1, <1>2, WaitStep, SetupComesFirst, TypeInvariant, PTL DEF Spec

-----------------------------------------------------------------------------
(* The supervisor implements JailLifecycle: every step of the supervisor,   *)
(* of a jail or of the kernel is a step of the abstract life of one jail,   *)
(* the end of the supervisor, or changes nothing the abstraction shows.     *)

\* The refinement mapping of SupervisorProperties.
Phase == [p \in Pid |-> PhaseOf(p)]

Ready == {p \in Pid : Parts \subseteq setup[p] /\ proc[p] \in Child}

\* While subprocInitParent works on a jail, the jail waits at its end of the
\* socketpair or is dead: the done byte has not been written and parent_fd is
\* open.  Without this a set up step could be one of an admitted jail.
HandshakeInv ==
  pc \in {"add", "net", "cgroup", "user", "write"} =>
    proc[cur] \in Held \cup {"zombie"} /\ pipe[cur] = "open"

\* What each phase stands for.
PhaseTable ==
  \A p \in Pid : /\ PhaseOf(p) = "none" <=> proc[p] \in {"free", "foreign"}
                 /\ PhaseOf(p) = "held" <=> proc[p] \in Held /\ pipe[p] # "byte"
                 /\ PhaseOf(p) = "admitted" <=> proc[p] \in Held /\ pipe[p] = "byte"
                 /\ PhaseOf(p) = "confined" <=> proc[p] \in Released
                 /\ PhaseOf(p) = "over" <=> proc[p] = "zombie"

\* PhaseOf has one phase for each stage subprocNewProc and the kernel put a jail in.
LEMMA PhaseMeaning == TypeInv => PhaseTable
<1>. SUFFICES ASSUME TypeInv, NEW p \in Pid
              PROVE  /\ PhaseOf(p) = "none" <=> proc[p] \in {"free", "foreign"}
                     /\ PhaseOf(p) = "held" <=> proc[p] \in Held /\ pipe[p] # "byte"
                     /\ PhaseOf(p) = "admitted" <=> proc[p] \in Held /\ pipe[p] = "byte"
                     /\ PhaseOf(p) = "confined" <=> proc[p] \in Released
                     /\ PhaseOf(p) = "over" <=> proc[p] = "zombie"
  BY DEF PhaseTable
<1>1. proc[p] \in {"free", "foreign", "zombie"} \cup Held \cup Released
  BY DEF TypeInv, TypeOK, Child, Live
<1>2. CASE proc[p] \in {"free", "foreign"}
  BY <1>2 DEF PhaseOf, Held, Released
<1>3. CASE proc[p] \in Held /\ pipe[p] = "byte"
  BY <1>3 DEF PhaseOf, Held, Released
<1>4. CASE proc[p] \in Held /\ pipe[p] # "byte"
  BY <1>4 DEF PhaseOf, Held, Released
<1>5. CASE proc[p] \in Released
  BY <1>5 DEF PhaseOf, Held, Released
<1>6. CASE proc[p] = "zombie"
  BY <1>6 DEF PhaseOf, Held, Released
<1>. QED
  BY <1>1, <1>2, <1>3, <1>4, <1>5, <1>6

\* The same after the step.
LEMMA PhaseMeaningNext == TypeInv' => PhaseTable'
BY PhaseMeaning, PTL

\* A step that leaves the jails, their sockets and their set up alone.
LEMMA JailsFrame ==
  ASSUME UNCHANGED <<proc, pipe, setup>>
  PROVE  Phase' = Phase /\ Ready' = Ready
BY DEF Phase, Ready, PhaseOf

\* A step that concerns one jail.
LEMMA OneJail ==
  ASSUME TypeInv, TypeInv', NEW p \in Pid,
         \A q \in Pid \ {p} : proc'[q] = proc[q] /\ pipe'[q] = pipe[q] /\ setup'[q] = setup[q]
  PROVE  /\ Phase' = [Phase EXCEPT ![p] = PhaseOf(p)']
         /\ \A q \in Pid \ {p} : q \in Ready' <=> q \in Ready
<1>1. \A q \in Pid \ {p} : PhaseOf(q)' = PhaseOf(q)
  BY DEF PhaseOf
<1>. QED
  BY <1>1, Zenon DEF Phase, Ready

\* Nothing the abstraction shows has changed.
LEMMA Stutters ==
  ASSUME Phase' = Phase, Ready' = Ready, Alive' <=> Alive
  PROVE  UNCHANGED Lifecycle!vars
BY Zenon DEF Lifecycle!vars, Phase, Ready

\* The supervisor ends.
LEMMA GoesDown ==
  ASSUME Phase' = Phase, Ready' = Ready, Alive, ~Alive'
  PROVE  Lifecycle!Next
<1>a. Alive' = FALSE
  BY DEF Alive
<1>1. Lifecycle!Down
  BY <1>a, Zenon DEF Lifecycle!Down, Phase, Ready
<1>. QED
  BY <1>1, Zenon DEF Lifecycle!Next

\* The steps of the two loops, of the time limit and of the signals.
LEMMA LoopLife ==
  ASSUME TypeInv,
         \/ netGetRecvSocket \/ ListenLoop \/ Block \/ StandaloneLoop \/ netAcceptConn
         \/ LimitConns \/ Socketpair \/ CloneFails \/ subprocAdd \/ ReapDone
         \/ Tick \/ FatalSignal \/ ShowSignal \/ Crash \/ PeerResets
  PROVE  [Lifecycle!Next]_(Lifecycle!vars)
<1>1. UNCHANGED <<proc, pipe, setup>>
  BY DEF netGetRecvSocket, ListenLoop, Block, StandaloneLoop, netAcceptConn, LimitConns, Socketpair,
         CloneFails, subprocAdd, ReapDone, Tick, FatalSignal, ShowSignal, Crash, PeerResets,
         jailVars
<1>2. Alive' => Alive
  BY DEF netGetRecvSocket, ListenLoop, Block, StandaloneLoop, netAcceptConn, LimitConns, Socketpair,
         CloneFails, subprocAdd, ReapDone, Tick, FatalSignal, ShowSignal, Crash, PeerResets,
         Interrupt, Alive
<1>. QED
  BY <1>1, <1>2, JailsFrame, Stutters, GoesDown

\* clone() creates a held jail.
LEMMA CloneLife ==
  ASSUME TypeInv, TypeInv', NEW p \in Pid, Clone(p)
  PROVE  Lifecycle!Next
<1>1. /\ Alive /\ Alive' /\ proc[p] = "free" /\ proc' = [proc EXCEPT ![p] = "new"]
      /\ pipe' = [pipe EXCEPT ![p] = "open"] /\ setup' = setup
  BY DEF Clone, Alive
<1>2. PhaseOf(p) = "none" /\ PhaseOf(p)' = "held"
  BY <1>1, PhaseMeaning, PhaseMeaningNext, ZenonT(40)
     DEF PhaseTable, TypeInv, TypeOK, Held
<1>3. /\ Phase' = [Phase EXCEPT ![p] = "held"]
      /\ \A q \in Pid \ {p} : q \in Ready' <=> q \in Ready
  BY <1>1, <1>2, OneJail, ZenonT(40) DEF TypeInv, TypeOK
<1>4. Ready' \in {Ready, Ready \cup {p}}
  BY <1>1, <1>3 DEF Ready, Child, Live, Held, Released
<1>5. Lifecycle!Create(p)
  BY <1>1, <1>2, <1>3, <1>4 DEF Lifecycle!Create, Lifecycle!Step, Phase, Ready
<1>. QED
  BY <1>5 DEF Lifecycle!Next

\* subprocInitParent prepares the jail, gives up on it, or ends the supervisor.
LEMMA PartLife ==
  ASSUME TypeInv, TypeInv', HandshakeInv,
         netInitNsFromParent \/ cgroupInitNsFromParent \/ userInitNsFromParent
  PROVE  [Lifecycle!Next]_(Lifecycle!vars)
<1>. PICK p \in Pid : p = cur
  BY DEF netInitNsFromParent, cgroupInitNsFromParent, userInitNsFromParent, TypeInv, CurKnown
<1>1. /\ Alive /\ p = cur /\ proc' = proc
      /\ proc[p] \in Held \cup {"zombie"} /\ pipe[p] = "open"
  BY DEF netInitNsFromParent, cgroupInitNsFromParent, userInitNsFromParent, Alive, TypeInv,
      CurKnown,
         HandshakeInv
<1>2. ASSUME NEW part, NEW next \in {"cgroup", "user", "write"}, Prepared(part, next)
      PROVE  [Lifecycle!Next]_(Lifecycle!vars)
  <2>1. /\ Alive' /\ pipe' = pipe
        /\ setup' = [setup EXCEPT ![p] = @ \cup ({part} \cap Parts)]
    BY <1>2 DEF Prepared, Alive
  <2>2. Phase' = Phase
    BY <1>1, <2>1 DEF Phase, PhaseOf
  <2>3. \A q \in Pid \ {p} : q \in Ready' <=> q \in Ready
    BY <1>1, <2>1, OneJail
  <2>4. p \in Ready => p \in Ready'
    BY <1>1, <2>1 DEF Ready, TypeInv, TypeOK
  <2>5. CASE Ready' = Ready
    BY <1>1, <2>1, <2>2, <2>5, Stutters
  <2>6. CASE Ready' = Ready \cup {p}
    <3>1. Phase[p] \in {"held", "over"}
      BY <1>1, PhaseMeaning DEF PhaseTable, Phase
    <3>2. Lifecycle!Prepare(p)
      BY <1>1, <2>1, <2>2, <2>6, <3>1 DEF Lifecycle!Prepare, Phase, Ready
    <3>. QED
      BY <1>1, <3>2 DEF Lifecycle!Next
  <2>. QED
    BY <1>1, <2>3, <2>4, <2>5, <2>6 DEF Ready
<1>3. CASE InitParentFails
  <2>1. Alive' /\ setup' = setup /\ pipe' = [pipe EXCEPT ![p] = "eof"]
    BY <1>3 DEF InitParentFails, Return, Alive
  <2>2. PhaseOf(p)' = PhaseOf(p)
    BY <1>1, <2>1 DEF PhaseOf, TypeInv, TypeOK
  <2>3. Ready' = Ready
    BY <1>1, <2>1 DEF Ready
  <2>4. Phase' = [Phase EXCEPT ![p] = PhaseOf(p)]
    BY <1>1, <2>1, <2>2, OneJail, Zenon DEF TypeInv, TypeOK
  <2>5. Phase' = Phase
    BY <2>4, ZenonT(40) DEF Phase
  <2>. QED
    BY <1>1, <2>1, <2>3, <2>5, Stutters
<1>4. CASE UNCHANGED <<pipe, setup>>
  BY <1>1, <1>4, JailsFrame, Stutters, GoesDown
<1>. QED
  BY <1>2, <1>3, <1>4 DEF netInitNsFromParent, cgroupInitNsFromParent, userInitNsFromParent

\* The done byte admits a jail that is prepared; SIGPIPE ends the supervisor.
LEMMA WriteLife ==
  ASSUME TypeInv, TypeInv', SetupInv, HandshakeInv, WriteDone
  PROVE  Lifecycle!Next
<1>. PICK p \in Pid : p = cur
  BY DEF WriteDone, TypeInv, CurKnown
<1>1. /\ Alive /\ p = cur /\ UNCHANGED <<proc, setup>>
      /\ proc[p] \in Held \cup {"zombie"} /\ pipe[p] = "open" /\ Parts \subseteq setup[p]
  BY DEF WriteDone, Alive, TypeInv, CurKnown, HandshakeInv, SetupInv
<1>2. CASE ~CurDead /\ pipe' = [pipe EXCEPT ![cur] = "byte"] /\ Return(fds \ {"parent_fd"})
  <2>1. Alive' /\ proc[p] \in Held
    BY <1>1, <1>2 DEF Return, Alive, CurDead
  <2>2. PhaseOf(p) = "held" /\ PhaseOf(p)' = "admitted"
    BY <1>1, <1>2, <2>1, PhaseMeaning, PhaseMeaningNext, ZenonT(40)
       DEF PhaseTable, TypeInv, TypeOK
  <2>3. Phase' = [Phase EXCEPT ![p] = "admitted"]
    BY <1>1, <1>2, <2>2, OneJail, ZenonT(40) DEF TypeInv, TypeOK
  <2>4. Ready' = Ready /\ p \in Ready
    BY <1>1, <2>1 DEF Ready, Child, Live
  <2>5. Lifecycle!Admit(p)
    BY <1>1, <2>1, <2>2, <2>3, <2>4 DEF Lifecycle!Admit, Lifecycle!Step, Phase, Ready
  <2>. QED
    BY <1>1, <2>5 DEF Lifecycle!Next
<1>3. CASE End("sigpipe", 0) /\ pipe' = pipe
  BY <1>1, <1>3, JailsFrame, GoesDown DEF End, Alive
<1>. QED
  BY <1>2, <1>3 DEF WriteDone

\* A jail that ends was held, admitted or confined.
LEMMA EndsLife ==
  ASSUME TypeInv, TypeInv', NEW p \in Pid, proc[p] \in Live, NEW st, Ends(p, st), ChildFrame
  PROVE  Lifecycle!Next
<1>1. /\ proc' = [proc EXCEPT ![p] = "zombie"] /\ UNCHANGED <<pipe, setup>> /\ (Alive' <=> Alive)
  BY DEF Ends, Interrupt, ChildFrame, Alive
<1>2. PhaseOf(p) \in {"held", "admitted", "confined"} /\ PhaseOf(p)' = "over"
  BY <1>1, PhaseMeaning, PhaseMeaningNext, ZenonT(40)
     DEF PhaseTable, TypeInv, TypeOK, Live
<1>3. Phase' = [Phase EXCEPT ![p] = "over"]
  BY <1>1, <1>2, OneJail, ZenonT(40) DEF TypeInv, TypeOK
<1>4. Ready' = Ready
  BY <1>1, ZenonT(40) DEF Ready, TypeInv, TypeOK, Child
<1>5. Lifecycle!Finish(p)
  BY <1>1, <1>2, <1>3, <1>4, Zenon
     DEF Lifecycle!Finish, Lifecycle!Step, Phase, Ready
<1>. QED
  BY <1>5 DEF Lifecycle!Next

\* A jail that goes on stays in its phase, or is confined once admitted.
LEMMA MovesLife ==
  ASSUME TypeInv, TypeInv', NEW p \in Pid, NEW stage \in Live, Moves(p, stage), ChildFrame,
         \/ proc[p] \in Released /\ stage \in Released
         \/ proc[p] \in Held /\ stage \in Held
         \/ proc[p] \in Held /\ stage \in Released /\ pipe[p] = "byte"
  PROVE  [Lifecycle!Next]_(Lifecycle!vars)
<1>1. /\ proc' = [proc EXCEPT ![p] = stage] /\ UNCHANGED <<pipe, setup>> /\ (Alive' <=> Alive)
  BY DEF Moves, ChildFrame, Alive
<1>2. Ready' = Ready
  BY <1>1, ZenonT(40) DEF Ready, TypeInv, TypeOK, Child, Live
<1>3. Phase' = [Phase EXCEPT ![p] = PhaseOf(p)']
  BY <1>1, OneJail, Zenon DEF TypeInv, TypeOK
<1>4. CASE PhaseOf(p)' = PhaseOf(p)
  <2>1. Phase' = Phase
    BY <1>3, <1>4, Zenon DEF Phase
  <2>. QED
    BY <1>1, <1>2, <2>1, Stutters
<1>5. CASE proc[p] \in Held /\ stage \in Released /\ pipe[p] = "byte"
  <2>1. PhaseOf(p) = "admitted" /\ PhaseOf(p)' = "confined"
    BY <1>1, <1>5, PhaseMeaning, PhaseMeaningNext, ZenonT(40)
       DEF PhaseTable, TypeInv, TypeOK
  <2>2. Lifecycle!Confine(p)
    BY <1>1, <1>2, <1>3, <2>1, ZenonT(40)
       DEF Lifecycle!Confine, Lifecycle!Step, Phase, Ready
  <2>. QED
    BY <2>2 DEF Lifecycle!Next
<1>6. (proc[p] \in Released /\ stage \in Released) \/ (proc[p] \in Held /\ stage \in Held)
        => PhaseOf(p)' = PhaseOf(p)
  BY <1>1, PhaseMeaning, PhaseMeaningNext DEF PhaseTable, TypeInv, TypeOK, PhaseOf, Held, Released
<1>. QED
  BY <1>4, <1>5, <1>6

\* wait4(), by the supervisor or by init, collects a jail.
LEMMA ReapLife ==
  ASSUME TypeInv, TypeInv', NEW p \in Pid, ReapOne(p) \/ InitReaps(p)
  PROVE  Lifecycle!Next
<1>1. proc[p] = "zombie" /\ Forget(p) /\ pc' = pc
  BY DEF ReapOne, InitReaps, supVars
<1>2. PhaseOf(p) = "over" /\ PhaseOf(p)' = "none"
  BY <1>1, PhaseMeaning, PhaseMeaningNext, ZenonT(40)
     DEF PhaseTable, Forget, TypeInv, TypeOK
<1>3. /\ Phase' = [Phase EXCEPT ![p] = "none"]
      /\ \A q \in Pid \ {p} : q \in Ready' <=> q \in Ready
  BY <1>1, <1>2, OneJail, ZenonT(40) DEF Forget, TypeInv, TypeOK
<1>4. Ready' = Ready \ {p}
  BY <1>1, <1>3 DEF Forget, Ready, TypeInv, TypeOK, Child, Live, Held, Released
<1>5. Lifecycle!Step(p, {"over"}, "none")
  BY <1>2, <1>3 DEF Lifecycle!Step, Phase
<1>6. Alive' = Alive
  BY <1>1 DEF Alive
<1>7. Lifecycle!Collect(p)
  BY <1>4, <1>5, <1>6, Zenon DEF Lifecycle!Collect, Ready
<1>. QED
  BY <1>7 DEF Lifecycle!Next

\* One step of the system keeps HandshakeInv: only WriteDone and InitParentFails
\* change the socketpair of the jail being set up, and both return.
LEMMA HandshakeStep == TypeInv /\ HandshakeInv /\ [Next]_vars => HandshakeInv'
<1>. SUFFICES ASSUME TypeInv, HandshakeInv, [Next]_vars PROVE HandshakeInv'
  OBVIOUS
<1>1. CASE netGetRecvSocket \/ ListenLoop \/ Block \/ StandaloneLoop \/ netAcceptConn
           \/ LimitConns \/ Socketpair \/ CloneFails \/ ReapDone \/ Crash \/ Sweep \/ Gone
           \/ WriteDone \/ (\E p \in Pid : ReapOne(p))
  <2>a. CASE Sweep
    BY <2>a, SweepEffect DEF HandshakeInv
  <2>1. Sweep \/ pc' \notin {"add", "net", "cgroup", "user", "write"}
    BY <1>1, ZenonT(40)
    DEF netGetRecvSocket, ListenLoop, Block, StandaloneLoop, netAcceptConn, LimitConns, Socketpair,
        CloneFails, ReapDone, Crash, Gone, WriteDone, ReapOne, Return, End
  <2>. QED
    BY <2>a, <2>1 DEF HandshakeInv
<1>2. ASSUME NEW p \in Pid, Clone(p) PROVE HandshakeInv'
  BY <1>2 DEF Clone, HandshakeInv, TypeInv, TypeOK, Held
<1>3. CASE subprocAdd
  BY <1>3, ZenonT(40) DEF subprocAdd, HandshakeInv, jailVars
<1>4. CASE netInitNsFromParent \/ cgroupInitNsFromParent \/ userInitNsFromParent
  BY <1>4
  DEF netInitNsFromParent, cgroupInitNsFromParent, userInitNsFromParent, Prepared, InitParentFails,
      Return, End, HandshakeInv
<1>5. CASE Tick \/ FatalSignal \/ ShowSignal \/ PeerResets
  BY <1>5 DEF Tick, FatalSignal, ShowSignal, PeerResets, Interrupt, jailVars, HandshakeInv
<1>6. ASSUME NEW p \in Pid, JailStep(p) \/ JailEnds(p) \/ JailStops(p) \/ OomKill(p) \/ KillTakesEffect(p)
      PROVE  HandshakeInv'
  <2>1. ChildFrame
    BY <1>6, ZenonT(40)
    DEF JailStep, SetupFD, ReadDone, containContain, Execv, JailEnds, JailStops, OomKill,
        KillTakesEffect
  <2>2. \/ \E st : Ends(p, st)
        \/ \E stage \in Live : /\ Moves(p, stage)
                               /\ \/ proc[p] \in Released
                                  \/ proc[p] \in Held /\ stage \in Held
                                  \/ pipe[p] = "byte"
    BY <1>6, ZenonT(40)
    DEF JailStep, SetupFD, ReadDone, containContain, Execv, JailEnds, JailStops, OomKill,
        KillTakesEffect, Live, Held, Released
  <2>3. /\ UNCHANGED <<cur, pipe>> /\ (pc' = pc \/ pc' = "reap")
        /\ \E x : /\ proc' = [proc EXCEPT ![p] = x]
                  /\ x \in Held \cup {"zombie"} \/ proc[p] \in Released \/ pipe[p] = "byte"
    BY <2>1, <2>2, ZenonT(40) DEF ChildFrame, Ends, Moves, Interrupt
  <2>. QED
    BY <2>3 DEF HandshakeInv, TypeInv, TypeOK, CurKnown, Held, Released
<1>7. ASSUME NEW p \in Pid, InitReaps(p) PROVE HandshakeInv'
  BY <1>7, ZenonT(40) DEF InitReaps, supVars, HandshakeInv
<1>8. ASSUME NEW p \in Pid, Foreign(p) PROVE HandshakeInv'
  <2>1. /\ proc[p] \in {"free", "foreign"} /\ UNCHANGED <<pc, cur, pipe>>
        /\ \E x : proc' = [proc EXCEPT ![p] = x]
    BY <1>8 DEF Foreign, supVars
  <2>. QED
    BY <2>1 DEF HandshakeInv, TypeInv, TypeOK, CurKnown, Held
<1>9. CASE UNCHANGED vars
  BY <1>9, Zenon DEF vars, supVars, jailVars, HandshakeInv
<1>. QED
  BY <1>1, <1>2, <1>3, <1>4, <1>5, <1>6, <1>7, <1>8, <1>9 DEF Next, SupervisorStep, Environment

\* The rest of the steps: the time limit's SIGCONT, the end of the supervisor's
\* descriptors and foreign processes show nothing.
LEMMA QuietLife ==
  ASSUME TypeInv, TypeInv', Sweep \/ Gone \/ (\E p \in Pid : Foreign(p))
  PROVE  UNCHANGED Lifecycle!vars
<1>1. CASE Sweep
  <2>1. /\ \A p \in Pid : proc'[p] = proc[p] \/ (proc[p] = "stopped" /\ proc'[p] = "run")
        /\ UNCHANGED <<pipe, setup>> /\ Alive /\ Alive'
    BY <1>1, SweepEffect DEF Alive
  <2>2. \A p \in Pid : PhaseOf(p)' = PhaseOf(p)
    BY <2>1 DEF PhaseOf, Held, Released
  <2>. QED
    BY <2>1, <2>2, Stutters, Zenon DEF Phase, Ready, Child, Live, Released
<1>2. CASE Gone
  <2>1. /\ UNCHANGED <<proc, setup>> /\ ~Alive /\ ~Alive'
        /\ \A p \in Pid : pipe'[p] = pipe[p] \/ (pipe[p] = "open" /\ pipe'[p] = "eof")
    BY <1>2, Zenon DEF Gone, Alive
  <2>2. \A p \in Pid : PhaseOf(p)' = PhaseOf(p)
    BY <2>1 DEF PhaseOf
  <2>. QED
    BY <2>1, <2>2, Stutters, Zenon DEF Phase, Ready
<1>3. ASSUME NEW p \in Pid, Foreign(p) PROVE UNCHANGED Lifecycle!vars
  <2>1. /\ \A q \in Pid : proc'[q] = proc[q] \/ {proc[q], proc'[q]} \subseteq {"free", "foreign"}
        /\ UNCHANGED <<pipe, setup, pc>>
    <3>1. /\ proc[p] \in {"free", "foreign"} /\ UNCHANGED <<pipe, setup, pc>>
          /\ \E x \in {"free", "foreign"} : proc' = [proc EXCEPT ![p] = x]
      BY <1>3, Zenon DEF Foreign, supVars
    <3>. QED
      BY <3>1 DEF TypeInv, TypeOK
  <2>2. \A q \in Pid : PhaseOf(q)' = PhaseOf(q)
    BY <2>1 DEF PhaseOf, Held, Released
  <2>. QED
    BY <2>1, <2>2, Stutters DEF Phase, Ready, Child, Live, Held, Released, Alive
<1>. QED
  BY <1>1, <1>2, <1>3

\* Every step of the supervisor, the jails and the kernel is allowed by JailLifecycle.
LEMMA StepSimulation ==
  TypeInv /\ TypeInv' /\ SetupInv /\ HandshakeInv /\ [Next]_vars => [Lifecycle!Next]_(Lifecycle!vars)
<1>. SUFFICES ASSUME TypeInv, TypeInv', SetupInv, HandshakeInv, [Next]_vars
              PROVE  [Lifecycle!Next]_(Lifecycle!vars)
  OBVIOUS
<1>1. CASE SupervisorStep
  BY <1>1, LoopLife, CloneLife, PartLife, WriteLife, ReapLife, QuietLife DEF SupervisorStep
<1>2. ASSUME NEW p \in Pid, JailStep(p) \/ JailEnds(p) \/ JailStops(p) \/ OomKill(p) \/ KillTakesEffect(p)
      PROVE  [Lifecycle!Next]_(Lifecycle!vars)
  <2>1. ChildFrame /\ proc[p] \in Live
    BY <1>2, Zenon
    DEF JailStep, SetupFD, ReadDone, containContain, Execv, JailEnds, JailStops, OomKill,
        KillTakesEffect, Live, Held, Released
  <2>2. \/ \E st : Ends(p, st)
        \/ \E stage \in Live : /\ Moves(p, stage)
                               /\ \/ proc[p] \in Released /\ stage \in Released
                                  \/ proc[p] \in Held /\ stage \in Held
                                  \/ proc[p] \in Held /\ stage \in Released /\ pipe[p] = "byte"
    BY <1>2
    DEF JailStep, SetupFD, ReadDone, containContain, Execv, JailEnds, JailStops, OomKill,
        KillTakesEffect, Live, Held, Released
  <2>. QED
    BY <2>1, <2>2, EndsLife, MovesLife
<1>3. CASE Environment
  BY <1>2, <1>3, LoopLife, ReapLife, QuietLife DEF Environment
<1>4. CASE UNCHANGED vars
  BY <1>4, JailsFrame, Stutters DEF vars, supVars, jailVars, Alive
<1>. QED
  BY <1>1, <1>2, <1>3, <1>4 DEF Next

\* The supervisor implements the abstract life of a jail: whatever fails and
\* whoever dies, a jail is admitted only when prepared and by a living
\* supervisor, is confined only once admitted, and its pid is free only once it
\* was collected, for any number of jails.
THEOREM SupervisorImplementsLifecycle == Spec => LifecycleSpec
<1>1. Init => Lifecycle!Init
  <2>. SUFFICES ASSUME Init PROVE Lifecycle!Init
    OBVIOUS
  <2>1. \A p \in Pid : PhaseOf(p) = "none"
    BY DEF Init, PhaseOf, Held, Released
  <2>2. Ready = {}
    BY DEF Init, Ready, Child, Live, Held, Released
  <2>3. Alive
    BY ModeAssumption DEF Init, Alive
  <2>. QED
    BY <2>1, <2>2, <2>3 DEF Lifecycle!Init, Ready
<1>2. Init => SetupInv /\ HandshakeInv
  BY ModeAssumption DEF Init, SetupInv, JailOnlyAfterSetup, HandshakeInv, Held, Released
<1>. QED
  BY <1>1, <1>2, StepSimulation, SetupStep, HandshakeStep, TypeInvariant, PTL
  DEF Spec, LifecycleSpec, Lifecycle!Spec
=============================================================================
