------------------------- MODULE SharedCgroupProofs -------------------------
(* For any number of supervisors, pids and limits: released jails are under *)
(* their limit, and every directory is accounted for.                       *)
EXTENDS SharedCgroup, TLAPS

Setup == {"net", "mkdir", "limit", "oom", "tasks", "user"}

\* A supervisor that prepares a jail is its parent and the only one to touch
\* its directory's limit: nobody else can have the pid before it is reaped.
SetupOwns ==
  \A s \in Sup : spc[s] \in Setup =>
    /\ parent[cur[s]] = s /\ asked[cur[s]] = cgroup_mem_max[s]
    /\ proc[cur[s]] \in {"held", "zombie"}
    /\ spc[s] \in {"mkdir", "limit", "oom", "tasks"} => Uses(s)
    /\ spc[s] \in {"oom", "tasks"} /\ cur[s] \in dirs =>
         limit[cur[s]] = cgroup_mem_max[s]
    /\ spc[s] = "user" /\ Uses(s) /\ proc[cur[s]] = "held" =>
         cur[s] \in joined /\ limit[cur[s]] = cgroup_mem_max[s]

\* A process is in its directory from the write of its pid to its end, and the
\* directory stays as long: rmdir() fails for one that is not empty.
JoinedInside ==
  \A p \in joined :
    /\ proc[p] \in {"held", "eof", "run"} /\ p \in dirs
    /\ p \in left \/ (parent[p] \in Sup /\ Uses(parent[p]))

\* A free pid is nobody's child.
FreeUnowned == \A p \in Pid : proc[p] = "free" => parent[p] = Nobody

SharedInv ==
  /\ SharedTypeOK /\ SetupOwns /\ JoinedInside /\ FreeUnowned
  /\ JailLimited /\ DirsAccountedFor

-----------------------------------------------------------------------------
\* Every step keeps the types.
LEMMA TypeStep ==
  ASSUME SharedTypeOK, Next
  PROVE  SharedTypeOK'
<1>1. ASSUME NEW s \in Sup, NetPart(s) PROVE  SharedTypeOK'
  BY <1>1 DEF NetPart, Back, Goes, At, dirVars, jailVars, SharedTypeOK
<1>2. ASSUME NEW s \in Sup, Mkdir(s) PROVE  SharedTypeOK'
  BY <1>2 DEF Mkdir, Ends, Goes, At, jailVars, SharedTypeOK
<1>3. ASSUME NEW s \in Sup, WriteLimit(s) PROVE  SharedTypeOK'
  BY <1>3, SharedAssumption DEF WriteLimit, Ends, Goes, At, jailVars, SharedTypeOK
<1>4. ASSUME NEW s \in Sup, WriteOom(s) PROVE  SharedTypeOK'
  BY <1>4, SharedAssumption DEF WriteOom, Ends, Goes, jailVars, dirVars, SharedTypeOK
<1>5. ASSUME NEW s \in Sup, WriteTasks(s) PROVE  SharedTypeOK'
  BY <1>5 DEF WriteTasks, Ends, Goes, jailVars, SharedTypeOK
<1>6. ASSUME NEW s \in Sup, UserPart(s) PROVE  SharedTypeOK'
  BY <1>6 DEF UserPart, Back, Goes, dirVars, SharedTypeOK
<1>7. ASSUME NEW s \in Sup, Wake(s) PROVE  SharedTypeOK'
  BY <1>7 DEF Wake, Goes, jailVars, dirVars, SharedTypeOK
<1>8. ASSUME NEW s \in Sup, NEW p \in Pid, Wait4(s, p) PROVE  SharedTypeOK'
  BY <1>8 DEF Wait4, Goes, dirVars, SharedTypeOK
<1>9. ASSUME NEW s \in Sup, Rmdir(s) PROVE  SharedTypeOK'
  BY <1>9 DEF Rmdir, Goes, jailVars, SharedTypeOK
<1>10. ASSUME NEW s \in Sup, ReapDone(s) PROVE  SharedTypeOK'
  BY <1>10 DEF ReapDone, Goes, jailVars, dirVars, SharedTypeOK
<1>11. ASSUME NEW s \in Sup, NEW p \in Pid, Clone(s, p) PROVE  SharedTypeOK'
  BY <1>11, SharedAssumption, Zenon DEF Clone, Goes, dirVars, SharedTypeOK
<1>12. ASSUME NEW s \in Sup, Crash(s) PROVE  SharedTypeOK'
  BY <1>12, SharedAssumption DEF Crash, Ends, Goes, SharedTypeOK
<1>13. ASSUME NEW s \in Sup, Restart(s) PROVE  SharedTypeOK'
  BY <1>13 DEF Restart, Goes, jailVars, dirVars, SharedTypeOK
<1>14. ASSUME NEW p \in Pid, JailEnds(p) PROVE  SharedTypeOK'
  BY <1>14 DEF JailEnds, SharedTypeOK
<1>15. ASSUME NEW p \in Pid, RestEnds(p) PROVE  SharedTypeOK'
  BY <1>15 DEF RestEnds, jailVars, SharedTypeOK
<1>16. ASSUME NEW p \in Pid, InitReaps(p) PROVE  SharedTypeOK'
  BY <1>16 DEF InitReaps, dirVars, SharedTypeOK
<1> QED
  BY <1>1, <1>2, <1>3, <1>4, <1>5, <1>6, <1>7, <1>8, <1>9, <1>10, <1>11, <1>12, <1>13, <1>14,
      <1>15, <1>16 DEF Next, SupervisorStep

\* Every step keeps what a supervisor knows of the jail it prepares.
LEMMA SetupStep ==
  ASSUME SharedTypeOK, SetupOwns, JoinedInside, FreeUnowned, Next
  PROVE  SetupOwns'
<1>1. ASSUME NEW s \in Sup, NetPart(s) PROVE  SetupOwns'
  BY <1>1 DEF NetPart, Back, Goes, At, dirVars, jailVars, SharedTypeOK, SetupOwns, Setup
<1>2. ASSUME NEW s \in Sup, Mkdir(s) PROVE  SetupOwns'
  BY <1>2 DEF Mkdir, Ends, Goes, At, jailVars, SharedTypeOK, SetupOwns, Setup
<1>3. ASSUME NEW s \in Sup, WriteLimit(s) PROVE  SetupOwns'
  BY <1>3 DEF WriteLimit, Ends, Goes, At, jailVars, SharedTypeOK, SetupOwns, Setup
<1>4. ASSUME NEW s \in Sup, WriteOom(s) PROVE  SetupOwns'
  BY <1>4 DEF WriteOom, Ends, Goes, At, jailVars, dirVars, SharedTypeOK, SetupOwns, Setup
<1>5. ASSUME NEW s \in Sup, WriteTasks(s) PROVE  SetupOwns'
  BY <1>5 DEF WriteTasks, Ends, Goes, At, jailVars, SharedTypeOK, SetupOwns, Setup
<1>6. ASSUME NEW s \in Sup, UserPart(s) PROVE  SetupOwns'
  BY <1>6 DEF UserPart, Back, Goes, At, dirVars, SharedTypeOK, SetupOwns, Setup
<1>7. ASSUME NEW s \in Sup, Wake(s) PROVE  SetupOwns'
  BY <1>7 DEF Wake, Goes, At, jailVars, dirVars, SharedTypeOK, SetupOwns, Setup
<1>8. ASSUME NEW s \in Sup, NEW p \in Pid, Wait4(s, p) PROVE  SetupOwns'
  BY <1>8 DEF Wait4, Goes, dirVars, SharedTypeOK, SetupOwns, Setup
<1>9. ASSUME NEW s \in Sup, Rmdir(s) PROVE  SetupOwns'
  BY <1>9 DEF Rmdir, Goes, jailVars, SharedTypeOK, SetupOwns, Setup
<1>10. ASSUME NEW s \in Sup, ReapDone(s) PROVE  SetupOwns'
  BY <1>10 DEF ReapDone, Goes, jailVars, dirVars, SharedTypeOK, SetupOwns, Setup
<1>11. ASSUME NEW s \in Sup, NEW p \in Pid, Clone(s, p) PROVE  SetupOwns'
  BY <1>11 DEF Clone, Goes, dirVars, SharedTypeOK, SetupOwns, Setup
<1>12. ASSUME NEW s \in Sup, Crash(s) PROVE  SetupOwns'
  BY <1>12 DEF Crash, Ends, Goes, SharedTypeOK, SetupOwns, Setup
<1>13. ASSUME NEW s \in Sup, Restart(s) PROVE  SetupOwns'
  BY <1>13 DEF Restart, Goes, jailVars, dirVars, SharedTypeOK, SetupOwns, Setup
<1>14. ASSUME NEW p \in Pid, JailEnds(p) PROVE  SetupOwns'
  BY <1>14 DEF JailEnds, SharedTypeOK, SetupOwns, Setup
<1>15. ASSUME NEW p \in Pid, RestEnds(p) PROVE  SetupOwns'
  BY <1>15 DEF RestEnds, jailVars, SharedTypeOK, SetupOwns
<1>16. ASSUME NEW p \in Pid, InitReaps(p) PROVE  SetupOwns'
  BY <1>16, SharedAssumption DEF InitReaps, dirVars, SetupOwns
<1> QED
  BY <1>1, <1>2, <1>3, <1>4, <1>5, <1>6, <1>7, <1>8, <1>9, <1>10, <1>11, <1>12, <1>13, <1>14,
      <1>15, <1>16 DEF Next, SupervisorStep

\* Every step keeps the members of a directory in it.
LEMMA JoinedStep ==
  ASSUME SharedTypeOK, SetupOwns, JoinedInside, FreeUnowned, Next
  PROVE  JoinedInside'
<1>1. ASSUME NEW s \in Sup, NetPart(s) PROVE  JoinedInside'
  BY <1>1 DEF NetPart, Back, dirVars, jailVars, SharedTypeOK, JoinedInside
<1>2. ASSUME NEW s \in Sup, Mkdir(s) PROVE  JoinedInside'
  BY <1>2 DEF Mkdir, Ends, jailVars, SharedTypeOK, JoinedInside
<1>3. ASSUME NEW s \in Sup, WriteLimit(s) PROVE  JoinedInside'
  BY <1>3, SharedAssumption DEF WriteLimit, Ends, Goes, At, jailVars, SharedTypeOK, SetupOwns,
      JoinedInside, FreeUnowned, Setup, Uses, Busy
<1>4. ASSUME NEW s \in Sup, WriteOom(s) PROVE  JoinedInside'
  BY <1>4, SharedAssumption DEF WriteOom, Ends, Goes, At, jailVars, dirVars, SharedTypeOK,
      SetupOwns, JoinedInside, FreeUnowned, Setup, Uses, Busy
<1>5. ASSUME NEW s \in Sup, WriteTasks(s) PROVE  JoinedInside'
  BY <1>5 DEF WriteTasks, Ends, At, jailVars, SharedTypeOK, SetupOwns, JoinedInside, Setup
<1>6. ASSUME NEW s \in Sup, UserPart(s) PROVE  JoinedInside'
  BY <1>6 DEF UserPart, Back, At, dirVars, SharedTypeOK, SetupOwns, JoinedInside, Setup
<1>7. ASSUME NEW s \in Sup, Wake(s) PROVE  JoinedInside'
  BY <1>7 DEF Wake, jailVars, dirVars, SharedTypeOK, JoinedInside
<1>8. ASSUME NEW s \in Sup, NEW p \in Pid, Wait4(s, p) PROVE  JoinedInside'
  BY <1>8 DEF Wait4, dirVars, JoinedInside
<1>9. ASSUME NEW s \in Sup, Rmdir(s) PROVE  JoinedInside'
  BY <1>9 DEF Rmdir, Busy, jailVars, JoinedInside
<1>10. ASSUME NEW s \in Sup, ReapDone(s) PROVE  JoinedInside'
  BY <1>10 DEF ReapDone, jailVars, dirVars, JoinedInside, Busy
<1>11. ASSUME NEW s \in Sup, NEW p \in Pid, Clone(s, p) PROVE  JoinedInside'
  BY <1>11 DEF Clone, dirVars, JoinedInside
<1>12. ASSUME NEW s \in Sup, Crash(s) PROVE  JoinedInside'
  BY <1>12 DEF Crash, Ends, SharedTypeOK, JoinedInside
<1>13. ASSUME NEW s \in Sup, Restart(s) PROVE  JoinedInside'
  BY <1>13 DEF Restart, jailVars, dirVars, SharedTypeOK, JoinedInside
<1>14. ASSUME NEW p \in Pid, JailEnds(p) PROVE  JoinedInside'
  BY <1>14 DEF JailEnds, JoinedInside
<1>15. ASSUME NEW p \in Pid, RestEnds(p) PROVE  JoinedInside'
  BY <1>15 DEF RestEnds, jailVars, JoinedInside
<1>16. ASSUME NEW p \in Pid, InitReaps(p) PROVE  JoinedInside'
  BY <1>16 DEF InitReaps, dirVars, JoinedInside
<1> QED
  BY <1>1, <1>2, <1>3, <1>4, <1>5, <1>6, <1>7, <1>8, <1>9, <1>10, <1>11, <1>12, <1>13, <1>14,
      <1>15, <1>16 DEF Next, SupervisorStep

\* Every step leaves free pids without a parent.
LEMMA FreeStep ==
  ASSUME SharedTypeOK, FreeUnowned, Next
  PROVE  FreeUnowned'
<1>1. ASSUME NEW s \in Sup, NetPart(s) PROVE  FreeUnowned'
  BY <1>1 DEF NetPart, Back, jailVars, SharedTypeOK, FreeUnowned
<1>2. ASSUME NEW s \in Sup, Mkdir(s) PROVE  FreeUnowned'
  BY <1>2 DEF Mkdir, Ends, jailVars, SharedTypeOK, FreeUnowned
<1>3. ASSUME NEW s \in Sup, WriteLimit(s) PROVE  FreeUnowned'
  BY <1>3 DEF WriteLimit, Ends, jailVars, FreeUnowned
<1>4. ASSUME NEW s \in Sup, WriteOom(s) PROVE  FreeUnowned'
  BY <1>4 DEF WriteOom, Ends, jailVars, FreeUnowned
<1>5. ASSUME NEW s \in Sup, WriteTasks(s) PROVE  FreeUnowned'
  BY <1>5 DEF WriteTasks, Ends, jailVars, FreeUnowned
<1>6. ASSUME NEW s \in Sup, UserPart(s) PROVE  FreeUnowned'
  BY <1>6 DEF UserPart, Back, SharedTypeOK, FreeUnowned
<1>7. ASSUME NEW s \in Sup, Wake(s) PROVE  FreeUnowned'
  BY <1>7 DEF Wake, jailVars, SharedTypeOK, FreeUnowned
<1>8. ASSUME NEW s \in Sup, NEW p \in Pid, Wait4(s, p) PROVE  FreeUnowned'
  BY <1>8 DEF Wait4, SharedTypeOK, FreeUnowned
<1>9. ASSUME NEW s \in Sup, Rmdir(s) PROVE  FreeUnowned'
  BY <1>9 DEF Rmdir, jailVars, SharedTypeOK, FreeUnowned
<1>10. ASSUME NEW s \in Sup, ReapDone(s) PROVE  FreeUnowned'
  BY <1>10 DEF ReapDone, jailVars, FreeUnowned
<1>11. ASSUME NEW s \in Sup, NEW p \in Pid, Clone(s, p) PROVE  FreeUnowned'
  BY <1>11 DEF Clone, SharedTypeOK, FreeUnowned
<1>12. ASSUME NEW s \in Sup, Crash(s) PROVE  FreeUnowned'
  BY <1>12 DEF Crash, Ends, SharedTypeOK, FreeUnowned
<1>13. ASSUME NEW s \in Sup, Restart(s) PROVE  FreeUnowned'
  BY <1>13 DEF Restart, jailVars, FreeUnowned
<1>14. ASSUME NEW p \in Pid, JailEnds(p) PROVE  FreeUnowned'
  BY <1>14 DEF JailEnds, FreeUnowned
<1>15. ASSUME NEW p \in Pid, RestEnds(p) PROVE  FreeUnowned'
  BY <1>15 DEF RestEnds, jailVars, FreeUnowned
<1>16. ASSUME NEW p \in Pid, InitReaps(p) PROVE  FreeUnowned'
  BY <1>16 DEF InitReaps, FreeUnowned
<1> QED
  BY <1>1, <1>2, <1>3, <1>4, <1>5, <1>6, <1>7, <1>8, <1>9, <1>10, <1>11, <1>12, <1>13, <1>14,
      <1>15, <1>16 DEF Next, SupervisorStep

\* Every step keeps running jails under their limit.
LEMMA LimitStep ==
  ASSUME SharedTypeOK, SetupOwns, JoinedInside, FreeUnowned, JailLimited, Next
  PROVE  JailLimited'
<1>1. ASSUME NEW s \in Sup, NetPart(s) PROVE  JailLimited'
  BY <1>1 DEF NetPart, Back, dirVars, jailVars, SharedTypeOK, JailLimited
<1>2. ASSUME NEW s \in Sup, Mkdir(s) PROVE  JailLimited'
  BY <1>2 DEF Mkdir, Ends, jailVars, SharedTypeOK, JailLimited
<1>3. ASSUME NEW s \in Sup, WriteLimit(s) PROVE  JailLimited'
  BY <1>3 DEF WriteLimit, Ends, At, jailVars, SharedTypeOK, SetupOwns, JailLimited, Setup
<1>4. ASSUME NEW s \in Sup, WriteOom(s) PROVE  JailLimited'
  BY <1>4 DEF WriteOom, Ends, At, jailVars, dirVars, SharedTypeOK, SetupOwns, JailLimited, Setup
<1>5. ASSUME NEW s \in Sup, WriteTasks(s) PROVE  JailLimited'
  BY <1>5 DEF WriteTasks, Ends, jailVars, JailLimited
<1>6. ASSUME NEW s \in Sup, UserPart(s) PROVE  JailLimited'
  BY <1>6 DEF UserPart, Back, At, dirVars, SharedTypeOK, SetupOwns, JoinedInside, JailLimited,
      Setup, Uses
<1>7. ASSUME NEW s \in Sup, Wake(s) PROVE  JailLimited'
  BY <1>7 DEF Wake, At, jailVars, dirVars, SharedTypeOK, SetupOwns, JoinedInside, JailLimited,
      Setup, Uses
<1>8. ASSUME NEW s \in Sup, NEW p \in Pid, Wait4(s, p) PROVE  JailLimited'
  BY <1>8 DEF Wait4, dirVars, JailLimited
<1>9. ASSUME NEW s \in Sup, Rmdir(s) PROVE  JailLimited'
  BY <1>9 DEF Rmdir, Busy, jailVars, JailLimited
<1>10. ASSUME NEW s \in Sup, ReapDone(s) PROVE  JailLimited'
  BY <1>10 DEF ReapDone, jailVars, dirVars, JailLimited, Busy
<1>11. ASSUME NEW s \in Sup, NEW p \in Pid, Clone(s, p) PROVE  JailLimited'
  BY <1>11 DEF Clone, dirVars, JailLimited
<1>12. ASSUME NEW s \in Sup, Crash(s) PROVE  JailLimited'
  BY <1>12 DEF Crash, Ends, JailLimited
<1>13. ASSUME NEW s \in Sup, Restart(s) PROVE  JailLimited'
  BY <1>13 DEF Restart, jailVars, dirVars, JailLimited
<1>14. ASSUME NEW p \in Pid, JailEnds(p) PROVE  JailLimited'
  BY <1>14 DEF JailEnds, SharedTypeOK, JailLimited
<1>15. ASSUME NEW p \in Pid, RestEnds(p) PROVE  JailLimited'
  BY <1>15 DEF RestEnds, jailVars, SharedTypeOK, JailLimited
<1>16. ASSUME NEW p \in Pid, InitReaps(p) PROVE  JailLimited'
  BY <1>16 DEF InitReaps, dirVars, JailLimited
<1> QED
  BY <1>1, <1>2, <1>3, <1>4, <1>5, <1>6, <1>7, <1>8, <1>9, <1>10, <1>11, <1>12, <1>13, <1>14,
      <1>15, <1>16 DEF Next, SupervisorStep

\* Every step keeps the directories accounted for.
LEMMA DirsStep ==
  ASSUME SharedTypeOK, SetupOwns, JoinedInside, FreeUnowned, DirsAccountedFor, Next
  PROVE  DirsAccountedFor'
<1>1. ASSUME NEW s \in Sup, NetPart(s) PROVE  DirsAccountedFor'
  BY <1>1 DEF NetPart, Back, Goes, At, dirVars, jailVars, SharedTypeOK, DirsAccountedFor
<1>2. ASSUME NEW s \in Sup, Mkdir(s) PROVE  DirsAccountedFor'
  BY <1>2, SharedAssumption DEF Mkdir, Ends, Goes, At, jailVars, SharedTypeOK, SetupOwns,
      DirsAccountedFor, Setup
<1>3. ASSUME NEW s \in Sup, WriteLimit(s) PROVE  DirsAccountedFor'
  BY <1>3, SharedAssumption DEF WriteLimit, Ends, Goes, At, jailVars, SharedTypeOK, SetupOwns,
      DirsAccountedFor, Setup
<1>4. ASSUME NEW s \in Sup, WriteOom(s) PROVE  DirsAccountedFor'
  BY <1>4 DEF WriteOom, Ends, Goes, At, jailVars, dirVars, SharedTypeOK, DirsAccountedFor
<1>5. ASSUME NEW s \in Sup, WriteTasks(s) PROVE  DirsAccountedFor'
  BY <1>5 DEF WriteTasks, Ends, Goes, At, jailVars, SharedTypeOK, DirsAccountedFor
<1>6. ASSUME NEW s \in Sup, UserPart(s) PROVE  DirsAccountedFor'
  BY <1>6 DEF UserPart, Back, Goes, At, dirVars, SharedTypeOK, DirsAccountedFor
<1>7. ASSUME NEW s \in Sup, Wake(s) PROVE  DirsAccountedFor'
  BY <1>7 DEF Wake, Goes, At, jailVars, dirVars, SharedTypeOK, DirsAccountedFor
<1>8. ASSUME NEW s \in Sup, NEW p \in Pid, Wait4(s, p) PROVE  DirsAccountedFor'
  BY <1>8 DEF Wait4, Goes, At, dirVars, SharedTypeOK, DirsAccountedFor
<1>9. ASSUME NEW s \in Sup, Rmdir(s) PROVE  DirsAccountedFor'
  BY <1>9, SharedAssumption DEF Rmdir, Goes, At, Busy, jailVars, SharedTypeOK, JoinedInside,
      DirsAccountedFor
<1>10. ASSUME NEW s \in Sup, ReapDone(s) PROVE  DirsAccountedFor'
  BY <1>10, SharedAssumption DEF ReapDone, Goes, At, jailVars, dirVars, JoinedInside,
      DirsAccountedFor, Busy
<1>11. ASSUME NEW s \in Sup, NEW p \in Pid, Clone(s, p) PROVE  DirsAccountedFor'
  BY <1>11 DEF Clone, Goes, At, dirVars, FreeUnowned, DirsAccountedFor
<1>12. ASSUME NEW s \in Sup, Crash(s) PROVE  DirsAccountedFor'
  BY <1>12, SharedAssumption DEF Crash, Ends, Goes, At, SharedTypeOK, SetupOwns, JoinedInside,
      FreeUnowned, DirsAccountedFor, Setup, Uses, Busy
<1>13. ASSUME NEW s \in Sup, Restart(s) PROVE  DirsAccountedFor'
  BY <1>13, SharedAssumption DEF Restart, Goes, At, jailVars, dirVars, SharedTypeOK, SetupOwns,
      JoinedInside, FreeUnowned, DirsAccountedFor, Setup, Uses, Busy
<1>14. ASSUME NEW p \in Pid, JailEnds(p) PROVE  DirsAccountedFor'
  BY <1>14 DEF JailEnds, DirsAccountedFor, At
<1>15. ASSUME NEW p \in Pid, RestEnds(p) PROVE  DirsAccountedFor'
  BY <1>15 DEF RestEnds, jailVars, DirsAccountedFor, At
<1>16. ASSUME NEW p \in Pid, InitReaps(p) PROVE  DirsAccountedFor'
  BY <1>16 DEF InitReaps, dirVars, DirsAccountedFor, At
<1> QED
  BY <1>1, <1>2, <1>3, <1>4, <1>5, <1>6, <1>7, <1>8, <1>9, <1>10, <1>11, <1>12, <1>13, <1>14,
      <1>15, <1>16 DEF Next, SupervisorStep

-----------------------------------------------------------------------------
\* SharedInv holds at the start, before any clone().
LEMMA InitHolds ==
  ASSUME Init
  PROVE  SharedInv
<1>1. SharedTypeOK
  BY DEF Init, SharedTypeOK
<1>2. SetupOwns
  BY DEF Init, SetupOwns, Setup
<1>3. JoinedInside /\ FreeUnowned /\ JailLimited /\ DirsAccountedFor
  BY DEF Init, JoinedInside, FreeUnowned, JailLimited, DirsAccountedFor
<1> QED
  BY <1>1, <1>2, <1>3 DEF SharedInv

\* SharedInv is inductive: no step of a supervisor, of a jail or of init breaks it.
LEMMA Inductive ==
  ASSUME SharedInv, [Next]_vars
  PROVE  SharedInv'
<1>1. CASE Next
  <2>1. SharedTypeOK' /\ FreeUnowned'
    BY <1>1, TypeStep, FreeStep DEF SharedInv
  <2>2. SetupOwns' /\ JoinedInside'
    BY <1>1, SetupStep, JoinedStep DEF SharedInv
  <2>3. JailLimited' /\ DirsAccountedFor'
    BY <1>1, LimitStep, DirsStep DEF SharedInv
  <2> QED
    BY <2>1, <2>2, <2>3 DEF SharedInv
<1>2. CASE UNCHANGED vars
  BY <1>2 DEF vars, SharedInv, SharedTypeOK, SetupOwns, JoinedInside, FreeUnowned,
              JailLimited, DirsAccountedFor, Setup, Uses, At
<1> QED
  BY <1>1, <1>2

\* SharedInv holds in every reachable state.
LEMMA Invariance == Spec => []SharedInv
<1>1. Init => SharedInv
  BY InitHolds
<1>2. SharedInv /\ [Next]_vars => SharedInv'
  BY Inductive
<1> QED
  BY <1>1, <1>2, PTL DEF Spec

\* The types, and with them that cgroupInitNsFromParent and cgroupFinishFromParent
\* always work on a real pid.
THEOREM SharedTypeCorrect == Spec => []SharedTypeOK
  BY Invariance, PTL DEF SharedInv

\* A released jail is under the limit of the supervisor that started it.
THEOREM JailsLimited == Spec => []JailLimited
  BY Invariance, PTL DEF SharedInv

\* No directory is forgotten by a supervisor that goes on.
THEOREM DirsAccounted == Spec => []DirsAccountedFor
  BY Invariance, PTL DEF SharedInv
=============================================================================
