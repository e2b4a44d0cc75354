---------------------------- MODULE SharedCgroup ----------------------------
(***************************************************************************)
(* Several supervisors under one memory cgroup, the cgroup_mem_parent they *)
(* all use by default.  A jail's directory is named after its pid, which   *)
(* the kernel gives to somebody else as soon as wait4() has returned, and  *)
(* the supervisors do not know of each other: one may be about to remove   *)
(* NSJAIL.<pid> while another one fills it, and one that ended early       *)
(* leaves its directories behind.                                          *)
(***************************************************************************)
EXTENDS Integers, FiniteSets

CONSTANTS
  Sup,            \* the supervisors
  Nobody,         \* the parent of a process no supervisor waits for
  Pid,            \* the pids
  cgroup_mem_max, \* [Sup -> Nat]: each one's --cgroup_mem_max; 0 is none
  NewPidNs,       \* clone_newpid: a jail's descendants end with it
  SharedFaults    \* whether calls fail, and supervisors crash, by themselves

ASSUME SharedAssumption ==
  /\ cgroup_mem_max \in [Sup -> Nat] /\ Nobody \notin Sup
  /\ {NewPidNs, SharedFaults} \subseteq BOOLEAN

VARIABLES
  spc,      \* spc[s]: where supervisor s is
  cur,      \* cur[s]: the pid it is working on
  proc,     \* proc[p]: "free", "held", "eof", "run" or "zombie"
  parent,   \* parent[p]: the supervisor that will reap p
  asked,    \* asked[p]: cgroup_mem_max of the supervisor that started p
  dirs,     \* the pids p for which NSJAIL.p exists
  limit,    \* limit[p]: memory.limit_in_bytes of NSJAIL.p; 0 is none
  joined,   \* the pids p whose process is in NSJAIL.p
  rest,     \* the pids p with descendants of an ended jail in NSJAIL.p
  left      \* history: directories whose supervisor will not remove them

vars == <<spc, cur, proc, parent, asked, dirs, limit, joined, rest, left>>
jailVars == <<proc, parent, asked>>
dirVars == <<dirs, limit, joined, rest, left>>

NoPid == 0
Uses(s) == cgroup_mem_max[s] # 0

Init ==
  /\ spc = [s \in Sup |-> "idle"] /\ cur = [s \in Sup |-> NoPid]
  /\ proc = [p \in Pid |-> "free"] /\ parent = [p \in Pid |-> Nobody]
  /\ asked = [p \in Pid |-> 0] /\ limit = [p \in Pid |-> 0]
  /\ dirs = {} /\ joined = {} /\ rest = {} /\ left = {}

Goes(s, to) == spc' = [spc EXCEPT ![s] = to]
At(s, from) == spc[s] = from

-----------------------------------------------------------------------------
(* The end of a supervisor.                                                 *)

\* exit(1), or a signal: the jails it was holding see the end of file, and its
\* children and directories are nobody's.
Ends(s) ==
  /\ Goes(s, "dead") /\ cur' = [cur EXCEPT ![s] = NoPid]
  /\ proc' = [p \in Pid |-> IF parent[p] = s /\ proc[p] = "held" THEN "eof" ELSE proc[p]]
  /\ parent' = [p \in Pid |-> IF parent[p] = s THEN Nobody ELSE parent[p]]
  /\ left' = left \cup {p \in dirs : parent[p] = s \/ cur[s] = p}
  /\ UNCHANGED <<asked, dirs, limit, joined, rest>>

Crash(s) == SharedFaults /\ ~At(s, "dead") /\ Ends(s)

\* nsjail is started again.
Restart(s) ==
  /\ At(s, "dead") /\ Goes(s, "idle")
  /\ UNCHANGED <<cur, jailVars, dirVars>>

-----------------------------------------------------------------------------
(* subprocRunChild.                                                         *)

Clone(s, p) ==
  /\ At(s, "idle") /\ proc[p] = "free"
  /\ Goes(s, "net") /\ cur' = [cur EXCEPT ![s] = p]
  /\ proc' = [proc EXCEPT ![p] = "held"] /\ parent' = [parent EXCEPT ![p] = s]
  /\ asked' = [asked EXCEPT ![p] = cgroup_mem_max[s]]
  /\ UNCHANGED dirVars

\* Back to the loop; a jail that was not released sees the end of file.
Back(s, stage) ==
  /\ Goes(s, "reap") /\ cur' = [cur EXCEPT ![s] = NoPid]
  /\ proc' = [proc EXCEPT ![cur[s]] = IF @ = "held" THEN stage ELSE @]
  /\ UNCHANGED <<parent, asked, dirVars>>

\* netInitNsFromParent, and userInitNsFromParent with the done byte: the last
\* of these releases the jail.
NetPart(s) ==
  /\ At(s, "net")
  /\ \/ Goes(s, IF Uses(s) THEN "mkdir" ELSE "user") /\ UNCHANGED <<cur, jailVars, dirVars>>
     \/ SharedFaults /\ Back(s, "eof")

UserPart(s) ==
  /\ At(s, "user")
  /\ \/ Back(s, "run")
     \/ SharedFaults /\ Back(s, "eof")

-----------------------------------------------------------------------------
(* cgroupInitNsFromParent: any failure of it makes the supervisor exit.     *)

\* Mutant: an existing directory is taken to have its limit already.
MkdirTrusts(s) ==
  /\ At(s, "mkdir")
  /\ Goes(s, IF cur[s] \in dirs THEN "tasks" ELSE "limit")
  /\ dirs' = dirs \cup {cur[s]}
  /\ UNCHANGED <<cur, jailVars, limit, joined, rest, left>>

\* The directory may be there already.
Mkdir(s) ==
  /\ At(s, "mkdir")
  /\ \/ /\ Goes(s, "limit")
        /\ dirs' = dirs \cup {cur[s]}
        /\ limit' = IF cur[s] \in dirs THEN limit ELSE [limit EXCEPT ![cur[s]] = 0]
        /\ UNCHANGED <<cur, jailVars, joined, rest, left>>
     \/ SharedFaults /\ Ends(s)

\* A file of the directory cannot be written, above all when there is no such
\* directory any more.
CannotWrite(s) == cur[s] \notin dirs \/ SharedFaults

WriteLimit(s) ==
  /\ At(s, "limit")
  /\ \/ /\ cur[s] \in dirs /\ Goes(s, "oom")
        /\ limit' = [limit EXCEPT ![cur[s]] = cgroup_mem_max[s]]
        /\ UNCHANGED <<cur, jailVars, dirs, joined, rest, left>>
     \/ CannotWrite(s) /\ Ends(s)

WriteOom(s) ==
  /\ At(s, "oom")
  /\ \/ cur[s] \in dirs /\ Goes(s, "tasks") /\ UNCHANGED <<cur, jailVars, dirVars>>
     \/ CannotWrite(s) /\ Ends(s)

\* The kernel takes no process that has ended.
WriteTasks(s) ==
  /\ At(s, "tasks")
  /\ \/ /\ cur[s] \in dirs /\ proc[cur[s]] = "held" /\ Goes(s, "user")
        /\ joined' = joined \cup {cur[s]}
        /\ UNCHANGED <<cur, jailVars, dirs, limit, rest, left>>
     \/ (CannotWrite(s) \/ proc[cur[s]] # "held") /\ Ends(s)

-----------------------------------------------------------------------------
(* subprocReap, after each connection and on every signal.                  *)

\* Mutant: no signal ever comes.
NoWake(s) == FALSE

Wake(s) ==
  /\ At(s, "idle") /\ Goes(s, "reap")
  /\ UNCHANGED <<cur, jailVars, dirVars>>

\* Mutant: si_pid was cleared before the directory's name is made.
Wait4ThenClear(s, p) ==
  /\ At(s, "reap") /\ proc[p] = "zombie" /\ parent[p] = s
  /\ proc' = [proc EXCEPT ![p] = "free"] /\ parent' = [parent EXCEPT ![p] = Nobody]
  /\ Goes(s, "rmdir") /\ cur' = [cur EXCEPT ![s] = NoPid]
  /\ UNCHANGED <<asked, dirVars>>

\* wait4() frees the pid ...
Wait4(s, p) ==
  /\ At(s, "reap") /\ proc[p] = "zombie" /\ parent[p] = s
  /\ proc' = [proc EXCEPT ![p] = "free"] /\ parent' = [parent EXCEPT ![p] = Nobody]
  /\ Goes(s, "rmdir") /\ cur' = [cur EXCEPT ![s] = p]
  /\ UNCHANGED <<asked, dirVars>>

Busy(p) == p \in joined \cup rest

\* Mutant: the directory stays.
RmdirForgotten(s) ==
  /\ At(s, "rmdir") /\ Goes(s, "reap") /\ cur' = [cur EXCEPT ![s] = NoPid]
  /\ UNCHANGED <<jailVars, dirVars>>

\* ... and cgroupFinishFromParent removes the directory of that name, unless
\* there are processes in it.
Rmdir(s) ==
  /\ At(s, "rmdir") /\ Goes(s, "reap") /\ cur' = [cur EXCEPT ![s] = NoPid]
  /\ \/ /\ Uses(s) /\ ~Busy(cur[s])
        /\ dirs' = dirs \ {cur[s]} /\ left' = left \ {cur[s]}
     \/ /\ ~Uses(s) \/ Busy(cur[s])
        /\ left' = left \cup ({cur[s]} \cap rest) /\ UNCHANGED dirs
  /\ UNCHANGED <<jailVars, limit, joined, rest>>

ReapDone(s) ==
  /\ At(s, "reap") /\ \A p \in Pid : ~(proc[p] = "zombie" /\ parent[p] = s)
  /\ Goes(s, "idle")
  /\ UNCHANGED <<cur, jailVars, dirVars>>

-----------------------------------------------------------------------------
(* The jails.                                                               *)

\* A jail ends and leaves its directory; its descendants may stay in it.
JailEnds(p) ==
  /\ proc[p] \in {"eof", "run"} \/ (SharedFaults /\ proc[p] = "held")
  /\ proc' = [proc EXCEPT ![p] = "zombie"]
  /\ joined' = joined \ {p}
  /\ \/ UNCHANGED rest
     \/ ~NewPidNs /\ proc[p] = "run" /\ p \in joined /\ rest' = rest \cup {p}
  /\ UNCHANGED <<spc, cur, parent, asked, dirs, limit, left>>

RestEnds(p) ==
  /\ p \in rest /\ rest' = rest \ {p}
  /\ UNCHANGED <<spc, cur, jailVars, dirs, limit, joined, left>>

InitReaps(p) ==
  /\ proc[p] = "zombie" /\ parent[p] = Nobody
  /\ proc' = [proc EXCEPT ![p] = "free"]
  /\ UNCHANGED <<spc, cur, parent, asked, dirVars>>

-----------------------------------------------------------------------------
SupervisorStep(s) ==
  \/ NetPart(s) \/ Mkdir(s) \/ WriteLimit(s) \/ WriteOom(s) \/ WriteTasks(s) \/ UserPart(s)
  \/ Wake(s) \/ (\E p \in Pid : Wait4(s, p)) \/ Rmdir(s) \/ ReapDone(s)

Next ==
  \/ \E s \in Sup : SupervisorStep(s) \/ (\E p \in Pid : Clone(s, p)) \/ Crash(s) \/ Restart(s)
  \/ \E p \in Pid : JailEnds(p) \/ RestEnds(p) \/ InitReaps(p)

Spec == Init /\ [][Next]_vars

\* The scheduler runs every supervisor, and its timer wakes it up.  Nothing makes clients come or jails end.
FairSpec == Spec /\ \A s \in Sup : WF_vars(SupervisorStep(s))

-----------------------------------------------------------------------------
(* Properties.                                                              *)

\* Type invariant; the pid a supervisor is working on is known at every step of
\* cgroupInitNsFromParent and cgroupFinishFromParent.
SharedTypeOK ==
  /\ spc \in [Sup -> {"idle", "net", "mkdir", "limit", "oom", "tasks", "user", "reap", "rmdir",
                   "dead"}]
  /\ cur \in [Sup -> Pid \cup {NoPid}]
  /\ \A s \in Sup : spc[s] \notin {"idle", "reap", "dead"} => cur[s] \in Pid
  /\ proc \in [Pid -> {"free", "held", "eof", "run", "zombie"}]
  /\ parent \in [Pid -> Sup \cup {Nobody}]
  /\ asked \in [Pid -> Nat] /\ limit \in [Pid -> Nat]
  /\ {dirs, joined, rest, left} \subseteq SUBSET Pid

\* A jail that was released is in its directory, under the limit of the
\* supervisor that started it, as long as it runs: whichever supervisors reap
\* and remove directories of the same name meanwhile, and although the
\* directory may be an old one that mkdir() found in place.
JailLimited ==
  \A p \in Pid : proc[p] = "run" /\ asked[p] # 0 =>
                   p \in joined /\ p \in dirs /\ limit[p] = asked[p]

\* A directory that nobody will remove was left by a supervisor that ended
\* early, or kept by the descendants of a jail: the others belong to a jail of a
\* running supervisor, or to one that is about to remove it.
DirsAccountedFor ==
  \A p \in dirs : \/ p \in left
                  \/ parent[p] # Nobody /\ Uses(parent[p])
                  \/ \E s \in Sup : At(s, "rmdir") /\ cur[s] = p /\ Uses(s)

\* The directory of a jail that ended goes away, also when another supervisor
\* got the same pid and its rmdir() of the name failed or came first; except for
\* those nobody will remove, and unless a new jail has the pid.
EndedJailsLeaveNoDir ==
  \A p \in Pid : (proc[p] = "zombie" /\ p \in dirs) ~>
                   (p \notin dirs \/ p \in left \/ proc[p] \notin {"free", "zombie"})
=============================================================================
