------------------------------ MODULE Contain ------------------------------
(***************************************************************************)
(* The way of one jail from clone() (or unshare() in EXECVE mode) to its   *)
(* command: subprocNewProc, containContain and what they call.  The code   *)
(* is a fixed sequence of steps, each of which may fail; what makes it     *)
(* delicate is the kernel, where a step can undo or forbid another one:    *)
(* leaving uid 0 clears the capabilities, a change of credentials clears   *)
(* the parent death signal, execv() gives root its bounding set back, and  *)
(* a pid namespace dies with its first process.                            *)
(***************************************************************************)
EXTENDS Naturals, Sequences, FiniteSets

CONSTANTS
    Configs,      \* the configurations (struct nsjconf_t) to set up
    Id,           \* user and group ids, 0 among them
    MaxFd,        \* the largest descriptor
    NaiveLimit,   \* 1024 in containMakeFdsCOENaive
    Faults        \* the steps that may fail for reasons of their own

Fd == 0 .. MaxFd
Std == {0, 1, 2}

(* The options of the network: an address is given, 0.0.0.0 or no address.  *)
NetConfig == [iface_no_lo : BOOLEAN, iface : BOOLEAN,
              iface_vs_ip : {"set", "any", "bad"}, iface_vs_nm : {"set", "bad"},
              iface_vs_gw : {"set", "any", "bad"}]

(* The fields of nsjconf that decide what happens, with the ids the         *)
(* supervisor runs under and the descriptors the new process starts with.   *)
Config == [mode : {"LISTEN_TCP", "ONCE", "RERUN", "EXECVE"},
           is_silent : BOOLEAN, clone_newuser : BOOLEAN, clone_newns : BOOLEAN,
           clone_newnet : BOOLEAN, clone_newuts : BOOLEAN,
           clone_newpid : BOOLEAN,
           keep_caps : BOOLEAN, disable_no_new_privs : BOOLEAN,
           apply_sandbox : BOOLEAN,
           euid : Id, egid : Id, inside_uid : Id, inside_gid : Id,
           outside_uid : Id, outside_gid : Id, net : NetConfig,
           open : SUBSET Fd, cloexec : SUBSET Fd, open_fds : SUBSET Fd]

ASSUME ConfigAssumption ==
    /\ 0 \in Id
    /\ Configs \subseteq Config
    /\ \A c \in Configs : /\ Std \subseteq c.open_fds /\ Std \subseteq c.open
                          /\ \E fd \in Fd : fd \notin c.open
                          /\ c.clone_newuser \/ c.euid = 0
ASSUME FdAssumption == MaxFd \in Nat /\ NaiveLimit \in Nat

VARIABLES
    conf,     \* the configuration, fixed from the start
    pc,       \* index of the next step in subprocNewProc
    outcome,  \* "running", "command" (execv succeeded) or "exit"
    cred,     \* uid, gid, supplementary groups, capabilities and the like
    ns,       \* what has been set up in the namespaces: lo and vs stand for
              \* the two interfaces, gid_map and uid_map for the id maps
    fds       \* open descriptors, close-on-exec flags, where 0/1/2 lead

vars == <<conf, pc, outcome, cred, ns, fds>>

-----------------------------------------------------------------------------
(* The order of the calls.                                                  *)

\* Mutant: supplementary groups last.
GroupsLast ==
    <<"setresgid", "setresuid", "setgroups", "no_new_privs", "bset", "capset">>

\* Mutant: capset() before PR_CAPBSET_DROP.
CapsetFirst ==
    <<"setgroups", "setresgid", "setresuid", "no_new_privs", "capset", "bset">>

containDropPrivs ==
    <<"setgroups", "setresgid", "setresuid", "no_new_privs", "bset", "capset">>

\* Mutant: the group map first, which the kernel refuses to an unprivileged
\* user as long as setgroups() is allowed.
MapFirst == IF conf.clone_newuser THEN <<"gidMap", "userSetGroups", "uidMap">> ELSE <<>>

userInitNsFromParent ==
    IF conf.clone_newuser THEN <<"userSetGroups", "gidMap", "uidMap">> ELSE <<>>

\* Mutant: the interface is brought up for the sake of the route only.
UpForRoute ==
    IF conf.net.iface_vs_ip = "any" THEN <<>>
    ELSE <<"vsAddr", "vsNetmask">>
           \o (IF conf.net.iface_vs_gw = "any" THEN <<>> ELSE <<"vsUp", "vsGateway">>)

\* Without an address the rest, the gateway included, is not looked at.
netConfigureVs ==
    IF conf.net.iface_vs_ip = "any" THEN <<>>
    ELSE <<"vsAddr", "vsNetmask", "vsUp">>
           \o (IF conf.net.iface_vs_gw = "any" THEN <<>> ELSE <<"vsGateway">>)

netInitNsFromChild ==
    IF ~conf.clone_newnet THEN <<>>
    ELSE (IF conf.net.iface_no_lo THEN <<>> ELSE <<"loUp">>)
           \o (IF conf.net.iface THEN netConfigureVs ELSE <<>>)

\* Mutant: the parent death signal before the change of credentials.
EnvFirst ==
    <<"pidInitNs", "mountInitNs">> \o netInitNsFromChild \o <<"utsInitNs", "prepareEnv">>
        \o containDropPrivs \o <<"setLimits", "makeFdsCOE">>

containContain ==
    <<"pidInitNs", "mountInitNs">> \o netInitNsFromChild \o <<"utsInitNs">>
        \o containDropPrivs \o <<"setLimits", "prepareEnv", "makeFdsCOE">>

\* In EXECVE mode the process prepares itself; otherwise its parent does, in
\* subprocInitParent, before it sends the done byte.
subprocNewProc ==
    (IF conf.mode = "EXECVE"
     THEN <<"unshare", "setupFD">> \o userInitNsFromParent \o <<"cgroupInitNs">>
     ELSE <<"setupFD", "netInitNsFromParent", "cgroupInitNs">> \o userInitNsFromParent
            \o <<"readDone">>)
        \o containContain \o <<"sandboxApply", "execv">>

Done == pc' = pc + 1 /\ UNCHANGED <<conf, outcome>>

At(step) == outcome = "running" /\ subprocNewProc[pc] = step

-----------------------------------------------------------------------------
(* The kernel: who the process is and what it may do.                       *)

\* The host id that the configured id stands for.
TargetUid == IF conf.clone_newuser THEN conf.outside_uid ELSE conf.inside_uid
TargetGid == IF conf.clone_newuser THEN conf.outside_gid ELSE conf.inside_gid

\* Is this host uid the root of the user namespace the process is in?
IsRoot(uid) ==
    IF conf.clone_newuser THEN uid = conf.outside_uid /\ conf.inside_uid = 0
                          ELSE uid = 0

\* Who writes the maps is root in the parent namespace.  A process loses this
\* with unshare(), after which its geteuid() is the overflow id.
RootWrites == conf.euid = 0 /\ conf.mode # "EXECVE"

\* The rules of the kernel.  "deny" cannot be written once there is a map of
\* groups; others than root may only map their own id, and their group only if
\* setgroups() is denied; an id has to be mapped to be taken; only root makes an
\* interface on top of one of the host's; an interface takes a mask after an
\* address, and a route needs one that is up.
Permitted(step) ==
    CASE step = "userSetGroups" -> RootWrites \/ ~ns.gid_map
      [] step = "netInitNsFromParent" -> conf.clone_newnet /\ conf.net.iface => conf.euid = 0
      [] step = "gidMap" -> RootWrites \/ (conf.outside_gid = conf.egid /\ ns.deny)
      [] step = "uidMap" -> RootWrites \/ conf.outside_uid = conf.euid
      [] step = "mountInitNs" -> cred.caps
      [] step \in {"loUp", "vsUp"} -> cred.caps /\ (step = "vsUp" => "there" \in ns.vs)
      [] step = "vsAddr" ->
           cred.caps /\ "there" \in ns.vs /\ conf.net.iface_vs_ip # "bad"
      [] step = "vsNetmask" ->
           cred.caps /\ "addr" \in ns.vs /\ conf.net.iface_vs_nm # "bad"
      [] step = "vsGateway" ->
           cred.caps /\ "up" \in ns.vs /\ conf.net.iface_vs_gw # "bad"
      [] step = "utsInitNs" -> conf.clone_newuts => cred.caps
      [] step = "setresgid" -> /\ cred.caps \/ cred.gid = TargetGid
                               /\ conf.clone_newuser => ns.gid_map
      [] step = "setresuid" -> /\ cred.caps \/ cred.uid = TargetUid
                               /\ conf.clone_newuser => ns.uid_map
      [] OTHER -> TRUE

\* What execv() makes of the capabilities: root gets its bounding set, other
\* users get none, and with no_new_privs nothing is gained.
CapsAfterExec ==
    /\ IsRoot(cred.uid) /\ cred.bset
    /\ cred.nnp => cred.caps

-----------------------------------------------------------------------------
Unprivileged == conf.mode = "EXECVE" /\ conf.euid # 0

\* clone() has entered the namespaces already, unshare() is a step.
Init ==
    /\ conf \in Configs
    /\ pc = 1 /\ outcome = "running"
    /\ cred = [uid |-> conf.euid, gid |-> conf.egid, groups |-> TRUE,
               caps |-> ~Unprivileged, bset |-> TRUE, nnp |-> FALSE,
               pdeath |-> FALSE, limits |-> FALSE, seccomp |-> FALSE]
    /\ ns = [root |-> "host", lo |-> FALSE, vs |-> {}, uts |-> FALSE,
             deny |-> FALSE, gid_map |-> FALSE, uid_map |-> FALSE,
             init |-> IF conf.clone_newpid /\ conf.mode # "EXECVE"
                      THEN "alive" ELSE "host"]
    /\ fds = [open |-> conf.open, cloexec |-> conf.cloexec, std |-> "console"]

\* subprocRunChild in EXECVE mode.  With CLONE_NEWUSER the process has all
\* capabilities in its new namespace; with CLONE_NEWPID its next child will be
\* the first process of the new pid namespace.
unshare ==
    /\ At("unshare")
    /\ cred' = [cred EXCEPT !.caps = @ \/ conf.clone_newuser]
    /\ ns' = [ns EXCEPT !.init = IF conf.clone_newpid THEN "none" ELSE @]
    /\ Done /\ UNCHANGED fds

\* dup2() leaves 0, 1 and 2 without close-on-exec.
Redirect(to, new) ==
    fds' = [open |-> fds.open \cup new, cloexec |-> fds.cloexec \ Std, std |-> to]

containSetupFD ==
    /\ At("setupFD")
    /\ \/ conf.mode = "LISTEN_TCP" /\ Redirect("conn", {})
       \/ /\ conf.mode # "LISTEN_TCP" /\ conf.is_silent
          /\ \E fd \in Fd \ fds.open :
                /\ \A other \in Fd \ fds.open : fd <= other
                /\ Redirect("null", {fd})
       \/ conf.mode # "LISTEN_TCP" /\ ~conf.is_silent /\ UNCHANGED fds
    /\ Done /\ UNCHANGED <<cred, ns>>

\* ip(8) or netlink make the macvlan "vs" in the jail's network namespace.
netInitNsFromParent ==
    /\ At("netInitNsFromParent") /\ Permitted("netInitNsFromParent")
    /\ ns' = [ns EXCEPT !.vs = IF conf.clone_newnet /\ conf.net.iface
                               THEN {"there"} ELSE {}]
    /\ Done /\ UNCHANGED <<cred, fds>>

\* "deny" is written unless geteuid() is 0.
userSetGroups ==
    /\ At("userSetGroups") /\ Permitted("userSetGroups")
    /\ ns' = [ns EXCEPT !.deny = ~RootWrites]
    /\ Done /\ UNCHANGED <<cred, fds>>

userGidMapSelf ==
    /\ At("gidMap") /\ Permitted("gidMap")
    /\ ns' = [ns EXCEPT !.gid_map = TRUE]
    /\ Done /\ UNCHANGED <<cred, fds>>

userUidMapSelf ==
    /\ At("uidMap") /\ Permitted("uidMap")
    /\ ns' = [ns EXCEPT !.uid_map = TRUE]
    /\ Done /\ UNCHANGED <<cred, fds>>

\* The cgroup, which Supervisor and SharedCgroup have in detail, and the read
\* of the done byte.
Prepare ==
    /\ At("cgroupInitNs") \/ At("readDone")
    /\ Done /\ UNCHANGED <<cred, ns, fds>>

\* Mutant: no dummy init.
NoDummyInit ==
    At("pidInitNs") /\ Done /\ UNCHANGED <<cred, ns, fds>>

\* In EXECVE mode a dummy process becomes the init of the pid namespace.
pidInitNs ==
    /\ At("pidInitNs")
    /\ ns' = [ns EXCEPT !.init =
                IF conf.mode = "EXECVE" /\ @ = "none" THEN "alive" ELSE @]
    /\ Done /\ UNCHANGED <<cred, fds>>

\* In EXECVE mode the mounts are made by a child that shares root and working
\* directory (CLONE_FS).  As first process of a pid namespace it would take the
\* namespace with it when it exits.
mountInitNs ==
    /\ At("mountInitNs") /\ Permitted("mountInitNs")
    /\ ns' = [ns EXCEPT !.root = IF conf.clone_newns THEN "pivoted" ELSE "chroot",
                        !.init = IF conf.mode = "EXECVE" /\ @ = "none"
                                 THEN "dead" ELSE @]
    /\ Done /\ UNCHANGED <<cred, fds>>

\* SIOCSIFFLAGS for lo or vs.
netIfaceUp ==
    /\ \/ /\ At("loUp") /\ Permitted("loUp")
          /\ ns' = [ns EXCEPT !.lo = TRUE]
       \/ /\ At("vsUp") /\ Permitted("vsUp")
          /\ ns' = [ns EXCEPT !.vs = @ \cup {"up"}]
    /\ Done /\ UNCHANGED <<cred, fds>>

\* SIOCSIFADDR, SIOCSIFNETMASK and SIOCADDRT, each after its inet_pton().
ConfigureVs ==
    /\ \/ /\ At("vsAddr") /\ Permitted("vsAddr")
          /\ ns' = [ns EXCEPT !.vs = @ \cup {"addr"}]
       \/ /\ At("vsNetmask") /\ Permitted("vsNetmask")
          /\ ns' = [ns EXCEPT !.vs = @ \cup {"mask"}]
       \/ /\ At("vsGateway") /\ Permitted("vsGateway")
          /\ ns' = [ns EXCEPT !.vs = @ \cup {"route"}]
    /\ Done /\ UNCHANGED <<cred, fds>>

\* sethostname()
utsInitNs ==
    /\ At("utsInitNs") /\ Permitted("utsInitNs")
    /\ ns' = [ns EXCEPT !.uts = conf.clone_newuts]
    /\ Done /\ UNCHANGED <<cred, fds>>

-----------------------------------------------------------------------------
(* containDropPrivs                                                         *)

\* Best effort: an error is only logged.  In a user namespace the kernel wants a
\* map of groups, and no "deny".
SetGroups ==
    /\ At("setgroups")
    /\ cred' = [cred EXCEPT !.groups = @ /\ 
                    (~cred.caps \/ (conf.clone_newuser /\ (ns.deny \/ ~ns.gid_map)))]
    /\ Done /\ UNCHANGED <<ns, fds>>

SetResGid ==
    /\ At("setresgid") /\ Permitted("setresgid")
    /\ cred' = [cred EXCEPT !.gid = TargetGid,
                            !.pdeath = @ /\ cred.gid = TargetGid]
    /\ Done /\ UNCHANGED <<ns, fds>>

\* A process that leaves root loses its capabilities.
SetResUid ==
    /\ At("setresuid") /\ Permitted("setresuid")
    /\ cred' = [cred EXCEPT !.uid = TargetUid,
                            !.caps = @ /\ (IsRoot(cred.uid) => IsRoot(TargetUid)),
                            !.pdeath = @ /\ cred.uid = TargetUid]
    /\ Done /\ UNCHANGED <<ns, fds>>

\* Old kernels do not know PR_SET_NO_NEW_PRIVS, which is only logged here.
NoNewPrivs ==
    /\ At("no_new_privs")
    /\ \/ cred' = [cred EXCEPT !.nnp = @ \/ ~conf.disable_no_new_privs]
       \/ "no_new_privs" \in Faults /\ UNCHANGED cred
    /\ Done /\ UNCHANGED <<ns, fds>>

\* The loop ends at EINVAL only: without CAP_SETPCAP each call fails with
\* EPERM and the bounding set stays as it is.
DropBoundingSet ==
    /\ At("bset")
    /\ cred' = [cred EXCEPT !.bset = @ /\ (conf.keep_caps \/ ~cred.caps)]
    /\ Done /\ UNCHANGED <<ns, fds>>

\* PR_SET_KEEPCAPS and capset(), unless keep_caps.
Capset ==
    /\ At("capset")
    /\ cred' = [cred EXCEPT !.caps = @ /\ conf.keep_caps]
    /\ Done /\ UNCHANGED <<ns, fds>>

-----------------------------------------------------------------------------
\* All seven prlimit64() calls.
containSetLimits ==
    /\ At("setLimits")
    /\ cred' = [cred EXCEPT !.limits = TRUE]
    /\ Done /\ UNCHANGED <<ns, fds>>

\* PR_SET_PDEATHSIG; personality, priority and session change nothing here.
containPrepareEnv ==
    /\ At("prepareEnv")
    /\ cred' = [cred EXCEPT !.pdeath = TRUE]
    /\ Done /\ UNCHANGED <<ns, fds>>

\* Descriptors with the flags as containPassFd wants them.
Marked(which) ==
    (fds.cloexec \ (which \cap conf.open_fds)) \cup (which \ conf.open_fds)

\* Mutant: no second attempt, what was marked by then has to do.
NoFallback ==
    /\ At("makeFdsCOE")
    /\ \E seen \in SUBSET fds.open : fds' = [fds EXCEPT !.cloexec = Marked(seen)]
    /\ Done /\ UNCHANGED <<cred, ns>>

\* containMakeFdsCOEProc reads /proc/self/fd, which need not exist in the jail
\* and needs a free descriptor under the new RLIMIT_NOFILE; it may also give up
\* half way.  Then containMakeFdsCOENaive goes over the small numbers.
containMakeFdsCOE ==
    /\ At("makeFdsCOE")
    /\ \/ fds' = [fds EXCEPT !.cloexec = Marked(fds.open)]
       \/ /\ "proc_fd" \in Faults
          /\ \E seen \in SUBSET fds.open :
                fds' = [fds EXCEPT !.cloexec =
                    Marked(seen \cup {fd \in fds.open : fd < NaiveLimit})]
    /\ Done /\ UNCHANGED <<cred, ns>>

\* The filter is accepted since PR_SET_NO_NEW_PRIVS comes first.  So it is in
\* builds for x86_64 and i386; the #if of sandbox.c leaves nothing of it in others.
sandboxApply ==
    /\ At("sandboxApply")
    /\ cred' = [cred EXCEPT !.nnp = @ \/ conf.apply_sandbox,
                            !.seccomp = conf.apply_sandbox]
    /\ Done /\ UNCHANGED <<ns, fds>>

execv ==
    /\ At("execv")
    /\ outcome' = "command"
    /\ cred' = [cred EXCEPT !.caps = CapsAfterExec]
    /\ fds' = [fds EXCEPT !.open = @ \ fds.cloexec, !.cloexec = {}]
    /\ UNCHANGED <<conf, pc, ns>>

\* Mutant: a failing execv() is logged and the function goes on to its end.
FailureSkipsExec ==
    /\ At("execv") /\ "execv" \in Faults
    /\ Done /\ UNCHANGED <<cred, ns, fds>>

\* Every other failure makes the process exit(1).
BestEffort == {"setgroups", "no_new_privs", "bset"}
StepFails ==
    /\ outcome = "running"
    /\ LET step == subprocNewProc[pc]
       IN  step \notin BestEffort /\ (step \in Faults \/ ~Permitted(step))
    /\ outcome' = "exit"
    /\ UNCHANGED <<conf, pc, cred, ns, fds>>

Next ==
    \/ unshare \/ containSetupFD \/ netInitNsFromParent \/ userSetGroups
    \/ userGidMapSelf \/ userUidMapSelf \/ Prepare \/ pidInitNs \/ mountInitNs
    \/ netIfaceUp \/ ConfigureVs \/ utsInitNs \/ SetGroups \/ SetResGid \/ SetResUid
    \/ NoNewPrivs \/ DropBoundingSet \/ Capset \/ containSetLimits
    \/ containPrepareEnv \/ containMakeFdsCOE \/ sandboxApply \/ execv
    \/ StepFails

Spec == Init /\ [][Next]_vars
=============================================================================
