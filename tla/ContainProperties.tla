------------------------- MODULE ContainProperties -------------------------
(* What the set up of a jail promises at the moment its command runs.       *)
EXTENDS Contain

Command == outcome = "command"

\* Types of the state of Contain: the step counter stays inside the sequence of
\* subprocNewProc, and only open descriptors have a close-on-exec flag.
ContainTypeOK ==
    /\ conf \in Configs
    /\ pc \in 1 .. Len(subprocNewProc)
    /\ outcome \in {"running", "command", "exit"}
    /\ cred \in [uid : Id, gid : Id, groups : BOOLEAN, caps : BOOLEAN,
                 bset : BOOLEAN, nnp : BOOLEAN, pdeath : BOOLEAN,
                 limits : BOOLEAN, seccomp : BOOLEAN]
    /\ ns \in [root : {"host", "pivoted", "chroot"}, lo : BOOLEAN,
               vs : SUBSET {"there", "addr", "mask", "up", "route"},
               uts : BOOLEAN, deny : BOOLEAN, gid_map : BOOLEAN,
               uid_map : BOOLEAN, init : {"host", "none", "alive", "dead"}]
    /\ fds \in [open : SUBSET Fd, cloexec : SUBSET Fd,
                std : {"console", "conn", "null"}]

\* A command runs only after every step that may not fail has succeeded: new
\* root, host name, ids, limits, redirection, filter and network are all as
\* configured (the chain of "return false" up to exit(1) in subprocNewProc).  Of
\* the network, lo is up unless iface_no_lo, and an interface with an address
\* also has its mask, is up, and has the gateway that was asked for.
CommandFullyConfined ==
    Command =>
        /\ ns.root = IF conf.clone_newns THEN "pivoted" ELSE "chroot"
        /\ ns.uts = conf.clone_newuts
        /\ cred.uid = TargetUid /\ cred.gid = TargetGid
        /\ cred.limits
        /\ conf.apply_sandbox => cred.seccomp /\ cred.nnp
        /\ conf.mode = "LISTEN_TCP" => fds.std = "conn"
        /\ conf.mode # "LISTEN_TCP" /\ conf.is_silent => fds.std = "null"
        /\ ns.lo = (conf.clone_newnet /\ ~conf.net.iface_no_lo)
        /\ conf.clone_newnet /\ conf.net.iface /\ conf.net.iface_vs_ip # "any" =>
             /\ {"addr", "mask", "up"} \subseteq ns.vs
             /\ conf.net.iface_vs_gw # "any" => "route" \in ns.vs

\* The parent death signal of containPrepareEnv is still set when the command
\* runs, although the kernel clears it whenever credentials change.
CommandDiesWithParent == Command => cred.pdeath

\* Without keep_caps the command has no capabilities, not even those execv()
\* gives to root: containDropPrivs must empty the bounding set while it still
\* may, and the capability sets after that.  A jail set up by root has no
\* supplementary groups either: setgroups() in containDropPrivs is best effort,
\* but comes while it is still permitted.
CommandHasNoPrivileges ==
    Command => /\ ~conf.keep_caps => ~cred.caps
               /\ RootWrites => ~cred.groups

\* One step gives nothing back: only unshare() gives capabilities, the bounding
\* set and the groups do not grow, no_new_privs, the limits, the filter and the
\* parent death signal stay, ids and root are changed once.
Keeps ==
    /\ cred'.caps => cred.caps \/ At("unshare")
    /\ cred'.bset => cred.bset
    /\ cred'.groups => cred.groups
    /\ cred.nnp => cred'.nnp
    /\ cred.limits => cred'.limits
    /\ cred.seccomp => cred'.seccomp
    /\ cred.pdeath => cred'.pdeath
    /\ cred.uid # conf.euid => cred'.uid = cred.uid
    /\ cred.gid # conf.egid => cred'.gid = cred.gid
    /\ ns.root # "host" => ns'.root = ns.root

\* What subprocNewProc has given up or confined stays so through every later
\* step of the set up, although setresuid() clears the parent death signal,
\* execv() gives capabilities to root, and sandboxApply sets no_new_privs again.
NothingRegained == [][Keeps]_vars

\* What containMakeFdsCOENaive does not come to when it has to do the work.
Beyond == {fd \in Fd : "proc_fd" \in Faults /\ fd >= NaiveLimit}

\* The command inherits the descriptors of open_fds that were open, and no
\* other one, whether /proc/self/fd could be read to the end or not
\* (containMakeFdsCOE), up to the last descriptor of the fallback.
OnlyPassedFds ==
    Command => /\ fds.open \ Beyond \subseteq conf.open_fds
               /\ (conf.open \cap conf.open_fds) \ Beyond \subseteq fds.open

\* The command can start processes: the pid namespace of EXECVE mode has a
\* living init, which is the dummy of pidInitNs and not the mount helper.
CommandCanFork == Command => ns.init \in {"host", "alive"}

\* The order of the steps never takes away what a later step needs: with maps to
\* the caller's own ids, proper addresses and an interface only where a parent that
\* is root makes it, the kernel forbids no step of subprocNewProc, so that the set up
\* ends early only if a call fails for reasons of its own.
NoStepForbidden ==
    /\ outcome = "running"
    /\ conf.clone_newuser =>
          conf.outside_uid = conf.euid /\ conf.outside_gid = conf.egid
    /\ conf.net.iface => /\ conf.mode # "EXECVE" /\ conf.euid = 0
                         /\ "bad" \notin {conf.net.iface_vs_ip, conf.net.iface_vs_nm,
                                          conf.net.iface_vs_gw}
    => Permitted(subprocNewProc[pc])
=============================================================================
