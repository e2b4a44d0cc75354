----------------------------- MODULE MCContain -----------------------------
(* Configurations for model checking the set up of a jail.                  *)
EXTENDS ContainProperties

NoIface == [iface_no_lo |-> FALSE, iface |-> FALSE, iface_vs_ip |-> "any",
            iface_vs_nm |-> "set", iface_vs_gw |-> "any"]

\* Every combination of ids and of the options that concern privileges, for
\* a jail with a connection on 3 and its end of the socketpair on 4.
PrivConfigs ==
    {c \in [mode : {"LISTEN_TCP", "ONCE", "EXECVE"}, is_silent : {FALSE},
            clone_newuser : BOOLEAN, clone_newns : {TRUE},
            clone_newnet : {TRUE}, clone_newuts : BOOLEAN,
            clone_newpid : BOOLEAN, keep_caps : BOOLEAN,
            disable_no_new_privs : BOOLEAN, apply_sandbox : BOOLEAN,
            euid : Id, egid : Id, inside_uid : Id, inside_gid : Id,
            outside_uid : Id, outside_gid : Id, net : {NoIface},
            open : {Std \cup {3, 4}}, cloexec : {{4}}, open_fds : {Std}] :
        c.clone_newuser \/ (c.euid = 0 /\ c.outside_uid = 0 /\ c.outside_gid = 0)}

\* Every combination of inherited descriptors, flags and passed descriptors.
FdConfigs ==
    {c \in [mode : {"LISTEN_TCP", "RERUN", "EXECVE"}, is_silent : BOOLEAN,
            clone_newuser : {TRUE}, clone_newns : BOOLEAN,
            clone_newnet : {FALSE}, clone_newuts : {FALSE},
            clone_newpid : {TRUE}, keep_caps : {FALSE},
            disable_no_new_privs : {FALSE}, apply_sandbox : {TRUE},
            euid : {1}, egid : {1}, inside_uid : {0}, inside_gid : {0},
            outside_uid : {1}, outside_gid : {1}, net : {NoIface},
            open : {Std \cup S : S \in SUBSET (3 .. MaxFd - 1)},
            cloexec : SUBSET (Fd \ Std),
            open_fds : {Std \cup S : S \in SUBSET (3 .. MaxFd - 1)}] :
        c.cloexec \subseteq c.open}

\* Every combination of the network options.
NetConfigs ==
    [mode : {"LISTEN_TCP", "EXECVE"}, is_silent : {FALSE},
     clone_newuser : {TRUE}, clone_newns : {TRUE},
     clone_newnet : BOOLEAN, clone_newuts : {FALSE},
     clone_newpid : {TRUE}, keep_caps : {FALSE},
     disable_no_new_privs : {FALSE}, apply_sandbox : {FALSE},
     euid : Id, egid : {1}, inside_uid : Id, inside_gid : {0},
     outside_uid : Id, outside_gid : {1}, net : NetConfig,
     open : {Std \cup {3, 4}}, cloexec : {{4}}, open_fds : {Std}]

MCConfigs == PrivConfigs \cup FdConfigs \cup NetConfigs
=============================================================================
