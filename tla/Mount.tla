------------------------------- MODULE Mount -------------------------------
(***************************************************************************)
(* mountInitNs: the mounts of a jail, from the list cmdlineParse built.    *)
(* Everything is mounted writable first, so that mount points can be made  *)
(* inside of what was mounted before, and made read-only at the end, by    *)
(* path.  A path then leads to the mount that is on top, which need not be *)
(* the one its entry of the list made.                                     *)
(***************************************************************************)
EXTENDS Cmdline, Functions

CONSTANTS
    Host,         \* what the host has: [paths -> [kind, writable, tree]]
    MountFaults   \* whether calls may fail for reasons of their own

\* The prefixes of a path: itself and the directories above it.
Prefixes(p) == {SubSeq(p, 1, l) : l \in 0 .. Len(p)}

ASSUME HostAssumption ==
    /\ \A p \in DOMAIN Host :
         /\ Host[p].kind \in {"dir", "file"} /\ Host[p].writable \in BOOLEAN
         /\ Host[p].tree \subseteq Paths /\ (Host[p].kind = "file" => Host[p].tree = {})
         /\ \A q \in Host[p].tree : Prefixes(q) \subseteq Host[p].tree \cup {<<>>}
    /\ MountFaults \in BOOLEAN

VARIABLES
    mpc,       \* where mountInitNsInternal is, or "ok", "fail" when it is over
    next,      \* position in mountpts of the loop at hand
    mnt,       \* the mounts below the root of the jail, oldest first
    nodes,     \* <<fs, path, kind>>: the files and directories there are
    oldroot,   \* /old_root is attached
    root,      \* what the root directory is: "host", "jail", "chroot"
    helper,    \* EXECVE mode: "none", "running", "exit0", "exit1", "killed"
    ret,       \* what mountInitNs returned: "none", "true" or "false"
    fault      \* a call failed, or the helper died, for reasons of its own

mountVars == <<mpc, next, mnt, nodes, oldroot, root, helper, ret, fault>>
vars == <<cmdlineVars, mountVars>>

-----------------------------------------------------------------------------
(* The kernel: paths and mounts.  A file system is known by the host path   *)
(* it is bound from, or by the entry that mounted it.                       *)

BindFs(src) == [src |-> src, n |-> 0]
NewFs(n) == [src |-> <<>>, n |-> n + 1]
BaseFs == NewFs(0)   \* the tmpfs the root pivots to

HostFs == {BindFs(p) : p \in DOMAIN Host}

\* The mount a path leads to is the youngest one on a prefix of it: a mount
\* covers whatever was mounted at or below its mount point before.
Top(p) == CHOOSE i \in DOMAIN mnt :
            /\ mnt[i].at \in Prefixes(p)
            /\ \A j \in DOMAIN mnt : mnt[j].at \in Prefixes(p) => j <= i

Node(p, kind) ==
    <<mnt[Top(p)].fs, SubSeq(p, Len(mnt[Top(p)].at) + 1, Len(p)), kind>>
IsDir(p) == Node(p, "dir") \in nodes
IsFile(p) == Node(p, "file") \in nodes
Exists(p) == IsDir(p) \/ IsFile(p)

\* Directories and files can be made where p leads to; in /proc they never can.
Writable(p) ==
    LET m == mnt[Top(p)]
    IN  /\ ~m.ro /\ (m.fs \in HostFs => Host[m.fs.src].writable)
        /\ m.entry # 0 => nsjconf.mountpts[m.entry].fs_type # "proc"

MountInit ==
    /\ mpc = "start" /\ next = 1
    /\ mnt = <<[at |-> <<>>, fs |-> BaseFs, ro |-> FALSE, size |-> 0, entry |-> 0]>>
    /\ nodes = {<<BaseFs, <<>>, "dir">>} \cup
               UNION {{<<BindFs(p), q, "dir">> : q \in Host[p].tree} \cup
                      {<<BindFs(p), <<>>, Host[p].kind>>} : p \in DOMAIN Host}
    /\ oldroot = FALSE /\ root = "host" /\ helper = "none" /\ ret = "none" /\ fault = FALSE

-----------------------------------------------------------------------------
(* utilCreateDirRecursively and mountMount.                                 *)

Parents(p) == Prefixes(p) \ {p}

\* utilCreateDirRecursively fails: a file is in the way, or a directory is
\* missing where none can be made.
CannotCreateParents(p) ==
    \E q \in Parents(p) : IsFile(q) \/ (~Exists(q) /\ ~Writable(q))

utilCreateDirRecursively(p) ==
    nodes \cup {Node(q, "dir") : q \in {r \in Parents(p) : ~Exists(r)}}

SourceKind(e) ==
    IF e.src = NULL THEN "dir"
    ELSE IF e.src[1] \in DOMAIN Host THEN Host[e.src[1]].kind ELSE "missing"

\* The mount point itself: failing to make it is only logged.
MountPoint(e) ==
    utilCreateDirRecursively(e.dst) \cup
    (IF ~Exists(e.dst) /\ Writable(e.dst)
     THEN {Node(e.dst, SourceKind(e))} ELSE {})

Fail == mpc' = "fail" /\ UNCHANGED <<next, mnt, oldroot, root>>

\* Mutant: read-only from the start.
MountFlags(e) == e.ro

\* What is mounted is writable at first.
FlagsWithoutRdonly(e) == FALSE

mountMount(e) ==
    LET kind == SourceKind(e)
        fs == IF e.src = NULL THEN NewFs(next) ELSE BindFs(e.src[1])
        made == MountPoint(e)
        size == IF e.options = "cmdlineTmpfsSz" THEN nsjconf.tmpfs_size ELSE 0
    IN  IF \/ kind = "missing"
           \/ CannotCreateParents(e.dst)
           \/ Node(e.dst, kind) \notin made
        THEN Fail /\ nodes' = IF kind = "missing" \/ CannotCreateParents(e.dst)
                              THEN nodes ELSE made
        ELSE /\ mnt' = Append(mnt, [at |-> e.dst, fs |-> fs, entry |-> next,
                                    ro |-> FlagsWithoutRdonly(e), size |-> size])
             /\ nodes' = IF e.src = NULL THEN made \cup {<<fs, <<>>, "dir">>} ELSE made
             /\ next' = next + 1
             /\ UNCHANGED <<mpc, oldroot, root>>

-----------------------------------------------------------------------------
(* mountInitNsInternal.  At(s, ..) is a process at step s: the jail itself,  *)
(* or in EXECVE mode the helper it waits for.                                 *)

At(s, failing) == /\ mpc = s /\ ret = "none"
         /\ UNCHANGED <<cmdlineVars, ret, helper>>
         /\ fault' = (fault \/ failing)

\* What chroot() accepts; it fails for the NULL of a missing -c.
ChrootDirs == {<<p>> : p \in {q \in DOMAIN Host : Host[q].kind = "dir"}}

\* No mount name space: chroot() to the directory given, if there is one.
ChrootOnly ==
    /\ At("begin", FALSE) /\ ~nsjconf.clone_newns /\ UNCHANGED nodes
    /\ \/ /\ nsjconf.chroot \in ChrootDirs
          /\ root' = "chroot" /\ mpc' = "ok" /\ UNCHANGED <<next, mnt, oldroot>>
       \/ /\ nsjconf.chroot \notin ChrootDirs
          /\ Fail

\* tmpfs on /tmp, pivot_root() to it, /new_root unless pivot_root_only.
PivotRoot ==
    /\ At("begin", FALSE) /\ nsjconf.clone_newns
    /\ oldroot' = TRUE /\ mpc' = "mount"
    /\ UNCHANGED <<next, mnt, nodes, root>>

MountNext ==
    /\ At("mount", FALSE) /\ next <= Len(nsjconf.mountpts)
    /\ LET e == nsjconf.mountpts[next]
       IN  \/ /\ nsjconf.pivot_root_only /\ e.dst = <<>>
              /\ next' = next + 1 /\ UNCHANGED <<mpc, mnt, nodes, oldroot, root>>
           \/ /\ ~(nsjconf.pivot_root_only /\ e.dst = <<>>)
              /\ mountMount(e)

\* umount2(), chroot() or rmdir(), and chdir() to the directory of -D.
LeaveOldRoot ==
    /\ At("mount", FALSE) /\ next > Len(nsjconf.mountpts)
    /\ oldroot' = FALSE /\ root' = "jail" /\ next' = 1
    /\ mpc' = IF IsDir(nsjconf.cwd) THEN "remount" ELSE "fail"
    /\ UNCHANGED <<mnt, nodes>>

\* Mutant: everything read-only.
RemountAll(e) ==
    IF Exists(e.dst) THEN [mnt EXCEPT ![Top(e.dst)].ro = TRUE] ELSE NULL

\* statvfs() and, for a read-only entry, the remount: both by path, and the
\* remount only where a mount has its root.  NULL when one of them fails.
mountRemountRO(e) ==
    CASE ~Exists(e.dst) -> NULL
      [] Exists(e.dst) /\ ~e.ro -> mnt
      [] OTHER -> IF mnt[Top(e.dst)].at = e.dst
                  THEN [mnt EXCEPT ![Top(e.dst)].ro = TRUE] ELSE NULL

RemountNext ==
    /\ At("remount", FALSE) /\ next <= Len(nsjconf.mountpts)
    /\ LET m == mountRemountRO(nsjconf.mountpts[next])
       IN  \/ m = NULL /\ Fail
           \/ /\ m # NULL /\ mnt' = m /\ next' = next + 1
              /\ UNCHANGED <<mpc, oldroot, root>>
    /\ UNCHANGED nodes

Finished ==
    /\ At("remount", FALSE) /\ next > Len(nsjconf.mountpts)
    /\ mpc' = "ok" /\ UNCHANGED <<next, mnt, nodes, oldroot, root>>

\* Any of the calls fails.
CallFails ==
    /\ MountFaults /\ mpc \in {"begin", "mount", "remount"} /\ At(mpc, TRUE)
    /\ Fail /\ UNCHANGED nodes

mountInitNsInternal ==
    ChrootOnly \/ PivotRoot \/ MountNext \/ LeaveOldRoot \/ RemountNext
      \/ Finished \/ CallFails

-----------------------------------------------------------------------------
(* mountInitNs.                                                             *)

\* Straight, or in a helper that shares the root directory (CLONE_FS).
Begin ==
    /\ mpc = "start" /\ parse = "parsed" /\ mpc' = "begin"
    /\ helper' = IF nsjconf.mode = "EXECVE" THEN "running" ELSE "none"
    /\ UNCHANGED <<cmdlineVars, next, mnt, nodes, oldroot, root, ret, fault>>

CloneFails ==
    /\ MountFaults /\ mpc = "start" /\ parse = "parsed"
    /\ nsjconf.mode = "EXECVE" /\ mpc' = "fail" /\ ret' = "false" /\ fault' = TRUE
    /\ UNCHANGED <<cmdlineVars, next, mnt, nodes, oldroot, root, helper>>

HelperExits ==
    /\ helper = "running" /\ mpc \in {"ok", "fail"}
    /\ helper' = IF mpc = "ok" THEN "exit0" ELSE "exit1"
    /\ UNCHANGED <<cmdlineVars, mpc, next, mnt, nodes, oldroot, root, ret, fault>>

HelperKilled ==
    /\ MountFaults /\ helper = "running"
    /\ helper' = "killed" /\ mpc' = "fail" /\ fault' = TRUE
    /\ UNCHANGED <<cmdlineVars, next, mnt, nodes, oldroot, root, ret>>

\* Mutant: any end of the helper will do.
AnyStatus == IF helper = "none" THEN mpc = "ok" ELSE TRUE

\* What mountInitNs makes of the end of its work.
Succeeded == IF helper = "none" THEN mpc = "ok" ELSE helper = "exit0"

Return ==
    /\ mpc \in {"ok", "fail"} /\ helper # "running" /\ ret = "none"
    /\ ret' = IF Succeeded THEN "true" ELSE "false"
    /\ UNCHANGED <<cmdlineVars, mpc, next, mnt, nodes, oldroot, root, helper, fault>>

mountInitNs ==
    Begin \/ CloneFails \/ mountInitNsInternal \/ HelperExits \/ HelperKilled \/ Return

Init == CmdlineInit /\ MountInit
Next == (cmdlineParse /\ UNCHANGED mountVars) \/ mountInitNs
Spec == Init /\ [][Next]_vars
=============================================================================
