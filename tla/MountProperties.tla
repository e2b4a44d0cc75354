-------------------------- MODULE MountProperties --------------------------
(* What the options of a command line promise about the mounts of a jail.   *)
EXTENDS Mount

Path == UNION {{o.dst : o \in {q \in Options : q.c = "T"}},
               UNION {Range(o.spec) : o \in {q \in Options : q.c \in {"R", "B"}}},
               {<<>>, <<"proc">>}}

\* The fields of the command line and of the mount phase stay in range; every
\* mount covers a path an option names, and comes from an entry of the list.
MountTypeOK ==
    /\ parse \in {"options", "parsed", "exit0", "exit1"}
    /\ nsjconf.mode \in Mode
    /\ \A r \in DOMAIN nsjconf.rl : nsjconf.rl[r] \in 0 .. LimMod - 1
    /\ nsjconf.outside_uid \in 0 .. IdMod - 1
    /\ nsjconf.inside_uid \in 0 .. IdMod - 1
    /\ mpc \in {"start", "begin", "mount", "remount", "ok", "fail"}
    /\ next \in 1 .. Len(nsjconf.mountpts) + 1
    /\ \A i \in DOMAIN mnt : /\ mnt[i].at \in Path /\ mnt[i].ro \in BOOLEAN
                             /\ mnt[i].entry \in 0 .. Len(nsjconf.mountpts)
    /\ helper \in {"none", "running", "exit0", "exit1", "killed"}
    /\ ret \in {"none", "true", "false"}

Done == ret = "true" /\ nsjconf.clone_newns
Entry == DOMAIN nsjconf.mountpts

\* The mount that stands for entry i: its own, or for / with pivot_root_only
\* the tmpfs the root pivoted to.
Shown(i) ==
    LET m == mnt[Top(nsjconf.mountpts[i].dst)]
    IN  \/ m.entry = i
        \/ m.entry = 0 /\ nsjconf.pivot_root_only /\ nsjconf.mountpts[i].dst = <<>>

\* When mountInitNs reports success the jail has left the host's root: the
\* old root is detached and every entry was mounted, also when the work was
\* done by a helper process whose exit status is all there is to see.
SuccessMeansEnclosed ==
    ret = "true" => /\ root # "host" /\ ~oldroot
                    /\ nsjconf.clone_newns =>
                         \A i \in Entry :
                            \/ \E j \in DOMAIN mnt : mnt[j].entry = i
                            \/ nsjconf.pivot_root_only
                               /\ nsjconf.mountpts[i].dst = <<>>

\* An entry that is not covered by a later one is read-only when the jail starts
\* if it asked for that, and writable if neither it nor another entry with the
\* same destination did.  The remount goes by path after all the mounts were
\* made, in whatever order the options came, and hits what is on top.
MountFlagsHonoured ==
    Done => \A i \in Entry :
              LET e == nsjconf.mountpts[i]
                  same == {j \in Entry : nsjconf.mountpts[j].dst = e.dst}
                  shown == mnt[Top(e.dst)]
              IN  Shown(i) => /\ e.ro => shown.ro
                              /\ (\A j \in same : ~nsjconf.mountpts[j].ro) => ~shown.ro

MountOption == {k \in DOMAIN argv : argv[k].c \in {"R", "B", "T"}}
Dst(k) == IF argv[k].c = "T" THEN argv[k].dst
          ELSE cmdlineSplitStrByColon(argv[k].spec)[1]

\* Later options win: the destination of an option shows what the option
\* mounted, unless a later option is mounted on it or above it.  / and /proc,
\* which cmdlineParse adds after all the options, never hide one of them.  A
\* tmpfs has the size of the last --tmpfs_size, also if that follows its -T: all
\* entries of -T point to the one buffer the size is printed to.
LaterOptionsWin ==
    Done => \A k \in MountOption :
              LET m == mnt[Top(Dst(k))]
              IN  \/ \E j \in MountOption : j > k /\ Dst(j) \in Prefixes(Dst(k))
                  \/ nsjconf.pivot_root_only /\ Dst(k) = <<>>
                  \/ argv[k].c = "T" /\ m.fs \notin HostFs
                                     /\ m.size = nsjconf.tmpfs_size
                  \/ argv[k].c # "T" /\ m.fs = BindFs(argv[k].spec[1])

Source(i) == nsjconf.mountpts[i].src
DstOf(i) == nsjconf.mountpts[i].dst
Below(p, q) == SubSeq(q, Len(p) + 1, Len(q))   \* q as seen from its prefix p

\* The entries with a mount point inside of the mount of entry i.
Inside(i) == {j \in Entry : DstOf(i) \in Parents(DstOf(j))}

\* A file has no place at / or where another entry has its destination or a
\* parent of it, nor where the host has a directory, nor in a directory that
\* is bound twice, since what is made in one place shows in the other.
NoPlaceForFile(i) ==
    \/ DstOf(i) = <<>>
    \/ \E j \in Entry \ {i} : DstOf(i) \in Prefixes(DstOf(j))
    \/ \E j \in Entry :
         /\ Source(j) # NULL /\ DstOf(j) \in Prefixes(DstOf(i))
         /\ \/ Below(DstOf(j), DstOf(i)) \in Host[Source(j)[1]].tree
            \/ \E k \in Entry \ {j} : Source(k) # NULL /\ Source(k)[1] = Source(j)[1]

\* What can really be in the way of a list of mounts: a source that does not
\* exist; a later entry that hides the mount point of an earlier one; a mount
\* point to be made where nothing can be made, in /proc or in a host
\* directory that is not writable; a file with no place for it.
Unusable(i) ==
    \/ SourceKind(nsjconf.mountpts[i]) = "missing"
    \/ \E j \in Inside(i) :
         \/ j < i
         \/ nsjconf.mountpts[i].fs_type = "proc"
         \/ /\ Source(i) # NULL /\ ~Host[Source(i)[1]].writable
            /\ Below(DstOf(i), DstOf(j)) \notin Host[Source(i)[1]].tree
    \/ SourceKind(nsjconf.mountpts[i]) = "file" /\ NoPlaceForFile(i)

\* A list of mounts of usable sources, none of which hides another,
\* always succeeds, also when a mount point lies inside of a read-only mount:
\* nothing is read-only before all mount points have been made.  A missing working
\* directory is an excuse only once everything is mounted and the old root left.
SoundListsSucceed ==
    mpc = "fail" /\ nsjconf.clone_newns /\ ~fault =>
      \/ \E i \in Entry : Unusable(i)
      \/ root = "jail" /\ ~IsDir(nsjconf.cwd)

Limits(r) == {i \in DOMAIN argv : argv[i].c = "rlimit" /\ argv[i].res = r}

\* A limit whose value in bytes can be represented is set to exactly that
\* value, by the last option that names the resource.
LimitExact ==
    parse = "parsed" =>
      \A r \in DOMAIN nsjconf.rl :
        \E i \in Limits(r) :
          /\ \A j \in Limits(r) : j <= i
          /\ argv[i].text.kind = "number" /\ argv[i].text.n * argv[i].mul < LimMod
             => nsjconf.rl[r] = argv[i].text.n * argv[i].mul
=============================================================================
