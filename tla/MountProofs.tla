---------------------------- MODULE MountProofs ----------------------------
(***************************************************************************)
(* For every command line and every host: what the jail finds where it     *)
(* looks.  FlagsInv says which mounts are read-only, NodesInv where the    *)
(* files and directories come from that a mount point may meet.            *)
(***************************************************************************)
EXTENDS TableProofs

-----------------------------------------------------------------------------
(* Read-only mounts.                                                        *)

\* The first n - 1 entries that ask for it are read-only, and so is nothing
\* that no entry asks to be.
ReadOnlyBelow(n) ==
    LET L == nsjconf.mountpts
    IN  /\ \A i \in DOMAIN L : i < n /\ L[i].ro => mnt[Top(L[i].dst)].ro
        /\ \A k \in DOMAIN mnt : mnt[k].ro => \E j \in DOMAIN L : L[j].ro /\ mnt[k].at = L[j].dst

FlagsInv ==
    /\ mpc = "remount" => ReadOnlyBelow(next)
    /\ mpc = "ok" /\ nsjconf.clone_newns => ReadOnlyBelow(Len(nsjconf.mountpts) + 1)

\* A remount by path leads where it led before, and makes the entry read-only.
LEMMA FlagsRemount ==
    ASSUME MountInv, ParseInv', RemountNext, ReadOnlyBelow(next), mpc' = "remount"
    PROVE  ReadOnlyBelow(next)'
<1> DEFINE L == nsjconf.mountpts
<1>0. UNCHANGED nsjconf /\ mpc = "remount" /\ next <= Len(L)
  BY DEF RemountNext, At, cmdlineVars
<1>1. /\ TableOK /\ TableOK' /\ DOMAIN mnt' = DOMAIN mnt
      /\ \A j \in DOMAIN mnt : mnt'[j].at = mnt[j].at
  BY RemountNextStep DEF MountInv
<1>2. /\ \A i \in DOMAIN L : L[i].dst \in Paths
      /\ DOMAIN L = 1 .. Len(L) /\ Len(L) \in Nat
  BY ListTypes DEF MountInv
<1>3. next \in DOMAIN L /\ next \in Nat
  BY <1>0, <1>2 DEF MountInv
<1>4. PICK e : e = L[next]
  OBVIOUS
<1>5. mountRemountRO(e) # NULL /\ mnt' = mountRemountRO(e) /\ next' = next + 1
  BY <1>0, <1>4 DEF RemountNext, Fail
<1>6. PICK t : t = Top(e.dst)
  OBVIOUS
<1>7. t \in DOMAIN mnt
  BY <1>1, <1>2, <1>3, <1>4, <1>6, TopUnique DEF TopIs
<1>8. \/ ~e.ro /\ mnt' = mnt
      \/ /\ e.ro /\ mnt[t].at = e.dst /\ mnt' = [mnt EXCEPT ![t].ro = TRUE]
  BY <1>5, <1>6, RemountCases
<1>9. /\ \A j \in DOMAIN mnt : mnt[j].ro => mnt'[j].ro
      /\ \A j \in DOMAIN mnt : mnt'[j].ro => mnt[j].ro \/ (e.ro /\ mnt[j].at = e.dst)
      /\ e.ro => mnt'[t].ro
  <2>1. CASE mnt' = mnt /\ ~e.ro
    BY <2>1
  <2>2. CASE e.ro /\ mnt[t].at = e.dst /\ mnt' = [mnt EXCEPT ![t].ro = TRUE]
    <3>1. mnt'[t].ro = TRUE /\ \A j \in DOMAIN mnt : j # t => mnt'[j] = mnt[j]
      BY <1>0, <1>1, <1>7, <2>2, Remounted, Zenon
    <3> QED BY <2>2, <3>1
  <2> QED BY <1>8, <2>1, <2>2
<1>10. ASSUME NEW i \in DOMAIN L, i < next + 1, L[i].ro
       PROVE  mnt'[Top(L[i].dst)'].ro
  <2>0. PICK p : p = L[i].dst
    OBVIOUS
  <2>1. p \in Paths
    BY <1>2, <2>0
  <2>2. Top(p)' = Top(p)
    BY <1>1, <2>1, TopSame
  <2>3. Top(p) \in DOMAIN mnt
    BY <1>1, <2>1, TopUnique DEF TopIs
  <2>4. Top(L[i].dst)' = Top(p)
    <3>1. Top(L[i].dst)' = Top(p)'
      BY <1>0, <2>0 DEF Top
    <3> QED BY <2>2, <3>1
  <2>5. CASE i < next
    <3>1. mnt[Top(p)].ro
      BY <1>10, <2>0, <2>5 DEF ReadOnlyBelow
    <3> QED BY <1>9, <2>3, <2>4, <3>1
  <2>6. CASE ~(i < next)
    <3>1. i = next
      BY <1>2, <1>3, <1>10, <2>6
    <3> QED BY <1>4, <1>6, <1>9, <1>10, <2>0, <2>4, <3>1
  <2> QED BY <2>5, <2>6
<1>11. ASSUME NEW k \in DOMAIN mnt, mnt'[k].ro
       PROVE  \E j \in DOMAIN L : L[j].ro /\ mnt'[k].at = L[j].dst
  <2>1. CASE mnt[k].ro
    BY <2>1, <1>1 DEF ReadOnlyBelow
  <2>2. CASE e.ro /\ mnt[k].at = e.dst
    BY <2>2, <1>1, <1>3, <1>4
  <2> QED BY <1>9, <1>11, <2>1, <2>2
<1> QED BY <1>0, <1>1, <1>5, <1>10, <1>11 DEF ReadOnlyBelow

\* Nothing is read-only before all the mounts are made; then the entries get
\* there in turn.
LEMMA FlagsStep ==
    ASSUME MountInv, FlagsInv, [Next]_vars
    PROVE  FlagsInv'
<1>0. MountInv' /\ ParseInv'
  BY MountStep DEF MountInv
<1>1. ASSUME UNCHANGED <<nsjconf, mnt>>, NEW n, ReadOnlyBelow(n)
      PROVE  ReadOnlyBelow(n)'
  BY <1>1 DEF ReadOnlyBelow, Top
<1>2. CASE RemountNext
  <2>1. mpc = "remount" /\ mpc' \in {"remount", "fail"}
    BY <1>2 DEF RemountNext, At, Fail
  <2> QED BY <1>0, <1>2, <2>1, FlagsRemount DEF FlagsInv
<1>3. CASE LeaveOldRoot
  <2>1. /\ mpc = "mount" /\ mpc' \in {"remount", "fail"} /\ next' = 1
        /\ UNCHANGED <<nsjconf, mnt>>
    BY <1>3 DEF LeaveOldRoot, At, cmdlineVars
  <2>2. \A j \in DOMAIN mnt : ~mnt[j].ro
    BY <2>1 DEF MountInv, Progress
  <2>3. \A i \in DOMAIN nsjconf.mountpts : ~(i < 1)
    BY ListTypes DEF MountInv
  <2>4. ReadOnlyBelow(1)'
    BY <2>1, <2>2, <2>3 DEF ReadOnlyBelow
  <2> QED BY <2>1, <2>4 DEF FlagsInv
<1>4. CASE Finished
  <2>1. mpc = "remount" /\ mpc' = "ok" /\ next > Len(nsjconf.mountpts) /\ UNCHANGED <<nsjconf, mnt>>
    BY <1>4 DEF Finished, At, cmdlineVars
  <2>2. next = Len(nsjconf.mountpts) + 1
    BY <2>1, ListTypes DEF MountInv
  <2>3. ReadOnlyBelow(Len(nsjconf.mountpts) + 1)'
    <3> PICK n : n = next
      OBVIOUS
    <3>1. ReadOnlyBelow(n)'
      BY <2>1, <1>1 DEF FlagsInv
    <3> QED BY <2>1, <2>2, <3>1 DEF ReadOnlyBelow
  <2> QED BY <2>1, <2>3 DEF FlagsInv
<1>5. CASE ChrootOnly
  <2>1. ~nsjconf.clone_newns /\ mpc' \in {"ok", "fail"} /\ UNCHANGED nsjconf
    BY <1>5 DEF ChrootOnly, At, cmdlineVars, Fail
  <2> QED BY <2>1 DEF FlagsInv
<1>6. CASE PivotRoot \/ MountNext \/ CallFails \/ Begin \/ CloneFails \/ HelperKilled
  <2>1. mpc' \in {"begin", "mount", "fail"}
    <3>1. CASE MountNext
      <4>1. mpc = "mount"
        BY <3>1 DEF MountNext, At
      <4>2. mpc' = mpc \/ mpc' = "fail"
        BY <3>1, MountCases, Zenon DEF MountNext, Fail
      <4> QED BY <4>1, <4>2
    <3> QED BY <1>6, <3>1, Zenon
               DEF PivotRoot, CallFails, Fail, Begin, CloneFails, HelperKilled
  <2> QED BY <2>1 DEF FlagsInv
<1>7. ASSUME UNCHANGED <<mpc, nsjconf, mnt, next>>
      PROVE  FlagsInv'
  <2>1. PICK a, b : a = next /\ b = Len(nsjconf.mountpts) + 1
    OBVIOUS
  <2>2. mpc = "remount" => ReadOnlyBelow(a)'
    BY <1>1, <1>7, <2>1 DEF FlagsInv
  <2>3. mpc = "ok" /\ nsjconf.clone_newns => ReadOnlyBelow(b)'
    BY <1>1, <1>7, <2>1 DEF FlagsInv
  <2>4. a = next' /\ b = Len(nsjconf'.mountpts) + 1
    BY <1>7, <2>1
  <2>5. mpc' = "remount" => ReadOnlyBelow(next)'
    BY <1>7, <2>2, <2>4 DEF ReadOnlyBelow
  <2>6. mpc' = "ok" /\ nsjconf'.clone_newns => ReadOnlyBelow(Len(nsjconf.mountpts) + 1)'
    BY <1>7, <2>3, <2>4 DEF ReadOnlyBelow
  <2> QED BY <2>5, <2>6 DEF FlagsInv
<1>8. CASE (cmdlineParse /\ UNCHANGED mountVars) \/ HelperExits \/ Return \/ UNCHANGED vars
  <2>1. mpc' = mpc /\ (parse = "options" \/ UNCHANGED <<nsjconf, mnt, next>>)
    <3>1. UNCHANGED <<mpc, mnt, next>>
      BY <1>8 DEF HelperExits, Return, vars, mountVars
    <3>2. parse = "options" \/ UNCHANGED nsjconf
      BY ParseStep DEF cmdlineVars, MountInv
    <3> QED BY <3>1, <3>2
  <2>2. CASE parse = "options"
    BY <2>1, <2>2 DEF MountInv, Reported, FlagsInv
  <2> QED BY <1>7, <2>1, <2>2
<1> QED BY <1>2, <1>3, <1>4, <1>5, <1>6, <1>8 DEF Next, mountInitNs, mountInitNsInternal

\* An entry nothing is mounted over is read-only if it asked to be, and
\* writable if nobody asked for its destination to be read-only, in every jail
\* that mountInitNs reports as ready.
THEOREM FlagsHonoured == Spec => []MountFlagsHonoured
<1>1. Init => FlagsInv
  BY MountInvInit DEF Init, MountInit, FlagsInv
<1>2. ASSUME MountInv, FlagsInv
      PROVE  MountFlagsHonoured
  <2> SUFFICES ASSUME Done, NEW i \in Entry, Shown(i)
               PROVE  LET e == nsjconf.mountpts[i]
                          same == {j \in Entry : nsjconf.mountpts[j].dst = e.dst}
                          shown == mnt[Top(e.dst)]
                      IN  /\ e.ro => shown.ro
                          /\ (\A j \in same : ~nsjconf.mountpts[j].ro) => ~shown.ro
    BY DEF MountFlagsHonoured
  <2>0. PICK e : e = nsjconf.mountpts[i]
    OBVIOUS
  <2>t. PICK t : t = Top(e.dst)
    OBVIOUS
  <2>1. ReadOnlyBelow(Len(nsjconf.mountpts) + 1)
    BY <1>2 DEF Done, MountInv, Reported, FlagsInv
  <2>2. i \in DOMAIN nsjconf.mountpts /\ i < Len(nsjconf.mountpts) + 1 /\ e.dst \in Paths
    BY <1>2, <2>0, ListTypes DEF Entry, MountInv
  <2>3. TableOK /\ t \in DOMAIN mnt
    BY <1>2, <2>2, <2>t, TopUnique DEF MountInv, TopIs
  <2>4. mnt[t].at = e.dst
    <3>1. CASE mnt[t].entry = i
      <4>1. t # 1
        BY <2>2, <2>3, <3>1, ListTypes, <1>2 DEF TableOK, MountInv
      <4>2. MadeFrom(t)
        BY <2>3, <4>1 DEF TableOK
      <4> QED BY <2>0, <3>1, <4>2 DEF MadeFrom
    <3>2. CASE mnt[t].entry = 0 /\ e.dst = <<>>
      <4>1. t = 1
        BY <2>3, <3>2, TableTypes
      <4> QED BY <2>3, <3>2, <4>1 DEF TableOK
    <3> QED BY <2>0, <2>t, <3>1, <3>2 DEF Shown
  <2>5. e.ro => mnt[t].ro
    BY <2>0, <2>t, <2>1, <2>2 DEF ReadOnlyBelow
  <2>6. mnt[t].ro => \E j \in Entry : nsjconf.mountpts[j].ro /\ nsjconf.mountpts[j].dst = e.dst
    BY <2>1, <2>3, <2>4 DEF ReadOnlyBelow, Entry
  <2> QED BY <2>0, <2>t, <2>5, <2>6
<1> QED BY <1>1, <1>2, FlagsStep, Phases, PTL DEF Spec

\* Dst is the destination of the entry an option makes.
LEMMA EntryDst ==
    ASSUME ParseInv, NEW k \in MountOption
    PROVE  /\ EntryOf(argv[k]).dst = Dst(k)
           /\ argv[k].c = "T" => /\ EntryOf(argv[k]).src = NULL
                                 /\ EntryOf(argv[k]).options = "cmdlineTmpfsSz"
           /\ argv[k].c # "T" => EntryOf(argv[k]).src = <<argv[k].spec[1]>>
  BY DEF EntryOf, Mountpt, Dst

\* A file system a mount brings along is not one of the host's.
LEMMA NewIsNotHost ==
    ASSUME NEW n \in Nat
    PROVE  NewFs(n) \notin HostFs /\ \A p : NewFs(n) # BindFs(p)
<1>1. NewFs(n).n = n + 1 /\ \A p : BindFs(p).n = 0
  BY DEF NewFs, BindFs
<1> QED BY <1>1 DEF HostFs

\* The destination of an option shows what the option mounted, a tmpfs in the
\* size of the last --tmpfs_size, unless a later option is mounted on it or
\* above it: /, /proc and earlier options never hide it.
THEOREM LaterWins == Spec => []LaterOptionsWin
<1>1. ASSUME MountInv
      PROVE  LaterOptionsWin
  <2> SUFFICES ASSUME Done, NEW k \in MountOption
               PROVE  LET m == mnt[Top(Dst(k))]
                      IN  \/ \E j \in MountOption : j > k /\ Dst(j) \in Prefixes(Dst(k))
                          \/ nsjconf.pivot_root_only /\ Dst(k) = <<>>
                          \/ argv[k].c = "T" /\ m.fs \notin HostFs
                                             /\ m.size = nsjconf.tmpfs_size
                          \/ argv[k].c # "T" /\ m.fs = BindFs(argv[k].spec[1])
    BY DEF LaterOptionsWin
  <2> DEFINE L == nsjconf.mountpts
  <2>0. TableOK /\ AllMounted /\ ParseInv
    BY <1>1 DEF Done, MountInv, Reported, Progress
  <2>1. PICK f : Owners(f)
    BY <2>0 DEF ParseInv
  <2>2. PICK i \in DOMAIN L : f[i] = k
    BY <2>1 DEF Owners
  <2>3. k \in Nat \ {0}
    BY <2>0, LenProperties DEF ParseInv, MountOption
  <2>4. L[i] = EntryOf(argv[k]) /\ L[i].dst = Dst(k)
    BY <2>0, <2>1, <2>2, <2>3, EntryDst DEF Owners
  <2>5. Dst(k) \in Paths /\ DOMAIN L = 1 .. Len(L) /\ Len(L) \in Nat
    BY <2>0, <2>2, <2>4, ListTypes
  <2>6. PICK t : t = Top(Dst(k))
    OBVIOUS
  <2>7. /\ t \in DOMAIN mnt /\ mnt[t].at \in Prefixes(Dst(k))
        /\ \A j \in DOMAIN mnt : mnt[j].at \in Prefixes(Dst(k)) => j <= t
    BY <2>0, <2>5, <2>6, TopUnique DEF TopIs
  <2>8. CASE nsjconf.pivot_root_only /\ Dst(k) = <<>>
    BY <2>8
  <2>9. CASE \E j \in DOMAIN mnt : mnt[j].entry = i
    <3>1. PICK j \in DOMAIN mnt : mnt[j].entry = i
      BY <2>9
    <3>2. j # 1 /\ MadeFrom(j)
      BY <2>0, <2>2, <2>5, <3>1 DEF TableOK
    <3>3. /\ mnt[j].at = Dst(k) /\ mnt[j].fs = FsOf(L[i], i) /\ mnt[j].size = SizeOf(L[i])
      BY <2>4, <3>1, <3>2 DEF MadeFrom
    <3>4. j <= t
      BY <2>5, <2>7, <3>3, PrefixOrder
    <3>5. CASE j = t
      <4>1. CASE argv[k].c = "T"
        <5>1. mnt[t].fs = NewFs(i) /\ mnt[t].size = nsjconf.tmpfs_size
          BY <2>0, <2>4, <3>3, <3>5, <4>1, EntryDst DEF FsOf, SizeOf
        <5>2. mnt[t].fs \notin HostFs
          BY <2>5, <5>1, NewIsNotHost
        <5> QED BY <2>6, <4>1, <5>1, <5>2
      <4>2. CASE argv[k].c # "T"
        <5>1. L[i].src = <<argv[k].spec[1]>>
          BY <2>0, <2>4, <4>2, EntryDst
        <5>2. L[i].src # NULL /\ L[i].src[1] = argv[k].spec[1]
          BY <5>1 DEF NULL
        <5>3. mnt[t].fs = BindFs(argv[k].spec[1])
          BY <3>3, <3>5, <5>2 DEF FsOf
        <5> QED BY <2>6, <4>2, <5>3
      <4> QED BY <4>1, <4>2
    <3>6. CASE j # t
      <4>1. PICK l : l = mnt[t].entry
        OBVIOUS
      <4>2. i < l /\ t # 1
        <5>1. j < t /\ t # 1
          BY <2>0, <2>7, <3>1, <3>4, <3>6, TableTypes
        <5> QED BY <2>0, <2>7, <3>1, <4>1, <5>1 DEF TableOK
      <4>3. l \in DOMAIN L /\ mnt[t].at = L[l].dst
        BY <2>0, <2>7, <4>1, <4>2 DEF TableOK, MadeFrom
      <4>4. k < f[l]
        BY <2>1, <2>2, <2>3, <4>2, <4>3 DEF Owners
      <4>5. f[l] # 0
        BY <2>3, <4>4
      <4>6. f[l] \in MountOption /\ L[l] = EntryOf(argv[f[l]])
        BY <2>1, <4>3, <4>5 DEF Owners
      <4>7. Dst(f[l]) = mnt[t].at
        BY <2>0, <4>3, <4>6, EntryDst
      <4>8. f[l] > k
        <5>1. f[l] \in Nat
          BY <2>0, <4>6, LenProperties DEF ParseInv, MountOption
        <5> QED BY <2>3, <4>4, <5>1
      <4> QED BY <2>7, <4>6, <4>7, <4>8
    <3> QED BY <3>5, <3>6
  <2> QED BY <2>0, <2>2, <2>4, <2>8, <2>9 DEF AllMounted, Mounted
<1> QED BY <1>1, Phases, PTL

-----------------------------------------------------------------------------
(* What there is in the file systems.                                       *)

\* The host's own files and directories, and a root in everything mounted.
RootsOK ==
    /\ \A p \in DOMAIN Host :
         /\ <<BindFs(p), <<>>, Host[p].kind>> \in nodes
         /\ \A q \in Host[p].tree : <<BindFs(p), q, "dir">> \in nodes
    /\ \A i \in DOMAIN mnt : \E kind \in {"dir", "file"} : <<mnt[i].fs, <<>>, kind>> \in nodes

\* rel in fs leads to the destination of entry j, or on the way there, seen
\* from some mount of fs.
OnTheWay(fs, rel, j) ==
    \E m \in DOMAIN mnt :
      /\ mnt[m].fs = fs /\ mnt[m].at \in Prefixes(nsjconf.mountpts[j].dst)
      /\ rel \in Prefixes(Below(mnt[m].at, nsjconf.mountpts[j].dst))

AtTheEnd(fs, rel, j) ==
    \E m \in DOMAIN mnt :
      /\ mnt[m].fs = fs /\ mnt[m].at \in Prefixes(nsjconf.mountpts[j].dst)
      /\ rel = Below(mnt[m].at, nsjconf.mountpts[j].dst)

\* Where the directories and the files come from: from the host, or from the
\* mount points made for the first n - 1 entries.
DirOrigin(fs, rel, n) ==
    \/ rel = <<>>
    \/ \E p \in DOMAIN Host : fs = BindFs(p) /\ rel \in Host[p].tree
    \/ \E j \in 1 .. n - 1 : OnTheWay(fs, rel, j)

FileOrigin(fs, rel, n) ==
    \/ rel = <<>> /\ \E p \in DOMAIN Host : fs = BindFs(p) /\ Host[p].kind = "file"
    \/ \E j \in 1 .. n - 1 : SourceKind(nsjconf.mountpts[j]) = "file" /\ AtTheEnd(fs, rel, j)

NodesInv ==
    /\ RootsOK
    /\ mpc \in {"start", "begin", "mount"} =>
         \A fs, rel : /\ <<fs, rel, "dir">> \in nodes => DirOrigin(fs, rel, next)
                      /\ <<fs, rel, "file">> \in nodes => FileOrigin(fs, rel, next)

\* Every path leads into a mount on one of its prefixes.
LEMMA TopAt ==
    ASSUME MountInv, NEW q \in Paths
    PROVE  /\ Top(q) \in DOMAIN mnt /\ mnt[Top(q)].at \in Prefixes(q)
           /\ \A kind : Node(q, kind) = <<mnt[Top(q)].fs, Below(mnt[Top(q)].at, q), kind>>
<1>1. TopIs(q, Top(q))
  BY TopUnique DEF MountInv
<1> QED BY <1>1 DEF TopIs, Node, Below

\* The entry behind a mount of a host directory or file.
LEMMA BoundBy ==
    ASSUME MountInv, NEW i \in DOMAIN mnt, NEW p, mnt[i].fs = BindFs(p)
    PROVE  /\ i # 1 /\ mnt[i].entry \in Entry /\ DstOf(mnt[i].entry) = mnt[i].at
           /\ Source(mnt[i].entry) # NULL /\ Source(mnt[i].entry)[1] = p /\ p \in DOMAIN Host
<1>1. BindFs(p).src = p /\ \A x, y : BindFs(x) = BindFs(y) => x = y
  BY DEF BindFs
<1>2. i # 1
  BY NewIsNotHost DEF MountInv, TableOK, BaseFs
<1>3. MadeFrom(i)
  BY <1>2 DEF MountInv, TableOK
<1>4. PICK k : k = mnt[i].entry
  OBVIOUS
<1>5. k \in Entry /\ k \in Nat /\ DstOf(k) = mnt[i].at
  BY <1>3, <1>4, ListTypes DEF MadeFrom, Entry, DstOf, MountInv
<1>6. mnt[i].fs = FsOf(nsjconf.mountpts[k], k)
  BY <1>3, <1>4 DEF MadeFrom
<1>7. Source(k) # NULL /\ mnt[i].fs = BindFs(Source(k)[1])
  <2>1. Source(k) = NULL => mnt[i].fs = NewFs(k)
    BY <1>6, Zenon DEF FsOf, Source
  <2>2. Source(k) # NULL => mnt[i].fs = BindFs(Source(k)[1])
    BY <1>6, Zenon DEF FsOf, Source
  <2>3. mnt[i].fs # NewFs(k)
    BY <1>5, NewIsNotHost
  <2> QED BY <2>1, <2>2, <2>3
<1>8. Source(k)[1] \in DOMAIN Host
  BY <1>3, <1>4, <1>7 DEF MadeFrom, Source
<1> QED BY <1>1, <1>2, <1>4, <1>5, <1>7, <1>8, Zenon

\* Two mounts of one file system are two binds of the same source.
LEMMA BoundTwice ==
    ASSUME MountInv, NEW i \in DOMAIN mnt, NEW j \in DOMAIN mnt, i # j, mnt[i].fs = mnt[j].fs
    PROVE  /\ mnt[i].entry \in Entry /\ mnt[j].entry \in Entry /\ mnt[i].entry # mnt[j].entry
           /\ Source(mnt[i].entry) # NULL /\ Source(mnt[j].entry) # NULL
           /\ Source(mnt[i].entry)[1] = Source(mnt[j].entry)[1]
           /\ DstOf(mnt[i].entry) = mnt[i].at /\ DstOf(mnt[j].entry) = mnt[j].at
<1>0. /\ i \in Nat /\ j \in Nat /\ mnt[i].entry \in Nat /\ mnt[j].entry \in Nat
  BY TableTypes DEF MountInv
<1>1. mnt[i].entry # mnt[j].entry
  BY <1>0 DEF MountInv, TableOK
<1>2. ASSUME NEW k \in DOMAIN mnt
      PROVE  mnt[k].fs = NewFs(mnt[k].entry) \/ \E p : mnt[k].fs = BindFs(p)
  <2>1. CASE k = 1
    BY <2>1 DEF MountInv, TableOK, BaseFs
  <2>2. CASE k # 1
    <3>1. MadeFrom(k)
      BY <2>2 DEF MountInv, TableOK
    <3> QED BY <3>1 DEF MadeFrom, FsOf
  <2> QED BY <2>1, <2>2
<1>3. \A m, n \in Nat : NewFs(m) = NewFs(n) => m = n
  <2>1. \A m \in Nat : NewFs(m).n = m + 1
    BY DEF NewFs
  <2>2. \A m, n \in Nat : m + 1 = n + 1 => m = n
    OBVIOUS
  <2> QED BY <2>1, <2>2
<1>4. PICK p : mnt[i].fs = BindFs(p)
  BY <1>0, <1>1, <1>2, <1>3, NewIsNotHost
<1>5. mnt[j].fs = BindFs(p)
  BY <1>4
<1> QED BY <1>1, <1>4, <1>5, BoundBy

Sound == \A i \in Entry : ~Unusable(i)

\* Under a sound list no file is at the destination of the next entry, or on
\* the way to it.
LEMMA NoFileInTheWay ==
    ASSUME MountInv, NodesInv, Sound, mpc = "mount", next \in Entry,
           NEW q \in Prefixes(DstOf(next))
    PROVE  ~IsFile(q)
<1> SUFFICES ASSUME IsFile(q)
             PROVE  FALSE
  OBVIOUS
<1>0. /\ DstOf(next) \in Paths /\ Entry = DOMAIN nsjconf.mountpts /\ Entry \subseteq Nat \ {0}
      /\ \A j \in Entry : DstOf(j) \in Paths
      /\ \A j \in 1 .. next - 1 : j \in Entry /\ j # next
  BY ListTypes DEF MountInv, DstOf, Entry
<1>1. q \in Paths
  BY <1>0, PrefixesArePaths
<1>2. PICK t, rel : t = Top(q) /\ rel = Below(mnt[t].at, q)
  OBVIOUS
<1>3. /\ t \in DOMAIN mnt /\ mnt[t].at \in Prefixes(q) /\ mnt[t].at \in Paths
      /\ <<mnt[t].fs, rel, "file">> \in nodes
  BY <1>1, <1>2, TopAt, PrefixesArePaths DEF IsFile
<1>4. FileOrigin(mnt[t].fs, rel, next)
  BY <1>3, Zenon DEF NodesInv
<1>5. \A j \in Entry \ {next} : SourceKind(nsjconf.mountpts[j]) = "file" =>
                                  DstOf(j) \notin Prefixes(DstOf(next))
  BY DEF Sound, Unusable, NoPlaceForFile
<1>6. CASE rel = <<>> /\ \E p \in DOMAIN Host : mnt[t].fs = BindFs(p) /\ Host[p].kind = "file"
  <2>1. PICK p \in DOMAIN Host : mnt[t].fs = BindFs(p) /\ Host[p].kind = "file"
    BY <1>6
  <2>2. PICK k : k = mnt[t].entry
    OBVIOUS
  <2>3. k \in Entry /\ DstOf(k) = mnt[t].at /\ Source(k) # NULL /\ Source(k)[1] = p
    BY <1>3, <2>1, <2>2, BoundBy
  <2>4. SourceKind(nsjconf.mountpts[k]) = "file"
    BY <2>1, <2>3 DEF SourceKind, Source
  <2>5. k # next
    BY <1>0, <1>3, <2>2, <2>3 DEF MountInv, Progress
  <2>6. DstOf(k) \in Prefixes(DstOf(next))
    BY <1>0, <1>1, <1>3, <2>3, PrefixOrder
  <2> QED BY <1>5, <2>3, <2>4, <2>5, <2>6
<1>7. CASE \E j \in 1 .. next - 1 : SourceKind(nsjconf.mountpts[j]) = "file"
                                    /\ AtTheEnd(mnt[t].fs, rel, j)
  <2>1. PICK j \in 1 .. next - 1 : SourceKind(nsjconf.mountpts[j]) = "file"
                                   /\ AtTheEnd(mnt[t].fs, rel, j)
    BY <1>7
  <2>2. PICK m \in DOMAIN mnt : /\ mnt[m].fs = mnt[t].fs /\ mnt[m].at \in Prefixes(DstOf(j))
                                /\ rel = Below(mnt[m].at, DstOf(j))
    BY <2>1 DEF AtTheEnd, DstOf
  <2>3. j \in Entry \ {next} /\ DstOf(j) \in Paths
    BY <1>0
  <2>4. CASE m = t
    <3>1. mnt[t].at \o rel = DstOf(j) /\ mnt[t].at \o rel = q
      BY <1>1, <1>2, <1>3, <2>2, <2>3, <2>4, BelowPrefix, Zenon
    <3> QED BY <1>5, <2>1, <2>3, <3>1, Zenon
  <2>5. CASE m # t
    <3>1. PICK k, l : k = mnt[m].entry /\ l = mnt[t].entry
      OBVIOUS
    <3>2. /\ k \in Entry /\ l \in Entry \ {k} /\ Source(k) # NULL /\ Source(l) # NULL
          /\ Source(l)[1] = Source(k)[1] /\ DstOf(k) \in Prefixes(DstOf(j))
      BY <1>3, <2>2, <2>5, <3>1, BoundTwice
    <3>3. NoPlaceForFile(j)
      BY <3>2 DEF NoPlaceForFile
    <3> QED BY <2>1, <2>3, <3>3 DEF Sound, Unusable
  <2> QED BY <2>4, <2>5
<1> QED BY <1>4, <1>6, <1>7 DEF FileOrigin

\* Nor does anything the next entry needs lack where it cannot be made.
LEMMA NothingMissing ==
    ASSUME MountInv, NodesInv, Sound, mpc = "mount", next \in Entry,
           NEW q \in Prefixes(DstOf(next)), ~Exists(q)
    PROVE  Writable(q)
<1>0. DstOf(next) \in Paths /\ Entry = DOMAIN nsjconf.mountpts
  BY ListTypes DEF MountInv, DstOf, Entry
<1>1. q \in Paths
  BY <1>0, PrefixesArePaths
<1>2. PICK t, rel : t = Top(q) /\ rel = Below(mnt[t].at, q)
  OBVIOUS
<1>3. /\ t \in DOMAIN mnt /\ mnt[t].at \in Prefixes(q) /\ mnt[t].at \in Paths
      /\ <<mnt[t].fs, rel, "file">> \notin nodes /\ <<mnt[t].fs, rel, "dir">> \notin nodes
  BY <1>1, <1>2, TopAt, PrefixesArePaths DEF IsFile, IsDir, Exists
<1>4. ~mnt[t].ro
  BY <1>3 DEF MountInv, Progress
<1>5. rel # <<>> /\ mnt[t].at # q
  <2>1. rel # <<>>
    BY <1>3 DEF NodesInv, RootsOK
  <2> QED BY <2>1, <1>1, <1>2, <1>3, BelowPrefix
<1>6. mnt[t].at \in Parents(DstOf(next))
  <2>1. mnt[t].at \in Prefixes(DstOf(next))
    BY <1>0, <1>1, <1>3, PrefixOrder
  <2>2. mnt[t].at # DstOf(next)
    BY <1>0, <1>1, <1>3, <1>5, PrefixOrder
  <2> QED BY <2>1, <2>2 DEF Parents
<1>7. ASSUME NEW k, k = mnt[t].entry, k \in Entry, DstOf(k) = mnt[t].at
      PROVE  /\ nsjconf.mountpts[k].fs_type # "proc"
             /\ Source(k) # NULL /\ ~Host[Source(k)[1]].writable =>
                  Below(mnt[t].at, DstOf(next)) \in Host[Source(k)[1]].tree
  <2>1. next \in Inside(k)
    BY <1>6, <1>7 DEF Inside
  <2> QED BY <1>7, <2>1 DEF Sound, Unusable
<1>8. ASSUME mnt[t].fs \in HostFs, ~Host[mnt[t].fs.src].writable
      PROVE  FALSE
  <2>1. PICK p \in DOMAIN Host : mnt[t].fs = BindFs(p)
    BY <1>8 DEF HostFs
  <2>2. ~Host[p].writable
    BY <1>8, <2>1 DEF BindFs
  <2>3. PICK k : k = mnt[t].entry
    OBVIOUS
  <2>4. k \in Entry /\ DstOf(k) = mnt[t].at /\ Source(k) # NULL /\ Source(k)[1] = p
    BY <1>3, <2>1, <2>3, BoundBy
  <2>5. Below(mnt[t].at, DstOf(next)) \in Host[p].tree
    BY <1>7, <2>2, <2>3, <2>4
  <2>6. rel \in Prefixes(Below(mnt[t].at, DstOf(next)))
    BY <1>0, <1>2, <1>3, BelowOrder
  <2>7. rel \in Host[p].tree
    BY <1>5, <2>5, <2>6, HostAssumption
  <2> QED BY <1>3, <2>1, <2>7, Zenon DEF NodesInv, RootsOK
<1>9. mnt[t].entry # 0 => nsjconf.mountpts[mnt[t].entry].fs_type # "proc"
  <2>1. ASSUME mnt[t].entry # 0
        PROVE  mnt[t].entry \in Entry /\ DstOf(mnt[t].entry) = mnt[t].at
    <3>1. t # 1
      BY <2>1, <1>3 DEF MountInv, TableOK
    <3> QED BY <1>3, <3>1 DEF MountInv, TableOK, MadeFrom, Entry, DstOf
  <2> QED BY <2>1, <1>7
<1> QED BY <1>2, <1>4, <1>8, <1>9 DEF Writable

\* No directory is where the next entry wants its file.
LEMMA NoDirInTheWay ==
    ASSUME MountInv, NodesInv, Sound, mpc = "mount", next \in Entry,
           SourceKind(nsjconf.mountpts[next]) = "file"
    PROVE  ~IsDir(DstOf(next))
<1> SUFFICES ASSUME IsDir(DstOf(next))
             PROVE  FALSE
  OBVIOUS
<1>0. /\ DstOf(next) \in Paths /\ Entry = DOMAIN nsjconf.mountpts /\ Entry \subseteq Nat \ {0}
      /\ \A j \in Entry : DstOf(j) \in Paths
      /\ \A j \in 1 .. next - 1 : j \in Entry /\ j # next
  BY ListTypes DEF MountInv, DstOf, Entry
<1>1. PICK d : d = DstOf(next)
  OBVIOUS
<1>2. PICK t, rel : t = Top(d) /\ rel = Below(mnt[t].at, d)
  OBVIOUS
<1>3. /\ t \in DOMAIN mnt /\ mnt[t].at \in Prefixes(d) /\ mnt[t].at \in Paths
      /\ <<mnt[t].fs, rel, "dir">> \in nodes
  BY <1>0, <1>1, <1>2, TopAt, PrefixesArePaths DEF IsDir
<1>4. DirOrigin(mnt[t].fs, rel, next)
  BY <1>3, Zenon DEF NodesInv
<1>5. ~NoPlaceForFile(next)
  BY DEF Sound, Unusable
<1>6. d # <<>> /\ \A j \in Entry \ {next} : d \notin Prefixes(DstOf(j))
  BY <1>1, <1>5 DEF NoPlaceForFile
<1>7. CASE rel = <<>>
  <2>1. mnt[t].at = d
    BY <1>0, <1>1, <1>2, <1>3, <1>7, BelowPrefix, ZenonT(40)
  <2>2. t # 1
    BY <1>6, <2>1 DEF MountInv, TableOK
  <2>3. PICK k : k = mnt[t].entry
    OBVIOUS
  <2>4. k \in Entry /\ DstOf(k) = d
    BY <1>3, <2>1, <2>2, <2>3 DEF MountInv, TableOK, MadeFrom, Entry, DstOf
  <2>5. k # next
    BY <1>0, <1>3, <2>3, <2>4 DEF MountInv, Progress
  <2>6. d \in Prefixes(d)
    BY <1>0, <1>1, PrefixOrder
  <2> QED BY <1>6, <2>4, <2>5, <2>6
<1>8. CASE \E p \in DOMAIN Host : mnt[t].fs = BindFs(p) /\ rel \in Host[p].tree
  <2>1. PICK p \in DOMAIN Host : mnt[t].fs = BindFs(p) /\ rel \in Host[p].tree
    BY <1>8
  <2>2. PICK k : k = mnt[t].entry
    OBVIOUS
  <2>3. k \in Entry /\ DstOf(k) = mnt[t].at /\ Source(k) # NULL /\ Source(k)[1] = p
    BY <1>3, <2>1, <2>2, BoundBy
  <2>4. DstOf(k) \in Prefixes(DstOf(next)) /\ Below(DstOf(k), DstOf(next)) \in Host[Source(k)[1]].tree
    BY <1>1, <1>2, <1>3, <2>1, <2>3
  <2> QED BY <1>5, <2>3, <2>4 DEF NoPlaceForFile
<1>9. CASE \E j \in 1 .. next - 1 : OnTheWay(mnt[t].fs, rel, j)
  <2>1. PICK j \in 1 .. next - 1 : OnTheWay(mnt[t].fs, rel, j)
    BY <1>9
  <2>2. PICK m \in DOMAIN mnt : /\ mnt[m].fs = mnt[t].fs /\ mnt[m].at \in Prefixes(DstOf(j))
                                /\ rel \in Prefixes(Below(mnt[m].at, DstOf(j)))
    BY <2>1 DEF OnTheWay, DstOf
  <2>3. j \in Entry \ {next} /\ DstOf(j) \in Paths
    BY <1>0
  <2>4. CASE m = t
    <3>1. d \in Prefixes(DstOf(j))
      BY <1>0, <1>1, <1>2, <1>3, <2>2, <2>3, <2>4, BelowReflects
    <3> QED BY <1>6, <2>3, <3>1
  <2>5. CASE m # t
    <3>1. PICK k, l : k = mnt[t].entry /\ l = mnt[m].entry
      OBVIOUS
    <3>2. /\ k \in Entry /\ l \in Entry \ {k} /\ Source(k) # NULL /\ Source(l) # NULL
          /\ Source(l)[1] = Source(k)[1] /\ DstOf(k) \in Prefixes(DstOf(next))
      BY <1>1, <1>3, <2>2, <2>5, <3>1, BoundTwice
    <3> QED BY <1>5, <3>2 DEF NoPlaceForFile
  <2> QED BY <2>4, <2>5
<1> QED BY <1>4, <1>7, <1>8, <1>9 DEF DirOrigin

\* The next mount of a sound list succeeds.
LEMMA MountSucceeds ==
    ASSUME MountInv, NodesInv, Sound, MountNext
    PROVE  mpc' = "mount"
<1>0. mpc = "mount" /\ next <= Len(nsjconf.mountpts)
  BY DEF MountNext, At
<1>1. next \in Entry /\ DstOf(next) \in Paths
  BY <1>0, ListTypes DEF MountInv, Entry, DstOf
<1>2. PICK e : e = nsjconf.mountpts[next]
  OBVIOUS
<1>3. CASE nsjconf.pivot_root_only /\ e.dst = <<>>
  BY <1>0, <1>2, <1>3 DEF MountNext
<1>4. CASE mountMount(e)
  <2>1. SourceKind(e) # "missing"
    BY <1>1, <1>2 DEF Sound, Unusable
  <2>2. SourceKind(e) \in {"dir", "file"}
    BY <2>1, HostAssumption DEF SourceKind
  <2>3. e.dst = DstOf(next) /\ e.dst \in Prefixes(DstOf(next))
    BY <1>1, <1>2, PrefixOrder DEF DstOf
  <2>4. ~CannotCreateParents(e.dst)
    <3>1. \A q \in Parents(e.dst) : ~IsFile(q) /\ (~Exists(q) => Writable(q))
      BY <1>0, <1>1, <2>3, NoFileInTheWay, NothingMissing DEF Parents
    <3> QED BY <3>1 DEF CannotCreateParents
  <2>5. ~IsFile(e.dst) /\ (~Exists(e.dst) => Writable(e.dst))
    BY <1>0, <1>1, <2>3, NoFileInTheWay, NothingMissing
  <2>6. Node(e.dst, SourceKind(e)) \in MountPoint(e)
    <3>1. CASE Exists(e.dst)
      <4>1. IsDir(e.dst)
        BY <2>5, <3>1 DEF Exists
      <4>2. SourceKind(e) = "dir"
        BY <1>0, <1>1, <1>2, <2>2, <2>3, <4>1, NoDirInTheWay
      <4> QED BY <4>1, <4>2 DEF IsDir, MountPoint, utilCreateDirRecursively
    <3>2. CASE ~Exists(e.dst)
      BY <2>5, <3>2 DEF MountPoint
    <3> QED BY <3>1, <3>2
  <2>7. mpc' = mpc
    BY <1>4, <2>1, <2>4, <2>6, MountCases, ZenonT(40)
  <2> QED BY <1>0, <2>7
<1> QED BY <1>2, <1>3, <1>4 DEF MountNext

\* So does its next remount: nothing hides the mount point, and there is a
\* mount right there.
LEMMA RemountSucceeds ==
    ASSUME MountInv, NodesInv, Sound, RemountNext
    PROVE  mpc' = "remount"
<1>0. mpc = "remount" /\ next <= Len(nsjconf.mountpts) /\ AllMounted /\ TableOK
  BY DEF RemountNext, At, MountInv, Progress
<1>1. /\ next \in Entry /\ DstOf(next) \in Paths /\ next \in Nat
      /\ Entry = DOMAIN nsjconf.mountpts /\ 0 \notin Entry
  BY <1>0, ListTypes DEF MountInv, Entry, DstOf
<1>2. PICK d, t : d = DstOf(next) /\ t = Top(d)
  OBVIOUS
<1>3. /\ t \in DOMAIN mnt /\ mnt[t].at \in Prefixes(d)
      /\ \A j \in DOMAIN mnt : mnt[j].at \in Prefixes(d) => j <= t
  BY <1>0, <1>1, <1>2, TopUnique DEF TopIs
<1>4. mnt[t].at = d
  <2>1. CASE d = <<>>
    BY <1>3, <2>1, PrefixesArePaths, PrefixOrder, <1>1, <1>2
  <2>2. CASE \E j \in DOMAIN mnt : mnt[j].entry = next
    <3>1. PICK j \in DOMAIN mnt : mnt[j].entry = next
      BY <2>2
    <3>2. j # 1
      BY <1>0, <1>1, <3>1 DEF TableOK
    <3>3. mnt[j].at = d
      BY <1>0, <1>2, <3>1, <3>2 DEF TableOK, MadeFrom, DstOf
    <3>4. j <= t
      BY <1>1, <1>2, <1>3, <3>3, PrefixOrder
    <3>5. CASE j = t
      BY <3>3, <3>5
    <3>6. CASE j # t
      <4>1. j < t /\ t # 1
        BY <1>0, <1>3, <3>1, <3>4, <3>6, TableTypes
      <4>2. PICK k : k = mnt[t].entry
        OBVIOUS
      <4>3. next < k
        BY <1>0, <1>3, <3>1, <4>1, <4>2 DEF TableOK
      <4>4. k \in Entry /\ DstOf(k) = mnt[t].at
        BY <1>0, <1>3, <4>1, <4>2 DEF TableOK, MadeFrom, Entry, DstOf
      <4>5. next \notin Inside(k)
        BY <4>3, <4>4 DEF Sound, Unusable
      <4>6. DstOf(k) \notin Parents(DstOf(next))
        BY <1>1, <4>5 DEF Inside
      <4> QED BY <1>2, <1>3, <4>4, <4>6 DEF Parents
    <3> QED BY <3>5, <3>6
  <2> QED BY <1>0, <1>1, <1>2, <2>1, <2>2 DEF AllMounted, Mounted, DstOf
<1>5. Exists(d)
  <2>1. Below(mnt[t].at, d) = <<>>
    BY <1>1, <1>2, <1>3, <1>4, BelowPrefix
  <2>2. \A kind : Node(d, kind) = <<mnt[t].fs, <<>>, kind>>
    BY <1>1, <1>2, <2>1, TopAt
  <2> QED BY <1>3, <2>2 DEF Exists, IsDir, IsFile, NodesInv, RootsOK
<1>6. PICK e : e = nsjconf.mountpts[next]
  OBVIOUS
<1>7. e.dst = d
  BY <1>2, <1>6 DEF DstOf
<1>8. mountRemountRO(e) = mnt \/ mountRemountRO(e) = [mnt EXCEPT ![t].ro = TRUE]
  <2>1. CASE ~e.ro
    BY <1>5, <1>7, <2>1, Zenon DEF mountRemountRO
  <2>2. CASE e.ro
    <3>1. ~(~Exists(e.dst)) /\ ~(Exists(e.dst) /\ ~e.ro) /\ mnt[Top(e.dst)].at = e.dst
      BY <1>2, <1>4, <1>5, <1>7, <2>2
    <3>2. mountRemountRO(e) = [mnt EXCEPT ![Top(e.dst)].ro = TRUE]
      BY <3>1, Zenon DEF mountRemountRO
    <3> QED BY <1>2, <1>7, <3>2
  <2> QED BY <2>1, <2>2
<1>9. mountRemountRO(e) # NULL
  <2>1. 1 \in DOMAIN mnt /\ DOMAIN NULL = {}
    BY <1>0 DEF TableOK, NULL
  <2>2. DOMAIN [mnt EXCEPT ![t].ro = TRUE] = DOMAIN mnt
    OBVIOUS
  <2> QED BY <1>8, <2>1, <2>2
<1> QED BY <1>0, <1>6, <1>9 DEF RemountNext

\* At the start there is what the host has, and the root of the new tmpfs.
LEMMA NodesInit ==
    ASSUME Init
    PROVE  NodesInv
<1>1. DOMAIN mnt = {1} /\ mnt[1].fs = BaseFs
  BY MountInvInit DEF MountInv, Progress, TableOK, Init, MountInit
<1>2. nodes = {<<BaseFs, <<>>, "dir">>} \cup
              UNION {{<<BindFs(p), q, "dir">> : q \in Host[p].tree} \cup
                     {<<BindFs(p), <<>>, Host[p].kind>>} : p \in DOMAIN Host}
  BY DEF Init, MountInit
<1>3. RootsOK
  BY <1>1, <1>2 DEF RootsOK
<1>4. \A fs, rel : <<fs, rel, "dir">> \in nodes => DirOrigin(fs, rel, next)
  BY <1>2 DEF DirOrigin
<1>5. \A fs, rel : <<fs, rel, "file">> \in nodes => FileOrigin(fs, rel, next)
  BY <1>2 DEF FileOrigin
<1> QED BY <1>3, <1>4, <1>5 DEF NodesInv

\* What was on the way stays there.
LEMMA OriginsStay ==
    ASSUME UNCHANGED nsjconf, NEW n \in Nat, NEW k \in Nat, n <= k,
           \A j \in DOMAIN mnt : j \in DOMAIN mnt' /\ mnt'[j] = mnt[j],
           NEW fs, NEW rel
    PROVE  /\ DirOrigin(fs, rel, n) => DirOrigin(fs, rel, k)'
           /\ FileOrigin(fs, rel, n) => FileOrigin(fs, rel, k)'
<1>1. \A j : OnTheWay(fs, rel, j) => OnTheWay(fs, rel, j)'
  BY DEF OnTheWay
<1>2. \A j : AtTheEnd(fs, rel, j) => AtTheEnd(fs, rel, j)'
  BY DEF AtTheEnd
<1>3. \A j \in 1 .. n - 1 : j \in 1 .. k - 1
  OBVIOUS
<1>4. \A e : SourceKind(e)' = SourceKind(e)
  BY DEF SourceKind
<1>5. DirOrigin(fs, rel, n) => DirOrigin(fs, rel, k)'
  BY <1>1, <1>3 DEF DirOrigin
<1>6. FileOrigin(fs, rel, n) => FileOrigin(fs, rel, k)'
  <2>1. CASE rel = <<>> /\ \E p \in DOMAIN Host : fs = BindFs(p) /\ Host[p].kind = "file"
    BY <2>1 DEF FileOrigin
  <2>2. CASE \E j \in 1 .. n - 1 : SourceKind(nsjconf.mountpts[j]) = "file" /\ AtTheEnd(fs, rel, j)
    <3>1. PICK j \in 1 .. n - 1 : SourceKind(nsjconf.mountpts[j]) = "file" /\ AtTheEnd(fs, rel, j)
      BY <2>2
    <3>2. SourceKind(nsjconf'.mountpts[j]) = "file" /\ AtTheEnd(fs, rel, j)'
      BY <3>1, <1>2
    <3> QED BY <1>3, <3>2 DEF FileOrigin
  <2> QED BY <2>1, <2>2 DEF FileOrigin
<1> QED BY <1>5, <1>6

\* What MountPoint adds is on the way to the destination of its entry.
LEMMA Made ==
    ASSUME MountInv, next \in Entry, NEW e, e = nsjconf.mountpts[next],
           NEW x \in MountPoint(e) \ nodes
    PROVE  \/ \E fs, rel : x = <<fs, rel, "dir">> /\ OnTheWay(fs, rel, next)
           \/ \E fs, rel : x = <<fs, rel, SourceKind(e)>>
                           /\ OnTheWay(fs, rel, next) /\ AtTheEnd(fs, rel, next)
<1>0. e.dst \in Paths
  BY ListTypes DEF MountInv, Entry
<1>1. ASSUME NEW q \in Prefixes(e.dst), NEW t, t = Top(q)
      PROVE  /\ \A kind : Node(q, kind) = <<mnt[t].fs, Below(mnt[t].at, q), kind>>
             /\ OnTheWay(mnt[t].fs, Below(mnt[t].at, q), next)
             /\ q = e.dst => AtTheEnd(mnt[t].fs, Below(mnt[t].at, q), next)
  <2>1. q \in Paths
    BY <1>0, PrefixesArePaths
  <2>2. /\ t \in DOMAIN mnt /\ mnt[t].at \in Prefixes(q)
        /\ \A kind : Node(q, kind) = <<mnt[t].fs, Below(mnt[t].at, q), kind>>
    BY <1>1, <2>1, TopAt
  <2>3. mnt[t].at \in Prefixes(e.dst)
    BY <1>0, <2>1, <2>2, PrefixesArePaths, PrefixOrder
  <2>4. Below(mnt[t].at, q) \in Prefixes(Below(mnt[t].at, e.dst))
    BY <1>0, <2>2, BelowOrder
  <2> QED BY <2>2, <2>3, <2>4 DEF OnTheWay, AtTheEnd
<1>2. CASE \E q \in Parents(e.dst) : x = Node(q, "dir")
  <2>1. PICK q \in Prefixes(e.dst) : x = Node(q, "dir")
    BY <1>2 DEF Parents
  <2> QED BY <1>1, <2>1
<1>3. CASE x = Node(e.dst, SourceKind(e))
  <2>1. e.dst \in Prefixes(e.dst)
    BY <1>0, PrefixOrder
  <2> QED BY <1>1, <1>3, <2>1
<1> QED BY <1>2, <1>3 DEF MountPoint, utilCreateDirRecursively

\* A directory made for an entry is on the way to its mount point, a file is the
\* mount point itself.
LEMMA MadeKinds ==
    ASSUME MountInv, next \in Entry, NEW e, e = nsjconf.mountpts[next], NEW fs, NEW rel
    PROVE  /\ <<fs, rel, "dir">> \in MountPoint(e) \ nodes => OnTheWay(fs, rel, next)
           /\ <<fs, rel, "file">> \in MountPoint(e) \ nodes =>
                SourceKind(e) = "file" /\ AtTheEnd(fs, rel, next)
<1>1. ASSUME NEW kind, <<fs, rel, kind>> \in MountPoint(e) \ nodes
      PROVE  \/ kind = "dir" /\ OnTheWay(fs, rel, next)
             \/ kind = SourceKind(e) /\ OnTheWay(fs, rel, next) /\ AtTheEnd(fs, rel, next)
  <2>1. PICK x : x = <<fs, rel, kind>>
    BY Zenon
  <2>2. \/ \E g, r : x = <<g, r, "dir">> /\ OnTheWay(g, r, next)
        \/ \E g, r : x = <<g, r, SourceKind(e)>> /\ OnTheWay(g, r, next) /\ AtTheEnd(g, r, next)
    BY <1>1, <2>1, Made, Zenon
  <2> QED BY <2>1, <2>2
<1>2. \A kind : <<fs, rel, kind>> \in MountPoint(e) \ nodes =>
        \/ kind = "dir" /\ OnTheWay(fs, rel, next)
        \/ kind = SourceKind(e) /\ OnTheWay(fs, rel, next) /\ AtTheEnd(fs, rel, next)
  BY <1>1
<1> QED BY <1>2

\* One more mount, with the mount point made for it.
LEMMA NodesMount ==
    ASSUME MountInv, NodesInv, MountNext, mpc' = "mount"
    PROVE  NodesInv'
<1>0. mpc = "mount" /\ next <= Len(nsjconf.mountpts) /\ UNCHANGED nsjconf
  BY DEF MountNext, At, cmdlineVars
<1>1. next \in Entry /\ next \in Nat \ {0}
  BY <1>0, ListTypes DEF MountInv, Entry
<1>2. PICK e : e = nsjconf.mountpts[next]
  OBVIOUS
<1>3. CASE nsjconf.pivot_root_only /\ e.dst = <<>>
  <2>1. next' = next + 1 /\ UNCHANGED <<mpc, mnt, nodes>>
    BY <1>2, <1>3 DEF MountNext
  <2>2. PICK a, b : a = next /\ b = next + 1
    OBVIOUS
  <2>3. \A fs, rel : /\ DirOrigin(fs, rel, a) => DirOrigin(fs, rel, b)'
                     /\ FileOrigin(fs, rel, a) => FileOrigin(fs, rel, b)'
    <3>1. a \in Nat /\ b \in Nat /\ a <= b
      BY <1>1, <2>2
    <3> QED BY <1>0, <2>1, <3>1, OriginsStay
  <2>4. \A fs, rel : /\ <<fs, rel, "dir">> \in nodes' => DirOrigin(fs, rel, b)'
                     /\ <<fs, rel, "file">> \in nodes' => FileOrigin(fs, rel, b)'
    BY <1>0, <2>1, <2>2, <2>3, ZenonT(40) DEF NodesInv
  <2>5. RootsOK'
    BY <2>1 DEF NodesInv, RootsOK
  <2> QED BY <2>1, <2>2, <2>4, <2>5 DEF NodesInv, DirOrigin, FileOrigin
<1>4. CASE ~(nsjconf.pivot_root_only /\ e.dst = <<>>)
  <2>1. mountMount(e)
    BY <1>2, <1>4 DEF MountNext
  <2>2. PICK m, n : /\ n = next
                    /\ m = [at |-> e.dst, fs |-> FsOf(e, n), entry |-> n, ro |-> FALSE, size |-> SizeOf(e)]
    BY Zenon
  <2>3. /\ SourceKind(e) # "missing" /\ mnt' = Append(mnt, m) /\ next' = n + 1
        /\ nodes' = IF e.src = NULL THEN MountPoint(e) \cup {<<FsOf(e, n), <<>>, "dir">>}
                    ELSE MountPoint(e)
    BY <1>0, <2>1, <2>2, MountCases, Zenon DEF Fail
  <2>4. m \in Mnts /\ m.fs = FsOf(e, n) /\ mnt \in Seq(Mnts)
    BY <1>1, <1>2, <2>2, NewMount, Zenon DEF MountInv, Entry, TableOK
  <2>5. /\ DOMAIN mnt' = DOMAIN mnt \cup {Len(mnt) + 1} /\ mnt'[Len(mnt) + 1] = m
        /\ \A j \in DOMAIN mnt : j \in DOMAIN mnt' /\ mnt'[j] = mnt[j]
    BY <2>3, <2>4, AppendProperties, LenProperties
  <2>6. nodes \subseteq nodes'
    BY <2>3 DEF MountPoint, utilCreateDirRecursively
  <2>7. RootsOK'
    <3>1. \E kind \in {"dir", "file"} : <<m.fs, <<>>, kind>> \in nodes'
      <4>1. CASE e.src = NULL
        BY <2>3, <2>4, <4>1
      <4>2. CASE e.src # NULL
        <5>1. e.src[1] \in DOMAIN Host
          BY <2>3, <4>2 DEF SourceKind
        <5>2. <<BindFs(e.src[1]), <<>>, Host[e.src[1]].kind>> \in nodes
          BY <5>1 DEF NodesInv, RootsOK
        <5>3. m.fs = BindFs(e.src[1])
          BY <2>4, <4>2 DEF FsOf
        <5> QED BY <2>6, <5>1, <5>2, <5>3, HostAssumption
      <4> QED BY <4>1, <4>2
    <3> QED BY <2>5, <2>6, <3>1 DEF NodesInv, RootsOK
  <2>8. ASSUME NEW fs, NEW rel
        PROVE  /\ DirOrigin(fs, rel, n) => DirOrigin(fs, rel, n + 1)'
               /\ FileOrigin(fs, rel, n) => FileOrigin(fs, rel, n + 1)'
    <3>1. n \in Nat /\ n + 1 \in Nat /\ n <= n + 1
      BY <1>1, <2>2
    <3> QED BY <1>0, <2>5, <3>1, OriginsStay
  <2>9. ASSUME NEW fs, NEW rel
        PROVE  /\ OnTheWay(fs, rel, n) => DirOrigin(fs, rel, n + 1)'
               /\ AtTheEnd(fs, rel, n) /\ SourceKind(e) = "file" => FileOrigin(fs, rel, n + 1)'
    <3>1. n \in 1 .. (n + 1) - 1
      BY <1>1, <2>2
    <3>2. OnTheWay(fs, rel, n) => OnTheWay(fs, rel, n)'
      BY <1>0, <2>5 DEF OnTheWay
    <3>3. AtTheEnd(fs, rel, n) => AtTheEnd(fs, rel, n)'
      BY <1>0, <2>5 DEF AtTheEnd
    <3>4. SourceKind(nsjconf'.mountpts[n]) = SourceKind(e)
      BY <1>0, <1>2, <2>2
    <3> QED BY <3>1, <3>2, <3>3, <3>4 DEF DirOrigin, FileOrigin
  <2>10. ASSUME NEW fs, NEW rel, <<fs, rel, "dir">> \in nodes'
         PROVE  DirOrigin(fs, rel, n + 1)'
    <3>1. CASE <<fs, rel, "dir">> \in nodes
      BY <1>0, <2>2, <2>8, <3>1, ZenonT(40) DEF NodesInv
    <3>2. CASE rel = <<>>
      BY <3>2 DEF DirOrigin
    <3>3. CASE <<fs, rel, "dir">> \in MountPoint(e) \ nodes
      <4>1. OnTheWay(fs, rel, next)
        BY <1>1, <1>2, <3>3, MadeKinds, Zenon
      <4> QED BY <2>2, <2>9, <4>1
    <3> QED BY <2>3, <2>10, <3>1, <3>2, <3>3
  <2>11. ASSUME NEW fs, NEW rel, <<fs, rel, "file">> \in nodes'
         PROVE  FileOrigin(fs, rel, n + 1)'
    <3>1. CASE <<fs, rel, "file">> \in nodes
      BY <1>0, <2>2, <2>8, <3>1, Zenon DEF NodesInv
    <3>2. CASE <<fs, rel, "file">> \in MountPoint(e) \ nodes
      <4>1. SourceKind(e) = "file" /\ AtTheEnd(fs, rel, next)
        BY <1>1, <1>2, <3>2, MadeKinds, Zenon
      <4> QED BY <2>2, <2>9, <4>1
    <3> QED BY <2>3, <2>11, <3>1, <3>2
  <2> QED BY <2>3, <2>7, <2>10, <2>11 DEF NodesInv, DirOrigin, FileOrigin
<1> QED BY <1>3, <1>4

\* Nothing else makes files or directories.
LEMMA NodesStep ==
    ASSUME MountInv, NodesInv, [Next]_vars
    PROVE  NodesInv'
<1>p. MountInv' /\ ParseInv'
  BY MountStep DEF MountInv
<1>1. CASE MountNext
  <2>0. mpc = "mount" /\ next <= Len(nsjconf.mountpts)
    BY <1>1 DEF MountNext, At
  <2>1. CASE mpc' = "mount"
    BY <1>1, <2>1, NodesMount
  <2>2. CASE mpc' # "mount"
    <3>1. PICK e : e = nsjconf.mountpts[next]
      OBVIOUS
    <3>2. mountMount(e)
      BY <1>1, <2>0, <2>2, <3>1 DEF MountNext
    <3>3. mpc' = "fail" /\ mnt' = mnt /\ (nodes' = nodes \/ nodes' = MountPoint(e))
      BY <2>0, <2>2, <3>2, MountCases, Zenon DEF Fail
    <3>4. nodes \subseteq nodes'
      BY <3>3 DEF MountPoint, utilCreateDirRecursively
    <3>5. RootsOK'
      BY <3>3, <3>4 DEF NodesInv, RootsOK
    <3> QED BY <3>3, <3>5 DEF NodesInv
  <2> QED BY <2>1, <2>2
<1>2. CASE RemountNext
  <2>1. /\ mpc' \notin {"start", "begin", "mount"} /\ nodes' = nodes
    BY <1>2 DEF RemountNext, At, Fail
  <2>2. DOMAIN mnt' = DOMAIN mnt /\ \A j \in DOMAIN mnt : mnt'[j].fs = mnt[j].fs
    BY <1>2, <1>p, RemountNextStep
  <2>3. RootsOK'
    BY <2>1, <2>2 DEF NodesInv, RootsOK
  <2> QED BY <2>1, <2>3 DEF NodesInv
<1>3. ASSUME UNCHANGED <<mnt, nodes>>, mpc' \notin {"start", "begin", "mount"}
      PROVE  NodesInv'
  BY <1>3 DEF NodesInv, RootsOK
<1>4. CASE ChrootOnly \/ LeaveOldRoot \/ Finished \/ CallFails \/ CloneFails \/ HelperKilled
  <2>1. UNCHANGED <<mnt, nodes>> /\ mpc' \notin {"start", "begin", "mount"}
    BY <1>4, ZenonT(40)
       DEF ChrootOnly, LeaveOldRoot, Finished, CallFails, CloneFails, HelperKilled, Fail
  <2> QED BY <1>3, <2>1
<1>5. CASE PivotRoot \/ Begin \/ HelperExits \/ Return \/ UNCHANGED vars
             \/ (cmdlineParse /\ UNCHANGED mountVars)
  <2>1. /\ UNCHANGED <<mnt, nodes, next>>
        /\ mpc' \in {"start", "begin", "mount"} => mpc \in {"start", "begin", "mount"}
    BY <1>5 DEF PivotRoot, At, Begin, HelperExits, Return, vars, mountVars
  <2>2. RootsOK'
    BY <2>1 DEF NodesInv, RootsOK
  <2>3. CASE UNCHANGED nsjconf
    <3>1. PICK n : n = next
      OBVIOUS
    <3>2. n \in Nat
      BY <3>1, ListTypes DEF MountInv
    <3>3. \A fs, rel : /\ DirOrigin(fs, rel, n) => DirOrigin(fs, rel, n)'
                       /\ FileOrigin(fs, rel, n) => FileOrigin(fs, rel, n)'
      BY <2>1, <2>3, <3>2, OriginsStay
    <3>4. mpc' \in {"start", "begin", "mount"} =>
            \A fs, rel : /\ <<fs, rel, "dir">> \in nodes' => DirOrigin(fs, rel, n)'
                         /\ <<fs, rel, "file">> \in nodes' => FileOrigin(fs, rel, n)'
      BY <2>1, <3>1, <3>3, ZenonT(40) DEF NodesInv
    <3> QED BY <2>1, <2>2, <3>1, <3>4, Zenon
               DEF NodesInv, DirOrigin, FileOrigin
  <2>4. CASE parse = "options"
    <3>1. mpc = "start" /\ next = 1
      BY <2>4 DEF MountInv, Reported, Progress
    <3>2. \A fs, rel : /\ <<fs, rel, "dir">> \in nodes => DirOrigin(fs, rel, 1)
                       /\ <<fs, rel, "file">> \in nodes => FileOrigin(fs, rel, 1)
      BY <3>1, Zenon DEF NodesInv, DirOrigin, FileOrigin
    <3>3. \A j : j \notin 1 .. 1 - 1
      OBVIOUS
    <3>4. \A fs, rel : /\ DirOrigin(fs, rel, 1) => DirOrigin(fs, rel, 1)'
                       /\ FileOrigin(fs, rel, 1) => FileOrigin(fs, rel, 1)'
      BY <3>3 DEF DirOrigin, FileOrigin
    <3> QED BY <2>1, <2>2, <3>1, <3>2, <3>4 DEF NodesInv, DirOrigin, FileOrigin
  <2>5. parse = "options" \/ UNCHANGED nsjconf
    BY ParseStep DEF MountInv, cmdlineVars
  <2> QED BY <2>3, <2>4, <2>5
<1> QED BY <1>1, <1>2, <1>4, <1>5 DEF Next, mountInitNs, mountInitNsInternal

\* Only an unusable entry, a missing working directory or a fault can make it
\* fail.
LEMMA SoundStep ==
    ASSUME MountInv, NodesInv, SoundListsSucceed, [Next]_vars
    PROVE  SoundListsSucceed'
<1> SUFFICES ASSUME mpc' = "fail", nsjconf'.clone_newns, ~fault'
             PROVE  (\E i \in Entry : Unusable(i))' \/ (root' = "jail" /\ ~IsDir(nsjconf.cwd)')
  BY DEF SoundListsSucceed
<1>k. ASSUME UNCHANGED nsjconf
      PROVE  (\E i \in Entry : Unusable(i)) => (\E i \in Entry : Unusable(i))'
  BY <1>k, ZenonT(40)
     DEF Entry, Unusable, NoPlaceForFile, Inside, DstOf, Source, SourceKind
<1>d. ASSUME UNCHANGED <<nsjconf, mnt, nodes>>
      PROVE  IsDir(nsjconf.cwd)' <=> IsDir(nsjconf.cwd)
  BY <1>d DEF IsDir, Node, Top
<1>1. CASE MountNext
  <2>1. UNCHANGED nsjconf
    BY <1>1 DEF MountNext, At, cmdlineVars
  <2>2. ~Sound
    BY <1>1, MountSucceeds
  <2> QED BY <1>k, <2>1, <2>2 DEF Sound
<1>2. CASE RemountNext
  <2>1. UNCHANGED nsjconf
    BY <1>2 DEF RemountNext, At, cmdlineVars
  <2>2. ~Sound
    BY <1>2, RemountSucceeds
  <2> QED BY <1>k, <2>1, <2>2 DEF Sound
<1>3. CASE LeaveOldRoot
  <2>1. UNCHANGED <<nsjconf, mnt, nodes>>
    BY <1>3 DEF LeaveOldRoot, At, cmdlineVars
  <2>2. root' = "jail" /\ ~IsDir(nsjconf.cwd)
    BY <1>3 DEF LeaveOldRoot
  <2> QED BY <1>d, <2>1, <2>2
<1>4. CASE ChrootOnly \/ CallFails \/ CloneFails \/ HelperKilled
  BY <1>4, Zenon
     DEF ChrootOnly, CallFails, CloneFails, HelperKilled, At, cmdlineVars
<1>5. CASE PivotRoot \/ Begin \/ Finished
  BY <1>5 DEF PivotRoot, Begin, Finished
<1>6. CASE HelperExits \/ Return \/ UNCHANGED vars \/ (cmdlineParse /\ UNCHANGED mountVars)
  <2>1. UNCHANGED <<mpc, mnt, nodes, root, fault>>
    BY <1>6 DEF HelperExits, Return, vars, mountVars
  <2>2. UNCHANGED nsjconf
    <3>1. parse # "options"
      BY <2>1 DEF MountInv, Reported
    <3> QED BY <3>1, ParseStep DEF MountInv, cmdlineVars
  <2>3. (\E i \in Entry : Unusable(i)) \/ (root = "jail" /\ ~IsDir(nsjconf.cwd))
    BY <2>1, <2>2 DEF SoundListsSucceed
  <2> QED BY <1>k, <1>d, <2>1, <2>2, <2>3
<1> QED BY <1>1, <1>2, <1>3, <1>4, <1>5, <1>6 DEF Next, mountInitNs, mountInitNsInternal

\* A list of mounts that has no unusable entry is mounted and remounted to its
\* end, whatever the order of its entries and however deep they lie in one
\* another, unless a call fails for reasons of its own.
THEOREM SoundSucceeds == Spec => []SoundListsSucceed
<1>1. Init => SoundListsSucceed
  BY DEF Init, MountInit, SoundListsSucceed
<1> QED BY <1>1, NodesInit, NodesStep, SoundStep, Phases, PTL DEF Spec
=============================================================================
