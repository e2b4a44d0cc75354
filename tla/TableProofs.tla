---------------------------- MODULE TableProofs ----------------------------
(***************************************************************************)
(* For every command line and every host: what cmdlineParse leaves in      *)
(* struct nsjconf_t, and how the mount table of the jail follows its list  *)
(* of mounts.  ParseInv says that the fields have their types, the limits  *)
(* are the ones asked for and the list has the order of the options;       *)
(* MountInv says how far mountInitNs is and what is mounted by then.       *)
(***************************************************************************)
EXTENDS MountProperties, SequenceTheorems, TLAPS

-----------------------------------------------------------------------------
(* The types of the fields that later steps depend on.                      *)

Entries == [src : Seq(Paths), dst : Paths, ro : BOOLEAN, fs_type : {"", "tmpfs", "proc"},
            options : {"", "cmdlineTmpfsSz"}]
Ids == 0 .. IdMod - 1

Fields == {"mode", "rl", "mountpts", "chroot", "cwd", "pivot_root_only", "clone_newns",
           "is_root_rw", "mount_proc", "tmpfs_size", "user", "group", "logfile",
           "inside_uid", "outside_uid", "inside_gid", "outside_gid"}

ValueOK(f, v) ==
    /\ f = "mode" => v \in Mode
    /\ f = "rl" => \A r \in DOMAIN v : v[r] \in 0 .. LimMod - 1
    /\ f = "mountpts" => v \in Seq(Entries)
    /\ f = "chroot" => v \in Seq(Paths)
    /\ f = "cwd" => v \in Paths
    /\ f \in {"pivot_root_only", "clone_newns", "is_root_rw", "mount_proc"} => v \in BOOLEAN
    /\ f = "tmpfs_size" => v \in Nat
    /\ f \in {"user", "group"} => v \in Seq(Texts)
    /\ f \in {"inside_uid", "outside_uid", "inside_gid", "outside_gid"} => v \in Ids

FieldsOK(c) == Fields \subseteq DOMAIN c /\ \A f \in Fields : ValueOK(f, c[f])

\* The entry of the list that an option makes.
EntryOf(o) ==
    IF o.c = "T" THEN Mountpt(NULL, o.dst, FALSE, "tmpfs", "cmdlineTmpfsSz")
    ELSE Mountpt(<<o.spec[1]>>, cmdlineSplitStrByColon(o.spec)[1], o.c = "R", "", "")

\* f gives each entry of the list the position of the option that made it, 0
\* for / and /proc, which are added at the end: the list has the order of the
\* options, and every option its entry.
Owners(f) ==
    LET L == nsjconf.mountpts
    IN  /\ f \in [DOMAIN L -> {0} \cup MountOption]
        /\ \A i, j \in DOMAIN L : i < j /\ f[i] # 0 => f[i] < f[j]
        /\ \A i \in DOMAIN L : f[i] # 0 => L[i] = EntryOf(argv[f[i]])
        /\ \A i \in DOMAIN L : f[i] = 0 => L[i].dst \in {<<>>, <<"proc">>}
        /\ \A k \in MountOption : \E i \in DOMAIN L : f[i] = k

\* A limit comes from the last option for its resource, and is the product
\* the option asks for when that fits.
LimitsOK ==
    \A r \in DOMAIN nsjconf.rl :
      \E i \in Limits(r) :
        /\ \A j \in Limits(r) : j <= i
        /\ argv[i].text.kind = "number" /\ argv[i].text.n * argv[i].mul < LimMod
           => nsjconf.rl[r] = argv[i].text.n * argv[i].mul

ParseInv ==
    /\ parse \in {"options", "parsed", "exit0", "exit1"}
    /\ argv \in Seq(Options)
    /\ FieldsOK(nsjconf)
    /\ \E f : Owners(f)
    /\ parse \in {"options", "parsed"} => LimitsOK

-----------------------------------------------------------------------------
(* Values.                                                                  *)

\* A product that fits is not cut.
LEMMA Product ==
    ASSUME NEW n \in Nat, NEW k \in Nat \ {0}
    PROVE  n * k \in Nat /\ n <= n * k
  OBVIOUS

LEMMA Remainder ==
    ASSUME NEW n \in Nat, NEW k \in Nat \ {0}
    PROVE  n % k \in 0 .. k - 1 /\ (n < k => n % k = n)
  OBVIOUS

\* What cmdlineParseRLimit returns is a limit, and the one asked for if that
\* fits in 64 bits.
LEMMA LimitValue ==
    ASSUME NEW text \in Texts, NEW mul \in Nat \ {0}, NEW errno,
           cmdlineParseRLimit(text, mul, errno) # NULL
    PROVE  /\ cmdlineParseRLimit(text, mul, errno)[1] \in 0 .. LimMod - 1
           /\ text.kind = "number" /\ text.n * mul < LimMod =>
                cmdlineParseRLimit(text, mul, errno)[1] = text.n * mul
<1> DEFINE res == cmdlineParseRLimit(text, mul, errno)
           prod == strtoull(text.n) * mul
           val == prod % LimMod
<1>t. text.n \in Nat
  BY DEF Texts
<1>1. CASE text.kind = "max"
  <2>1. res = <<HardLimit>>
    BY <1>1, Zenon DEF cmdlineParseRLimit
  <2> QED BY <1>1, <2>1, LimitAssumption
<1>2. CASE text.kind = "def"
  <2>1. res = <<SoftLimit>>
    <3>1. text.kind # "max"
      BY <1>2
    <3> QED BY <1>2, <3>1, Zenon DEF cmdlineParseRLimit
  <2> QED BY <1>2, <2>1, LimitAssumption
<1>3. CASE text.kind = "number"
  <2>1. res = NULL \/ res = <<val>>
    <3>1. text.kind # "max" /\ text.kind # "def"
      BY <1>3
    <3> QED BY <1>3, <3>1, Zenon DEF cmdlineParseRLimit
  <2>2. strtoull(text.n) \in Nat /\ (text.n < LimMod => strtoull(text.n) = text.n)
    BY <1>t, LimitAssumption DEF strtoull
  <2>3. prod \in Nat
    BY <2>2, Product
  <2>4. val \in 0 .. LimMod - 1 /\ (prod < LimMod => val = prod)
    <3> HIDE DEF prod
    <3> QED BY <2>3, Remainder, LimitAssumption, Zenon
  <2>5. text.n * mul < LimMod => prod = text.n * mul
    BY <1>t, <2>2, Product, LimitAssumption
  <2> HIDE DEF val, prod
  <2>6. res[1] = val
    BY <2>1
  <2> QED BY <2>4, <2>5, <2>6
<1>4. CASE text.kind \notin {"max", "def", "number"}
  <2>1. text.kind # "max" /\ text.kind # "def" /\ text.kind # "number"
    BY <1>4
  <2>2. res = NULL
    BY <2>1, Zenon DEF cmdlineParseRLimit
  <2> QED BY <2>2
<1> QED BY <1>1, <1>2, <1>3, <1>4

\* An id is that of an account or a number cut to 32 bits.
LEMMA IdValue ==
    ASSUME NEW t \in Texts
    PROVE  IdOf(t) = NULL \/ \E n \in Ids : IdOf(t) = <<n>>
<1>t. t.n \in Nat /\ (t.kind = "name" => t.n \in Ids)
  BY LimitAssumption DEF Texts, Ids
<1>1. CASE t.kind = "name"
  BY <1>1, <1>t, Zenon DEF IdOf
<1>2. CASE t.kind = "number"
  <2>1. t.kind # "name"
    BY <1>2
  <2>2. IdOf(t) = <<strtoull(t.n) % IdMod>>
    BY <1>2, <2>1, Zenon DEF IdOf
  <2>3. strtoull(t.n) \in Nat
    BY <1>t, LimitAssumption DEF strtoull
  <2>4. strtoull(t.n) % IdMod \in Ids
    BY <2>3, Remainder, LimitAssumption DEF Ids
  <2> QED BY <2>2, <2>4
<1>3. CASE t.kind # "name" /\ t.kind # "number"
  BY <1>3, Zenon DEF IdOf
<1> QED BY <1>1, <1>2, <1>3

\* -u and -g name two ids, of which those left out keep their values.
LEMMA IdsValue ==
    ASSUME NEW spec \in Seq(Texts), NEW inside \in Ids, NEW outside \in Ids,
           ParseIds(spec, inside, outside) # NULL
    PROVE  /\ ParseIds(spec, inside, outside)[1] \in Ids
           /\ ParseIds(spec, inside, outside)[2] \in Ids
<1> DEFINE first == IdOf(spec[1])
           second == IF Len(spec) > 1 THEN IdOf(spec[2]) ELSE <<outside>>
<1>1. CASE spec = NULL
  BY <1>1 DEF ParseIds
<1>2. CASE spec # NULL
  <2>1. Len(spec) \in Nat \ {0} /\ spec[1] \in Texts /\ (Len(spec) > 1 => spec[2] \in Texts)
    BY <1>2, EmptySeq, ElementOfSeq DEF NULL
  <2>2. first = NULL \/ \E n \in Ids : first = <<n>>
    BY <2>1, IdValue
  <2>3. second = NULL \/ \E n \in Ids : second = <<n>>
    <3>1. CASE Len(spec) > 1
      BY <3>1, <2>1, IdValue
    <3>2. CASE ~(Len(spec) > 1)
      BY <3>2
    <3> QED BY <3>1, <3>2
  <2>4. ParseIds(spec, inside, outside) = NULL
        \/ (first # NULL /\ second # NULL /\ ParseIds(spec, inside, outside) = first \o second)
    BY <1>2, Zenon DEF ParseIds
  <2> HIDE DEF first, second
  <2>5. PICK m \in Ids, n \in Ids : first = <<m>> /\ second = <<n>>
    BY <2>2, <2>3, <2>4
  <2>6. (first \o second)[1] = m /\ (first \o second)[2] = n
    <3>1. first \in Seq(Ids) /\ second \in Seq(Ids) /\ Len(first) = 1 /\ Len(second) = 1
      BY <2>5
    <3> QED BY <2>5, <3>1, ConcatProperties
  <2> QED BY <2>4, <2>6, Zenon
<1> QED BY <1>1, <1>2

-----------------------------------------------------------------------------
(* Fields.                                                                  *)

\* Assigning a value of its type to a field keeps the types.
LEMMA FieldSet ==
    ASSUME NEW c, FieldsOK(c), NEW f, NEW v, ValueOK(f, v)
    PROVE  FieldsOK([c EXCEPT ![f] = v])
<1>1. DOMAIN [c EXCEPT ![f] = v] = DOMAIN c
  OBVIOUS
<1>2. ASSUME NEW g \in Fields
      PROVE  ValueOK(g, [c EXCEPT ![f] = v][g])
  <2>1. g \in DOMAIN c /\ ValueOK(g, c[g])
    BY <1>2 DEF FieldsOK
  <2>2. CASE g = f
    BY <2>1, <2>2
  <2>3. CASE g # f
    <3>1. [c EXCEPT ![f] = v][g] = c[g]
      BY <2>1, <2>3
    <3> QED BY <2>1, <3>1
  <2> QED BY <2>2, <2>3
<1> QED BY <1>1, <1>2 DEF FieldsOK

\* The values of the options that assign a field have its type.
LEMMA SetValue ==
    ASSUME NEW f \in DOMAIN SetType, NEW v \in SetType[f]
    PROVE  ValueOK(f, v) /\ f \notin {"mountpts", "rl"}
  BY DEF SetType, ValueOK

\* An entry of -R, -B or -T.
LEMMA OptionEntry ==
    ASSUME NEW o \in Options, o.c \in {"R", "B", "T"}
    PROVE  EntryOf(o) \in Entries
<1>1. CASE o.c = "T"
  <2>1. o.dst \in Paths
    BY <1>1, OptionAssumption
  <2>2. <<>> \in Seq(Paths)
    OBVIOUS
  <2>3. EntryOf(o) = Mountpt(NULL, o.dst, FALSE, "tmpfs", "cmdlineTmpfsSz")
    BY <1>1, Zenon DEF EntryOf
  <2> QED BY <2>1, <2>2, <2>3 DEF Mountpt, Entries, NULL
<1>2. CASE o.c \in {"R", "B"}
  <2>1. o.spec \in Seq(Paths) /\ o.spec # <<>>
    BY <1>2, OptionAssumption
  <2>2. o.spec[1] \in Paths
    BY <2>1, EmptySeq, ElementOfSeq
  <2>3. cmdlineSplitStrByColon(o.spec)[1] \in Paths
    <3>1. CASE Len(o.spec) > 1
      <4>1. Tail(o.spec)[1] = o.spec[2] /\ o.spec[2] \in Paths
        BY <2>1, <3>1, HeadTailProperties, LenProperties, ElementOfSeq
      <4> QED BY <3>1, <4>1 DEF cmdlineSplitStrByColon
    <3>2. CASE ~(Len(o.spec) > 1)
      BY <2>2, <3>2 DEF cmdlineSplitStrByColon
    <3> QED BY <3>1, <3>2
  <2> DEFINE ro == (o.c = "R")
             dst == cmdlineSplitStrByColon(o.spec)[1]
             src == <<o.spec[1]>>
  <2>4. EntryOf(o) = Mountpt(src, dst, ro, "", "")
    <3>1. o.c # "T"
      BY <1>2
    <3> QED BY <3>1, Zenon DEF EntryOf
  <2>5. src \in Seq(Paths)
    BY <2>2
  <2>6. ro \in BOOLEAN
    BY Zenon
  <2> HIDE DEF ro, dst, src
  <2>7. dst \in Paths
    BY <2>3 DEF dst
  <2>8. ASSUME NEW a \in Seq(Paths), NEW b \in Paths, NEW r \in BOOLEAN
        PROVE  Mountpt(a, b, r, "", "") \in Entries
    BY DEF Mountpt, Entries
  <2> QED BY <2>4, <2>5, <2>6, <2>7, <2>8, Zenon
<1> QED BY <1>1, <1>2

\* / and /proc.
LEMMA HeadEntries ==
    ASSUME FieldsOK(nsjconf)
    PROVE  /\ RootMount(nsjconf) \in Entries
           /\ ProcMount(nsjconf) \in Seq(Entries) /\ Len(ProcMount(nsjconf)) \in {0, 1}
           /\ RootMount(nsjconf).dst = <<>>
           /\ \A i \in 1 .. Len(ProcMount(nsjconf)) : ProcMount(nsjconf)[i].dst = <<"proc">>
<1>1. nsjconf.chroot \in Seq(Paths) /\ <<>> \in Paths /\ <<"proc">> \in Paths
  BY OptionAssumption DEF FieldsOK, Fields, ValueOK, Paths
<1>2. RootMount(nsjconf) \in Entries
  <2>1. (IF nsjconf.chroot = NULL THEN "tmpfs" ELSE "") \in {"", "tmpfs", "proc"}
    OBVIOUS
  <2> QED BY <1>1, <2>1 DEF RootMount, Mountpt, Entries
<1> DEFINE p == Mountpt(NULL, <<"proc">>, FALSE, "proc", "")
<1>3. p \in Entries
  <2>1. NULL \in Seq(Paths)
    BY DEF NULL
  <2> QED BY <1>1, <2>1 DEF Mountpt, Entries
<1>d. p.dst = <<"proc">> /\ RootMount(nsjconf).dst = <<>>
  BY DEF Mountpt, RootMount
<1>4. ProcMount(nsjconf) = <<p>> \/ ProcMount(nsjconf) = <<>>
  BY Zenon DEF ProcMount
<1> HIDE DEF p
<1>5. /\ <<p>> \in Seq(Entries) /\ Len(<<p>>) = 1
      /\ <<>> \in Seq(Entries) /\ Len(<<>>) = 0
  BY <1>3
<1>6. \A i \in 1 .. Len(<<p>>) : <<p>>[i] = p
  OBVIOUS
<1>7. \A i \in 1 .. Len(ProcMount(nsjconf)) : ProcMount(nsjconf)[i] = p
  BY <1>4, <1>5, <1>6
<1> QED BY <1>2, <1>4, <1>5, <1>7, <1>d, Zenon

-----------------------------------------------------------------------------
(* One more option.                                                         *)

\* getopt_long() returned o.
LEMMA Taken ==
    ASSUME argv \in Seq(Options), NEW o \in Options, Take(o)
    PROVE  /\ parse = "options" /\ argv' \in Seq(Options) /\ Len(argv) \in Nat
           /\ DOMAIN argv = 1 .. Len(argv) /\ DOMAIN argv' = 1 .. Len(argv) + 1
           /\ \A i \in DOMAIN argv : argv'[i] = argv[i]
           /\ argv'[Len(argv) + 1] = o
<1>1. parse = "options" /\ argv' = Append(argv, o)
  BY DEF Take
<1> QED BY <1>1, AppendProperties, LenProperties

\* The positions of the options for mounts, before and after.
LEMMA MountOptions ==
    ASSUME argv \in Seq(Options), NEW o \in Options, Take(o)
    PROVE  /\ MountOption \subseteq 1 .. Len(argv) /\ MountOption \subseteq MountOption'
           /\ MountOption' \subseteq MountOption \cup {Len(argv) + 1}
           /\ Len(argv) + 1 \in MountOption' <=> o.c \in {"R", "B", "T"}
  BY Taken DEF MountOption

\* An option that makes no mount leaves the list and its order alone.
LEMMA OwnersKept ==
    ASSUME argv \in Seq(Options), NEW o \in Options, Take(o), o.c \notin {"R", "B", "T"},
           nsjconf'.mountpts = nsjconf.mountpts, NEW f, Owners(f)
    PROVE  Owners(f)'
<1>0. /\ MountOption \subseteq 1 .. Len(argv) /\ MountOption \subseteq MountOption'
      /\ MountOption' \subseteq MountOption \cup {Len(argv) + 1}
      /\ Len(argv) + 1 \notin MountOption'
  BY MountOptions
<1>1. MountOption' = MountOption /\ MountOption \subseteq DOMAIN argv
  BY <1>0, Taken, Zenon
<1>2. \A k \in MountOption : argv'[k] = argv[k]
  BY <1>1, Taken
<1> QED BY <1>1, <1>2 DEF Owners

\* -R, -B and -T put their entry behind the others.
LEMMA OwnersAdded ==
    ASSUME argv \in Seq(Options), NEW o \in Options, Take(o), o.c \in {"R", "B", "T"},
           nsjconf.mountpts \in Seq(Entries),
           nsjconf'.mountpts = Append(nsjconf.mountpts, EntryOf(o)), NEW f, Owners(f)
    PROVE  \E g : Owners(g)'
<1> DEFINE L == nsjconf.mountpts
           M == nsjconf'.mountpts
           n == Len(L)
           k == Len(argv) + 1
<1>g. PICK g : g = [i \in 1 .. n + 1 |-> IF i = n + 1 THEN k ELSE f[i]]
  BY Zenon
<1>1. /\ n \in Nat /\ DOMAIN L = 1 .. n /\ DOMAIN M = 1 .. n + 1
      /\ \A i \in 1 .. n : M[i] = L[i]
      /\ M[n + 1] = EntryOf(o)
  BY OptionEntry, AppendProperties, LenProperties
<1>2. /\ k \in Nat /\ k \in MountOption' /\ MountOption \subseteq 1 .. k - 1
      /\ MountOption' = MountOption \cup {k} /\ argv'[k] = o
      /\ \A j \in MountOption : argv'[j] = argv[j]
  BY MountOptions, Taken
<1>3. /\ f \in [1 .. n -> {0} \cup MountOption]
      /\ \A i, j \in 1 .. n : i < j /\ f[i] # 0 => f[i] < f[j]
      /\ \A i \in 1 .. n : f[i] # 0 => L[i] = EntryOf(argv[f[i]])
      /\ \A i \in 1 .. n : f[i] = 0 => L[i].dst \in {<<>>, <<"proc">>}
      /\ \A j \in MountOption : \E i \in 1 .. n : f[i] = j
  BY <1>1, Zenon DEF Owners
<1> HIDE DEF L, M, n, k
<1>4. g[n + 1] = k /\ \A i \in 1 .. n : g[i] = f[i]
  BY <1>g, <1>1
<1>5. g \in [1 .. n + 1 -> {0} \cup MountOption']
  BY <1>g, <1>1, <1>2, <1>3
<1>6. \A i, j \in 1 .. n + 1 : i < j /\ g[i] # 0 => g[i] < g[j]
  <2>1. \A i \in 1 .. n + 1 : i \in 1 .. n \/ i = n + 1
    BY <1>1
  <2>2. \A i \in 1 .. n : f[i] = 0 \/ f[i] \in MountOption
    BY <1>3
  <2>0. \A j \in MountOption : j < k
    BY <1>2
  <2>3. \A i \in 1 .. n : f[i] # 0 => f[i] < k
    BY <2>0, <2>2
  <2>4. \A i, j \in 1 .. n + 1 : i < j => i \in 1 .. n
    BY <1>1
  <2> QED BY <1>3, <1>4, <2>1, <2>3, <2>4
<1>7. \A i \in 1 .. n + 1 : g[i] # 0 => M[i] = EntryOf(argv'[g[i]])
  <2>1. ASSUME NEW i \in 1 .. n, f[i] # 0
        PROVE  M[i] = EntryOf(argv'[f[i]])
    BY <2>1, <1>1, <1>2, <1>3
  <2>2. M[n + 1] = EntryOf(argv'[k])
    BY <1>1, <1>2
  <2> QED BY <1>1, <1>4, <2>1, <2>2
<1>8. \A j \in MountOption' : \E i \in 1 .. n + 1 : g[i] = j
  BY <1>1, <1>2, <1>3, <1>4
<1>z. \A i \in 1 .. n + 1 : g[i] = 0 => M[i].dst \in {<<>>, <<"proc">>}
  <2>1. \A i \in 1 .. n + 1 : i \in 1 .. n \/ i = n + 1
    BY <1>1
  <2>2. k # 0
    BY Taken DEF k
  <2> QED BY <1>1, <1>3, <1>4, <2>1, <2>2
<1>9. Owners(g)'
  BY <1>1, <1>5, <1>6, <1>7, <1>8, <1>z, Zenon DEF Owners, M
<1> QED BY <1>9

\* / and /proc come before all the others.
LEMMA OwnersShifted ==
    ASSUME argv \in Seq(Options), FieldsOK(nsjconf), UNCHANGED argv,
           nsjconf'.mountpts = AllMounts(nsjconf), NEW f, Owners(f)
    PROVE  \E g : Owners(g)'
<1> DEFINE L == nsjconf.mountpts
           M == nsjconf'.mountpts
           n == Len(L)
           d == 1 + Len(ProcMount(nsjconf))
<1>g. PICK g : g = [i \in 1 .. n + d |-> IF i <= d THEN 0 ELSE f[i - d]]
  BY Zenon
<1>1. L \in Seq(Entries)
  BY Zenon DEF FieldsOK, Fields, ValueOK
<1>2. /\ n \in Nat /\ d \in Nat /\ DOMAIN L = 1 .. n /\ DOMAIN M = 1 .. n + d
      /\ \A i \in d + 1 .. n + d : M[i] = L[i - d]
      /\ \A i \in 1 .. d : M[i].dst \in {<<>>, <<"proc">>}
  <2>1. PICK r : r = <<RootMount(nsjconf)>>
    BY Zenon
  <2>2. r \in Seq(Entries) /\ Len(r) = 1 /\ r[1].dst = <<>>
    <3> PICK x : x = RootMount(nsjconf)
      OBVIOUS
    <3>1. r = <<x>> /\ x \in Entries /\ x.dst = <<>>
      BY <2>1, HeadEntries, Zenon
    <3> QED BY <3>1
  <2>3. PICK p : p = ProcMount(nsjconf)
    OBVIOUS
  <2>4. p \in Seq(Entries) /\ Len(p) \in {0, 1} /\ \A i \in 1 .. Len(p) : p[i].dst = <<"proc">>
    BY <2>3, HeadEntries
  <2>5. M = (r \o p) \o L
    BY <2>1, <2>3 DEF AllMounts
  <2>6. r \o p \in Seq(Entries) /\ Len(r \o p) = d
    BY <2>2, <2>3, <2>4, ConcatProperties
  <2>h. \A i \in 1 .. d : (r \o p)[i].dst \in {<<>>, <<"proc">>}
    <3>1. /\ Len(r \o p) = 1 + Len(p)
          /\ \A i \in 1 .. 1 + Len(p) : (r \o p)[i] = IF i <= 1 THEN r[i] ELSE p[i - 1]
      BY <2>2, <2>4, ConcatProperties
    <3>2. \A i \in 1 .. 1 + Len(p) : i = 1 \/ (~(i <= 1) /\ i - 1 \in 1 .. Len(p))
      BY <2>4
    <3> QED BY <2>2, <2>3, <2>4, <3>1, <3>2
  <2>7. PICK q : q = r \o p
    BY Zenon
  <2>8. q \in Seq(Entries) /\ Len(q) = d /\ d \in Nat /\ M = q \o L
    BY <2>4, <2>3, <2>5, <2>6, <2>7
  <2>q. \A i \in 1 .. d : q[i].dst \in {<<>>, <<"proc">>}
    BY <2>h, <2>7, Zenon
  <2>9. n \in Nat /\ DOMAIN L = 1 .. n
    BY <1>1, LenProperties
  <2> HIDE DEF d, M, L, n
  <2>10. /\ M \in Seq(Entries) /\ Len(M) = d + n
         /\ \A i \in 1 .. d + n : M[i] = IF i <= d THEN q[i] ELSE L[i - d]
    BY <1>1, <2>8, ConcatProperties DEF n
  <2>11. \A i \in 1 .. d : i \in 1 .. d + n /\ i <= d
    BY <2>8, <2>9
  <2>12. \A i \in 1 .. d : M[i].dst \in {<<>>, <<"proc">>}
    BY <2>10, <2>11, <2>q
  <2>13. \A i \in d + 1 .. n + d : i \in 1 .. d + n /\ ~(i <= d)
    BY <2>8, <2>9
  <2>14. \A i \in d + 1 .. n + d : M[i] = L[i - d]
    BY <2>10, <2>13
  <2>15. DOMAIN M = 1 .. n + d
    BY <2>8, <2>9, <2>10, LenProperties
  <2> QED BY <2>8, <2>9, <2>12, <2>14, <2>15
<1>3. /\ f \in [1 .. n -> {0} \cup MountOption]
      /\ \A i, j \in 1 .. n : i < j /\ f[i] # 0 => f[i] < f[j]
      /\ \A i \in 1 .. n : f[i] # 0 => L[i] = EntryOf(argv[f[i]])
      /\ \A i \in 1 .. n : f[i] = 0 => L[i].dst \in {<<>>, <<"proc">>}
      /\ \A j \in MountOption : \E i \in 1 .. n : f[i] = j
  BY <1>2 DEF Owners
<1>4. MountOption' = MountOption
  BY DEF MountOption
<1> HIDE DEF L, M, n, d
<1>5. /\ \A i \in 1 .. d : i \in 1 .. n + d /\ g[i] = 0
      /\ \A i \in d + 1 .. n + d : i - d \in 1 .. n /\ g[i] = f[i - d]
      /\ \A i \in 1 .. n : i + d \in 1 .. n + d /\ g[i + d] = f[i]
      /\ \A i \in 1 .. n + d : i \in 1 .. d \/ i \in d + 1 .. n + d
  BY <1>g, <1>2
<1>6. g \in [1 .. n + d -> {0} \cup MountOption]
  BY <1>g, <1>2, <1>3, <1>5
<1>7. \A i, j \in 1 .. n + d : i < j /\ g[i] # 0 => g[i] < g[j]
  BY <1>2, <1>3, <1>5
<1>8. \A i \in 1 .. n + d : g[i] # 0 => M[i] = EntryOf(argv[g[i]])
  BY <1>2, <1>3, <1>5
<1>9. \A j \in MountOption : \E i \in 1 .. n + d : g[i] = j
  BY <1>3, <1>5
<1>z. \A i \in 1 .. n + d : g[i] = 0 => M[i].dst \in {<<>>, <<"proc">>}
  BY <1>2, <1>3, <1>5
<1>10. Owners(g)'
  BY <1>2, <1>4, <1>6, <1>7, <1>8, <1>9, <1>z DEF Owners, M
<1> QED BY <1>10

\* The positions of the options for the limit of r, before and after.
LEMMA LimitOptions ==
    ASSUME argv \in Seq(Options), NEW o \in Options, Take(o), NEW r
    PROVE  /\ Limits(r) \subseteq 1 .. Len(argv) /\ Limits(r) \subseteq Limits(r)'
           /\ Limits(r)' \subseteq Limits(r) \cup {Len(argv) + 1}
           /\ Len(argv) + 1 \in Limits(r)' <=> o.c = "rlimit" /\ o.res = r
  BY Taken DEF Limits

\* The limits that an option does not name stay as they were.
LEMMA OtherLimits ==
    ASSUME argv \in Seq(Options), LimitsOK, NEW o \in Options, Take(o),
           NEW r \in DOMAIN nsjconf.rl, ~(o.c = "rlimit" /\ o.res = r)
    PROVE  \E i \in Limits(r)' :
             /\ \A j \in Limits(r)' : j <= i
             /\ argv'[i].text.kind = "number" /\ argv'[i].text.n * argv'[i].mul < LimMod
                => nsjconf.rl[r] = argv'[i].text.n * argv'[i].mul
<1>0. /\ Limits(r) \subseteq 1 .. Len(argv) /\ Limits(r) \subseteq Limits(r)'
      /\ Limits(r)' \subseteq Limits(r) \cup {Len(argv) + 1}
      /\ Len(argv) + 1 \notin Limits(r)'
  BY LimitOptions
<1>1. Limits(r)' = Limits(r)
  BY <1>0, Zenon
<1>2. \A i \in Limits(r) : argv'[i] = argv[i]
  BY <1>0, Taken
<1> QED BY <1>1, <1>2 DEF LimitsOK

LEMMA LimitsKept ==
    ASSUME argv \in Seq(Options), LimitsOK, NEW o \in Options, Take(o),
           o.c # "rlimit", nsjconf'.rl = nsjconf.rl
    PROVE  LimitsOK'
  BY OtherLimits DEF LimitsOK

\* --rlimit_..: the newest option for its resource is the last one.
LEMMA LimitSet ==
    ASSUME argv \in Seq(Options), LimitsOK, NEW o \in Options, Take(o), o.c = "rlimit",
           NEW v, nsjconf'.rl = WithLimit(nsjconf.rl, o.res, v),
           o.text.kind = "number" /\ o.text.n * o.mul < LimMod => v = o.text.n * o.mul
    PROVE  LimitsOK'
<1>1. /\ DOMAIN nsjconf'.rl = DOMAIN nsjconf.rl \cup {o.res}
      /\ nsjconf'.rl[o.res] = v
      /\ \A r \in DOMAIN nsjconf.rl : r # o.res => nsjconf'.rl[r] = nsjconf.rl[r]
  BY DEF WithLimit
<1>2. ASSUME NEW r \in DOMAIN nsjconf.rl, r # o.res
      PROVE  \E i \in Limits(r)' :
               /\ \A j \in Limits(r)' : j <= i
               /\ argv'[i].text.kind = "number" /\ argv'[i].text.n * argv'[i].mul < LimMod
                  => nsjconf'.rl[r] = argv'[i].text.n * argv'[i].mul
  BY <1>1, <1>2, OtherLimits
<1>3. \E i \in Limits(o.res)' :
        /\ \A j \in Limits(o.res)' : j <= i
        /\ argv'[i].text.kind = "number" /\ argv'[i].text.n * argv'[i].mul < LimMod
           => nsjconf'.rl[o.res] = argv'[i].text.n * argv'[i].mul
  <2> DEFINE k == Len(argv) + 1
  <2>1. k \in Limits(o.res)' /\ argv'[k] = o /\ Len(argv) \in Nat
    BY LimitOptions, Taken
  <2>2. \A j \in Limits(o.res)' : j <= k
    <3>1. \A j \in Limits(o.res)' : j \in 1 .. Len(argv) \/ j = k
      BY LimitOptions
    <3> QED BY <2>1, <3>1
  <2> HIDE DEF k
  <2> QED BY <1>1, <2>1, <2>2
<1> QED BY <1>1, <1>2, <1>3 DEF LimitsOK

-----------------------------------------------------------------------------
(* The parser.                                                              *)

\* At the start.
LEMMA ParseInvInit ==
    ASSUME Init
    PROVE  ParseInv
<1>1. argv = <<>> /\ parse = "options" /\ nsjconf = Defaults
  BY DEF Init, CmdlineInit
<1>2. Fields \subseteq DOMAIN nsjconf
  BY <1>1 DEF Fields, Defaults
<1>3. /\ nsjconf.mode = "ONCE" /\ nsjconf.rl = <<>> /\ nsjconf.mountpts = <<>>
      /\ nsjconf.chroot = NULL /\ nsjconf.cwd = <<>> /\ nsjconf.pivot_root_only = FALSE
      /\ nsjconf.clone_newns = TRUE /\ nsjconf.is_root_rw = FALSE
      /\ nsjconf.mount_proc = TRUE /\ nsjconf.tmpfs_size = 4 * MiB
      /\ nsjconf.user = NULL /\ nsjconf.group = NULL
      /\ nsjconf.inside_uid = 1 /\ nsjconf.outside_uid = 1
      /\ nsjconf.inside_gid = 1 /\ nsjconf.outside_gid = 1
  BY <1>1 DEF Defaults
<1>4. /\ <<>> \in Seq(Paths) /\ <<>> \in Paths /\ <<>> \in Seq(Texts)
      /\ <<>> \in Seq(Entries) /\ <<>> \in Seq(Options)
      /\ DOMAIN <<>> = {}
  BY DEF Paths
<1>5. 4 * MiB \in Nat /\ 1 \in Ids
  BY LimitAssumption DEF Ids
<1>6. FieldsOK(nsjconf)
  <2>1. \A f \in Fields : ValueOK(f, nsjconf[f])
    BY <1>3, <1>4, <1>5, Zenon DEF Fields, ValueOK, NULL, Mode
  <2> QED BY <1>2, <2>1 DEF FieldsOK
<1>7. MountOption = {}
  BY <1>1, <1>4 DEF MountOption
<1>8. PICK f : f = [i \in {} |-> 0]
  OBVIOUS
<1>9. Owners(f)
  BY <1>3, <1>4, <1>7, <1>8 DEF Owners
<1>10. LimitsOK
  BY <1>3, <1>4 DEF LimitsOK
<1> QED BY <1>1, <1>4, <1>6, <1>9, <1>10 DEF ParseInv

\* An option that has nothing to do with mounts or limits.
LEMMA PlainOption ==
    ASSUME ParseInv, NEW o \in Options, Take(o), o.c \notin {"R", "B", "T"},
           FieldsOK(nsjconf'), nsjconf'.mountpts = nsjconf.mountpts,
           nsjconf'.rl = nsjconf.rl,
           \/ parse' = "options" /\ o.c # "rlimit"
           \/ parse' \in {"exit0", "exit1"}
    PROVE  parse = "options" /\ ParseInv'
<1>1. argv \in Seq(Options)
  BY DEF ParseInv
<1>2. parse = "options" /\ argv' \in Seq(Options)
  BY <1>1, Taken
<1>3. PICK f : Owners(f)
  BY DEF ParseInv
<1>4. Owners(f)'
  BY <1>1, <1>3, OwnersKept
<1>5. parse' \in {"options", "parsed"} => LimitsOK'
  <2>1. LimitsOK
    BY <1>2 DEF ParseInv
  <2> QED BY <1>1, <2>1, LimitsKept
<1> QED BY <1>2, <1>4, <1>5 DEF ParseInv

\* One field is assigned, by one of the options that do no more.
LEMMA AssignOption ==
    ASSUME ParseInv, NEW o \in Options, Take(o), o.c \notin {"R", "B", "T", "rlimit"},
           NEW f, NEW v, Set(f, v), ValueOK(f, v), f \notin {"mountpts", "rl"},
           UNCHANGED parse
    PROVE  parse = "options" /\ ParseInv'
<1>0. FieldsOK(nsjconf)
  BY DEF ParseInv
<1>1. FieldsOK(nsjconf')
  BY <1>0, FieldSet, Zenon DEF Set
<1>2. nsjconf'.mountpts = nsjconf.mountpts /\ nsjconf'.rl = nsjconf.rl
  BY <1>0 DEF FieldsOK, Fields, Set
<1>3. parse = "options"
  BY DEF Take
<1> QED BY <1>1, <1>2, <1>3, PlainOption

\* Every option keeps the invariant.
LEMMA OptionStep ==
    ASSUME ParseInv, OneOption
    PROVE  parse = "options" /\ ParseInv'
<1>0. argv \in Seq(Options) /\ FieldsOK(nsjconf)
  BY DEF ParseInv
<1>o. PICK o \in Options :
        \/ SetField(o) \/ SetFlag(o) \/ SetPort(o) \/ SetMode(o) \/ SetLimit(o)
        \/ PassFd(o) \/ AddEnv(o) \/ AddMapping(o) \/ AddBind(o) \/ AddTmpfs(o)
        \/ Usage(o)
  BY DEF OneOption
<1>x. ASSUME Take(o), UNCHANGED nsjconf, parse' \in {"exit0", "exit1"},
             o.c \notin {"R", "B", "T"}
      PROVE  parse = "options" /\ ParseInv'
  BY <1>0, <1>x, PlainOption
<1>1. CASE SetField(o)
  <2>1. o.c = "set" /\ Take(o) /\ Set(o.field, o.value) /\ UNCHANGED parse
    BY <1>1 DEF SetField
  <2>2. ValueOK(o.field, o.value) /\ o.field \notin {"mountpts", "rl"}
    BY <2>1, OptionAssumption, SetValue
  <2> QED BY <2>1, <2>2, AssignOption
<1>2. CASE SetFlag(o) \/ PassFd(o) \/ AddEnv(o) \/ AddMapping(o)
  <2>1. PICK f, v : /\ Take(o) /\ Set(f, v) /\ UNCHANGED parse
                    /\ o.c \in {"flag", "pass_fd", "E", "uid_mappings", "gid_mappings"}
                    /\ f \in {"flags", "open_fds", "envs", "uid_mappings", "gid_mappings"}
    BY <1>2 DEF SetFlag, PassFd, AddEnv, AddMapping
  <2>2. ValueOK(f, v) /\ f \notin {"mountpts", "rl"}
    BY <2>1 DEF ValueOK
  <2> QED BY <2>1, <2>2, AssignOption
<1>3. CASE SetPort(o)
  <2>1. /\ o.c = "p" /\ Take(o) /\ UNCHANGED parse
        /\ nsjconf' = [nsjconf EXCEPT !.port = o.port, !.mode = "LISTEN_TCP"]
    BY <1>3 DEF SetPort
  <2> DEFINE c == [nsjconf EXCEPT !["port"] = o.port]
  <2>2. FieldsOK(c)
    <3>1. ValueOK("port", o.port)
      BY DEF ValueOK
    <3> QED BY <1>0, <3>1, FieldSet, Zenon
  <2>3. FieldsOK([c EXCEPT !["mode"] = "LISTEN_TCP"])
    <3>1. ValueOK("mode", "LISTEN_TCP")
      BY DEF ValueOK, Mode
    <3> HIDE DEF c
    <3> QED BY <2>2, <3>1, FieldSet
  <2>4. FieldsOK(nsjconf')
    BY <2>1, <2>3, Zenon
  <2>5. nsjconf'.mountpts = nsjconf.mountpts /\ nsjconf'.rl = nsjconf.rl
    BY <1>0, <2>1 DEF FieldsOK, Fields
  <2>6. parse = "options"
    BY <2>1 DEF Take
  <2> QED BY <2>1, <2>4, <2>5, <2>6, PlainOption
<1>4. CASE SetMode(o)
  <2>1. CASE o.mode \in Mode /\ Set("mode", o.mode) /\ UNCHANGED parse
    <3>1. ValueOK("mode", o.mode)
      BY <2>1 DEF ValueOK
    <3> QED BY <1>4, <2>1, <3>1, AssignOption DEF SetMode
  <2>2. CASE parse' = "exit0" /\ UNCHANGED nsjconf
    BY <1>4, <2>2, <1>x DEF SetMode
  <2> QED BY <1>4, <2>1, <2>2 DEF SetMode
<1>5. CASE SetLimit(o)
  <2>0. o.c = "rlimit" /\ Take(o)
    BY <1>5 DEF SetLimit
  <2>1. PICK errno : LET val == cmdlineParseRLimit(o.text, o.mul, errno)
                     IN  \/ /\ val # NULL
                            /\ Set("rl", WithLimit(nsjconf.rl, o.res, val[1]))
                            /\ UNCHANGED parse
                         \/ val = NULL /\ parse' = "exit1" /\ UNCHANGED nsjconf
    BY <1>5, Zenon DEF SetLimit
  <2> DEFINE val == cmdlineParseRLimit(o.text, o.mul, errno)
  <2>2. CASE val = NULL /\ parse' = "exit1" /\ UNCHANGED nsjconf
    BY <2>0, <2>2, <1>x
  <2>3. CASE /\ val # NULL /\ Set("rl", WithLimit(nsjconf.rl, o.res, val[1]))
             /\ UNCHANGED parse
    <3>1. o.text \in Texts /\ o.mul \in Nat \ {0}
      BY <2>0, OptionAssumption
    <3>2. PICK v : v = val[1]
      OBVIOUS
    <3>3. /\ v \in 0 .. LimMod - 1
          /\ o.text.kind = "number" /\ o.text.n * o.mul < LimMod => v = o.text.n * o.mul
      BY <3>1, <3>2, <2>3, LimitValue
    <3>4. Set("rl", WithLimit(nsjconf.rl, o.res, v))
      BY <2>3, <3>2
    <3>5. ValueOK("rl", WithLimit(nsjconf.rl, o.res, v))
      <4>1. \A r \in DOMAIN nsjconf.rl : nsjconf.rl[r] \in 0 .. LimMod - 1
        BY <1>0 DEF FieldsOK, Fields, ValueOK
      <4> QED BY <4>1, <3>3 DEF ValueOK, WithLimit
    <3>6. FieldsOK(nsjconf')
      BY <1>0, <3>4, <3>5, FieldSet, Zenon DEF Set
    <3>7. /\ nsjconf'.mountpts = nsjconf.mountpts
          /\ nsjconf'.rl = WithLimit(nsjconf.rl, o.res, v)
      BY <1>0, <3>4 DEF FieldsOK, Fields, Set
    <3>8. parse = "options" /\ argv' \in Seq(Options)
      BY <1>0, <2>0, Taken
    <3>9. LimitsOK
      BY <3>8 DEF ParseInv
    <3>10. LimitsOK'
      BY <1>0, <2>0, <3>3, <3>7, <3>9, LimitSet
    <3>11. PICK f : Owners(f)
      BY DEF ParseInv
    <3>12. Owners(f)'
      BY <1>0, <2>0, <3>7, <3>11, OwnersKept
    <3> QED BY <2>3, <3>6, <3>8, <3>10, <3>12 DEF ParseInv
  <2> QED BY <2>1, <2>2, <2>3
<1>6. CASE AddBind(o) \/ AddTmpfs(o)
  <2>1. /\ o.c \in {"R", "B", "T"} /\ Take(o) /\ UNCHANGED parse
        /\ Set("mountpts", Append(nsjconf.mountpts, EntryOf(o)))
    <3>1. CASE AddBind(o)
      <4>1. o.c \in {"R", "B"} /\ o.c # "T"
        BY <3>1, Zenon DEF AddBind
      <4> QED BY <3>1, <4>1, Zenon DEF AddBind, EntryOf
    <3>2. CASE AddTmpfs(o)
      BY <3>2, Zenon DEF AddTmpfs, EntryOf
    <3> QED BY <1>6, <3>1, <3>2
  <2>2. nsjconf.mountpts \in Seq(Entries)
    BY <1>0 DEF FieldsOK, Fields, ValueOK
  <2>3. Append(nsjconf.mountpts, EntryOf(o)) \in Seq(Entries)
    BY <2>1, <2>2, OptionEntry, AppendProperties
  <2>4. ValueOK("mountpts", Append(nsjconf.mountpts, EntryOf(o)))
    BY <2>3 DEF ValueOK
  <2>5. FieldsOK(nsjconf')
    BY <1>0, <2>1, <2>4, FieldSet, Zenon DEF Set
  <2>6. /\ nsjconf'.mountpts = Append(nsjconf.mountpts, EntryOf(o))
        /\ nsjconf'.rl = nsjconf.rl
    BY <1>0, <2>1 DEF FieldsOK, Fields, Set
  <2>7. parse = "options" /\ argv' \in Seq(Options)
    BY <1>0, <2>1, Taken
  <2>8. LimitsOK'
    BY <1>0, <2>1, <2>6, <2>7, LimitsKept DEF ParseInv
  <2>9. PICK f : Owners(f)
    BY DEF ParseInv
  <2>10. \E g : Owners(g)'
    BY <1>0, <2>1, <2>2, <2>6, <2>9, OwnersAdded
  <2> QED BY <2>1, <2>5, <2>7, <2>8, <2>10 DEF ParseInv
<1>7. CASE Usage(o)
  BY <1>7, <1>x DEF Usage
<1> QED BY <1>o, <1>1, <1>2, <1>3, <1>4, <1>5, <1>6, <1>7

\* The end of the options: / and /proc go to the head of the list, and the
\* ids that -u and -g name become those of the jail.
LEMMA EndStep ==
    ASSUME ParseInv, EndOfOptions
    PROVE  parse = "options" /\ ParseInv'
<1>0. parse = "options" /\ UNCHANGED argv /\ argv \in Seq(Options) /\ FieldsOK(nsjconf)
  BY DEF EndOfOptions, ParseInv
<1>1. LimitsOK
  BY <1>0 DEF ParseInv
<1>2. PICK f : Owners(f)
  BY DEF ParseInv
<1>3. CASE UNCHANGED nsjconf /\ parse' \in {"exit0", "exit1"}
  <2>1. Owners(f)'
    BY <1>0, <1>2, <1>3 DEF Owners, MountOption
  <2> QED BY <1>0, <1>3, <2>1 DEF ParseInv
<1>4. CASE /\ parse' = "parsed" /\ cmdlineParseUid(nsjconf) # NULL
           /\ cmdlineParseGid(nsjconf) # NULL
           /\ \E log : nsjconf' = [nsjconf EXCEPT
                          !.mountpts = AllMounts(nsjconf), !.logfile = log,
                          !.inside_uid = cmdlineParseUid(nsjconf)[1],
                          !.outside_uid = cmdlineParseUid(nsjconf)[2],
                          !.inside_gid = cmdlineParseGid(nsjconf)[1],
                          !.outside_gid = cmdlineParseGid(nsjconf)[2]]
  <2> DEFINE u1 == cmdlineParseUid(nsjconf)[1]
             u2 == cmdlineParseUid(nsjconf)[2]
             g1 == cmdlineParseGid(nsjconf)[1]
             g2 == cmdlineParseGid(nsjconf)[2]
             all == AllMounts(nsjconf)
  <2>1. PICK log : nsjconf' = [nsjconf EXCEPT !.mountpts = all, !.logfile = log,
                                 !.inside_uid = u1, !.outside_uid = u2,
                                 !.inside_gid = g1, !.outside_gid = g2]
    BY <1>4, Zenon
  <2>2. u1 \in Ids /\ u2 \in Ids /\ g1 \in Ids /\ g2 \in Ids
    <3>1. /\ nsjconf.user \in Seq(Texts) /\ nsjconf.group \in Seq(Texts)
          /\ nsjconf.inside_uid \in Ids /\ nsjconf.outside_uid \in Ids
          /\ nsjconf.inside_gid \in Ids /\ nsjconf.outside_gid \in Ids
      BY <1>0 DEF FieldsOK, Fields, ValueOK
    <3> QED BY <1>4, <3>1, IdsValue DEF cmdlineParseUid, cmdlineParseGid
  <2>3. all \in Seq(Entries)
    <3>1. nsjconf.mountpts \in Seq(Entries)
      BY <1>0 DEF FieldsOK, Fields, ValueOK
    <3>2. PICK r : r = <<RootMount(nsjconf)>>
      BY Zenon
    <3>3. r \in Seq(Entries)
      BY <1>0, <3>2, HeadEntries
    <3>4. r \o ProcMount(nsjconf) \in Seq(Entries)
      BY <1>0, <3>3, HeadEntries, ConcatProperties
    <3>5. all = (r \o ProcMount(nsjconf)) \o nsjconf.mountpts
      BY <3>2 DEF AllMounts
    <3> QED BY <3>1, <3>4, <3>5, ConcatProperties
  <2> HIDE DEF u1, u2, g1, g2, all
  <2>4. FieldsOK(nsjconf')
    <3>1. Fields \subseteq DOMAIN nsjconf'
      BY <1>0, <2>1 DEF FieldsOK
    <3>2. /\ nsjconf'.mountpts = all /\ nsjconf'.inside_uid = u1
          /\ nsjconf'.outside_uid = u2 /\ nsjconf'.inside_gid = g1
          /\ nsjconf'.outside_gid = g2
      BY <1>0, <2>1 DEF FieldsOK, Fields
    <3>3. \A g \in Fields : g \notin {"mountpts", "logfile", "inside_uid", "outside_uid",
                                     "inside_gid", "outside_gid"} => nsjconf'[g] = nsjconf[g]
      BY <1>0, <2>1, Zenon DEF FieldsOK
    <3>4. \A g \in Fields : ValueOK(g, nsjconf[g])
      BY <1>0 DEF FieldsOK
    <3>5. ASSUME NEW g \in Fields
          PROVE  ValueOK(g, nsjconf'[g])
      <4>1. CASE g \notin {"mountpts", "logfile", "inside_uid", "outside_uid",
                           "inside_gid", "outside_gid"}
        BY <3>3, <3>4, <4>1
      <4>2. CASE g = "mountpts"
        BY <2>3, <3>2, <4>2 DEF ValueOK
      <4>3. CASE g \in {"inside_uid", "outside_uid", "inside_gid", "outside_gid"}
        BY <2>2, <3>2, <4>3 DEF ValueOK
      <4>4. CASE g = "logfile"
        BY <4>4 DEF ValueOK
      <4> QED BY <4>1, <4>2, <4>3, <4>4
    <3> QED BY <3>1, <3>5 DEF FieldsOK
  <2>5. nsjconf'.mountpts = AllMounts(nsjconf) /\ nsjconf'.rl = nsjconf.rl
    BY <1>0, <2>1 DEF FieldsOK, Fields, all
  <2>6. \E g : Owners(g)'
    BY <1>0, <1>2, <2>5, OwnersShifted
  <2>7. LimitsOK'
    BY <1>0, <1>1, <2>5 DEF LimitsOK, Limits
  <2> QED BY <1>0, <1>4, <2>4, <2>6, <2>7 DEF ParseInv
<1>5. \/ UNCHANGED nsjconf /\ parse' \in {"exit0", "exit1"}
      \/ /\ parse' = "parsed" /\ cmdlineParseUid(nsjconf) # NULL
         /\ cmdlineParseGid(nsjconf) # NULL
         /\ \E log : nsjconf' = [nsjconf EXCEPT
                        !.mountpts = AllMounts(nsjconf), !.logfile = log,
                        !.inside_uid = cmdlineParseUid(nsjconf)[1],
                        !.outside_uid = cmdlineParseUid(nsjconf)[2],
                        !.inside_gid = cmdlineParseGid(nsjconf)[1],
                        !.outside_gid = cmdlineParseGid(nsjconf)[2]]
  BY Zenon DEF EndOfOptions
<1> QED BY <1>0, <1>3, <1>4, <1>5, Zenon

\* Nobody touches the configuration once the options are read.
LEMMA ParseStep ==
    ASSUME ParseInv, [Next]_vars
    PROVE  /\ ParseInv'
           /\ parse = "options" \/ UNCHANGED cmdlineVars
<1>1. CASE cmdlineParse
  BY <1>1, OptionStep, EndStep DEF cmdlineParse
<1>2. CASE UNCHANGED cmdlineVars
  <2>1. PICK f : Owners(f)
    BY DEF ParseInv
  <2>2. Owners(f)'
    BY <1>2, <2>1 DEF cmdlineVars, Owners, MountOption
  <2>3. LimitsOK => LimitsOK'
    BY <1>2 DEF cmdlineVars, LimitsOK, Limits
  <2> QED BY <1>2, <2>2, <2>3 DEF cmdlineVars, ParseInv
<1>3. cmdlineParse \/ UNCHANGED cmdlineVars
  BY DEF Next, vars, mountInitNs, Begin, CloneFails, mountInitNsInternal, HelperExits,
         HelperKilled, Return, ChrootOnly, PivotRoot, MountNext, LeaveOldRoot, RemountNext,
         Finished, CallFails, At
<1> QED BY <1>1, <1>2, <1>3 DEF cmdlineParse

\* Whatever the options and their order, the configuration stays in range
\* and the list of mounts follows the order of the options.
THEOREM Parsed == Spec => []ParseInv
  BY ParseInvInit, ParseStep, PTL DEF Spec

\* A limit that cmdlineParseRLimit accepts and that fits in 64 bits is the
\* product that the last option for its resource asks for, in bytes.
THEOREM Exact == Spec => []LimitExact
<1>1. ParseInv => LimitExact
  BY DEF ParseInv, LimitsOK, LimitExact
<1> QED BY Parsed, <1>1, PTL

-----------------------------------------------------------------------------
(* Paths.                                                                   *)

\* The prefixes of a path are the paths it starts with.
LEMMA PrefixDef ==
    ASSUME NEW p \in Paths, NEW q \in Paths
    PROVE  p \in Prefixes(q) <=> Len(p) <= Len(q) /\ \A i \in 1 .. Len(p) : p[i] = q[i]
<1>0. p \in Seq(Names) /\ q \in Seq(Names) /\ Len(p) \in Nat /\ Len(q) \in Nat
  BY LenProperties DEF Paths
<1>1. ASSUME NEW l \in 0 .. Len(q)
      PROVE  /\ SubSeq(q, 1, l) \in Seq(Names) /\ Len(SubSeq(q, 1, l)) = l
             /\ \A i \in 1 .. l : SubSeq(q, 1, l)[i] = q[i]
  <2>1. \A i \in 1 .. l : q[i] \in Names
    BY <1>0, ElementOfSeq
  <2>2. /\ SubSeq(q, 1, l) \in Seq(Names)
        /\ Len(SubSeq(q, 1, l)) = IF 1 <= l THEN l - 1 + 1 ELSE 0
        /\ \A i \in 1 .. l - 1 + 1 : SubSeq(q, 1, l)[i] = q[1 + i - 1]
    BY <2>1, SubSeqProperties
  <2>3. l - 1 + 1 = l /\ \A i \in 1 .. l : 1 + i - 1 = i
    OBVIOUS
  <2> QED BY <2>2, <2>3
<1>2. ASSUME p \in Prefixes(q)
      PROVE  Len(p) <= Len(q) /\ \A i \in 1 .. Len(p) : p[i] = q[i]
  <2>1. PICK l \in 0 .. Len(q) : p = SubSeq(q, 1, l)
    BY <1>2 DEF Prefixes
  <2> QED BY <2>1, <1>0, <1>1
<1>3. ASSUME Len(p) <= Len(q), \A i \in 1 .. Len(p) : p[i] = q[i]
      PROVE  p \in Prefixes(q)
  <2>1. Len(p) \in 0 .. Len(q)
    BY <1>0, <1>3
  <2>2. PICK s : s = SubSeq(q, 1, Len(p))
    BY Zenon
  <2>3. s \in Seq(Names) /\ Len(s) = Len(p) /\ \A i \in 1 .. Len(p) : s[i] = q[i]
    BY <1>1, <2>1, <2>2, Zenon
  <2>4. s = p
    BY <1>0, <1>3, <2>3, SeqEqual
  <2> QED BY <2>1, <2>2, <2>4, Zenon DEF Prefixes
<1> QED BY <1>2, <1>3

LEMMA PrefixesArePaths ==
    ASSUME NEW q \in Paths, NEW p \in Prefixes(q)
    PROVE  p \in Paths
<1>1. PICK l \in 0 .. Len(q) : p = SubSeq(q, 1, l)
  BY DEF Prefixes
<1>2. q \in Seq(Names) /\ Len(q) \in Nat
  BY LenProperties DEF Paths
<1>3. \A i \in 1 .. l : q[i] \in Names
  BY <1>2, ElementOfSeq
<1> QED BY <1>1, <1>3, SubSeqProperties DEF Paths

\* The order of prefixes.
LEMMA PrefixOrder ==
    ASSUME NEW p \in Paths, NEW q \in Paths, NEW r \in Paths
    PROVE  /\ q \in Prefixes(q) /\ <<>> \in Prefixes(q)
           /\ p \in Prefixes(q) /\ q \in Prefixes(r) => p \in Prefixes(r)
           /\ p \in Prefixes(q) /\ q \in Prefixes(p) => p = q
           /\ p \in Prefixes(<<>>) => p = <<>>
<1>0. p \in Seq(Names) /\ q \in Seq(Names) /\ r \in Seq(Names) /\ <<>> \in Paths
  BY DEF Paths
<1>1. Len(p) \in Nat /\ Len(q) \in Nat /\ Len(r) \in Nat /\ Len(<<>>) = 0
  BY <1>0, LenProperties
<1>2. q \in Prefixes(q) /\ <<>> \in Prefixes(q)
  BY <1>0, <1>1, PrefixDef
<1>3. ASSUME p \in Prefixes(q), q \in Prefixes(r)
      PROVE  p \in Prefixes(r)
  <2>1. Len(p) <= Len(q) /\ \A i \in 1 .. Len(p) : p[i] = q[i]
    BY <1>3, PrefixDef
  <2>2. Len(q) <= Len(r) /\ \A i \in 1 .. Len(q) : q[i] = r[i]
    BY <1>3, PrefixDef
  <2>3. Len(p) <= Len(r) /\ \A i \in 1 .. Len(p) : p[i] = r[i]
    BY <1>1, <2>1, <2>2
  <2> QED BY <2>3, PrefixDef
<1>4. ASSUME p \in Prefixes(q), q \in Prefixes(p)
      PROVE  p = q
  <2>1. Len(p) <= Len(q) /\ (\A i \in 1 .. Len(p) : p[i] = q[i]) /\ Len(q) <= Len(p)
    BY <1>4, PrefixDef
  <2>2. Len(p) = Len(q)
    BY <1>1, <2>1
  <2> QED BY <1>0, <2>1, <2>2, SeqEqual
<1>5. ASSUME p \in Prefixes(<<>>)
      PROVE  p = <<>>
  <2>1. Len(p) <= 0
    BY <1>0, <1>1, <1>5, PrefixDef
  <2> QED BY <1>0, <1>1, <2>1, EmptySeq
<1> QED BY <1>2, <1>3, <1>4, <1>5

\* A path is one of its prefixes and what is below that.
LEMMA BelowPrefix ==
    ASSUME NEW q \in Paths, NEW p \in Prefixes(q)
    PROVE  /\ Below(p, q) \in Paths /\ p \o Below(p, q) = q
           /\ Below(p, q) = <<>> <=> p = q
           /\ Len(Below(p, q)) = Len(q) - Len(p)
           /\ \A i \in 1 .. Len(q) - Len(p) : Below(p, q)[i] = q[Len(p) + i]
<1>0. p \in Paths
  BY PrefixesArePaths
<1>1. /\ p \in Seq(Names) /\ q \in Seq(Names) /\ Len(p) \in Nat /\ Len(q) \in Nat
      /\ Len(p) <= Len(q) /\ \A i \in 1 .. Len(p) : p[i] = q[i]
  BY <1>0, PrefixDef, LenProperties DEF Paths
<1>2. PICK b, m, n : b = Below(p, q) /\ m = Len(p) + 1 /\ n = Len(q)
  BY Zenon
<1>3. /\ b \in Seq(Names) /\ Len(b) = n - m + 1
      /\ \A i \in 1 .. n - m + 1 : b[i] = q[m + i - 1]
  <2>1. m \in Int /\ n \in Int /\ m <= n + 1 /\ \A i \in m .. n : q[i] \in Names
    BY <1>1, <1>2, ElementOfSeq
  <2>2. /\ SubSeq(q, m, n) \in Seq(Names)
        /\ Len(SubSeq(q, m, n)) = IF m <= n THEN n - m + 1 ELSE 0
        /\ \A i \in 1 .. n - m + 1 : SubSeq(q, m, n)[i] = q[m + i - 1]
    BY <2>1, SubSeqProperties
  <2>3. b = SubSeq(q, m, n)
    BY <1>2 DEF Below
  <2> QED BY <2>1, <2>2, <2>3
<1>4. Len(b) = Len(q) - Len(p) /\ \A i \in 1 .. Len(q) - Len(p) : b[i] = q[Len(p) + i]
  <2>1. n - m + 1 = Len(q) - Len(p) /\ \A i \in Nat : m + i - 1 = Len(p) + i
    BY <1>1, <1>2
  <2> QED BY <1>3, <2>1
<1>5. p \o b = q
  <2>1. PICK c : c = p \o b
    BY Zenon
  <2>2. /\ c \in Seq(Names) /\ Len(c) = Len(p) + Len(b)
        /\ \A i \in 1 .. Len(p) + Len(b) : c[i] = IF i <= Len(p) THEN p[i] ELSE b[i - Len(p)]
    BY <1>1, <1>3, <2>1, ConcatProperties, Zenon
  <2>3. Len(c) = Len(q)
    BY <1>1, <1>4, <2>2
  <2>4. \A i \in 1 .. Len(q) : c[i] = q[i]
    <3>1. ASSUME NEW i \in 1 .. Len(q)
          PROVE  c[i] = q[i]
      <4>1. CASE i <= Len(p)
        BY <1>1, <2>2, <2>3, <4>1
      <4>2. CASE ~(i <= Len(p))
        <5>1. i - Len(p) \in 1 .. Len(q) - Len(p) /\ Len(p) + (i - Len(p)) = i
          BY <1>1, <4>2
        <5>2. c[i] = b[i - Len(p)]
          BY <2>2, <2>3, <4>2
        <5> QED BY <1>4, <5>1, <5>2
      <4> QED BY <4>1, <4>2
    <3> QED BY <3>1
  <2> QED BY <1>1, <2>1, <2>2, <2>3, <2>4, SeqEqual, Zenon
<1>6. b = <<>> <=> p = q
  <2>1. b = <<>> => Len(b) = 0
    OBVIOUS
  <2>2. b # <<>> => Len(b) # 0
    BY <1>3, EmptySeq
  <2>3. Len(b) = 0 => p = q
    BY <1>1, <1>4, SeqEqual
  <2>4. p = q => Len(b) = 0
    BY <1>1, <1>4
  <2> QED BY <2>1, <2>2, <2>3, <2>4
<1> QED BY <1>2, <1>3, <1>4, <1>5, <1>6 DEF Paths

\* What is below a common prefix keeps the order.
LEMMA BelowOrder ==
    ASSUME NEW r \in Paths, NEW q \in Prefixes(r), NEW p \in Prefixes(q)
    PROVE  Below(p, q) \in Prefixes(Below(p, r))
<1>0. p \in Paths /\ q \in Paths
  BY PrefixesArePaths
<1>1. p \in Prefixes(r)
  BY <1>0, PrefixOrder
<1>2. /\ Len(q) <= Len(r) /\ (\A i \in 1 .. Len(q) : q[i] = r[i]) /\ Len(p) <= Len(q)
      /\ Len(p) \in Nat /\ Len(q) \in Nat /\ Len(r) \in Nat
  BY <1>0, PrefixDef, LenProperties DEF Paths
<1>3. PICK b, d : b = Below(p, q) /\ d = Below(p, r)
  OBVIOUS
<1>4. /\ b \in Paths /\ Len(b) = Len(q) - Len(p)
      /\ \A i \in 1 .. Len(q) - Len(p) : b[i] = q[Len(p) + i]
  BY <1>0, <1>3, BelowPrefix
<1>5. /\ d \in Paths /\ Len(d) = Len(r) - Len(p)
      /\ \A i \in 1 .. Len(r) - Len(p) : d[i] = r[Len(p) + i]
  BY <1>1, <1>3, BelowPrefix
<1>6. Len(b) <= Len(d) /\ \A i \in 1 .. Len(b) : b[i] = d[i]
  <2>1. \A i \in 1 .. Len(q) - Len(p) : Len(p) + i \in 1 .. Len(q) /\ i \in 1 .. Len(r) - Len(p)
    BY <1>2
  <2> QED BY <1>2, <1>4, <1>5, <2>1
<1> QED BY <1>3, <1>4, <1>5, <1>6, PrefixDef, Zenon

\* And the order below a prefix is the order of the paths.
LEMMA BelowReflects ==
    ASSUME NEW q \in Paths, NEW r \in Paths, NEW p \in Prefixes(q), p \in Prefixes(r),
           Below(p, q) \in Prefixes(Below(p, r))
    PROVE  q \in Prefixes(r)
<1>0. p \in Paths
  BY PrefixesArePaths
<1>1. /\ Len(p) <= Len(q) /\ (\A i \in 1 .. Len(p) : p[i] = q[i])
      /\ Len(p) <= Len(r) /\ (\A i \in 1 .. Len(p) : p[i] = r[i])
      /\ Len(p) \in Nat /\ Len(q) \in Nat /\ Len(r) \in Nat
  BY <1>0, PrefixDef, LenProperties DEF Paths
<1>2. PICK b, d : b = Below(p, q) /\ d = Below(p, r)
  OBVIOUS
<1>3. /\ b \in Paths /\ Len(b) = Len(q) - Len(p)
      /\ \A i \in 1 .. Len(q) - Len(p) : b[i] = q[Len(p) + i]
  BY <1>2, BelowPrefix
<1>4. /\ d \in Paths /\ Len(d) = Len(r) - Len(p)
      /\ \A i \in 1 .. Len(r) - Len(p) : d[i] = r[Len(p) + i]
  BY <1>2, BelowPrefix
<1>5. Len(b) <= Len(d) /\ \A i \in 1 .. Len(b) : b[i] = d[i]
  BY <1>2, <1>3, <1>4, PrefixDef
<1>6. Len(q) <= Len(r)
  BY <1>1, <1>3, <1>4, <1>5
<1>7. ASSUME NEW i \in 1 .. Len(q)
      PROVE  q[i] = r[i]
  <2>1. CASE i <= Len(p)
    BY <1>1, <2>1
  <2>2. CASE ~(i <= Len(p))
    <3>1. PICK k : k = i - Len(p)
      OBVIOUS
    <3>2. k \in 1 .. Len(q) - Len(p) /\ k \in 1 .. Len(r) - Len(p) /\ Len(p) + k = i
      BY <1>1, <1>6, <2>2, <3>1
    <3> QED BY <1>3, <1>4, <1>5, <3>2, Zenon
  <2> QED BY <2>1, <2>2
<1> QED BY <1>6, <1>7, PrefixDef

-----------------------------------------------------------------------------
(* The mount table.                                                         *)

Mnts == [at : Paths, fs : [src : Paths, n : Nat], ro : BOOLEAN, size : Nat, entry : Nat]

FsOf(e, n) == IF e.src = NULL THEN NewFs(n) ELSE BindFs(e.src[1])
SizeOf(e) == IF e.options = "cmdlineTmpfsSz" THEN nsjconf.tmpfs_size ELSE 0

\* Mount i is what its entry of the list says.
MadeFrom(i) ==
    LET m == mnt[i]
        e == nsjconf.mountpts[m.entry]
    IN  /\ m.entry \in DOMAIN nsjconf.mountpts /\ m.at = e.dst
        /\ m.fs = FsOf(e, m.entry) /\ m.size = SizeOf(e)
        /\ e.src # NULL => e.src[1] \in DOMAIN Host

\* i is the youngest mount on a prefix of p.
TopIs(p, i) ==
    /\ i \in DOMAIN mnt /\ mnt[i].at \in Prefixes(p)
    /\ \A j \in DOMAIN mnt : mnt[j].at \in Prefixes(p) => j <= i

\* The oldest mount is the tmpfs the root pivots to; the others were made
\* from the entries of the list, in their order.  A path always leads somewhere.
TableOK ==
    /\ mnt \in Seq(Mnts) /\ 1 \in DOMAIN mnt
    /\ mnt[1].at = <<>> /\ mnt[1].entry = 0 /\ mnt[1].fs = BaseFs
    /\ \A i \in DOMAIN mnt \ {1} : MadeFrom(i)
    /\ \A i, j \in DOMAIN mnt : i < j => mnt[i].entry < mnt[j].entry
    /\ \A p \in Paths : \E i : TopIs(p, i)

\* Every path leads to one mount only.
LEMMA TopUnique ==
    ASSUME TableOK, NEW p \in Paths
    PROVE  /\ TopIs(p, Top(p))
           /\ \A i : TopIs(p, i) => i = Top(p)
<1>0. mnt \in Seq(Mnts) /\ Len(mnt) \in Nat /\ DOMAIN mnt = 1 .. Len(mnt)
  BY LenProperties DEF TableOK
<1>4. PICK i : TopIs(p, i)
  BY DEF TableOK
<1>5. TopIs(p, Top(p))
  <2>1. \E k \in DOMAIN mnt : /\ mnt[k].at \in Prefixes(p)
                              /\ \A j \in DOMAIN mnt : mnt[j].at \in Prefixes(p) => j <= k
    BY <1>4 DEF TopIs
  <2> QED BY <2>1, Zenon DEF Top, TopIs
<1>6. ASSUME NEW k, TopIs(p, k)
      PROVE  k = Top(p)
  <2>1. k \in Nat /\ Top(p) \in Nat
    BY <1>0, <1>5, <1>6 DEF TopIs
  <2>2. k <= Top(p) /\ Top(p) <= k
    BY <1>5, <1>6 DEF TopIs
  <2> QED BY <2>1, <2>2
<1> QED BY <1>5, <1>6

\* What a mount is made of.
LEMMA TableTypes ==
    ASSUME TableOK, NEW i \in DOMAIN mnt
    PROVE  /\ mnt[i].at \in Paths /\ mnt[i].entry \in Nat /\ mnt[i].ro \in BOOLEAN
           /\ mnt[i].fs \in [src : Paths, n : Nat]
           /\ {"at", "fs", "ro", "size", "entry"} = DOMAIN mnt[i]
           /\ i \in Nat \ {0} /\ DOMAIN mnt = 1 .. Len(mnt) /\ Len(mnt) \in Nat
           /\ mnt[i].entry = 0 <=> i = 1
<1>1. mnt \in Seq(Mnts) /\ DOMAIN mnt = 1 .. Len(mnt) /\ Len(mnt) \in Nat
  BY LenProperties DEF TableOK
<1>2. mnt[i] \in Mnts
  BY <1>1, ElementOfSeq
<1>3. i # 1 => mnt[i].entry > mnt[1].entry
  BY <1>1 DEF TableOK
<1>4. mnt[1].entry = 0
  BY DEF TableOK
<1>5. mnt[i].entry = 0 <=> i = 1
  <2>1. mnt[i].entry \in Nat
    BY <1>2 DEF Mnts
  <2> QED BY <1>3, <1>4, <2>1
<1>6. i \in Nat \ {0}
  BY <1>1
<1> QED BY <1>1, <1>2, <1>5, <1>6 DEF Mnts

\* A table with the same mount points leads every path the same way.
LEMMA TopSame ==
    ASSUME TableOK, TableOK', DOMAIN mnt' = DOMAIN mnt,
           \A i \in DOMAIN mnt : mnt'[i].at = mnt[i].at, NEW p \in Paths
    PROVE  Top(p)' = Top(p)
<1>1. TopIs(p, Top(p))
  BY TopUnique
<1>2. TopIs(p, Top(p)')
  <2>1. TopIs(p, Top(p))'
    BY TopUnique, PTL
  <2> QED BY <2>1 DEF TopIs
<1> QED BY <1>1, <1>2, TopUnique

-----------------------------------------------------------------------------
(* How far mountInitNs is.                                                  *)

\* Entry i of the list was mounted, or needs no mount.
Mounted(i) ==
    \/ \E j \in DOMAIN mnt : mnt[j].entry = i
    \/ nsjconf.pivot_root_only /\ nsjconf.mountpts[i].dst = <<>>

AllMounted == \A i \in DOMAIN nsjconf.mountpts : Mounted(i)

\* Where mountInitNsInternal is says what it has done.
Progress ==
    /\ mpc \in {"start", "begin"} => next = 1 /\ ~oldroot /\ DOMAIN mnt = {1}
    /\ mpc \in {"start", "begin", "mount"} => \A j \in DOMAIN mnt : ~mnt[j].ro
    /\ mpc = "mount" => /\ \A i \in 1 .. next - 1 : Mounted(i)
                        /\ \A j \in DOMAIN mnt : mnt[j].entry < next
    /\ mpc = "remount" => ~oldroot /\ root = "jail" /\ AllMounted
    /\ mpc = "ok" => ~oldroot /\ root # "host" /\ (nsjconf.clone_newns => AllMounted)

\* Success is only reported for a run that came to its end, by a helper that
\* did not get there for other reasons.
Reported ==
    /\ mpc \in {"start", "begin", "mount", "remount", "ok", "fail"}
    /\ helper \in {"none", "running", "exit0", "exit1", "killed"}
    /\ ret \in {"none", "true", "false"}
    /\ mpc # "start" => parse # "options"
    /\ mpc = "start" => ret = "none" /\ helper = "none"
    /\ ret # "none" => helper # "running" /\ mpc \in {"ok", "fail"}
    /\ helper \in {"exit0", "exit1", "killed"} => mpc \in {"ok", "fail"}
    /\ helper = "exit0" => mpc = "ok"
    /\ ret = "true" => mpc = "ok"

MountInv ==
    /\ ParseInv
    /\ next \in 1 .. Len(nsjconf.mountpts) + 1
    /\ TableOK /\ Progress /\ Reported

\* The list is a list of entries.
LEMMA ListTypes ==
    ASSUME ParseInv
    PROVE  /\ nsjconf.mountpts \in Seq(Entries) /\ Len(nsjconf.mountpts) \in Nat
           /\ DOMAIN nsjconf.mountpts = 1 .. Len(nsjconf.mountpts)
           /\ \A i \in DOMAIN nsjconf.mountpts :
                nsjconf.mountpts[i] \in Entries /\ nsjconf.mountpts[i].dst \in Paths
           /\ nsjconf.tmpfs_size \in Nat
<1>1. nsjconf.mountpts \in Seq(Entries) /\ nsjconf.tmpfs_size \in Nat
  BY DEF ParseInv, FieldsOK, Fields, ValueOK
<1>2. \A i \in DOMAIN nsjconf.mountpts : nsjconf.mountpts[i] \in Entries
  BY <1>1, LenProperties, ElementOfSeq
<1>3. ASSUME NEW e \in Entries
      PROVE  e.dst \in Paths
  BY Zenon DEF Entries
<1> QED BY <1>1, <1>2, <1>3, LenProperties

\* The loop over the list is behind all its entries when it ends.
LEMMA LoopComplete ==
    ASSUME MountInv, mpc = "mount", next > Len(nsjconf.mountpts)
    PROVE  AllMounted
<1>1. DOMAIN nsjconf.mountpts = 1 .. Len(nsjconf.mountpts) /\ Len(nsjconf.mountpts) \in Nat
  BY ListTypes DEF MountInv
<1>2. \A i \in 1 .. next - 1 : Mounted(i)
  BY DEF MountInv, Progress
<1>3. \A i \in DOMAIN nsjconf.mountpts : i \in 1 .. next - 1
  BY <1>1 DEF MountInv
<1> QED BY <1>2, <1>3 DEF AllMounted

\* The table with one more mount.
LEMMA Pushed ==
    ASSUME NEW t \in Seq(Mnts), NEW m \in Mnts, NEW u, u = Append(t, m)
    PROVE  /\ u \in Seq(Mnts) /\ Len(u) = Len(t) + 1
           /\ \A i \in 1 .. Len(t) : u[i] = t[i]
           /\ u[Len(t) + 1] = m
  BY AppendProperties, Zenon

\* One more mount takes none away, and goes on top of the others.
LEMMA MountAdded ==
    ASSUME TableOK, NEW m \in Mnts, mnt' = Append(mnt, m), UNCHANGED nsjconf,
           NEW n, m.entry = n, n \in DOMAIN nsjconf.mountpts,
           \A j \in DOMAIN mnt : mnt[j].entry < n,
           m.at = nsjconf.mountpts[n].dst, m.fs = FsOf(nsjconf.mountpts[n], n),
           m.size = SizeOf(nsjconf.mountpts[n]),
           nsjconf.mountpts[n].src # NULL => nsjconf.mountpts[n].src[1] \in DOMAIN Host
    PROVE  /\ TableOK'
           /\ DOMAIN mnt' = DOMAIN mnt \cup {Len(mnt) + 1}
           /\ \A j \in DOMAIN mnt : mnt'[j] = mnt[j]
           /\ mnt'[Len(mnt) + 1] = m
           /\ \A i : Mounted(i) => Mounted(i)'
           /\ Mounted(n)'
<1>1. mnt \in Seq(Mnts) /\ Len(mnt) \in Nat /\ DOMAIN mnt = 1 .. Len(mnt)
  BY LenProperties DEF TableOK
<1>2. /\ mnt' \in Seq(Mnts) /\ Len(mnt') = Len(mnt) + 1
      /\ \A i \in 1 .. Len(mnt) : mnt'[i] = mnt[i]
      /\ mnt'[Len(mnt) + 1] = m
  BY <1>1, Pushed, Zenon
<1>3. DOMAIN mnt' = DOMAIN mnt \cup {Len(mnt) + 1}
  <2>1. DOMAIN mnt' = 1 .. Len(mnt')
    BY <1>2, LenProperties, Zenon
  <2>2. 1 .. Len(mnt) + 1 = 1 .. Len(mnt) \cup {Len(mnt) + 1}
    BY <1>1
  <2> QED BY <1>1, <1>2, <2>1, <2>2, Zenon
<1>4. \A j \in DOMAIN mnt : j \in DOMAIN mnt' /\ mnt'[j] = mnt[j]
  BY <1>1, <1>2, <1>3, Zenon
<1>5. TableOK'
  <2>1. 1 \in DOMAIN mnt' /\ mnt'[1].at = <<>> /\ mnt'[1].entry = 0 /\ mnt'[1].fs = BaseFs
    BY <1>4 DEF TableOK
  <2>2. ASSUME NEW i \in DOMAIN mnt' \ {1}
        PROVE  MadeFrom(i)'
    <3>1. CASE i \in DOMAIN mnt
      <4>1. MadeFrom(i) /\ mnt'[i] = mnt[i]
        BY <1>4, <2>2, <3>1 DEF TableOK
      <4> QED BY <4>1 DEF MadeFrom, SizeOf
    <3>2. CASE i = Len(mnt) + 1
      <4>1. mnt'[i] = m
        BY <1>2, <3>2
      <4> QED BY <4>1 DEF MadeFrom, SizeOf
    <3> QED BY <1>3, <2>2, <3>1, <3>2
  <2>3. \A i, j \in DOMAIN mnt' : i < j => mnt'[i].entry < mnt'[j].entry
    <3>1. \A i, j \in DOMAIN mnt : i < j => mnt[i].entry < mnt[j].entry
      BY DEF TableOK
    <3>2. \A i, j \in DOMAIN mnt' : i < j => i \in DOMAIN mnt
      BY <1>1, <1>3
    <3> QED BY <1>2, <1>3, <1>4, <3>1, <3>2
  <2>4. ASSUME NEW p \in Paths
        PROVE  \E i : TopIs(p, i)'
    <3>1. PICK i : TopIs(p, i)
      BY DEF TableOK
    <3>3. CASE m.at \in Prefixes(p)
      <4>1. \A j \in DOMAIN mnt' : j <= Len(mnt) + 1
        BY <1>1, <1>3
      <4>2. PICK l : l = Len(mnt) + 1
        OBVIOUS
      <4>3. TopIs(p, l)'
        BY <1>2, <1>3, <3>3, <4>1, <4>2 DEF TopIs
      <4> QED BY <4>3
    <3>4. CASE m.at \notin Prefixes(p)
      <4>1. TopIs(p, i)'
        BY <1>2, <1>3, <1>4, <3>1, <3>4 DEF TopIs
      <4> QED BY <4>1
    <3> QED BY <3>3, <3>4
  <2> QED BY <1>2, <2>1, <2>2, <2>3, <2>4 DEF TableOK
<1>6. \A i : Mounted(i) => Mounted(i)'
  BY <1>4 DEF Mounted
<1>7. \E j \in DOMAIN mnt' : mnt'[j].entry = n
  BY <1>2, <1>3
<1>8. Mounted(n)'
  BY <1>7 DEF Mounted
<1> QED BY <1>2, <1>3, <1>4, <1>5, <1>6, <1>8

\* What mountRemountRO makes of the table: a mount that has its root at the
\* path becomes read-only, and nothing else changes.
LEMMA RemountCases ==
    ASSUME NEW e, mountRemountRO(e) # NULL
    PROVE  \/ ~e.ro /\ mountRemountRO(e) = mnt
           \/ /\ e.ro /\ mnt[Top(e.dst)].at = e.dst
              /\ mountRemountRO(e) = [mnt EXCEPT ![Top(e.dst)].ro = TRUE]
<1> DEFINE t == Top(e.dst)
           m == [mnt EXCEPT ![t].ro = TRUE]
<1>1. CASE ~Exists(e.dst)
  BY <1>1, Zenon DEF mountRemountRO
<1>2. CASE Exists(e.dst) /\ ~e.ro
  BY <1>2, Zenon DEF mountRemountRO
<1>3. CASE ~(~Exists(e.dst)) /\ ~(Exists(e.dst) /\ ~e.ro)
  <2>1. mountRemountRO(e) = IF mnt[t].at = e.dst THEN m ELSE NULL
    BY <1>3, Zenon DEF mountRemountRO
  <2>2. mnt[t].at = e.dst /\ mountRemountRO(e) = m
    BY <2>1, Zenon
  <2> QED BY <1>3, <2>2, Zenon
<1> QED BY <1>1, <1>2, <1>3, Zenon

LEMMA Remounted ==
    ASSUME TableOK, NEW t \in DOMAIN mnt, mnt' = [mnt EXCEPT ![t].ro = TRUE],
           UNCHANGED nsjconf
    PROVE  /\ TableOK' /\ DOMAIN mnt' = DOMAIN mnt
           /\ \A j \in DOMAIN mnt : mnt'[j].at = mnt[j].at /\ mnt'[j].fs = mnt[j].fs
           /\ \A j \in DOMAIN mnt : j # t => mnt'[j] = mnt[j]
           /\ mnt'[t].ro = TRUE
           /\ \A i : Mounted(i) => Mounted(i)'
<1>1. PICK m : m = [mnt[t] EXCEPT !.ro = TRUE]
  OBVIOUS
<1>2. mnt' = [mnt EXCEPT ![t] = m] /\ mnt \in Seq(Mnts) /\ t \in 1 .. Len(mnt)
  BY <1>1, TableTypes DEF TableOK
<1>3. mnt[t] \in Mnts
  BY <1>2, ElementOfSeq
<1>4. m \in Mnts /\ m.ro = TRUE /\ m.at = mnt[t].at /\ m.fs = mnt[t].fs
      /\ m.size = mnt[t].size /\ m.entry = mnt[t].entry
  BY <1>1, <1>3, Zenon DEF Mnts
<1>5. mnt' \in Seq(Mnts)
  <2>1. [mnt EXCEPT ![t] = m] \in Seq(Mnts)
    BY <1>2, <1>4, ExceptSeq
  <2> QED BY <1>2, <2>1, Zenon
<1>6. DOMAIN mnt' = DOMAIN mnt /\ mnt'[t] = m /\ \A j \in DOMAIN mnt : j # t => mnt'[j] = mnt[j]
  BY <1>2
<1>7. \A j \in DOMAIN mnt : /\ mnt'[j].at = mnt[j].at /\ mnt'[j].fs = mnt[j].fs
                            /\ mnt'[j].size = mnt[j].size /\ mnt'[j].entry = mnt[j].entry
  BY <1>4, <1>6
<1>8. TableOK'
  <2>1. 1 \in DOMAIN mnt' /\ mnt'[1].at = <<>> /\ mnt'[1].entry = 0 /\ mnt'[1].fs = BaseFs
    BY <1>6, <1>7 DEF TableOK
  <2>2. \A i \in DOMAIN mnt' \ {1} : MadeFrom(i)'
    <3>1. \A i \in DOMAIN mnt \ {1} : MadeFrom(i)
      BY DEF TableOK
    <3> QED BY <1>6, <1>7, <3>1 DEF MadeFrom, SizeOf
  <2>3. \A i, j \in DOMAIN mnt' : i < j => mnt'[i].entry < mnt'[j].entry
    BY <1>6, <1>7 DEF TableOK
  <2>4. \A p \in Paths : \E i : TopIs(p, i)'
    <3>1. \A p \in Paths : \A i : TopIs(p, i) => TopIs(p, i)'
      BY <1>6, <1>7 DEF TopIs
    <3> QED BY <3>1 DEF TableOK
  <2> QED BY <1>5, <2>1, <2>2, <2>3, <2>4 DEF TableOK
<1>9. \A i : Mounted(i) => Mounted(i)'
  BY <1>6, <1>7 DEF Mounted
<1> QED BY <1>4, <1>6, <1>7, <1>8, <1>9

\* The two ways mountMount can go.
LEMMA MountCases ==
    ASSUME NEW e, mountMount(e)
    PROVE  \/ /\ Fail /\ (nodes' = nodes \/ nodes' = MountPoint(e))
              /\ \/ SourceKind(e) = "missing"
                 \/ CannotCreateParents(e.dst)
                 \/ Node(e.dst, SourceKind(e)) \notin MountPoint(e)
           \/ /\ SourceKind(e) # "missing"
              /\ mnt' = Append(mnt, [at |-> e.dst, fs |-> FsOf(e, next), entry |-> next,
                                     ro |-> FALSE, size |-> SizeOf(e)])
              /\ nodes' = IF e.src = NULL THEN MountPoint(e) \cup {<<FsOf(e, next), <<>>, "dir">>}
                          ELSE MountPoint(e)
              /\ next' = next + 1 /\ UNCHANGED <<mpc, oldroot, root>>
<1> DEFINE bad == \/ SourceKind(e) = "missing" \/ CannotCreateParents(e.dst)
                  \/ Node(e.dst, SourceKind(e)) \notin MountPoint(e)
<1>1. CASE bad
  BY <1>1, Zenon DEF mountMount
<1>2. CASE ~bad
  BY <1>2, Zenon DEF mountMount, FsOf, SizeOf, FlagsWithoutRdonly
<1> QED BY <1>1, <1>2, Zenon

\* The mount an entry makes.
LEMMA NewMount ==
    ASSUME ParseInv, NEW n \in DOMAIN nsjconf.mountpts, NEW m,
           m = [at |-> nsjconf.mountpts[n].dst, fs |-> FsOf(nsjconf.mountpts[n], n), entry |-> n,
                ro |-> FALSE, size |-> SizeOf(nsjconf.mountpts[n])]
    PROVE  /\ m \in Mnts /\ m.entry = n /\ m.ro = FALSE /\ m.at = nsjconf.mountpts[n].dst
           /\ m.fs = FsOf(nsjconf.mountpts[n], n) /\ m.size = SizeOf(nsjconf.mountpts[n])
<1> PICK e : e = nsjconf.mountpts[n]
  OBVIOUS
<1>1. e \in Entries /\ n \in Nat /\ nsjconf.tmpfs_size \in Nat
  BY ListTypes
<1>2. e.src \in Seq(Paths) /\ e.dst \in Paths
  BY <1>1, ZenonT(40) DEF Entries
<1>3. e.src # NULL => e.src[1] \in Paths
  BY <1>2, EmptySeq, ElementOfSeq, LenProperties DEF NULL
<1>4. FsOf(e, n) \in [src : Paths, n : Nat]
  <2>1. NewFs(n) \in [src : Paths, n : Nat]
    BY <1>1 DEF NewFs, Paths
  <2>2. e.src # NULL => BindFs(e.src[1]) \in [src : Paths, n : Nat]
    BY <1>3 DEF BindFs
  <2> QED BY <2>1, <2>2 DEF FsOf
<1>5. SizeOf(e) \in Nat
  BY <1>1 DEF SizeOf
<1>6. PICK f, z : f = FsOf(e, n) /\ z = SizeOf(e)
  OBVIOUS
<1>7. m = [at |-> e.dst, fs |-> f, entry |-> n, ro |-> FALSE, size |-> z]
  BY <1>6
<1> QED BY <1>1, <1>2, <1>4, <1>5, <1>6, <1>7 DEF Mnts

\* At the start nothing is mounted and nothing was reported.
LEMMA MountInvInit ==
    ASSUME Init
    PROVE  MountInv
<1>1. ParseInv
  BY ParseInvInit
<1>2. nsjconf.mountpts = <<>>
  BY DEF Init, CmdlineInit, Defaults
<1> DEFINE base == [at |-> <<>>, fs |-> BaseFs, ro |-> FALSE, size |-> 0, entry |-> 0]
<1>3. /\ base \in Mnts /\ base.at = <<>> /\ base.entry = 0 /\ base.fs = BaseFs /\ ~base.ro
  BY DEF Mnts, BaseFs, NewFs, Paths
<1>4. mpc = "start" /\ next = 1 /\ oldroot = FALSE /\ helper = "none" /\ ret = "none"
  BY Zenon DEF Init, MountInit
<1>5. mnt = <<base>>
  BY Zenon DEF Init, MountInit
<1> HIDE DEF base
<1>6. mnt \in Seq(Mnts) /\ DOMAIN mnt = {1} /\ mnt[1] = base
  BY <1>3, <1>5
<1>7. TableOK
  <2>1. \A p \in Paths : TopIs(p, 1)
    BY <1>3, <1>6, PrefixOrder DEF TopIs
  <2> QED BY <1>3, <1>6, <2>1 DEF TableOK
<1>8. Progress
  BY <1>3, <1>4, <1>6 DEF Progress
<1>9. Reported
  BY <1>4 DEF Reported
<1>10. next \in 1 .. Len(nsjconf.mountpts) + 1
  BY <1>2, <1>4
<1> QED BY <1>1, <1>7, <1>8, <1>9, <1>10 DEF MountInv

\* The same table under the same list.
LEMMA TableKept ==
    ASSUME UNCHANGED <<mnt, nsjconf>>
    PROVE  /\ (TableOK => TableOK') /\ (AllMounted => AllMounted')
           /\ \A i : Mounted(i) => Mounted(i)'
<1>1. TableOK => TableOK'
  BY DEF TableOK, MadeFrom, SizeOf, TopIs
<1> QED BY <1>1 DEF AllMounted, Mounted

\* The loop over the list, one mount.
LEMMA MountNextStep ==
    ASSUME MountInv, ParseInv', MountNext
    PROVE  MountInv'
<1> USE DEF At
<1>c. UNCHANGED <<parse, nsjconf>> /\ mpc = "mount" /\ ret = "none" /\ UNCHANGED <<ret, helper>>
  BY DEF MountNext, cmdlineVars
<1> PICK n : n = next
  OBVIOUS
<1> DEFINE e == nsjconf.mountpts[n]
<1>l. Len(nsjconf.mountpts) \in Nat /\ DOMAIN nsjconf.mountpts = 1 .. Len(nsjconf.mountpts)
  BY ListTypes DEF MountInv
<1>n. n \in Nat \ {0} /\ n <= Len(nsjconf.mountpts) /\ n \in DOMAIN nsjconf.mountpts
  BY <1>l DEF MountInv, MountNext
<1>i. /\ TableOK /\ (\A i \in 1 .. n - 1 : Mounted(i)) /\ (\A j \in DOMAIN mnt : ~mnt[j].ro)
      /\ \A j \in DOMAIN mnt : mnt[j].entry < n
  BY <1>c DEF MountInv, Progress
<1>r. ASSUME mpc' \in {"mount", "fail"}
      PROVE  Reported'
  BY <1>r, <1>c DEF MountInv, Reported
<1>f. ASSUME Fail
      PROVE  MountInv'
  <2>1. TableOK'
    BY <1>f, <1>c, <1>i, TableKept DEF Fail
  <2>2. Progress'
    BY <1>f DEF Fail, Progress
  <2>3. next' \in 1 .. Len(nsjconf'.mountpts) + 1
    BY <1>f, <1>c DEF Fail, MountInv
  <2> QED BY <2>1, <2>2, <2>3, <1>f, <1>r DEF MountInv, Fail
<1>a. ASSUME next' = n + 1, mpc' = mpc, \A i : Mounted(i) => Mounted(i)', Mounted(n)', TableOK',
             \A j \in DOMAIN mnt' : ~mnt'[j].ro,
             \A j \in DOMAIN mnt' : mnt'[j].entry < n + 1
      PROVE  MountInv'
  <2>1. \A i \in 1 .. next' - 1 : Mounted(i)'
    <3>1. \A i \in 1 .. (n + 1) - 1 : i \in 1 .. n - 1 \/ i = n
      BY <1>n
    <3> QED BY <3>1, <1>a, <1>i
  <2>2. Progress'
    BY <2>1, <1>a, <1>c DEF Progress
  <2>3. next' \in 1 .. Len(nsjconf'.mountpts) + 1
    BY <1>a, <1>c, <1>n, <1>l
  <2> QED BY <2>2, <2>3, <1>a, <1>c, <1>r DEF MountInv
<1>1. CASE nsjconf.pivot_root_only /\ e.dst = <<>>
  <2>1. next' = n + 1 /\ UNCHANGED <<mpc, mnt>>
    BY <1>1 DEF MountNext
  <2>2. Mounted(n)' /\ \A i : Mounted(i) => Mounted(i)'
    BY <1>1, <1>c, <2>1 DEF Mounted
  <2>3. TableOK'
    BY <2>1, <1>c, <1>i, TableKept
  <2>4. \A j \in DOMAIN mnt : mnt[j].entry < n + 1
    BY <1>n, <1>i, TableTypes
  <2> QED BY <1>a, <1>i, <2>1, <2>2, <2>3, <2>4
<1>2. CASE ~(nsjconf.pivot_root_only /\ e.dst = <<>>)
  <2>1. mountMount(e)
    BY <1>2 DEF MountNext
  <2>2. PICK m : m = [at |-> e.dst, fs |-> FsOf(e, n), entry |-> n, ro |-> FALSE, size |-> SizeOf(e)]
    BY Zenon
  <2>3. \/ Fail
        \/ /\ SourceKind(e) # "missing" /\ mnt' = Append(mnt, m)
           /\ next' = n + 1 /\ mpc' = mpc
    <3> HIDE DEF e
    <3> QED BY <2>1, <2>2, MountCases, Zenon
  <2>4. CASE SourceKind(e) # "missing" /\ mnt' = Append(mnt, m) /\ next' = n + 1 /\ mpc' = mpc
    <3>1. /\ m \in Mnts /\ m.entry = n /\ m.ro = FALSE /\ m.at = e.dst
          /\ m.fs = FsOf(e, n) /\ m.size = SizeOf(e)
      BY <1>n, <2>2, NewMount, ZenonT(40) DEF MountInv
    <3>2. e.src # NULL => e.src[1] \in DOMAIN Host
      BY <2>4 DEF SourceKind
    <3>3. /\ TableOK'
          /\ DOMAIN mnt' = DOMAIN mnt \cup {Len(mnt) + 1}
          /\ \A j \in DOMAIN mnt : mnt'[j] = mnt[j]
          /\ mnt'[Len(mnt) + 1] = m
          /\ \A i : Mounted(i) => Mounted(i)'
          /\ Mounted(n)'
      BY <1>i, <1>c, <1>n, <2>4, <3>1, <3>2, MountAdded
    <3>4. \A j \in DOMAIN mnt' : ~mnt'[j].ro
      BY <1>i, <3>1, <3>3
    <3>5. \A j \in DOMAIN mnt : mnt[j].entry < n + 1
      BY <1>n, <1>i, TableTypes
    <3>6. m.entry < n + 1
      BY <3>1, <1>n
    <3>7. \A j \in DOMAIN mnt' : mnt'[j].entry < n + 1
      BY <3>3, <3>5, <3>6
    <3> QED BY <1>a, <2>4, <3>3, <3>4, <3>7
  <2> QED BY <1>f, <2>3, <2>4
<1> QED BY <1>1, <1>2

\* The loop over the list, one remount.
LEMMA RemountNextStep ==
    ASSUME MountInv, ParseInv', RemountNext
    PROVE  /\ MountInv'
           /\ DOMAIN mnt' = DOMAIN mnt
           /\ \A j \in DOMAIN mnt : mnt'[j].at = mnt[j].at /\ mnt'[j].fs = mnt[j].fs
<1> USE DEF At
<1>c. UNCHANGED <<parse, nsjconf>> /\ mpc = "remount" /\ ret = "none" /\ UNCHANGED <<ret, helper>>
  BY DEF RemountNext, cmdlineVars
<1> PICK e : e = nsjconf.mountpts[next]
  OBVIOUS
<1>l. /\ Len(nsjconf.mountpts) \in Nat /\ next \in 1 .. Len(nsjconf.mountpts)
      /\ e.dst \in Paths
  <2>1. Len(nsjconf.mountpts) \in Nat /\ next \in 1 .. Len(nsjconf.mountpts) + 1
    BY ListTypes DEF MountInv
  <2>2. next <= Len(nsjconf.mountpts)
    BY Zenon DEF RemountNext
  <2>3. next \in 1 .. Len(nsjconf.mountpts)
    BY <2>1, <2>2
  <2> QED BY <2>1, <2>3, ListTypes DEF MountInv
<1>i. TableOK /\ AllMounted /\ ~oldroot /\ root = "jail"
  BY <1>c DEF MountInv, Progress
<1>1. CASE Fail
  <2>1. TableOK'
    BY <1>1, <1>c, <1>i, TableKept DEF Fail
  <2>2. next' \in 1 .. Len(nsjconf'.mountpts) + 1
    BY <1>1, <1>c DEF Fail, MountInv
  <2> QED BY <2>1, <2>2, <1>1, <1>c DEF MountInv, Fail, Progress, Reported
<1>2. CASE /\ mountRemountRO(e) # NULL /\ mnt' = mountRemountRO(e)
           /\ next' = next + 1 /\ UNCHANGED <<mpc, oldroot, root>>
  <2>1. /\ TableOK' /\ DOMAIN mnt' = DOMAIN mnt
        /\ \A j \in DOMAIN mnt : mnt'[j].at = mnt[j].at /\ mnt'[j].fs = mnt[j].fs
        /\ \A i : Mounted(i) => Mounted(i)'
    <3>1. CASE mnt' = mnt
      BY <3>1, <1>c, <1>i, TableKept
    <3>2. CASE mnt' = [mnt EXCEPT ![Top(e.dst)].ro = TRUE]
      <4> PICK t : t = Top(e.dst)
        OBVIOUS
      <4>1. t \in DOMAIN mnt
        BY <1>i, <1>l, TopUnique DEF TopIs
      <4>2. mnt' = [mnt EXCEPT ![t].ro = TRUE]
        BY <3>2
      <4> QED BY <4>1, <4>2, <1>c, <1>i, Remounted, Zenon
    <3> QED BY <1>2, <3>1, <3>2, RemountCases
  <2>2. AllMounted'
    BY <2>1, <1>i, <1>c DEF AllMounted
  <2>3. next' \in 1 .. Len(nsjconf'.mountpts) + 1
    BY <1>2, <1>c, <1>l
  <2>4. Progress' /\ Reported'
    BY <1>2, <1>c, <1>i, <2>2 DEF Progress, Reported, MountInv
  <2> QED BY <2>1, <2>3, <2>4 DEF MountInv
<1> QED BY <1>1, <1>2 DEF RemountNext, Fail

\* The other steps of the work itself.
LEMMA InternalStep ==
    ASSUME MountInv, ParseInv', mountInitNsInternal
    PROVE  MountInv'
<1> USE DEF At
<1>1. CASE MountNext
  BY <1>1, MountNextStep
<1>2. CASE RemountNext
  BY <1>2, RemountNextStep
<1>3. CASE ChrootOnly \/ PivotRoot \/ LeaveOldRoot \/ Finished \/ CallFails
  <2>c. UNCHANGED <<parse, nsjconf, mnt, ret, helper>> /\ ret = "none"
    BY <1>3 DEF ChrootOnly, PivotRoot, LeaveOldRoot, Finished, CallFails, Fail, cmdlineVars
  <2>l. Len(nsjconf.mountpts) \in Nat
    BY ListTypes DEF MountInv
  <2>k. TableOK' /\ (AllMounted => AllMounted') /\ \A i : Mounted(i) => Mounted(i)'
    BY <2>c, TableKept DEF MountInv
  <2>n. next' \in 1 .. Len(nsjconf'.mountpts) + 1
    BY <1>3, <2>c, <2>l
       DEF ChrootOnly, PivotRoot, LeaveOldRoot, Finished, CallFails, Fail, MountInv
  <2>1. CASE ChrootOnly
    <3>1. /\ mpc = "begin" /\ ~nsjconf.clone_newns /\ oldroot' = oldroot
          /\ (mpc' = "ok" /\ root' = "chroot") \/ mpc' = "fail"
      BY <2>1 DEF ChrootOnly, Fail
    <3>2. Progress'
      BY <3>1, <2>c DEF MountInv, Progress
    <3>3. Reported'
      BY <3>1, <2>c DEF MountInv, Reported
    <3> QED BY <3>2, <3>3, <2>k, <2>n DEF MountInv
  <2>2. CASE PivotRoot
    <3>1. mpc = "begin" /\ next = 1 /\ DOMAIN mnt = {1} /\ mnt[1].entry = 0
      BY <2>2 DEF PivotRoot, MountInv, Progress, TableOK
    <3> QED BY <2>2, <3>1, <2>c, <2>k, <2>n
               DEF PivotRoot, MountInv, Progress, Reported
  <2>3. CASE LeaveOldRoot
    <3>1. AllMounted
      BY <2>3, LoopComplete DEF LeaveOldRoot
    <3>2. mpc' \in {"remount", "fail"}
      BY <2>3, Zenon DEF LeaveOldRoot
    <3> QED BY <2>3, <3>1, <3>2, <2>c, <2>k, <2>n DEF LeaveOldRoot, MountInv, Progress, Reported
  <2>4. CASE Finished
    BY <2>4, <2>c, <2>k, <2>n DEF Finished, MountInv, Progress, Reported
  <2>5. CASE CallFails
    BY <2>5, <2>c, <2>k, <2>n DEF CallFails, MountInv, Progress, Reported, Fail
  <2> QED BY <1>3, <2>1, <2>2, <2>3, <2>4, <2>5
<1> QED BY <1>1, <1>2, <1>3 DEF mountInitNsInternal

\* Every step, of the parser, the jail, its helper or both.
LEMMA MountStep ==
    ASSUME MountInv, [Next]_vars
    PROVE  MountInv'
<1>p. ParseInv'
  BY ParseStep DEF MountInv
<1>1. CASE cmdlineParse /\ UNCHANGED mountVars
  <2>u. UNCHANGED <<mpc, next, mnt, oldroot, helper, ret>>
    BY <1>1 DEF mountVars
  <2>1. parse = "options"
    BY <1>1, ZenonT(40)
       DEF cmdlineParse, OneOption, EndOfOptions, Take, SetField, SetFlag, SetPort, SetMode, PassFd,
                AddEnv, SetLimit, AddMapping, Usage, AddBind, AddTmpfs
  <2>2. mpc = "start" /\ next = 1 /\ ~oldroot /\ DOMAIN mnt = {1} /\ ~mnt[1].ro
    BY <2>1 DEF MountInv, Reported, Progress
  <2>3. TableOK'
    BY <2>u, <2>2 DEF MountInv, TableOK, TopIs
  <2>4. Progress'
    BY <2>u, <2>2 DEF Progress
  <2>5. Reported'
    BY <2>u, <2>2 DEF Reported, MountInv
  <2>6. next' \in 1 .. Len(nsjconf'.mountpts) + 1
    <3>1. nsjconf'.mountpts \in Seq(Entries)
      BY <1>p DEF ParseInv, FieldsOK, Fields, ValueOK
    <3>2. Len(nsjconf'.mountpts) \in Nat
      BY <3>1, LenProperties
    <3> QED BY <3>2, <2>u, <2>2
  <2> QED BY <1>p, <2>3, <2>4, <2>5, <2>6 DEF MountInv
<1>2. CASE Begin \/ CloneFails
  <2>1. mpc = "start" /\ parse = "parsed" /\ UNCHANGED <<mnt, nsjconf, parse, next, oldroot>>
    BY <1>2 DEF Begin, CloneFails, cmdlineVars
  <2>2. \/ mpc' = "begin" /\ helper' \in {"running", "none"} /\ ret' = ret
        \/ mpc' = "fail" /\ ret' = "false" /\ helper' = helper
    BY <1>2, Zenon DEF Begin, CloneFails
  <2>3. TableOK'
    BY <2>1, TableKept DEF MountInv
  <2>4. Progress'
    BY <2>1, <2>2 DEF MountInv, Progress
  <2>5. Reported'
    BY <2>1, <2>2 DEF MountInv, Reported
  <2> QED BY <1>p, <2>1, <2>3, <2>4, <2>5 DEF MountInv
<1>3. CASE mountInitNsInternal
  BY <1>3, <1>p, InternalStep
<1>4. CASE HelperExits \/ HelperKilled \/ Return
  <2>1. UNCHANGED <<mnt, nsjconf, parse, next, oldroot, root>>
    BY <1>4 DEF HelperExits, HelperKilled, Return, cmdlineVars
  <2>2. TableOK' /\ (AllMounted => AllMounted')
    BY <2>1, TableKept DEF MountInv
  <2>3. mpc' = mpc \/ mpc' = "fail"
    BY <1>4 DEF HelperExits, HelperKilled, Return
  <2>4. Progress'
    <3>1. CASE mpc' = "fail"
      BY <3>1 DEF Progress
    <3>2. CASE mpc' = mpc
      BY <3>2, <2>1, <2>2, TableKept DEF Progress, MountInv
    <3> QED BY <2>3, <3>1, <3>2
  <2>5. Reported'
    <3>1. CASE HelperExits
      BY <2>1, <3>1 DEF HelperExits, MountInv, Reported
    <3>2. CASE HelperKilled
      BY <2>1, <3>2 DEF HelperKilled, MountInv, Reported
    <3>3. CASE Return
      BY <2>1, <3>3 DEF Return, Succeeded, MountInv, Reported
    <3> QED BY <1>4, <3>1, <3>2, <3>3
  <2> QED BY <1>p, <2>1, <2>2, <2>4, <2>5 DEF MountInv
<1>5. CASE UNCHANGED vars
  <2>1. UNCHANGED <<mpc, next, mnt, oldroot, root, helper, ret, parse, nsjconf>>
    BY <1>5 DEF vars, cmdlineVars, mountVars
  <2>2. TableOK' /\ (AllMounted => AllMounted') /\ \A i : Mounted(i) => Mounted(i)'
    BY <2>1, TableKept DEF MountInv
  <2>3. Progress'
    BY <2>1, <2>2 DEF Progress, MountInv
  <2>4. Reported'
    BY <2>1 DEF Reported, MountInv
  <2> QED BY <1>p, <2>1, <2>2, <2>3, <2>4 DEF MountInv
<1> QED BY <1>1, <1>2, <1>3, <1>4, <1>5 DEF Next, mountInitNs

\* The inductive invariant of the mount phase: the table is made from the list
\* in its order, and the loops over the list are as far as next says.
THEOREM Phases == Spec => []MountInv
  BY MountInvInit, MountStep, PTL DEF Spec

\* When mountInitNs returns true, in the process itself or through the exit
\* status of its helper, the old root is detached, the root is not the host's
\* and every entry of the list was mounted, for every command line and host.
THEOREM Enclosed == Spec => []SuccessMeansEnclosed
<1>1. MountInv => SuccessMeansEnclosed
  BY DEF MountInv, Progress, Reported, SuccessMeansEnclosed, AllMounted, Mounted, Entry
<1> QED BY Phases, <1>1, PTL

\* The destination of every entry is a path that an option names, / or /proc.
LEMMA Destinations ==
    ASSUME ParseInv, NEW i \in DOMAIN nsjconf.mountpts
    PROVE  nsjconf.mountpts[i].dst \in Path
<1>1. PICK f : Owners(f)
  BY DEF ParseInv
<1>2. CASE f[i] = 0
  <2>1. nsjconf.mountpts[i].dst \in {<<>>, <<"proc">>}
    BY <1>1, <1>2 DEF Owners
  <2> QED BY <2>1 DEF Path
<1>3. CASE f[i] # 0
  <2>1. f[i] \in MountOption /\ nsjconf.mountpts[i] = EntryOf(argv[f[i]])
    BY <1>1, <1>3 DEF Owners
  <2>2. PICK o : o = argv[f[i]]
    OBVIOUS
  <2>3. o \in Options /\ o.c \in {"R", "B", "T"}
    BY <2>1, <2>2, ElementOfSeq, LenProperties DEF ParseInv, MountOption
  <2>4. CASE o.c = "T"
    <3>1. EntryOf(o).dst = o.dst
      BY <2>4 DEF EntryOf, Mountpt
    <3> QED BY <2>1, <2>2, <2>3, <2>4, <3>1 DEF Path
  <2>5. CASE o.c # "T"
    <3>1. EntryOf(o).dst = cmdlineSplitStrByColon(o.spec)[1]
      BY <2>5 DEF EntryOf, Mountpt
    <3>2. o.spec \in Seq(Paths) /\ o.spec # <<>>
      BY <2>3, <2>5, OptionAssumption
    <3>3. cmdlineSplitStrByColon(o.spec)[1] \in Range(o.spec)
      BY <3>2, EmptySeq, LenProperties DEF cmdlineSplitStrByColon, Range
    <3> QED BY <2>1, <2>2, <2>3, <2>5, <3>1, <3>3 DEF Path
  <2> QED BY <2>4, <2>5
<1> QED BY <1>2, <1>3

\* The fields of nsjconf_t and of the mount phase stay in range, limits and ids
\* in their width; a mount covers a path an option names and has an entry.
THEOREM MountTypes == Spec => []MountTypeOK
<1>1. ASSUME MountInv
      PROVE  MountTypeOK
  <2>1. /\ parse \in {"options", "parsed", "exit0", "exit1"} /\ nsjconf.mode \in Mode
        /\ \A r \in DOMAIN nsjconf.rl : nsjconf.rl[r] \in 0 .. LimMod - 1
        /\ nsjconf.outside_uid \in 0 .. IdMod - 1 /\ nsjconf.inside_uid \in 0 .. IdMod - 1
    BY <1>1 DEF MountInv, ParseInv, FieldsOK, Fields, ValueOK, Ids
  <2>2. ASSUME NEW i \in DOMAIN mnt
        PROVE  /\ mnt[i].at \in Path /\ mnt[i].ro \in BOOLEAN
               /\ mnt[i].entry \in 0 .. Len(nsjconf.mountpts)
    <3>0. Len(nsjconf.mountpts) \in Nat /\ DOMAIN nsjconf.mountpts = 1 .. Len(nsjconf.mountpts)
      BY <1>1, ListTypes DEF MountInv
    <3>1. mnt[i].ro \in BOOLEAN
      BY <1>1, TableTypes DEF MountInv
    <3>2. CASE i = 1
      <4>1. mnt[i].at = <<>> /\ mnt[i].entry = 0
        BY <1>1, <3>2 DEF MountInv, TableOK
      <4> QED BY <3>0, <3>1, <4>1 DEF Path
    <3>3. CASE i # 1
      <4>1. MadeFrom(i)
        BY <1>1, <3>3 DEF MountInv, TableOK
      <4>2. mnt[i].entry \in DOMAIN nsjconf.mountpts /\ mnt[i].at = nsjconf.mountpts[mnt[i].entry].dst
        BY <4>1 DEF MadeFrom
      <4>3. mnt[i].at \in Path
        BY <1>1, <4>2, Destinations DEF MountInv
      <4> QED BY <3>0, <3>1, <4>2, <4>3
    <3> QED BY <3>2, <3>3
  <2> QED BY <1>1, <2>1, <2>2 DEF MountInv, Reported, MountTypeOK
<1> QED BY Phases, <1>1, PTL
=============================================================================
