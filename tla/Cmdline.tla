------------------------------ MODULE Cmdline ------------------------------
(***************************************************************************)
(* cmdlineParse: the options of the command line, taken one by one in the  *)
(* order getopt_long() gives them, fill struct nsjconf_t.  Most options    *)
(* assign one field; the ones that matter append to lists, in an order     *)
(* mountInitNs depends on, share a buffer, or compute a limit in 64 bits.  *)
(***************************************************************************)
EXTENDS Integers, Sequences, FiniteSets

CONSTANTS
    Names,        \* the names of files and directories
    Options,      \* the options that may occur on the command line
    MaxOptions,   \* bound on the number of options
    LimMod,       \* 2^64, the range of a resource limit
    IdMod,        \* 2^32, the range of a uid_t or gid_t
    MiB,          \* the unit of the limits that are given in megabytes
    HardLimit,    \* the hard and the soft limit of the calling process
    SoftLimit,
    ParseFaults   \* whether opening the log file may fail

ASSUME LimitAssumption ==
    /\ MaxOptions \in Nat
    /\ LimMod \in Nat \ {0} /\ IdMod \in Nat \ {0, 1} /\ MiB \in Nat \ {0}
    /\ HardLimit \in 0 .. LimMod - 1 /\ SoftLimit \in 0 .. HardLimit
    /\ ParseFaults \in BOOLEAN

\* A path is the sequence of its names, / the empty one.  A text is a number,
\* the name of an account, "max", "def" or something else; the id of an account
\* fits a uid_t.
Paths == Seq(Names)
Texts == {t \in [kind : {"number", "name", "max", "def", "other"}, n : Nat] :
            t.kind = "name" => t.n < IdMod}

\* The fields that an option assigns as a whole, and what it may assign.
SetType ==
    [chroot |-> Seq(Paths), cwd |-> Paths, pivot_root_only |-> BOOLEAN,
     clone_newns |-> BOOLEAN, is_root_rw |-> BOOLEAN, mount_proc |-> BOOLEAN,
     tmpfs_size |-> Nat, user |-> Seq(Texts), group |-> Seq(Texts),
     logfile |-> Seq(Paths)]

\* What getopt_long() hands over.  The unit of a limit is at least a byte.
ASSUME OptionAssumption ==
    /\ "proc" \in Names
    /\ \A o \in Options :
         /\ o.c = "set" => o.field \in DOMAIN SetType /\ o.value \in SetType[o.field]
         /\ o.c = "rlimit" => o.text \in Texts /\ o.mul \in Nat \ {0}
         /\ o.c \in {"R", "B"} => o.spec \in Seq(Paths) /\ o.spec # <<>>
         /\ o.c = "T" => o.dst \in Paths

VARIABLES
    argv,      \* the options taken so far
    parse,     \* "options", "parsed", or how nsjail left: "exit0", "exit1"
    nsjconf    \* struct nsjconf_t, with the locals user, group and logfile

cmdlineVars == <<argv, parse, nsjconf>>

Mode == {"LISTEN_TCP", "ONCE", "RERUN", "EXECVE"}
NULL == <<>>   \* an optional value is a sequence of length 0 or 1

\* The defaults.  flags holds the switches given that no other module reads
\* and rl the limits given; the ones that are absent keep their defaults.
\* The ids are those of the caller, who is user 1.
Defaults ==
    [mode |-> "ONCE", port |-> 0, chroot |-> NULL, cwd |-> <<>>,
     pivot_root_only |-> FALSE, clone_newns |-> TRUE, is_root_rw |-> FALSE,
     mount_proc |-> TRUE, tmpfs_size |-> 4 * MiB, flags |-> {},
     rl |-> <<>>, envs |-> <<>>, open_fds |-> {0, 1, 2}, mountpts |-> <<>>,
     uid_mappings |-> <<>>, gid_mappings |-> <<>>,
     inside_uid |-> 1, outside_uid |-> 1, inside_gid |-> 1, outside_gid |-> 1,
     user |-> NULL, group |-> NULL, logfile |-> NULL]

CmdlineInit == argv = <<>> /\ parse = "options" /\ nsjconf = Defaults

-----------------------------------------------------------------------------
(* Values.  The parts of a text are separated by colons.                    *)

Number(n) == [kind |-> "number", n |-> n]
Name(n) == [kind |-> "name", n |-> n]
Word(w) == [kind |-> w, n |-> 0]

\* What follows the first colon, or all of it when there is none.
cmdlineSplitStrByColon(spec) == IF Len(spec) > 1 THEN Tail(spec) ELSE spec

\* strtoull() stops at 2^64 - 1.
strtoull(n) == IF n < LimMod THEN n ELSE LimMod - 1

\* Mutant: the product in 32 bits.
NarrowProduct(text, mul, errno) ==
    IF text.kind = "number" THEN <<(text.n * mul) % IdMod>> ELSE NULL

\* Mutant: a product of any size.
WideProduct(text, mul, errno) ==
    IF text.kind = "number" THEN <<text.n * mul>> ELSE NULL

\* The limit, or NULL when the text is refused with LOG_F, which exits.
\* errno is what earlier calls left behind; nothing clears it.
cmdlineParseRLimit(text, mul, errno) ==
    CASE text.kind = "max" -> <<HardLimit>>
      [] text.kind = "def" -> <<SoftLimit>>
      [] text.kind = "number" ->
           LET val == (strtoull(text.n) * mul) % LimMod
           IN  IF val = LimMod - 1 /\ (text.n >= LimMod \/ errno # 0)
               THEN NULL ELSE <<val>>
      [] OTHER -> NULL

\* The id a text names: of an account, or the number cut to 32 bits.
IdOf(text) ==
    CASE text.kind = "name" -> <<text.n>>
      [] text.kind = "number" -> <<strtoull(text.n) % IdMod>>
      [] OTHER -> NULL

\* <<inside, outside>> after reading spec, NULL when it is refused.
ParseIds(spec, inside, outside) ==
    IF spec = NULL THEN <<inside, outside>>
    ELSE LET first == IdOf(spec[1])
             second == IF Len(spec) > 1 THEN IdOf(spec[2]) ELSE <<outside>>
         IN  IF first = NULL \/ second = NULL THEN NULL ELSE first \o second

cmdlineParseUid(c) == ParseIds(c.user, c.inside_uid, c.outside_uid)
cmdlineParseGid(c) == ParseIds(c.group, c.inside_gid, c.outside_gid)

-----------------------------------------------------------------------------
(* Options.                                                                 *)

\* The entry is on the command line and getopt_long() returns it.
Take(o) == /\ parse = "options" /\ Len(argv) < MaxOptions
           /\ argv' = Append(argv, o)

Set(field, value) == nsjconf' = [nsjconf EXCEPT ![field] = value]

\* The options that assign one field: -H -D -c -i -u -g -l -t and the like.
SetField(o) ==
    /\ o.c = "set" /\ Take(o) /\ Set(o.field, o.value) /\ UNCHANGED parse

\* The switches that no other module reads, personality bits among them.
SetFlag(o) ==
    /\ o.c = "flag" /\ Take(o) /\ UNCHANGED parse
    /\ Set("flags", nsjconf.flags \cup {o.flag})

\* -p also chooses the mode; a later -M chooses again.
SetPort(o) ==
    /\ o.c = "p" /\ Take(o) /\ UNCHANGED parse
    /\ nsjconf' = [nsjconf EXCEPT !.port = o.port, !.mode = "LISTEN_TCP"]

SetMode(o) ==
    /\ o.c = "M" /\ Take(o)
    /\ \/ o.mode \in Mode /\ Set("mode", o.mode) /\ UNCHANGED parse
       \/ o.mode \notin Mode /\ parse' = "exit0" /\ UNCHANGED nsjconf

\* The limits with resource res set to v.
WithLimit(rl, res, v) ==
    [r \in DOMAIN rl \cup {res} |-> IF r = res THEN v ELSE rl[r]]

SetLimit(o) ==
    /\ o.c = "rlimit" /\ Take(o)
    /\ \E errno \in {0, 1} :
         LET val == cmdlineParseRLimit(o.text, o.mul, errno)
         IN  \/ /\ val # NULL /\ Set("rl", WithLimit(nsjconf.rl, o.res, val[1]))
                /\ UNCHANGED parse
             \/ val = NULL /\ parse' = "exit1" /\ UNCHANGED nsjconf

PassFd(o) ==
    /\ o.c = "pass_fd" /\ Take(o) /\ UNCHANGED parse
    /\ Set("open_fds", nsjconf.open_fds \cup {o.fd})

\* -E: a later entry for the same name will replace this one in putenv().
AddEnv(o) ==
    /\ o.c = "E" /\ Take(o) /\ UNCHANGED parse
    /\ Set("envs", Append(nsjconf.envs, o.val))

\* -U and -G: parts that are left out repeat the one before.
AddMapping(o) ==
    /\ o.c \in {"uid_mappings", "gid_mappings"} /\ Take(o) /\ UNCHANGED parse
    /\ LET outside == cmdlineSplitStrByColon(o.spec)
           count == cmdlineSplitStrByColon(outside)
       IN  Set(o.c, Append(nsjconf[o.c], <<o.spec[1], outside[1], count[1]>>))

\* An entry of mountpts.  options is "" or, for -T, the buffer cmdlineTmpfsSz
\* that all of them point to.
Mountpt(src, dst, ro, fs_type, options) ==
    [src |-> src, dst |-> dst, ro |-> ro, fs_type |-> fs_type, options |-> options]

\* -R and -B, with 'source' or 'source:dest', and -T.
AddBind(o) ==
    /\ o.c \in {"R", "B"} /\ Take(o) /\ UNCHANGED parse
    /\ LET dst == cmdlineSplitStrByColon(o.spec)[1]
           p == Mountpt(<<o.spec[1]>>, dst, o.c = "R", "", "")
       IN  Set("mountpts", Append(nsjconf.mountpts, p))

AddTmpfs(o) ==
    /\ o.c = "T" /\ Take(o) /\ UNCHANGED parse
    /\ LET p == Mountpt(NULL, o.dst, FALSE, "tmpfs", "cmdlineTmpfsSz")
       IN  Set("mountpts", Append(nsjconf.mountpts, p))

\* -h, and an option getopt_long() does not know.
Usage(o) == o.c = "?" /\ Take(o) /\ parse' = "exit0" /\ UNCHANGED nsjconf

-----------------------------------------------------------------------------
(* The end of the options.                                                  *)

\* The mount of /, a tmpfs without -c, and the one of /proc.
RootMount(c) ==
    Mountpt(c.chroot, <<>>, ~c.is_root_rw, IF c.chroot = NULL THEN "tmpfs" ELSE "", "")
ProcMount(c) ==
    IF c.mount_proc THEN <<Mountpt(NULL, <<"proc">>, FALSE, "proc", "")>> ELSE <<>>

\* Mutant: / behind the mounts of the options.
RootLast(c) == ProcMount(c) \o c.mountpts \o <<RootMount(c)>>

\* /proc and then / go to the head of the list: / is mounted first.
AllMounts(c) == <<RootMount(c)>> \o ProcMount(c) \o c.mountpts

\* logInitLogFile: a daemon without -l logs to the default file.
logInitLogFile(c) ==
    IF c.logfile = NULL /\ "daemonize" \in c.flags THEN <<"default">> ELSE c.logfile

\* Everything after the loop; command says whether argv has a command left.
EndOfOptions ==
    /\ parse = "options" /\ UNCHANGED argv
    /\ \E command, opened \in BOOLEAN :
         LET log == logInitLogFile(nsjconf)
             uid == cmdlineParseUid(nsjconf)
             gid == cmdlineParseGid(nsjconf)
             failed == (log # NULL /\ ~opened) \/ uid = NULL \/ gid = NULL
         IN  /\ opened \/ ParseFaults
             /\ \/ failed /\ parse' = "exit1" /\ UNCHANGED nsjconf
                \/ ~failed /\ ~command /\ parse' = "exit0" /\ UNCHANGED nsjconf
                \/ /\ ~failed /\ command /\ parse' = "parsed"
                   /\ nsjconf' = [nsjconf EXCEPT
                        !.mountpts = AllMounts(nsjconf), !.logfile = log,
                        !.inside_uid = uid[1], !.outside_uid = uid[2],
                        !.inside_gid = gid[1], !.outside_gid = gid[2]]

OneOption ==
    \E o \in Options :
        \/ SetField(o) \/ SetFlag(o) \/ SetPort(o) \/ SetMode(o) \/ SetLimit(o)
        \/ PassFd(o) \/ AddEnv(o) \/ AddMapping(o) \/ AddBind(o) \/ AddTmpfs(o)
        \/ Usage(o)

cmdlineParse == OneOption \/ EndOfOptions
=============================================================================
