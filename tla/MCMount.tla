------------------------------ MODULE MCMount ------------------------------
(* A host and command lines for model checking the mounts of a jail.        *)
EXTENDS MountProperties, TLC

MCNames == {"a", "b", "f", "r", "gone", "proc"}
A == <<"a">>
AB == <<"a", "b">>
F == <<"f">>
R == <<"r">>
Gone == <<"gone">>

\* A writable directory, one nothing can be made in, and a file.
MCHost ==
    (A :> [kind |-> "dir", writable |-> TRUE, tree |-> {}]) @@
    (R :> [kind |-> "dir", writable |-> FALSE, tree |-> {<<"proc">>, A}]) @@
    (F :> [kind |-> "file", writable |-> TRUE, tree |-> {}])

MountOptions ==
    [c : {"R", "B"}, spec : {<<A>>, <<A, AB>>, <<R, A>>}] \cup
    [c : {"R"}, spec : {<<F, AB>>, <<Gone>>}] \cup
    [c : {"B"}, spec : {<<A, <<>> >>}] \cup
    [c : {"T"}, dst : {A, AB}]

SetOptions ==
    {[c |-> "set", field |-> "chroot", value |-> <<A>>],
     [c |-> "set", field |-> "chroot", value |-> <<R>>],
     [c |-> "set", field |-> "cwd", value |-> AB],
     [c |-> "set", field |-> "is_root_rw", value |-> TRUE],
     [c |-> "set", field |-> "pivot_root_only", value |-> TRUE],
     [c |-> "set", field |-> "clone_newns", value |-> FALSE],
     [c |-> "set", field |-> "mount_proc", value |-> FALSE],
     [c |-> "set", field |-> "tmpfs_size", value |-> 8 * MiB],
     [c |-> "set", field |-> "user", value |-> <<Name(0), Number(1)>>],
     [c |-> "set", field |-> "group", value |-> <<Word("other")>>],
     [c |-> "M", mode |-> "EXECVE"], [c |-> "M", mode |-> "x"],
     [c |-> "p", port |-> 1], [c |-> "flag", flag |-> "daemonize"],
     [c |-> "pass_fd", fd |-> 3], [c |-> "?"], [c |-> "E", val |-> "x=1"],
     [c |-> "uid_mappings", spec |-> <<Number(0), Number(1)>>]}

LimitOptions ==
    [c : {"rlimit"}, res : {"as"}, mul : {MiB},
     text : {Number(1), Number(5), Number(8), Word("max")}] \cup
    [c : {"rlimit"}, res : {"nproc"}, mul : {1},
     text : {Number(63), Number(64), Word("def"), Word("other")}]

MCOptions == MountOptions \cup SetOptions \cup LimitOptions
=============================================================================
