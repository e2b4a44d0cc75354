------------------------------- MODULE MCBpf -------------------------------
(* Filters for model checking the seccomp helpers.                          *)
EXTENDS BpfProperties

MCLabelNames == {"l1", "l2", "l3", "l4", "label_i386", "label_x86_64"}
Halves == 0 .. Half - 1

Tests64 == [kind : {"tests64"}, op : Compares \X {"JEQ", "JGE"},
            lo : Halves \X {1}, hi : Halves \X {1}]
Tests32 == [kind : {"tests32"}, op : Compares \X {"JEQ", "JGE"}, lo : Halves \X {1}]

\* All short programs of jumps and labels, up to the range of insn.
Labelled ==
    LET I == {JUMP("l1"), JUMP("l2"), JUMP("l3"), LABEL("l1"), LABEL("l2"),
              LABEL("l3"), ALLOW}
    IN  UNION {[kind : {"code"}, code : [1 .. n -> I]] : n \in 0 .. 3}
          \cup [kind : {"code"}, code : {s \o <<KILL>> : s \in [1 .. 3 -> I]}]

\* One label more than the table has rows for.
TooManyLabels ==
    {[kind |-> "code", code |-> <<LABEL("l1"), LABEL("l2"), LABEL("l3"),
                                  LABEL("l4"), ALLOW>>]}

\* One instruction more than insn counts, with a jump that is not looked at.
TooLong ==
    {[kind |-> "code",
      code |-> [i \in 1 .. InsnMod + 1 |-> CASE i = 3 -> JUMP("l1")
                                             [] i = 6 -> LABEL("l1") [] OTHER -> ALLOW]]}

Policy == {[kind |-> "policy"]}

MCPrograms == Policy \cup Tests64 \cup Tests32 \cup Labelled
                \cup TooManyLabels \cup TooLong
=============================================================================
