--------------------------- MODULE BpfProperties ---------------------------
(* What the helpers promise about a filter, and the policy of sandbox.c.    *)
EXTENDS Bpf

\* The state stays in range; the position of the running filter never leaves
\* it, so that every run ends in a verdict.
BpfTypeOK ==
    /\ stage \in {"labels", "resolve", "commit", "run", "false", "exit1"} \cup Verdict
    /\ Len(labels) <= BPF_LABELS_MAX
    /\ insn \in 0 .. InsnMod - 1
    /\ at \in 0 .. Len(filter)
    /\ stage = "run" => at \in DOMAIN filter
    /\ vm.A \in Arch \cup Nr \cup 0 .. Half - 1

Source == Code(prog)
Jumps == {i \in DOMAIN Source : Source[i].lab # "none" /\ Source[i].jt = 255}
Labels(l) == {i \in DOMAIN Source : Source[i].lab = l /\ Source[i].jt = 254}

\* Every jump of the program has its label behind it, and no label is there
\* twice.
WellFormed ==
    \A i \in DOMAIN Source :
      Source[i].lab # "none" =>
        /\ \A j, k \in Labels(Source[i].lab) : j = k
        /\ i \in Jumps => \E j \in Labels(Source[i].lab) : j > i

\* When bpf_resolve_jumps succeeds every JUMP leads to its LABEL and nothing
\* else changed; it fails exactly for the programs that are not well formed.
\* The order in which the labels were numbered makes no difference.  Of more
\* instructions than insn can count only the first ones are looked at.
JumpsReachLabels ==
    Len(Source) <= InsnMod =>
      /\ stage = "commit" =>
           /\ WellFormed
           /\ \A i \in DOMAIN Source :
                /\ i \in Jumps => i + 1 + filter[i].k \in Labels(Source[i].lab)
                /\ Source[i].lab = "none" => filter[i] = Source[i]
      /\ stage = "false" /\ at # 0 => ~WellFormed

\* The calls the policy singles out, by architecture: syslog fails, uselib
\* kills.  Every other architecture is taken for i386.
PolicyVerdict(d) ==
    CASE d.nr = 103 -> "ERRNO"
      [] d.nr = (IF d.arch = AUDIT_ARCH_X86_64 THEN 134 ELSE 86) -> "KILL"
      [] OTHER -> "ALLOW"

\* The number of ptrace, of which the policy's comment speaks and its filter
\* does not.
Ptrace(arch) == IF arch = AUDIT_ARCH_X86_64 THEN 101 ELSE 26

\* A system call other than ptrace gets the verdict of its own architecture's
\* table, through the labels and jumps of the filter.
PolicyApplied ==
    prog.kind = "policy" /\ stage \in Verdict /\ data.nr # Ptrace(data.arch) =>
      stage = PolicyVerdict(data)

\* What the comment above sandboxPrepareAndCommit says: syslog and ptrace are
\* disallowed, both in 32 and 64 bit mode.
PolicyAsCommented ==
    prog.kind = "policy" /\ stage \in Verdict
      /\ data.arch \in {AUDIT_ARCH_I386, AUDIT_ARCH_X86_64}
      /\ data.nr \in {103, Ptrace(data.arch)} => stage # "ALLOW"

Compare(op, a, b, bits) ==
    CASE op = "JEQ" -> a = b [] op = "JNE" -> a # b
      [] op = "JGT" -> a > b [] op = "JLT" -> a < b
      [] op = "JGE" -> a >= b [] op = "JLE" -> a <= b
      [] op = "JA" -> Common(a, b, bits)

Bits64 == Bits \cup {b * Half : b \in Bits}

\* Test n of the program holds for the argument, compared as a whole.
Matches(n) ==
    IF prog.kind = "tests32"
    THEN Compare(prog.op[n], data.lo, prog.lo[n], Bits)
    ELSE Compare(prog.op[n], data.hi * Half + data.lo, prog.hi[n] * Half + prog.lo[n], Bits64)

\* What it means that test n was taken, and that it was not.  Two of the 64 bit
\* tests are not what they are called: JLT64 takes the equal argument, too, so
\* only its not being taken tells anything, and JNE64 misses arguments that differ
\* in one half, so only its being taken does.
Taken(n) == Matches(n) \/ (prog.kind = "tests64" /\ prog.op[n] = "JLT")
Missed(n) == ~Matches(n) \/ (prog.kind = "tests64" /\ prog.op[n] = "JNE")

\* Of two tests in a row the first that is taken holds for the whole argument, and
\* the ones that are not taken do not: the 64 bit tests look at both halves, and
\* leave the accumulator on every path such that the next one works.  JLT64 misses
\* no smaller argument and JNE64 takes no equal one; more is not claimed of them.
TestsCompare ==
    prog.kind \in {"tests64", "tests32"} /\ stage \in Verdict =>
      \/ stage = "first" /\ Taken(1)
      \/ stage = "second" /\ Missed(1) /\ Taken(2)
      \/ stage = "ALLOW" /\ Missed(1) /\ Missed(2)
=============================================================================
