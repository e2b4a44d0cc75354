-------------------------------- MODULE Bpf --------------------------------
(***************************************************************************)
(* seccomp/bpf-helper: the macros that write a filter, the two passes that *)
(* turn labels into jump offsets, and the policy of sandbox.c that is made *)
(* with them; then the kernel checks the filter and runs it.               *)
(***************************************************************************)
EXTENDS Integers, Sequences

CONSTANTS
    Programs,      \* the filters to be looked at
    LabelNames,    \* the names their labels may have
    Arch, Nr,      \* architectures and system call numbers that may occur
    Half,          \* 2^32: a 64 bit argument is <<lo, hi>>, each below Half
    Bits,          \* the bits of such a half, as numbers: 1, 2, 4, ..., Half / 2
    InsnMod,       \* 2^8, the range of insn in bpf_resolve_jumps
    BPF_LABELS_MAX,
    PrctlFails     \* whether prctl() may fail

ASSUME BpfAssumption ==
    /\ Half \in Nat /\ Half >= 2
    /\ Bits \subseteq Nat \ {0} /\ \A b \in Bits : Half % (2 * b) = 0
    /\ Arch \subseteq Nat /\ Nr \subseteq Nat
    /\ InsnMod \in Nat /\ InsnMod >= 19   \* the policy of sandbox.c fits
    /\ BPF_LABELS_MAX \in Nat /\ PrctlFails \in BOOLEAN

VARIABLES
    prog,     \* the program that was written, fixed
    filter,   \* its instructions, as they are rewritten
    labels,   \* struct bpf_labels: sequence of [label, location]
    todo,     \* instructions whose label has not been looked up yet
    stage,    \* "labels", "resolve", "commit", "run", or how it ended
    insn,     \* the variable of that name in bpf_resolve_jumps
    at,       \* the pointer filter there, as an index; then the vm's pc
    data,     \* struct seccomp_data of the call under test
    vm        \* accumulator A and memory M of the running filter

vars == <<prog, filter, labels, todo, stage, insn, at, data, vm>>

-----------------------------------------------------------------------------
(* Instructions.  lab is the label of a JUMP or LABEL, "none" for the others.   *)

Verdict == {"ALLOW", "KILL", "ERRNO", "first", "second"}
Tests == {"JEQ", "JGT", "JGE", "JSET"}

Stmt(op, k) == [op |-> op, k |-> k, jt |-> 0, jf |-> 0, lab |-> "none"]
Jmp(op, k, jt, jf) == [op |-> op, k |-> k, jt |-> jt, jf |-> jf, lab |-> "none"]
JUMP(l) == [op |-> "JA", k |-> 0, jt |-> 255, jf |-> 255, lab |-> l]
LABEL(l) == [op |-> "JA", k |-> 0, jt |-> 254, jf |-> 254, lab |-> l]
ALLOW == Stmt("RET", "ALLOW")
KILL == Stmt("RET", "KILL")
ERRNO == Stmt("RET", "ERRNO")

LOAD_SYSCALL_NR == Stmt("LD", "nr")
LOAD_ARCH == Stmt("LD", "arch")
Swap(n) == Stmt("LDM", n)   \* BPF_LD+BPF_MEM: n is 0 for lo and 1 for hi

ARG_32 == <<Stmt("LD", "lo")>>
ARG_64 == <<Stmt("LD", "lo"), Stmt("ST", 0), Stmt("LD", "hi"), Stmt("ST", 1)>>

JEQ32(v, jt) == <<Jmp("JEQ", v, 0, 1), jt>>
JNE32(v, jt) == <<Jmp("JEQ", v, 1, 0), jt>>
JA32(v, jt)  == <<Jmp("JSET", v, 0, 1), jt>>
JGE32(v, jt) == <<Jmp("JGE", v, 0, 1), jt>>
JLT32(v, jt) == <<Jmp("JGE", v, 1, 0), jt>>
JGT32(v, jt) == <<Jmp("JGT", v, 0, 1), jt>>
JLE32(v, jt) == <<Jmp("JGT", v, 1, 0), jt>>

\* Mutant: the failing path does not swap hi back in.
JEQ64KeepsLo(lo, hi, jt) ==
    <<Jmp("JEQ", hi, 0, 4), Swap(0), Jmp("JEQ", lo, 0, 2), Swap(1), jt>>

JEQ64(lo, hi, jt) ==
    <<Jmp("JEQ", hi, 0, 5), Swap(0), Jmp("JEQ", lo, 0, 2), Swap(1), jt, Swap(1)>>
JNE64(lo, hi, jt) ==
    <<Jmp("JEQ", hi, 5, 0), Swap(0), Jmp("JEQ", lo, 2, 0), Swap(1), jt, Swap(1)>>
JA64(lo, hi, jt) ==
    <<Jmp("JSET", hi, 3, 0), Swap(0), Jmp("JSET", lo, 0, 2), Swap(1), jt, Swap(1)>>
JGE64(lo, hi, jt) ==
    <<Jmp("JGT", hi, 4, 0), Jmp("JEQ", hi, 0, 5), Swap(0), Jmp("JGE", lo, 0, 2),
      Swap(1), jt, Swap(1)>>
JLT64(lo, hi, jt) ==
    <<Jmp("JGE", hi, 0, 4), Jmp("JEQ", hi, 0, 5), Swap(0), Jmp("JGT", lo, 2, 0),
      Swap(1), jt, Swap(1)>>
JGT64(lo, hi, jt) ==
    <<Jmp("JGT", hi, 4, 0), Jmp("JEQ", hi, 0, 5), Swap(0), Jmp("JGT", lo, 0, 2),
      Swap(1), jt, Swap(1)>>
JLE64(lo, hi, jt) ==
    <<Jmp("JGT", hi, 6, 0), Jmp("JEQ", hi, 0, 3), Swap(0), Jmp("JGT", lo, 2, 0),
      Swap(1), jt, Swap(1)>>

\* The test a name stands for, on a 64 or on a 32 bit argument.
Test64(op, lo, hi, jt) ==
    CASE op = "JEQ" -> JEQ64(lo, hi, jt) [] op = "JNE" -> JNE64(lo, hi, jt)
      [] op = "JGT" -> JGT64(lo, hi, jt) [] op = "JLT" -> JLT64(lo, hi, jt)
      [] op = "JGE" -> JGE64(lo, hi, jt) [] op = "JLE" -> JLE64(lo, hi, jt)
      [] op = "JA" -> JA64(lo, hi, jt)
Test32(op, v, jt) ==
    CASE op = "JEQ" -> JEQ32(v, jt) [] op = "JNE" -> JNE32(v, jt)
      [] op = "JGT" -> JGT32(v, jt) [] op = "JLT" -> JLT32(v, jt)
      [] op = "JGE" -> JGE32(v, jt) [] op = "JLE" -> JLE32(v, jt)
      [] op = "JA" -> JA32(v, jt)

-----------------------------------------------------------------------------
(* Programs: the policy of sandbox.c, or two tests one after the other, or  *)
(* any list of instructions.                                                *)

AUDIT_ARCH_I386 == 3
AUDIT_ARCH_X86_64 == 62

\* The instructions for one architecture, whose number of uselib differs.
Section(label, uselib) ==
    <<LABEL(label), LOAD_SYSCALL_NR>>
      \o JEQ32(103, ERRNO) \o JEQ32(uselib, KILL) \o <<ALLOW>>

\* Mutant: no jump to the 64 bit part.
PolicyWithoutX86_64 ==
    <<LOAD_ARCH>> \o JEQ32(AUDIT_ARCH_I386, JUMP("label_i386"))
      \o Section("label_i386", 86)

\* sandboxPrepareAndCommit's filter; 103 is syslog in both tables.
sandboxPolicy ==
    <<LOAD_ARCH>> \o JEQ32(AUDIT_ARCH_I386, JUMP("label_i386"))
      \o JEQ32(AUDIT_ARCH_X86_64, JUMP("label_x86_64"))
      \o Section("label_i386", 86) \o Section("label_x86_64", 134)

Code(p) ==
    CASE p.kind = "policy" -> sandboxPolicy
      [] p.kind = "tests64" ->
           ARG_64 \o Test64(p.op[1], p.lo[1], p.hi[1], Stmt("RET", "first"))
                  \o Test64(p.op[2], p.lo[2], p.hi[2], Stmt("RET", "second"))
                  \o <<ALLOW>>
      [] p.kind = "tests32" ->
           ARG_32 \o Test32(p.op[1], p.lo[1], Stmt("RET", "first"))
                  \o Test32(p.op[2], p.lo[2], Stmt("RET", "second")) \o <<ALLOW>>
      [] p.kind = "code" -> p.code

\* The names of the comparisons the macros offer.
Compares == {"JEQ", "JNE", "JGT", "JLT", "JGE", "JLE", "JA"}

\* What the macros above can write.
Written(i) ==
    \/ i.op = "LD" /\ i.k \in {"arch", "nr", "lo", "hi"} /\ i = Stmt("LD", i.k)
    \/ i.op \in {"LDM", "ST"} /\ i.k \in {0, 1} /\ i = Stmt(i.op, i.k)
    \/ i.op = "RET" /\ i.k \in Verdict /\ i = Stmt("RET", i.k)
    \/ i.op \in Tests /\ {i.k, i.jt, i.jf} \subseteq Nat /\ i = Jmp(i.op, i.k, i.jt, i.jf)
    \/ i.op = "JA" /\ i.lab \in LabelNames /\ i \in {JUMP(i.lab), LABEL(i.lab)}

ASSUME ProgramAssumption ==
    /\ "none" \notin LabelNames /\ {"label_i386", "label_x86_64"} \subseteq LabelNames
    /\ \A p \in Programs :
         /\ p.kind \in {"policy", "tests64", "tests32", "code"}
         /\ p.kind = "code" => /\ p.code \in Seq({p.code[i] : i \in DOMAIN p.code})
                               /\ \A i \in DOMAIN p.code : Written(p.code[i])
         /\ p.kind \in {"tests32", "tests64"} =>
              p.op \in Compares \X Compares /\ p.lo \in (0 .. Half - 1) \X (0 .. Half - 1)
         /\ p.kind = "tests64" => p.hi \in (0 .. Half - 1) \X (0 .. Half - 1)

Init ==
    /\ prog \in Programs /\ filter = Code(prog)
    /\ labels = <<>> /\ todo = {i \in DOMAIN filter : filter[i].lab # "none"}
    /\ stage = "labels" /\ insn = 0 /\ at = 0
    /\ data = [arch |-> 0, nr |-> 0, lo |-> 0, hi |-> 0]
    /\ vm = [A |-> 0, M |-> <<0, 0>>]

-----------------------------------------------------------------------------
(* Labels.                                                                  *)

Unset == -1   \* 0xffffffff

\* The row of label l, or the first free one.
Row(l) == IF \E r \in DOMAIN labels : labels[r].label = l
          THEN CHOOSE r \in DOMAIN labels : labels[r].label = l
          ELSE Len(labels) + 1

\* Mutant: no end of the table.
LabelUnchecked(i) ==
    /\ stage = "labels" /\ i \in todo
    /\ labels' = IF Row(filter[i].lab) \in DOMAIN labels THEN labels
                 ELSE Append(labels, [label |-> filter[i].lab, location |-> Unset])
    /\ filter' = [filter EXCEPT ![i].k = Row(filter[i].lab)]
    /\ todo' = todo \ {i} /\ UNCHANGED <<stage, prog, insn, at, data, vm>>

\* seccomp_bpf_label, for the label of instruction i.  The instructions are
\* an initializer list: in which order its calls are made is unspecified.
seccomp_bpf_label(i) ==
    /\ stage = "labels" /\ i \in todo
    /\ \/ /\ Len(labels) = BPF_LABELS_MAX
          /\ stage' = "exit1" /\ UNCHANGED <<labels, filter, todo>>
       \/ /\ Len(labels) # BPF_LABELS_MAX
          /\ labels' = IF Row(filter[i].lab) \in DOMAIN labels THEN labels
                       ELSE Append(labels, [label |-> filter[i].lab, location |-> Unset])
          /\ filter' = [filter EXCEPT ![i].k = Row(filter[i].lab)]
          /\ todo' = todo \ {i} /\ UNCHANGED stage
    /\ UNCHANGED <<prog, insn, at, data, vm>>

\* bpf_resolve_jumps up to its loop.
StartResolve ==
    /\ stage = "labels" /\ todo = {}
    /\ IF filter = <<>> THEN stage' = "false" /\ UNCHANGED <<insn, at>>
       ELSE /\ stage' = "resolve" /\ insn' = (Len(filter) - 1) % InsnMod
            /\ at' = insn' + 1
    /\ UNCHANGED <<prog, filter, labels, todo, data, vm>>

Clear(k) == filter' = [filter EXCEPT ![at] = Jmp("JA", k, 0, 0)]
Back == at' = at - 1 /\ insn' = (insn - 1) % InsnMod /\ UNCHANGED stage
IsJA(jt, jf) == /\ stage = "resolve" /\ at >= 1 /\ filter[at].op = "JA"
                /\ filter[at].jt = jt /\ filter[at].jf = jf
Location == labels[filter[at].k].location

\* The offset of a jump counts from the instruction behind it.
Offset == Location - (insn + 1)

ResolveJump ==
    /\ IsJA(255, 255)
    /\ \/ Location = Unset /\ stage' = "false" /\ UNCHANGED <<filter, insn, at>>
       \/ Location # Unset /\ Clear(Offset) /\ Back
    /\ UNCHANGED <<prog, labels, todo, data, vm>>

\* Mutant: a label that is used twice moves.
LabelAgain ==
    /\ IsJA(254, 254) /\ Clear(0) /\ Back
    /\ labels' = [labels EXCEPT ![filter[at].k].location = insn]
    /\ UNCHANGED <<prog, todo, data, vm>>

ResolveLabel ==
    /\ IsJA(254, 254)
    /\ \/ /\ Location # Unset /\ stage' = "false"
          /\ UNCHANGED <<labels, filter, insn, at>>
       \/ /\ Location = Unset /\ Clear(0) /\ Back
          /\ labels' = [labels EXCEPT ![filter[at].k].location = insn]
    /\ UNCHANGED <<prog, todo, data, vm>>

ResolveOther ==
    /\ stage = "resolve" /\ at >= 1 /\ ~IsJA(255, 255) /\ ~IsJA(254, 254)
    /\ Back /\ UNCHANGED <<prog, filter, labels, todo, data, vm>>

EndResolve ==
    /\ stage = "resolve" /\ at = 0 /\ stage' = "commit"
    /\ UNCHANGED <<prog, filter, labels, todo, insn, at, data, vm>>

-----------------------------------------------------------------------------
(* The kernel takes the filter and runs it.                                 *)

\* What the kernel asks of a filter: jumps stay inside, the end is a RET.
\* prctl(PR_SET_SECCOMP) refuses others.
Valid(f) ==
    /\ f[Len(f)].op = "RET"
    /\ \A i \in DOMAIN f :
         /\ f[i].op = "JA" => f[i].k >= 0 /\ i + 1 + f[i].k <= Len(f)
         /\ f[i].op \in Tests =>
              i + 1 + f[i].jt <= Len(f) /\ i + 1 + f[i].jf <= Len(f)

\* sandboxPrepareAndCommit after the jumps are resolved; a system call of
\* the jail then meets the filter.
Commit ==
    /\ stage = "commit"
    /\ \/ /\ Valid(filter) /\ stage' = "run" /\ at' = 1
          /\ data' \in [arch : Arch, nr : Nr, lo : 0 .. Half - 1, hi : 0 .. Half - 1]
          /\ IF prog.kind = "policy" THEN data'.lo = 0 /\ data'.hi = 0
             ELSE data'.arch = AUDIT_ARCH_X86_64 /\ data'.nr = 103
       \/ (PrctlFails \/ ~Valid(filter)) /\ stage' = "false" /\ UNCHANGED <<at, data>>
    /\ UNCHANGED <<prog, filter, labels, todo, insn, vm>>

\* a & b is not 0, if bits are the bits that a and b may have.
Common(a, b, bits) == \E m \in bits : (a \div m) % 2 = 1 /\ (b \div m) % 2 = 1

Cur == filter[at]
Holds == CASE Cur.op = "JEQ" -> vm.A = Cur.k
           [] Cur.op = "JGT" -> vm.A > Cur.k
           [] Cur.op = "JGE" -> vm.A >= Cur.k
           [] Cur.op = "JSET" -> Common(vm.A, Cur.k, Bits)

\* One instruction; the verdict of RET is the final stage.
Execute ==
    /\ stage = "run"
    /\ stage' = IF Cur.op = "RET" THEN Cur.k ELSE stage
    /\ vm' = CASE Cur.op = "LD" -> [vm EXCEPT !.A = data[Cur.k]]
               [] Cur.op = "LDM" -> [vm EXCEPT !.A = vm.M[Cur.k + 1]]
               [] Cur.op = "ST" -> [vm EXCEPT !.M[Cur.k + 1] = vm.A]
               [] OTHER -> vm
    /\ at' = CASE Cur.op = "RET" -> at
               [] Cur.op = "JA" -> at + 1 + Cur.k
               [] Cur.op \in Tests ->
                    at + 1 + (IF Holds THEN Cur.jt ELSE Cur.jf)
               [] OTHER -> at + 1
    /\ UNCHANGED <<prog, filter, labels, todo, insn, data>>

Next ==
    \/ \E i \in todo : seccomp_bpf_label(i)
    \/ StartResolve \/ ResolveJump \/ ResolveLabel \/ ResolveOther \/ EndResolve
    \/ Commit \/ Execute
Spec == Init /\ [][Next]_vars
=============================================================================
