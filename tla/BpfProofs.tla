----------------------------- MODULE BpfProofs -----------------------------
(***************************************************************************)
(* For every set of programs, every width of a word and every size of the  *)
(* table of labels: what bpf-helper makes of the jumps and labels of a     *)
(* filter.  BpfInv follows the two passes over the labels and the filter   *)
(* that runs; ResolveInv has where the resolved jumps lead.                *)
(***************************************************************************)
EXTENDS BpfProperties, TLAPS

-----------------------------------------------------------------------------
(* The instructions that the macros write.                                  *)

\* What the macros can write.
Insn ==
    [op : {"LD"}, k : {"arch", "nr", "lo", "hi"}, jt : {0}, jf : {0}, lab : {"none"}]
      \cup [op : {"LDM", "ST"}, k : {0, 1}, jt : {0}, jf : {0}, lab : {"none"}]
      \cup [op : {"RET"}, k : Verdict, jt : {0}, jf : {0}, lab : {"none"}]
      \cup [op : Tests, k : Nat, jt : Nat, jf : Nat, lab : {"none"}]
      \cup [op : {"JA"}, k : {0}, jt : {254}, jf : {254}, lab : LabelNames]
      \cup [op : {"JA"}, k : {0}, jt : {255}, jf : {255}, lab : LabelNames]

\* Every macro of bpf-helper.h writes instructions of the known kinds.
LEMMA MacrosTyped ==
    /\ \A v \in Verdict : Stmt("RET", v) \in Insn
    /\ \A f \in {"arch", "nr", "lo", "hi"} : Stmt("LD", f) \in Insn
    /\ \A n \in {0, 1} : Stmt("LDM", n) \in Insn /\ Stmt("ST", n) \in Insn
    /\ \A op \in Tests, v, jt, jf \in Nat : Jmp(op, v, jt, jf) \in Insn
    /\ \A l \in LabelNames : JUMP(l) \in Insn /\ LABEL(l) \in Insn
<1>1. \A v \in Verdict : Stmt("RET", v) \in Insn
  BY DEF Stmt, Insn
<1>2. \A f \in {"arch", "nr", "lo", "hi"} : Stmt("LD", f) \in Insn
  BY DEF Stmt, Insn
<1>3. \A n \in {0, 1} : Stmt("LDM", n) \in Insn /\ Stmt("ST", n) \in Insn
  BY DEF Stmt, Insn
<1>4. \A op \in Tests, v, jt, jf \in Nat : Jmp(op, v, jt, jf) \in Insn
  BY DEF Jmp, Insn
<1>5. \A l \in LabelNames : JUMP(l) \in Insn /\ LABEL(l) \in Insn
  BY DEF JUMP, LABEL, Insn
<1> QED BY <1>1, <1>2, <1>3, <1>4, <1>5

\* The programs of other callers consist of such instructions, too.
LEMMA WrittenTyped == ASSUME NEW i, Written(i) PROVE i \in Insn
<1>1. CASE i.op = "LD" /\ i.k \in {"arch", "nr", "lo", "hi"} /\ i = Stmt("LD", i.k)
  BY <1>1, MacrosTyped
<1>2. CASE i.op \in {"LDM", "ST"} /\ i.k \in {0, 1} /\ i = Stmt(i.op, i.k)
  BY <1>2, MacrosTyped
<1>3. CASE i.op = "RET" /\ i.k \in Verdict /\ i = Stmt("RET", i.k)
  BY <1>3, MacrosTyped
<1>4. CASE i.op \in Tests /\ {i.k, i.jt, i.jf} \subseteq Nat /\ i = Jmp(i.op, i.k, i.jt, i.jf)
  BY <1>4, MacrosTyped
<1>5. CASE i.op = "JA" /\ i.lab \in LabelNames /\ i \in {JUMP(i.lab), LABEL(i.lab)}
  BY <1>5, MacrosTyped
<1> QED BY <1>1, <1>2, <1>3, <1>4, <1>5 DEF Written

\* What the operands of the instructions are, apart from each other.
LdInsn(i) == i.lab = "none" /\ i.k \in {"arch", "nr", "lo", "hi"}
MemInsn(i) == i.lab = "none" /\ i.k \in {0, 1}
RetInsn(i) == i.lab = "none" /\ i.k \in Verdict
TestInsn(i) == i.lab = "none" /\ i.k \in Nat /\ i.jt \in Nat /\ i.jf \in Nat

\* An instruction with a label is a JUMP or a LABEL; no other one is a BPF_JA.
LEMMA InsnShape ==
    ASSUME NEW i \in Insn
    PROVE  /\ i.lab # "none" => /\ i.lab \in LabelNames /\ i.op = "JA"
                                /\ \/ i = JUMP(i.lab) /\ i.jt = 255 /\ i.jf = 255
                                   \/ i = LABEL(i.lab) /\ i.jt = 254 /\ i.jf = 254
           /\ i.lab = "none" => i.op \in {"LD", "LDM", "ST", "RET"} \cup Tests
           /\ i.op = "LD" => LdInsn(i)
           /\ i.op \in {"LDM", "ST"} => MemInsn(i)
           /\ i.op = "RET" => RetInsn(i)
           /\ i.op \in Tests => TestInsn(i)
<1>0. /\ \A op \in Tests : op \notin {"LD", "LDM", "ST", "RET", "JA"}
      /\ "none" \notin LabelNames
  BY ProgramAssumption DEF Tests
<1>1. CASE i \in [op : {"LD"}, k : {"arch", "nr", "lo", "hi"}, jt : {0}, jf : {0}, lab : {"none"}]
  <2>1. i.op = "LD" /\ i.lab = "none" /\ LdInsn(i)
    BY <1>1 DEF LdInsn
  <2> QED BY <1>0, <2>1
<1>2. CASE i \in [op : {"LDM", "ST"}, k : {0, 1}, jt : {0}, jf : {0}, lab : {"none"}]
  <2>1. i.op \in {"LDM", "ST"} /\ i.lab = "none" /\ MemInsn(i)
    BY <1>2 DEF MemInsn
  <2> QED BY <1>0, <2>1
<1>3. CASE i \in [op : {"RET"}, k : Verdict, jt : {0}, jf : {0}, lab : {"none"}]
  <2>1. i.op = "RET" /\ i.lab = "none" /\ RetInsn(i)
    BY <1>3 DEF RetInsn
  <2> QED BY <1>0, <2>1
<1>4. CASE i \in [op : Tests, k : Nat, jt : Nat, jf : Nat, lab : {"none"}]
  <2>1. i.op \in Tests /\ i.lab = "none" /\ TestInsn(i)
    BY <1>4 DEF TestInsn
  <2> QED BY <1>0, <2>1
<1>5. CASE i \in [op : {"JA"}, k : {0}, jt : {254}, jf : {254}, lab : LabelNames]
  <2>1. i = LABEL(i.lab) /\ i.lab \in LabelNames /\ i.op = "JA" /\ i.jt = 254 /\ i.jf = 254
    BY <1>5 DEF LABEL
  <2> QED BY <1>0, <2>1
<1>6. CASE i \in [op : {"JA"}, k : {0}, jt : {255}, jf : {255}, lab : LabelNames]
  <2>1. i = JUMP(i.lab) /\ i.lab \in LabelNames /\ i.op = "JA" /\ i.jt = 255 /\ i.jf = 255
    BY <1>6 DEF JUMP
  <2> QED BY <1>0, <2>1
<1> QED BY <1>1, <1>2, <1>3, <1>4, <1>5, <1>6 DEF Insn

\* The programs one by one.
LEMMA CodeCases ==
    \A p \in Programs :
      /\ p.kind = "policy" => Code(p) = sandboxPolicy
      /\ p.kind = "tests64" =>
           Code(p) = ARG_64 \o Test64(p.op[1], p.lo[1], p.hi[1], Stmt("RET", "first"))
                            \o Test64(p.op[2], p.lo[2], p.hi[2], Stmt("RET", "second"))
                            \o <<ALLOW>>
      /\ p.kind = "tests32" =>
           Code(p) = ARG_32 \o Test32(p.op[1], p.lo[1], Stmt("RET", "first"))
                            \o Test32(p.op[2], p.lo[2], Stmt("RET", "second")) \o <<ALLOW>>
      /\ p.kind = "code" => Code(p) = p.code
BY Zenon DEF Code

\* A test of a 32 bit argument is a list of instructions.
LEMMA Test32Typed ==
    ASSUME NEW op \in Compares, NEW v \in Nat, NEW jt \in Insn
    PROVE  Test32(op, v, jt) \in Seq(Insn)
<1>1. \A o \in Tests, a, b \in Nat : <<Jmp(o, v, a, b), jt>> \in Seq(Insn)
  BY MacrosTyped
<1>2. /\ JEQ32(v, jt) \in Seq(Insn) /\ JNE32(v, jt) \in Seq(Insn)
      /\ JA32(v, jt) \in Seq(Insn) /\ JGE32(v, jt) \in Seq(Insn)
      /\ JLT32(v, jt) \in Seq(Insn) /\ JGT32(v, jt) \in Seq(Insn)
      /\ JLE32(v, jt) \in Seq(Insn)
  BY <1>1 DEF JEQ32, JNE32, JA32, JGE32, JLT32, JGT32, JLE32, Tests
<1> QED BY <1>2 DEF Test32, Compares

\* So is a test of a 64 bit argument.
LEMMA Test64Typed ==
    ASSUME NEW op \in Compares, NEW lo \in Nat, NEW hi \in Nat, NEW jt \in Insn
    PROVE  Test64(op, lo, hi, jt) \in Seq(Insn)
<1>1. \A v \in {lo, hi}, a, b \in Nat :
        /\ Jmp("JEQ", v, a, b) \in Insn /\ Jmp("JGT", v, a, b) \in Insn
        /\ Jmp("JGE", v, a, b) \in Insn /\ Jmp("JSET", v, a, b) \in Insn
  BY MacrosTyped DEF Tests
<1>2. Swap(0) \in Insn /\ Swap(1) \in Insn
  BY MacrosTyped DEF Swap
<1>3. JEQ64(lo, hi, jt) \in Seq(Insn)
  <2>1. /\ Jmp("JEQ", hi, 0, 5) \in Insn
        /\ Jmp("JEQ", lo, 0, 2) \in Insn
    BY <1>1
  <2> QED BY <1>2, <2>1 DEF JEQ64
<1>4. JNE64(lo, hi, jt) \in Seq(Insn)
  <2>1. /\ Jmp("JEQ", hi, 5, 0) \in Insn
        /\ Jmp("JEQ", lo, 2, 0) \in Insn
    BY <1>1
  <2> QED BY <1>2, <2>1 DEF JNE64
<1>5. JA64(lo, hi, jt) \in Seq(Insn)
  <2>1. /\ Jmp("JSET", hi, 3, 0) \in Insn
        /\ Jmp("JSET", lo, 0, 2) \in Insn
    BY <1>1
  <2> QED BY <1>2, <2>1 DEF JA64
<1>6. JGE64(lo, hi, jt) \in Seq(Insn)
  <2>1. /\ Jmp("JGT", hi, 4, 0) \in Insn
        /\ Jmp("JEQ", hi, 0, 5) \in Insn
        /\ Jmp("JGE", lo, 0, 2) \in Insn
    BY <1>1
  <2> QED BY <1>2, <2>1 DEF JGE64
<1>7. JLT64(lo, hi, jt) \in Seq(Insn)
  <2>1. /\ Jmp("JGE", hi, 0, 4) \in Insn
        /\ Jmp("JEQ", hi, 0, 5) \in Insn
        /\ Jmp("JGT", lo, 2, 0) \in Insn
    BY <1>1
  <2> QED BY <1>2, <2>1 DEF JLT64
<1>8. JGT64(lo, hi, jt) \in Seq(Insn)
  <2>1. /\ Jmp("JGT", hi, 4, 0) \in Insn
        /\ Jmp("JEQ", hi, 0, 5) \in Insn
        /\ Jmp("JGT", lo, 0, 2) \in Insn
    BY <1>1
  <2> QED BY <1>2, <2>1 DEF JGT64
<1>9. JLE64(lo, hi, jt) \in Seq(Insn)
  <2>1. /\ Jmp("JGT", hi, 6, 0) \in Insn
        /\ Jmp("JEQ", hi, 0, 3) \in Insn
        /\ Jmp("JGT", lo, 2, 0) \in Insn
    BY <1>1
  <2> QED BY <1>2, <2>1 DEF JLE64
<1> QED BY <1>3, <1>4, <1>5, <1>6, <1>7, <1>8, <1>9 DEF Test64, Compares

\* Every program is a list of instructions.
LEMMA CodeTyped == \A p \in Programs : Code(p) \in Seq(Insn)
<1> SUFFICES ASSUME NEW p \in Programs PROVE Code(p) \in Seq(Insn)
  BY Zenon
<1>1. \A v \in Verdict : Stmt("RET", v) \in Insn
  BY MacrosTyped, Zenon
<1>2. <<ALLOW>> \in Seq(Insn) /\ ALLOW \in Insn /\ KILL \in Insn /\ ERRNO \in Insn
  <2>1. ALLOW \in Insn /\ KILL \in Insn /\ ERRNO \in Insn
    BY <1>1 DEF ALLOW, KILL, ERRNO, Verdict
  <2> QED BY <2>1
<1>3. CASE p.kind = "policy"
  <2>1. \A v \in Nat, jt \in Insn : JEQ32(v, jt) \in Seq(Insn)
    <3>1. \A v \in Nat, a, b \in Nat : Jmp("JEQ", v, a, b) \in Insn
      BY MacrosTyped DEF Tests
    <3> QED BY <3>1 DEF JEQ32
  <2>2. \A l \in LabelNames : JUMP(l) \in Insn /\ LABEL(l) \in Insn
    BY MacrosTyped
  <2>3. LOAD_ARCH \in Insn /\ LOAD_SYSCALL_NR \in Insn
    BY MacrosTyped DEF LOAD_ARCH, LOAD_SYSCALL_NR
  <2>4. \A l \in LabelNames, n \in Nat : Section(l, n) \in Seq(Insn)
    BY <1>2, <2>1, <2>2, <2>3 DEF Section
  <2>5. sandboxPolicy \in Seq(Insn)
    <3>1. <<LOAD_ARCH>> \in Seq(Insn)
      BY <2>3
    <3>2. /\ JEQ32(3, JUMP("label_i386")) \in Seq(Insn)
          /\ JEQ32(62, JUMP("label_x86_64")) \in Seq(Insn)
          /\ Section("label_i386", 86) \in Seq(Insn)
          /\ Section("label_x86_64", 134) \in Seq(Insn)
      BY <2>1, <2>2, <2>4, ProgramAssumption, Zenon
    <3> QED BY <3>1, <3>2 DEF sandboxPolicy, AUDIT_ARCH_I386, AUDIT_ARCH_X86_64
  <2> QED BY <1>3, <2>5, CodeCases
<1>4. CASE p.kind = "tests64"
  <2>1. /\ p.op[1] \in Compares /\ p.op[2] \in Compares
        /\ p.lo[1] \in Nat /\ p.lo[2] \in Nat /\ p.hi[1] \in Nat /\ p.hi[2] \in Nat
    <3>1. /\ p.op \in Compares \X Compares
          /\ p.lo \in (0 .. Half - 1) \X (0 .. Half - 1)
          /\ p.hi \in (0 .. Half - 1) \X (0 .. Half - 1)
      BY <1>4, ProgramAssumption, Zenon
    <3> QED BY <3>1, BpfAssumption
  <2>2. Stmt("RET", "first") \in Insn /\ Stmt("RET", "second") \in Insn
    BY <1>1 DEF Verdict
  <2>3. ARG_64 \in Seq(Insn)
    <3>1. /\ Stmt("LD", "lo") \in Insn /\ Stmt("LD", "hi") \in Insn
          /\ Stmt("ST", 0) \in Insn /\ Stmt("ST", 1) \in Insn
      BY MacrosTyped
    <3> QED BY <3>1 DEF ARG_64
  <2>4. /\ Test64(p.op[1], p.lo[1], p.hi[1], Stmt("RET", "first")) \in Seq(Insn)
        /\ Test64(p.op[2], p.lo[2], p.hi[2], Stmt("RET", "second")) \in Seq(Insn)
    BY <2>1, <2>2, Test64Typed, Zenon
  <2>5. Code(p) = ARG_64 \o Test64(p.op[1], p.lo[1], p.hi[1], Stmt("RET", "first"))
                    \o Test64(p.op[2], p.lo[2], p.hi[2], Stmt("RET", "second")) \o <<ALLOW>>
    BY <1>4, CodeCases
  <2> QED BY <1>2, <2>3, <2>4, <2>5
<1>5. CASE p.kind = "tests32"
  <2>1. /\ p.op[1] \in Compares /\ p.op[2] \in Compares
        /\ p.lo[1] \in Nat /\ p.lo[2] \in Nat
    <3>1. p.op \in Compares \X Compares /\ p.lo \in (0 .. Half - 1) \X (0 .. Half - 1)
      BY <1>5, ProgramAssumption, Zenon
    <3> QED BY <3>1, BpfAssumption
  <2>2. Stmt("RET", "first") \in Insn /\ Stmt("RET", "second") \in Insn
    BY <1>1 DEF Verdict
  <2>3. ARG_32 \in Seq(Insn)
    <3>1. Stmt("LD", "lo") \in Insn
      BY MacrosTyped
    <3> QED BY <3>1 DEF ARG_32
  <2>4. /\ Test32(p.op[1], p.lo[1], Stmt("RET", "first")) \in Seq(Insn)
        /\ Test32(p.op[2], p.lo[2], Stmt("RET", "second")) \in Seq(Insn)
    BY <2>1, <2>2, Test32Typed, Zenon
  <2>5. Code(p) = ARG_32 \o Test32(p.op[1], p.lo[1], Stmt("RET", "first"))
                    \o Test32(p.op[2], p.lo[2], Stmt("RET", "second")) \o <<ALLOW>>
    BY <1>5, CodeCases
  <2> QED BY <1>2, <2>3, <2>4, <2>5
<1>6. CASE p.kind = "code"
  <2>1. /\ p.code \in Seq({p.code[i] : i \in DOMAIN p.code})
        /\ \A i \in DOMAIN p.code : Written(p.code[i])
    BY <1>6, ProgramAssumption
  <2>2. \A i \in DOMAIN p.code : p.code[i] \in Insn
    BY <2>1, WrittenTyped
  <2>3. p.code \in Seq(Insn)
    BY <2>1, <2>2
  <2> QED BY <1>6, <2>3, CodeCases
<1> QED BY <1>3, <1>4, <1>5, <1>6, ProgramAssumption, Zenon

-----------------------------------------------------------------------------
(* The two passes over the labels.                                          *)

WithLabel == {i \in DOMAIN Source : Source[i].lab # "none"}
Word == Arch \cup Nr \cup 0 .. Half - 1
RowType == [label : LabelNames, location : {Unset} \cup Nat]
Calls == [arch : Arch, nr : Nr, lo : 0 .. Half - 1, hi : 0 .. Half - 1]

\* seccomp_bpf_label has put the row of its label into instruction i.
Numbered(i) ==
    /\ filter[i].k \in DOMAIN labels /\ labels[filter[i].k].label = Source[i].lab
    /\ filter[i] = [Source[i] EXCEPT !.k = filter[i].k]

\* Where bpf_resolve_jumps starts to walk back.
Start == ((Len(Source) - 1) % InsnMod) + 1

\* What is written of the filter, and the table of labels without duplicates.
FilterInv ==
    /\ prog \in Programs /\ DOMAIN filter = DOMAIN Source /\ Len(filter) = Len(Source)
    /\ \A i \in DOMAIN Source :
         IF Source[i].lab = "none" THEN filter[i] = Source[i]
         ELSE filter[i].op = "JA" /\ filter[i].k \in Int
    /\ labels \in Seq(RowType) /\ Len(labels) <= BPF_LABELS_MAX
    /\ \A r, s \in DOMAIN labels : labels[r].label = labels[s].label => r = s
    /\ at \in 0 .. Len(Source) /\ insn \in 0 .. InsnMod - 1 /\ todo \subseteq WithLabel

\* How far the two passes are.
PassInv ==
    /\ stage \in {"labels", "resolve", "commit", "run", "false", "exit1"} \cup Verdict
    /\ stage = "labels" =>
         /\ at = 0 /\ \A r \in DOMAIN labels : labels[r].location = Unset
         /\ \A i \in WithLabel : IF i \in todo THEN filter[i] = Source[i] ELSE Numbered(i)
    /\ stage = "resolve" =>
         /\ Source # <<>> /\ at <= Start /\ (at # 0 => insn = at - 1)
         /\ \A i \in WithLabel : i <= at => Numbered(i)
    /\ stage = "commit" => at = 0 /\ Source # <<>>

\* The filter that runs is one the kernel took, and its words are in range.
RunInv ==
    /\ vm.A \in Word /\ vm.M \in [{1, 2} -> Word] /\ vm = [A |-> vm.A, M |-> vm.M]
    /\ stage = "run" => Valid(filter) /\ at \in DOMAIN filter /\ data \in Calls

BpfInv == FilterInv /\ PassInv /\ RunInv

\* What bpf_resolve_jumps makes of the JUMP or LABEL at i.
Resolved(i) ==
    /\ i \in Jumps => /\ filter[i].k \in Nat /\ filter[i] = Jmp("JA", filter[i].k, 0, 0)
                      /\ i + 1 + filter[i].k \in Labels(Source[i].lab)
    /\ i \notin Jumps => filter[i] = Jmp("JA", 0, 0, 0)

\* The instructions behind the one that bpf_resolve_jumps is at are resolved,
\* and the table has the places of the labels among them.
ResolveInv ==
    /\ stage = "resolve" =>
         /\ \A i \in WithLabel : at < i /\ i <= Start =>
              /\ Resolved(i)
              /\ i \notin Jumps =>
                   \E r \in DOMAIN labels : /\ labels[r].label = Source[i].lab
                                            /\ labels[r].location = i - 1
         /\ \A r \in DOMAIN labels : labels[r].location # Unset =>
              /\ labels[r].location + 1 \in Labels(labels[r].label)
              /\ at <= labels[r].location
    /\ Len(Source) <= InsnMod =>
         /\ stage \in {"commit", "run"} \cup Verdict =>
              WellFormed /\ \A i \in WithLabel : Resolved(i)
         /\ stage = "false" /\ at # 0 => ~WellFormed

\* The program as a sequence; it never changes.
LEMMA SourceTyped ==
    ASSUME prog \in Programs
    PROVE  /\ Source \in Seq(Insn) /\ Len(Source) \in Nat
           /\ DOMAIN Source = 1 .. Len(Source)
           /\ \A i \in DOMAIN Source : Source[i] \in Insn
<1>1. Source \in Seq(Insn)
  BY CodeTyped DEF Source
<1> QED BY <1>1

\* The fields of a JUMP and of a LABEL, before and after it is numbered.
LEMMA LabelFields ==
    \A l, n :
      /\ JUMP(l).op = "JA" /\ JUMP(l).k \in Int /\ LABEL(l).op = "JA" /\ LABEL(l).k \in Int
      /\ [JUMP(l) EXCEPT !.k = n].op = "JA" /\ [JUMP(l) EXCEPT !.k = n].k = n
      /\ [JUMP(l) EXCEPT !.k = n].jt = 255 /\ [JUMP(l) EXCEPT !.k = n].jf = 255
      /\ [LABEL(l) EXCEPT !.k = n].op = "JA" /\ [LABEL(l) EXCEPT !.k = n].k = n
      /\ [LABEL(l) EXCEPT !.k = n].jt = 254 /\ [LABEL(l) EXCEPT !.k = n].jf = 254
BY DEF JUMP, LABEL

\* The JUMPs and LABELs of a program.
LEMMA LabelledInsn ==
    ASSUME prog \in Programs, NEW i \in WithLabel
    PROVE  /\ i \in DOMAIN Source /\ Source[i].lab \in LabelNames /\ Source[i].op = "JA"
           /\ i \in Jumps => /\ Source[i] = JUMP(Source[i].lab)
                             /\ Source[i].jt = 255 /\ Source[i].jf = 255
           /\ i \notin Jumps => /\ Source[i] = LABEL(Source[i].lab)
                                /\ Source[i].jt = 254 /\ Source[i].jf = 254
                                /\ i \in Labels(Source[i].lab)
<1>1. i \in DOMAIN Source /\ Source[i] \in Insn /\ Source[i].lab # "none"
  BY SourceTyped DEF WithLabel
<1>2. /\ Source[i].lab \in LabelNames /\ Source[i].op = "JA"
      /\ \/ Source[i] = JUMP(Source[i].lab) /\ Source[i].jt = 255 /\ Source[i].jf = 255
         \/ Source[i] = LABEL(Source[i].lab) /\ Source[i].jt = 254 /\ Source[i].jf = 254
  BY <1>1, InsnShape
<1>3. i \in Jumps <=> Source[i].jt = 255
  BY <1>1 DEF Jumps
<1>4. Source[i].jt = 254 => i \in Labels(Source[i].lab)
  BY <1>1 DEF Labels
<1>5. \/ Source[i] = JUMP(Source[i].lab) /\ Source[i].jt = 255 /\ Source[i].jf = 255
         /\ i \in Jumps
      \/ Source[i] = LABEL(Source[i].lab) /\ Source[i].jt = 254 /\ Source[i].jf = 254
         /\ i \notin Jumps
  <2>1. CASE Source[i] = JUMP(Source[i].lab) /\ Source[i].jt = 255 /\ Source[i].jf = 255
    BY <1>3, <2>1, Zenon
  <2>2. CASE Source[i] = LABEL(Source[i].lab) /\ Source[i].jt = 254 /\ Source[i].jf = 254
    <3>1. Source[i].jt # 255
      BY <2>2
    <3> QED BY <1>3, <2>2, <3>1, Zenon
  <2> QED BY <1>2, <2>1, <2>2, Zenon
<1> QED BY <1>1, <1>2, <1>4, <1>5, Zenon

\* What is said of the program alone stays as it is.
LEMMA SameSource ==
    ASSUME prog' = prog
    PROVE  /\ Source' = Source /\ WithLabel' = WithLabel /\ Jumps' = Jumps /\ Start' = Start
           /\ WellFormed' <=> WellFormed
           /\ \A l : Labels(l)' = Labels(l)
<1>1. Source' = Source
  BY DEF Source
<1>2. WithLabel' = WithLabel /\ Jumps' = Jumps /\ Start' = Start
  BY <1>1 DEF WithLabel, Jumps, Start
<1>3. \A l : Labels(l)' = Labels(l)
  BY <1>1 DEF Labels
<1>4. WellFormed' <=> WellFormed
  BY <1>1, <1>2, <1>3, Zenon DEF WellFormed
<1> QED BY <1>1, <1>2, <1>3, <1>4

\* Initially nothing is numbered.
LEMMA InitBpf == Init => BpfInv /\ ResolveInv
<1> SUFFICES ASSUME Init PROVE BpfInv /\ ResolveInv
  OBVIOUS
<1>1. prog \in Programs /\ filter = Source /\ stage = "labels" /\ at = 0
      /\ labels = <<>> /\ insn = 0
  BY DEF Init, Source
<1>2. todo = WithLabel
  BY <1>1 DEF Init, WithLabel
<1>3. FilterInv
  <2>1. \A i \in DOMAIN Source :
          IF Source[i].lab = "none" THEN filter[i] = Source[i]
          ELSE filter[i].op = "JA" /\ filter[i].k \in Int
    <3> SUFFICES ASSUME NEW i \in DOMAIN Source, Source[i].lab # "none"
                 PROVE  filter[i].op = "JA" /\ filter[i].k \in Int
      BY <1>1
    <3>1. i \in WithLabel
      BY DEF WithLabel
    <3>2. \/ Source[i] = JUMP(Source[i].lab) \/ Source[i] = LABEL(Source[i].lab)
      BY <1>1, <3>1, LabelledInsn
    <3>3. \A l : /\ JUMP(l).op = "JA" /\ JUMP(l).k \in Int
                 /\ LABEL(l).op = "JA" /\ LABEL(l).k \in Int
      BY LabelFields
    <3>4. Source[i].op = "JA" /\ Source[i].k \in Int
      BY <3>2, <3>3, Zenon
    <3> QED BY <1>1, <3>4, Zenon
  <2>2. labels \in Seq(RowType) /\ Len(labels) <= BPF_LABELS_MAX /\ DOMAIN labels = {}
    BY <1>1, BpfAssumption
  <2>3. at \in 0 .. Len(Source) /\ insn \in 0 .. InsnMod - 1
    BY <1>1, SourceTyped, BpfAssumption
  <2> QED BY <1>1, <1>2, <2>1, <2>2, <2>3 DEF FilterInv
<1>4. PassInv
  BY <1>1, <1>2 DEF PassInv, Verdict
<1>5. RunInv
  <2>0. 0 \in 0 .. Half - 1
    BY BpfAssumption
  <2>1. vm = [A |-> 0, M |-> <<0, 0>>] /\ 0 \in Word
    BY <2>0 DEF Init, Word
  <2>2. <<0, 0>> \in [{1, 2} -> Word]
    BY <2>1
  <2> QED BY <1>1, <2>1, <2>2 DEF RunInv
<1>6. ResolveInv
  BY <1>1 DEF ResolveInv, Verdict
<1> QED BY <1>3, <1>4, <1>5, <1>6 DEF BpfInv

\* The row that seccomp_bpf_label finds.
LEMMA RowOf ==
    ASSUME labels \in Seq(RowType), NEW l
    PROVE  \/ Row(l) \in DOMAIN labels /\ labels[Row(l)].label = l
           \/ Row(l) = Len(labels) + 1 /\ Row(l) \notin DOMAIN labels
              /\ \A r \in DOMAIN labels : labels[r].label # l
<1>1. CASE \E r \in DOMAIN labels : labels[r].label = l
  BY <1>1 DEF Row
<1>2. CASE ~\E r \in DOMAIN labels : labels[r].label = l
  <2>1. Row(l) = Len(labels) + 1
    BY <1>2 DEF Row
  <2> QED BY <1>2, <2>1
<1> QED BY <1>1, <1>2

\* seccomp_bpf_label either gives up or numbers one instruction.
LEMMA LabelInv ==
    ASSUME BpfInv, ResolveInv, NEW i \in todo, seccomp_bpf_label(i)
    PROVE  BpfInv' /\ ResolveInv'
<1>1. /\ stage = "labels" /\ UNCHANGED <<prog, insn, at, data, vm>>
      /\ FilterInv /\ PassInv /\ RunInv /\ prog \in Programs /\ i \in WithLabel
  BY DEF seccomp_bpf_label, BpfInv, FilterInv
<1>2. Source' = Source /\ WithLabel' = WithLabel
  BY <1>1, SameSource
<1>3. stage' \in {"labels", "exit1"}
  BY <1>1 DEF seccomp_bpf_label
<1>4. RunInv' /\ ResolveInv'
  <2>1. RunInv'
    BY <1>1, <1>3 DEF RunInv
  <2>2. ResolveInv'
    BY <1>3 DEF ResolveInv, Verdict
  <2> QED BY <2>1, <2>2
<1>5. CASE stage' = "exit1"
  <2>1. UNCHANGED <<labels, filter, todo>>
    BY <1>1, <1>5 DEF seccomp_bpf_label
  <2>2. FilterInv'
    BY <1>1, <1>2, <2>1 DEF FilterInv
  <2>3. PassInv'
    BY <1>5 DEF PassInv
  <2> QED BY <1>4, <2>2, <2>3 DEF BpfInv
<1>6. CASE stage' = "labels"
  <2> DEFINE l == Source[i].lab
             n == Row(l)
  <2>1. /\ filter[i] = Source[i] /\ Len(labels) # BPF_LABELS_MAX /\ todo' = todo \ {i}
        /\ labels' = IF n \in DOMAIN labels THEN labels
                     ELSE Append(labels, [label |-> l, location |-> Unset])
        /\ filter' = [filter EXCEPT ![i].k = n]
    BY <1>1, <1>6 DEF seccomp_bpf_label, PassInv
  <2>2. l \in LabelNames /\ i \in DOMAIN Source /\ Source[i].op = "JA"
    BY <1>1, LabelledInsn
  <2>3. labels \in Seq(RowType) /\ Len(labels) <= BPF_LABELS_MAX
    BY <1>1 DEF FilterInv
  <2>4. /\ labels' \in Seq(RowType) /\ Len(labels') <= BPF_LABELS_MAX
        /\ DOMAIN labels \subseteq DOMAIN labels' /\ n \in DOMAIN labels' /\ n \in Nat
        /\ \A r \in DOMAIN labels : labels'[r] = labels[r]
        /\ labels'[n].label = l
        /\ \A r \in DOMAIN labels' : r \in DOMAIN labels \/ (r = n /\ labels'[r].location = Unset)
    <3>1. CASE n \in DOMAIN labels
      BY <2>1, <2>3, <3>1, RowOf
    <3>2. CASE n \notin DOMAIN labels
      <4>1. n = Len(labels) + 1
        BY <2>3, <3>2, RowOf
      <4>2. [label |-> l, location |-> Unset] \in RowType
        BY <2>2 DEF RowType
      <4>3. labels' = Append(labels, [label |-> l, location |-> Unset])
        BY <2>1, <3>2
      <4>4. /\ labels' \in Seq(RowType) /\ Len(labels') = Len(labels) + 1
            /\ \A r \in DOMAIN labels : labels'[r] = labels[r]
            /\ labels'[n] = [label |-> l, location |-> Unset]
        BY <2>3, <4>1, <4>2, <4>3
      <4>5. Len(labels) + 1 <= BPF_LABELS_MAX
        BY <2>1, <2>3, BpfAssumption
      <4> QED BY <2>3, <4>1, <4>4, <4>5
    <3> QED BY <3>1, <3>2
  <2>5. \A r, s \in DOMAIN labels' : labels'[r].label = labels'[s].label => r = s
    <3>1. \A r, s \in DOMAIN labels : labels[r].label = labels[s].label => r = s
      BY <1>1 DEF FilterInv
    <3>2. n \notin DOMAIN labels => \A r \in DOMAIN labels : labels[r].label # l
      BY <2>3, RowOf
    <3> QED BY <2>4, <3>1, <3>2
  <2>6. /\ DOMAIN filter = DOMAIN Source /\ Len(filter) = Len(Source)
        /\ DOMAIN filter' = DOMAIN filter /\ filter'[i] = [Source[i] EXCEPT !.k = n]
        /\ \A j \in DOMAIN Source : j # i => filter'[j] = filter[j]
    BY <1>1, <2>1, <2>2 DEF FilterInv
  <2>7. filter'[i].op = "JA" /\ filter'[i].k = n /\ Len(filter') = Len(Source)
    <3>1. \/ Source[i] = JUMP(Source[i].lab) \/ Source[i] = LABEL(Source[i].lab)
      BY <1>1, LabelledInsn
    <3>2. filter'[i].op = "JA" /\ filter'[i].k = n
      BY <2>6, <3>1, LabelFields
    <3>3. Len(filter') = Len(Source)
      BY <1>1, <2>6, SourceTyped
    <3> QED BY <3>2, <3>3
  <2>8. FilterInv'
    <3>1. \A j \in DOMAIN Source :
            IF Source[j].lab = "none" THEN filter'[j] = Source[j]
            ELSE filter'[j].op = "JA" /\ filter'[j].k \in Int
      <4> SUFFICES ASSUME NEW j \in DOMAIN Source
                   PROVE  IF Source[j].lab = "none" THEN filter'[j] = Source[j]
                          ELSE filter'[j].op = "JA" /\ filter'[j].k \in Int
        OBVIOUS
      <4>1. CASE j = i
        <5>1. Source[i].lab # "none" /\ filter'[i].op = "JA" /\ filter'[i].k \in Int
          <6>1. i \in WithLabel => Source[i].lab # "none"
            BY DEF WithLabel
          <6>2. n \in Int
            BY <2>4
          <6> QED BY <1>1, <2>7, <6>1, <6>2, Zenon
        <5> QED BY <4>1, <5>1, Zenon
      <4>2. CASE j # i
        BY <1>1, <2>6, <4>2 DEF FilterInv
      <4> QED BY <4>1, <4>2
    <3>2. todo' \subseteq WithLabel /\ at' \in 0 .. Len(Source) /\ insn' \in 0 .. InsnMod - 1
      BY <1>1, <2>1 DEF FilterInv
    <3> QED BY <1>1, <1>2, <2>4, <2>5, <2>6, <2>7, <3>1, <3>2 DEF FilterInv
  <2>9. PassInv'
    <3>1. at' = 0 /\ \A r \in DOMAIN labels' : labels'[r].location = Unset
      BY <1>1, <2>4 DEF PassInv
    <3>2. \A j \in WithLabel : IF j \in todo' THEN filter'[j] = Source[j] ELSE Numbered(j)'
      <4> SUFFICES ASSUME NEW j \in WithLabel
                   PROVE  IF j \in todo' THEN filter'[j] = Source[j] ELSE Numbered(j)'
        OBVIOUS
      <4>1. CASE j = i
        BY <1>2, <2>1, <2>4, <2>6, <2>7, <4>1 DEF Numbered
      <4>2. CASE j # i
        <5>1. filter'[j] = filter[j] /\ (j \in todo' <=> j \in todo)
          BY <2>1, <2>6, <4>2 DEF WithLabel
        <5>2. IF j \in todo THEN filter[j] = Source[j] ELSE Numbered(j)
          BY <1>1 DEF PassInv
        <5>3. Numbered(j) => Numbered(j)'
          BY <1>2, <2>4, <5>1 DEF Numbered
        <5> QED BY <5>1, <5>2, <5>3
      <4> QED BY <4>1, <4>2
    <3> QED BY <1>2, <1>6, <3>1, <3>2 DEF PassInv
  <2> QED BY <1>4, <2>8, <2>9 DEF BpfInv
<1> QED BY <1>3, <1>5, <1>6

\* The walk starts at the last instruction, or at the last one that insn counts.
LEMMA StartTyped ==
    ASSUME prog \in Programs, Source # <<>>
    PROVE  /\ Start \in 1 .. Len(Source) /\ Start \in 1 .. InsnMod
           /\ Len(Source) <= InsnMod => Start = Len(Source)
<1>1. Len(Source) \in Nat \ {0} /\ InsnMod \in Nat \ {0}
  BY SourceTyped, BpfAssumption
<1>2. /\ (Len(Source) - 1) % InsnMod \in 0 .. InsnMod - 1
      /\ (Len(Source) - 1) % InsnMod <= Len(Source) - 1
      /\ Len(Source) - 1 < InsnMod => (Len(Source) - 1) % InsnMod = Len(Source) - 1
  BY <1>1
<1> QED BY <1>1, <1>2 DEF Start

\* bpf_resolve_jumps finds all labels numbered and no place of a label known.
LEMMA StartInv ==
    ASSUME BpfInv, ResolveInv, StartResolve
    PROVE  BpfInv' /\ ResolveInv'
<1>1. /\ stage = "labels" /\ todo = {} /\ at = 0
      /\ UNCHANGED <<prog, filter, labels, todo, data, vm>>
      /\ FilterInv /\ PassInv /\ RunInv /\ prog \in Programs
  BY DEF StartResolve, BpfInv, FilterInv, PassInv
<1>2. /\ Source' = Source /\ WithLabel' = WithLabel /\ Start' = Start /\ Jumps' = Jumps
      /\ \A i : Numbered(i)' <=> Numbered(i)
  <2>1. Source' = Source /\ WithLabel' = WithLabel /\ Start' = Start /\ Jumps' = Jumps
    BY <1>1, SameSource
  <2> QED BY <1>1, <2>1 DEF Numbered
<1>3. \A i \in WithLabel : Numbered(i)
  BY <1>1 DEF PassInv
<1>4. CASE filter = <<>>
  <2>1. stage' = "false" /\ insn' = insn /\ at' = at
    BY <1>4 DEF StartResolve
  <2>2. FilterInv'
    BY <1>1, <1>2, <2>1 DEF FilterInv
  <2>3. PassInv' /\ RunInv' /\ ResolveInv'
    BY <1>1, <2>1 DEF PassInv, RunInv, ResolveInv, Verdict
  <2> QED BY <2>2, <2>3 DEF BpfInv
<1>5. CASE filter # <<>>
  <2>1. stage' = "resolve" /\ insn' = (Len(filter) - 1) % InsnMod /\ at' = insn' + 1
    BY <1>5 DEF StartResolve
  <2>2. Source # <<>> /\ Len(filter) = Len(Source)
    <3>1. DOMAIN filter = 1 .. Len(Source) /\ Len(filter) = Len(Source) /\ Len(Source) \in Nat
      BY <1>1, SourceTyped DEF FilterInv
    <3>2. filter # <<>> => Len(Source) # 0
      BY <1>1, <3>1, <1>5, SourceTyped DEF FilterInv
    <3> QED BY <1>5, <3>1, <3>2
  <2>3. at' = Start /\ insn' = at' - 1 /\ Start \in 1 .. Len(Source) /\ Start \in 1 .. InsnMod
    BY <1>1, <2>1, <2>2, StartTyped, BpfAssumption DEF Start
  <2>4. FilterInv'
    <3>1. at' \in 0 .. Len(Source) /\ insn' \in 0 .. InsnMod - 1
      BY <2>3, BpfAssumption
    <3> QED BY <1>1, <1>2, <3>1 DEF FilterInv
  <2>5. PassInv'
    <3>1. Source' # <<>> /\ at' <= Start' /\ (at' # 0 => insn' = at' - 1)
      BY <1>2, <2>2, <2>3
    <3>2. \A i \in WithLabel' : i <= at' => Numbered(i)'
      BY <1>2, <1>3
    <3> QED BY <2>1, <3>1, <3>2 DEF PassInv
  <2>6. RunInv'
    BY <1>1, <2>1 DEF RunInv
  <2>7. ResolveInv'
    <3>1. \A i \in WithLabel' : ~(at' < i /\ i <= Start')
      <4>1. \A i \in WithLabel : i \in Nat
        BY <1>1, SourceTyped DEF WithLabel
      <4> QED BY <1>2, <2>3, <4>1
    <3>2. \A r \in DOMAIN labels' : labels'[r].location = Unset
      BY <1>1 DEF PassInv
    <3> QED BY <2>1, <3>1, <3>2 DEF ResolveInv, Verdict
  <2> QED BY <2>4, <2>5, <2>6, <2>7 DEF BpfInv
<1> QED BY <1>4, <1>5

\* One step back in bpf_resolve_jumps.
LEMMA BackStep ==
    ASSUME BpfInv, stage = "resolve", at >= 1, Back, UNCHANGED prog
    PROVE  /\ at' = at - 1 /\ at \in 1 .. Len(Source) /\ at \in DOMAIN Source
           /\ insn = at - 1 /\ at' \in 0 .. Len(Source)
           /\ insn' \in 0 .. InsnMod - 1 /\ (at' # 0 => insn' = at' - 1) /\ at' <= Start
           /\ stage' = stage /\ Start \in Nat
<1>1. /\ prog \in Programs /\ at \in 0 .. Len(Source) /\ insn \in 0 .. InsnMod - 1
      /\ Source # <<>> /\ at <= Start /\ (at # 0 => insn = at - 1)
  BY DEF BpfInv, FilterInv, PassInv
<1>2. Len(Source) \in Nat /\ DOMAIN Source = 1 .. Len(Source) /\ Start \in Nat
  BY <1>1, SourceTyped, StartTyped
<1>3. at' = at - 1 /\ insn' = (insn - 1) % InsnMod /\ stage' = stage
  BY DEF Back
<1>4. insn = at - 1 /\ at \in 1 .. Len(Source)
  BY <1>1, <1>2
<1>5. insn' \in 0 .. InsnMod - 1
  BY <1>1, <1>3, BpfAssumption
<1>6. ASSUME at' # 0 PROVE insn' = at' - 1
  <2>1. insn \in 1 .. InsnMod - 1
    BY <1>1, <1>2, <1>3, <1>4, <1>6
  <2>2. (insn - 1) % InsnMod = insn - 1
    BY <2>1, BpfAssumption
  <2> QED BY <1>3, <1>4, <2>2
<1> QED BY <1>1, <1>2, <1>3, <1>4, <1>5, <1>6

\* The instruction that bpf_resolve_jumps looks at.
LEMMA AtJA ==
    ASSUME BpfInv, stage = "resolve", at \in DOMAIN Source
    PROVE  /\ at \in Jumps => IsJA(255, 255) /\ ~IsJA(254, 254)
           /\ at \in WithLabel /\ at \notin Jumps => IsJA(254, 254) /\ ~IsJA(255, 255)
           /\ at \notin WithLabel => ~IsJA(254, 254) /\ ~IsJA(255, 255)
           /\ at \in WithLabel => /\ filter[at].k \in DOMAIN labels
                                  /\ labels[filter[at].k].label = Source[at].lab
           /\ Jumps \subseteq WithLabel /\ at >= 1
<1>1. prog \in Programs /\ at >= 1
  BY SourceTyped DEF BpfInv, FilterInv
<1>2. Jumps \subseteq WithLabel
  BY DEF Jumps, WithLabel
<1>3. ASSUME at \in WithLabel
      PROVE  /\ filter[at].k \in DOMAIN labels /\ labels[filter[at].k].label = Source[at].lab
             /\ filter[at] = [Source[at] EXCEPT !.k = filter[at].k]
  <2>1. at \in Int /\ at <= at
    BY <1>1, SourceTyped
  <2>2. Numbered(at)
    BY <1>3, <2>1 DEF BpfInv, PassInv
  <2> QED BY <2>2 DEF Numbered
<1>4. ASSUME at \in Jumps PROVE IsJA(255, 255) /\ ~IsJA(254, 254)
  <2>1. Source[at] = JUMP(Source[at].lab)
    BY <1>1, <1>2, <1>4, LabelledInsn
  <2>2. filter[at].op = "JA" /\ filter[at].jt = 255 /\ filter[at].jf = 255
    <3>1. filter[at] = [JUMP(Source[at].lab) EXCEPT !.k = filter[at].k]
      BY <1>2, <1>3, <1>4, <2>1
    <3> QED BY <3>1 DEF JUMP
  <2>3. filter[at].jt # 254
    BY <2>2
  <2> QED BY <1>1, <2>2, <2>3, Zenon DEF IsJA
<1>5. ASSUME at \in WithLabel, at \notin Jumps PROVE IsJA(254, 254) /\ ~IsJA(255, 255)
  <2>1. Source[at] = LABEL(Source[at].lab)
    BY <1>1, <1>5, LabelledInsn
  <2>2. filter[at].op = "JA" /\ filter[at].jt = 254 /\ filter[at].jf = 254
    <3>1. filter[at] = [LABEL(Source[at].lab) EXCEPT !.k = filter[at].k]
      BY <1>3, <1>5, <2>1
    <3> QED BY <3>1 DEF LABEL
  <2>3. filter[at].jt # 255
    BY <2>2
  <2> QED BY <1>1, <2>2, <2>3, Zenon DEF IsJA
<1>6. ASSUME at \notin WithLabel PROVE ~IsJA(254, 254) /\ ~IsJA(255, 255)
  <2>1. Source[at].lab = "none" /\ Source[at] \in Insn
    BY <1>1, <1>6, SourceTyped DEF WithLabel
  <2>2. filter[at].op # "JA"
    <3>1. filter[at] = Source[at]
      BY <2>1 DEF BpfInv, FilterInv
    <3>2. Source[at].op \in {"LD", "LDM", "ST", "RET"} \cup Tests
      BY <2>1, InsnShape
    <3>3. Source[at].op # "JA"
      BY <3>2 DEF Tests
    <3> QED BY <3>1, <3>3
  <2> QED BY <2>2 DEF IsJA
<1> QED BY <1>1, <1>2, <1>3, <1>4, <1>5, <1>6

\* What is known behind the current instruction stays when bpf_resolve_jumps
\* goes on, if that instruction is resolved and the known places are kept.
LEMMA ResolveStep ==
    ASSUME BpfInv, ResolveInv, stage = "resolve", at >= 1, Back, UNCHANGED prog,
           \A j \in DOMAIN Source : j # at => filter'[j] = filter[j],
           labels' \in Seq(RowType), DOMAIN labels' = DOMAIN labels,
           \A r \in DOMAIN labels :
             /\ labels'[r].label = labels[r].label
             /\ \/ labels'[r].location = labels[r].location
                \/ /\ labels[r].location = Unset /\ labels'[r].location = insn
                   /\ at \in Labels(labels[r].label),
           NEW n, n = at, n \in WithLabel => Resolved(n)',
           at \in WithLabel /\ at \notin Jumps =>
             \E r \in DOMAIN labels : /\ labels[r].label = Source[at].lab
                                      /\ labels'[r].location = at - 1
    PROVE  ResolveInv'
<1>1. /\ at' = at - 1 /\ at \in 1 .. Len(Source) /\ at \in DOMAIN Source /\ insn = at - 1
      /\ stage' = "resolve" /\ Start \in Nat
  BY BackStep
<1>2. /\ Source' = Source /\ WithLabel' = WithLabel /\ Start' = Start /\ Jumps' = Jumps
      /\ \A l : Labels(l)' = Labels(l)
  BY SameSource
<1>3. WithLabel \subseteq DOMAIN Source /\ DOMAIN Source = 1 .. Len(Source)
  BY SourceTyped DEF BpfInv, FilterInv, WithLabel
<1>4. ASSUME NEW i \in WithLabel, at' < i, i <= Start
      PROVE  /\ Resolved(i)'
             /\ i \notin Jumps =>
                  \E r \in DOMAIN labels' : /\ labels'[r].label = Source[i].lab
                                            /\ labels'[r].location = i - 1
  <2>1. CASE i = at
    <3>1. Resolved(i)'
      BY <1>4, <2>1
    <3>2. at \notin Jumps =>
            \E r \in DOMAIN labels' : /\ labels'[r].label = Source[at].lab
                                      /\ labels'[r].location = at - 1
      BY <1>4, <2>1
    <3> QED BY <2>1, <3>1, <3>2
  <2>2. CASE i # at
    <3>1. at < i /\ i \in Nat
      BY <1>1, <1>3, <1>4, <2>2
    <3>2. /\ Resolved(i)
          /\ i \notin Jumps =>
               \E r \in DOMAIN labels : /\ labels[r].label = Source[i].lab
                                        /\ labels[r].location = i - 1
      BY <1>4, <3>1 DEF ResolveInv
    <3>3. Resolved(i)'
      <4>1. filter'[i] = filter[i]
        BY <1>3, <2>2
      <4> QED BY <1>2, <3>2, <4>1 DEF Resolved
    <3>4. ASSUME i \notin Jumps
          PROVE  \E r \in DOMAIN labels' : /\ labels'[r].label = Source[i].lab
                                           /\ labels'[r].location = i - 1
      <4>1. PICK r \in DOMAIN labels : /\ labels[r].label = Source[i].lab
                                       /\ labels[r].location = i - 1
        BY <3>2, <3>4
      <4>2. labels[r].location # Unset
        BY <3>1, <4>1, <1>1 DEF Unset
      <4> QED BY <4>1, <4>2
    <3> QED BY <3>3, <3>4
  <2> QED BY <2>1, <2>2
<1>5. ASSUME NEW r \in DOMAIN labels', labels'[r].location # Unset
      PROVE  /\ labels'[r].location + 1 \in Labels(labels'[r].label)
             /\ at' <= labels'[r].location
  <2>1. CASE labels'[r].location = labels[r].location
    <3>1. labels[r].location + 1 \in Labels(labels[r].label) /\ at <= labels[r].location
      BY <1>5, <2>1 DEF ResolveInv
    <3>2. labels[r].location \in Int
      <4>1. labels[r] \in RowType
        BY DEF BpfInv, FilterInv
      <4> QED BY <4>1 DEF RowType, Unset
    <3> QED BY <1>1, <2>1, <3>1, <3>2
  <2>2. CASE labels'[r].location # labels[r].location
    <3>1. labels'[r].location = insn /\ at \in Labels(labels[r].label)
      BY <2>2
    <3> QED BY <1>1, <3>1
  <2> QED BY <2>1, <2>2
<1>6. stage' \notin {"commit", "run", "false"} \cup Verdict
  BY <1>1 DEF Verdict
<1> QED BY <1>1, <1>2, <1>4, <1>5, <1>6 DEF ResolveInv

\* The same for the parts of the invariant about the filter and the passes.
LEMMA FilterStep ==
    ASSUME BpfInv, stage = "resolve", at >= 1, Back, UNCHANGED <<prog, todo, data, vm>>,
           DOMAIN filter' = DOMAIN filter,
           \A j \in DOMAIN Source : j # at => filter'[j] = filter[j],
           at \in WithLabel => filter'[at].op = "JA" /\ filter'[at].k \in Int,
           at \notin WithLabel => filter'[at] = filter[at],
           labels' \in Seq(RowType), DOMAIN labels' = DOMAIN labels,
           \A r \in DOMAIN labels : labels'[r].label = labels[r].label
    PROVE  BpfInv'
<1>1. /\ at' = at - 1 /\ at \in DOMAIN Source /\ at' \in 0 .. Len(Source)
      /\ insn' \in 0 .. InsnMod - 1 /\ (at' # 0 => insn' = at' - 1) /\ at' <= Start
      /\ stage' = "resolve"
  BY BackStep
<1>2. Source' = Source /\ WithLabel' = WithLabel /\ Start' = Start
  BY SameSource
<1>3. /\ FilterInv /\ PassInv /\ RunInv /\ prog \in Programs
      /\ DOMAIN Source = 1 .. Len(Source) /\ Len(Source) \in Nat
  BY SourceTyped DEF BpfInv, FilterInv
<1>4. FilterInv'
  <2>1. DOMAIN filter' = DOMAIN Source /\ Len(filter') = Len(Source)
    BY <1>3 DEF FilterInv
  <2>2. Len(labels') <= BPF_LABELS_MAX
    <3>1. labels \in Seq(RowType) /\ Len(labels) <= BPF_LABELS_MAX
      BY <1>3 DEF FilterInv
    <3>2. Len(labels') = Len(labels)
      BY <3>1
    <3> QED BY <3>1, <3>2
  <2>3. \A j \in DOMAIN Source :
          IF Source[j].lab = "none" THEN filter'[j] = Source[j]
          ELSE filter'[j].op = "JA" /\ filter'[j].k \in Int
    <3> SUFFICES ASSUME NEW j \in DOMAIN Source
                 PROVE  IF Source[j].lab = "none" THEN filter'[j] = Source[j]
                        ELSE filter'[j].op = "JA" /\ filter'[j].k \in Int
      OBVIOUS
    <3>1. IF Source[j].lab = "none" THEN filter[j] = Source[j]
          ELSE filter[j].op = "JA" /\ filter[j].k \in Int
      BY <1>3 DEF FilterInv
    <3>2. CASE j = at
      BY <3>1, <3>2 DEF WithLabel
    <3>3. CASE j # at
      BY <3>1, <3>3
    <3> QED BY <3>2, <3>3
  <2>4. \A r, s \in DOMAIN labels' : labels'[r].label = labels'[s].label => r = s
    BY <1>3 DEF FilterInv
  <2>5. todo' \subseteq WithLabel
    BY <1>3 DEF FilterInv
  <2> QED BY <1>1, <1>2, <1>3, <2>1, <2>2, <2>3, <2>4, <2>5 DEF FilterInv
<1>5. PassInv'
  <2>1. Source # <<>>
    BY <1>3 DEF PassInv
  <2>2. ASSUME NEW i \in WithLabel, i <= at' PROVE Numbered(i)'
    <3>1. i \in DOMAIN Source /\ i <= at /\ i # at
      BY <1>1, <1>3, <2>2 DEF WithLabel
    <3>2. Numbered(i)
      BY <1>3, <3>1 DEF PassInv
    <3> QED BY <1>2, <3>1, <3>2 DEF Numbered
  <2> QED BY <1>1, <1>2, <2>1, <2>2 DEF PassInv
<1>6. RunInv'
  BY <1>1, <1>3 DEF RunInv
<1> QED BY <1>4, <1>5, <1>6 DEF BpfInv

\* A label among the instructions is not a jump.
LEMMA LabelIsNoJump ==
    ASSUME NEW l \in LabelNames, NEW j \in Labels(l)
    PROVE  j \in WithLabel /\ j \notin Jumps /\ Source[j].lab = l
<1>1. j \in DOMAIN Source /\ Source[j].lab = l /\ Source[j].jt = 254
  BY DEF Labels
<1>2. l # "none"
  BY ProgramAssumption
<1> QED BY <1>1, <1>2 DEF WithLabel, Jumps

\* If bpf_resolve_jumps gives up, the rest of the invariant is as before.
LEMMA GiveUp ==
    ASSUME BpfInv, stage = "resolve", stage' = "false",
           UNCHANGED <<prog, filter, labels, todo, insn, at, data, vm>>,
           Len(Source) <= InsnMod => ~WellFormed
    PROVE  BpfInv' /\ ResolveInv'
<1>1. Source' = Source /\ WithLabel' = WithLabel /\ (WellFormed' <=> WellFormed)
  BY SameSource
<1>2. FilterInv'
  BY <1>1 DEF BpfInv, FilterInv
<1>3. PassInv' /\ RunInv'
  BY DEF BpfInv, PassInv, RunInv, Verdict
<1>4. ResolveInv'
  BY <1>1 DEF ResolveInv, Verdict
<1> QED BY <1>2, <1>3, <1>4 DEF BpfInv

\* A jump gets the distance to its label, or there is none behind it.
LEMMA JumpInv ==
    ASSUME BpfInv, ResolveInv, ResolveJump
    PROVE  BpfInv' /\ ResolveInv'
<1>1. /\ stage = "resolve" /\ at >= 1 /\ IsJA(255, 255) /\ prog \in Programs
      /\ UNCHANGED <<prog, labels, todo, data, vm>>
      /\ at \in 1 .. Len(Source) /\ DOMAIN Source = 1 .. Len(Source) /\ Len(Source) \in Nat
  <2>1. /\ stage = "resolve" /\ at >= 1 /\ IsJA(255, 255) /\ prog \in Programs
        /\ UNCHANGED <<prog, labels, todo, data, vm>> /\ at \in 0 .. Len(Source)
    BY DEF ResolveJump, IsJA, BpfInv, FilterInv
  <2> QED BY <2>1, SourceTyped
<1>2. /\ at \in Jumps /\ at \in WithLabel
      /\ filter[at].k \in DOMAIN labels /\ labels[filter[at].k].label = Source[at].lab
  <2>1. at \in DOMAIN Source
    BY <1>1
  <2> QED BY <1>1, <2>1, AtJA
<1>3. /\ labels \in Seq(RowType) /\ labels[filter[at].k] \in RowType
      /\ \A r, s \in DOMAIN labels : labels[r].label = labels[s].label => r = s
      /\ DOMAIN filter = DOMAIN Source /\ Source # <<>>
  BY <1>1, <1>2 DEF BpfInv, FilterInv, PassInv
<1>4. Source[at].lab \in LabelNames
  BY <1>1, <1>2, LabelledInsn
<1>5. CASE Location = Unset
  <2>1. stage' = "false" /\ UNCHANGED <<filter, insn, at>>
    BY <1>5 DEF ResolveJump
  <2>2. ASSUME Len(Source) <= InsnMod, WellFormed PROVE FALSE
    <3>1. PICK j \in Labels(Source[at].lab) : j > at
      BY <1>1, <1>2, <2>2 DEF WellFormed, WithLabel
    <3>2. j \in WithLabel /\ j \notin Jumps /\ Source[j].lab = Source[at].lab
      BY <1>4, LabelIsNoJump
    <3>3. Start = Len(Source) /\ j \in 1 .. Len(Source)
      BY <1>1, <1>3, <2>2, <3>2, StartTyped DEF WithLabel
    <3>4. PICK r \in DOMAIN labels : /\ labels[r].label = Source[j].lab
                                     /\ labels[r].location = j - 1
      BY <1>1, <3>1, <3>2, <3>3 DEF ResolveInv
    <3>5. r = filter[at].k
      BY <1>2, <1>3, <3>2, <3>4
    <3>6. j - 1 = Unset
      BY <1>5, <3>4, <3>5 DEF Location
    <3> QED BY <3>3, <3>6 DEF Unset
  <2> QED BY <1>1, <2>1, <2>2, GiveUp
<1>6. CASE Location # Unset
  <2>1. Clear(Offset) /\ Back
    BY <1>6 DEF ResolveJump
  <2>2. at' = at - 1 /\ insn = at - 1
    BY <1>1, <2>1, BackStep
  <2>3. Location + 1 \in Labels(Source[at].lab) /\ at <= Location /\ Location \in Nat
    <3>1. Location + 1 \in Labels(Source[at].lab) /\ at <= Location
      BY <1>1, <1>2, <1>6 DEF ResolveInv, Location
    <3>2. Location \in {Unset} \cup Nat
      BY <1>3 DEF Location, RowType
    <3> QED BY <1>6, <3>1, <3>2
  <2>4. Offset \in Nat /\ at + 1 + Offset = Location + 1
    BY <1>1, <2>2, <2>3 DEF Offset
  <2>5. PICK n : n = at
    OBVIOUS
  <2>6. PICK d : d = Offset
    OBVIOUS
  <2>7. /\ DOMAIN filter' = DOMAIN filter /\ filter'[n] = Jmp("JA", d, 0, 0)
        /\ \A j \in DOMAIN Source : j # at => filter'[j] = filter[j]
    BY <1>1, <1>3, <2>1, <2>5, <2>6 DEF Clear
  <2>8. filter'[n].op = "JA" /\ filter'[n].k = d
    BY <2>7 DEF Jmp
  <2>9. BpfInv'
    <3>1. filter'[at].op = "JA" /\ filter'[at].k \in Int
      BY <2>4, <2>5, <2>6, <2>8
    <3> QED BY <1>1, <1>2, <1>3, <2>1, <2>7, <3>1, FilterStep
  <2>10. Resolved(n)'
    <3>1. Source' = Source /\ Jumps' = Jumps /\ \A l : Labels(l)' = Labels(l)
      BY <1>1, SameSource
    <3>2. filter'[n].k \in Nat /\ filter'[n] = Jmp("JA", filter'[n].k, 0, 0)
      BY <2>4, <2>6, <2>7, <2>8
    <3>3. n + 1 + filter'[n].k \in Labels(Source[n].lab) /\ n \in Jumps
      BY <1>2, <2>3, <2>4, <2>5, <2>6, <2>8
    <3> QED BY <3>1, <3>2, <3>3 DEF Resolved
  <2>11. ResolveInv'
    <3>1. /\ labels' \in Seq(RowType) /\ DOMAIN labels' = DOMAIN labels
          /\ \A r \in DOMAIN labels : /\ labels'[r].label = labels[r].label
                                     /\ labels'[r].location = labels[r].location
      BY <1>1, <1>3
    <3>2. n \in WithLabel => Resolved(n)'
      BY <2>10
    <3> QED BY <1>1, <1>2, <2>1, <2>5, <2>7, <3>1, <3>2, ResolveStep
  <2> QED BY <2>9, <2>11
<1> QED BY <1>5, <1>6

\* A label is cleared and its place recorded, or there is another one behind it.
LEMMA ResolveLabelInv ==
    ASSUME BpfInv, ResolveInv, ResolveLabel
    PROVE  BpfInv' /\ ResolveInv'
<1>1. /\ stage = "resolve" /\ at >= 1 /\ IsJA(254, 254) /\ prog \in Programs
      /\ UNCHANGED <<prog, todo, data, vm>>
      /\ at \in 1 .. Len(Source) /\ DOMAIN Source = 1 .. Len(Source) /\ Len(Source) \in Nat
  <2>1. /\ stage = "resolve" /\ at >= 1 /\ IsJA(254, 254) /\ prog \in Programs
        /\ UNCHANGED <<prog, todo, data, vm>> /\ at \in 0 .. Len(Source)
    BY DEF ResolveLabel, IsJA, BpfInv, FilterInv
  <2> QED BY <2>1, SourceTyped
<1>2. /\ at \notin Jumps /\ at \in WithLabel
      /\ filter[at].k \in DOMAIN labels /\ labels[filter[at].k].label = Source[at].lab
  <2>1. at \in DOMAIN Source
    BY <1>1
  <2> QED BY <1>1, <2>1, AtJA
<1>3. /\ labels \in Seq(RowType) /\ labels[filter[at].k] \in RowType
      /\ DOMAIN filter = DOMAIN Source /\ Source # <<>>
  BY <1>1, <1>2 DEF BpfInv, FilterInv, PassInv
<1>4. Source[at].lab \in LabelNames /\ at \in Labels(Source[at].lab)
  BY <1>1, <1>2, LabelledInsn
<1>5. CASE Location # Unset
  <2>1. stage' = "false" /\ UNCHANGED <<labels, filter, insn, at>>
    BY <1>5 DEF ResolveLabel
  <2>2. ASSUME WellFormed PROVE FALSE
    <3>1. Location + 1 \in Labels(Source[at].lab) /\ at <= Location
      BY <1>1, <1>2, <1>5 DEF ResolveInv, Location
    <3>2. Location \in Int
      BY <1>3 DEF Location, RowType, Unset
    <3>3. \A j, k \in Labels(Source[at].lab) : j = k
      BY <1>2, <2>2 DEF WellFormed, WithLabel
    <3> QED BY <1>1, <1>4, <3>1, <3>2, <3>3
  <2> QED BY <1>1, <2>1, <2>2, GiveUp
<1>6. CASE Location = Unset
  <2>1. Clear(0) /\ Back /\ labels' = [labels EXCEPT ![filter[at].k].location = insn]
    BY <1>6 DEF ResolveLabel
  <2>2. at' = at - 1 /\ insn = at - 1
    BY <1>1, <2>1, BackStep
  <2>3. PICK n : n = at
    OBVIOUS
  <2>4. /\ DOMAIN filter' = DOMAIN filter /\ filter'[n] = Jmp("JA", 0, 0, 0)
        /\ \A j \in DOMAIN Source : j # at => filter'[j] = filter[j]
    BY <1>1, <1>3, <2>1, <2>3 DEF Clear
  <2>5. filter'[n].op = "JA" /\ filter'[n].k \in Int
    BY <2>4 DEF Jmp
  <2>6. /\ DOMAIN labels' = DOMAIN labels
        /\ \A r \in DOMAIN labels : r # filter[at].k => labels'[r] = labels[r]
        /\ labels'[filter[at].k] = [labels[filter[at].k] EXCEPT !.location = insn]
    BY <1>2, <1>3, <2>1
  <2>7. /\ labels'[filter[at].k].label = Source[at].lab
        /\ labels'[filter[at].k].location = insn /\ labels'[filter[at].k] \in RowType
    <3>1. insn \in Nat
      BY <1>1, <2>2
    <3> QED BY <1>2, <1>3, <2>6, <3>1 DEF RowType
  <2>8. labels' \in Seq(RowType)
    <3>1. \A r \in DOMAIN labels : labels'[r] \in RowType
      BY <1>3, <2>6, <2>7
    <3>2. DOMAIN labels = 1 .. Len(labels) /\ Len(labels) \in Nat
      BY <1>3
    <3>3. labels' = [r \in DOMAIN labels |-> labels'[r]]
      BY <1>3, <2>1, <2>6, Zenon
    <3>4. labels' \in [1 .. Len(labels) -> RowType]
      BY <3>1, <3>2, <3>3
    <3> QED BY <3>2, <3>4
  <2>9. BpfInv'
    <3>1. \A r \in DOMAIN labels : labels'[r].label = labels[r].label
      BY <1>2, <2>6, <2>7, Zenon
    <3> QED BY <1>1, <1>2, <2>1, <2>3, <2>4, <2>5, <2>6, <2>8, <3>1, FilterStep
  <2>10. Resolved(n)'
    <3>1. Source' = Source /\ Jumps' = Jumps
      BY <1>1, SameSource
    <3> QED BY <1>2, <2>3, <2>4, <3>1 DEF Resolved
  <2>11. ResolveInv'
    <3>1. \A r \in DOMAIN labels :
            /\ labels'[r].label = labels[r].label
            /\ \/ labels'[r].location = labels[r].location
               \/ /\ labels[r].location = Unset /\ labels'[r].location = insn
                  /\ at \in Labels(labels[r].label)
      BY <1>2, <1>4, <1>6, <2>6, <2>7, Zenon DEF Location
    <3>2. \E r \in DOMAIN labels : /\ labels[r].label = Source[at].lab
                                   /\ labels'[r].location = at - 1
      BY <1>2, <2>2, <2>7
    <3> QED BY <1>1, <2>1, <2>3, <2>4, <2>6, <2>8, <2>10, <3>1, <3>2, ResolveStep
  <2> QED BY <2>9, <2>11
<1> QED BY <1>5, <1>6

\* Other instructions are passed over.
LEMMA OtherInv ==
    ASSUME BpfInv, ResolveInv, ResolveOther
    PROVE  BpfInv' /\ ResolveInv'
<1>1. /\ stage = "resolve" /\ at >= 1 /\ ~IsJA(255, 255) /\ ~IsJA(254, 254) /\ Back
      /\ UNCHANGED <<prog, filter, labels, todo, data, vm>>
  BY DEF ResolveOther
<1>2. at \in DOMAIN Source /\ at \notin WithLabel
  <2>1. at \in DOMAIN Source
    BY <1>1, BackStep
  <2> QED BY <1>1, <2>1, AtJA
<1>3. labels \in Seq(RowType)
  BY DEF BpfInv, FilterInv
<1>4. BpfInv'
  BY <1>1, <1>2, <1>3, FilterStep
<1>5. ResolveInv'
  <2>1. PICK n : n = at
    OBVIOUS
  <2>2. n \notin WithLabel
    BY <1>2, <2>1
  <2> QED BY <1>1, <1>2, <1>3, <2>1, <2>2, ResolveStep
<1> QED BY <1>4, <1>5

\* If all jumps found their labels and no label is there twice, the program is
\* well formed.
LEMMA ResolvedWellFormed ==
    ASSUME BpfInv, \A i \in WithLabel : Resolved(i),
           \A i \in WithLabel \ Jumps :
             \E r \in DOMAIN labels : /\ labels[r].label = Source[i].lab
                                      /\ labels[r].location = i - 1
    PROVE  WellFormed
<1>1. /\ prog \in Programs /\ DOMAIN Source = 1 .. Len(Source)
      /\ \A r, s \in DOMAIN labels : labels[r].label = labels[s].label => r = s
  BY SourceTyped DEF BpfInv, FilterInv
<1> SUFFICES ASSUME NEW i \in DOMAIN Source, Source[i].lab # "none"
             PROVE  /\ \A j, k \in Labels(Source[i].lab) : j = k
                    /\ i \in Jumps => \E j \in Labels(Source[i].lab) : j > i
  BY DEF WellFormed
<1>2. i \in WithLabel /\ i \in Nat
  BY <1>1 DEF WithLabel
<1>3. Source[i].lab \in LabelNames
  BY <1>1, <1>2, LabelledInsn
<1>4. ASSUME NEW j \in Labels(Source[i].lab), NEW k \in Labels(Source[i].lab) PROVE j = k
  <2>1. /\ j \in WithLabel \ Jumps /\ Source[j].lab = Source[i].lab
        /\ k \in WithLabel \ Jumps /\ Source[k].lab = Source[i].lab
    BY <1>3, LabelIsNoJump
  <2>2. PICK r \in DOMAIN labels : labels[r].label = Source[j].lab /\ labels[r].location = j - 1
    BY <2>1
  <2>3. PICK s \in DOMAIN labels : labels[s].label = Source[k].lab /\ labels[s].location = k - 1
    BY <2>1
  <2>4. r = s
    BY <1>1, <2>1, <2>2, <2>3
  <2>5. j \in Nat /\ k \in Nat
    BY <1>1, <2>1 DEF WithLabel
  <2> QED BY <2>2, <2>3, <2>4, <2>5
<1>5. ASSUME i \in Jumps PROVE \E j \in Labels(Source[i].lab) : j > i
  <2>1. filter[i].k \in Nat /\ i + 1 + filter[i].k \in Labels(Source[i].lab)
    BY <1>2, <1>5 DEF Resolved
  <2>2. i + 1 + filter[i].k > i
    BY <1>2, <2>1
  <2> QED BY <2>1, <2>2
<1> QED BY <1>4, <1>5

\* At the end every JUMP and LABEL is resolved, if insn counts them all.
LEMMA EndInv ==
    ASSUME BpfInv, ResolveInv, EndResolve
    PROVE  BpfInv' /\ ResolveInv'
<1>1. /\ stage = "resolve" /\ at = 0 /\ stage' = "commit" /\ prog \in Programs /\ Source # <<>>
      /\ UNCHANGED <<prog, filter, labels, todo, insn, at, data, vm>>
  BY DEF EndResolve, BpfInv, FilterInv, PassInv
<1>2. /\ Source' = Source /\ WithLabel' = WithLabel /\ Jumps' = Jumps
      /\ \A l : Labels(l)' = Labels(l)
      /\ WellFormed' <=> WellFormed
  BY <1>1, SameSource
<1>3. FilterInv'
  BY <1>1, <1>2 DEF BpfInv, FilterInv
<1>4. PassInv' /\ RunInv'
  <2>1. PassInv'
    BY <1>1, <1>2 DEF PassInv, Verdict
  <2>2. RunInv'
    BY <1>1 DEF BpfInv, RunInv
  <2> QED BY <2>1, <2>2
<1>5. ASSUME Len(Source) <= InsnMod
      PROVE  WellFormed /\ \A i \in WithLabel : Resolved(i)
  <2>1. Start = Len(Source) /\ DOMAIN Source = 1 .. Len(Source) /\ Len(Source) \in Nat
    BY <1>1, <1>5, StartTyped, SourceTyped
  <2>2. \A i \in WithLabel : at < i /\ i <= Start
    BY <1>1, <2>1 DEF WithLabel
  <2>3. \A i \in WithLabel :
          /\ Resolved(i)
          /\ i \notin Jumps => \E r \in DOMAIN labels : /\ labels[r].label = Source[i].lab
                                                         /\ labels[r].location = i - 1
    BY <1>1, <2>2 DEF ResolveInv
  <2> QED BY <2>3, ResolvedWellFormed
<1>6. \A i : Resolved(i)' <=> Resolved(i)
  BY <1>1, <1>2 DEF Resolved
<1>7. ResolveInv'
  BY <1>1, <1>2, <1>5, <1>6 DEF ResolveInv
<1> QED BY <1>3, <1>4, <1>7 DEF BpfInv

-----------------------------------------------------------------------------
(* The kernel.                                                              *)

\* A filter that the kernel takes starts at its first instruction.
LEMMA CommitInv ==
    ASSUME BpfInv, ResolveInv, Commit
    PROVE  BpfInv' /\ ResolveInv'
<1>1. /\ stage = "commit" /\ at = 0 /\ prog \in Programs /\ Source # <<>>
      /\ UNCHANGED <<prog, filter, labels, todo, insn, vm>>
  BY DEF Commit, BpfInv, FilterInv, PassInv
<1>2. /\ Source' = Source /\ WithLabel' = WithLabel /\ Jumps' = Jumps
      /\ \A l : Labels(l)' = Labels(l)
      /\ WellFormed' <=> WellFormed
  BY <1>1, SameSource
<1>3. \/ Valid(filter) /\ stage' = "run" /\ at' = 1 /\ data' \in Calls
      \/ stage' = "false" /\ at' = at
  BY DEF Commit, Calls
<1>4. Len(Source) \in Nat /\ DOMAIN Source = 1 .. Len(Source) /\ 1 \in DOMAIN Source
  BY <1>1, SourceTyped
<1>5. FilterInv'
  <2>1. at' \in 0 .. Len(Source)
    BY <1>1, <1>3, <1>4
  <2> QED BY <1>1, <1>2, <2>1 DEF BpfInv, FilterInv
<1>6. PassInv'
  BY <1>3 DEF PassInv, Verdict
<1>7. RunInv'
  <2>1. DOMAIN filter = DOMAIN Source
    BY DEF BpfInv, FilterInv
  <2>2. stage' = "run" => Valid(filter') /\ at' \in DOMAIN filter' /\ data' \in Calls
    BY <1>1, <1>3, <1>4, <2>1
  <2> QED BY <1>1, <2>2 DEF BpfInv, RunInv
<1>8. ResolveInv'
  <2>1. \A i : Resolved(i)' <=> Resolved(i)
    BY <1>1, <1>2 DEF Resolved
  <2> QED BY <1>1, <1>2, <1>3, <2>1 DEF ResolveInv, Verdict
<1> QED BY <1>5, <1>6, <1>7, <1>8 DEF BpfInv

\* What an instruction does, by its code.
LEMMA ExecuteCases ==
    ASSUME Execute
    PROVE  /\ stage = "run" /\ UNCHANGED <<prog, filter, labels, todo, insn, data>>
           /\ Cur.op = "RET" => stage' = Cur.k /\ vm' = vm /\ at' = at
           /\ Cur.op # "RET" => stage' = "run"
           /\ Cur.op = "JA" => vm' = vm /\ at' = at + 1 + Cur.k
           /\ Cur.op \in Tests => vm' = vm /\ at' = at + 1 + (IF Holds THEN Cur.jt ELSE Cur.jf)
           /\ Cur.op = "LD" => vm' = [vm EXCEPT !.A = data[Cur.k]] /\ at' = at + 1
           /\ Cur.op = "LDM" => vm' = [vm EXCEPT !.A = vm.M[Cur.k + 1]] /\ at' = at + 1
           /\ Cur.op = "ST" => vm' = [vm EXCEPT !.M[Cur.k + 1] = vm.A] /\ at' = at + 1
<1>1. stage = "run" /\ UNCHANGED <<prog, filter, labels, todo, insn, data>>
  BY DEF Execute
<1>2. Cur.op = "RET" => stage' = Cur.k /\ vm' = vm /\ at' = at
  <2>1. "RET" \notin Tests
    BY DEF Tests
  <2> QED BY <2>1 DEF Execute
<1>3. Cur.op # "RET" => stage' = "run"
  BY <1>1 DEF Execute
<1>4. Cur.op = "JA" => vm' = vm /\ at' = at + 1 + Cur.k
  <2>1. "JA" \notin Tests
    BY DEF Tests
  <2> QED BY <2>1 DEF Execute
<1>5. Cur.op \in Tests => vm' = vm /\ at' = at + 1 + (IF Holds THEN Cur.jt ELSE Cur.jf)
  <2>1. Cur.op \in Tests => Cur.op \notin {"LD", "LDM", "ST", "RET", "JA"}
    BY DEF Tests
  <2> QED BY <2>1 DEF Execute
<1>6. Cur.op = "LD" => vm' = [vm EXCEPT !.A = data[Cur.k]] /\ at' = at + 1
  BY DEF Execute, Tests
<1>7. Cur.op = "LDM" => vm' = [vm EXCEPT !.A = vm.M[Cur.k + 1]] /\ at' = at + 1
  BY DEF Execute, Tests
<1>8. Cur.op = "ST" => vm' = [vm EXCEPT !.M[Cur.k + 1] = vm.A] /\ at' = at + 1
  BY DEF Execute, Tests
<1> QED BY <1>1, <1>2, <1>3, <1>4, <1>5, <1>6, <1>7, <1>8

\* The current instruction is one of the program, or a resolved jump or label.
LEMMA CurInsn ==
    ASSUME BpfInv, stage = "run"
    PROVE  /\ at \in 1 .. Len(Source) /\ Len(Source) \in Nat /\ DOMAIN filter = 1 .. Len(Source)
           /\ Len(filter) = Len(Source)
           /\ Cur.op \in {"LD", "LDM", "ST", "RET", "JA"} \cup Tests
           /\ Cur.op = "JA" => Cur.k \in Nat /\ at + 1 + Cur.k <= Len(Source)
           /\ Cur.op = "LD" => LdInsn(Cur)
           /\ Cur.op \in {"LDM", "ST"} => MemInsn(Cur)
           /\ Cur.op = "RET" => RetInsn(Cur)
           /\ Cur.op \in Tests => /\ TestInsn(Cur) /\ at + 1 + Cur.jt <= Len(Source)
                                  /\ at + 1 + Cur.jf <= Len(Source)
           /\ Cur.op # "RET" => at # Len(Source)
<1>1. /\ prog \in Programs /\ Valid(filter) /\ at \in DOMAIN filter
      /\ DOMAIN filter = DOMAIN Source /\ Len(filter) = Len(Source)
  BY DEF BpfInv, FilterInv, RunInv
<1>2. Len(Source) \in Nat /\ DOMAIN Source = 1 .. Len(Source) /\ at \in 1 .. Len(Source)
  BY <1>1, SourceTyped
<1>3. /\ Cur.op = "JA" => Cur.k >= 0 /\ at + 1 + Cur.k <= Len(Source)
      /\ Cur.op \in Tests => at + 1 + Cur.jt <= Len(Source) /\ at + 1 + Cur.jf <= Len(Source)
      /\ Cur.op # "RET" => at # Len(Source)
  BY <1>1 DEF Valid, Cur
<1>4. CASE Source[at].lab = "none"
  <2>1. Cur = Source[at] /\ Cur \in Insn /\ Cur.lab = "none"
    <3>1. filter[at] = Source[at] /\ Source[at] \in Insn
      BY <1>1, <1>2, <1>4, SourceTyped DEF BpfInv, FilterInv
    <3> QED BY <1>4, <3>1 DEF Cur
  <2>2. Cur.op # "JA"
    <3>1. Cur.op \in {"LD", "LDM", "ST", "RET"} \cup Tests
      BY <2>1, InsnShape
    <3> QED BY <3>1 DEF Tests
  <2>3. /\ Cur.op \in {"LD", "LDM", "ST", "RET"} \cup Tests /\ (Cur.op = "LD" => LdInsn(Cur))
        /\ Cur.op \in {"LDM", "ST"} => MemInsn(Cur)
        /\ Cur.op = "RET" => RetInsn(Cur)
        /\ Cur.op \in Tests => TestInsn(Cur)
    BY <2>1, InsnShape
  <2> QED BY <1>1, <1>2, <1>3, <2>2, <2>3
<1>5. CASE Source[at].lab # "none"
  <2>1. Cur.op = "JA" /\ Cur.k \in Int
    BY <1>1, <1>2, <1>5 DEF BpfInv, FilterInv, Cur
  <2>2. "JA" \notin Tests
    BY DEF Tests
  <2> QED BY <1>1, <1>2, <1>3, <2>1, <2>2
<1> QED BY <1>4, <1>5

\* One instruction of the running filter.
LEMMA ExecuteInv ==
    ASSUME BpfInv, ResolveInv, Execute
    PROVE  BpfInv' /\ ResolveInv'
<1>1. stage = "run" /\ UNCHANGED <<prog, filter, labels, todo, insn, data>> /\ prog \in Programs
  BY ExecuteCases DEF BpfInv, FilterInv
<1>2. /\ Source' = Source /\ WithLabel' = WithLabel /\ Jumps' = Jumps
      /\ \A l : Labels(l)' = Labels(l)
      /\ WellFormed' <=> WellFormed
  BY <1>1, SameSource
<1>3. /\ at \in 1 .. Len(Source) /\ Len(Source) \in Nat /\ DOMAIN filter = 1 .. Len(Source)
      /\ Cur.op \in {"LD", "LDM", "ST", "RET", "JA"} \cup Tests
  BY <1>1, CurInsn
<1>4. /\ vm.A \in Word /\ vm.M \in [{1, 2} -> Word] /\ vm = [A |-> vm.A, M |-> vm.M]
      /\ Valid(filter) /\ data \in Calls
  BY <1>1 DEF BpfInv, RunInv
<1>5. /\ \/ stage' = "run" /\ at' \in 1 .. Len(Source)
         \/ stage' \in Verdict /\ at' = at
      /\ vm'.A \in Word /\ vm'.M \in [{1, 2} -> Word] /\ vm' = [A |-> vm'.A, M |-> vm'.M]
  <2>1. CASE Cur.op = "RET"
    <3>1. stage' = Cur.k /\ vm' = vm /\ at' = at
      BY <2>1, ExecuteCases
    <3>2. Cur.k \in Verdict
      BY <1>1, <2>1, CurInsn DEF RetInsn
    <3> QED BY <1>4, <3>1, <3>2
  <2>2. CASE Cur.op = "JA"
    <3>1. stage' = "run" /\ vm' = vm /\ at' = at + 1 + Cur.k
      BY <2>2, ExecuteCases
    <3>2. Cur.k \in Nat /\ at + 1 + Cur.k <= Len(Source)
      BY <1>1, <2>2, CurInsn
    <3> QED BY <1>3, <1>4, <3>1, <3>2
  <2>3. CASE Cur.op \in Tests
    <3>1. vm' = vm /\ at' = at + 1 + (IF Holds THEN Cur.jt ELSE Cur.jf)
      BY <2>3, ExecuteCases
    <3>2. stage' = "run"
      <4>1. Cur.op # "RET"
        BY <2>3 DEF Tests
      <4> QED BY <4>1, ExecuteCases
    <3>3. /\ Cur.jt \in Nat /\ Cur.jf \in Nat
          /\ at + 1 + Cur.jt <= Len(Source) /\ at + 1 + Cur.jf <= Len(Source)
      BY <1>1, <2>3, CurInsn DEF TestInsn
    <3>4. at' \in 1 .. Len(Source)
      BY <1>3, <3>1, <3>3
    <3> QED BY <1>4, <3>1, <3>2, <3>4
  <2>4. ASSUME Cur.op \in {"LD", "LDM", "ST"}, at' = at + 1 PROVE at' \in 1 .. Len(Source)
    <3>1. at # Len(Source)
      BY <1>1, <2>4, CurInsn
    <3> QED BY <1>3, <2>4, <3>1
  <2>5. CASE Cur.op = "LD"
    <3>1. stage' = "run" /\ vm' = [vm EXCEPT !.A = data[Cur.k]] /\ at' = at + 1
      BY <2>5, ExecuteCases
    <3>2. data[Cur.k] \in Word
      <4>1. Cur.k \in {"arch", "nr", "lo", "hi"}
        BY <1>1, <2>5, CurInsn DEF LdInsn
      <4>2. data.arch \in Word /\ data.nr \in Word /\ data.lo \in Word /\ data.hi \in Word
        BY <1>4 DEF Calls, Word
      <4> QED BY <4>1, <4>2
    <3> QED BY <1>4, <2>4, <2>5, <3>1, <3>2
  <2>6. CASE Cur.op = "LDM"
    <3>1. stage' = "run" /\ vm' = [vm EXCEPT !.A = vm.M[Cur.k + 1]] /\ at' = at + 1
      BY <2>6, ExecuteCases
    <3>2. vm.M[Cur.k + 1] \in Word
      <4>1. Cur.k \in {0, 1}
        BY <1>1, <2>6, CurInsn DEF MemInsn
      <4> QED BY <1>4, <4>1
    <3> QED BY <1>4, <2>4, <2>6, <3>1, <3>2
  <2>7. CASE Cur.op = "ST"
    <3>1. stage' = "run" /\ vm' = [vm EXCEPT !.M[Cur.k + 1] = vm.A] /\ at' = at + 1
      BY <2>7, ExecuteCases
    <3>2. [vm.M EXCEPT ![Cur.k + 1] = vm.A] \in [{1, 2} -> Word]
      BY <1>4, Zenon
    <3> QED BY <1>4, <2>4, <2>7, <3>1, <3>2
  <2> QED BY <1>3, <2>1, <2>2, <2>3, <2>5, <2>6, <2>7
<1>6. FilterInv'
  <2>1. at' \in 0 .. Len(Source)
    BY <1>3, <1>5
  <2> QED BY <1>1, <1>2, <2>1 DEF BpfInv, FilterInv
<1>7. PassInv'
  BY <1>5 DEF PassInv, Verdict
<1>8. RunInv'
  <2>1. stage' = "run" => Valid(filter') /\ at' \in DOMAIN filter' /\ data' \in Calls
    BY <1>1, <1>3, <1>4, <1>5 DEF Verdict
  <2> QED BY <1>5, <2>1 DEF RunInv
<1>9. ResolveInv'
  <2>1. \A i : Resolved(i)' <=> Resolved(i)
    BY <1>1, <1>2 DEF Resolved
  <2>2. stage' \in {"run"} \cup Verdict
    BY <1>5
  <2> QED BY <1>1, <1>2, <2>1, <2>2 DEF ResolveInv, Verdict
<1> QED BY <1>6, <1>7, <1>8, <1>9 DEF BpfInv

\* The invariants of the labels, of the two passes and of the running filter hold,
\* for every set of programs, every width and every size of the table.
THEOREM Filters == Spec => [](BpfInv /\ ResolveInv)
<1>1. Init => BpfInv /\ ResolveInv
  BY InitBpf
<1>2. BpfInv /\ ResolveInv /\ [Next]_vars => (BpfInv /\ ResolveInv)'
  <2> SUFFICES ASSUME BpfInv, ResolveInv, [Next]_vars PROVE (BpfInv /\ ResolveInv)'
    OBVIOUS
  <2>1. CASE Next
    BY <2>1, LabelInv, StartInv, JumpInv, ResolveLabelInv, OtherInv, EndInv, CommitInv,
       ExecuteInv DEF Next
  <2>2. CASE UNCHANGED vars
    <3>1. /\ Source' = Source /\ WithLabel' = WithLabel /\ Jumps' = Jumps /\ Start' = Start
          /\ \A l : Labels(l)' = Labels(l)
          /\ WellFormed' <=> WellFormed
      BY <2>2, SameSource DEF vars
    <3>2. \A i : (Resolved(i)' <=> Resolved(i)) /\ (Numbered(i)' <=> Numbered(i))
      BY <2>2, <3>1 DEF vars, Resolved, Numbered
    <3>3. FilterInv'
      BY <2>2, <3>1 DEF BpfInv, FilterInv, vars
    <3>4. PassInv'
      BY <2>2, <3>1, <3>2 DEF BpfInv, PassInv, vars
    <3>5. RunInv'
      BY <2>2 DEF BpfInv, RunInv, vars
    <3>6. ResolveInv'
      BY <2>2, <3>1, <3>2 DEF ResolveInv, vars
    <3> QED BY <3>3, <3>4, <3>5, <3>6 DEF BpfInv
  <2> QED BY <2>1, <2>2
<1> QED BY <1>1, <1>2, PTL DEF Spec

\* The table of labels never grows beyond its size, insn and the position stay
\* in range, and a running filter never leaves its instructions, so that it ends
\* in a verdict: for every program the macros can write and every call.
THEOREM FilterTypes == Spec => []BpfTypeOK
<1>1. BpfInv => BpfTypeOK
  <2> SUFFICES ASSUME BpfInv PROVE BpfTypeOK
    OBVIOUS
  <2>1. /\ stage \in {"labels", "resolve", "commit", "run", "false", "exit1"} \cup Verdict
        /\ Len(labels) <= BPF_LABELS_MAX /\ insn \in 0 .. InsnMod - 1
        /\ at \in 0 .. Len(filter)
    BY DEF BpfInv, FilterInv, PassInv
  <2>2. (stage = "run" => at \in DOMAIN filter) /\ vm.A \in Word
    BY DEF BpfInv, RunInv
  <2> QED BY <2>1, <2>2 DEF BpfTypeOK, Word
<1> QED BY <1>1, Filters, PTL

\* bpf_resolve_jumps makes every JUMP lead to its LABEL and changes nothing else,
\* and it fails exactly for the programs that are not well formed: for every
\* program of up to InsnMod instructions, with the labels numbered in any order.
THEOREM JumpsReach == Spec => []JumpsReachLabels
<1>1. BpfInv /\ ResolveInv => JumpsReachLabels
  <2> SUFFICES ASSUME BpfInv, ResolveInv, Len(Source) <= InsnMod
               PROVE  /\ stage = "commit" =>
                           /\ WellFormed
                           /\ \A i \in DOMAIN Source :
                                /\ i \in Jumps => i + 1 + filter[i].k \in Labels(Source[i].lab)
                                /\ Source[i].lab = "none" => filter[i] = Source[i]
                      /\ stage = "false" /\ at # 0 => ~WellFormed
    BY DEF JumpsReachLabels
  <2>1. stage = "false" /\ at # 0 => ~WellFormed
    BY DEF ResolveInv
  <2>2. ASSUME stage = "commit"
        PROVE  /\ WellFormed
               /\ \A i \in DOMAIN Source :
                    /\ i \in Jumps => i + 1 + filter[i].k \in Labels(Source[i].lab)
                    /\ Source[i].lab = "none" => filter[i] = Source[i]
    <3>1. WellFormed /\ \A i \in WithLabel : Resolved(i)
      BY <2>2 DEF ResolveInv
    <3>2. \A i \in DOMAIN Source : Source[i].lab = "none" => filter[i] = Source[i]
      BY DEF BpfInv, FilterInv
    <3>3. \A i \in Jumps : i + 1 + filter[i].k \in Labels(Source[i].lab)
      BY <3>1 DEF Resolved, WithLabel, Jumps
    <3> QED BY <3>1, <3>2, <3>3
  <2> QED BY <2>1, <2>2
<1> QED BY <1>1, Filters, PTL
=============================================================================
