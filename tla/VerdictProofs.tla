--------------------------- MODULE VerdictProofs ---------------------------
(***************************************************************************)
(* What a running filter decides: the policy of sandbox.c, for every call, *)
(* and two tests in a row, for every width, argument and value.  PolicyInv,*)
(* Tests64Inv and Tests32Inv say what is known of the call at each         *)
(* instruction.                                                            *)
(***************************************************************************)
EXTENDS BpfProofs

-----------------------------------------------------------------------------
(* The policy of sandbox.c.                                                 *)

\* u is two lists of instructions, one after the other.
Joined(u, s, t) ==
    /\ u \in Seq(Insn) /\ Len(u) = Len(s) + Len(t)
    /\ \A i \in 1 .. Len(s) : u[i] = s[i]
    /\ \A i \in 1 .. Len(t) : u[Len(s) + i] = t[i]

\* Every concatenation is one.
LEMMA Concat ==
    ASSUME NEW s \in Seq(Insn), NEW t \in Seq(Insn), NEW u, u = s \o t
    PROVE  Joined(u, s, t)
BY DEF Joined

\* A comparison and what is done if it holds.
LEMMA JEQ32Is ==
    ASSUME NEW v \in Nat, NEW jt \in Insn
    PROVE  /\ JEQ32(v, jt) \in Seq(Insn) /\ Len(JEQ32(v, jt)) = 2
           /\ JEQ32(v, jt)[1] = Jmp("JEQ", v, 0, 1) /\ JEQ32(v, jt)[2] = jt
<1>1. Jmp("JEQ", v, 0, 1) \in Insn
  BY MacrosTyped DEF Tests
<1> QED BY <1>1 DEF JEQ32

\* The instructions for one architecture.
LEMMA SectionIs ==
    ASSUME NEW l \in LabelNames, NEW n \in Nat, NEW c, c = Section(l, n)
    PROVE  /\ c \in Seq(Insn) /\ Len(c) = 7 /\ c[1] = LABEL(l) /\ c[2] = LOAD_SYSCALL_NR
           /\ c[3] = Jmp("JEQ", 103, 0, 1) /\ c[4] = ERRNO
           /\ c[5] = Jmp("JEQ", n, 0, 1) /\ c[6] = KILL /\ c[7] = ALLOW
<1>1. LABEL(l) \in Insn /\ LOAD_SYSCALL_NR \in Insn
  BY MacrosTyped DEF LOAD_SYSCALL_NR
<1>2. ERRNO \in Insn /\ KILL \in Insn /\ ALLOW \in Insn
  BY MacrosTyped DEF ERRNO, KILL, ALLOW, Verdict
<1> DEFINE s1 == <<LABEL(l), LOAD_SYSCALL_NR>>
           s2 == s1 \o JEQ32(103, ERRNO)
           s3 == s2 \o JEQ32(n, KILL)
           s4 == s3 \o <<ALLOW>>
<1>3. /\ s1 \in Seq(Insn) /\ Len(s1) = 2 /\ s1[1] = LABEL(l) /\ s1[2] = LOAD_SYSCALL_NR
      /\ <<ALLOW>> \in Seq(Insn) /\ Len(<<ALLOW>>) = 1 /\ <<ALLOW>>[1] = ALLOW
  BY <1>1, <1>2
<1>4. /\ JEQ32(103, ERRNO) \in Seq(Insn) /\ Len(JEQ32(103, ERRNO)) = 2
      /\ JEQ32(103, ERRNO)[1] = Jmp("JEQ", 103, 0, 1) /\ JEQ32(103, ERRNO)[2] = ERRNO
      /\ JEQ32(n, KILL) \in Seq(Insn) /\ Len(JEQ32(n, KILL)) = 2
      /\ JEQ32(n, KILL)[1] = Jmp("JEQ", n, 0, 1) /\ JEQ32(n, KILL)[2] = KILL
  BY <1>2, JEQ32Is, SMTT(30)
<1>5. c = s4
  BY DEF Section
<1> HIDE DEF s1
<1>6. /\ s2 \in Seq(Insn) /\ Len(s2) = 4 /\ \A i \in 1 .. 2 : s2[i] = s1[i]
      /\ \A i \in 1 .. 2 : s2[2 + i] = JEQ32(103, ERRNO)[i]
  <2>1. s2 = s1 \o JEQ32(103, ERRNO)
    OBVIOUS
  <2> HIDE DEF s2
  <2>2. Joined(s2, s1, JEQ32(103, ERRNO))
    BY <1>3, <1>4, <2>1, Concat, Zenon
  <2> QED BY <1>3, <1>4, <2>2 DEF Joined
<1> HIDE DEF s2
<1>7. /\ s3 \in Seq(Insn) /\ Len(s3) = 6 /\ \A i \in 1 .. 4 : s3[i] = s2[i]
      /\ \A i \in 1 .. 2 : s3[4 + i] = JEQ32(n, KILL)[i]
  <2>1. s3 = s2 \o JEQ32(n, KILL)
    OBVIOUS
  <2> HIDE DEF s3
  <2>2. Joined(s3, s2, JEQ32(n, KILL))
    BY <1>4, <1>6, <2>1, Concat, Zenon
  <2> QED BY <1>4, <1>6, <2>2 DEF Joined
<1> HIDE DEF s3
<1>8. /\ s4 \in Seq(Insn) /\ Len(s4) = 7 /\ \A i \in 1 .. 6 : s4[i] = s3[i]
      /\ \A i \in 1 .. 1 : s4[6 + i] = <<ALLOW>>[i]
  <2>1. s4 = s3 \o <<ALLOW>>
    OBVIOUS
  <2> HIDE DEF s4
  <2>2. Joined(s4, s3, <<ALLOW>>)
    BY <1>3, <1>7, <2>1, Concat, Zenon
  <2> QED BY <1>3, <1>7, <2>2 DEF Joined
<1> HIDE DEF s4
<1>9. /\ c[1] = s1[1] /\ c[2] = s1[2] /\ c[3] = JEQ32(103, ERRNO)[1]
      /\ c[4] = JEQ32(103, ERRNO)[2] /\ c[5] = JEQ32(n, KILL)[1] /\ c[6] = JEQ32(n, KILL)[2]
      /\ c[7] = <<ALLOW>>[1]
  BY <1>5, <1>6, <1>7, <1>8
<1> QED BY <1>3, <1>4, <1>5, <1>8, <1>9

\* The filter of sandboxPrepareAndCommit, one instruction after the other.
LEMMA PolicyIs ==
    ASSUME NEW c, c = sandboxPolicy
    PROVE  /\ Len(c) = 19 /\ c[1] = LOAD_ARCH
           /\ c[2] = Jmp("JEQ", 3, 0, 1) /\ c[3] = JUMP("label_i386")
           /\ c[4] = Jmp("JEQ", 62, 0, 1) /\ c[5] = JUMP("label_x86_64")
           /\ c[6] = LABEL("label_i386") /\ c[7] = LOAD_SYSCALL_NR
           /\ c[8] = Jmp("JEQ", 103, 0, 1) /\ c[9] = ERRNO
           /\ c[10] = Jmp("JEQ", 86, 0, 1) /\ c[11] = KILL /\ c[12] = ALLOW
           /\ c[13] = LABEL("label_x86_64") /\ c[14] = LOAD_SYSCALL_NR
           /\ c[15] = Jmp("JEQ", 103, 0, 1) /\ c[16] = ERRNO
           /\ c[17] = Jmp("JEQ", 134, 0, 1) /\ c[18] = KILL /\ c[19] = ALLOW
<1> DEFINE s1 == <<LOAD_ARCH>>
           s2 == s1 \o JEQ32(3, JUMP("label_i386"))
           s3 == s2 \o JEQ32(62, JUMP("label_x86_64"))
           a == Section("label_i386", 86)
           s4 == s3 \o a
           b == Section("label_x86_64", 134)
           s5 == s4 \o b
<1>1. "label_i386" \in LabelNames /\ "label_x86_64" \in LabelNames
  BY ProgramAssumption
<1>2. JUMP("label_i386") \in Insn /\ JUMP("label_x86_64") \in Insn /\ LOAD_ARCH \in Insn
  BY <1>1, MacrosTyped DEF LOAD_ARCH
<1>3. s1 \in Seq(Insn) /\ Len(s1) = 1 /\ s1[1] = LOAD_ARCH
  BY <1>2
<1>4. c = s5
  BY DEF sandboxPolicy, AUDIT_ARCH_I386, AUDIT_ARCH_X86_64
<1> HIDE DEF s1
<1> DEFINE j1 == JEQ32(3, JUMP("label_i386"))
           j2 == JEQ32(62, JUMP("label_x86_64"))
<1>j. /\ j1 \in Seq(Insn) /\ Len(j1) = 2 /\ j1[1] = Jmp("JEQ", 3, 0, 1)
      /\ j1[2] = JUMP("label_i386")
      /\ j2 \in Seq(Insn) /\ Len(j2) = 2 /\ j2[1] = Jmp("JEQ", 62, 0, 1)
      /\ j2[2] = JUMP("label_x86_64")
  BY <1>2, JEQ32Is, ZenonT(40)
<1>5. /\ s2 \in Seq(Insn) /\ Len(s2) = 3 /\ \A i \in 1 .. 1 : s2[i] = s1[i]
      /\ \A i \in 1 .. 2 : s2[1 + i] = j1[i]
  <2> HIDE DEF j1
  <2>1. s2 = s1 \o j1
    BY DEF j1
  <2> HIDE DEF s2
  <2>2. Joined(s2, s1, j1)
    BY <1>j, <1>3, <2>1, Concat, Zenon
  <2> QED BY <1>j, <1>3, <2>2 DEF Joined
<1> HIDE DEF s2
<1>6. /\ s3 \in Seq(Insn) /\ Len(s3) = 5 /\ \A i \in 1 .. 3 : s3[i] = s2[i]
      /\ \A i \in 1 .. 2 : s3[3 + i] = j2[i]
  <2> HIDE DEF j2
  <2>1. s3 = s2 \o j2
    BY DEF j2
  <2> HIDE DEF s3
  <2>2. Joined(s3, s2, j2)
    BY <1>j, <1>5, <2>1, Concat, Zenon
  <2> QED BY <1>j, <1>5, <2>2 DEF Joined
<1> HIDE DEF s3
<1>7. /\ a \in Seq(Insn) /\ Len(a) = 7 /\ a[1] = LABEL("label_i386") /\ a[2] = LOAD_SYSCALL_NR
      /\ a[3] = Jmp("JEQ", 103, 0, 1) /\ a[4] = ERRNO
      /\ a[5] = Jmp("JEQ", 86, 0, 1) /\ a[6] = KILL /\ a[7] = ALLOW
  BY <1>1, SectionIs
<1>8. /\ b \in Seq(Insn) /\ Len(b) = 7 /\ b[1] = LABEL("label_x86_64")
      /\ b[2] = LOAD_SYSCALL_NR /\ b[3] = Jmp("JEQ", 103, 0, 1) /\ b[4] = ERRNO
      /\ b[5] = Jmp("JEQ", 134, 0, 1) /\ b[6] = KILL /\ b[7] = ALLOW
  BY <1>1, SectionIs
<1> HIDE DEF a, b
<1>9. /\ s4 \in Seq(Insn) /\ Len(s4) = 12
      /\ \A i \in 1 .. 5 : s4[i] = s3[i]
      /\ \A i \in 1 .. 7 : s4[5 + i] = a[i]
  <2>1. s4 = s3 \o a
    OBVIOUS
  <2> HIDE DEF s4
  <2>2. Joined(s4, s3, a)
    BY <1>6, <1>7, <2>1, Concat, Zenon
  <2> QED BY <1>6, <1>7, <2>2 DEF Joined
<1> HIDE DEF s4
<1>10. /\ Len(s5) = 19 /\ \A i \in 1 .. 12 : s5[i] = s4[i]
       /\ \A i \in 1 .. 7 : s5[12 + i] = b[i]
  <2>1. s5 = s4 \o b
    OBVIOUS
  <2> HIDE DEF s5
  <2>2. Joined(s5, s4, b)
    BY <1>8, <1>9, <2>1, Concat, Zenon
  <2> QED BY <1>8, <1>9, <2>2 DEF Joined
<1> HIDE DEF s5
<1>11. /\ \A i \in 1 .. 5 : c[i] = s3[i]
       /\ \A i \in 1 .. 7 : c[5 + i] = a[i] /\ c[12 + i] = b[i]
  BY <1>4, <1>9, <1>10
<1>12. /\ c[1] = s3[1] /\ c[2] = s3[2] /\ c[3] = s3[3] /\ c[4] = s3[4] /\ c[5] = s3[5]
       /\ c[6] = a[1] /\ c[7] = a[2] /\ c[8] = a[3] /\ c[9] = a[4] /\ c[10] = a[5]
       /\ c[11] = a[6] /\ c[12] = a[7] /\ c[13] = b[1] /\ c[14] = b[2] /\ c[15] = b[3]
       /\ c[16] = b[4] /\ c[17] = b[5] /\ c[18] = b[6] /\ c[19] = b[7]
  BY <1>11
<1>13. s3[1] = s1[1] /\ s3[2] = j1[1] /\ s3[3] = j1[2] /\ s3[4] = j2[1] /\ s3[5] = j2[2]
  <2> HIDE DEF j1, j2
  <2> QED BY <1>5, <1>6
<1> HIDE DEF j1, j2
<1> QED BY <1>3, <1>4, <1>j, <1>7, <1>8, <1>10, <1>12, <1>13

\* An instruction that loads a field of the call.
LEMMA LdStep ==
    ASSUME Execute, BpfInv, NEW f \in {"arch", "nr", "lo", "hi"}, Cur = Stmt("LD", f)
    PROVE  stage' = "run" /\ vm'.A = data[f] /\ vm'.M = vm.M /\ at' = at + 1
<1>1. Cur.op = "LD" /\ Cur.k = f
  BY DEF Stmt
<1>2. vm' = [vm EXCEPT !.A = data[f]] /\ at' = at + 1 /\ stage' = "run" /\ stage = "run"
  BY <1>1, ExecuteCases
<1>3. vm = [A |-> vm.A, M |-> vm.M]
  BY <1>2 DEF BpfInv, RunInv
<1> QED BY <1>2, <1>3

\* A resolved jump or label.
LEMMA JaStep ==
    ASSUME Execute, NEW k, Cur = Jmp("JA", k, 0, 0)
    PROVE  stage' = "run" /\ vm' = vm /\ at' = at + 1 + k
<1>1. Cur.op = "JA" /\ Cur.k = k
  BY DEF Jmp
<1> QED BY <1>1, ExecuteCases

\* A verdict.
LEMMA RetStep ==
    ASSUME Execute, NEW k, Cur = Stmt("RET", k)
    PROVE  stage' = k
<1>1. Cur.op = "RET" /\ Cur.k = k
  BY DEF Stmt
<1> QED BY <1>1, ExecuteCases

\* The half of the argument that was not in the accumulator.
LEMMA SwapStep ==
    ASSUME Execute, BpfInv, NEW h \in {0, 1}, Cur = Swap(h)
    PROVE  stage' = "run" /\ vm'.A = vm.M[h + 1] /\ vm'.M = vm.M /\ at' = at + 1
<1>1. Cur.op = "LDM" /\ Cur.k = h
  BY DEF Stmt, Swap
<1>2. vm' = [vm EXCEPT !.A = vm.M[h + 1]] /\ at' = at + 1 /\ stage' = "run" /\ stage = "run"
  BY <1>1, ExecuteCases
<1>3. vm = [A |-> vm.A, M |-> vm.M]
  BY <1>2 DEF BpfInv, RunInv
<1> QED BY <1>2, <1>3

\* A half is saved.
LEMMA StStep ==
    ASSUME Execute, BpfInv, NEW h \in {0, 1}, Cur = Stmt("ST", h)
    PROVE  /\ stage' = "run" /\ vm'.A = vm.A /\ at' = at + 1
           /\ vm'.M = [vm.M EXCEPT ![h + 1] = vm.A] /\ vm.M \in [{1, 2} -> Word]
<1>1. Cur.op = "ST" /\ Cur.k = h
  BY DEF Stmt
<1>2. vm' = [vm EXCEPT !.M[h + 1] = vm.A] /\ at' = at + 1 /\ stage' = "run" /\ stage = "run"
  BY <1>1, ExecuteCases
<1>3. vm = [A |-> vm.A, M |-> vm.M] /\ vm.M \in [{1, 2} -> Word]
  BY <1>2 DEF BpfInv, RunInv
<1> QED BY <1>2, <1>3

\* Where a comparison o of the accumulator with v leads.
Passes(o, v) ==
    \/ o = "JEQ" /\ vm.A = v
    \/ o = "JGT" /\ vm.A > v
    \/ o = "JGE" /\ vm.A >= v
    \/ o = "JSET" /\ Common(vm.A, v, Bits)

\* A comparison goes one way or the other.
LEMMA TestStep ==
    ASSUME Execute, NEW o \in Tests, NEW v, NEW jt, NEW jf, Cur = Jmp(o, v, jt, jf)
    PROVE  /\ stage' = "run" /\ vm' = vm
           /\ Passes(o, v) => at' = at + 1 + jt
           /\ ~Passes(o, v) => at' = at + 1 + jf
<1>1. Cur.op = o /\ Cur.k = v /\ Cur.jt = jt /\ Cur.jf = jf
  BY DEF Jmp
<1>2. Holds <=> Passes(o, v)
  BY <1>1, Zenon DEF Holds, Tests, Passes
<1>3. Cur.op # "RET"
  BY <1>1 DEF Tests
<1>4. stage' = "run" /\ vm' = vm /\ at' = at + 1 + (IF Holds THEN Cur.jt ELSE Cur.jf)
  BY <1>1, <1>3, ExecuteCases
<1> QED BY <1>1, <1>2, <1>4

\* The filter that runs: the jumps lead to the parts of the architectures.
LEMMA PolicyFilter ==
    ASSUME BpfInv, ResolveInv, stage = "run", prog.kind = "policy", NEW c, c = sandboxPolicy
    PROVE  /\ at \in 1 .. 19
           /\ \A i \in 1 .. 19 : i \notin {3, 5, 6, 13} => filter[i] = c[i]
           /\ filter[3] = Jmp("JA", 2, 0, 0) /\ filter[5] = Jmp("JA", 7, 0, 0)
           /\ filter[6] = Jmp("JA", 0, 0, 0) /\ filter[13] = Jmp("JA", 0, 0, 0)
<1>1. prog \in Programs
  BY DEF BpfInv, FilterInv
<1>2. Source = c
  BY <1>1, CodeCases DEF Source
<1>3. /\ Len(c) = 19 /\ c[1] = LOAD_ARCH
      /\ c[2] = Jmp("JEQ", 3, 0, 1) /\ c[3] = JUMP("label_i386")
      /\ c[4] = Jmp("JEQ", 62, 0, 1) /\ c[5] = JUMP("label_x86_64")
      /\ c[6] = LABEL("label_i386") /\ c[7] = LOAD_SYSCALL_NR
      /\ c[8] = Jmp("JEQ", 103, 0, 1) /\ c[9] = ERRNO
      /\ c[10] = Jmp("JEQ", 86, 0, 1) /\ c[11] = KILL /\ c[12] = ALLOW
      /\ c[13] = LABEL("label_x86_64") /\ c[14] = LOAD_SYSCALL_NR
      /\ c[15] = Jmp("JEQ", 103, 0, 1) /\ c[16] = ERRNO
      /\ c[17] = Jmp("JEQ", 134, 0, 1) /\ c[18] = KILL /\ c[19] = ALLOW
  BY PolicyIs
<1>4. /\ at \in 1 .. 19 /\ DOMAIN Source = 1 .. 19
      /\ \A i \in 1 .. 19 : Source[i].lab = "none" => filter[i] = Source[i]
  BY <1>1, <1>2, <1>3, CurInsn, SourceTyped, Zenon DEF BpfInv, FilterInv
<1>5. \A i \in 1 .. 19 : i \notin {3, 5, 6, 13} => c[i].lab = "none"
  <2>1. /\ \A v : Jmp("JEQ", v, 0, 1).lab = "none" /\ LOAD_ARCH.lab = "none"
        /\ LOAD_SYSCALL_NR.lab = "none" /\ ERRNO.lab = "none" /\ KILL.lab = "none"
        /\ ALLOW.lab = "none"
    BY DEF Jmp, LOAD_ARCH, LOAD_SYSCALL_NR, ERRNO, KILL, ALLOW, Stmt
  <2> QED BY <1>3, <2>1
<1>6. /\ c[3].lab = "label_i386" /\ c[3].jt = 255 /\ c[5].lab = "label_x86_64" /\ c[5].jt = 255
      /\ c[6].lab = "label_i386" /\ c[6].jt = 254
      /\ c[13].lab = "label_x86_64" /\ c[13].jt = 254
  BY <1>3 DEF JUMP, LABEL
<1>7. {3, 5, 6, 13} \subseteq WithLabel /\ 3 \in Jumps /\ 5 \in Jumps /\ 6 \notin Jumps
      /\ 13 \notin Jumps
  BY <1>2, <1>4, <1>6 DEF WithLabel, Jumps
<1>8. \A i : (i \in Labels("label_i386") => i = 6) /\ (i \in Labels("label_x86_64") => i = 13)
  BY <1>2, <1>4, <1>5, <1>6 DEF Labels
<1>9. Resolved(3) /\ Resolved(5) /\ Resolved(6) /\ Resolved(13)
  <2>1. Len(Source) <= InsnMod
    BY <1>2, <1>3, BpfAssumption
  <2> QED BY <1>7, <2>1 DEF ResolveInv
<1>10. /\ filter[3] = Jmp("JA", filter[3].k, 0, 0) /\ filter[3].k \in Nat
       /\ 3 + 1 + filter[3].k = 6
  BY <1>2, <1>6, <1>7, <1>8, <1>9 DEF Resolved
<1>11. /\ filter[5] = Jmp("JA", filter[5].k, 0, 0) /\ filter[5].k \in Nat
       /\ 5 + 1 + filter[5].k = 13
  BY <1>2, <1>6, <1>7, <1>8, <1>9 DEF Resolved
<1>12. filter[6] = Jmp("JA", 0, 0, 0) /\ filter[13] = Jmp("JA", 0, 0, 0)
  BY <1>7, <1>9 DEF Resolved
<1>13. filter[3].k = 2 /\ filter[5].k = 7
  BY <1>10, <1>11
<1> QED BY <1>2, <1>4, <1>5, <1>10, <1>11, <1>12, <1>13

\* What is known of a call at each place of the policy.
PolicyAt ==
    /\ at = 2 => vm.A = data.arch
    /\ at = 3 => data.arch = 3
    /\ at = 4 => vm.A = data.arch /\ data.arch # 3
    /\ at = 5 => data.arch = 62
    /\ at \in 6 .. 12 => data.arch # 62
    /\ at \in 13 .. 19 => data.arch = 62
    /\ at \in {8, 15} => vm.A = data.nr
    /\ at \in {9, 16} => data.nr = 103
    /\ at \in {10, 17} => vm.A = data.nr /\ data.nr # 103
    /\ at = 11 => data.nr = 86
    /\ at = 12 => data.nr \notin {103, 86}
    /\ at = 18 => data.nr = 134
    /\ at = 19 => data.nr \notin {103, 134}

PolicyInv ==
    prog.kind = "policy" =>
      /\ stage = "run" => PolicyAt
      /\ stage \in Verdict => stage = PolicyVerdict(data)

\* An instruction of the policy takes what is known of the call to its next place.
LEMMA PolicyStep ==
    ASSUME BpfInv, ResolveInv, PolicyInv, prog.kind = "policy", Execute
    PROVE  \/ stage' = "run" /\ PolicyAt'
           \/ stage' \in Verdict /\ stage' = PolicyVerdict(data)
<1> DEFINE c == sandboxPolicy
<1>1. stage = "run" /\ data' = data /\ PolicyAt
  BY ExecuteCases DEF PolicyInv
<1>2. /\ at \in 1 .. 19
      /\ \A i \in 1 .. 19 : i \notin {3, 5, 6, 13} => filter[i] = c[i]
      /\ filter[3] = Jmp("JA", 2, 0, 0) /\ filter[5] = Jmp("JA", 7, 0, 0)
      /\ filter[6] = Jmp("JA", 0, 0, 0) /\ filter[13] = Jmp("JA", 0, 0, 0)
  BY <1>1, PolicyFilter
<1>3. /\ c[1] = LOAD_ARCH /\ c[2] = Jmp("JEQ", 3, 0, 1)
      /\ c[4] = Jmp("JEQ", 62, 0, 1) /\ c[7] = LOAD_SYSCALL_NR
      /\ c[8] = Jmp("JEQ", 103, 0, 1) /\ c[9] = ERRNO
      /\ c[10] = Jmp("JEQ", 86, 0, 1) /\ c[11] = KILL /\ c[12] = ALLOW
      /\ c[14] = LOAD_SYSCALL_NR /\ c[15] = Jmp("JEQ", 103, 0, 1) /\ c[16] = ERRNO
      /\ c[17] = Jmp("JEQ", 134, 0, 1) /\ c[18] = KILL /\ c[19] = ALLOW
  BY PolicyIs
<1> HIDE DEF c
<1>4. CASE at = 1
  <2>1. Cur = Stmt("LD", "arch")
    BY <1>2, <1>3, <1>4 DEF Cur, LOAD_ARCH
  <2>2. stage' = "run" /\ vm'.A = data.arch /\ at' = 2
    BY <1>4, <2>1, LdStep
  <2> QED BY <1>1, <2>2 DEF PolicyAt
<1>5. CASE at = 7 \/ at = 14
  <2>1. Cur = Stmt("LD", "nr")
    BY <1>2, <1>3, <1>5 DEF Cur, LOAD_SYSCALL_NR
  <2>2. stage' = "run" /\ vm'.A = data.nr /\ at' = at + 1
    BY <2>1, LdStep
  <2> QED BY <1>1, <1>5, <2>2 DEF PolicyAt
<1>6. ASSUME NEW k, Cur = Jmp("JEQ", k, 0, 1)
      PROVE  /\ stage' = "run" /\ vm' = vm
             /\ ((at' = at + 1 /\ vm.A = k) \/ (at' = at + 2 /\ vm.A # k))
  <2>1. /\ stage' = "run" /\ vm' = vm
        /\ Passes("JEQ", k) => at' = at + 1 + 0
        /\ ~Passes("JEQ", k) => at' = at + 1 + 1
    BY <1>6, TestStep DEF Tests
  <2>2. Passes("JEQ", k) <=> vm.A = k
    BY DEF Passes
  <2> QED BY <1>2, <2>1, <2>2
<1>7. CASE at = 2
  <2>1. Cur = Jmp("JEQ", 3, 0, 1)
    BY <1>2, <1>3, <1>7 DEF Cur
  <2>2. stage' = "run" /\ vm' = vm /\ ((at' = 3 /\ vm.A = 3) \/ (at' = 4 /\ vm.A # 3))
    BY <1>6, <1>7, <2>1
  <2> QED BY <1>1, <1>7, <2>2 DEF PolicyAt
<1>8. CASE at = 4
  <2>1. Cur = Jmp("JEQ", 62, 0, 1)
    BY <1>2, <1>3, <1>8 DEF Cur
  <2>2. stage' = "run" /\ vm' = vm /\ ((at' = 5 /\ vm.A = 62) \/ (at' = 6 /\ vm.A # 62))
    BY <1>6, <1>8, <2>1
  <2> QED BY <1>1, <1>8, <2>2 DEF PolicyAt
<1>9. CASE at \in {3, 5, 6, 13}
  <2>1. stage' = "run" /\ vm' = vm /\ (at = 3 => at' = 6) /\ (at = 5 => at' = 13)
        /\ (at \in {6, 13} => at' = at + 1)
    BY <1>2, <1>9, JaStep DEF Cur
  <2> QED BY <1>1, <1>9, <2>1 DEF PolicyAt
<1>10. CASE at \in {8, 15}
  <2>1. Cur = Jmp("JEQ", 103, 0, 1)
    BY <1>2, <1>3, <1>10 DEF Cur
  <2>2. /\ stage' = "run" /\ vm' = vm
        /\ ((at' = at + 1 /\ vm.A = 103) \/ (at' = at + 2 /\ vm.A # 103))
    BY <1>6, <2>1
  <2> QED BY <1>1, <1>10, <2>2 DEF PolicyAt
<1>11. CASE at = 10
  <2>1. Cur = Jmp("JEQ", 86, 0, 1)
    BY <1>2, <1>3, <1>11 DEF Cur
  <2>2. stage' = "run" /\ vm' = vm /\ ((at' = 11 /\ vm.A = 86) \/ (at' = 12 /\ vm.A # 86))
    BY <1>6, <1>11, <2>1
  <2> QED BY <1>1, <1>11, <2>2 DEF PolicyAt
<1>12. CASE at = 17
  <2>1. Cur = Jmp("JEQ", 134, 0, 1)
    BY <1>2, <1>3, <1>12 DEF Cur
  <2>2. stage' = "run" /\ vm' = vm /\ ((at' = 18 /\ vm.A = 134) \/ (at' = 19 /\ vm.A # 134))
    BY <1>6, <1>12, <2>1
  <2> QED BY <1>1, <1>12, <2>2 DEF PolicyAt
<1>13. CASE at \in {9, 16}
  <2>1. stage' = "ERRNO"
    BY <1>2, <1>3, <1>13, RetStep DEF Cur, ERRNO
  <2>2. PolicyVerdict(data) = "ERRNO"
    BY <1>1, <1>13 DEF PolicyAt, PolicyVerdict
  <2> QED BY <2>1, <2>2 DEF Verdict
<1>14. CASE at \in {11, 18}
  <2>1. stage' = "KILL"
    BY <1>2, <1>3, <1>14, RetStep DEF Cur, KILL
  <2>2. PolicyVerdict(data) = "KILL"
    BY <1>1, <1>14 DEF PolicyAt, PolicyVerdict, AUDIT_ARCH_X86_64
  <2> QED BY <2>1, <2>2 DEF Verdict
<1>15. CASE at \in {12, 19}
  <2>1. stage' = "ALLOW"
    BY <1>2, <1>3, <1>15, RetStep DEF Cur, ALLOW
  <2>2. PolicyVerdict(data) = "ALLOW"
    BY <1>1, <1>15 DEF PolicyAt, PolicyVerdict, AUDIT_ARCH_X86_64
  <2> QED BY <2>1, <2>2 DEF Verdict
<1> QED BY <1>2, <1>4, <1>5, <1>7, <1>8, <1>9, <1>10, <1>11, <1>12, <1>13, <1>14, <1>15

\* Before the kernel runs the filter there is no verdict.
LEMMA OtherSteps ==
    ASSUME [Next]_vars, BpfInv
    PROVE  \/ Execute /\ stage = "run"
           \/ Commit /\ stage' = "run" /\ at' = 1 /\ prog' = prog /\ vm' = vm
           \/ stage' \notin {"run"} \cup Verdict /\ prog' = prog
           \/ UNCHANGED vars
<1>1. CASE \E i \in todo : seccomp_bpf_label(i)
  BY <1>1 DEF seccomp_bpf_label, Verdict
<1>2. CASE StartResolve \/ EndResolve
  BY <1>2 DEF StartResolve, EndResolve, Verdict
<1>3. CASE ResolveJump \/ ResolveLabel \/ ResolveOther
  BY <1>3 DEF ResolveJump, ResolveLabel, ResolveOther, IsJA, Back, Verdict
<1>4. CASE Commit
  BY <1>4 DEF Commit, Verdict
<1>5. CASE Execute
  BY <1>5 DEF Execute
<1> QED BY <1>1, <1>2, <1>3, <1>4, <1>5 DEF Next

\* sandboxPrepareAndCommit's filter gives a call of any architecture and any number
\* but that of ptrace the verdict of its architecture's table, through its jumps and
\* labels.
THEOREM PolicyHolds == Spec => []PolicyApplied
<1>1. Init => PolicyInv
  BY DEF Init, PolicyInv, Verdict
<1>2. ASSUME BpfInv, ResolveInv, PolicyInv, [Next]_vars PROVE PolicyInv'
  <2>1. CASE Execute
    <3>1. prog' = prog /\ data' = data
      BY <2>1, ExecuteCases
    <3>2. "run" \notin Verdict
      BY DEF Verdict
    <3>3. PolicyVerdict(data)' = PolicyVerdict(data)
      BY <3>1 DEF PolicyVerdict
    <3> QED BY <1>2, <2>1, <3>1, <3>2, <3>3, PolicyStep DEF PolicyInv
  <2>2. CASE Commit /\ stage' = "run" /\ at' = 1
    BY <2>2 DEF PolicyInv, PolicyAt, Verdict
  <2>3. CASE stage' \notin {"run"} \cup Verdict
    BY <2>3 DEF PolicyInv
  <2>4. CASE UNCHANGED vars
    BY <1>2, <2>4 DEF PolicyInv, PolicyAt, PolicyVerdict, vars
  <2> QED BY <1>2, <2>1, <2>2, <2>3, <2>4, OtherSteps
<1>3. PolicyInv => PolicyApplied
  BY DEF PolicyInv, PolicyApplied
<1> QED BY <1>1, <1>2, <1>3, Filters, PTL DEF Spec

-----------------------------------------------------------------------------
(* The tests of 64 bit arguments, which come in halves.                     *)

\* The outcome of test n of the program on its argument, as the instructions have
\* it: JNE64 takes only arguments that differ in both halves, and JLT64 takes the
\* equal one, too.
Outcome(n) ==
    CASE prog.kind = "tests64" /\ prog.op[n] = "JNE" ->
           data.lo # prog.lo[n] /\ data.hi # prog.hi[n]
      [] prog.kind = "tests64" /\ prog.op[n] = "JLT" ->
           data.hi * Half + data.lo <= prog.hi[n] * Half + prog.lo[n]
      [] OTHER -> Matches(n)

FirstMatch == IF Outcome(1) THEN "first" ELSE IF Outcome(2) THEN "second" ELSE "ALLOW"

\* A whole argument is above another if its high half is, or if they have the same
\* high half and its low half is above the other one.
LEMMA Above ==
    ASSUME NEW H \in Nat, NEW hi \in Nat, NEW vhi \in Nat,
           NEW lo \in 0 .. H - 1, NEW vlo \in 0 .. H - 1, hi > vhi
    PROVE  hi * H + lo > vhi * H + vlo
<1>1. hi - vhi - 1 \in Nat
  OBVIOUS
<1>2. (hi - vhi - 1) * H \in Nat
  BY <1>1
<1>3. (hi - vhi - 1) * H = hi * H - vhi * H - H
  OBVIOUS
<1>4. hi * H \in Nat /\ vhi * H \in Nat
  OBVIOUS
<1> QED BY <1>2, <1>3, <1>4

\* The quotient of a division is determined by a remainder in range.
LEMMA Quotient ==
    ASSUME NEW m \in Nat, m > 0, NEW d \in Nat, NEW r \in 0 .. m - 1
    PROVE  (m * d + r) \div m = d
OBVIOUS

\* A bit of the low half.
LEMMA LowBit ==
    ASSUME NEW b \in Bits, NEW hi \in Nat, NEW lo \in 0 .. Half - 1
    PROVE  ((hi * Half + lo) \div b) % 2 = (lo \div b) % 2
<1>1. b \in Nat /\ b > 0 /\ Half \in Nat /\ Half % (2 * b) = 0 /\ lo \in Nat
  BY BpfAssumption
<1> DEFINE q == Half \div (2 * b)
           d == lo \div b
           r == lo % b
<1>2. q \in Nat /\ Half = (2 * b) * q
  BY <1>1
<1>3. d \in Nat /\ r \in 0 .. b - 1 /\ lo = b * d + r
  BY <1>1
<1> HIDE DEF q, d, r
<1>4. 2 * (q * hi) + d \in Nat
  BY <1>2, <1>3
<1>5. hi * Half + lo = b * (2 * (q * hi) + d) + r
  BY <1>1, <1>2, <1>3
<1>6. (hi * Half + lo) \div b = 2 * (q * hi) + d
  BY <1>1, <1>3, <1>4, <1>5, Quotient
<1>7. q * hi \in Nat
  BY <1>2
<1>8. (2 * (q * hi) + d) % 2 = d % 2
  BY <1>3, <1>7
<1> QED BY <1>6, <1>8 DEF d

\* A bit of the high half.
LEMMA HighBit ==
    ASSUME NEW b \in Bits, NEW hi \in Nat, NEW lo \in 0 .. Half - 1
    PROVE  (hi * Half + lo) \div (b * Half) = hi \div b
<1>1. b \in Nat /\ b > 0 /\ Half \in Nat /\ Half > 0 /\ lo \in Nat
  BY BpfAssumption
<1> DEFINE d == hi \div b
           r == hi % b
<1>2. d \in Nat /\ r \in 0 .. b - 1 /\ hi = b * d + r
  BY <1>1
<1> HIDE DEF d, r
<1>3. b * Half \in Nat /\ b * Half > 0 /\ r * Half \in Nat
  BY <1>1, <1>2
<1>4. r * Half + lo < b * Half
  <2>1. (b - r - 1) * Half >= 0
    BY <1>1, <1>2
  <2>2. (b - r - 1) * Half = b * Half - r * Half - Half
    BY <1>1, <1>2
  <2> QED BY <1>1, <1>3, <2>1, <2>2
<1>5. hi * Half + lo = (b * Half) * d + (r * Half + lo)
  <2>1. hi * Half = (b * d) * Half + r * Half
    BY <1>1, <1>2
  <2>2. (b * d) * Half = (b * Half) * d /\ (b * Half) * d \in Nat
    BY <1>1, <1>2
  <2> QED BY <1>1, <1>3, <2>1, <2>2
<1>6. r * Half + lo \in 0 .. b * Half - 1
  BY <1>1, <1>3, <1>4
<1>7. (hi * Half + lo) \div (b * Half) = d
  <2> DEFINE m == b * Half
             s == r * Half + lo
  <2>1. m \in Nat /\ m > 0 /\ s \in 0 .. m - 1 /\ hi * Half + lo = m * d + s
    BY <1>3, <1>5, <1>6
  <2> HIDE DEF m, s
  <2>2. (m * d + s) \div m = d
    BY <1>2, <2>1, Quotient
  <2> QED BY <2>1, <2>2 DEF m
<1> QED BY <1>7 DEF d

\* Two whole arguments have a bit in common if their halves have one.
LEMMA CommonHalves ==
    ASSUME NEW hi \in Nat, NEW vhi \in Nat, NEW lo \in 0 .. Half - 1, NEW vlo \in 0 .. Half - 1
    PROVE  Common(hi * Half + lo, vhi * Half + vlo, Bits64)
             <=> Common(hi, vhi, Bits) \/ Common(lo, vlo, Bits)
<1> DEFINE a == hi * Half + lo
           v == vhi * Half + vlo
<1>1. \A b \in Bits : ((a \div b) % 2 = 1 <=> (lo \div b) % 2 = 1)
                        /\ ((v \div b) % 2 = 1 <=> (vlo \div b) % 2 = 1)
  BY LowBit
<1>2. \A b \in Bits : a \div (b * Half) = hi \div b /\ v \div (b * Half) = vhi \div b
  BY HighBit
<1> HIDE DEF a, v
<1>3. Common(lo, vlo, Bits) <=> Common(a, v, Bits)
  BY <1>1 DEF Common
<1>4. Common(hi, vhi, Bits) <=> Common(a, v, {b * Half : b \in Bits})
  BY <1>2 DEF Common
<1>5. Common(a, v, Bits64) <=> Common(a, v, Bits) \/ Common(a, v, {b * Half : b \in Bits})
  BY DEF Common, Bits64
<1> QED BY <1>3, <1>4, <1>5 DEF a, v

\* The length of the test an op stands for: five instructions after one or two
\* comparisons of the high halves.
TestLen(op) == IF op \in {"JEQ", "JNE", "JA"} THEN 6 ELSE 7

\* What test n of the program means for the halves.
LEMMA OutcomeHalves ==
    ASSUME prog \in Programs, prog.kind = "tests64", data \in Calls, NEW n \in {1, 2},
           NEW op, op = prog.op[n], NEW lo, lo = data.lo, NEW hi, hi = data.hi,
           NEW vlo, vlo = prog.lo[n], NEW vhi, vhi = prog.hi[n]
    PROVE  /\ op \in Compares /\ {lo, hi, vlo, vhi} \subseteq 0 .. Half - 1
           /\ op = "JEQ" => (Outcome(n) <=> hi = vhi /\ lo = vlo)
           /\ op = "JNE" => (Outcome(n) <=> hi # vhi /\ lo # vlo)
           /\ op = "JGT" => (Outcome(n) <=> hi > vhi \/ (hi = vhi /\ lo > vlo))
           /\ op = "JGE" => (Outcome(n) <=> hi > vhi \/ (hi = vhi /\ lo >= vlo))
           /\ op = "JLT" => (Outcome(n) <=> hi < vhi \/ (hi = vhi /\ lo <= vlo))
           /\ op = "JLE" => (Outcome(n) <=> hi < vhi \/ (hi = vhi /\ lo <= vlo))
           /\ op = "JA" => (Outcome(n) <=> Common(hi, vhi, Bits) \/ Common(lo, vlo, Bits))
<1> DEFINE a == hi * Half + lo
           v == vhi * Half + vlo
<1>1. /\ prog.op \in Compares \X Compares /\ prog.lo \in (0 .. Half - 1) \X (0 .. Half - 1)
      /\ prog.hi \in (0 .. Half - 1) \X (0 .. Half - 1)
  BY ProgramAssumption, Zenon
<1>2. op \in Compares /\ {lo, hi, vlo, vhi} \subseteq 0 .. Half - 1
  BY <1>1 DEF Calls
<1>3. /\ Half \in Nat /\ hi \in Nat /\ vhi \in Nat
      /\ lo \in 0 .. Half - 1 /\ vlo \in 0 .. Half - 1
  BY <1>2, BpfAssumption
<1>4. a \in Nat /\ v \in Nat
  BY <1>3
<1>5. (hi > vhi => a > v) /\ (vhi > hi => v > a)
  BY <1>3, Above, Zenon
<1>6. hi = vhi => (a > v <=> lo > vlo) /\ (a = v <=> lo = vlo) /\ (v > a <=> vlo > lo)
  <2> SUFFICES ASSUME hi = vhi
               PROVE  (a > v <=> lo > vlo) /\ (a = v <=> lo = vlo) /\ (v > a <=> vlo > lo)
    OBVIOUS
  <2> DEFINE k == vhi * Half
  <2>1. a = k + lo /\ v = k + vlo /\ k \in Nat
    BY <1>3
  <2> HIDE DEF a, v, k
  <2> QED BY <1>3, <2>1
<1>7. Common(a, v, Bits64) <=> Common(hi, vhi, Bits) \/ Common(lo, vlo, Bits)
  BY <1>3, CommonHalves, Zenon
<1>8. Outcome(n) <=>
        CASE op = "JNE" -> lo # vlo /\ hi # vhi
          [] op = "JLT" -> a <= v
          [] OTHER -> Compare(op, a, v, Bits64)
  BY DEF Outcome, Matches
<1> HIDE DEF a, v
<1>9. /\ op = "JEQ" => (Outcome(n) <=> a = v)
      /\ op = "JGT" => (Outcome(n) <=> a > v)
      /\ op = "JNE" => (Outcome(n) <=> lo # vlo /\ hi # vhi)
      /\ op = "JLT" => (Outcome(n) <=> a <= v)
      /\ op = "JGE" => (Outcome(n) <=> a >= v)
      /\ op = "JLE" => (Outcome(n) <=> a <= v)
      /\ op = "JA" => (Outcome(n) <=> Common(a, v, Bits64))
  BY <1>8, Zenon DEF Compare
<1>10. (a = v => hi = vhi) /\ (a > v => hi >= vhi) /\ (v > a => vhi >= hi)
  BY <1>3, <1>4, <1>5
<1>11. /\ a = v <=> hi = vhi /\ lo = vlo
       /\ a > v <=> hi > vhi \/ (hi = vhi /\ lo > vlo)
       /\ a >= v <=> hi > vhi \/ (hi = vhi /\ lo >= vlo)
       /\ a <= v <=> hi < vhi \/ (hi = vhi /\ lo <= vlo)
  BY <1>3, <1>4, <1>5, <1>6, <1>10
<1> QED BY <1>2, <1>7, <1>9, <1>11

\* A test of a 64 bit argument ends in the comparison of the low halves, between
\* two instructions that swap them, what is done if it holds, and another swap.
IsTest64(c, op, lo, hi, jt) ==
    /\ c \in Seq(Insn) /\ Len(c) = TestLen(op) /\ \A i \in 1 .. Len(c) : c[i].lab = "none"
    /\ op \in {"JEQ", "JNE", "JA"} =>
         c[2] = Swap(0) /\ c[4] = Swap(1) /\ c[5] = jt /\ c[6] = Swap(1)
    /\ op \notin {"JEQ", "JNE", "JA"} =>
         c[3] = Swap(0) /\ c[5] = Swap(1) /\ c[6] = jt /\ c[7] = Swap(1)
    /\ op = "JEQ" => c[1] = Jmp("JEQ", hi, 0, 5) /\ c[3] = Jmp("JEQ", lo, 0, 2)
    /\ op = "JNE" => c[1] = Jmp("JEQ", hi, 5, 0) /\ c[3] = Jmp("JEQ", lo, 2, 0)
    /\ op = "JA" => c[1] = Jmp("JSET", hi, 3, 0) /\ c[3] = Jmp("JSET", lo, 0, 2)
    /\ op = "JGE" => /\ c[1] = Jmp("JGT", hi, 4, 0) /\ c[2] = Jmp("JEQ", hi, 0, 5)
                     /\ c[4] = Jmp("JGE", lo, 0, 2)
    /\ op = "JLT" => /\ c[1] = Jmp("JGE", hi, 0, 4) /\ c[2] = Jmp("JEQ", hi, 0, 5)
                     /\ c[4] = Jmp("JGT", lo, 2, 0)
    /\ op = "JGT" => /\ c[1] = Jmp("JGT", hi, 4, 0) /\ c[2] = Jmp("JEQ", hi, 0, 5)
                     /\ c[4] = Jmp("JGT", lo, 0, 2)
    /\ op = "JLE" => /\ c[1] = Jmp("JGT", hi, 6, 0) /\ c[2] = Jmp("JEQ", hi, 0, 3)
                     /\ c[4] = Jmp("JGT", lo, 2, 0)

\* That holds of each of the seven.
LEMMA Test64Is ==
    ASSUME NEW op \in Compares, NEW lo \in Nat, NEW hi \in Nat, NEW jt \in Insn, jt.lab = "none"
    PROVE  IsTest64(Test64(op, lo, hi, jt), op, lo, hi, jt)
<1> DEFINE c == Test64(op, lo, hi, jt)
<1>1. c \in Seq(Insn)
  BY Test64Typed
<1> SUFFICES IsTest64(c, op, lo, hi, jt)
  OBVIOUS
<1> HIDE DEF c
<1>2. \A o, v, t, f : Jmp(o, v, t, f).lab = "none" /\ Swap(0).lab = "none" /\ Swap(1).lab = "none"
  BY DEF Jmp, Swap, Stmt
<1>3. CASE op = "JEQ"
  <2>1. c = <<Jmp("JEQ", hi, 0, 5), Swap(0), Jmp("JEQ", lo, 0, 2), Swap(1), jt, Swap(1)>>
    BY <1>3 DEF c, Test64, JEQ64
  <2> QED BY <1>1, <1>2, <1>3, <2>1 DEF TestLen, IsTest64
<1>4. CASE op = "JNE"
  <2>1. c = <<Jmp("JEQ", hi, 5, 0), Swap(0), Jmp("JEQ", lo, 2, 0), Swap(1), jt, Swap(1)>>
    BY <1>4 DEF c, Test64, JNE64
  <2> QED BY <1>1, <1>2, <1>4, <2>1 DEF TestLen, IsTest64
<1>5. CASE op = "JA"
  <2>1. c = <<Jmp("JSET", hi, 3, 0), Swap(0), Jmp("JSET", lo, 0, 2), Swap(1), jt, Swap(1)>>
    BY <1>5 DEF c, Test64, JA64
  <2> QED BY <1>1, <1>2, <1>5, <2>1 DEF TestLen, IsTest64
<1>6. CASE op = "JGE"
  <2>1. c = <<Jmp("JGT", hi, 4, 0), Jmp("JEQ", hi, 0, 5), Swap(0), Jmp("JGE", lo, 0, 2),
              Swap(1), jt, Swap(1)>>
    BY <1>6 DEF c, Test64, JGE64
  <2> QED BY <1>1, <1>2, <1>6, <2>1 DEF TestLen, IsTest64
<1>7. CASE op = "JLT"
  <2>1. c = <<Jmp("JGE", hi, 0, 4), Jmp("JEQ", hi, 0, 5), Swap(0), Jmp("JGT", lo, 2, 0),
              Swap(1), jt, Swap(1)>>
    BY <1>7 DEF c, Test64, JLT64
  <2> QED BY <1>1, <1>2, <1>7, <2>1 DEF TestLen, IsTest64
<1>8. CASE op = "JGT"
  <2>1. c = <<Jmp("JGT", hi, 4, 0), Jmp("JEQ", hi, 0, 5), Swap(0), Jmp("JGT", lo, 0, 2),
              Swap(1), jt, Swap(1)>>
    BY <1>8 DEF c, Test64, JGT64
  <2> QED BY <1>1, <1>2, <1>8, <2>1 DEF TestLen, IsTest64
<1>9. CASE op = "JLE"
  <2>1. c = <<Jmp("JGT", hi, 6, 0), Jmp("JEQ", hi, 0, 3), Swap(0), Jmp("JGT", lo, 2, 0),
              Swap(1), jt, Swap(1)>>
    BY <1>9 DEF c, Test64, JLE64
  <2> QED BY <1>1, <1>2, <1>9, <2>1 DEF TestLen, IsTest64
<1> QED BY <1>3, <1>4, <1>5, <1>6, <1>7, <1>8, <1>9 DEF Compares

\* The comparison of the high halves leaves the decision to the low ones.
HiDecides(n) ==
    CASE prog.op[n] = "JNE" -> data.hi # prog.hi[n]
      [] prog.op[n] = "JA" -> ~Common(data.hi, prog.hi[n], Bits)
      [] OTHER -> data.hi = prog.hi[n]

\* What is known at instruction i of test n, with w in the accumulator; behind its
\* last one, too.
Known(n, i, w) ==
    LET l == TestLen(prog.op[n])
    IN  /\ i \in {1, l - 5, l + 1} => w = data.hi
        /\ i = 2 /\ l = 7 => IF prog.op[n] = "JLT" THEN data.hi >= prog.hi[n]
                             ELSE data.hi <= prog.hi[n]
        /\ i \in {l - 4, l - 3} => HiDecides(n)
        /\ i = l - 3 => w = data.lo
        /\ i \in {l - 2, l - 1} => Outcome(n)
        /\ i \in {l, l + 1} => ~Outcome(n)

Match(n) == IF n = 1 THEN "first" ELSE "second"

\* The instructions of test n start behind the first b ones.
TestAt(n, b) ==
    \A i \in 1 .. TestLen(prog.op[n]) :
      filter[b + i] = Test64(prog.op[n], prog.lo[n], prog.hi[n], Stmt("RET", Match(n)))[i]

\* The tests with one comparison of the high halves.
LEMMA ShortStep ==
    ASSUME BpfInv, Execute, prog.kind = "tests64", NEW n \in {1, 2}, NEW b \in Nat,
           TestAt(n, b), NEW i \in 1 .. 6, at = b + i, Known(n, i, vm.A),
           vm.M[1] = data.lo, vm.M[2] = data.hi,
           prog.op[n] \in {"JEQ", "JNE", "JA"}
    PROVE  \/ /\ stage' = "run" /\ vm'.M = vm.M
              /\ \E j \in 1 .. 7 : at' = b + j /\ Known(n, j, vm'.A)
           \/ stage' = Match(n) /\ Outcome(n)
<1> DEFINE op == prog.op[n]
           lo == data.lo
           hi == data.hi
           vlo == prog.lo[n]
           vhi == prog.hi[n]
           c == Test64(op, vlo, vhi, Stmt("RET", Match(n)))
           O == Outcome(n)
           P == HiDecides(n)
<1>1. stage = "run" /\ prog \in Programs /\ data \in Calls
  BY ExecuteCases DEF BpfInv, FilterInv, RunInv
<1>2. /\ op \in Compares /\ {lo, hi, vlo, vhi} \subseteq 0 .. Half - 1
      /\ op = "JEQ" => (O <=> hi = vhi /\ lo = vlo)
      /\ op = "JNE" => (O <=> hi # vhi /\ lo # vlo)
      /\ op = "JA" => (O <=> Common(hi, vhi, Bits) \/ Common(lo, vlo, Bits))
  BY <1>1, OutcomeHalves
<1>3. TestLen(op) = 6 /\ vlo \in Nat /\ vhi \in Nat
  BY <1>2, BpfAssumption DEF TestLen
<1>8. op \in {"JEQ", "JNE", "JA"}
  OBVIOUS
<1>4. /\ c[2] = Swap(0) /\ c[4] = Swap(1) /\ c[5] = Stmt("RET", Match(n)) /\ c[6] = Swap(1)
      /\ op = "JEQ" => c[1] = Jmp("JEQ", vhi, 0, 5) /\ c[3] = Jmp("JEQ", vlo, 0, 2)
      /\ op = "JNE" => c[1] = Jmp("JEQ", vhi, 5, 0) /\ c[3] = Jmp("JEQ", vlo, 2, 0)
      /\ op = "JA" => c[1] = Jmp("JSET", vhi, 3, 0) /\ c[3] = Jmp("JSET", vlo, 0, 2)
  <2>1. Stmt("RET", Match(n)) \in Insn
    BY MacrosTyped DEF Match, Verdict
  <2>2. Stmt("RET", Match(n)).lab = "none"
    BY DEF Stmt
  <2>3. IsTest64(c, op, vlo, vhi, Stmt("RET", Match(n)))
    BY <1>2, <1>3, <2>1, <2>2, Test64Is
  <2> HIDE DEF c, op, vlo, vhi
  <2> QED BY <1>8, <2>3 DEF IsTest64
<1>5. Cur = c[i]
  BY <1>3 DEF TestAt, Cur
<1>6. /\ op = "JEQ" => (P <=> hi = vhi)
      /\ op = "JNE" => (P <=> hi # vhi)
      /\ op = "JA" => (P <=> ~Common(hi, vhi, Bits))
  BY DEF HiDecides
<1>7. \A j, w : Known(n, j, w) <=>
        /\ j \in {1, 7} => w = hi
        /\ j \in {2, 3} => P
        /\ j = 3 => w = lo
        /\ j \in {4, 5} => O
        /\ j \in {6, 7} => ~O
  <2>1. 6 - 5 = 1 /\ 6 - 4 = 2 /\ 6 - 3 = 3 /\ 6 - 2 = 4 /\ 6 - 1 = 5 /\ 6 + 1 = 7
    OBVIOUS
  <2> QED BY <1>3, <2>1 DEF Known
<1> HIDE DEF op, lo, hi, vlo, vhi, c, O, P
<1>9. CASE i = 1
  <2>1. vm.A = hi
    BY <1>7, <1>9
  <2>2. /\ stage' = "run" /\ vm' = vm
        /\ op = "JEQ" => at' = IF hi = vhi THEN b + 2 ELSE b + 7
        /\ op = "JNE" => at' = IF hi = vhi THEN b + 7 ELSE b + 2
        /\ op = "JA" => at' = IF Common(hi, vhi, Bits) THEN b + 5 ELSE b + 2
    <3>1. /\ Passes("JEQ", vhi) <=> hi = vhi
          /\ Passes("JSET", vhi) <=> Common(hi, vhi, Bits)
      BY <2>1 DEF Passes
    <3>2. "JEQ" \in Tests /\ "JSET" \in Tests /\ "JGT" \in Tests /\ "JGE" \in Tests
      BY DEF Tests
    <3>3. /\ op = "JEQ" => Cur = Jmp("JEQ", vhi, 0, 5)
          /\ op = "JNE" => Cur = Jmp("JEQ", vhi, 5, 0)
          /\ op = "JA" => Cur = Jmp("JSET", vhi, 3, 0)
      BY <1>4, <1>5, <1>9
    <3> QED BY <1>8, <1>9, <3>1, <3>2, <3>3, TestStep
  <2> QED BY <1>2, <1>6, <1>7, <1>8, <2>1, <2>2
<1>10. CASE i = 3
  <2>1. vm.A = lo /\ P
    BY <1>7, <1>10
  <2>2. /\ stage' = "run" /\ vm' = vm
        /\ op = "JEQ" => at' = IF lo = vlo THEN b + 4 ELSE b + 6
        /\ op = "JNE" => at' = IF lo = vlo THEN b + 6 ELSE b + 4
        /\ op = "JA" => at' = IF Common(lo, vlo, Bits) THEN b + 4 ELSE b + 6
    <3>1. /\ Passes("JEQ", vlo) <=> lo = vlo
          /\ Passes("JSET", vlo) <=> Common(lo, vlo, Bits)
      BY <2>1 DEF Passes
    <3>2. "JEQ" \in Tests /\ "JSET" \in Tests /\ "JGT" \in Tests /\ "JGE" \in Tests
      BY DEF Tests
    <3>3. /\ op = "JEQ" => Cur = Jmp("JEQ", vlo, 0, 2)
          /\ op = "JNE" => Cur = Jmp("JEQ", vlo, 2, 0)
          /\ op = "JA" => Cur = Jmp("JSET", vlo, 0, 2)
      BY <1>4, <1>5, <1>10
    <3> QED BY <1>8, <1>10, <3>1, <3>2, <3>3, TestStep
  <2> QED BY <1>2, <1>6, <1>7, <1>8, <2>1, <2>2
<1>11. CASE i = 2
  <2>1. stage' = "run" /\ vm'.A = lo /\ vm'.M = vm.M /\ at' = b + 3
    BY <1>4, <1>5, <1>11, SwapStep DEF lo
  <2> QED BY <1>7, <1>11, <2>1
<1>12. CASE i \in {4, 6}
  <2>1. stage' = "run" /\ vm'.A = hi /\ vm'.M = vm.M /\ at' = b + (i + 1)
    BY <1>4, <1>5, <1>12, SwapStep DEF hi
  <2> QED BY <1>7, <1>12, <2>1
<1>13. CASE i = 5
  <2>1. stage' = Match(n)
    BY <1>4, <1>5, <1>13, RetStep
  <2> QED BY <1>7, <1>13, <2>1 DEF O
<1> QED BY <1>9, <1>10, <1>11, <1>12, <1>13

\* The tests with two comparisons of the high halves.
LEMMA LongStep ==
    ASSUME BpfInv, Execute, prog.kind = "tests64", NEW n \in {1, 2}, NEW b \in Nat,
           TestAt(n, b), NEW i \in 1 .. 7, at = b + i, Known(n, i, vm.A),
           vm.M[1] = data.lo, vm.M[2] = data.hi,
           prog.op[n] \notin {"JEQ", "JNE", "JA"}
    PROVE  \/ /\ stage' = "run" /\ vm'.M = vm.M
              /\ \E j \in 1 .. 8 : at' = b + j /\ Known(n, j, vm'.A)
           \/ stage' = Match(n) /\ Outcome(n)
<1> DEFINE op == prog.op[n]
           lo == data.lo
           hi == data.hi
           vlo == prog.lo[n]
           vhi == prog.hi[n]
           c == Test64(op, vlo, vhi, Stmt("RET", Match(n)))
           O == Outcome(n)
           Q == IF op = "JLT" THEN hi >= vhi ELSE hi <= vhi
<1>1. stage = "run" /\ prog \in Programs /\ data \in Calls
  BY ExecuteCases DEF BpfInv, FilterInv, RunInv
<1>2. /\ op \in Compares /\ {lo, hi, vlo, vhi} \subseteq 0 .. Half - 1
      /\ op = "JGT" => (O <=> hi > vhi \/ (hi = vhi /\ lo > vlo))
      /\ op = "JGE" => (O <=> hi > vhi \/ (hi = vhi /\ lo >= vlo))
      /\ op = "JLT" => (O <=> hi < vhi \/ (hi = vhi /\ lo <= vlo))
      /\ op = "JLE" => (O <=> hi < vhi \/ (hi = vhi /\ lo <= vlo))
  BY <1>1, OutcomeHalves
<1>3. /\ TestLen(op) = 7 /\ op \in {"JGT", "JGE", "JLT", "JLE"}
      /\ lo \in Nat /\ hi \in Nat /\ vlo \in Nat /\ vhi \in Nat
  BY <1>2, BpfAssumption DEF TestLen, Compares
<1>4. /\ c[3] = Swap(0) /\ c[5] = Swap(1) /\ c[6] = Stmt("RET", Match(n)) /\ c[7] = Swap(1)
      /\ op = "JGE" => /\ c[1] = Jmp("JGT", vhi, 4, 0) /\ c[2] = Jmp("JEQ", vhi, 0, 5)
                       /\ c[4] = Jmp("JGE", vlo, 0, 2)
      /\ op = "JLT" => /\ c[1] = Jmp("JGE", vhi, 0, 4) /\ c[2] = Jmp("JEQ", vhi, 0, 5)
                       /\ c[4] = Jmp("JGT", vlo, 2, 0)
      /\ op = "JGT" => /\ c[1] = Jmp("JGT", vhi, 4, 0) /\ c[2] = Jmp("JEQ", vhi, 0, 5)
                       /\ c[4] = Jmp("JGT", vlo, 0, 2)
      /\ op = "JLE" => /\ c[1] = Jmp("JGT", vhi, 6, 0) /\ c[2] = Jmp("JEQ", vhi, 0, 3)
                       /\ c[4] = Jmp("JGT", vlo, 2, 0)
  <2>1. Stmt("RET", Match(n)) \in Insn
    BY MacrosTyped DEF Match, Verdict
  <2>2. Stmt("RET", Match(n)).lab = "none"
    BY DEF Stmt
  <2>3. IsTest64(c, op, vlo, vhi, Stmt("RET", Match(n)))
    BY <1>2, <1>3, <2>1, <2>2, Test64Is
  <2> HIDE DEF c, op, vlo, vhi
  <2> QED BY <1>3, <2>3 DEF IsTest64
<1>5. Cur = c[i]
  BY <1>3 DEF TestAt, Cur
<1>6. HiDecides(n) <=> hi = vhi
  BY <1>3 DEF HiDecides
<1>7. \A j, w : Known(n, j, w) <=>
        /\ j \in {1, 2, 8} => w = hi
        /\ j = 2 => Q
        /\ j \in {3, 4} => hi = vhi
        /\ j = 4 => w = lo
        /\ j \in {5, 6} => O
        /\ j \in {7, 8} => ~O
  <2>1. 7 - 5 = 2 /\ 7 - 4 = 3 /\ 7 - 3 = 4 /\ 7 - 2 = 5 /\ 7 - 1 = 6 /\ 7 + 1 = 8
    OBVIOUS
  <2> QED BY <1>3, <1>6, <2>1 DEF Known
<1> HIDE DEF op, lo, hi, vlo, vhi, c, O
<1>8. CASE i = 1
  <2>1. vm.A = hi
    BY <1>7, <1>8
  <2>2. /\ stage' = "run" /\ vm' = vm
        /\ op \in {"JGE", "JGT"} => at' = IF hi > vhi THEN b + 6 ELSE b + 2
        /\ op = "JLT" => at' = IF hi >= vhi THEN b + 2 ELSE b + 6
        /\ op = "JLE" => at' = IF hi > vhi THEN b + 8 ELSE b + 2
    <3>1. (Passes("JGT", vhi) <=> hi > vhi) /\ (Passes("JGE", vhi) <=> hi >= vhi)
      BY <2>1 DEF Passes
    <3>2. "JEQ" \in Tests /\ "JSET" \in Tests /\ "JGT" \in Tests /\ "JGE" \in Tests
      BY DEF Tests
    <3>3. /\ op \in {"JGE", "JGT"} => Cur = Jmp("JGT", vhi, 4, 0)
          /\ op = "JLT" => Cur = Jmp("JGE", vhi, 0, 4)
          /\ op = "JLE" => Cur = Jmp("JGT", vhi, 6, 0)
      BY <1>4, <1>5, <1>8
    <3> QED BY <1>3, <1>8, <3>1, <3>2, <3>3, TestStep
  <2> QED BY <1>2, <1>3, <1>7, <2>1, <2>2
<1>9. CASE i = 2
  <2>1. vm.A = hi /\ Q
    BY <1>7, <1>9
  <2>2. /\ stage' = "run" /\ vm' = vm
        /\ op \in {"JGE", "JGT", "JLT"} => at' = IF hi = vhi THEN b + 3 ELSE b + 8
        /\ op = "JLE" => at' = IF hi = vhi THEN b + 3 ELSE b + 6
    <3>1. Passes("JEQ", vhi) <=> hi = vhi
      BY <2>1 DEF Passes
    <3>2. "JEQ" \in Tests /\ "JSET" \in Tests /\ "JGT" \in Tests /\ "JGE" \in Tests
      BY DEF Tests
    <3>3. /\ op \in {"JGE", "JGT", "JLT"} => Cur = Jmp("JEQ", vhi, 0, 5)
          /\ op = "JLE" => Cur = Jmp("JEQ", vhi, 0, 3)
      BY <1>4, <1>5, <1>9
    <3> QED BY <1>3, <1>9, <3>1, <3>2, <3>3, TestStep
  <2> QED BY <1>2, <1>3, <1>7, <2>1, <2>2
<1>10. CASE i = 4
  <2>1. vm.A = lo /\ hi = vhi
    BY <1>7, <1>10
  <2>2. /\ stage' = "run" /\ vm' = vm
        /\ op = "JGE" => at' = IF lo >= vlo THEN b + 5 ELSE b + 7
        /\ op = "JGT" => at' = IF lo > vlo THEN b + 5 ELSE b + 7
        /\ op \in {"JLT", "JLE"} => at' = IF lo > vlo THEN b + 7 ELSE b + 5
    <3>1. (Passes("JGE", vlo) <=> lo >= vlo) /\ (Passes("JGT", vlo) <=> lo > vlo)
      BY <2>1 DEF Passes
    <3>2. "JEQ" \in Tests /\ "JSET" \in Tests /\ "JGT" \in Tests /\ "JGE" \in Tests
      BY DEF Tests
    <3>3. /\ op = "JGE" => Cur = Jmp("JGE", vlo, 0, 2)
          /\ op = "JGT" => Cur = Jmp("JGT", vlo, 0, 2)
          /\ op \in {"JLT", "JLE"} => Cur = Jmp("JGT", vlo, 2, 0)
      BY <1>4, <1>5, <1>10
    <3> QED BY <1>3, <1>10, <3>1, <3>2, <3>3, TestStep
  <2> QED BY <1>2, <1>3, <1>7, <2>1, <2>2
<1>11. CASE i = 3
  <2>1. stage' = "run" /\ vm'.A = lo /\ vm'.M = vm.M /\ at' = b + 4
    BY <1>4, <1>5, <1>11, SwapStep DEF lo
  <2> QED BY <1>7, <1>11, <2>1
<1>12. CASE i \in {5, 7}
  <2>1. stage' = "run" /\ vm'.A = hi /\ vm'.M = vm.M /\ at' = b + (i + 1)
    BY <1>4, <1>5, <1>12, SwapStep DEF hi
  <2> QED BY <1>7, <1>12, <2>1
<1>13. CASE i = 6
  <2>1. stage' = Match(n)
    BY <1>4, <1>5, <1>13, RetStep
  <2> QED BY <1>7, <1>13, <2>1 DEF O
<1> QED BY <1>8, <1>9, <1>10, <1>11, <1>12, <1>13

\* The program of two tests of a 64 bit argument, one instruction after the other.
LEMMA Tests64Is ==
    ASSUME prog \in Programs, prog.kind = "tests64", NEW k, k = TestLen(prog.op[1]),
           NEW l, l = TestLen(prog.op[2])
    PROVE  /\ k \in 6 .. 7 /\ l \in 6 .. 7 /\ Len(Source) = 5 + k + l
           /\ \A i \in 1 .. 5 + k + l : Source[i].lab = "none"
           /\ Source[1] = Stmt("LD", "lo") /\ Source[2] = Stmt("ST", 0)
           /\ Source[3] = Stmt("LD", "hi") /\ Source[4] = Stmt("ST", 1)
           /\ \A i \in 1 .. k :
                Source[4 + i] = Test64(prog.op[1], prog.lo[1], prog.hi[1], Stmt("RET", "first"))[i]
           /\ \A i \in 1 .. l :
                Source[4 + k + i] =
                  Test64(prog.op[2], prog.lo[2], prog.hi[2], Stmt("RET", "second"))[i]
           /\ Source[5 + k + l] = ALLOW
<1> DEFINE s == Test64(prog.op[1], prog.lo[1], prog.hi[1], Stmt("RET", "first"))
           t == Test64(prog.op[2], prog.lo[2], prog.hi[2], Stmt("RET", "second"))
           u == ARG_64 \o s
           v == u \o t
           w == v \o <<ALLOW>>
<1>1. k \in 6 .. 7 /\ l \in 6 .. 7
  BY DEF TestLen
<1>2. Source = w
  BY CodeCases DEF Source
<1>3. /\ prog.op[1] \in Compares /\ prog.op[2] \in Compares /\ prog.lo[1] \in Nat
      /\ prog.lo[2] \in Nat /\ prog.hi[1] \in Nat /\ prog.hi[2] \in Nat
  <2>1. /\ prog.op \in Compares \X Compares /\ prog.lo \in (0 .. Half - 1) \X (0 .. Half - 1)
        /\ prog.hi \in (0 .. Half - 1) \X (0 .. Half - 1)
    BY ProgramAssumption, ZenonT(40)
  <2> QED BY <2>1, BpfAssumption
<1>4. /\ Stmt("RET", "first") \in Insn /\ Stmt("RET", "second") \in Insn
      /\ Stmt("RET", "first").lab = "none" /\ Stmt("RET", "second").lab = "none"
      /\ ALLOW \in Insn /\ ALLOW.lab = "none"
  BY MacrosTyped DEF Verdict, Stmt, ALLOW
<1>5. s \in Seq(Insn) /\ Len(s) = k /\ \A i \in 1 .. k : s[i].lab = "none"
  <2>1. IsTest64(s, prog.op[1], prog.lo[1], prog.hi[1], Stmt("RET", "first"))
    BY <1>3, <1>4, Test64Is
  <2> HIDE DEF s
  <2> QED BY <2>1 DEF IsTest64
<1>6. t \in Seq(Insn) /\ Len(t) = l /\ \A i \in 1 .. l : t[i].lab = "none"
  <2>1. IsTest64(t, prog.op[2], prog.lo[2], prog.hi[2], Stmt("RET", "second"))
    BY <1>3, <1>4, Test64Is
  <2> HIDE DEF t
  <2> QED BY <2>1 DEF IsTest64
<1>7. /\ ARG_64 \in Seq(Insn) /\ Len(ARG_64) = 4 /\ \A i \in 1 .. 4 : ARG_64[i].lab = "none"
      /\ ARG_64[1] = Stmt("LD", "lo") /\ ARG_64[2] = Stmt("ST", 0)
      /\ ARG_64[3] = Stmt("LD", "hi") /\ ARG_64[4] = Stmt("ST", 1)
  <2>1. /\ Stmt("LD", "lo") \in Insn /\ Stmt("ST", 0) \in Insn /\ Stmt("LD", "hi") \in Insn
        /\ Stmt("ST", 1) \in Insn
    BY MacrosTyped
  <2>2. \A o, x : Stmt(o, x).lab = "none"
    BY DEF Stmt
  <2> QED BY <2>1, <2>2 DEF ARG_64
<1>8. <<ALLOW>> \in Seq(Insn) /\ Len(<<ALLOW>>) = 1 /\ <<ALLOW>>[1] = ALLOW
  BY <1>4
<1> HIDE DEF s, t
<1>9. Joined(u, ARG_64, s)
  BY <1>5, <1>7, Concat, Zenon
<1> HIDE DEF u
<1>10. Joined(v, u, t)
  <2>1. u \in Seq(Insn)
    BY <1>9 DEF Joined
  <2> QED BY <1>6, <2>1, Concat, Zenon
<1> HIDE DEF v
<1>11. Joined(w, v, <<ALLOW>>)
  <2>1. v \in Seq(Insn)
    BY <1>10 DEF Joined
  <2> QED BY <1>8, <2>1, Concat, Zenon
<1> HIDE DEF w
<1>12. /\ Len(u) = 4 + k /\ \A i \in 1 .. 4 : u[i] = ARG_64[i]
       /\ \A i \in 1 .. k : u[4 + i] = s[i]
  BY <1>5, <1>7, <1>9 DEF Joined
<1>13. /\ Len(v) = 4 + k + l /\ \A i \in 1 .. 4 + k : v[i] = u[i]
       /\ \A i \in 1 .. l : v[4 + k + i] = t[i]
  BY <1>1, <1>6, <1>10, <1>12 DEF Joined
<1>14. /\ Len(w) = 5 + k + l /\ \A i \in 1 .. 4 + k + l : w[i] = v[i]
       /\ w[5 + k + l] = ALLOW
  <2>1. /\ Len(w) = Len(v) + 1 /\ \A i \in 1 .. Len(v) : w[i] = v[i]
        /\ \A i \in 1 .. 1 : w[Len(v) + i] = <<ALLOW>>[i]
    BY <1>8, <1>11 DEF Joined
  <2>2. w[Len(v) + 1] = ALLOW
    BY <1>8, <2>1
  <2>3. 4 + k + l + 1 = 5 + k + l
    BY <1>1
  <2> QED BY <1>1, <1>13, <2>1, <2>2, <2>3
<1>15. /\ \A i \in 1 .. 4 : w[i] = ARG_64[i]
       /\ \A i \in 1 .. k : w[4 + i] = s[i]
       /\ \A i \in 1 .. l : w[4 + k + i] = t[i]
  <2>1. ASSUME NEW i \in 1 .. 4 PROVE w[i] = ARG_64[i]
    <3>1. i \in 1 .. 4 + k /\ i \in 1 .. 4 + k + l
      BY <1>1
    <3> QED BY <1>12, <1>13, <1>14, <3>1
  <2>2. ASSUME NEW i \in 1 .. k PROVE w[4 + i] = s[i]
    <3>1. 4 + i \in 1 .. 4 + k /\ 4 + i \in 1 .. 4 + k + l
      BY <1>1
    <3> QED BY <1>12, <1>13, <1>14, <3>1
  <2>3. ASSUME NEW i \in 1 .. l PROVE w[4 + k + i] = t[i]
    <3>1. 4 + k + i \in 1 .. 4 + k + l
      BY <1>1
    <3> QED BY <1>13, <1>14, <3>1
  <2> QED BY <2>1, <2>2, <2>3
<1>16. \A i \in 1 .. 5 + k + l : w[i].lab = "none"
  <2> SUFFICES ASSUME NEW i \in 1 .. 5 + k + l PROVE w[i].lab = "none"
    OBVIOUS
  <2>1. CASE i \in 1 .. 4
    BY <1>7, <1>15, <2>1
  <2>2. CASE i \in 5 .. 4 + k
    <3>1. i - 4 \in 1 .. k /\ 4 + (i - 4) = i
      BY <1>1, <2>2
    <3> QED BY <1>5, <1>15, <3>1
  <2>3. CASE i \in 5 + k .. 4 + k + l
    <3>1. i - 4 - k \in 1 .. l /\ 4 + k + (i - 4 - k) = i
      BY <1>1, <2>3
    <3> QED BY <1>6, <1>15, <3>1
  <2>4. CASE i = 5 + k + l
    BY <1>4, <1>14, <2>4
  <2> QED BY <1>1, <2>1, <2>2, <2>3, <2>4
<1>17. w[1] = ARG_64[1] /\ w[2] = ARG_64[2] /\ w[3] = ARG_64[3] /\ w[4] = ARG_64[4]
  BY <1>15
<1> QED BY <1>1, <1>2, <1>7, <1>14, <1>15, <1>16, <1>17 DEF s, t

\* What is known of the argument at each place of a program with two 64 bit tests.
Tests64Inv ==
    prog.kind = "tests64" =>
      /\ stage = "run" =>
           /\ at = 2 => vm.A = data.lo
           /\ at >= 3 => vm.M[1] = data.lo
           /\ at = 4 => vm.A = data.hi
           /\ at >= 5 =>
                /\ vm.M[2] = data.hi
                /\ \/ \E i \in 1 .. TestLen(prog.op[1]) : at = 4 + i /\ Known(1, i, vm.A)
                   \/ /\ ~Outcome(1)
                      /\ \E i \in 1 .. TestLen(prog.op[2]) + 1 :
                           at = 4 + TestLen(prog.op[1]) + i /\ Known(2, i, vm.A)
      /\ stage \in Verdict => stage = FirstMatch

\* A test starts with the high half in the accumulator.
LEMMA KnownFirst ==
    ASSUME NEW n, NEW w, w = data.hi PROVE Known(n, 1, w)
BY DEF Known, TestLen

\* One step of a test, of either kind.
LEMMA Test64Step ==
    ASSUME BpfInv, Execute, prog.kind = "tests64", NEW n \in {1, 2}, NEW b \in Nat,
           TestAt(n, b), NEW i \in 1 .. TestLen(prog.op[n]), at = b + i, Known(n, i, vm.A),
           vm.M[1] = data.lo, vm.M[2] = data.hi
    PROVE  \/ /\ stage' = "run" /\ vm'.M = vm.M
              /\ \E j \in 1 .. TestLen(prog.op[n]) + 1 : at' = b + j /\ Known(n, j, vm'.A)
           \/ stage' = Match(n) /\ Outcome(n)
<1>1. CASE prog.op[n] \in {"JEQ", "JNE", "JA"}
  <2>1. TestLen(prog.op[n]) = 6
    BY <1>1 DEF TestLen
  <2>2. i \in 1 .. 6 /\ TestLen(prog.op[n]) + 1 = 7
    BY <2>1
  <2> QED BY <1>1, <2>2, ShortStep
<1>2. CASE prog.op[n] \notin {"JEQ", "JNE", "JA"}
  <2>1. TestLen(prog.op[n]) = 7
    BY <1>2 DEF TestLen
  <2>2. i \in 1 .. 7 /\ TestLen(prog.op[n]) + 1 = 8
    BY <2>1
  <2> QED BY <1>2, <2>2, LongStep
<1> QED BY <1>1, <1>2

\* An instruction of such a program takes what is known to its next place.
LEMMA Tests64Step ==
    ASSUME BpfInv, Tests64Inv, prog.kind = "tests64", Execute
    PROVE  \/ /\ stage' = "run"
              /\ at' = 2 => vm'.A = data.lo
              /\ at' >= 3 => vm'.M[1] = data.lo
              /\ at' = 4 => vm'.A = data.hi
              /\ at' >= 5 =>
                   /\ vm'.M[2] = data.hi
                   /\ \/ \E i \in 1 .. TestLen(prog.op[1]) : at' = 4 + i /\ Known(1, i, vm'.A)
                      \/ /\ ~Outcome(1)
                         /\ \E i \in 1 .. TestLen(prog.op[2]) + 1 :
                              at' = 4 + TestLen(prog.op[1]) + i /\ Known(2, i, vm'.A)
           \/ stage' \in Verdict /\ stage' = FirstMatch
<1> DEFINE k == TestLen(prog.op[1])
           l == TestLen(prog.op[2])
<1>1. stage = "run" /\ prog \in Programs
  BY ExecuteCases DEF BpfInv, FilterInv
<1>2. /\ k \in 6 .. 7 /\ l \in 6 .. 7 /\ Len(Source) = 5 + k + l
      /\ \A i \in 1 .. 5 + k + l : Source[i].lab = "none"
      /\ Source[1] = Stmt("LD", "lo") /\ Source[2] = Stmt("ST", 0)
      /\ Source[3] = Stmt("LD", "hi") /\ Source[4] = Stmt("ST", 1)
      /\ \A i \in 1 .. k :
           Source[4 + i] = Test64(prog.op[1], prog.lo[1], prog.hi[1], Stmt("RET", "first"))[i]
      /\ \A i \in 1 .. l :
           Source[4 + k + i] =
             Test64(prog.op[2], prog.lo[2], prog.hi[2], Stmt("RET", "second"))[i]
      /\ Source[5 + k + l] = ALLOW
  BY <1>1, Tests64Is
<1>3. at \in 1 .. 5 + k + l /\ DOMAIN Source = 1 .. 5 + k + l /\ at \in Nat
  BY <1>1, <1>2, CurInsn, SourceTyped
<1>4. \A i \in 1 .. 5 + k + l : filter[i] = Source[i]
  BY <1>2, <1>3, Zenon DEF BpfInv, FilterInv
<1>5. TestAt(1, 4)
  <2>1. ASSUME NEW i \in 1 .. k PROVE 4 + i \in 1 .. 5 + k + l
    BY <1>2
  <2>2. Match(1) = "first"
    BY DEF Match
  <2> QED BY <1>2, <1>4, <2>1, <2>2 DEF TestAt
<1>6. TestAt(2, 4 + k)
  <2>1. ASSUME NEW i \in 1 .. l PROVE 4 + k + i \in 1 .. 5 + k + l
    BY <1>2
  <2>2. Match(2) = "second"
    BY DEF Match
  <2> QED BY <1>2, <1>4, <2>1, <2>2, Zenon DEF TestAt
<1>7. /\ at = 2 => vm.A = data.lo
      /\ at >= 3 => vm.M[1] = data.lo
      /\ at = 4 => vm.A = data.hi
      /\ at >= 5 =>
           /\ vm.M[2] = data.hi
           /\ \/ \E i \in 1 .. k : at = 4 + i /\ Known(1, i, vm.A)
              \/ ~Outcome(1) /\ \E i \in 1 .. l + 1 : at = 4 + k + i /\ Known(2, i, vm.A)
  BY <1>1 DEF Tests64Inv
<1> HIDE DEF k, l
<1> SUFFICES \/ /\ stage' = "run"
                /\ at' = 2 => vm'.A = data.lo
                /\ at' >= 3 => vm'.M[1] = data.lo
                /\ at' = 4 => vm'.A = data.hi
                /\ at' >= 5 =>
                     /\ vm'.M[2] = data.hi
                     /\ \/ \E i \in 1 .. k : at' = 4 + i /\ Known(1, i, vm'.A)
                        \/ /\ ~Outcome(1)
                           /\ \E i \in 1 .. l + 1 : at' = 4 + k + i /\ Known(2, i, vm'.A)
             \/ stage' \in Verdict /\ stage' = FirstMatch
  BY DEF k, l
<1>8. CASE at = 1
  <2>1. Cur = Stmt("LD", "lo")
    BY <1>2, <1>3, <1>4, <1>8 DEF Cur
  <2>2. stage' = "run" /\ vm'.A = data.lo /\ at' = 2
    BY <1>8, <2>1, LdStep
  <2> QED BY <2>2
<1>9. CASE at = 2
  <2>1. Cur = Stmt("ST", 0)
    BY <1>2, <1>3, <1>4, <1>9 DEF Cur
  <2>2. /\ stage' = "run" /\ vm'.M = [vm.M EXCEPT ![0 + 1] = vm.A] /\ at' = 3
        /\ vm.M \in [{1, 2} -> Word]
    BY <1>9, <2>1, StStep
  <2>3. vm'.M[1] = data.lo
    BY <1>7, <1>9, <2>2
  <2> QED BY <2>2, <2>3
<1>10. CASE at = 3
  <2>1. Cur = Stmt("LD", "hi")
    BY <1>2, <1>3, <1>4, <1>10 DEF Cur
  <2>2. stage' = "run" /\ vm'.A = data.hi /\ vm'.M = vm.M /\ at' = 4
    BY <1>10, <2>1, LdStep
  <2> QED BY <1>7, <1>10, <2>2
<1>11. CASE at = 4
  <2>1. Cur = Stmt("ST", 1)
    BY <1>2, <1>3, <1>4, <1>11 DEF Cur
  <2>2. /\ stage' = "run" /\ vm'.M = [vm.M EXCEPT ![1 + 1] = vm.A] /\ vm'.A = vm.A /\ at' = 5
        /\ vm.M \in [{1, 2} -> Word]
    BY <1>11, <2>1, StStep
  <2>3. vm'.M[1] = data.lo /\ vm'.M[2] = data.hi
    BY <1>7, <1>11, <2>2
  <2>4. Known(1, 1, vm'.A)
    BY <1>7, <1>11, <2>2, KnownFirst
  <2>5. 1 \in 1 .. k
    BY <1>2
  <2> QED BY <2>2, <2>3, <2>4, <2>5
<1>12. ASSUME at >= 5, NEW i \in 1 .. k, at = 4 + i, Known(1, i, vm.A)
       PROVE  \/ /\ stage' = "run" /\ vm'.M = vm.M
                 /\ \/ \E j \in 1 .. k : at' = 4 + j /\ Known(1, j, vm'.A)
                    \/ ~Outcome(1) /\ \E j \in 1 .. l + 1 : at' = 4 + k + j /\ Known(2, j, vm'.A)
              \/ stage' \in Verdict /\ stage' = FirstMatch
  <2>1. \/ /\ stage' = "run" /\ vm'.M = vm.M
           /\ \E j \in 1 .. k + 1 : at' = 4 + j /\ Known(1, j, vm'.A)
        \/ stage' = "first" /\ Outcome(1)
    <3>1. vm.M[1] = data.lo /\ vm.M[2] = data.hi
      BY <1>3, <1>7, <1>12
    <3>2. Match(1) = "first"
      BY DEF Match
    <3> QED BY <1>5, <1>12, <3>1, <3>2, Test64Step DEF k
  <2>2. CASE stage' = "first" /\ Outcome(1)
    BY <2>2 DEF Verdict, FirstMatch
  <2>3. ASSUME stage' = "run", vm'.M = vm.M, NEW j \in 1 .. k + 1, at' = 4 + j, Known(1, j, vm'.A)
        PROVE  \/ \E m \in 1 .. k : at' = 4 + m /\ Known(1, m, vm'.A)
               \/ ~Outcome(1) /\ \E m \in 1 .. l + 1 : at' = 4 + k + m /\ Known(2, m, vm'.A)
    <3>1. CASE j \in 1 .. k
      BY <2>3, <3>1
    <3>2. CASE j = k + 1
      <4>1. vm'.A = data.hi /\ ~Outcome(1)
        BY <2>3, <3>2 DEF Known, k
      <4>2. Known(2, 1, vm'.A)
        BY <4>1, KnownFirst
      <4>3. at' = 4 + k + 1 /\ 1 \in 1 .. l + 1
        BY <1>2, <2>3, <3>2
      <4> QED BY <4>1, <4>2, <4>3, Zenon
    <3>3. j \in 1 .. k \/ j = k + 1
      BY <1>2, <2>3
    <3> QED BY <3>1, <3>2, <3>3, Zenon
  <2> QED BY <2>1, <2>2, <2>3
<1>13. ASSUME at >= 5, ~Outcome(1), NEW i \in 1 .. l + 1, at = 4 + k + i, Known(2, i, vm.A)
       PROVE  \/ /\ stage' = "run" /\ vm'.M = vm.M
                 /\ \E j \in 1 .. l + 1 : at' = 4 + k + j /\ Known(2, j, vm'.A)
              \/ stage' \in Verdict /\ stage' = FirstMatch
  <2>1. CASE i \in 1 .. l
    <3>1. vm.M[1] = data.lo /\ vm.M[2] = data.hi
      BY <1>3, <1>7, <1>13
    <3>2. Match(2) = "second" /\ 4 + k \in Nat
      BY <1>2 DEF Match
    <3>3. \/ /\ stage' = "run" /\ vm'.M = vm.M
             /\ \E j \in 1 .. l + 1 : at' = 4 + k + j /\ Known(2, j, vm'.A)
          \/ stage' = "second" /\ Outcome(2)
      <4> DEFINE b == 4 + k
      <4>1. b \in Nat /\ TestAt(2, b) /\ at = b + i
        BY <1>6, <1>13, <3>2
      <4> HIDE DEF b
      <4>2. i \in 1 .. TestLen(prog.op[2])
        BY <2>1 DEF l
      <4>3. \/ /\ stage' = "run" /\ vm'.M = vm.M
               /\ \E j \in 1 .. l + 1 : at' = b + j /\ Known(2, j, vm'.A)
            \/ stage' = Match(2) /\ Outcome(2)
        BY <1>13, <3>1, <4>1, <4>2, Test64Step DEF l
      <4> QED BY <3>2, <4>3 DEF b
    <3>4. stage' = "second" /\ Outcome(2) => stage' \in Verdict /\ stage' = FirstMatch
      BY <1>13 DEF Verdict, FirstMatch
    <3> QED BY <3>3, <3>4
  <2>2. CASE i = l + 1
    <3>1. ~Outcome(2)
      BY <1>13, <2>2 DEF Known, l
    <3>2. at = 5 + k + l
      BY <1>2, <1>13, <2>2
    <3>3. Cur = Stmt("RET", "ALLOW")
      BY <1>2, <1>3, <1>4, <3>2 DEF Cur, ALLOW
    <3>4. stage' = "ALLOW"
      BY <3>3, RetStep
    <3> QED BY <1>13, <3>1, <3>4 DEF Verdict, FirstMatch
  <2> QED BY <1>2, <2>1, <2>2
<1>14. CASE at >= 5
  <2>1. vm.M[1] = data.lo /\ vm.M[2] = data.hi
    BY <1>3, <1>7, <1>14
  <2>2. ASSUME at' \in 5 .. 6 + k + l PROVE at' # 2 /\ at' # 4 /\ at' >= 3
    <3>1. k \in Nat /\ l \in Nat
      BY <1>2
    <3> QED BY <2>2, <3>1
  <2>3. ASSUME NEW j \in 1 .. k PROVE 4 + j \in 5 .. 6 + k + l
    BY <1>2
  <2>4. ASSUME NEW j \in 1 .. l + 1 PROVE 4 + k + j \in 5 .. 6 + k + l
    BY <1>2
  <2> QED BY <1>7, <1>12, <1>13, <1>14, <2>1, <2>2, <2>3, <2>4
<1> QED BY <1>3, <1>8, <1>9, <1>10, <1>11, <1>14

-----------------------------------------------------------------------------
(* The tests of 32 bit arguments.                                           *)

\* Such a test goes on with what is done if it holds, or skips it.
LEMMA Test32Step ==
    ASSUME Execute, BpfInv, NEW op \in Compares, NEW v \in Nat, NEW jt, vm.A \in Nat,
           Cur = Test32(op, v, jt)[1]
    PROVE  /\ stage' = "run" /\ vm' = vm
           /\ at' = IF Compare(op, vm.A, v, Bits) THEN at + 1 ELSE at + 2
<1>1. at \in Nat
  BY ExecuteCases, CurInsn
<1>2. /\ op = "JEQ" => Cur = Jmp("JEQ", v, 0, 1)
      /\ op = "JNE" => Cur = Jmp("JEQ", v, 1, 0)
      /\ op = "JA" => Cur = Jmp("JSET", v, 0, 1)
      /\ op = "JGE" => Cur = Jmp("JGE", v, 0, 1)
      /\ op = "JLT" => Cur = Jmp("JGE", v, 1, 0)
      /\ op = "JGT" => Cur = Jmp("JGT", v, 0, 1)
      /\ op = "JLE" => Cur = Jmp("JGT", v, 1, 0)
  BY DEF Test32, JEQ32, JNE32, JA32, JGE32, JLT32, JGT32, JLE32
<1>3. \A o \in Tests, a, b \in {0, 1} :
        Cur = Jmp(o, v, a, b) =>
          /\ stage' = "run" /\ vm' = vm
          /\ at' = IF Passes(o, v) THEN at + 1 + a ELSE at + 1 + b
  BY TestStep
<1>4. /\ op = "JEQ" => (Compare(op, vm.A, v, Bits) <=> Passes("JEQ", v))
      /\ op = "JNE" => (Compare(op, vm.A, v, Bits) <=> ~Passes("JEQ", v))
      /\ op = "JA" => (Compare(op, vm.A, v, Bits) <=> Passes("JSET", v))
      /\ op = "JGE" => (Compare(op, vm.A, v, Bits) <=> Passes("JGE", v))
      /\ op = "JLT" => (Compare(op, vm.A, v, Bits) <=> ~Passes("JGE", v))
      /\ op = "JGT" => (Compare(op, vm.A, v, Bits) <=> Passes("JGT", v))
      /\ op = "JLE" => (Compare(op, vm.A, v, Bits) <=> ~Passes("JGT", v))
  <2>1. /\ op = "JEQ" => (Compare(op, vm.A, v, Bits) <=> vm.A = v)
        /\ op = "JNE" => (Compare(op, vm.A, v, Bits) <=> vm.A # v)
        /\ op = "JA" => (Compare(op, vm.A, v, Bits) <=> Common(vm.A, v, Bits))
        /\ op = "JGE" => (Compare(op, vm.A, v, Bits) <=> vm.A >= v)
        /\ op = "JLT" => (Compare(op, vm.A, v, Bits) <=> vm.A < v)
        /\ op = "JGT" => (Compare(op, vm.A, v, Bits) <=> vm.A > v)
        /\ op = "JLE" => (Compare(op, vm.A, v, Bits) <=> vm.A <= v)
    BY ZenonT(40) DEF Compare
  <2>2. /\ Passes("JEQ", v) <=> vm.A = v
        /\ Passes("JSET", v) <=> Common(vm.A, v, Bits)
        /\ Passes("JGE", v) <=> vm.A >= v
        /\ Passes("JGT", v) <=> vm.A > v
    BY DEF Passes
  <2> QED BY <2>1, <2>2
<1>5. at + 1 + 0 = at + 1 /\ at + 1 + 1 = at + 2
  BY <1>1
<1>6. {"JEQ", "JSET", "JGE", "JGT"} \subseteq Tests
  BY DEF Tests
<1>7. op \in {"JEQ", "JNE", "JA", "JGE", "JLT", "JGT", "JLE"}
  BY DEF Compares
<1> QED BY <1>2, <1>3, <1>4, <1>5, <1>6, <1>7

\* A comparison and what is done if it holds.
IsTest32(c, jt) == c \in Seq(Insn) /\ Len(c) = 2 /\ c[1].lab = "none" /\ c[2] = jt

\* That holds of each of the seven.
LEMMA Test32Is ==
    ASSUME NEW op \in Compares, NEW v \in Nat, NEW jt \in Insn
    PROVE  IsTest32(Test32(op, v, jt), jt)
<1>1. Test32(op, v, jt) \in Seq(Insn)
  BY Test32Typed
<1>2. \E o, a, b : Test32(op, v, jt) = <<Jmp(o, v, a, b), jt>>
  <2>1. op \in {"JEQ", "JNE", "JA", "JGE", "JLT", "JGT", "JLE"}
    BY DEF Compares
  <2> QED BY <2>1 DEF Test32, JEQ32, JNE32, JA32, JGE32, JLT32, JGT32, JLE32
<1>3. \A o, a, b : Jmp(o, v, a, b).lab = "none"
  BY DEF Jmp
<1> QED BY <1>1, <1>2, <1>3 DEF IsTest32

\* The program of two tests of a 32 bit argument.
LEMMA Tests32Is ==
    ASSUME prog \in Programs, prog.kind = "tests32"
    PROVE  /\ Len(Source) = 6 /\ \A i \in 1 .. 6 : Source[i].lab = "none"
           /\ Source[1] = Stmt("LD", "lo")
           /\ Source[2] = Test32(prog.op[1], prog.lo[1], Stmt("RET", "first"))[1]
           /\ Source[3] = Stmt("RET", "first")
           /\ Source[4] = Test32(prog.op[2], prog.lo[2], Stmt("RET", "second"))[1]
           /\ Source[5] = Stmt("RET", "second")
           /\ Source[6] = ALLOW
<1>1. /\ prog.op[1] \in Compares /\ prog.op[2] \in Compares /\ prog.lo[1] \in Nat
      /\ prog.lo[2] \in Nat
  <2>1. prog.op \in Compares \X Compares /\ prog.lo \in (0 .. Half - 1) \X (0 .. Half - 1)
    BY ProgramAssumption, Zenon
  <2> QED BY <2>1, BpfAssumption
<1>3. /\ Stmt("RET", "first") \in Insn /\ Stmt("RET", "second") \in Insn
      /\ Stmt("RET", "first").lab = "none" /\ Stmt("RET", "second").lab = "none"
      /\ ALLOW \in Insn /\ ALLOW.lab = "none"
      /\ Stmt("LD", "lo") \in Insn /\ Stmt("LD", "lo").lab = "none"
  BY MacrosTyped DEF Verdict, Stmt, ALLOW
<1> DEFINE s == Test32(prog.op[1], prog.lo[1], Stmt("RET", "first"))
           t == Test32(prog.op[2], prog.lo[2], Stmt("RET", "second"))
           u == ARG_32 \o s
           v == u \o t
           w == v \o <<ALLOW>>
<1>4. Source = w
  BY CodeCases DEF Source
<1>5. /\ s \in Seq(Insn) /\ Len(s) = 2 /\ s[1].lab = "none" /\ s[2] = Stmt("RET", "first")
      /\ t \in Seq(Insn) /\ Len(t) = 2 /\ t[1].lab = "none" /\ t[2] = Stmt("RET", "second")
  <2>1. IsTest32(s, Stmt("RET", "first")) /\ IsTest32(t, Stmt("RET", "second"))
    BY <1>1, <1>3, Test32Is
  <2> HIDE DEF s, t
  <2> QED BY <2>1 DEF IsTest32
<1>6. ARG_32 \in Seq(Insn) /\ Len(ARG_32) = 1 /\ ARG_32[1] = Stmt("LD", "lo")
  BY <1>3 DEF ARG_32
<1>7. <<ALLOW>> \in Seq(Insn) /\ Len(<<ALLOW>>) = 1 /\ <<ALLOW>>[1] = ALLOW
  BY <1>3
<1> HIDE DEF s, t
<1>8. Joined(u, ARG_32, s)
  BY <1>5, <1>6, Concat, Zenon
<1> HIDE DEF u
<1>9. u \in Seq(Insn) /\ Len(u) = 3 /\ u[1] = ARG_32[1] /\ u[2] = s[1] /\ u[3] = s[2]
  <2>1. /\ u \in Seq(Insn) /\ Len(u) = 3 /\ (\A i \in 1 .. 1 : u[i] = ARG_32[i])
        /\ \A i \in 1 .. 2 : u[1 + i] = s[i]
    BY <1>5, <1>6, <1>8 DEF Joined
  <2> QED BY <2>1
<1>10. Joined(v, u, t)
  BY <1>5, <1>9, Concat, Zenon
<1> HIDE DEF v
<1>11. /\ v \in Seq(Insn) /\ Len(v) = 5 /\ v[1] = u[1] /\ v[2] = u[2] /\ v[3] = u[3]
       /\ v[4] = t[1] /\ v[5] = t[2]
  <2>1. /\ v \in Seq(Insn) /\ Len(v) = 5 /\ (\A i \in 1 .. 3 : v[i] = u[i])
        /\ \A i \in 1 .. 2 : v[3 + i] = t[i]
    BY <1>5, <1>9, <1>10 DEF Joined
  <2> QED BY <2>1
<1>12. Joined(w, v, <<ALLOW>>)
  BY <1>7, <1>11, Concat, Zenon
<1> HIDE DEF w
<1>13. /\ Len(w) = 6 /\ w[1] = v[1] /\ w[2] = v[2] /\ w[3] = v[3] /\ w[4] = v[4]
       /\ w[5] = v[5] /\ w[6] = ALLOW
  <2>1. /\ Len(w) = 6 /\ (\A i \in 1 .. 5 : w[i] = v[i])
        /\ \A i \in 1 .. 1 : w[5 + i] = <<ALLOW>>[i]
    BY <1>7, <1>11, <1>12 DEF Joined
  <2> QED BY <1>7, <2>1
<1>14. \A i \in 1 .. 6 : w[i].lab = "none"
  BY <1>3, <1>5, <1>6, <1>9, <1>11, <1>13
<1> QED BY <1>4, <1>5, <1>6, <1>9, <1>11, <1>13, <1>14 DEF s, t

\* What is known of the argument at each place of a program with two 32 bit tests.
Known32(i, w) ==
    /\ i \in {2, 4} => w = data.lo
    /\ i = 3 => Outcome(1)
    /\ i >= 4 => ~Outcome(1)
    /\ i = 5 => Outcome(2)
    /\ i = 6 => ~Outcome(2)

Tests32Inv ==
    prog.kind = "tests32" => /\ stage = "run" => Known32(at, vm.A)
                             /\ stage \in Verdict => stage = FirstMatch

\* An instruction of such a program takes what is known to its next place.
LEMMA Tests32Step ==
    ASSUME BpfInv, Tests32Inv, prog.kind = "tests32", Execute
    PROVE  \/ stage' = "run" /\ Known32(at', vm'.A)
           \/ stage' \in Verdict /\ stage' = FirstMatch
<1>1. stage = "run" /\ prog \in Programs /\ data \in Calls
  BY ExecuteCases DEF BpfInv, FilterInv, RunInv
<1>2. /\ Len(Source) = 6 /\ \A i \in 1 .. 6 : Source[i].lab = "none"
      /\ Source[1] = Stmt("LD", "lo")
      /\ Source[2] = Test32(prog.op[1], prog.lo[1], Stmt("RET", "first"))[1]
      /\ Source[3] = Stmt("RET", "first")
      /\ Source[4] = Test32(prog.op[2], prog.lo[2], Stmt("RET", "second"))[1]
      /\ Source[5] = Stmt("RET", "second")
      /\ Source[6] = ALLOW
  BY <1>1, Tests32Is
<1>3. at \in 1 .. 6 /\ DOMAIN Source = 1 .. 6
  BY <1>1, <1>2, CurInsn, SourceTyped
<1>4. Cur = Source[at]
  BY <1>2, <1>3 DEF BpfInv, FilterInv, Cur
<1>5. \A n \in {1, 2} : /\ prog.op[n] \in Compares /\ prog.lo[n] \in Nat
                        /\ Outcome(n) <=> Compare(prog.op[n], data.lo, prog.lo[n], Bits)
  <2>1. prog.op \in Compares \X Compares /\ prog.lo \in (0 .. Half - 1) \X (0 .. Half - 1)
    BY <1>1, ProgramAssumption, ZenonT(40)
  <2>2. \A n : Outcome(n) <=> Compare(prog.op[n], data.lo, prog.lo[n], Bits)
    BY DEF Outcome, Matches
  <2> QED BY <2>1, <2>2, BpfAssumption
<1>6. data.lo \in Nat /\ Known32(at, vm.A)
  BY <1>1, BpfAssumption DEF Calls, Tests32Inv
<1>7. CASE at = 1
  <2>1. stage' = "run" /\ vm'.A = data.lo /\ at' = 2
    BY <1>2, <1>4, <1>7, LdStep
  <2> QED BY <2>1 DEF Known32
<1>8. ASSUME NEW n \in {1, 2}, at = 2 * n PROVE stage' = "run" /\ Known32(at', vm'.A)
  <2> DEFINE jt == IF n = 1 THEN Stmt("RET", "first") ELSE Stmt("RET", "second")
  <2>1. vm.A = data.lo /\ Cur = Test32(prog.op[n], prog.lo[n], jt)[1]
    BY <1>2, <1>4, <1>6, <1>8 DEF Known32
  <2> HIDE DEF jt
  <2>2. stage' = "run" /\ vm' = vm /\ at' = IF Outcome(n) THEN at + 1 ELSE at + 2
    <3>1. /\ stage' = "run" /\ vm' = vm
          /\ at' = IF Compare(prog.op[n], vm.A, prog.lo[n], Bits) THEN at + 1 ELSE at + 2
      BY <1>5, <1>6, <2>1, Test32Step
    <3> QED BY <1>5, <2>1, <3>1
  <2> QED BY <1>6, <1>8, <2>1, <2>2 DEF Known32
<1>9. CASE at = 3
  <2>1. stage' = "first"
    BY <1>2, <1>4, <1>9, RetStep
  <2> QED BY <1>6, <1>9, <2>1 DEF Known32, Verdict, FirstMatch
<1>10. CASE at = 5
  <2>1. stage' = "second"
    BY <1>2, <1>4, <1>10, RetStep
  <2> QED BY <1>6, <1>10, <2>1 DEF Known32, Verdict, FirstMatch
<1>11. CASE at = 6
  <2>1. stage' = "ALLOW"
    BY <1>2, <1>4, <1>11, RetStep DEF ALLOW
  <2> QED BY <1>6, <1>11, <2>1 DEF Known32, Verdict, FirstMatch
<1>12. at = 2 * 1 \/ at = 2 * 2 \/ at \in {1, 3, 5, 6}
  BY <1>3
<1> QED BY <1>7, <1>8, <1>9, <1>10, <1>11, <1>12

-----------------------------------------------------------------------------

\* What a test means depends on the program and on the call alone.
LEMMA SameOutcome ==
    ASSUME prog' = prog, data' = data
    PROVE  /\ \A n : Outcome(n)' <=> Outcome(n)
           /\ FirstMatch' = FirstMatch
           /\ \A n, i, w : Known(n, i, w)' <=> Known(n, i, w)
           /\ \A i, w : Known32(i, w)' <=> Known32(i, w)
<1>1. \A n : Outcome(n)' <=> Outcome(n)
  BY DEF Outcome, Matches
<1>2. \A n : HiDecides(n)' <=> HiDecides(n)
  BY DEF HiDecides
<1>3. FirstMatch' = FirstMatch
  BY <1>1 DEF FirstMatch
<1>4. ASSUME NEW n, NEW i, NEW w
      PROVE  Known(n, i, w)' <=> Known(n, i, w)
  <2>1. (Outcome(n)' <=> Outcome(n)) /\ (HiDecides(n)' <=> HiDecides(n))
    BY <1>1, <1>2, Zenon
  <2> QED BY <2>1 DEF Known
<1>5. ASSUME NEW i, NEW w
      PROVE  Known32(i, w)' <=> Known32(i, w)
  <2>1. data'.lo = data.lo /\ (Outcome(1)' <=> Outcome(1)) /\ (Outcome(2)' <=> Outcome(2))
    BY <1>1, Zenon
  <2> QED BY <2>1 DEF Known32
<1> QED BY <1>1, <1>3, <1>4, <1>5

\* The call that was judged has a number and an argument.
CallInv == stage \in Verdict => data \in Calls

\* What the instructions decide is within what the property says of a test.
LEMMA OutcomeWithin ==
    ASSUME prog \in Programs, prog.kind \in {"tests64", "tests32"}, data \in Calls, NEW n \in {1, 2}
    PROVE  (Outcome(n) => Taken(n)) /\ (~Outcome(n) => Missed(n))
<1>1. CASE prog.kind = "tests32" \/ prog.op[n] \notin {"JNE", "JLT"}
  <2>1. Outcome(n) <=> Matches(n)
    BY <1>1, Zenon DEF Outcome
  <2> QED BY <2>1, Zenon DEF Taken, Missed
<1>2. CASE prog.kind = "tests64" /\ prog.op[n] \in {"JNE", "JLT"}
  <2> DEFINE a == data.hi * Half + data.lo
             v == prog.hi[n] * Half + prog.lo[n]
  <2>1. /\ prog.op[n] = "JNE" => (Outcome(n) => data.hi # prog.hi[n])
        /\ prog.op[n] = "JLT" => (Outcome(n) <=> a <= v)
    BY <1>2, Zenon DEF Outcome
  <2>2. /\ prog.op[n] = "JNE" => (Matches(n) <=> a # v)
        /\ prog.op[n] = "JLT" => (Matches(n) <=> a < v)
    <3>1. prog.kind # "tests32"
      BY <1>2
    <3> QED BY <3>1, Zenon DEF Matches, Compare
  <2>3. {data.hi, data.lo, prog.hi[n], prog.lo[n]} \subseteq 0 .. Half - 1
    BY <1>2, OutcomeHalves
  <2>4. /\ Half \in Nat /\ data.hi \in Nat /\ prog.hi[n] \in Nat
        /\ data.lo \in 0 .. Half - 1 /\ prog.lo[n] \in 0 .. Half - 1
    BY <2>3, BpfAssumption
  <2>5. (data.hi > prog.hi[n] => a > v) /\ (prog.hi[n] > data.hi => v > a)
    BY <2>4, Above, Zenon
  <2>6. a \in Int /\ v \in Int
    BY <2>4
  <2> HIDE DEF a, v
  <2>7. (data.hi # prog.hi[n] => a # v) /\ (~(a <= v) => ~(a < v))
    BY <2>4, <2>5, <2>6
  <2> QED BY <1>2, <2>1, <2>2, <2>7, Zenon DEF Taken, Missed
<1> QED BY <1>1, <1>2

\* Of two tests in a row the first that is taken holds for the whole argument and
\* the ones before it do not, for every width of the halves, all values and all
\* arguments: the 64 bit tests look at both halves, and leave the accumulator such
\* that the next one works.  JNE64 takes no equal argument and JLT64 misses no
\* smaller one; they decide otherwise than their names say in the other direction.
THEOREM TestsDecide == Spec => []TestsCompare
<1>1. Init => Tests64Inv /\ Tests32Inv
  BY DEF Init, Tests64Inv, Tests32Inv, Verdict
<1>2. ASSUME BpfInv, Tests64Inv, Tests32Inv, [Next]_vars PROVE Tests64Inv' /\ Tests32Inv'
  <2>0. "run" \notin Verdict
    BY DEF Verdict
  <2>1. CASE Execute
    <3>1. prog' = prog /\ data' = data
      BY <2>1, ExecuteCases
    <3>2. /\ \A n : Outcome(n)' <=> Outcome(n)
          /\ FirstMatch' = FirstMatch
          /\ \A n, i, w : Known(n, i, w)' <=> Known(n, i, w)
          /\ \A i, w : Known32(i, w)' <=> Known32(i, w)
      BY <3>1, SameOutcome
    <3>3. Tests64Inv'
      BY <1>2, <2>0, <2>1, <3>1, <3>2, Tests64Step DEF Tests64Inv
    <3>4. Tests32Inv'
      BY <1>2, <2>0, <2>1, <3>1, <3>2, Tests32Step DEF Tests32Inv
    <3> QED BY <3>3, <3>4
  <2>2. CASE Commit /\ stage' = "run" /\ at' = 1
    BY <2>0, <2>2 DEF Tests64Inv, Tests32Inv, Known32
  <2>3. CASE stage' \notin {"run"} \cup Verdict
    BY <2>3 DEF Tests64Inv, Tests32Inv
  <2>4. CASE UNCHANGED vars
    <3>1. UNCHANGED <<prog, data, vm, at, stage>>
      BY <2>4 DEF vars
    <3>2. /\ \A n : Outcome(n)' <=> Outcome(n)
          /\ FirstMatch' = FirstMatch
          /\ \A n, i, w : Known(n, i, w)' <=> Known(n, i, w)
          /\ \A i, w : Known32(i, w)' <=> Known32(i, w)
      BY <3>1, SameOutcome
    <3> QED BY <1>2, <3>1, <3>2 DEF Tests64Inv, Tests32Inv
  <2> QED BY <1>2, <2>1, <2>2, <2>3, <2>4, OtherSteps
<1>a. BpfInv /\ CallInv /\ [Next]_vars => CallInv'
  <2> SUFFICES ASSUME BpfInv, CallInv, [Next]_vars PROVE CallInv'
    OBVIOUS
  <2>1. CASE Execute /\ stage = "run"
    BY <2>1, ExecuteCases DEF CallInv, BpfInv, RunInv
  <2>2. CASE stage' = "run" \/ stage' \notin {"run"} \cup Verdict
    BY <2>2 DEF CallInv, Verdict
  <2>3. CASE UNCHANGED vars
    BY <2>3 DEF CallInv, vars
  <2> QED BY <2>1, <2>2, <2>3, OtherSteps
<1>b. Init => CallInv
  BY DEF Init, CallInv, Verdict
<1>3. BpfInv /\ CallInv /\ Tests64Inv /\ Tests32Inv => TestsCompare
  <2> SUFFICES ASSUME BpfInv, CallInv, Tests64Inv, Tests32Inv, prog.kind \in {"tests64", "tests32"},
                      stage \in Verdict
               PROVE  \/ stage = "first" /\ Taken(1)
                      \/ stage = "second" /\ Missed(1) /\ Taken(2)
                      \/ stage = "ALLOW" /\ Missed(1) /\ Missed(2)
    BY DEF TestsCompare
  <2>1. stage = FirstMatch
    BY DEF Tests64Inv, Tests32Inv
  <2>2. prog \in Programs /\ data \in Calls
    BY DEF BpfInv, FilterInv, CallInv
  <2>3. \A n \in {1, 2} : (Outcome(n) => Taken(n)) /\ (~Outcome(n) => Missed(n))
    BY <2>2, OutcomeWithin
  <2> QED BY <2>1, <2>3 DEF FirstMatch
<1> QED BY <1>1, <1>2, <1>a, <1>b, <1>3, Filters, PTL DEF Spec
=============================================================================
