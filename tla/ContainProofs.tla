--------------------------- MODULE ContainProofs ---------------------------
(***************************************************************************)
(* What a command is promised when it starts, for every set of ids and     *)
(* descriptors, every configuration and every set of steps that may fail.  *)
(* The sequence of steps is put together by concatenation, depending on    *)
(* the options; the proofs about the set up need of it only which steps    *)
(* are behind a process that is about to make a given one (lemma           *)
(* Positions).                                                             *)
(***************************************************************************)
EXTENDS ContainProperties, SequenceTheorems, TLAPS

-----------------------------------------------------------------------------
(* The order of the steps, as far as every configuration agrees on it.       *)

Step == {"unshare", "setupFD", "netInitNsFromParent", "cgroupInitNs", "userSetGroups", "gidMap",
         "uidMap", "readDone", "pidInitNs", "mountInitNs", "loUp", "vsAddr", "vsNetmask", "vsUp",
         "vsGateway", "utsInitNs", "setgroups", "setresgid", "setresuid", "no_new_privs", "bset",
         "capset", "setLimits", "prepareEnv", "makeFdsCOE", "sandboxApply", "execv"}

\* A rank for every step.  Only cgroupInitNs has two places.
Rank(m) == [step \in Step |->
    CASE step = "unshare" -> 1
      [] step = "setupFD" -> 2
      [] step = "netInitNsFromParent" -> 3
      [] step = "cgroupInitNs" -> IF m = "EXECVE" THEN 8 ELSE 4
      [] step = "userSetGroups" -> 5
      [] step = "gidMap" -> 6
      [] step = "uidMap" -> 7
      [] step = "readDone" -> 9
      [] step = "pidInitNs" -> 10
      [] step = "mountInitNs" -> 11
      [] step = "loUp" -> 12
      [] step = "vsAddr" -> 13
      [] step = "vsNetmask" -> 14
      [] step = "vsUp" -> 15
      [] step = "vsGateway" -> 16
      [] step = "utsInitNs" -> 17
      [] step = "setgroups" -> 18
      [] step = "setresgid" -> 19
      [] step = "setresuid" -> 20
      [] step = "no_new_privs" -> 21
      [] step = "bset" -> 22
      [] step = "capset" -> 23
      [] step = "setLimits" -> 24
      [] step = "prepareEnv" -> 25
      [] step = "makeFdsCOE" -> 26
      [] step = "sandboxApply" -> 27
      [] step = "execv" -> 28]

\* The steps of a sequence.
Elems(s) == {s[i] : i \in 1 .. Len(s)}

\* The ranks of s increase, from lo at the earliest to hi at the latest.
InOrder(r, s, lo, hi) ==
    /\ s \in Seq(Step)
    /\ \A i \in 1 .. Len(s) : r[s[i]] \in lo .. hi
    /\ \A i, j \in 1 .. Len(s) : i < j => r[s[i]] < r[s[j]]

\* The numbers of the table, one by one.
LEMMA Ranks ==
    ASSUME NEW m
    PROVE  /\ Rank(m)["unshare"] = 1
           /\ Rank(m)["setupFD"] = 2
           /\ Rank(m)["netInitNsFromParent"] = 3
           /\ Rank(m)["cgroupInitNs"] = (IF m = "EXECVE" THEN 8 ELSE 4)
           /\ Rank(m)["userSetGroups"] = 5
           /\ Rank(m)["gidMap"] = 6
           /\ Rank(m)["uidMap"] = 7
           /\ Rank(m)["readDone"] = 9
           /\ Rank(m)["pidInitNs"] = 10
           /\ Rank(m)["mountInitNs"] = 11
           /\ Rank(m)["loUp"] = 12
           /\ Rank(m)["vsAddr"] = 13
           /\ Rank(m)["vsNetmask"] = 14
           /\ Rank(m)["vsUp"] = 15
           /\ Rank(m)["vsGateway"] = 16
           /\ Rank(m)["utsInitNs"] = 17
           /\ Rank(m)["setgroups"] = 18
           /\ Rank(m)["setresgid"] = 19
           /\ Rank(m)["setresuid"] = 20
           /\ Rank(m)["no_new_privs"] = 21
           /\ Rank(m)["bset"] = 22
           /\ Rank(m)["capset"] = 23
           /\ Rank(m)["setLimits"] = 24
           /\ Rank(m)["prepareEnv"] = 25
           /\ Rank(m)["makeFdsCOE"] = 26
           /\ Rank(m)["sandboxApply"] = 27
           /\ Rank(m)["execv"] = 28
BY DEF Rank, Step

\* What is in order stays so when something of higher ranks is appended, and
\* the steps of both are the steps of the whole.
LEMMA Concatenated ==
    ASSUME NEW r, NEW s, NEW t, NEW a \in Nat, NEW b \in Nat, NEW c \in Nat, NEW d \in Nat,
           a <= c, b < c, b <= d, InOrder(r, s, a, b), InOrder(r, t, c, d)
    PROVE  InOrder(r, s \o t, a, d) /\ Elems(s \o t) = Elems(s) \cup Elems(t)
<1> DEFINE u == s \o t
<1>1. /\ s \in Seq(Step) /\ t \in Seq(Step)
      /\ Len(s) \in Nat /\ Len(t) \in Nat
  BY LenProperties DEF InOrder
<1>2. /\ u \in Seq(Step) /\ Len(u) = Len(s) + Len(t)
      /\ \A i \in 1 .. Len(u) : u[i] = IF i <= Len(s) THEN s[i] ELSE t[i - Len(s)]
  BY <1>1, ConcatProperties
<1> HIDE DEF u
<1>3. \A i \in 1 .. Len(u) : \/ i \in 1 .. Len(s) /\ u[i] = s[i]
                             \/ i > Len(s) /\ i - Len(s) \in 1 .. Len(t) /\ u[i] = t[i - Len(s)]
  BY <1>1, <1>2
<1>4. /\ \A i \in 1 .. Len(s) : r[s[i]] \in a .. b
      /\ \A i \in 1 .. Len(t) : r[t[i]] \in c .. d
  BY DEF InOrder
<1>a. \A i \in 1 .. Len(u) : r[u[i]] \in a .. d
  <2> TAKE i \in 1 .. Len(u)
  <2>1. CASE i \in 1 .. Len(s) /\ u[i] = s[i]
    <3>1. r[u[i]] = r[s[i]] /\ r[s[i]] \in a .. b
      BY <2>1, <1>4
    <3> QED BY <3>1
  <2>2. CASE i > Len(s) /\ i - Len(s) \in 1 .. Len(t) /\ u[i] = t[i - Len(s)]
    <3>1. r[u[i]] = r[t[i - Len(s)]] /\ r[t[i - Len(s)]] \in c .. d
      BY <2>2, <1>4
    <3> QED BY <3>1
  <2> QED BY <2>1, <2>2, <1>3
<1>5. ASSUME NEW i \in 1 .. Len(u), NEW j \in 1 .. Len(u), i < j
      PROVE  r[u[i]] < r[u[j]]
  <2>1. CASE j \in 1 .. Len(s) /\ u[j] = s[j]
    <3>1. i \in 1 .. Len(s) /\ u[i] = s[i]
      BY <2>1, <1>5, <1>3, <1>1
    <3>2. r[s[i]] < r[s[j]]
      BY <2>1, <3>1, <1>5 DEF InOrder
    <3> QED BY <2>1, <3>1, <3>2
  <2>2. CASE j > Len(s) /\ j - Len(s) \in 1 .. Len(t) /\ u[j] = t[j - Len(s)]
    <3>1. CASE i \in 1 .. Len(s) /\ u[i] = s[i]
      <4>1. r[s[i]] \in a .. b /\ r[t[j - Len(s)]] \in c .. d
        BY <3>1, <2>2, <1>4
      <4> QED BY <4>1, <3>1, <2>2
    <3>2. CASE i > Len(s) /\ i - Len(s) \in 1 .. Len(t) /\ u[i] = t[i - Len(s)]
      <4> DEFINE k == i - Len(s)
                 l == j - Len(s)
      <4>1. k \in 1 .. Len(t) /\ l \in 1 .. Len(t) /\ k < l
        BY <3>2, <2>2, <1>5, <1>1
      <4>2. r[t[k]] < r[t[l]]
        BY <4>1 DEF InOrder
      <4> QED BY <4>2, <3>2, <2>2
    <3> QED BY <3>1, <3>2, <1>3
  <2> QED BY <2>1, <2>2, <1>3
<1>6. Elems(s) \subseteq Elems(u)
  BY <1>1, <1>2 DEF Elems
<1>7. Elems(t) \subseteq Elems(u)
  <2> SUFFICES ASSUME NEW j \in 1 .. Len(t) PROVE t[j] \in Elems(u)
    BY DEF Elems
  <2>1. j + Len(s) \in 1 .. Len(u) /\ u[j + Len(s)] = t[j]
    BY <1>1, <1>2
  <2> QED BY <2>1 DEF Elems
<1>8. Elems(u) \subseteq Elems(s) \cup Elems(t)
  BY <1>3 DEF Elems
<1> QED BY <1>2, <1>a, <1>5, <1>6, <1>7, <1>8 DEF u, InOrder

\* Steps with consecutive ranks are in order.
LEMMA Consecutive ==
    ASSUME NEW r, NEW s \in Seq(Step), NEW k \in Nat, NEW n \in Nat,
           Len(s) = n, \A i \in 1 .. n : r[s[i]] = k + i
    PROVE  InOrder(r, s, k + 1, k + n)
BY DEF InOrder

\* One step.
LEMMA Single ==
    ASSUME NEW r, NEW x \in Step, NEW a \in Nat, r[x] = a
    PROVE  InOrder(r, <<x>>, a, a) /\ Elems(<<x>>) = {x}
BY DEF InOrder, Elems

\* Two steps.
LEMMA Pair ==
    ASSUME NEW r, NEW x \in Step, NEW y \in Step, NEW a \in Nat, NEW b \in Nat,
           r[x] = a, r[y] = b, a < b
    PROVE  InOrder(r, <<x, y>>, a, b) /\ Elems(<<x, y>>) = {x, y}
BY DEF InOrder, Elems

\* Three steps.
LEMMA Triple ==
    ASSUME NEW r, NEW x \in Step, NEW y \in Step, NEW z \in Step,
           NEW a \in Nat, NEW b \in Nat, NEW c \in Nat,
           r[x] = a, r[y] = b, r[z] = c, a < b, b < c
    PROVE  InOrder(r, <<x, y, z>>, a, c) /\ Elems(<<x, y, z>>) = {x, y, z}
BY DEF InOrder, Elems

\* No step.
LEMMA Nothing ==
    ASSUME NEW r, NEW a \in Nat, NEW b \in Nat
    PROVE  InOrder(r, <<>>, a, b) /\ Elems(<<>>) = {}
BY DEF InOrder, Elems

\* The bounds of the ranks may be loosened.
LEMMA Wider ==
    ASSUME NEW r, NEW s, NEW a \in Nat, NEW b \in Nat, NEW c \in Nat, NEW d \in Nat,
           InOrder(r, s, a, b), c <= a, b <= d
    PROVE  InOrder(r, s, c, d)
BY DEF InOrder

\* containDropPrivs and userInitNsFromParent.
LEMMA Parts ==
    ASSUME NEW r, r = Rank(conf.mode)
    PROVE
    /\ InOrder(r, containDropPrivs, 18, 23)
    /\ Elems(containDropPrivs) =
         {"setgroups", "setresgid", "setresuid", "no_new_privs", "bset", "capset"}
    /\ InOrder(r, userInitNsFromParent, 5, 7)
    /\ Elems(userInitNsFromParent) =
         IF conf.clone_newuser THEN {"userSetGroups", "gidMap", "uidMap"} ELSE {}
<1>1. InOrder(r, containDropPrivs, 18, 23)
  <2> DEFINE s == containDropPrivs
  <2>1. s \in Seq(Step) /\ Len(s) = 6
    BY DEF containDropPrivs, Step
  <2>2. \A i \in 1 .. 6 : r[s[i]] = 17 + i
    BY Ranks DEF containDropPrivs
  <2> HIDE DEF s
  <2>3. InOrder(r, s, 17 + 1, 17 + 6)
    BY <2>1, <2>2, Consecutive, Zenon
  <2> QED BY <2>3 DEF s
<1>2. Elems(containDropPrivs) =
         {"setgroups", "setresgid", "setresuid", "no_new_privs", "bset", "capset"}
  BY DEF Elems, containDropPrivs
<1>3. /\ InOrder(r, <<"userSetGroups", "gidMap", "uidMap">>, 5, 7)
      /\ Elems(<<"userSetGroups", "gidMap", "uidMap">>) = {"userSetGroups", "gidMap", "uidMap"}
  <2>1. r["userSetGroups"] = 5 /\ r["gidMap"] = 6 /\ r["uidMap"] = 7
    BY Ranks
  <2>2. {"userSetGroups", "gidMap", "uidMap"} \subseteq Step
    BY DEF Step
  <2> QED BY <2>1, <2>2, Triple
<1>4. InOrder(r, <<>>, 5, 7) /\ Elems(<<>>) = {}
  BY Nothing
<1> QED BY <1>1, <1>2, <1>3, <1>4, Zenon DEF userInitNsFromParent

\* netInitNsFromChild, with the conditions under which each ioctl is made.
LEMMA NetPart ==
    ASSUME NEW r, r = Rank(conf.mode)
    PROVE
    /\ InOrder(r, netInitNsFromChild, 12, 16)
    /\ "loUp" \in Elems(netInitNsFromChild) <=> conf.clone_newnet /\ ~conf.net.iface_no_lo
    /\ \A x \in {"vsAddr", "vsNetmask", "vsUp"} :
          x \in Elems(netInitNsFromChild) <=>
             conf.clone_newnet /\ conf.net.iface /\ conf.net.iface_vs_ip # "any"
    /\ "vsGateway" \in Elems(netInitNsFromChild) <=>
          /\ conf.clone_newnet /\ conf.net.iface /\ conf.net.iface_vs_ip # "any"
          /\ conf.net.iface_vs_gw # "any"
<1> DEFINE three == <<"vsAddr", "vsNetmask", "vsUp">>
           route == IF conf.net.iface_vs_gw = "any" THEN <<>> ELSE <<"vsGateway">>
           lo == IF conf.net.iface_no_lo THEN <<>> ELSE <<"loUp">>
           vs == IF conf.net.iface THEN netConfigureVs ELSE <<>>
<1>1. InOrder(r, three, 13, 15) /\ Elems(three) = {"vsAddr", "vsNetmask", "vsUp"}
  <2>1. r["vsAddr"] = 13 /\ r["vsNetmask"] = 14 /\ r["vsUp"] = 15
    BY Ranks
  <2>2. {"vsAddr", "vsNetmask", "vsUp"} \subseteq Step
    BY DEF Step
  <2> QED BY <2>1, <2>2, Triple
<1>2. InOrder(r, route, 16, 16)
      /\ Elems(route) = IF conf.net.iface_vs_gw = "any" THEN {} ELSE {"vsGateway"}
  <2>1. r["vsGateway"] = 16
    BY Ranks
  <2>2. {"vsGateway"} \subseteq Step
    BY DEF Step
  <2>3. InOrder(r, <<"vsGateway">>, 16, 16) /\ Elems(<<"vsGateway">>) = {"vsGateway"}
    BY <2>1, <2>2, Single
  <2>4. InOrder(r, <<>>, 16, 16) /\ Elems(<<>>) = {}
    BY Nothing
  <2> QED BY <2>3, <2>4, Zenon
<1>3. InOrder(r, lo, 12, 12)
      /\ Elems(lo) = IF conf.net.iface_no_lo THEN {} ELSE {"loUp"}
  <2>1. r["loUp"] = 12
    BY Ranks
  <2>2. {"loUp"} \subseteq Step
    BY DEF Step
  <2>3. InOrder(r, <<"loUp">>, 12, 12) /\ Elems(<<"loUp">>) = {"loUp"}
    BY <2>1, <2>2, Single
  <2>4. InOrder(r, <<>>, 12, 12) /\ Elems(<<>>) = {}
    BY Nothing
  <2> QED BY <2>3, <2>4, Zenon
<1> HIDE DEF three, route, lo
<1>4. InOrder(r, three \o route, 13, 16) /\ Elems(three \o route) = Elems(three) \cup Elems(route)
  BY <1>1, <1>2, Concatenated
<1>5. /\ InOrder(r, netConfigureVs, 13, 16)
      /\ Elems(netConfigureVs) =
            IF conf.net.iface_vs_ip = "any" THEN {} ELSE Elems(three) \cup Elems(route)
  BY <1>4, Nothing, Zenon DEF netConfigureVs, three, route
<1>6. /\ InOrder(r, vs, 13, 16)
      /\ Elems(vs) = IF conf.net.iface /\ conf.net.iface_vs_ip # "any"
                     THEN Elems(three) \cup Elems(route) ELSE {}
  BY <1>5, Nothing, Zenon
<1> HIDE DEF vs
<1>7. InOrder(r, lo \o vs, 12, 16) /\ Elems(lo \o vs) = Elems(lo) \cup Elems(vs)
  BY <1>3, <1>6, Concatenated
<1>8. /\ InOrder(r, netInitNsFromChild, 12, 16)
      /\ Elems(netInitNsFromChild) =
            IF conf.clone_newnet THEN Elems(lo) \cup Elems(vs) ELSE {}
  BY <1>7, Nothing, Zenon DEF netInitNsFromChild, lo, vs
<1> QED BY <1>1, <1>2, <1>3, <1>6, <1>8

\* containContain.
LEMMA ContainPart ==
    ASSUME NEW r, r = Rank(conf.mode)
    PROVE
    /\ InOrder(r, containContain, 10, 26)
    /\ Elems(containContain) =
         {"pidInitNs", "mountInitNs"} \cup Elems(netInitNsFromChild) \cup {"utsInitNs"}
           \cup Elems(containDropPrivs) \cup {"setLimits", "prepareEnv", "makeFdsCOE"}
<1> DEFINE first == <<"pidInitNs", "mountInitNs">>
           uts == <<"utsInitNs">>
           end == <<"setLimits", "prepareEnv", "makeFdsCOE">>
<1>1. InOrder(r, first, 10, 11) /\ Elems(first) = {"pidInitNs", "mountInitNs"}
  <2>1. r["pidInitNs"] = 10 /\ r["mountInitNs"] = 11
    BY Ranks
  <2>2. {"pidInitNs", "mountInitNs"} \subseteq Step
    BY DEF Step
  <2> QED BY <2>1, <2>2, Pair
<1>2. InOrder(r, uts, 17, 17) /\ Elems(uts) = {"utsInitNs"}
  <2>1. r["utsInitNs"] = 17
    BY Ranks
  <2>2. {"utsInitNs"} \subseteq Step
    BY DEF Step
  <2> QED BY <2>1, <2>2, Single
<1>3. InOrder(r, end, 24, 26) /\ Elems(end) = {"setLimits", "prepareEnv", "makeFdsCOE"}
  <2>1. r["setLimits"] = 24 /\ r["prepareEnv"] = 25 /\ r["makeFdsCOE"] = 26
    BY Ranks
  <2>2. {"setLimits", "prepareEnv", "makeFdsCOE"} \subseteq Step
    BY DEF Step
  <2> QED BY <2>1, <2>2, Triple
<1>4. containContain = (((first \o netInitNsFromChild) \o uts) \o containDropPrivs) \o end
  BY DEF containContain
<1> HIDE DEF first, uts, end
<1> DEFINE s1 == first \o netInitNsFromChild
           s2 == s1 \o uts
           s3 == s2 \o containDropPrivs
           s4 == s3 \o end
<1>5. InOrder(r, s1, 10, 16) /\ Elems(s1) = Elems(first) \cup Elems(netInitNsFromChild)
  <2> DEFINE net == netInitNsFromChild
  <2>1. InOrder(r, net, 12, 16)
    BY NetPart
  <2> HIDE DEF net
  <2>2. InOrder(r, first \o net, 10, 16) /\ Elems(first \o net) = Elems(first) \cup Elems(net)
    BY <1>1, <2>1, Concatenated
  <2> QED BY <2>2 DEF net
<1> HIDE DEF s1
<1>6. InOrder(r, s2, 10, 17) /\ Elems(s2) = Elems(s1) \cup Elems(uts)
  BY <1>5, <1>2, Concatenated
<1> HIDE DEF s2
<1>7. InOrder(r, s3, 10, 23) /\ Elems(s3) = Elems(s2) \cup Elems(containDropPrivs)
  BY <1>6, Parts, Concatenated
<1> HIDE DEF s3
<1>8. InOrder(r, s4, 10, 26) /\ Elems(s4) = Elems(s3) \cup Elems(end)
  BY <1>7, <1>3, Concatenated
<1> HIDE DEF s4
<1>9. containContain = s4
  BY <1>4 DEF s1, s2, s3, s4
<1> QED BY <1>1, <1>2, <1>3, <1>5, <1>6, <1>7, <1>8, <1>9

\* subprocNewProc as a whole: its steps come in the order of their ranks, and
\* which of them there are depends on the configuration.
LEMMA Program ==
    ASSUME NEW r, r = Rank(conf.mode)
    PROVE
    /\ InOrder(r, subprocNewProc, 1, 28)
    /\ Elems(containContain) \subseteq Elems(subprocNewProc)
    /\ {"setupFD", "sandboxApply", "execv"} \subseteq Elems(subprocNewProc)
    /\ conf.mode = "EXECVE" <=> "unshare" \in Elems(subprocNewProc)
    /\ conf.mode # "EXECVE" => "netInitNsFromParent" \in Elems(subprocNewProc)
    /\ \A x \in {"userSetGroups", "gidMap", "uidMap"} :
          x \in Elems(subprocNewProc) <=> conf.clone_newuser
    /\ "loUp" \in Elems(subprocNewProc) => conf.clone_newnet /\ ~conf.net.iface_no_lo
    /\ \A x \in {"vsAddr", "vsNetmask", "vsUp", "vsGateway"} \cap Elems(subprocNewProc) :
          /\ conf.clone_newnet /\ conf.net.iface
          /\ {"vsAddr", "vsNetmask", "vsUp"} \subseteq Elems(subprocNewProc)
<1> DEFINE m == conf.mode
           user == userInitNsFromParent
           s1 == <<"unshare", "setupFD">>
           s2 == <<"cgroupInitNs">>
           s3 == <<"setupFD", "netInitNsFromParent", "cgroupInitNs">>
           s4 == <<"readDone">>
           s5 == s1 \o user
           s6 == s3 \o user
           alone == s5 \o s2
           helped == s6 \o s4
           pre == IF conf.mode = "EXECVE" THEN alone ELSE helped
           end == <<"sandboxApply", "execv">>
           all == (pre \o containContain) \o end
<1>1. InOrder(r, end, 27, 28) /\ Elems(end) = {"sandboxApply", "execv"}
  <2>1. r["sandboxApply"] = 27 /\ r["execv"] = 28
    BY Ranks
  <2>2. {"sandboxApply", "execv"} \subseteq Step
    BY DEF Step
  <2> QED BY <2>1, <2>2, Pair
<1>u. /\ InOrder(r, user, 5, 7)
      /\ Elems(user) = IF conf.clone_newuser THEN {"userSetGroups", "gidMap", "uidMap"} ELSE {}
  BY Parts
<1>v. InOrder(r, user, 5, 7)
  BY <1>u
<1>2. ASSUME conf.mode = "EXECVE"
      PROVE  InOrder(r, alone, 1, 9)
             /\ Elems(alone) = {"unshare", "setupFD"} \cup Elems(user) \cup {"cgroupInitNs"}
  <2>1. r["unshare"] = 1 /\ r["setupFD"] = 2 /\ r["cgroupInitNs"] = 8
    BY <1>2, Ranks
  <2>2. {"unshare", "setupFD", "cgroupInitNs"} \subseteq Step
    BY DEF Step
  <2>3. InOrder(r, s1, 1, 2) /\ Elems(s1) = {"unshare", "setupFD"}
    BY <2>1, <2>2, Pair
  <2>4. InOrder(r, s2, 8, 8) /\ Elems(s2) = {"cgroupInitNs"}
    BY <2>1, <2>2, Single
  <2> HIDE DEF s1, s2, user
  <2>5. InOrder(r, s5, 1, 7) /\ Elems(s5) = Elems(s1) \cup Elems(user)
    BY <2>3, <1>v, Concatenated
  <2> HIDE DEF s5
  <2>6. InOrder(r, alone, 1, 8) /\ Elems(alone) = Elems(s5) \cup Elems(s2)
    BY <2>4, <2>5, Concatenated
  <2> HIDE DEF alone
  <2>7. InOrder(r, alone, 1, 9)
    BY <2>6, Wider
  <2> QED BY <2>3, <2>4, <2>5, <2>6, <2>7
<1>3. ASSUME conf.mode # "EXECVE"
      PROVE  InOrder(r, helped, 1, 9)
             /\ Elems(helped) = {"setupFD", "netInitNsFromParent", "cgroupInitNs"}
                                  \cup Elems(user) \cup {"readDone"}
  <2>1. r["setupFD"] = 2 /\ r["netInitNsFromParent"] = 3
        /\ r["cgroupInitNs"] = 4 /\ r["readDone"] = 9
    BY <1>3, Ranks
  <2>2. {"setupFD", "netInitNsFromParent", "cgroupInitNs", "readDone"} \subseteq Step
    BY DEF Step
  <2>3. InOrder(r, s3, 2, 4) /\ Elems(s3) = {"setupFD", "netInitNsFromParent", "cgroupInitNs"}
    BY <2>1, <2>2, Triple
  <2>4. InOrder(r, s4, 9, 9) /\ Elems(s4) = {"readDone"}
    BY <2>1, <2>2, Single
  <2> HIDE DEF s3, s4, user
  <2>5. InOrder(r, s6, 2, 7) /\ Elems(s6) = Elems(s3) \cup Elems(user)
    <3>1. InOrder(r, s3, 2, 4)
      BY <2>3
    <3> QED BY <3>1, <1>v, Concatenated
  <2> HIDE DEF s6
  <2>6. InOrder(r, helped, 2, 9) /\ Elems(helped) = Elems(s6) \cup Elems(s4)
    BY <2>4, <2>5, Concatenated
  <2> HIDE DEF helped
  <2>7. InOrder(r, helped, 1, 9)
    BY <2>6, Wider
  <2> QED BY <2>3, <2>4, <2>5, <2>6, <2>7
<1>4. subprocNewProc = all
  BY DEF subprocNewProc
<1> HIDE DEF s1, s2, s3, s4, s5, s6, alone, helped, user, end
<1>5. /\ InOrder(r, pre, 1, 9)
      /\ {"setupFD"} \cup Elems(user) \subseteq Elems(pre)
      /\ conf.mode = "EXECVE" <=> "unshare" \in Elems(pre)
      /\ conf.mode # "EXECVE" => "netInitNsFromParent" \in Elems(pre)
      /\ \A x \in {"userSetGroups", "gidMap", "uidMap"} : x \in Elems(pre) => x \in Elems(user)
      /\ \A x \in {"loUp", "vsAddr", "vsNetmask", "vsUp", "vsGateway"} : x \notin Elems(pre)
  BY <1>2, <1>3, <1>u
<1> HIDE DEF pre
<1>6. InOrder(r, containContain, 10, 26)
  BY ContainPart
<1>7. InOrder(r, pre \o containContain, 1, 26)
      /\ Elems(pre \o containContain) = Elems(pre) \cup Elems(containContain)
  BY <1>5, <1>6, Concatenated
<1>8. InOrder(r, all, 1, 28)
      /\ Elems(all) = Elems(pre) \cup Elems(containContain) \cup {"sandboxApply", "execv"}
  BY <1>7, <1>1, Concatenated
<1> HIDE DEF all
<1>w. \A x \in {"unshare", "userSetGroups", "gidMap", "uidMap"} : x \notin Elems(containContain)
  <2>1. \A x \in Elems(containContain) : r[x] \in 10 .. 26
    BY <1>6 DEF InOrder, Elems
  <2>2. r["unshare"] = 1 /\ r["userSetGroups"] = 5 /\ r["gidMap"] = 6 /\ r["uidMap"] = 7
    BY Ranks
  <2>3. ~ 1 \in 10 .. 26 /\ ~ 5 \in 10 .. 26 /\ ~ 6 \in 10 .. 26 /\ ~ 7 \in 10 .. 26
    OBVIOUS
  <2> QED BY <2>1, <2>2, <2>3, Zenon
<1>y. \A x \in {"userSetGroups", "gidMap", "uidMap"} : x \in Elems(all) <=> conf.clone_newuser
  BY <1>u, <1>5, <1>w, <1>8
<1>9. \A x \in {"loUp", "vsAddr", "vsNetmask", "vsUp", "vsGateway"} :
         x \in Elems(containContain) <=> x \in Elems(netInitNsFromChild)
  BY ContainPart, Parts
<1>10. \A x \in {"loUp", "vsAddr", "vsNetmask", "vsUp", "vsGateway"} :
         x \in Elems(all) <=> x \in Elems(netInitNsFromChild)
  BY <1>5, <1>8, <1>9
<1>11. "loUp" \in Elems(all) => conf.clone_newnet /\ ~conf.net.iface_no_lo
  BY <1>10, NetPart
<1>12. \A x \in {"vsAddr", "vsNetmask", "vsUp", "vsGateway"} \cap Elems(all) :
          /\ conf.clone_newnet /\ conf.net.iface
          /\ {"vsAddr", "vsNetmask", "vsUp"} \subseteq Elems(all)
  BY <1>10, NetPart
<1> QED BY <1>4, <1>5, <1>u, <1>w, <1>y, <1>8, <1>11, <1>12
-----------------------------------------------------------------------------
(* Where a process is, in terms of the steps it has behind it.               *)

\* The steps the process has behind it.
Past == {subprocNewProc[i] : i \in 1 .. pc - 1}

\* Whoever is at step x has all steps of lower rank behind it, and no other.
LEMMA Behind ==
    ASSUME ContainTypeOK, NEW x \in Step, subprocNewProc[pc] = x, NEW y \in Step
    PROVE  /\ Rank(conf.mode)[x] <= Rank(conf.mode)[y] => y \notin Past
           /\ y \in Elems(subprocNewProc) /\ Rank(conf.mode)[y] < Rank(conf.mode)[x] => y \in Past
<1> DEFINE r == Rank(conf.mode)
           s == subprocNewProc
           n == Len(subprocNewProc)
<1>1. /\ s \in Seq(Step)
      /\ \A i \in 1 .. n : r[s[i]] \in 1 .. 28
      /\ \A i, j \in 1 .. n : i < j => r[s[i]] < r[s[j]]
  BY Program DEF InOrder
<1>2. n \in Nat /\ pc \in 1 .. n /\ s[pc] = x
  BY <1>1, LenProperties DEF ContainTypeOK
<1>3. Past = {s[i] : i \in 1 .. pc - 1} /\ Elems(s) = {s[i] : i \in 1 .. n}
  BY DEF Past, Elems
<1> HIDE DEF r, s, n
<1>4. ASSUME y \in Past, r[x] <= r[y] PROVE FALSE
  <2>1. PICK i \in 1 .. pc - 1 : y = s[i]
    BY <1>3, <1>4
  <2>2. i \in 1 .. n /\ i < pc
    BY <1>2
  <2>3. r[s[i]] < r[s[pc]]
    BY <1>1, <1>2, <2>2
  <2>4. r[s[i]] \in 1 .. 28 /\ r[s[pc]] \in 1 .. 28
    BY <1>1, <1>2, <2>2
  <2> QED BY <2>1, <2>3, <2>4, <1>2, <1>4
<1>5. ASSUME y \in Elems(s), r[y] < r[x] PROVE y \in Past
  <2>1. PICK i \in 1 .. n : y = s[i]
    BY <1>3, <1>5
  <2>2. r[s[i]] \in 1 .. 28 /\ r[s[pc]] \in 1 .. 28
    BY <1>1, <1>2, <2>1, Zenon
  <2>3. ~ pc < i
    <3>1. pc < i => r[s[pc]] < r[s[i]]
      BY <1>1, <1>2, <2>1
    <3> QED BY <3>1, <1>2, <2>1, <2>2, <1>5
  <2>4. i # pc
    <3>1. i = pc => r[y] = r[x]
      BY <1>2, <2>1
    <3>2. r[y] \in 1 .. 28 /\ r[x] \in 1 .. 28
      BY <1>2, <2>1, <2>2
    <3> QED BY <3>1, <3>2, <1>5
  <2>5. i \in 1 .. pc - 1
    BY <1>2, <2>3, <2>4
  <2> QED BY <2>1, <2>5, <1>3
<1> QED BY <1>4, <1>5 DEF r, s

\* No step is taken twice.
LEMMA NotYet ==
    ASSUME ContainTypeOK, NEW x \in Step, subprocNewProc[pc] = x
    PROVE  x \notin Past
<1>1. Rank(conf.mode)[x] \in 1 .. 28
  BY Program DEF InOrder, ContainTypeOK
<1>2. Rank(conf.mode)[x] <= Rank(conf.mode)[x]
  BY <1>1
<1> QED BY <1>2, Behind

\* A step adds itself to those behind, and never leaves the sequence, since
\* execv comes last.
LEMMA Moves ==
    ASSUME ContainTypeOK, NEW x \in Step, subprocNewProc[pc] = x, x # "execv", Done
    PROVE  /\ conf' = conf /\ outcome' = outcome
           /\ pc' \in 1 .. Len(subprocNewProc') /\ Past' = Past \cup {x}
<1> DEFINE r == Rank(conf.mode)
           s == subprocNewProc
           n == Len(subprocNewProc)
<1>1. /\ s \in Seq(Step) /\ "execv" \in Elems(s)
      /\ \A i \in 1 .. n : r[s[i]] \in 1 .. 28
      /\ \A i, j \in 1 .. n : i < j => r[s[i]] < r[s[j]]
  BY Program DEF InOrder
<1>2. n \in Nat /\ pc \in 1 .. n /\ s[pc] = x
  BY <1>1, LenProperties DEF ContainTypeOK
<1>3. Past = {s[i] : i \in 1 .. pc - 1} /\ Elems(s) = {s[i] : i \in 1 .. n}
  BY DEF Past, Elems
<1>4. pc' = pc + 1 /\ conf' = conf /\ outcome' = outcome
  BY DEF Done
<1>5. subprocNewProc' = s
  BY <1>4 DEF subprocNewProc, containContain, containDropPrivs, userInitNsFromParent,
              netInitNsFromChild, netConfigureVs
<1>6. Past' = {s[i] : i \in 1 .. pc' - 1}
  BY <1>5 DEF Past
<1>7. r["execv"] = 28
  BY Ranks
<1> HIDE DEF r, s, n
<1>8. pc # n
  <2> SUFFICES ASSUME pc = n PROVE FALSE
    OBVIOUS
  <2>1. PICK i \in 1 .. n : s[i] = "execv"
    BY <1>1, <1>3
  <2>2. i # n
    BY <2>1, <1>2
  <2>3. i < n
    BY <2>2, <1>2
  <2>4. n \in 1 .. n
    BY <1>2
  <2>5. r[s[i]] < r[s[n]] /\ r[s[n]] \in 1 .. 28
    BY <2>3, <2>4, <1>1, Zenon
  <2> QED BY <2>1, <2>5, <1>7
<1>9. pc' \in 1 .. n /\ 1 .. pc' - 1 = (1 .. pc - 1) \cup {pc}
  BY <1>2, <1>4, <1>8
<1>10. Past' = Past \cup {x}
  BY <1>2, <1>3, <1>6, <1>9, Zenon
<1> QED BY <1>4, <1>5, <1>9, <1>10 DEF s, n
\* What the order means for each step: which steps it can rely on, and which
\* have not happened yet.
LEMMA Positions ==
    ASSUME ContainTypeOK, NEW x \in Step, subprocNewProc[pc] = x
    PROVE
    /\ x = "unshare" => conf.mode = "EXECVE" /\
          \A y \in {"pidInitNs", "setresuid", "bset"} : y \notin Past
    /\ x = "setupFD" => "makeFdsCOE" \notin Past
    /\ x = "netInitNsFromParent" =>
          \A y \in {"vsAddr", "vsNetmask", "vsUp", "vsGateway"} : y \notin Past
    /\ x = "userSetGroups" => "gidMap" \notin Past
    /\ x = "gidMap" => "userSetGroups" \in Past
    /\ x = "mountInitNs" => "pidInitNs" \in Past
    /\ x \in {"vsAddr", "vsNetmask", "vsUp", "vsGateway"} =>
          /\ conf.mode # "EXECVE" => "netInitNsFromParent" \in Past
          /\ x = "vsNetmask" => "vsAddr" \in Past
          /\ x = "vsGateway" => "vsUp" \in Past
    /\ x \in {"mountInitNs", "loUp", "vsAddr", "vsNetmask", "vsUp", "vsGateway", "utsInitNs",
              "setgroups", "setresgid", "setresuid"} =>
          /\ conf.mode = "EXECVE" => "unshare" \in Past
          /\ "setresuid" \notin Past
    /\ x \in {"setgroups", "setresgid", "setresuid"} =>
          /\ conf.clone_newuser => "gidMap" \in Past /\ "uidMap" \in Past
          /\ "prepareEnv" \notin Past /\ "bset" \notin Past
    /\ x = "bset" => "setresuid" \in Past
    /\ x = "capset" => "setresuid" \in Past /\ "bset" \in Past
    /\ x = "execv" => Elems(subprocNewProc) \ {"execv"} \subseteq Past
<1> DEFINE r == Rank(conf.mode)
           E == Elems(subprocNewProc)
<1>1. \A y \in Step : /\ r[x] <= r[y] => y \notin Past
                      /\ y \in E /\ r[y] < r[x] => y \in Past
  BY Behind
<1>2. /\ {"pidInitNs", "userSetGroups", "gidMap", "uidMap", "vsAddr", "vsNetmask", "vsUp",
         "vsGateway", "unshare", "netInitNsFromParent", "setresuid", "prepareEnv", "bset",
         "makeFdsCOE", "setupFD", "mountInitNs", "loUp", "utsInitNs", "setgroups",
         "setresgid", "capset"} \subseteq Step
      /\ r["unshare"] = 1 /\ r["setupFD"] = 2 /\ r["netInitNsFromParent"] = 3
      /\ r["userSetGroups"] = 5 /\ r["gidMap"] = 6 /\ r["uidMap"] = 7
      /\ r["pidInitNs"] = 10 /\ r["mountInitNs"] = 11 /\ r["loUp"] = 12
      /\ r["vsAddr"] = 13 /\ r["vsNetmask"] = 14 /\ r["vsUp"] = 15 /\ r["vsGateway"] = 16
      /\ r["utsInitNs"] = 17 /\ r["setgroups"] = 18 /\ r["setresgid"] = 19 /\ r["setresuid"] = 20
      /\ r["bset"] = 22 /\ r["capset"] = 23 /\ r["prepareEnv"] = 25 /\ r["makeFdsCOE"] = 26
      /\ r["execv"] = 28
  BY Ranks DEF Step
<1>3. /\ {"pidInitNs", "setresuid", "bset"} \subseteq E
      /\ conf.mode = "EXECVE" <=> "unshare" \in E
      /\ conf.mode # "EXECVE" => "netInitNsFromParent" \in E
      /\ \A y \in {"userSetGroups", "gidMap", "uidMap"} : y \in E <=> conf.clone_newuser
  BY Program, ContainPart, Parts
<1>4. \A y \in {"vsAddr", "vsNetmask", "vsUp", "vsGateway"} \cap E :
         {"vsAddr", "vsNetmask", "vsUp"} \subseteq E
  BY Program
<1>5. x \in E
  BY Program, LenProperties DEF Elems, ContainTypeOK
<1>6. x = "execv" => E \ {"execv"} \subseteq Past
  <2> SUFFICES ASSUME x = "execv", NEW y \in E, y # "execv" PROVE y \in Past
    OBVIOUS
  <2>1. PICK i \in 1 .. Len(subprocNewProc) : y = subprocNewProc[i]
    BY DEF Elems
  <2>2. /\ Len(subprocNewProc) \in Nat /\ pc \in 1 .. Len(subprocNewProc)
        /\ \A j, k \in 1 .. Len(subprocNewProc) :
              j < k => r[subprocNewProc[j]] < r[subprocNewProc[k]]
        /\ \A j \in 1 .. Len(subprocNewProc) : r[subprocNewProc[j]] \in 1 .. 28
    BY Program, LenProperties DEF InOrder, ContainTypeOK
  <2>3. i # pc
    BY <2>1
  <2>4. ~ pc < i
    <3>1. pc < i => r["execv"] < r[y] /\ r[y] \in 1 .. 28
      BY <2>1, <2>2
    <3>2. r["execv"] = 28
      BY <1>2
    <3> HIDE DEF r
    <3> QED BY <3>1, <3>2, SMTT(30)
  <2>5. i \in 1 .. pc - 1
    BY <2>2, <2>3, <2>4
  <2> QED BY <2>1, <2>5 DEF Past
<1> HIDE DEF r, E
<1>7. x = "unshare" => conf.mode = "EXECVE" /\
          \A y \in {"pidInitNs", "setresuid", "bset"} : y \notin Past
  BY <1>1, <1>2, <1>3, <1>5
<1>8. /\ x = "setupFD" => "makeFdsCOE" \notin Past
      /\ x = "netInitNsFromParent" =>
            \A y \in {"vsAddr", "vsNetmask", "vsUp", "vsGateway"} : y \notin Past
      /\ x = "userSetGroups" => "gidMap" \notin Past
  BY <1>1, <1>2
<1>9. /\ x = "gidMap" => "userSetGroups" \in Past
      /\ x = "mountInitNs" => "pidInitNs" \in Past
      /\ x = "bset" => "setresuid" \in Past
      /\ x = "capset" => "setresuid" \in Past /\ "bset" \in Past
  BY <1>1, <1>2, <1>3, <1>5
<1>10. x \in {"vsAddr", "vsNetmask", "vsUp", "vsGateway"} =>
          /\ conf.mode # "EXECVE" => "netInitNsFromParent" \in Past
          /\ x = "vsNetmask" => "vsAddr" \in Past
          /\ x = "vsGateway" => "vsUp" \in Past
  BY <1>1, <1>2, <1>3, <1>4, <1>5
<1>11. x \in {"mountInitNs", "loUp", "vsAddr", "vsNetmask", "vsUp", "vsGateway", "utsInitNs",
              "setgroups", "setresgid", "setresuid"} =>
          /\ conf.mode = "EXECVE" => "unshare" \in Past
          /\ "setresuid" \notin Past
  BY <1>1, <1>2, <1>3
<1>12. x \in {"setgroups", "setresgid", "setresuid"} =>
          /\ conf.clone_newuser => "gidMap" \in Past /\ "uidMap" \in Past
          /\ "prepareEnv" \notin Past /\ "bset" \notin Past
  BY <1>1, <1>2, <1>3
<1> QED BY <1>6, <1>7, <1>8, <1>9, <1>10, <1>11, <1>12 DEF E

-----------------------------------------------------------------------------
(* What the steps behind the process have achieved.                          *)

\* Credentials.  The capabilities last until setresuid(); after it a process
\* without them is not root, unless capset() is to take them; from then on what
\* is left in the bounding set is of no use to it.  Ids and the parent death
\* signal are as at the start until their step.
CredFacts ==
    /\ (~Unprivileged \/ "unshare" \in Past) /\ "setresuid" \notin Past => cred.caps
    /\ "setresuid" \in Past /\ ("bset" \notin Past \/ conf.keep_caps) =>
          cred.caps \/ ~IsRoot(cred.uid)
    /\ "bset" \in Past => conf.keep_caps \/ ~cred.bset \/ ~IsRoot(cred.uid)
    /\ "setgroups" \in Past /\ RootWrites => ~cred.groups
    /\ cred.gid = IF "setresgid" \in Past THEN TargetGid ELSE conf.egid
    /\ cred.uid = IF "setresuid" \in Past THEN TargetUid ELSE conf.euid
    /\ "setLimits" \in Past => cred.limits
    /\ cred.pdeath <=> "prepareEnv" \in Past
    /\ "sandboxApply" \in Past /\ conf.apply_sandbox => cred.seccomp /\ cred.nnp
    /\ cred.seccomp => conf.apply_sandbox

\* Namespaces.
NsFacts ==
    /\ ns.gid_map <=> "gidMap" \in Past
    /\ "uidMap" \in Past => ns.uid_map
    /\ ns.deny <=> "userSetGroups" \in Past /\ ~RootWrites
    /\ \/ ns.init \in {"host", "alive"}
       \/ conf.mode = "EXECVE" /\ ns.init = "none" /\ "pidInitNs" \notin Past
    /\ ns.root = IF "mountInitNs" \notin Past THEN "host"
                 ELSE IF conf.clone_newns THEN "pivoted" ELSE "chroot"
    /\ ns.lo <=> "loUp" \in Past
    /\ "netInitNsFromParent" \in Past /\ conf.clone_newnet /\ conf.net.iface => "there" \in ns.vs
    /\ "vsAddr" \in Past => "addr" \in ns.vs
    /\ "vsNetmask" \in Past => "mask" \in ns.vs
    /\ "vsUp" \in Past => "up" \in ns.vs
    /\ "vsGateway" \in Past => "route" \in ns.vs
    /\ "utsInitNs" \in Past => ns.uts = conf.clone_newuts

\* Descriptors.
FdFacts ==
    /\ "setupFD" \in Past =>
          /\ conf.mode = "LISTEN_TCP" => fds.std = "conn"
          /\ conf.mode # "LISTEN_TCP" /\ conf.is_silent => fds.std = "null"
    /\ conf.open \subseteq fds.open
    /\ "makeFdsCOE" \in Past =>
          /\ (fds.open \ fds.cloexec) \ Beyond \subseteq conf.open_fds
          /\ fds.open \cap conf.open_fds \cap fds.cloexec \subseteq Beyond

\* The steps each group of facts speaks of.
CredSteps == {"unshare", "setgroups", "setresgid", "setresuid", "bset", "setLimits",
              "prepareEnv", "sandboxApply"}
NsSteps == {"netInitNsFromParent", "userSetGroups", "gidMap", "uidMap", "pidInitNs",
            "mountInitNs", "loUp", "vsAddr", "vsNetmask", "vsUp", "vsGateway", "utsInitNs"}
FdSteps == {"setupFD", "makeFdsCOE"}

\* A step leaves alone the facts about the steps of others.
LEMMA Frames ==
    ASSUME conf' = conf, NEW x, Past' = Past \cup {x}
    PROVE  /\ CredFacts /\ cred' = cred /\ x \notin CredSteps => CredFacts'
           /\ NsFacts /\ ns' = ns /\ x \notin NsSteps => NsFacts'
           /\ FdFacts /\ fds' = fds /\ x \notin FdSteps => FdFacts'
<1>1. CredFacts /\ cred' = cred /\ x \notin CredSteps => CredFacts'
  BY DEF CredFacts, CredSteps, Unprivileged, IsRoot, RootWrites, TargetUid, TargetGid
<1>2. NsFacts /\ ns' = ns /\ x \notin NsSteps => NsFacts'
  BY DEF NsFacts, NsSteps, RootWrites
<1>3. FdFacts /\ fds' = fds /\ x \notin FdSteps => FdFacts'
  BY DEF FdFacts, FdSteps
<1> QED BY <1>1, <1>2, <1>3

\* The fields of a configuration.
LEMMA ConfFields ==
    ASSUME conf \in Configs
    PROVE  /\ TargetUid \in Id /\ TargetGid \in Id /\ conf.euid \in Id /\ conf.egid \in Id
           /\ conf.clone_newuser \in BOOLEAN /\ conf.clone_newns \in BOOLEAN
           /\ conf.clone_newuts \in BOOLEAN /\ conf.keep_caps \in BOOLEAN
           /\ conf.apply_sandbox \in BOOLEAN /\ conf.disable_no_new_privs \in BOOLEAN
           /\ conf.open \subseteq Fd /\ conf.cloexec \subseteq Fd /\ conf.open_fds \subseteq Fd
           /\ Unprivileged => conf.clone_newuser
BY ConfigAssumption DEF Config, TargetUid, TargetGid, Unprivileged
CredType == [uid : Id, gid : Id, groups : BOOLEAN, caps : BOOLEAN, bset : BOOLEAN,
             nnp : BOOLEAN, pdeath : BOOLEAN, limits : BOOLEAN, seccomp : BOOLEAN]

\* unshare(), containDropPrivs, containSetLimits, containPrepareEnv and
\* sandboxApply keep the facts about the credentials.  The delicate ones are
\* setresuid(), which may lose the capabilities and then leaves a uid that is
\* not root, and the loop over the bounding set, which needs what it left.
LEMMA CredStep ==
    ASSUME ContainTypeOK, CredFacts, NsFacts,
           \/ unshare \/ SetGroups \/ SetResGid \/ SetResUid \/ NoNewPrivs \/ DropBoundingSet
           \/ Capset \/ containSetLimits \/ containPrepareEnv \/ sandboxApply
    PROVE  cred' \in CredType /\ CredFacts'
<1>0. cred \in CredType /\ conf \in Configs
  BY DEF ContainTypeOK, CredType
<1>1. CASE unshare
  <2>1. subprocNewProc[pc] = "unshare" /\ Done /\ "unshare" \in Step
    BY <1>1 DEF unshare, At, Step
  <2>2. conf' = conf /\ Past' = Past \cup {"unshare"}
    BY <2>1, Moves
  <2>3. cred' \in CredType
    BY <1>0, <1>1, ConfFields DEF unshare, CredType
  <2>4. CredFacts'
    BY <1>0, <1>1, <2>1, <2>2, Positions, ConfFields DEF
        unshare, CredType, CredFacts, Unprivileged, IsRoot, RootWrites, TargetUid, TargetGid
  <2> QED BY <2>3, <2>4
<1>2. CASE SetGroups
  <2>1. subprocNewProc[pc] = "setgroups" /\ Done /\ "setgroups" \in Step
    BY <1>2 DEF SetGroups, At, Step
  <2>2. conf' = conf /\ Past' = Past \cup {"setgroups"}
    BY <2>1, Moves
  <2>3. cred' \in CredType
    BY <1>0, <1>2, ConfFields, Zenon DEF SetGroups, CredType
  <2>5. \E g \in BOOLEAN : cred' = [cred EXCEPT !.groups = g]
    BY <1>0, <1>2, ConfFields, Zenon DEF SetGroups, CredType
  <2>6. /\ cred'.uid = cred.uid /\ cred'.gid = cred.gid /\ cred'.caps = cred.caps
        /\ cred'.bset = cred.bset /\ cred'.nnp = cred.nnp /\ cred'.pdeath = cred.pdeath
        /\ cred'.limits = cred.limits /\ cred'.seccomp = cred.seccomp
    BY <1>0, <2>5 DEF CredType
  <2>7. RootWrites => ~cred'.groups
    <3>1. SUFFICES ASSUME RootWrites PROVE ~cred'.groups
      OBVIOUS
    <3>2. cred'.groups = (cred.groups /\ 
             (~cred.caps \/ (conf.clone_newuser /\ (ns.deny \/ ~ns.gid_map))))
      BY <1>0, <1>2 DEF SetGroups, CredType
    <3>3. cred.caps
      BY <2>1, Positions DEF CredFacts, Unprivileged
    <3>4. conf.clone_newuser => ~ns.deny /\ ns.gid_map
      BY <2>1, <3>1, Positions, ConfFields DEF NsFacts, Unprivileged
    <3> QED BY <3>2, <3>3, <3>4, Zenon
  <2>4. CredFacts'
    BY <2>1, <2>2, <2>6, <2>7, Positions DEF
        CredFacts, Unprivileged, IsRoot, RootWrites, TargetUid, TargetGid
  <2> QED BY <2>3, <2>4
<1>3. CASE SetResGid
  <2>1. subprocNewProc[pc] = "setresgid" /\ Done /\ "setresgid" \in Step
    BY <1>3 DEF SetResGid, At, Step
  <2>2. conf' = conf /\ Past' = Past \cup {"setresgid"}
    BY <2>1, Moves
  <2>3. cred' \in CredType
    BY <1>0, <1>3, ConfFields, Zenon DEF SetResGid, CredType
  <2>4. CredFacts'
    BY <1>0, <1>3, <2>1, <2>2, Positions, ConfFields DEF
        SetResGid, CredType, CredFacts, Unprivileged, IsRoot, RootWrites, TargetUid, TargetGid
  <2> QED BY <2>3, <2>4
<1>4. CASE SetResUid
  <2>1. subprocNewProc[pc] = "setresuid" /\ Done /\ "setresuid" \in Step
    BY <1>4 DEF SetResUid, At, Step
  <2>2. conf' = conf /\ Past' = Past \cup {"setresuid"}
    BY <2>1, Moves
  <2>3. cred' \in CredType
    <3>1. \E c, d \in BOOLEAN :
             cred' = [cred EXCEPT !.uid = TargetUid, !.caps = c, !.pdeath = d]
      BY <1>0, <1>4, ConfFields, Zenon DEF SetResUid, CredType
    <3> QED BY <1>0, <3>1, ConfFields, Zenon DEF CredType
  <2>4. CredFacts'
    BY <1>0, <1>4, <2>1, <2>2, Positions, ConfFields DEF
        SetResUid, CredType, CredFacts, Unprivileged, IsRoot, RootWrites, TargetUid, TargetGid
  <2> QED BY <2>3, <2>4
<1>5. CASE NoNewPrivs
  <2>1. subprocNewProc[pc] = "no_new_privs" /\ Done /\ "no_new_privs" \in Step
    BY <1>5 DEF NoNewPrivs, At, Step
  <2>2. conf' = conf /\ Past' = Past \cup {"no_new_privs"}
    BY <2>1, Moves
  <2>3. cred' \in CredType
    BY <1>0, <1>5, ConfFields, Zenon DEF NoNewPrivs, CredType
  <2>4. CredFacts'
    BY <1>0, <1>5, <2>1, <2>2, Positions, ConfFields DEF
        NoNewPrivs, CredType, CredFacts, Unprivileged, IsRoot, RootWrites, TargetUid, TargetGid
  <2> QED BY <2>3, <2>4
<1>6. CASE DropBoundingSet
  <2>1. subprocNewProc[pc] = "bset" /\ Done /\ "bset" \in Step
    BY <1>6 DEF DropBoundingSet, At, Step
  <2>2. conf' = conf /\ Past' = Past \cup {"bset"}
    BY <2>1, Moves
  <2>3. cred' \in CredType
    BY <1>0, <1>6, ConfFields DEF DropBoundingSet, CredType
  <2>4. CredFacts'
    BY <1>0, <1>6, <2>1, <2>2, Positions, ConfFields DEF
        DropBoundingSet, CredType, CredFacts, Unprivileged, IsRoot, RootWrites, TargetUid, TargetGid
  <2> QED BY <2>3, <2>4
<1>7. CASE Capset
  <2>1. subprocNewProc[pc] = "capset" /\ Done /\ "capset" \in Step
    BY <1>7 DEF Capset, At, Step
  <2>2. conf' = conf /\ Past' = Past \cup {"capset"}
    BY <2>1, Moves
  <2>3. cred' \in CredType
    BY <1>0, <1>7, ConfFields DEF Capset, CredType
  <2>4. CredFacts'
    BY <1>0, <1>7, <2>1, <2>2, Positions, ConfFields DEF
        Capset, CredType, CredFacts, Unprivileged, IsRoot, RootWrites, TargetUid, TargetGid
  <2> QED BY <2>3, <2>4
<1>8. CASE containSetLimits
  <2>1. subprocNewProc[pc] = "setLimits" /\ Done /\ "setLimits" \in Step
    BY <1>8 DEF containSetLimits, At, Step
  <2>2. conf' = conf /\ Past' = Past \cup {"setLimits"}
    BY <2>1, Moves
  <2>3. cred' \in CredType
    BY <1>0, <1>8, ConfFields, Zenon DEF containSetLimits, CredType
  <2>4. CredFacts'
    BY <1>0, <1>8, <2>1, <2>2, Positions, ConfFields DEF
        containSetLimits, CredType, CredFacts, Unprivileged, IsRoot, RootWrites, TargetUid,
        TargetGid
  <2> QED BY <2>3, <2>4
<1>9. CASE containPrepareEnv
  <2>1. subprocNewProc[pc] = "prepareEnv" /\ Done /\ "prepareEnv" \in Step
    BY <1>9 DEF containPrepareEnv, At, Step
  <2>2. conf' = conf /\ Past' = Past \cup {"prepareEnv"}
    BY <2>1, Moves
  <2>3. cred' \in CredType
    BY <1>0, <1>9, ConfFields, Zenon DEF containPrepareEnv, CredType
  <2>4. CredFacts'
    BY <1>0, <1>9, <2>1, <2>2, Positions, ConfFields DEF
        containPrepareEnv, CredType, CredFacts, Unprivileged, IsRoot, RootWrites, TargetUid,
        TargetGid
  <2> QED BY <2>3, <2>4
<1>10. CASE sandboxApply
  <2>1. subprocNewProc[pc] = "sandboxApply" /\ Done /\ "sandboxApply" \in Step
    BY <1>10 DEF sandboxApply, At, Step
  <2>2. conf' = conf /\ Past' = Past \cup {"sandboxApply"}
    BY <2>1, Moves
  <2>3. cred' \in CredType
    BY <1>0, <1>10, ConfFields, Zenon DEF sandboxApply, CredType
  <2>4. CredFacts'
    BY <1>0, <1>10, <2>1, <2>2, Positions, ConfFields DEF
        sandboxApply, CredType, CredFacts, Unprivileged, IsRoot, RootWrites, TargetUid, TargetGid
  <2> QED BY <2>3, <2>4
<1> QED BY <1>1, <1>2, <1>3, <1>4, <1>5, <1>6, <1>7, <1>8, <1>9, <1>10
NsType == [root : {"host", "pivoted", "chroot"}, lo : BOOLEAN,
           vs : SUBSET {"there", "addr", "mask", "up", "route"},
           uts : BOOLEAN, deny : BOOLEAN, gid_map : BOOLEAN,
           uid_map : BOOLEAN, init : {"host", "none", "alive", "dead"}]

\* The steps that set up the namespaces keep the facts about them.
LEMMA NsStep ==
    ASSUME ContainTypeOK, NsFacts,
           \/ unshare \/ netInitNsFromParent \/ userSetGroups \/ userGidMapSelf \/ userUidMapSelf
           \/ pidInitNs \/ mountInitNs \/ netIfaceUp \/ ConfigureVs \/ utsInitNs
    PROVE  ns' \in NsType /\ NsFacts'
<1>0. ns \in NsType /\ conf \in Configs
  BY DEF ContainTypeOK, NsType
<1>1. CASE netInitNsFromParent
  <2>1. subprocNewProc[pc] = "netInitNsFromParent" /\ Done /\ "netInitNsFromParent" \in Step
    BY <1>1 DEF netInitNsFromParent, At, Step
  <2>2. conf' = conf /\ Past' = Past \cup {"netInitNsFromParent"}
    BY <2>1, Moves
  <2>3. ns' \in NsType
    BY <1>0, <1>1, ConfFields DEF netInitNsFromParent, At, NsType
  <2>4. NsFacts'
    BY <1>0, <1>1, <2>1, <2>2, Positions DEF netInitNsFromParent, At, NsType, NsFacts, RootWrites
  <2> QED BY <2>3, <2>4
<1>2. CASE userSetGroups
  <2>1. subprocNewProc[pc] = "userSetGroups" /\ Done /\ "userSetGroups" \in Step
    BY <1>2 DEF userSetGroups, At, Step
  <2>2. conf' = conf /\ Past' = Past \cup {"userSetGroups"}
    BY <2>1, Moves
  <2>3. ns' \in NsType
    BY <1>0, <1>2, ConfFields, Zenon DEF userSetGroups, At, NsType
  <2>4. NsFacts'
    <3> DEFINE deny == ns'.deny
    <3>1. /\ deny = ~RootWrites
          /\ ns'.gid_map = ns.gid_map /\ ns'.uid_map = ns.uid_map /\ ns'.init = ns.init
          /\ ns'.root = ns.root /\ ns'.lo = ns.lo /\ ns'.vs = ns.vs /\ ns'.uts = ns.uts
      BY <1>0, <1>2 DEF userSetGroups, NsType
    <3>2. RootWrites' = RootWrites
      BY <2>2 DEF RootWrites
    <3>3. deny <=> "userSetGroups" \in Past' /\ ~RootWrites'
      BY <3>1, <3>2, <2>2, Zenon
    <3> QED BY <3>1, <3>3, <2>2 DEF NsFacts
  <2> QED BY <2>3, <2>4
<1>3. CASE userGidMapSelf
  <2>1. subprocNewProc[pc] = "gidMap" /\ Done /\ "gidMap" \in Step
    BY <1>3 DEF userGidMapSelf, At, Step
  <2>2. conf' = conf /\ Past' = Past \cup {"gidMap"}
    BY <2>1, Moves
  <2>3. ns' \in NsType
    BY <1>0, <1>3, ConfFields, Zenon DEF userGidMapSelf, At, NsType
  <2>4. NsFacts'
    BY <1>0, <1>3, <2>1, <2>2, Positions DEF userGidMapSelf, At, NsType, NsFacts, RootWrites
  <2> QED BY <2>3, <2>4
<1>4. CASE userUidMapSelf
  <2>1. subprocNewProc[pc] = "uidMap" /\ Done /\ "uidMap" \in Step
    BY <1>4 DEF userUidMapSelf, At, Step
  <2>2. conf' = conf /\ Past' = Past \cup {"uidMap"}
    BY <2>1, Moves
  <2>3. ns' \in NsType
    BY <1>0, <1>4, ConfFields, Zenon DEF userUidMapSelf, At, NsType
  <2>4. NsFacts'
    BY <1>0, <1>4, <2>1, <2>2, Positions DEF userUidMapSelf, At, NsType, NsFacts, RootWrites
  <2> QED BY <2>3, <2>4
<1>5. CASE pidInitNs
  <2>1. subprocNewProc[pc] = "pidInitNs" /\ Done /\ "pidInitNs" \in Step
    BY <1>5 DEF pidInitNs, At, Step
  <2>2. conf' = conf /\ Past' = Past \cup {"pidInitNs"}
    BY <2>1, Moves
  <2>3. ns' \in NsType
    BY <1>0, <1>5, ConfFields DEF pidInitNs, At, NsType
  <2>4. NsFacts'
    BY <1>0, <1>5, <2>1, <2>2, Positions DEF pidInitNs, At, NsType, NsFacts, RootWrites
  <2> QED BY <2>3, <2>4
<1>6. CASE mountInitNs
  <2>1. subprocNewProc[pc] = "mountInitNs" /\ Done /\ "mountInitNs" \in Step
    BY <1>6 DEF mountInitNs, At, Step
  <2>2. conf' = conf /\ Past' = Past \cup {"mountInitNs"}
    BY <2>1, Moves
  <2>3. ns' \in NsType
    BY <1>0, <1>6, ConfFields, Zenon DEF mountInitNs, At, NsType
  <2>4. NsFacts'
    BY <1>0, <1>6, <2>1, <2>2, Positions DEF mountInitNs, At, NsType, NsFacts, RootWrites
  <2> QED BY <2>3, <2>4
<1>7. CASE netIfaceUp /\ subprocNewProc[pc] = "loUp"
  <2>1. subprocNewProc[pc] = "loUp" /\ Done /\ "loUp" \in Step
    BY <1>7 DEF netIfaceUp, At, Step
  <2>2. conf' = conf /\ Past' = Past \cup {"loUp"}
    BY <2>1, Moves
  <2>3. ns' \in NsType
    BY <1>0, <1>7, ConfFields, Zenon DEF netIfaceUp, At, NsType
  <2>4. NsFacts'
    BY <1>0, <1>7, <2>1, <2>2, Positions DEF netIfaceUp, At, NsType, NsFacts, RootWrites
  <2> QED BY <2>3, <2>4
<1>8. CASE netIfaceUp /\ subprocNewProc[pc] = "vsUp"
  <2>1. subprocNewProc[pc] = "vsUp" /\ Done /\ "vsUp" \in Step
    BY <1>8 DEF netIfaceUp, At, Step
  <2>2. conf' = conf /\ Past' = Past \cup {"vsUp"}
    BY <2>1, Moves
  <2>3. ns' \in NsType
    BY <1>0, <1>8, ConfFields DEF netIfaceUp, At, NsType
  <2>4. NsFacts'
    BY <1>0, <1>8, <2>1, <2>2, Positions DEF netIfaceUp, At, NsType, NsFacts, RootWrites
  <2> QED BY <2>3, <2>4
<1>9. CASE ConfigureVs /\ subprocNewProc[pc] = "vsAddr"
  <2>1. subprocNewProc[pc] = "vsAddr" /\ Done /\ "vsAddr" \in Step
    BY <1>9 DEF ConfigureVs, At, Step
  <2>2. conf' = conf /\ Past' = Past \cup {"vsAddr"}
    BY <2>1, Moves
  <2>3. ns' \in NsType
    BY <1>0, <1>9, ConfFields DEF ConfigureVs, At, NsType
  <2>4. NsFacts'
    BY <1>0, <1>9, <2>1, <2>2, Positions DEF ConfigureVs, At, NsType, NsFacts, RootWrites
  <2> QED BY <2>3, <2>4
<1>10. CASE ConfigureVs /\ subprocNewProc[pc] = "vsNetmask"
  <2>1. subprocNewProc[pc] = "vsNetmask" /\ Done /\ "vsNetmask" \in Step
    BY <1>10 DEF ConfigureVs, At, Step
  <2>2. conf' = conf /\ Past' = Past \cup {"vsNetmask"}
    BY <2>1, Moves
  <2>3. ns' \in NsType
    BY <1>0, <1>10, ConfFields DEF ConfigureVs, At, NsType
  <2>4. NsFacts'
    BY <1>0, <1>10, <2>1, <2>2, Positions DEF ConfigureVs, At, NsType, NsFacts, RootWrites
  <2> QED BY <2>3, <2>4
<1>11. CASE ConfigureVs /\ subprocNewProc[pc] = "vsGateway"
  <2>1. subprocNewProc[pc] = "vsGateway" /\ Done /\ "vsGateway" \in Step
    BY <1>11 DEF ConfigureVs, At, Step
  <2>2. conf' = conf /\ Past' = Past \cup {"vsGateway"}
    BY <2>1, Moves
  <2>3. ns' \in NsType
    BY <1>0, <1>11, ConfFields DEF ConfigureVs, At, NsType
  <2>4. NsFacts'
    BY <1>0, <1>11, <2>1, <2>2, Positions DEF ConfigureVs, At, NsType, NsFacts, RootWrites
  <2> QED BY <2>3, <2>4
<1>12. CASE utsInitNs
  <2>1. subprocNewProc[pc] = "utsInitNs" /\ Done /\ "utsInitNs" \in Step
    BY <1>12 DEF utsInitNs, At, Step
  <2>2. conf' = conf /\ Past' = Past \cup {"utsInitNs"}
    BY <2>1, Moves
  <2>3. ns' \in NsType
    BY <1>0, <1>12, ConfFields DEF utsInitNs, At, NsType
  <2>4. NsFacts'
    BY <1>0, <1>12, <2>1, <2>2, Positions DEF utsInitNs, At, NsType, NsFacts, RootWrites
  <2> QED BY <2>3, <2>4
<1>13. CASE unshare
  <2>1. subprocNewProc[pc] = "unshare" /\ Done /\ "unshare" \in Step
    BY <1>13 DEF unshare, At, Step
  <2>2. conf' = conf /\ Past' = Past \cup {"unshare"}
    BY <2>1, Moves
  <2>3. ns' \in NsType
    BY <1>0, <1>13, ConfFields DEF unshare, At, NsType
  <2>4. NsFacts'
    BY <1>0, <1>13, <2>1, <2>2, Positions DEF unshare, At, NsType, NsFacts, RootWrites
  <2> QED BY <2>3, <2>4
<1>s. /\ netIfaceUp => subprocNewProc[pc] \in {"loUp", "vsUp"}
      /\ ConfigureVs => subprocNewProc[pc] \in {"vsAddr", "vsNetmask", "vsGateway"}
  BY DEF netIfaceUp, ConfigureVs, At
<1> QED BY <1>s, <1>1, <1>2, <1>3, <1>4, <1>5, <1>6, <1>7, <1>8, <1>9, <1>10, <1>11, <1>12, <1>13
FdType == [open : SUBSET Fd, cloexec : SUBSET Fd, std : {"console", "conn", "null"}]

\* containSetupFD and containMakeFdsCOE keep the facts about descriptors.
LEMMA FdStep ==
    ASSUME ContainTypeOK, FdFacts, containSetupFD \/ containMakeFdsCOE
    PROVE  fds' \in FdType /\ FdFacts'
<1>0. fds \in FdType /\ conf \in Configs
  BY DEF ContainTypeOK, FdType
<1>1. CASE containSetupFD
  <2>1. subprocNewProc[pc] = "setupFD" /\ Done /\ "setupFD" \in Step
    BY <1>1 DEF containSetupFD, At, Step
  <2>2. conf' = conf /\ Past' = Past \cup {"setupFD"}
    BY <2>1, Moves
  <2>3. "makeFdsCOE" \notin Past
    BY <2>1, Positions
  <2>4. CASE conf.mode = "LISTEN_TCP" /\ Redirect("conn", {})
    BY <2>2, <2>3, <2>4, <1>0 DEF Redirect, FdType, FdFacts
  <2>5. CASE /\ conf.mode # "LISTEN_TCP" /\ conf.is_silent
             /\ \E fd \in Fd : Redirect("null", {fd})
    BY <2>2, <2>3, <2>5, <1>0 DEF Redirect, FdType, FdFacts
  <2>6. CASE conf.mode # "LISTEN_TCP" /\ ~conf.is_silent /\ UNCHANGED fds
    BY <2>2, <2>3, <2>6, <1>0 DEF FdType, FdFacts
  <2> QED BY <1>1, <2>4, <2>5, <2>6 DEF containSetupFD
<1>2. CASE containMakeFdsCOE
  <2>1. subprocNewProc[pc] = "makeFdsCOE" /\ Done /\ "makeFdsCOE" \in Step
    BY <1>2 DEF containMakeFdsCOE, At, Step
  <2>2. conf' = conf /\ Past' = Past \cup {"makeFdsCOE"}
    BY <2>1, Moves
  <2>3. PICK which \in SUBSET fds.open :
           /\ fds' = [fds EXCEPT !.cloexec = Marked(which)]
           /\ fds.open \ which \subseteq Beyond
    <3>1. CASE fds' = [fds EXCEPT !.cloexec = Marked(fds.open)]
      BY <3>1
    <3>2. CASE /\ "proc_fd" \in Faults
               /\ \E seen \in SUBSET fds.open :
                     fds' = [fds EXCEPT !.cloexec =
                               Marked(seen \cup {fd \in fds.open : fd < NaiveLimit})]
      <4>1. PICK seen \in SUBSET fds.open :
                  fds' = [fds EXCEPT !.cloexec =
                            Marked(seen \cup {fd \in fds.open : fd < NaiveLimit})]
        BY <3>2, Zenon
      <4> DEFINE W == seen \cup {fd \in fds.open : fd < NaiveLimit}
      <4>2. W \in SUBSET fds.open /\ fds.open \ W \subseteq Beyond
        BY <1>0, <3>2, FdAssumption DEF Beyond, FdType, Fd
      <4> QED BY <4>1, <4>2, Zenon
    <3> QED BY <1>2, <3>1, <3>2 DEF containMakeFdsCOE
  <2>4. /\ fds' \in FdType /\ fds'.open = fds.open
        /\ fds'.cloexec = Marked(which) /\ fds'.std = fds.std
    BY <1>0, <2>3, ConfFields DEF FdType, Marked
  <2>5. fds.open \cap conf.open_fds \cap Marked(which) \subseteq Beyond
    BY <2>3 DEF Marked
  <2>6. (fds.open \ Marked(which)) \ Beyond \subseteq conf.open_fds
    BY <2>3 DEF Marked
  <2>7. FdFacts'
    BY <2>2, <2>4, <2>5, <2>6 DEF FdFacts, Beyond
  <2> QED BY <2>4, <2>7
<1> QED BY <1>1, <1>2
-----------------------------------------------------------------------------
(* The inductive invariant.                                                  *)

\* What the command is promised, which execv() establishes.
Promises ==
    /\ CommandFullyConfined /\ CommandDiesWithParent /\ CommandHasNoPrivileges
    /\ CommandCanFork /\ OnlyPassedFds

\* The inductive invariant: as long as the process runs, each step behind it has
\* had its effect and no later one has undone it.
ContainInv ==
    /\ ContainTypeOK
    /\ outcome = "running" => CredFacts /\ NsFacts /\ FdFacts
    /\ Promises

\* A new process has no step behind it and nothing to show for it.
LEMMA ContainInit == Init => ContainInv
<1> SUFFICES ASSUME Init PROVE ContainInv
  OBVIOUS
<1>1. InOrder(Rank(conf.mode), subprocNewProc, 1, 28) /\ "execv" \in Elems(subprocNewProc)
  BY Program
<1>2. pc \in 1 .. Len(subprocNewProc)
  BY <1>1, LenProperties DEF Init, InOrder, Elems
<1>3. Past = {}
  BY DEF Past, Init
<1>4. cred \in CredType /\ ns \in NsType /\ fds \in FdType
  BY ConfFields DEF Init, CredType, NsType, FdType
<1>5. ContainTypeOK
  BY <1>2, <1>4 DEF ContainTypeOK, CredType, NsType, FdType, Init
<1>6. CredFacts /\ NsFacts /\ FdFacts
  BY <1>3, Zenon DEF Init, CredFacts, NsFacts, FdFacts
<1>7. Promises
  BY DEF Init, Promises, CommandFullyConfined, CommandDiesWithParent, CommandHasNoPrivileges, CommandCanFork, OnlyPassedFds, Command
<1> QED BY <1>5, <1>6, <1>7 DEF ContainInv

\* The types after a step that goes on.
LEMMA Typed ==
    ASSUME ContainTypeOK, NEW x \in Step, subprocNewProc[pc] = x, x # "execv", Done,
           outcome = "running", cred' \in CredType, ns' \in NsType, fds' \in FdType
    PROVE  ContainTypeOK' /\ conf' = conf /\ outcome' = "running" /\ Past' = Past \cup {x}
<1>1. /\ conf' = conf /\ outcome' = "running" /\ Past' = Past \cup {x}
      /\ pc' \in 1 .. Len(subprocNewProc')
  BY Moves
<1> QED BY <1>1 DEF ContainTypeOK, CredType, NsType, FdType

\* Every step but execv() and a failure keeps the facts.
LEMMA GoesOn ==
    ASSUME ContainTypeOK, CredFacts, NsFacts, FdFacts, Next, ~execv, ~StepFails
    PROVE  ContainTypeOK' /\ outcome' = "running" /\ CredFacts' /\ NsFacts' /\ FdFacts'
<1>0. cred \in CredType /\ ns \in NsType /\ fds \in FdType
  BY DEF ContainTypeOK, CredType, NsType, FdType
<1>1. CASE unshare
  <2>1. /\ outcome = "running" /\ subprocNewProc[pc] = "unshare" /\ "unshare" \in Step
        /\ Done /\ fds' = fds
    BY <1>1 DEF unshare, At, Step
  <2>2. cred' \in CredType /\ ns' \in NsType /\ CredFacts' /\ NsFacts'
    BY <1>1, CredStep, NsStep
  <2>3. ContainTypeOK' /\ conf' = conf /\ outcome' = "running" /\ Past' = Past \cup {"unshare"}
    BY <1>0, <2>1, <2>2, Typed
  <2>4. FdFacts'
    BY <2>1, <2>3, Frames DEF FdSteps
  <2> QED BY <2>2, <2>3, <2>4
<1>2. CASE \/ SetGroups \/ SetResGid \/ SetResUid \/ NoNewPrivs \/ DropBoundingSet \/ Capset
           \/ containSetLimits \/ containPrepareEnv \/ sandboxApply
  <2>1. PICK x \in {"setgroups", "setresgid", "setresuid", "no_new_privs", "bset", "capset",
                    "setLimits", "prepareEnv", "sandboxApply"} :
           /\ outcome = "running" /\ subprocNewProc[pc] = x /\ Done
           /\ ns' = ns /\ fds' = fds
    BY <1>2 DEF SetGroups, SetResGid, SetResUid, NoNewPrivs, DropBoundingSet, Capset,
                containSetLimits, containPrepareEnv, sandboxApply, At
  <2>2. cred' \in CredType /\ CredFacts'
    BY <1>2, CredStep
  <2>3. x \in Step /\ x # "execv" /\ x \notin NsSteps /\ x \notin FdSteps
    BY DEF Step, NsSteps, FdSteps
  <2>4. ContainTypeOK' /\ conf' = conf /\ outcome' = "running" /\ Past' = Past \cup {x}
    BY <1>0, <2>1, <2>2, <2>3, Typed
  <2>5. NsFacts' /\ FdFacts'
    BY <2>1, <2>3, <2>4, Frames
  <2> QED BY <2>2, <2>4, <2>5
<1>3. CASE \/ netInitNsFromParent \/ userSetGroups \/ userGidMapSelf \/ userUidMapSelf
           \/ pidInitNs \/ mountInitNs \/ netIfaceUp \/ ConfigureVs \/ utsInitNs
  <2>1. PICK x \in NsSteps : /\ outcome = "running" /\ subprocNewProc[pc] = x /\ Done
                             /\ cred' = cred /\ fds' = fds
    BY <1>3 DEF netInitNsFromParent, userSetGroups, userGidMapSelf, userUidMapSelf, pidInitNs,
                mountInitNs, netIfaceUp, ConfigureVs, utsInitNs, At, NsSteps
  <2>2. ns' \in NsType /\ NsFacts'
    BY <1>3, NsStep
  <2>3. x \in Step /\ x # "execv" /\ x \notin CredSteps /\ x \notin FdSteps
    BY DEF Step, NsSteps, CredSteps, FdSteps
  <2>4. ContainTypeOK' /\ conf' = conf /\ outcome' = "running" /\ Past' = Past \cup {x}
    BY <1>0, <2>1, <2>2, <2>3, Typed
  <2>5. CredFacts' /\ FdFacts'
    BY <2>1, <2>3, <2>4, Frames
  <2> QED BY <2>2, <2>4, <2>5
<1>4. CASE containSetupFD \/ containMakeFdsCOE
  <2>1. PICK x \in FdSteps : /\ outcome = "running" /\ subprocNewProc[pc] = x /\ Done
                             /\ cred' = cred /\ ns' = ns
    BY <1>4 DEF containSetupFD, containMakeFdsCOE, At, FdSteps
  <2>2. fds' \in FdType /\ FdFacts'
    BY <1>4, FdStep
  <2>3. x \in Step /\ x # "execv" /\ x \notin CredSteps /\ x \notin NsSteps
    BY DEF Step, NsSteps, CredSteps, FdSteps
  <2>4. ContainTypeOK' /\ conf' = conf /\ outcome' = "running" /\ Past' = Past \cup {x}
    BY <1>0, <2>1, <2>2, <2>3, Typed
  <2>5. CredFacts' /\ NsFacts'
    BY <2>1, <2>3, <2>4, Frames
  <2> QED BY <2>2, <2>4, <2>5
<1>5. CASE Prepare
  <2>1. PICK x \in {"cgroupInitNs", "readDone"} :
           /\ outcome = "running" /\ subprocNewProc[pc] = x /\ Done
           /\ cred' = cred /\ ns' = ns /\ fds' = fds
    BY <1>5 DEF Prepare, At
  <2>2. x \in Step /\ x # "execv" /\ x \notin CredSteps /\ x \notin NsSteps /\ x \notin FdSteps
    BY DEF Step, NsSteps, CredSteps, FdSteps
  <2>3. ContainTypeOK' /\ conf' = conf /\ outcome' = "running" /\ Past' = Past \cup {x}
    BY <1>0, <2>1, <2>2, Typed
  <2>4. CredFacts' /\ NsFacts' /\ FdFacts'
    BY <2>1, <2>2, <2>3, Frames
  <2> QED BY <2>3, <2>4
<1> QED BY <1>1, <1>2, <1>3, <1>4, <1>5 DEF Next

\* At execv() all steps are behind the process, and what they achieved adds up
\* to what the command is promised.
LEMMA CommandStarts ==
    ASSUME ContainTypeOK, CredFacts, NsFacts, FdFacts, execv
    PROVE  ContainTypeOK' /\ outcome' = "command" /\ Promises'
<1>0. cred \in CredType /\ ns \in NsType /\ fds \in FdType /\ conf \in Configs
  BY DEF ContainTypeOK, CredType, NsType, FdType
<1>1. /\ subprocNewProc[pc] = "execv" /\ "execv" \in Step
      /\ conf' = conf /\ pc' = pc /\ ns' = ns /\ outcome' = "command"
      /\ cred' = [cred EXCEPT !.caps = CapsAfterExec]
      /\ fds' = [fds EXCEPT !.open = @ \ fds.cloexec, !.cloexec = {}]
  BY DEF execv, At, Step
<1>2. subprocNewProc' = subprocNewProc
  BY <1>1 DEF subprocNewProc, containContain, containDropPrivs, userInitNsFromParent,
              netInitNsFromChild, netConfigureVs
<1>3. Elems(subprocNewProc) \ {"execv"} \subseteq Past
  BY <1>1, Positions
<1>4. /\ {"setupFD", "pidInitNs", "mountInitNs", "utsInitNs", "setgroups", "setresgid",
          "setresuid", "bset", "setLimits", "prepareEnv", "makeFdsCOE",
          "sandboxApply"} \subseteq Past
      /\ conf.clone_newnet /\ ~conf.net.iface_no_lo => "loUp" \in Past
  BY <1>3, Program, ContainPart, Parts, NetPart
<1>5. conf.clone_newnet /\ conf.net.iface /\ conf.net.iface_vs_ip # "any" =>
         /\ "vsAddr" \in Past /\ "vsNetmask" \in Past /\ "vsUp" \in Past
         /\ conf.net.iface_vs_gw # "any" => "vsGateway" \in Past
  BY <1>3, Program, ContainPart, NetPart
<1>6. "loUp" \in Past => conf.clone_newnet /\ ~conf.net.iface_no_lo
  BY Program, LenProperties DEF Past, Elems, ContainTypeOK
<1>7. cred' \in CredType /\ fds' \in FdType
  BY <1>0, <1>1, Zenon DEF CredType, FdType, CapsAfterExec, IsRoot
<1>8. ContainTypeOK'
  BY <1>0, <1>1, <1>2, <1>7 DEF ContainTypeOK, CredType, NsType, FdType
<1>9. CommandFullyConfined'
  BY <1>0, <1>1, <1>4, <1>5, <1>6 DEF CommandFullyConfined, CredFacts, NsFacts, FdFacts, CredType,
     NsType, FdType, TargetUid, TargetGid
<1>10. CommandDiesWithParent'
  BY <1>0, <1>1, <1>4 DEF CommandDiesWithParent, CredFacts, CredType
<1>11. CommandHasNoPrivileges'
  BY <1>0, <1>1, <1>4 DEF
     CommandHasNoPrivileges, CredFacts, CredType, CapsAfterExec, IsRoot, RootWrites
<1>12. CommandCanFork'
  BY <1>1, <1>4 DEF CommandCanFork, NsFacts
<1>13. OnlyPassedFds'
  BY <1>0, <1>1, <1>4 DEF OnlyPassedFds, FdFacts, FdType, Beyond
<1> QED BY <1>1, <1>8, <1>9, <1>10, <1>11, <1>12, <1>13 DEF Promises
\* The invariant is inductive.
LEMMA ContainStep == ContainInv /\ [Next]_vars => ContainInv'
<1> SUFFICES ASSUME ContainInv, [Next]_vars PROVE ContainInv'
  OBVIOUS
<1>1. CASE UNCHANGED vars
  <2>1. ContainTypeOK'
    BY <1>1 DEF vars, ContainInv, ContainTypeOK, subprocNewProc, containContain, containDropPrivs,
                userInitNsFromParent, netInitNsFromChild, netConfigureVs
  <2>2. Past' = Past /\ conf' = conf
    BY <1>1 DEF vars, Past, subprocNewProc, containContain, containDropPrivs,
                userInitNsFromParent, netInitNsFromChild, netConfigureVs
  <2>3. (outcome = "running" => CredFacts /\ NsFacts /\ FdFacts)'
    BY <1>1, <2>2 DEF ContainInv, vars, CredFacts, NsFacts, FdFacts, Unprivileged, IsRoot,
                      RootWrites, TargetUid, TargetGid
  <2>4. Promises'
    BY <1>1, <2>2 DEF ContainInv, vars, Promises, CommandFullyConfined, CommandDiesWithParent,
         CommandHasNoPrivileges, CommandCanFork, OnlyPassedFds, Command,
         RootWrites, TargetUid, TargetGid
  <2> QED BY <2>1, <2>3, <2>4 DEF ContainInv
<1>2. CASE Next
  <2>1. outcome = "running"
    BY <1>2 DEF Next, unshare, containSetupFD, netInitNsFromParent, userSetGroups, userGidMapSelf,
      userUidMapSelf, Prepare, pidInitNs, mountInitNs, netIfaceUp, ConfigureVs, utsInitNs,
      SetGroups, SetResGid, SetResUid, NoNewPrivs, DropBoundingSet, Capset, containSetLimits,
      containPrepareEnv, containMakeFdsCOE, sandboxApply, execv, StepFails, At
  <2>2. ContainTypeOK /\ CredFacts /\ NsFacts /\ FdFacts
    BY <2>1 DEF ContainInv
  <2>3. CASE execv
    BY <2>2, <2>3, CommandStarts DEF ContainInv
  <2>4. CASE StepFails
    <3>1. outcome' = "exit" /\ UNCHANGED <<conf, pc, cred, ns, fds>>
      BY <2>4 DEF StepFails
    <3>2. ContainTypeOK'
      BY <2>2, <3>1 DEF ContainTypeOK, subprocNewProc, containContain, containDropPrivs,
                userInitNsFromParent, netInitNsFromChild, netConfigureVs
    <3>3. Promises'
      BY <3>1 DEF Promises, CommandFullyConfined, CommandDiesWithParent, CommandHasNoPrivileges, CommandCanFork, OnlyPassedFds, Command
    <3> QED BY <3>1, <3>2, <3>3 DEF ContainInv
  <2>5. CASE ~execv /\ ~StepFails
    <3>1. ContainTypeOK' /\ outcome' = "running" /\ CredFacts' /\ NsFacts' /\ FdFacts'
      BY <1>2, <2>2, <2>5, GoesOn
    <3>2. Promises'
      BY <3>1 DEF Promises, CommandFullyConfined, CommandDiesWithParent, CommandHasNoPrivileges, CommandCanFork, OnlyPassedFds, Command
    <3> QED BY <3>1, <3>2 DEF ContainInv
  <2> QED BY <2>3, <2>4, <2>5
<1> QED BY <1>1, <1>2

\* The invariant holds all the way from clone() to the command.
LEMMA ContainInvariant == Spec => []ContainInv
BY ContainInit, ContainStep, PTL DEF Spec

\* With the facts about the steps behind it, the kernel permits the next one.
LEMMA NothingForbidden == ContainInv => NoStepForbidden
<1> SUFFICES ASSUME ContainInv, outcome = "running",
                    conf.clone_newuser =>
                       conf.outside_uid = conf.euid /\ conf.outside_gid = conf.egid,
                    conf.net.iface => /\ conf.mode # "EXECVE" /\ conf.euid = 0
                                      /\ "bad" \notin {conf.net.iface_vs_ip, conf.net.iface_vs_nm,
                                                       conf.net.iface_vs_gw}
             PROVE  Permitted(subprocNewProc[pc])
  BY DEF NoStepForbidden
<1> DEFINE x == subprocNewProc[pc]
<1>1. ContainTypeOK /\ CredFacts /\ NsFacts
  BY DEF ContainInv
<1>2. x \in Step /\ x \in Elems(subprocNewProc)
  BY <1>1, Program, ElementOfSeq DEF InOrder, Elems, ContainTypeOK
<1>3. x \in {"mountInitNs", "loUp", "vsAddr", "vsNetmask", "vsUp", "vsGateway", "utsInitNs",
             "setgroups", "setresgid", "setresuid"} => cred.caps
  BY <1>1, <1>2, Positions DEF CredFacts, Unprivileged
<1>4. x \in {"vsAddr", "vsNetmask", "vsUp", "vsGateway"} =>
         /\ conf.net.iface /\ "there" \in ns.vs
         /\ x = "vsNetmask" => "addr" \in ns.vs
         /\ x = "vsGateway" => "up" \in ns.vs
  BY <1>1, <1>2, Positions, Program DEF NsFacts
<1>5. x = "userSetGroups" => ~ns.gid_map
  BY <1>1, <1>2, Positions DEF NsFacts
<1>6. x = "gidMap" => RootWrites \/ (conf.outside_gid = conf.egid /\ ns.deny)
  BY <1>1, <1>2, Positions, Program DEF NsFacts
<1>7. x \in {"setresgid", "setresuid"} /\ conf.clone_newuser => ns.gid_map /\ ns.uid_map
  BY <1>1, <1>2, Positions DEF NsFacts
<1>u. x \in {"userSetGroups", "gidMap", "uidMap"} => conf.clone_newuser
  BY <1>2, Program
<1> HIDE DEF x
<1>8. Permitted(x)
  BY <1>u, <1>3, <1>4, <1>5, <1>6, <1>7 DEF Permitted
<1> QED BY <1>8 DEF x
-----------------------------------------------------------------------------
(* What a step may never do.                                                 *)

\* No step gives back what another one has taken.  Three of them have to be
\* looked at: setresgid() and setresuid() would clear the parent death signal,
\* which is not set yet, and execv() would give root its bounding set, which
\* then is empty unless the capabilities were kept all along.
LEMMA StepKeeps == ContainInv /\ Next => Keeps
<1> SUFFICES ASSUME ContainInv, Next PROVE Keeps
  OBVIOUS
<1>0. outcome = "running"
  BY DEF Next, unshare, containSetupFD, netInitNsFromParent, userSetGroups, userGidMapSelf,
    userUidMapSelf, Prepare, pidInitNs, mountInitNs, netIfaceUp, ConfigureVs, utsInitNs,
    SetGroups, SetResGid, SetResUid, NoNewPrivs, DropBoundingSet, Capset, containSetLimits,
    containPrepareEnv, containMakeFdsCOE, sandboxApply, execv, StepFails, At
<1>1. ContainTypeOK /\ CredFacts /\ NsFacts /\ cred \in CredType /\ ns \in NsType
  BY <1>0 DEF ContainInv, ContainTypeOK, CredType, NsType
<1>2. CASE \/ containSetupFD \/ Prepare \/ containMakeFdsCOE \/ StepFails
  <2>1. cred' = cred /\ ns' = ns
    BY <1>2 DEF containSetupFD, Prepare, containMakeFdsCOE, StepFails
  <2> QED BY <2>1 DEF Keeps
<1>3. CASE \/ netInitNsFromParent \/ userSetGroups \/ userGidMapSelf \/ userUidMapSelf
           \/ pidInitNs \/ netIfaceUp \/ ConfigureVs \/ utsInitNs
  <2>1. cred' = cred /\ ns'.root = ns.root
    BY <1>1, <1>3 DEF netInitNsFromParent, userSetGroups, userGidMapSelf, userUidMapSelf, pidInitNs,
                      netIfaceUp, ConfigureVs, utsInitNs, NsType
  <2> QED BY <2>1 DEF Keeps
<1>4. CASE mountInitNs
  <2>1. cred' = cred /\ subprocNewProc[pc] = "mountInitNs" /\ "mountInitNs" \in Step
    BY <1>4 DEF mountInitNs, At, Step
  <2>2. "mountInitNs" \notin Past
    BY <1>1, <2>1, NotYet
  <2>3. ns.root = "host"
    BY <1>1, <2>2 DEF NsFacts
  <2> QED BY <2>1, <2>3 DEF Keeps
<1>5. CASE unshare
  <2>1. /\ ns'.root = ns.root /\ At("unshare")
        /\ \A f \in {"bset", "groups", "nnp", "limits", "seccomp", "pdeath", "uid", "gid"} :
              cred'[f] = cred[f]
    BY <1>1, <1>5 DEF unshare, CredType, NsType
  <2> QED BY <2>1 DEF Keeps
<1>6. CASE SetGroups \/ NoNewPrivs \/ DropBoundingSet \/ Capset \/ containSetLimits
           \/ containPrepareEnv
  <2>1. CASE SetGroups
    BY <1>1, <2>1 DEF SetGroups, CredType, Keeps
  <2>2. CASE NoNewPrivs
    BY <1>1, <2>2 DEF NoNewPrivs, CredType, Keeps
  <2>3. CASE DropBoundingSet
    BY <1>1, <2>3 DEF DropBoundingSet, CredType, Keeps
  <2>4. CASE Capset
    BY <1>1, <2>4 DEF Capset, CredType, Keeps
  <2>5. CASE containSetLimits
    BY <1>1, <2>5 DEF containSetLimits, CredType, Keeps
  <2>6. CASE containPrepareEnv
    BY <1>1, <2>6 DEF containPrepareEnv, CredType, Keeps
  <2> QED BY <1>6, <2>1, <2>2, <2>3, <2>4, <2>5, <2>6
<1>7. CASE SetResGid
  <2>1. subprocNewProc[pc] = "setresgid" /\ "setresgid" \in Step
    BY <1>7 DEF SetResGid, At, Step
  <2>2. ~cred.pdeath /\ cred.gid = conf.egid
    BY <1>1, <2>1, Positions, NotYet DEF CredFacts
  <2>3. ns' = ns /\ \A f \in {"caps", "bset", "groups", "nnp", "limits", "seccomp", "uid"} :
                       cred'[f] = cred[f]
    BY <1>1, <1>7 DEF SetResGid, CredType
  <2> QED BY <2>2, <2>3 DEF Keeps
<1>8. CASE SetResUid
  <2>1. subprocNewProc[pc] = "setresuid" /\ "setresuid" \in Step
    BY <1>8 DEF SetResUid, At, Step
  <2>2. ~cred.pdeath /\ cred.uid = conf.euid
    BY <1>1, <2>1, Positions, NotYet DEF CredFacts
  <2>3. ns' = ns /\ \A f \in {"bset", "groups", "nnp", "limits", "seccomp", "gid"} :
                       cred'[f] = cred[f]
    BY <1>1, <1>8 DEF SetResUid, CredType
  <2>4. cred'.caps => cred.caps
    BY <1>1, <1>8 DEF SetResUid, CredType
  <2> QED BY <2>2, <2>3, <2>4 DEF Keeps
<1>9. CASE sandboxApply
  <2>1. /\ ns' = ns /\ (cred.seccomp => cred'.seccomp)
        /\ \A f \in {"caps", "bset", "groups", "limits", "pdeath", "uid", "gid"} : cred'[f] = cred[f]
    BY <1>1, <1>9 DEF sandboxApply, CredType, CredFacts
  <2>2. cred.nnp => cred'.nnp
    BY <1>1, <1>9 DEF sandboxApply, CredType
  <2> QED BY <2>1, <2>2 DEF Keeps
<1>10. CASE execv
  <2>1. subprocNewProc[pc] = "execv" /\ "execv" \in Step
    BY <1>10 DEF execv, At, Step
  <2>2. "setresuid" \in Past /\ "bset" \in Past
    BY <1>1, <2>1, Positions, Program, ContainPart, Parts
  <2>3. CapsAfterExec => cred.caps
    BY <1>1, <2>2 DEF CredFacts, CapsAfterExec
  <2>4. /\ ns' = ns /\ cred'.caps = CapsAfterExec
        /\ \A f \in {"bset", "groups", "nnp", "limits", "seccomp", "pdeath", "uid", "gid"} :
              cred'[f] = cred[f]
    BY <1>1, <1>10 DEF execv, CredType
  <2> QED BY <2>3, <2>4 DEF Keeps
<1> QED BY <1>2, <1>3, <1>4, <1>5, <1>6, <1>7, <1>8, <1>9, <1>10 DEF Next

-----------------------------------------------------------------------------
(* The theorems.                                                             *)

\* Type correctness: the process never runs off the end of subprocNewProc, and
\* its credentials, namespaces and descriptors keep their types.
THEOREM ContainTypeCorrect == Spec => []ContainTypeOK
<1>1. ContainInv => ContainTypeOK
  BY DEF ContainInv
<1> QED BY <1>1, ContainInvariant, PTL

\* No command runs unless every step of subprocNewProc that may not fail has
\* succeeded, and nothing a step did was undone by a later one.
THEOREM FullyConfined == Spec => []CommandFullyConfined
<1>1. ContainInv => CommandFullyConfined
  BY DEF ContainInv, Promises
<1> QED BY <1>1, ContainInvariant, PTL

\* The parent death signal set by containPrepareEnv is still set when the
\* command starts: both changes of credentials are behind it.
THEOREM DiesWithParent == Spec => []CommandDiesWithParent
<1>1. ContainInv => CommandDiesWithParent
  BY DEF ContainInv, Promises
<1> QED BY <1>1, ContainInvariant, PTL

\* Without keep_caps the command has no capabilities, whatever it is to the
\* kernel: either the bounding set could be emptied, or the process is not root
\* in its user namespace and execv() gives it nothing.  A jail that root set up
\* has no supplementary groups: when containDropPrivs calls setgroups() the
\* groups are mapped and the capabilities still there.
THEOREM NoPrivileges == Spec => []CommandHasNoPrivileges
<1>1. ContainInv => CommandHasNoPrivileges
  BY DEF ContainInv, Promises
<1> QED BY <1>1, ContainInvariant, PTL

\* The pid namespace of the command has a living init: pidInitNs comes between
\* unshare() and the helper of mountInitNs.
THEOREM CanFork == Spec => []CommandCanFork
<1>1. ContainInv => CommandCanFork
  BY DEF ContainInv, Promises
<1> QED BY <1>1, ContainInvariant, PTL

\* The command gets exactly the descriptors of open_fds; when /proc/self/fd is
\* missing or unreadable this is so for all that containMakeFdsCOENaive reaches.
THEOREM PassedFds == Spec => []OnlyPassedFds
<1>1. ContainInv => OnlyPassedFds
  BY DEF ContainInv, Promises
<1> QED BY <1>1, ContainInvariant, PTL

\* No step of subprocNewProc takes away what a later one needs of the kernel.
THEOREM NeverForbidden == Spec => []NoStepForbidden
<1>1. ContainInv => NoStepForbidden
  BY NothingForbidden
<1> QED BY <1>1, ContainInvariant, PTL

\* What was given up stays given up, from each step to the next: above all,
\* execv() does not undo containDropPrivs, and no change of credentials undoes
\* containPrepareEnv.
THEOREM NeverRegained == Spec => NothingRegained
<1>1. ContainInv /\ [Next]_vars => [Keeps]_vars
  BY StepKeeps
<1> QED BY <1>1, ContainInvariant, PTL DEF Spec, NothingRegained
=============================================================================
