---------------------------- MODULE MCSupervisor ----------------------------
(* Instances of Supervisor for TLC.                                        *)
EXTENDS SupervisorProperties, TLC

\* Two clients whose addresses share their first byte, as all IPv4 clients do.
SameByte == [a \in Addr |-> 0]

\* Two clients whose addresses differ in their first byte.
OwnByte == CHOOSE f \in [Addr -> Byte] : \A a, b \in Addr : a # b => f[a] # f[b]

PidSymmetry == Permutations(Pid)

====
