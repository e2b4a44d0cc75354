---------------------------- MODULE JailLifecycle ----------------------------
(***************************************************************************)
(* What the supervisor promises about its jails, without saying how: a     *)
(* jail is created held, is admitted only by a living supervisor that has  *)
(* prepared it, is confined only once admitted, and its pid is not free    *)
(* before it was collected.                                                *)
(***************************************************************************)
CONSTANT Pid

VARIABLES
  phase,   \* phase[p]: where the jail with pid p is in its life
  ready,   \* the pids whose surroundings are completely prepared
  up       \* the supervisor runs

vars == <<phase, ready, up>>

Phases == {"none", "held", "admitted", "confined", "over"}

Init ==
  /\ phase = [p \in Pid |-> "none"]
  /\ ready = {}
  /\ up = TRUE

Step(p, from, to) == phase[p] \in from /\ phase' = [phase EXCEPT ![p] = to]

\* A jail that needs no preparation is ready from the start.
Create(p)  == up /\ Step(p, {"none"}, "held") /\ ready' \in {ready, ready \cup {p}} /\ UNCHANGED up
Prepare(p) == up /\ phase[p] \in {"held", "over"} /\ ready' = ready \cup {p} /\ UNCHANGED <<phase, up>>
Admit(p)   == up /\ p \in ready /\ Step(p, {"held"}, "admitted") /\ UNCHANGED <<ready, up>>
Confine(p) == Step(p, {"admitted"}, "confined") /\ UNCHANGED <<ready, up>>
Finish(p)  == Step(p, {"held", "admitted", "confined"}, "over") /\ UNCHANGED <<ready, up>>
Collect(p) == Step(p, {"over"}, "none") /\ ready' = ready \ {p} /\ UNCHANGED up
Down       == up /\ up' = FALSE /\ UNCHANGED <<phase, ready>>

Next ==
  \/ Down
  \/ \E p \in Pid : \/ Create(p) \/ Prepare(p) \/ Admit(p) \/ Confine(p)
                    \/ Finish(p) \/ Collect(p)

Spec == Init /\ [][Next]_vars

====
