-------------------------- MODULE LogicalSession --------------------------
(***************************************************************************)
(* What a Telnet session through a jump host promises to those who use it, *)
(* although it is a tunnel and a telnet process in two tmux sessions: it   *)
(* is handed over only after its connection was seen to run through its    *)
(* own tunnel, a connection that goes elsewhere is never handed over, and  *)
(* what has ended is not revived: it is removed and built anew.            *)
(***************************************************************************)
CONSTANT Device

VARIABLES
  stage,   (* what there is of each device's session                        *)
  handed   (* the devices whose session was reported as open                *)

Stages == {"closed", "tunnel", "joining", "live", "stray", "ended"}

Init == /\ stage \in [Device -> Stages]
        /\ handed \subseteq {d \in Device : stage[d] \in {"live", "ended"}}

Moves(d, from, to) ==
  /\ stage[d] \in from
  /\ \E s \in to : stage' = [stage EXCEPT ![d] = s]

(* A listing can end the tunnel before the telnet process is started.      *)
Build(d) == /\ \/ Moves(d, {"closed"}, {"tunnel"})
               \/ Moves(d, {"tunnel", "closed"}, {"joining"})
               \/ Moves(d, {"joining"}, {"live", "stray"})
            /\ UNCHANGED handed

End(d) == Moves(d, {"joining", "live", "stray"}, {"ended"}) /\ UNCHANGED handed

(* The telnet process goes first, the tunnel after it.                     *)
Remove(d) == /\ \/ Moves(d, Stages \ {"closed", "tunnel"}, {"tunnel", "closed"})
                \/ Moves(d, {"tunnel"}, {"closed"})
             /\ handed' = handed \ {d}

(* A session that was live may end while its opening is being reported.    *)
Hand(d) == /\ stage[d] \in {"live", "ended"}
           /\ handed' = handed \cup {d}
           /\ UNCHANGED stage

Next == \E d \in Device : Build(d) \/ End(d) \/ Remove(d) \/ Hand(d)

Spec == Init /\ [][Next]_<<stage, handed>>
=============================================================================
