-------------------------- MODULE MCTelnetTunnel --------------------------
(* Instances of TelnetTunnel for TLC.                                      *)
EXTENDS TelnetTunnel

CONSTANTS r1, x1, p1, p2, t1, t2

NoSession == [d \in Device |-> None]

(* Nothing, or a session of an earlier server process, running or ended.   *)
SessionsBefore ==
  {[device |-> NoSession, tunnel |-> NoSession]} \cup
  {[device |-> [NoSession EXCEPT ![r1] =
      [alive |-> a, marked |-> TRUE, port |-> p1, peer |-> "own", screen |-> "prompt"]],
    tunnel |-> [NoSession EXCEPT ![r1] =
      [alive |-> TRUE, port |-> p1, stage |-> "listening"]]] : a \in BOOLEAN}

(* Bound: a behaviour is about one device; the tunnels of others are among *)
(* the processes that take ports.                                          *)
OneDeviceAtATime ==
  Cardinality({d \in Device : device[d] # None \/ tunnel[d] # None
                                \/ \E w \in Worker : worker[w].dev = d}) <= 1

=============================================================================
