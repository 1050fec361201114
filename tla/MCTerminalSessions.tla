------------------------- MODULE MCTerminalSessions -------------------------
(***************************************************************************)
(* Instances of TerminalSessions: two devices served by two threads, from  *)
(* no server, from a server an earlier process left with a session of      *)
(* device R1, and from one whose session an older version created.         *)
(***************************************************************************)
EXTENDS TerminalSessions, TLC

CONSTANTS R1, R10, D1

NoDiscovery == {}
DiscoveryOfD1 == {D1}

NoneLonger == [n \in Name |-> {}]
R10Longer == [n \in Name |-> IF n = R1 THEN {R10} ELSE {}]

Empty == [n \in Name \cup {Bootstrap} |-> None]

ReadyPane(recorded) ==
  [ id |-> 0, recorded |-> recorded, logged |-> TRUE, history |-> TRUE,
    gate |-> IF recorded THEN "open" ELSE "pending", started |-> TRUE,
    dead |-> FALSE, screen |-> "prompt" ]

Servers == {Empty} \cup {[Empty EXCEPT ![R1] = ReadyPane(recorded)] : recorded \in BOOLEAN}

R10Server == {[Empty EXCEPT ![R10] = ReadyPane(TRUE)]}
=============================================================================
