--------------------------- MODULE MCDiscoveryRun ---------------------------
(* Instances of DiscoveryRun for TLC: d1 and d2 are cabled by their first  *)
(* interfaces, d2 and d3 by the second of d2 and the first of d3; d4 is of *)
(* a type that is not collected.                                           *)
EXTENDS DiscoveryRun, TLC

CONSTANTS d1, d2, d3, d4

Types == d1 :> "iosxr" @@ d2 :> "iosxe" @@ d3 :> "ios" @@ d4 :> "nxos"
Listed == <<d3, d1, d4, d2>>

Names == {"r1", "R1", "r1.lab", "r2", "R2.lab", "r3", "other", "strange"}
InLowerCase == [n \in Names |-> CASE n = "R1" -> "r1" [] OTHER -> n]
BeforeDot == [n \in Names |-> CASE n \in {"R1", "r1.lab"} -> "r1" [] n = "R2.lab" -> "r2" [] OTHER -> n]

Interfaces == {"Gi0/1", "Gi 0/1", "GigabitEthernet0/1", "Gi0/2", "strange"}
TwoWords == {"Gi 0/1"}
FullName == [i \in Interfaces |-> IF i \in {"Gi0/1", "Gi 0/1"} THEN "GigabitEthernet0/1" ELSE i]

Says(device, local, port) == [device |-> device, local |-> local, port |-> port]
Answer(hostname, lldp, cdp, says) ==
  [hostname |-> hostname, lldp |-> lldp, cdp |-> cdp, lnt |-> TRUE, says |-> says]

Empty == <<Line("header"), Line("blank")>>
Total(n) == [Line("total") EXCEPT !.total = n]
Disabled == <<Line("note"), Line("disabled"), Line("prompt")>>
OnlyDisabledText == <<Line("disabled"), Line("prompt")>>
Note == Line("note")
Word1(id) == Row("id", id, None, None)
Wrapped(id, local, port) == <<Word1(id), Row("fields", None, local, port)>>

(* d1: both tables agree under two spellings; CDP is off or not known to   *)
(* the image; a message of the other protocol before a table; a            *)
(* contradiction; a row that cannot be split; both protocols are off.      *)
FromD1 ==
  <<Answer("r1", <<Line("header"), Row("row", "r2", "GigabitEthernet0/1", "Gi0/1"), Total(1)>>,
          <<Line("header")>> \o Wrapped("R2.lab", "Gi0/1", "Gi0/1") \o <<Line("prompt")>>,
          {Says(d2, "Gi0/1", "Gi0/1")}),
   Answer("r1", OnlyDisabledText, <<Note, Line("header"), Note>> \o
            SubSeq(Wrapped("R2.lab", "Gi0/1", "Gi0/1"), 1, 1) \o <<Note>> \o
            SubSeq(Wrapped("R2.lab", "Gi0/1", "Gi0/1"), 2, 2), {Says(d2, "Gi0/1", "Gi0/1")}),
   Answer("r1", <<Line("header"), Row("row", "r2", "Gi0/1", "Gi0/1"), Total(1)>>,
          <<Line("header"), Row("row", "r3", "Gi0/1", "Gi0/1"), Line("blank")>>,
          {Says(d2, "Gi0/1", "Gi0/1"), Says(d3, "Gi0/1", "Gi0/1")}),
   Answer("r1", <<Line("header"), Row("row", "r2", "Gi0/1", "Gi0/1"), Row("short", "r3", "Gi0/2", "Gi0/2"), Total(2)>>,
          <<Line("invalid"), Line("prompt")>>, {Says(d2, "Gi0/1", "Gi0/1"), Says(d3, "Gi0/2", "Gi0/2")}),
   Answer("r1", <<Line("like")>> \o Empty, Empty, {}),
   Answer("r1", OnlyDisabledText, <<Line("invalid"), Line("prompt")>>, {}),
   Answer("r2", Empty, OnlyDisabledText, {})>>

(* d2: it names d1 in one of three ways; it faces something else; nothing. *)
FromD2 ==
  <<Answer("r2", <<Line("header"), Row("row", "R1", "Gi0/1", "Gi0/1"), Total(1), Line("prompt")>>,
           <<Line("header"), Row("row", "r3", "Gi0/2", "Gi0/1"), Line("blank")>>,
           {Says(d1, "Gi0/1", "Gi0/1"), Says(d3, "Gi0/2", "Gi0/1")}),
    Answer("r2", Disabled, <<Line("header")>> \o Wrapped("r1.lab", "Gi 0/1", "Gi 0/1") \o <<Line("blank")>>,
           {Says(d1, "Gi0/1", "Gi0/1")}),
    Answer("r2", <<Line("header"), Row("row", "other", "Gi0/1", "Gi0/1"), Total(1)>>, Empty,
           {Says(None, "Gi0/1", "Gi0/1")}),
    Answer("r2", Empty, <<Line("header"), Row("row", "r3", "Gi0/1", "Gi0/1")>>, {Says(d3, "Gi0/1", "Gi0/1")})>>

(* d3 has no LLDP: it reports d2, below half a row of a lost neighbor and a *)
(* name that the next one replaces; what cannot be read, since the name is *)
(* used up by a line without a Port ID; or nothing.                        *)
FromD3 ==
  <<Answer("r3", <<>>, <<Line("header"), Row("fields", None, "Gi 0/1", "Gi0/2"), Word1("other")>> \o
            Wrapped("r2", "Gi0/1", "Gi0/2") \o <<Line("blank")>>, {Says(d2, "Gi0/1", "Gi0/2")}),
   Answer("r3", <<>>, <<Line("header"), Note, Word1("r2"), Row("short", None, "Gi0/1", None),
            Row("fields", None, "Gi0/1", "Gi0/2"), Line("blank")>>, {}),
   Answer("r3", <<>>, Empty, {})>>

AllOutputs == d1 :> FromD1 @@ d2 :> FromD2 @@ d3 :> FromD3 @@ d4 :> <<>>
=============================================================================
