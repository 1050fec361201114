---------------------------- MODULE NeighborLinks ----------------------------
(***************************************************************************)
(* From the neighbor tables of the devices to the links of a topology      *)
(* (discovery.py): the LLDP and CDP tables are read line by line, each     *)
(* neighbor is resolved to a managed device or to none, and what the       *)
(* devices say is reconciled into links, or Discovery fails.               *)
(*                                                                         *)
(* A line of output is a record of what the parsers tell apart about it.   *)
(***************************************************************************)
EXTENDS Naturals, Sequences, FiniteSets, SequencesExt

CONSTANTS
  Device,     (* managed devices                                             *)
  Name,       (* what a neighbor or a prompt calls a device                  *)
  Interface,  (* spellings of interface names                                *)
  Spaced,     (* those of two words, neither a number: Gig 1/0/16            *)
  Canonical,  (* _canonicalize_interface_name()                              *)
  Lower,      (* str.lower()                                                 *)
  Short,      (* the part of a name before its first dot, in lower case      *)
  Strange,    (* a name or interface put together from the wrong tokens      *)
  None

ASSUME LinksAssumption ==
  /\ Canonical \in [Interface -> Interface]
  /\ \A i \in Interface : Canonical[Canonical[i]] = Canonical[i]
  /\ Lower \in [Name -> Name] /\ Short \in [Name -> Name]
  /\ Spaced \subseteq Interface
  /\ Strange \in Name \cap Interface /\ None \notin Device \cup Name \cup Interface

Failed == [ok |-> FALSE, rows |-> <<>>]
Read(rows) == [ok |-> TRUE, rows |-> rows]

(* "row": a neighbor on one line; "id" and "fields": a neighbor wrapped    *)
(* onto two lines, "id" any word alone on its line; "short": a row, or half *)
(* of one, with blank columns; "note": any other line of several words;    *)
(* "prompt": a prompt of IOS XR (that of IOS is a word); "disabled": the   *)
(* command's own message that its protocol is off, "like": one that        *)
(* resembles it, as the other protocol's.  The timestamp that IOS XR puts  *)
(* before the output, and the caret above "invalid", are left out.         *)
LineKind == {"header", "row", "id", "fields", "short", "note", "blank", "total", "prompt",
             "disabled", "like", "invalid"}

Lines ==
  {line \in [kind : LineKind, id : Name \cup {None}, local : Interface \cup {None},
             port : Interface \cup {None}, total : Nat] :
     /\ line.kind \in {"row", "fields"} => None \notin {line.local, line.port}
     /\ line.kind \in {"row", "id"} => line.id # None
     /\ line.kind = "fields" => line.id = None}

Line(kind) == [kind |-> kind, id |-> None, local |-> None, port |-> None, total |-> 0]
Row(kind, id, local, port) ==
  [Line(kind) EXCEPT !.id = id, !.local = local, !.port = port]

-----------------------------------------------------------------------------
(* The tables.                                                             *)

(* The members of a list at some of its places, in their order.            *)
Picked(list, places) ==
  LET upTo[n \in 0..Len(list)] ==
        IF n = 0 THEN <<>>
        ELSE IF n \in places THEN Append(upTo[n - 1], list[n]) ELSE upTo[n - 1]
  IN upTo[Len(list)]

FirstOf(text, kinds) == SelectInSeq(text, LAMBDA line : line.kind \in kinds)

HasHeader(text) == FirstOf(text, {"header"}) # 0

AfterHeader(text) == SubSeq(text, FirstOf(text, {"header"}) + 1, Len(text))

(* The lines of the table, up to the first line that ends it.              *)
Body(text, ends) ==
  LET rest == AfterHeader(text)
      end == FirstOf(rest, ends)
  IN IF end = 0 THEN rest ELSE SubSeq(rest, 1, end - 1)

Neighbor(line) == [id |-> line.id, local |-> line.local, port |-> line.port]

(* The number of entries that the table declares is the number of rows.    *)
TotalAgrees(text, rows) ==
  LET rest == AfterHeader(text)
      end == FirstOf(rest, {"blank", "total", "prompt"})
  IN end # 0 /\ rest[end].kind = "total" => rest[end].total = Len(rows)

(* A row is a line of five words.                                          *)
IsRow(line) == line.kind = "row" /\ {line.local, line.port} \cap Spaced = {}

ParseLldp(text) ==
  LET body == Body(text, {"blank", "total", "prompt"})
      rows == Picked(body, {i \in DOMAIN body : IsRow(body[i])})
  IN IF HasHeader(text) /\ TotalAgrees(text, rows)
     THEN Read([i \in 1..Len(rows) |-> Neighbor(rows[i])])
     ELSE Failed

(* A word alone on its line is taken for a Device ID.                      *)
AloneKinds == {"id", "prompt"}
Word(line) == IF line.kind = "id" THEN line.id ELSE Strange

(* Lines with a number of their own, which is taken for the hold time.     *)
HoldTime == {"row", "fields", "short", "total"}

(* The Device ID is the word that pends, or else the first of the line; the *)
(* interface is what is left before the hold time.                         *)
CdpRow(pending, line) ==
  [id |-> CASE pending # None -> pending
            [] pending = None /\ line.id # None -> line.id
            [] OTHER -> Strange,
   local |-> CASE pending # None /\ line.id # None -> Strange
               [] pending = None /\ line.id = None ->
                    IF line.local \in Spaced THEN Strange ELSE None
               [] OTHER -> line.local,
   port |-> line.port]

IsWhole(row) == None \notin {row.local, row.port}

(* A line with a hold time uses up the word that pends, also if it is      *)
(* skipped for its missing interface or Port ID.                           *)
CdpLine(table, line) ==
  LET row == CdpRow(table.pending, line)
  IN IF line.kind \in AloneKinds THEN [table EXCEPT !.pending = Word(line)]
     ELSE IF line.kind \notin HoldTime THEN table
     ELSE [pending |-> None,
           rows |-> IF IsWhole(row) THEN Append(table.rows, row) ELSE table.rows]

ParseCdp(text) ==
  LET body == Body(text, {"blank"})
      table[n \in 0..Len(body)] ==
        IF n = 0 THEN [pending |-> None, rows |-> <<>>] ELSE CdpLine(table[n - 1], body[n])
  IN table[Len(body)].rows

(* A table with lines of which none is a neighbor.                         *)
Unreadable(text) ==
  LET rest == AfterHeader(text)
  IN ParseCdp(text) = <<>> /\ rest # <<>> /\ Head(rest).kind \notin {"blank", "prompt"}

(* IOS XR says that the protocol is disabled, and nothing else.            *)
SaysDisabled(text, kinds) == \E i \in 1..Len(text) : text[i].kind \in kinds
OnlyDisabled(text) ==
  LET said == SelectSeq(text, LAMBDA l : l.kind \notin {"blank", "prompt"})
  IN Len(said) = 1 /\ said[1].kind = "disabled"

(* The state of LLDP on a device, and what its table says.                 *)
Lldp(type, text) ==
  CASE type = "ios" -> [state |-> "unavailable", read |-> Read(<<>>)]
    [] type = "iosxr" /\ SaysDisabled(text, {"disabled", "like"}) ->
         [state |-> "disabled", read |-> IF OnlyDisabled(text) THEN Read(<<>>) ELSE Failed]
    [] type = "iosxe" /\ SaysDisabled(text, {"disabled"}) ->
         [state |-> "disabled", read |-> Read(<<>>)]
    [] OTHER -> [state |-> "success", read |-> ParseLldp(text)]

(* IOS XR LNT images answer that they do not know the command.             *)
CdpUnsupported(type, lnt, text) ==
  LET said == SelectSeq(text, LAMBDA l : l.kind \notin {"blank", "prompt"})
  IN type = "iosxr" /\ lnt /\ Len(said) = 1 /\ said[1].kind = "invalid"

Cdp(type, lnt, text) ==
  CASE HasHeader(text) ->
         [state |-> "success", read |-> IF Unreadable(text) THEN Failed ELSE Read(ParseCdp(text))]
    [] ~HasHeader(text) /\ OnlyDisabled(text) -> [state |-> "disabled", read |-> Read(<<>>)]
    [] ~HasHeader(text) /\ CdpUnsupported(type, lnt, text) ->
         [state |-> "unsupported", read |-> Read(<<>>)]
    [] OTHER -> [state |-> "failed", read |-> Failed]

(* What a device reports: both tables are in order, and one protocol ran.  *)
Report(type, out) ==
  LET lldp == Lldp(type, out.lldp)
      cdp == Cdp(type, out.lnt, out.cdp)
  IN IF lldp.read.ok /\ cdp.read.ok /\ "success" \in {lldp.state, cdp.state}
     THEN Read(lldp.read.rows \o cdp.read.rows) ELSE Failed

-----------------------------------------------------------------------------
(* Identities and links.                                                   *)

(* resolve_remote_identity(): the first kind of match that any device has, *)
(* if one device alone has it.                                             *)
Resolve(raw, hostname) ==
  LET exact == {d \in DOMAIN hostname : hostname[d] = raw}
      folded == {d \in DOMAIN hostname : Lower[hostname[d]] = Lower[raw]}
      alias == {d \in DOMAIN hostname : Lower[hostname[d]] = Short[raw]}
      match == IF exact # {} THEN exact ELSE IF folded # {} THEN folded ELSE alias
  IN IF Cardinality(match) = 1 THEN CHOOSE d \in match : TRUE ELSE None

End(device, interface) == <<device, Canonical[interface]>>

(* An observation: an end of a managed device, and the end that it faces.  *)
Observation(device, row, hostname) ==
  [here |-> End(device, row.local), there |-> End(Resolve(row.id, hostname), row.port)]

Ends == Device \X Interface
Observations == [here : Ends, there : (Device \cup {None}) \X Interface]

IsManaged(observation) == observation.there[1] # None

(* The places of the observations that face a managed device.              *)
Managed(observations) == {i \in DOMAIN observations : IsManaged(observations[i])}

(* The observations of one end.                                            *)
At(observations, end) == {i \in Managed(observations) : observations[i].here = end}

Agrees(observations, end) ==
  \A i, j \in At(observations, end) : observations[i].there = observations[j].there

(* What the first observation of an end says.                              *)
Faced(observations, end) == observations[Min(At(observations, end))].there

\* Faulty: of several observations of an end the first one counts.
TakesTheFirst(observations, end) == TRUE

(* An end whose observations contradict each other is in conflict.         *)
IsSettled(observations, end) == Agrees(observations, end)

(* One end: a link if the other end says the same or nothing, a conflict   *)
(* otherwise.                                                              *)
Reconcile1(observations, sum, end) ==
  LET other == Faced(observations, end)
      speaks == At(observations, other) # {} /\ IsSettled(observations, other)
  IN IF ~IsSettled(observations, end)
     THEN [sum EXCEPT !.conflicts = @ \cup {{end}}, !.seen = @ \cup {end}]
     ELSE IF end \in sum.seen THEN sum
     ELSE IF ~speaks
     THEN [sum EXCEPT !.links = Append(@, <<end, other>>), !.seen = @ \cup {end}]
     ELSE IF Faced(observations, other) = end
     THEN [sum EXCEPT !.links = Append(@, <<end, other>>), !.seen = @ \cup {end, other}]
     ELSE [sum EXCEPT !.conflicts = @ \cup {{end, other}}, !.seen = @ \cup {end, other}]

(* The ends in the order of their first observations: an end that occurs   *)
(* again has been seen.                                                    *)
Reconcile ==
  [observations \in Seq(Observations) |->
     LET sum[n \in 0..Len(observations)] ==
           IF n = 0 THEN [links |-> <<>>, conflicts |-> {}, seen |-> {}]
           ELSE IF n \in Managed(observations)
           THEN Reconcile1(observations, sum[n - 1], observations[n].here)
           ELSE sum[n - 1]
     IN sum[Len(observations)]]

(* An interface occurs twice among the ends of the links.                  *)
Shared(links) ==
  \E i, j \in 1..Len(links) : \E a, b \in 1..2 :
    <<i, a>> # <<j, b>> /\ links[i][a] = links[j][b]

(* ... or has a link and an observation of an unmanaged neighbor.          *)
Ambiguous(found, observations) ==
  \/ found.conflicts # {} \/ Shared(found.links)
  \/ \E i \in DOMAIN observations \ Managed(observations) : \E j \in 1..Len(found.links) :
       observations[i].here \in {found.links[j][1], found.links[j][2]}

(* The links, or failure; the two ends of a link have no order.            *)
Links ==
  [observations \in Seq(Observations) |->
     LET found == Reconcile[observations]
     IN IF Ambiguous(found, observations) THEN [ok |-> FALSE, links |-> {}]
        ELSE [ok |-> TRUE,
              links |-> {{found.links[i][1], found.links[i][2]} : i \in 1..Len(found.links)}]]
=============================================================================
