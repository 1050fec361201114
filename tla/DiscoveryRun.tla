----------------------------- MODULE DiscoveryRun -----------------------------
(***************************************************************************)
(* `discover topology` (discovery.py, discover_topology; main.py,          *)
(* _run_discover_topology): the targets of the selected access-info are    *)
(* collected by a pool of threads, each in a bootstrap session of its own  *)
(* on the tmux server; when all are done the sessions are closed, and the  *)
(* topology candidate is rebuilt from what all of them reported, or left   *)
(* alone.  A changed host key stops the run, and the whole run is repeated *)
(* after its replacement.                                                  *)
(*                                                                         *)
(* What the tables of the devices become is defined in NeighborLinks; the  *)
(* stages of a login and its secrets in ManagedAuth; the registration and  *)
(* the replacement of host keys in HostKeys.                               *)
(***************************************************************************)
EXTENDS NeighborLinks

CONSTANTS
  Type,        (* the types of the devices; others than these are left out   *)
  Order,       (* the devices as access-info lists them                      *)
  Outputs,     (* what each device can answer to the commands, numbered      *)
  MaxWorkers,  (* DISCOVERY_MAX_WORKERS                                      *)
  MaxRuns,     (* bound on the commands                                      *)
  MaxRekeys,   (* bound on the logins that meet a changed host key           *)
  MaxFaults    (* bound on interrupts and failures of tmux                   *)

Targets == {d \in Device : Type[d] \in {"iosxr", "iosxe", "ios"}}

(* Targets by type, in the order of access-info.                           *)
OfType(type) == Picked(Order, {i \in DOMAIN Order : Type[Order[i]] = type})
TargetOrder == OfType("iosxr") \o OfType("iosxe") \o OfType("ios")

ASSUME DiscoveryAssumption ==
  /\ Order \in Seq(Device) /\ Range(Order) = Device /\ Len(Order) = Cardinality(Device)
  /\ MaxWorkers \in Nat \ {0} /\ MaxRuns \in Nat /\ MaxRekeys \in Nat /\ MaxFaults \in Nat

(* A device can answer with any lines.                                     *)
ASSUME OutputsAssumption ==
  \A d \in Device : \A n \in DOMAIN Outputs[d] :
    Outputs[d][n].lldp \in Seq(Lines) /\ Outputs[d][n].cdp \in Seq(Lines)

MaxRecoveries == 3

VARIABLES
  main,       (* the command: step, sessions left to close, recoveries       *)
  future,     (* what the thread pool does for each target                   *)
  guarded,    (* _ACTIVE_HOSTKEYS is set                                     *)
  session,    (* bootstrap sessions on the tmux server                       *)
  candidate,  (* the links of the topology candidate                         *)
  attempt,    (* history: attempts so far                                    *)
  left,       (* history: sessions given up by an interrupt or a failed close *)
  runs, rekeys, faults

bounds == <<runs, rekeys, faults>>
vars == <<main, future, guarded, session, candidate, attempt, left, bounds>>

NoFuture == [at |-> "none", out |-> None, from |-> 0]
Idle == [at |-> "idle", todo |-> <<>>, recoveries |-> 0, interrupted |-> FALSE]

Results == {"collected", "changed", "failed"}
\* Faulty: a changed host key does not end the work on a device.
InFlightUntilTrusted(d) == future[d].at \notin {"collected", "failed", "none"}

InFlight(d) == future[d].at \notin Results \cup {"none"}

Running == {d \in Targets : future[d].at \in {"opening", "login", "commands"}}

-----------------------------------------------------------------------------
(* The command.                                                            *)

GoTo(step) == main' = [main EXCEPT !.at = step]

(* The command ends, with a new candidate or an error message.             *)
Stop == main' = Idle

Discover ==
  /\ main.at = "idle" /\ runs < MaxRuns
  /\ runs' = runs + 1
  /\ IF Targets = {} THEN Stop ELSE main' = [Idle EXCEPT !.at = "preparing"]
  /\ UNCHANGED <<future, guarded, session, candidate, attempt, left, rekeys, faults>>

\* Faulty: a repetition collects only what is missing.
SubmitMissing ==
  future' = [d \in Device |->
    IF d \in Targets /\ future[d].at # "collected"
    THEN [NoFuture EXCEPT !.at = "queued", !.from = attempt'] ELSE future[d]]

Submit ==
  future' = [d \in Device |->
    IF d \in Targets THEN [NoFuture EXCEPT !.at = "queued", !.from = attempt'] ELSE NoFuture]

(* prepare() registers the keys of unknown hosts, or fails; then all       *)
(* targets are submitted.                                                  *)
Prepare ==
  /\ main.at = "preparing"
  /\ \/ /\ guarded' = TRUE
        /\ attempt' = attempt + 1
        /\ Submit
        /\ GoTo("collecting")
     \/ Stop /\ UNCHANGED <<guarded, attempt, future>>
  /\ UNCHANGED <<session, candidate, left, bounds>>

(* The pool has shut down: every future is done.  Then finally: ...        *)
Collected ==
  /\ main.at = "collecting"
  /\ \A d \in Targets : ~InFlight(d)
  /\ main' = [main EXCEPT !.at = "closing", !.todo = TargetOrder]
  /\ guarded' = FALSE
  /\ UNCHANGED <<future, session, candidate, attempt, left, bounds>>

\* Faulty: only the sessions of the targets that were collected are closed.
CloseCollected ==
  /\ main.at = "closing" /\ main.todo # <<>>
  /\ session' = [session EXCEPT ![Head(main.todo)] =
                   IF future[Head(main.todo)].at = "collected" THEN "none" ELSE @]
  /\ main' = [main EXCEPT !.todo = Tail(@)]
  /\ UNCHANGED <<future, guarded, candidate, attempt, left, bounds>>

(* close_bootstrap_terminal(), for one target after the other.             *)
Close ==
  /\ main.at = "closing" /\ main.todo # <<>>
  /\ session' = [session EXCEPT ![Head(main.todo)] = "none"]
  /\ main' = [main EXCEPT !.todo = Tail(@)]
  /\ UNCHANGED <<future, guarded, candidate, attempt, left, bounds>>

(* It raises TerminalError: the other sessions are not closed either.      *)
CloseFails ==
  /\ main.at = "closing" /\ main.todo # <<>> /\ faults < MaxFaults
  /\ faults' = faults + 1
  /\ left' = left \cup Range(main.todo)
  /\ IF main.interrupted THEN GoTo("exiting") ELSE Stop
  /\ UNCHANGED <<future, guarded, session, candidate, attempt, runs, rekeys>>

Closed ==
  /\ main.at = "closing" /\ main.todo = <<>>
  /\ GoTo(IF main.interrupted THEN "exiting" ELSE "aggregating")
  /\ UNCHANGED <<future, guarded, session, candidate, attempt, left, bounds>>

(* What all targets can have answered together.                            *)
Answers ==
  {outs \in [Targets -> UNION {DOMAIN Outputs[d] : d \in Targets}] :
     \A d \in Targets : outs[d] \in DOMAIN Outputs[d]}

Hostnames(outs) == [d \in Targets |-> Outputs[d][outs[d]].hostname]
Reported == [d \in Targets |-> [n \in DOMAIN Outputs[d] |-> Report(Type[d], Outputs[d][n])]]
Reports(outs) == [d \in Targets |-> Reported[d][outs[d]]]

(* The observations of all devices, in target order.                       *)
ObservedBy(outs, d) ==
  LET rows == Reports(outs)[d].rows
  IN [j \in 1..Len(rows) |-> Observation(d, rows[j], Hostnames(outs))]

Observed(outs) ==
  LET upTo[n \in 0..Len(TargetOrder)] ==
        IF n = 0 THEN <<>> ELSE upTo[n - 1] \o ObservedBy(outs, TargetOrder[n])
  IN upTo[Len(TargetOrder)]

(* The links of the new candidate, or failure.                             *)
Rebuilt ==
  [outs \in Answers |->
     IF \A d \in Targets : Reports(outs)[d].ok THEN Links[Observed(outs)] ELSE [ok |-> FALSE, links |-> {}]]

Collection == [d \in Targets |-> future[d].out]

(* The first failure in target order, if there is one, is the result.      *)
Uncollected == {d \in Targets : future[d].at # "collected"}

FirstFailure(d) ==
  \E i \in 1..Len(TargetOrder) :
    /\ TargetOrder[i] = d /\ d \in Uncollected
    /\ \A j \in 1..(i - 1) : TargetOrder[j] \notin Uncollected

(* Everything was collected: the candidate is rebuilt, or an error in what *)
(* the devices reported leaves it alone.                                   *)
Rebuild ==
  /\ main.at = "aggregating" /\ Uncollected = {}
  /\ candidate' = IF Rebuilt[Collection].ok THEN Rebuilt[Collection].links ELSE candidate
  /\ Stop
  /\ UNCHANGED <<future, guarded, session, attempt, left, bounds>>

(* A changed key is reviewed if it is the first failure; if it is replaced *)
(* the run is repeated from the start.  Any other failure ends the command. *)
Recover ==
  /\ main.at = "aggregating" /\ Uncollected # {}
  /\ \/ /\ \E d \in Targets : FirstFailure(d) /\ future[d].at = "changed"
        /\ main.recoveries < MaxRecoveries
        /\ main' = [main EXCEPT !.at = "preparing", !.recoveries = @ + 1]
     \/ Stop
  /\ UNCHANGED <<future, guarded, session, candidate, attempt, left, bounds>>

(* Ctrl-C: KeyboardInterrupt leaves the wait for the pool at once, while   *)
(* its threads go on; the finally clause runs, and the CLI ends.           *)
Interrupt ==
  /\ main.at \in {"preparing", "collecting", "closing", "aggregating"} /\ ~main.interrupted
  /\ faults < MaxFaults /\ faults' = faults + 1
  /\ left' = IF main.at \in {"collecting", "closing"} THEN left \cup Targets ELSE left
  /\ IF main.at = "collecting"
     THEN /\ main' = [main EXCEPT !.at = "closing", !.todo = TargetOrder, !.interrupted = TRUE]
          /\ guarded' = FALSE
     ELSE GoTo("exiting") /\ UNCHANGED guarded
  /\ UNCHANGED <<future, session, candidate, attempt, runs, rekeys>>

(* The interpreter joins the threads of the pool before it exits; the user *)
(* starts the CLI again, with a new candidate.                             *)
Exit ==
  /\ main.at = "exiting" /\ \A d \in Targets : ~InFlight(d)
  /\ Stop
  /\ future' = [d \in Device |-> NoFuture]
  /\ guarded' = FALSE /\ candidate' = None
  /\ UNCHANGED <<session, attempt, left, bounds>>

-----------------------------------------------------------------------------
(* The threads: _bootstrap_collect*().                                     *)

Worker(d, step) == future' = [future EXCEPT ![d].at = step]
Pool == UNCHANGED <<main, guarded, candidate, attempt, runs, faults>>

(* The pool starts the futures in the order of their submission.           *)
Start(d) ==
  /\ future[d].at = "queued" /\ Cardinality(Running) < MaxWorkers
  /\ d = Head(SelectSeq(TargetOrder, LAMBDA e : future[e].at = "queued"))
  /\ Worker(d, "opening")
  /\ Pool /\ UNCHANGED <<session, left, rekeys>>

(* _open_bootstrap(): a session that is left from an earlier run is closed *)
(* and a new one created.                                                  *)
Open(d) ==
  /\ future[d].at = "opening"
  /\ session' = [session EXCEPT ![d] = "open"]
  /\ left' = IF main.at = "collecting" THEN left \ {d} ELSE left
  /\ Worker(d, "login")
  /\ Pool /\ UNCHANGED rekeys

(* Every hop runs under StrictHostKeyChecking=yes: a key that has changed  *)
(* since it was registered ends the connection before any credential.      *)
Login(d) ==
  /\ future[d].at = "login" /\ session[d] = "open"
  /\ \/ Worker(d, "commands") /\ UNCHANGED rekeys
     \/ rekeys < MaxRekeys /\ rekeys' = rekeys + 1 /\ Worker(d, "changed")
  /\ Pool /\ UNCHANGED <<session, left>>

(* Paging off, and the commands one after the other.                       *)
Collect(d) ==
  /\ future[d].at = "commands" /\ session[d] = "open"
  /\ \E out \in DOMAIN Outputs[d] :
       future' = [future EXCEPT ![d].at = "collected", ![d].out = out]
  /\ Pool /\ UNCHANGED <<session, left, rekeys>>

(* A timeout, a refused password, a lost connection, no such session.      *)
Fail(d) ==
  /\ future[d].at \in {"opening", "login", "commands"}
  /\ Worker(d, "failed")
  /\ Pool /\ UNCHANGED <<session, left, rekeys>>

-----------------------------------------------------------------------------
Init ==
  /\ main = Idle /\ guarded = FALSE
  /\ future = [d \in Device |-> NoFuture]
  /\ session = [d \in Device |-> "none"]
  /\ candidate = None /\ attempt = 0 /\ left = {}
  /\ runs = 0 /\ rekeys = 0 /\ faults = 0

MainStep == Prepare \/ Collected \/ Close \/ Closed \/ Rebuild \/ Recover \/ Exit
WorkerStep(d) == Start(d) \/ Open(d) \/ Login(d) \/ Collect(d) \/ Fail(d)

Next ==
  \/ Discover \/ MainStep \/ CloseFails \/ Interrupt
  \/ \E d \in Device : WorkerStep(d)

Spec == Init /\ [][Next]_vars

(* The program runs: some thread that can go on does, and every wait has a *)
(* timeout.                                                                *)
Fairness == WF_vars(MainStep \/ \E d \in Device : WorkerStep(d))

FairSpec == Spec /\ Fairness

-----------------------------------------------------------------------------
(* Properties.                                                             *)

TypeOK ==
  /\ main \in [at : {"idle", "preparing", "collecting", "closing", "aggregating", "exiting"},
               todo : Seq(Device), recoveries : 0..MaxRecoveries, interrupted : BOOLEAN]
  /\ future \in [Device -> [at : Results \cup {"none", "queued", "opening", "login", "commands"},
                            out : (UNION {DOMAIN Outputs[d] : d \in Device}) \cup {None},
                            from : Nat]]
  /\ guarded \in BOOLEAN /\ (guarded => main.at = "collecting")
  /\ session \in [Device -> {"none", "open"}]
  /\ attempt \in Nat /\ left \subseteq Device

(* No bootstrap session outlives the command that opened it, however its   *)
(* threads ended, unless the command was interrupted or could not close a  *)
(* session (discover_topology: "finally", close_bootstrap_terminal).       *)
NothingLeftOpen ==
  main.at \in {"idle", "preparing"} => \A d \in Device : session[d] = "open" => d \in left

(* The candidate is rebuilt only from one attempt in which every target    *)
(* was collected: never from a part of them, and never from what was       *)
(* collected before a host key was replaced (discover_topology: "there is  *)
(* no partial result"; _run_discover_topology).                            *)
CandidateIsOneAttempt ==
  [][candidate' \notin {candidate, None} =>
       \A d \in Targets : future[d].at = "collected" /\ future[d].from = attempt]_vars

(* What the tables of a device state about managed devices that no other   *)
(* target shares the host name with.                                       *)
Stated(d) ==
  {{End(d, says.local), End(says.device, says.port)} :
     says \in {s \in Outputs[d][future[d].out].says :
       \E e \in Targets : s.device = e /\ \A f \in Targets \ {e} :
         Lower[Hostnames(Collection)[f]] # Lower[Hostnames(Collection)[e]]}}

(* A new candidate has exactly the links that its tables state: each row   *)
(* about an identified device is a link and each link is stated by one of  *)
(* its ends, whatever lines surround the rows, and no interface has two    *)
(* links (parse_lldp_neighbors, parse_cdp_neighbors, reconcile_links,      *)
(* resolve_remote_identity, _fail_on_link_ambiguity).                      *)
LinksAreStated ==
  [][candidate' \notin {candidate, None} =>
       /\ candidate' = UNION {Stated(d) : d \in Targets}
       /\ \A l, m \in candidate' : Cardinality(l) = 2 /\ (l # m => l \cap m = {})]_vars

(* Every `discover topology` ends, or the CLI does.                        *)
DiscoverEnds == main.at # "idle" ~> main.at = "idle"
=============================================================================
