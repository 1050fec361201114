------------------------------ MODULE HostKeys ------------------------------
(***************************************************************************)
(* Trust in SSH host keys: registration on first use (hostkey_tofu.py), by *)
(* the MCP server's terminals and by Discovery, and the replacement of a   *)
(* registered key that a human reviews in the CLI (hostkey_flow.py,        *)
(* hostkey_store.py).  Every actor is a process of its own; they share the *)
(* product's known_hosts under a lock, and read it without the lock.       *)
(*                                                                         *)
(* A host stands for a host identifier, a key for the type and fingerprint *)
(* of a line.  ssh and ssh-keygen are external: strict verification        *)
(* accepts the presented key if a consulted file lists it for the host.    *)
(***************************************************************************)
EXTENDS Integers, Sequences, SequencesExt

CONSTANTS
  Host,           (* SSH servers: devices and jump hosts                    *)
  Key,            (* their keys                                             *)
  Device,         (* devices of the access-info                             *)
  Hops,           (* the SSH hops of each device, the jump host first       *)
  Targets,        (* devices in the order Discovery takes them              *)
  Terminal,       (* callers of terminal_open                               *)
  Cli,            (* interactive CLIs that run `discover topology`          *)
  None,           (* no holder, no key, no jump host, no failure            *)
  Refused,        (* a connection that failed for another reason            *)
  Faults,         (* operations that may fail besides the network           *)
  InitialFiles,   (* contents of the product's known_hosts                  *)
  MaxRecoveries,  (* reviews in one command: 3 in the code                  *)
  MaxRekeys,      (* bound on the changes of a presented key                *)
  MaxEdits        (* bound on the edits of known_hosts files by others      *)

Actor == Terminal \cup Cli

FaultNames == {"unreadable", "prepare", "append", "fsync", "keygen", "backup",
               "remove", "tidy", "restore", "crash"}

ASSUME ShapeAssumption ==
  /\ Hops \in [Device -> Seq(Host)]
  /\ \A d \in Device : Hops[d] # << >>
  /\ Targets \in Seq(Device)
  /\ Terminal \cap Cli = {}
  /\ None \notin Actor \cup Key \cup Host
  /\ Refused \notin Host \cup {None}
  /\ Faults \subseteq FaultNames
  /\ InitialFiles \subseteq [Host -> Seq(Key)]

ASSUME BoundAssumption ==
  MaxRecoveries \in Nat /\ MaxRekeys \in Nat /\ MaxEdits \in Nat

VARIABLES
  product,    (* the product's known_hosts: the keys of each host, in order *)
  outside,    (* the user's and the system's known_hosts                    *)
  presented,  (* the key each server presents now                           *)
  holder,     (* who holds KnownHostsLock                                   *)
  fresh,      (* CLIs whose file_signature() still matches                  *)
  at,         (* the next step of each actor                                *)
  job,        (* what each actor works on                                   *)
  approvals,  (* each Coordinator's registry                                *)
  said,       (* how each actor's last call ended                           *)
  rekeys, edits

file == <<product, fresh>>
world == <<outside, presented, rekeys, edits>>
vars == <<file, world, holder, at, job, approvals, said>>

Visit == [host : Host, via : Host \cup {None}]

Approval == [host : Host, key : Key, consumed : BOOLEAN]

TofuSteps == {"lock", "recheck", "probe", "append", "verify"}
LockedReview == {"compare", "inspect", "read", "backup", "remove", "removed",
                 "tidy", "reappend", "reverify", "restore"}
Steps == {"idle", "prepare", "connect", "lookup", "sign", "reprobe", "confirm",
          "relock"} \cup TofuSteps \cup LockedReview

Results == {"none", "ok", "failed", "no key changed", "restored",
            "not restored", "traceback", "crashed"}

Job ==
  [ todo  : Seq(Visit),                            \* hops still to prepare
    hop   : Visit \cup {None},                     \* the hop in hand
    key   : Key \cup {None},                       \* the probed key
    known : SUBSET Host,                           \* may_authenticate()
    way   : [Device -> Seq(Host)],                 \* hops still to verify
    bad   : [Device -> Host \cup {None, Refused}], \* a changed hop, a failure
    shown : Seq(Key),                              \* old keys, as displayed
    saved : [Host -> Seq(Key)],                    \* the backup
    recoveries : 0..MaxRecoveries ]

TypeOK ==
  /\ product \in [Host -> Seq(Key)]
  /\ outside \in [Host -> SUBSET Key]
  /\ presented \in [Host -> Key]
  /\ holder \in Actor \cup {None}
  /\ fresh \subseteq Cli
  /\ at \in [Actor -> Steps]
  /\ job \in [Actor -> Job]
  /\ approvals \in [Cli -> SUBSET Approval]
  /\ said \in [Actor -> Results]
  /\ rekeys \in 0..MaxRekeys
  /\ edits \in 0..MaxEdits

-----------------------------------------------------------------------------
(* What the steps are made of.                                             *)

Idle ==
  [ todo |-> << >>, hop |-> None, key |-> None, known |-> {},
    way |-> [d \in Device |-> << >>], bad |-> [d \in Device |-> None],
    shown |-> << >>, saved |-> [h \in Host |-> << >>], recoveries |-> 0 ]

Visits(d) ==
  [i \in DOMAIN Hops[d] |->
     [host |-> Hops[d][i], via |-> IF i = 1 THEN None ELSE Hops[d][i - 1]]]

(* The hops of all targets, one target after the other.                    *)
AllVisits ==
  LET upTo[n \in 0..Len(Targets)] ==
        IF n = 0 THEN << >> ELSE upTo[n - 1] \o Visits(Targets[n])
  IN upTo[Len(Targets)]

(* The keys strict verification accepts for h, and classify()'s question.  *)
Entries(h) == Range(product[h]) \cup outside[h]
Registered(h) == Entries(h) # {}

Reachable(visit) ==
  visit.via # None => presented[visit.via] \in Entries(visit.via)

Fails(fault) == fault \in Faults

Goes(a, step) == at' = [at EXCEPT ![a] = step] /\ UNCHANGED said

Release(a) == holder' = IF holder = a THEN None ELSE holder

\* Faulty: an exception leaves the lock held.
EndsHolding(a, result) ==
  /\ at' = [at EXCEPT ![a] = "idle"]
  /\ said' = [said EXCEPT ![a] = result]
  /\ job' = [job EXCEPT ![a] = Idle]
  /\ UNCHANGED holder

(* The call returns or raises: the lock is released on every way out.      *)
Ends(a, result) ==
  /\ at' = [at EXCEPT ![a] = "idle"]
  /\ said' = [said EXCEPT ![a] = result]
  /\ job' = [job EXCEPT ![a] = Idle]
  /\ Release(a)

Writes(h, keys) == product' = [product EXCEPT ![h] = keys] /\ fresh' = {}

-----------------------------------------------------------------------------
(* Registration of an unknown host.                                        *)

(* open_device_terminal(): ensure_trusted() of every hop, then ssh.        *)
OpenTerminal(t, d) ==
  /\ at[t] = "idle"
  /\ Goes(t, "lock")
  /\ job' = [job EXCEPT ![t] = [Idle EXCEPT !.hop = Head(Visits(d)),
                                            !.todo = Tail(Visits(d)),
                                            !.way[d] = Hops[d]]]
  /\ UNCHANGED <<file, world, holder, approvals>>

(* prepare() starts, or starts again after a replacement.                  *)
Fresh(j) == [Idle EXCEPT !.todo = AllVisits, !.recoveries = j.recoveries,
                         !.way = [d \in Device |-> IF d \in Range(Targets)
                                                   THEN Hops[d] ELSE << >>]]

Discover(c) ==
  /\ at[c] = "idle"
  /\ Goes(c, "prepare")
  /\ job' = [job EXCEPT ![c] = Fresh(Idle)]
  /\ approvals' = [approvals EXCEPT ![c] = {}]
  /\ UNCHANGED <<file, world, holder>>

(* Discovery looks at a hop without the lock; only an unknown one is       *)
(* registered.                                                             *)
Prepare(c) ==
  /\ at[c] = "prepare"
  /\ IF job[c].todo = << >>
     THEN Goes(c, "connect") /\ UNCHANGED job
     ELSE LET visit == Head(job[c].todo) IN
          \/ /\ Registered(visit.host) \/ visit.host \in job[c].known
             /\ Goes(c, "prepare")
             /\ job' = [job EXCEPT ![c].todo = Tail(@),
                                   ![c].known = @ \cup {visit.host}]
          \/ /\ ~Registered(visit.host) /\ visit.host \notin job[c].known
             /\ Goes(c, "lock")
             /\ job' = [job EXCEPT ![c].todo = Tail(@), ![c].hop = visit]
  /\ UNCHANGED <<file, world, holder, approvals>>

PrepareUnclear(c) ==
  /\ at[c] = "prepare" /\ job[c].todo # << >> /\ Fails("unreadable")
  /\ Ends(c, "failed")
  /\ UNCHANGED <<file, world, approvals>>

(* KnownHostsLock: a holder in another thread or process is waited for, up *)
(* to 90 seconds.                                                          *)
Acquire(a) ==
  /\ at[a] \in {"lock", "relock"}
  /\ holder = None
  /\ holder' = a
  /\ Goes(a, IF at[a] = "lock" THEN "recheck" ELSE "compare")
  /\ UNCHANGED <<file, world, job, approvals>>

\* Faulty: the lock is waited for without a limit.
AcquireWaits(a) == FALSE

(* A lock that cannot be had is a HostKeyError of a registration, but the  *)
(* HostKeyStoreError of a replacement is caught nowhere.                   *)
AcquireTimesOut(a) ==
  /\ at[a] \in {"lock", "relock"}
  /\ holder # None
  /\ Ends(a, IF at[a] = "lock" THEN "failed" ELSE "traceback")
  /\ UNCHANGED <<file, world, approvals>>

PrepareFileFails(a) ==
  /\ at[a] = "lock" /\ Fails("prepare")
  /\ Ends(a, "failed")
  /\ UNCHANGED <<file, world, approvals>>

(* The hop in hand is trusted; on to the next one.                         *)
HopTrusted(a) ==
  LET todo == job[a].todo IN
  /\ Release(a)
  /\ job' = [job EXCEPT ![a].known = @ \cup {job[a].hop.host},
                        ![a].key = None,
                        ![a].hop = IF a \in Cli \/ todo = << >> THEN None ELSE Head(todo),
                        ![a].todo = IF a \in Cli \/ todo = << >> THEN todo ELSE Tail(todo)]
  /\ Goes(a, IF a \in Cli THEN "prepare" ELSE IF todo = << >> THEN "connect" ELSE "lock")

\* Faulty: the look before the lock has to do.
RecheckSkipped(a) ==
  /\ at[a] = "recheck"
  /\ Goes(a, "probe")
  /\ UNCHANGED <<file, world, holder, job, approvals>>

(* Under the lock: the state again, then one probe, the append, and a      *)
(* comparison of what the file now says.                                   *)
Recheck(a) ==
  /\ at[a] = "recheck"
  /\ \/ Registered(job[a].hop.host) /\ HopTrusted(a)
     \/ /\ ~Registered(job[a].hop.host)
        /\ Goes(a, "probe")
        /\ UNCHANGED <<holder, job>>
     \/ Fails("unreadable") /\ Ends(a, "failed")
  /\ UNCHANGED <<file, world, approvals>>

\* Faulty: a host that cannot be probed is left to the connection.
ProbeOptional(a) ==
  /\ at[a] = "probe"
  /\ \/ /\ Reachable(job[a].hop)
        /\ job' = [job EXCEPT ![a].key = presented[job[a].hop.host]]
        /\ Goes(a, "append")
        /\ UNCHANGED holder
     \/ HopTrusted(a)
  /\ UNCHANGED <<file, world, approvals>>

Probe(a) ==
  /\ at[a] = "probe"
  /\ \/ /\ Reachable(job[a].hop)
        /\ job' = [job EXCEPT ![a].key = presented[job[a].hop.host]]
        /\ Goes(a, "append")
        /\ UNCHANGED holder
     \/ Ends(a, "failed")
  /\ UNCHANGED <<file, world, approvals>>

(* append_entry(): one line, then fsync of the file and the directory.     *)
AppendEntry(a) ==
  LET h == job[a].hop.host IN Writes(h, Append(product[h], job[a].key))

AppendNew(a) ==
  /\ at[a] = "append"
  /\ \/ AppendEntry(a) /\ Goes(a, "verify") /\ UNCHANGED <<holder, job>>
     \/ Fails("append") /\ Ends(a, "failed") /\ UNCHANGED file
     \/ Fails("fsync") /\ AppendEntry(a) /\ Ends(a, "failed")
  /\ UNCHANGED <<world, approvals>>

\* Faulty: other keys of the host may stay beside it.
ListedKey(a) == job[a].key \in Range(product[job[a].hop.host])

OnlyKey(a) == product[job[a].hop.host] = <<job[a].key>>

Verify(a) ==
  /\ at[a] = "verify"
  /\ \/ OnlyKey(a) /\ HopTrusted(a)
     \/ (~OnlyKey(a) \/ Fails("keygen")) /\ Ends(a, "failed")
  /\ UNCHANGED <<file, world, approvals>>

-----------------------------------------------------------------------------
(* The strict connections that carry credentials.                          *)

(* Each device's hops in order; the devices of a Discovery concurrently.   *)
Dial(a, d) ==
  LET j == job[a]  h == Head(j.way[d]) IN
  /\ at[a] = "connect"
  /\ j.way[d] # << >> /\ j.bad[d] = None
  /\ \/ /\ presented[h] \in Entries(h)
        /\ Range(Hops[d]) \subseteq j.known
        /\ job' = [job EXCEPT ![a].way[d] = Tail(@)]
     \/ /\ Registered(h) /\ presented[h] \notin Entries(h)
        /\ job' = [job EXCEPT ![a].bad[d] = h]
     \/ job' = [job EXCEPT ![a].bad[d] = Refused]
  /\ UNCHANGED <<file, world, holder, at, approvals, said>>

AllDialed(a) ==
  at[a] = "connect" /\ \A d \in Device : job[a].way[d] = << >> \/ job[a].bad[d] # None

Opened(t) ==
  /\ AllDialed(t)
  /\ Ends(t, IF \A d \in Device : job[t].bad[d] = None THEN "ok" ELSE "failed")
  /\ UNCHANGED <<file, world, approvals>>

NoFailure(j) == \A i \in DOMAIN Targets : j.bad[Targets[i]] = None

FirstBad(j, d) ==
  \E i \in DOMAIN Targets :
    /\ Targets[i] = d /\ j.bad[d] # None
    /\ \A n \in 1..(i - 1) : j.bad[Targets[n]] = None

MayReview(j) == j.recoveries < MaxRecoveries

(* The first failure in target order decides; a changed key is offered for *)
(* review.                                                                 *)
Collected(c) ==
  LET j == job[c] IN
  /\ AllDialed(c)
  /\ \/ NoFailure(j) /\ Ends(c, "ok")
     \/ \E d \in Device : FirstBad(j, d) /\ j.bad[d] = Refused /\ Ends(c, "failed")
     \/ \E d \in Device :
          /\ FirstBad(j, d) /\ j.bad[d] \in Host
          /\ IF MayReview(j)
             THEN /\ Goes(c, "lookup")
                  /\ LET i == CHOOSE n \in DOMAIN Hops[d] : Hops[d][n] = j.bad[d]
                     IN job' = [job EXCEPT ![c] =
                                  [Idle EXCEPT !.hop = Visits(d)[i],
                                               !.recoveries = j.recoveries + 1]]
                  /\ UNCHANGED holder
             ELSE Ends(c, "no key changed")
  /\ UNCHANGED <<file, world, approvals>>

-----------------------------------------------------------------------------
(* recover_changed(): the review and the replacement.                      *)

(* It returns False: the message of the caller is "No host key was         *)
(* changed."                                                               *)
GivesUp(c) == Ends(c, "no key changed") /\ UNCHANGED <<file, world, approvals>>

(* A HostKeyStoreError: raised under the lock, caught nowhere.             *)
Breaks(c) == Ends(c, "traceback") /\ UNCHANGED <<file, world, approvals>>

Lookup(c) ==
  LET keys == product[job[c].hop.host] IN
  /\ at[c] = "lookup"
  /\ \/ /\ keys # << >>
        /\ job' = [job EXCEPT ![c].shown = keys]
        /\ Goes(c, "sign")
        /\ UNCHANGED <<file, world, holder, approvals>>
     \/ (keys = << >> \/ Fails("unreadable")) /\ GivesUp(c)

Sign(c) ==
  /\ at[c] = "sign"
  /\ fresh' = fresh \cup {c}
  /\ Goes(c, "reprobe")
  /\ UNCHANGED <<product, world, holder, job, approvals>>

Reprobe(c) ==
  /\ at[c] = "reprobe"
  /\ \/ /\ Reachable(job[c].hop)
        /\ job' = [job EXCEPT ![c].key = presented[job[c].hop.host]]
        /\ Goes(c, "confirm")
        /\ UNCHANGED <<file, world, holder, approvals>>
     \/ GivesUp(c)

\* Faulty: anything but "no" counts as an answer.
ConfirmByDefault(c) ==
  /\ at[c] = "confirm"
  /\ Goes(c, "relock")
  /\ UNCHANGED <<file, world, holder, job, approvals>>

(* The operator answers, or lets 180 seconds pass.                         *)
Confirm(c) ==
  /\ at[c] = "confirm"
  /\ \/ /\ approvals' = [approvals EXCEPT ![c] = @ \cup
               {[host |-> job[c].hop.host, key |-> job[c].key, consumed |-> FALSE]}]
        /\ Goes(c, "relock")
        /\ UNCHANGED <<file, world, holder, job>>
     \/ GivesUp(c)

Compare(c) ==
  /\ at[c] = "compare"
  /\ IF c \in fresh
     THEN Goes(c, "inspect") /\ UNCHANGED <<holder, job>>
     ELSE Ends(c, "failed")
  /\ UNCHANGED <<file, world, approvals>>

(* remove_host(): the expected signature, then a signature of its own with *)
(* what it reads, the backup, and that signature again before              *)
(* `ssh-keygen -R`.                                                        *)
Inspect(c) ==
  /\ at[c] = "inspect"
  /\ \/ /\ c \in fresh
        /\ Goes(c, "read")
        /\ UNCHANGED <<file, world, holder, job, approvals>>
     \/ c \notin fresh /\ Breaks(c)

ReadFile(c) ==
  LET h == job[c].hop.host IN
  /\ at[c] = "read"
  /\ \/ /\ product[h] # << >>
        /\ job' = [job EXCEPT ![c].saved = product]
        /\ fresh' = fresh \cup {c}
        /\ Goes(c, "backup")
        /\ UNCHANGED <<product, world, holder, approvals>>
     \/ (product[h] = << >> \/ Fails("keygen")) /\ Breaks(c)

Backup(c) ==
  /\ at[c] = "backup"
  /\ \/ /\ c \in fresh
        /\ Goes(c, "remove")
        /\ UNCHANGED <<file, world, holder, job, approvals>>
     \/ (c \notin fresh \/ Fails("backup")) /\ Breaks(c)

RemoveHost(c) ==
  /\ at[c] = "remove"
  /\ \/ /\ Writes(job[c].hop.host, << >>)
        /\ Goes(c, "removed")
        /\ UNCHANGED <<world, holder, job, approvals>>
     \/ Fails("remove") /\ Breaks(c)

\* Faulty: the backup is made after the removal.
CheckRemovedThenBackUp(c) ==
  /\ at[c] = "removed"
  /\ job' = [job EXCEPT ![c].saved = product]
  /\ Goes(c, "tidy")
  /\ UNCHANGED <<file, world, holder, approvals>>

(* Every other line must still be there, and none of the host's.           *)
CheckRemoved(c) ==
  LET j == job[c]
      missing == \E h \in Host \ {j.hop.host} : ~(Range(j.saved[h]) \subseteq Range(product[h]))
      bad == missing \/ product[j.hop.host] # << >>
  IN
  /\ at[c] = "removed"
  /\ \/ /\ ~bad
        /\ Goes(c, "tidy")
        /\ UNCHANGED <<file, world, holder, job, approvals>>
     \/ (bad \/ Fails("keygen")) /\ Breaks(c)

Tidy(c) ==
  /\ at[c] = "tidy"
  /\ \/ Goes(c, "reappend") /\ UNCHANGED <<holder, job>>
     \/ Fails("tidy") /\ Ends(c, "failed")
  /\ UNCHANGED <<file, world, approvals>>

Reappend(c) ==
  /\ at[c] = "reappend"
  /\ \/ AppendEntry(c) /\ Goes(c, "reverify")
     \/ Fails("append") /\ Goes(c, "restore") /\ UNCHANGED file
     \/ Fails("fsync") /\ AppendEntry(c) /\ Goes(c, "restore")
  /\ UNCHANGED <<world, holder, job, approvals>>

(* The registered key is the confirmed one: the approval is consumed and   *)
(* Discovery runs again.                                                   *)
Replaced(c) ==
  LET granted == [host |-> job[c].hop.host, key |-> job[c].key, consumed |-> FALSE] IN
  /\ approvals' = [approvals EXCEPT ![c] =
                     (@ \ {granted}) \cup {[granted EXCEPT !.consumed = TRUE]}]
  /\ job' = [job EXCEPT ![c] = Fresh(@)]
  /\ Goes(c, "prepare")
  /\ Release(c)

Reverify(c) ==
  /\ at[c] = "reverify"
  /\ \/ OnlyKey(c) /\ Replaced(c)
     \/ /\ ~OnlyKey(c) \/ Fails("keygen")
        /\ Goes(c, "restore")
        /\ UNCHANGED <<holder, job, approvals>>
  /\ UNCHANGED <<file, world>>

\* Faulty: the backup is copied back.
RestoreBackup(c) ==
  /\ at[c] = "restore"
  /\ product' = job[c].saved /\ fresh' = {}
  /\ Ends(c, "restored")
  /\ UNCHANGED <<world, approvals>>

(* The removed lines are appended again, whatever is there now, and looked *)
(* up.                                                                     *)
Restore(c) ==
  LET h == job[c].hop.host
      again == Writes(h, product[h] \o job[c].saved[h])
  IN
  /\ at[c] = "restore"
  /\ \/ again /\ Ends(c, "restored")
     \/ Fails("restore") /\ UNCHANGED file /\ Ends(c, "not restored")
     \/ Fails("keygen") /\ again /\ Ends(c, "not restored")
  /\ UNCHANGED <<world, approvals>>

-----------------------------------------------------------------------------
(* The rest of the world.                                                  *)

(* A process ends at any point; flock ends with it.                        *)
Crash(a) ==
  /\ Fails("crash") /\ at[a] # "idle"
  /\ Ends(a, "crashed")
  /\ UNCHANGED <<file, world, approvals>>

(* A device is reinstalled.                                                *)
Rekey(h, k) ==
  /\ rekeys < MaxRekeys /\ presented[h] # k
  /\ presented' = [presented EXCEPT ![h] = k]
  /\ rekeys' = rekeys + 1
  /\ UNCHANGED <<file, holder, at, job, approvals, said, outside, edits>>

(* A human removes a host from the product's file or sets its key.         *)
EditProduct(h, keys) ==
  /\ edits < MaxEdits /\ product[h] # keys
  /\ Writes(h, keys)
  /\ edits' = edits + 1
  /\ UNCHANGED <<outside, presented, rekeys, holder, at, job, approvals, said>>

(* A manual ssh adds a key to the user's own file.                         *)
EditOutside(h, k) ==
  /\ edits < MaxEdits /\ k \notin outside[h]
  /\ outside' = [outside EXCEPT ![h] = @ \cup {k}]
  /\ edits' = edits + 1
  /\ UNCHANGED <<file, presented, rekeys, holder, at, job, approvals, said>>

Init ==
  /\ product \in InitialFiles
  /\ outside = [h \in Host |-> {}]
  /\ presented \in [Host -> Key]
  /\ holder = None
  /\ fresh = {}
  /\ at = [a \in Actor |-> "idle"]
  /\ job = [a \in Actor |-> Idle]
  /\ approvals = [c \in Cli |-> {}]
  /\ said = [a \in Actor |-> "none"]
  /\ rekeys = 0
  /\ edits = 0

Registers(a) ==
  \/ Acquire(a) \/ AcquireTimesOut(a) \/ PrepareFileFails(a) \/ Recheck(a)
  \/ Probe(a) \/ AppendNew(a) \/ Verify(a)
  \/ \E d \in Device : Dial(a, d)

Reviews(c) ==
  \/ Prepare(c) \/ PrepareUnclear(c) \/ Collected(c) \/ Lookup(c) \/ Sign(c)
  \/ Reprobe(c) \/ Confirm(c) \/ Compare(c) \/ Inspect(c) \/ ReadFile(c)
  \/ Backup(c) \/ RemoveHost(c) \/ CheckRemoved(c) \/ Tidy(c) \/ Reappend(c)
  \/ Reverify(c) \/ Restore(c)

Next ==
  \/ \E a \in Actor : Registers(a) \/ Crash(a)
  \/ \E t \in Terminal : Opened(t) \/ \E d \in Device : OpenTerminal(t, d)
  \/ \E c \in Cli : Discover(c) \/ Reviews(c)
  \/ \E h \in Host, k \in Key :
       Rekey(h, k) \/ EditProduct(h, <<k>>) \/ EditProduct(h, << >>) \/ EditOutside(h, k)

Spec == Init /\ [][Next]_vars

(* Every step of a call has a time limit: ssh, ssh-keygen, the lock, and   *)
(* the question to the operator.                                           *)
Fairness ==
  /\ \A a \in Actor : WF_vars(Registers(a))
  /\ \A t \in Terminal : WF_vars(Opened(t))
  /\ \A c \in Cli : WF_vars(Reviews(c))

FairSpec == Spec /\ Fairness

-----------------------------------------------------------------------------
(* Properties.                                                             *)

(* The steps taken while holding the lock.                                 *)
Locked == {"recheck", "probe", "append", "verify"} \cup LockedReview

(* An actor is in a section that the lock covers exactly if it holds the   *)
(* lock: no two are in one, and no way out of one, a failure, a refusal or *)
(* a crash, leaves the lock behind for the next call to wait for.          *)
HolderIsLocked == \A a \in Actor : at[a] \in Locked <=> holder = a

(* However many calls meet an unknown host at once, and whatever reviews   *)
(* run beside them, the file lists at most one key of it: the question is  *)
(* asked again under the lock that covers the probe and the append.        *)
OneEntryEach == \A h \in Host : Len(product[h]) <= 1

(* While nobody is in the middle of a change, every hop that a Discovery   *)
(* may send a credential to is registered, whichever process registered    *)
(* or replaced it since the Discovery looked.                              *)
TrustedHopsAreRegistered ==
  holder = None => \A a \in Actor : \A h \in job[a].known : Registered(h)

(* The product's keys of a registered host change only under the lock, by  *)
(* the CLI whose operator granted an approval for that host that has not   *)
(* been used.                                                              *)
ChangesNeedApproval ==
  [][\A h \in Host :
       Registered(h) /\ product'[h] # product[h] =>
         \E c \in Cli : /\ holder = c
                       /\ \E ap \in approvals[c] : ap.host = h /\ ~ap.consumed]_vars

(* The lines a replacement removes are those whose fingerprints the        *)
(* operator was shown.                                                     *)
RemovesWhatWasShown ==
  [][\A c \in Cli : at[c] = "remove" /\ at'[c] = "removed" =>
       product[job[c].hop.host] = job[c].shown]_vars

(* After a failure that says "The previous entries were restored." the old *)
(* keys, as shown, are back.                                               *)
RestoredKeepsOld ==
  [][\A c \in Cli : at[c] = "restore" /\ at'[c] = "idle" /\ said'[c] = "restored" =>
       Range(job[c].shown) \subseteq Range(product'[job[c].hop.host])]_vars

(* Whatever fails and whatever others edit meanwhile, a step of the        *)
(* program changes the lines of one host at most, the one that the holder  *)
(* of the lock works on.                                                   *)
WritesOneHostUnderLock ==
  [][edits' = edits =>
       \A h \in Host : product'[h] # product[h] =>
         \E a \in Actor : holder = a /\ job[a].hop.host = h]_vars

(* An approval is consumed only when the file was just seen to list the    *)
(* confirmed key, and no other, for the host.                              *)
ReplacementIsExact ==
  [][\A c \in Cli : \A ap \in approvals'[c] \ approvals[c] :
       ap.consumed => product'[ap.host] = <<ap.key>>]_vars

(* Every call ends, also a Discovery that reviews and starts again.        *)
CallsEnd == \A a \in Actor : at[a] # "idle" ~> at[a] = "idle"
=============================================================================
