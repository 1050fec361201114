# A formal model of network-lab-mcp

network-lab-mcp lets a language model operate network devices through an MCP
server while a human decides, in a router-like CLI, what lab the model may see
and touch.  This directory holds TLA+ models of the parts whose correctness
depends on orders of events (a commit that can stop between two files, threads
that share one tmux server, a Discovery run that outlives the state it was
started from, a trust store that several processes change), the TLC
configurations that check them on small instances, and proofs of the most
important results for every instance.

Source paths below are relative to the root of the repository; `config.py`,
`main.py`, `lab.py`, `terminal.py`, `discovery.py`, `hostkey_*.py` are files of
`src/network_lab_mcp` (the first two of its `cli`).

## 1. Inventory

| Part | State it keeps | Operations | Interacts with |
|---|---|---|---|
| Candidate and commit engine, `CliSession` (`config.py`, handlers in `main.py`) | a snapshot of `settings.yaml` and its edited copy; at most one open definition (original and candidate); two revision counters | configure / end, open, edit, remove and clear definitions, select, describe, `discover topology`, `commit` | the stored lab (files), Discovery (call and result), the operator |
| Stored lab (`lab.py`) | `settings.yaml`, one YAML file per topology, access-info, scenario and reference | create (exclusive link), replace (rename), delete (unlink), read, validate | every process: CLI writes, MCP server reads |
| MCP tools (`mcp_server.py`) | none; every call reads the lab again | topology, instructions, terminal open / send / read / list / close | the stored lab, managed terminals |
| Managed terminals (`terminal.py`) | one lock per session name; the rest is state of a dedicated tmux server: sessions, panes, user options, global options | open with login, send, read, close, list; the same for Discovery's own namespace | tmux (one subprocess per command), ssh and telnet processes, log files |
| Telnet through SSH tunnels (`terminal.py`, `tunnel_safety.py`) | two tmux sessions for one logical session, a local port | establish, verify ownership, reuse, reap | managed terminals, `lsof` |
| Login stages (`terminal.py`, `discovery.py`) | what the pane shows | classify a prompt as jump host or target, answer at most once | managed terminals |
| Host keys (`hostkey_tofu.py`, `hostkey_store.py`, `hostkey_flow.py`, `hostkey_approval.py`) | the product `known_hosts`, a lock file, approvals in memory | classify, probe, register, review, replace, restore | ssh, ssh-keygen, other processes |
| Discovery (`discovery.py`) | a pool of collectors, observations, one result | collect, parse, reconcile links, build a candidate | managed terminals, host keys, `CliSession` |
| Terminal logs (`terminal.py`, `main.py`) | log files per device | list, read, plan, confirm, delete | running sessions |
| `terminal monitor` (`main.py`) | a cursor into a pane's history | poll and print what is new | managed terminals |
| Grammar, completion, paste, editor, rendering, locale, SSH isolation | none that outlives a command | text in, text out | the CLI |

What is hard about it:

* **Two files, no transaction.** A commit writes a definition and the
  running-config in two operations.  Each may fail, the process may end between
  them, the operator is told to retry, and the MCP server reads the files at any
  moment.
* **One slot, many roads.** The open definition is original + candidate, either
  of which may be absent.  Removing, re-entering, clearing, discovering and
  committing all move it between the same few states.
* **Stale decisions.** The Discovery preflight, the snapshot of the settings,
  the plan of a deletion and the check that a pane is the right one are all used
  some time after they were made.
* **A shared server under per-device locks.** tmux commands of different
  devices interleave; the server itself appears with the first session and
  disappears with the last one, with its options and its numbering.
* **Secrets typed into terminals.** A password must meet the prompt it was
  meant for.

What makes each part correct, in one line: a commit never leaves the stored lab
in a state a reader could not use and never loses what the operator typed; a
terminal operation acts on its own session only; a password is typed once, to
the prompt that asked; a host key is trusted only after it was seen and stored;
a Discovery result is everything or nothing; a deletion removes what was
confirmed.

## 2. Modules

| Module | Models | Where the code is |
|---|---|---|
| `CandidateCommit` | `CliSession` together with the stored lab | `config.py` 141-1018; `main.py` 998-2714; `lab.py` 97-1069; `discovery.py` 1263-1614 |
| `CommittedLab` | what the CLI promises about the lab: an abstract specification | - |
| `ReferenceOrder` | the one selection that is a list | `config.py` 298-996; `main.py` 787-815; `lab.py` 217-221 |
| `LabQueries` | the MCP tools, which read the lab while the CLI commits | `lab.py` 41-1030; `config.py` 888-1018; `mcp_server.py` 35-162; `terminal.py` 236-1971 |
| `TerminalSessions` | managed terminals on the shared tmux server | `terminal.py` 236-2199; `mcp_server.py` 66-160 |
| `TelnetTunnel` | the two tmux sessions of a Telnet session behind a jump host | `terminal.py` 203-2002; `tunnel_safety.py` 28-199; `mcp_server.py` 69-149 |
| `LogicalSession` | the one session they stand for: an abstract specification | - |
| `ManagedAuth` | the stages of a login and who reads which secret | `terminal.py` 93-2225; `discovery.py` 93-320; `hostkey_tofu.py` 388-552; `hostkey_flow.py` 103-124 |
| `HostKeys` | registration and replacement of SSH host keys by several processes | `hostkey_tofu.py` 107-732; `hostkey_approval.py` 83-96; `hostkey_flow.py` 156-303; `hostkey_store.py` 130-361; `terminal.py` 1089-1946; `main.py` 1971-2028; `discovery.py` 178-1365 |
| `NeighborLinks` | LLDP and CDP tables, identities and links, as operators | `discovery.py` 500-1599 |
| `DiscoveryRun` | one `discover topology`: pool, sessions, clean-up, result | `discovery.py` 198-1669; `main.py` 1996-2714; `terminal.py` 2174-2247 |
| `TerminalLogs` | session logs and the commands that delete them | `terminal.py` 176-1022; `main.py` 1709-1834 |

`PROJECT.json` names the lines of each definition.  `MC...` modules are the
instances TLC checks, `...Proofs` modules hold the theorems (section 4).

How they compose:

* `CandidateCommit` implements `CommittedLab` and `TelnetTunnel` implements
  `LogicalSession`, each by a refinement mapping that is both model-checked and
  proved.
* `DiscoveryRun` extends `NeighborLinks`.  Its two ends are in other modules: the
  preflight and the hand-over of the result to the open candidate are steps of
  `CandidateCommit`; the host-key failures it repeats itself after are those of
  `HostKeys`.
* `LabQueries` has the file operations of a commit as its environment, in the
  order `CandidateCommit` has them.
* `TerminalSessions`, `TelnetTunnel` and `ManagedAuth` divide a terminal: the
  shared tmux server and its locks; the pair of sessions and the ownership of its
  connection; the dialogue on one screen.  Each takes for granted what another
  one is about, and says so at its head.

An operator marked `\* Faulty` beside a definition is that definition with a
plausible bug.  No specification uses it; it is there to show, by putting it in
the place of the right one, that the property it is meant for fails.

### 2.1 CandidateCommit

`disk` maps every definition (a kind and an exact file stem) to its content or
`Absent`; `settings` is `settings.yaml`; `cli[s]` is one CLI process.

| Model | Code |
|---|---|
| `cli[s].base`, `.cand` | `committed_settings`, `settings_candidate`: the set of selected definitions and the set of described ones |
| `.slot`, `.orig`, `.draft` | `definition_kind` and `definition_name`, `definition_original` (`Absent`: brand-new), `definition_candidate` (`Absent`: pending deletion) |
| `.edited` | `_mutation_rev # _discovery_baseline_rev`, all that is ever asked of them |
| `.stage`, `.target` | where in `commit()` or `discover topology` the process is; the target Discovery resolved |
| `.kept`, `.manual` | history: a file operation failed and nothing was changed since; the draft holds an operator's change |

Operator commands are single actions, since nothing they do is visible to
others.  `commit()` is `BeginCommit` (validation, no write) and then one action
per file operation, in the order of the code: `WriteSettings`, `DeleteFile` for
a deletion; `WriteFile`, `WriteSettings` otherwise.  Each can succeed, fail with
the candidate kept (`OSError`) or, for the definition file, be refused
(`LabConfigError`); `Terminate` ends the process at any point.  A file operation
itself is atomic, which is what `_atomic_write_yaml` and `_create_yaml_exclusive`
are written for.  Discovery is `CheckDiscovery` (preflight, which resolves the
target), `RunDiscovery` (which resolves it again) and `ApplyDiscovery` or
`FailDiscovery`.

Abstracted: the contents of definitions are model values, `Valid` those the
validator of the kind accepts; every structured edit and editor round trip is
`EditDefinition`; prompts, submodes and rendering are left out.  A selection is
a set; `ReferenceOrder` shows why that is enough.  Changes of definitions by
hand, outside of the CLI, are left out.

### 2.2 CommittedLab

Four sentences about `disk` and `settings` alone: validated content is saved one
definition at a time, only unselected definitions are deleted, the
running-config changes in one step to a selection that misses no more than the
one before, and a description belongs to a selected entry.  `CandidateCommit`
with one process implements it (`ImplementsCommittedLab`); its three
writes are what `LabQueries` has as the environment of the readers.

### 2.3 ReferenceOrder

`committedRefs` and `activeRefs` are the `active_references` of the two settings,
lists or no key at all.  A refused command still puts an empty list in place of a
missing key (`setdefault` before the checks), which `AddRefused` and
`RemoveRefused` keep.  `Selected` is the comprehension of
`_stabilize_reference_order()`, as a recursive function over the list.  The names
are its own, so that `CandidateCommitProofs` can extend both modules and prove
that the set is enough (`ReferencesAreNetZero`, `CommandsActOnTheSet`, section 4).

### 2.4 TerminalSessions

`sessions` maps session names to panes, `tuned` is the history-limit of the
running server, `nextPane` its pane counter; `lock` is `_session_locks`;
`worker[w]` is one thread in one operation.  Every tmux command, or group of
commands no other thread can tell apart, is one action: an open is `Inspect`,
`Replace`, `FindServer`, `StartServer`, `Tune`, `CheckExists`, `Create`,
`Configure`, `Release`, `OpenGate`, `Unboot`, `Look`, `Password`, `Finish`, with
`Abort` for a failure inside the creation and `Kill` for a failed login in a new
session.  `Verify` and `Deliver` are the two commands of each input.

tmux is external and modelled by its documented behaviour as the code depends on
it: the server lives while it has a session, a new one has default options and
numbers panes from zero, and a target that is no session's name means the only
session whose name it begins (`Resolve`).  The screen is blank, a login prompt
or a command prompt.

Left out of this module: tunnels and `terminal_list` (`TelnetTunnel`), the
dialogue of a login (`ManagedAuth`), the host-key preflight (`HostKeys`), and
operations of a second MCP process, whose locks would be its own.

### 2.5 HostKeys

| Model | Code |
|---|---|
| `product` | the product's `known_hosts`: for each host the keys of its lines, in order |
| `outside` | the user's and the system's files, which are read and never written |
| `presented` | the key a server presents now (external) |
| `holder` | `KnownHostsLock`, the thread lock and the `flock` together |
| `fresh` | the CLIs whose last `file_signature()` still equals the file's: every write empties it |
| `at`, `job` | where each actor is and what it works on: the hop, the probed key, `may_authenticate` (`known`), the connections of each device (`way`, `bad`), the old keys as displayed (`shown`), the backup (`saved`) |
| `approvals` | the registry of each `Coordinator`, one per command |
| `said` | how the last call ended: the error or the message the operator gets |

A terminal is one call of `terminal_open`: for each hop, jump host first,
`register_unknown()` (`Acquire`, `Recheck`, `Probe`, `AppendNew`, `Verify`, all
but the first under the lock) and then the strict connections (`Dial`).
A CLI runs `discover topology`: `Prepare` classifies each hop without the lock
and sends only an unknown one through the same steps; then all devices dial at
once, and the first failure in target order decides (`Collected`).  If it is a
changed key, `recover_changed()` follows: `Lookup`, `Sign`, `Reprobe`, `Confirm`
without the lock, `Compare`, `Inspect`, `ReadFile`, `Backup`, `RemoveHost`,
`CheckRemoved`, `Tidy`, `Reappend`, `Reverify` under it, and `Restore` if one of
the last two fails.  After a replacement Discovery starts over.

Every file or subprocess operation may fail if `Faults` names it; a network
operation always may.  `"fsync"` is a failure after the write took effect,
`"keygen"` one of `ssh-keygen` or of its answer, `"crash"` the end of the process
at any point.  The constant lets one run look at a single cause and another at
all of them.

External: servers (`Rekey`), people and `ssh` by hand that edit either file
without the lock (`EditProduct`, `EditOutside`), and `ssh` itself, which accepts
the presented key exactly if a consulted file lists it for the host.

Abstracted: a host is its identifier, so ports and hashed names are gone; a key
is its type and fingerprint; the screens of a probe through a jump host and the
budget of jump passwords belong to `ManagedAuth`; two actors that wait for the
two stages of the lock wait for one.

### 2.6 TelnetTunnel and LogicalSession

| Model | Code |
|---|---|
| `tunnel[d]`, `device[d]` | the tmux sessions `network-lab-tunnel-<d>` and `network-lab-device-<d>`: whether the process runs, its port, how far ssh has come; whether the session carries `@nlm_tunnel_session`, who accepted the connection, what the screen asks |
| `taken` | ports of this machine bound by other processes, dying tunnels included |
| `lock`, `worker` | `_session_locks`, and what each thread does |
| `handed` | history: the devices whose session an open has reported |

An open is `Acquire`, `Inspect` (which decides between reuse, reaping, refusal
and building), `Reap`, `ResetDevice`, `ResetTunnel`, `Allocate`, `CreateTunnel`,
the polls `Drive` with `Answer` and `Retry`, `CreateDevice`, `Mark`, `Prove`
(`verify_tcp_ownership`), then `Look`, `Check`, `Type` for each credential,
`Settle`, `Finish`; a failure of a session it built goes to `DropDevice` and
`DropTunnel`, one of a reused session leaves it alone.  `Survey` and `Reap`
without the lock are `terminal_list`.  `Discovery` devices are always built
anew.  The environment is the ssh and telnet processes (`TunnelProceeds`,
`TunnelEnds`, `Connect`, `Prompts`, `DeviceEnds`), other programs that take and
release ports (`PortChanges`) and the end of the server process (`Restart`),
which keeps the tmux sessions and loses locks and calls.

`LogicalSession` sees one session for each device: `closed`, `tunnel` (built
halfway), `joining` (connected, not proven), `live`, `stray` (connected to
somebody else), `ended`.  It is handed over only when live, a stray one never is,
and an ended one is removed and built anew.

### 2.7 ManagedAuth

One device, one connection, a screen that is a sequence of kinds of lines.
`Login` is the union of the steps of the four flows (`terminal_open`, Discovery
of IOS XR, Discovery of IOS and IOS XE, host-key probe): the first look, the jump
stage (`JumpStage`, `Recheck`, `SendJump`, `AfterJump`), the username, the
target's prompt (`TargetStage`, `SendTarget`) and the settling, or the polls of a
probe.  Between the step that reads the screen and the step that types, `Hops`
(ssh and the two hosts behind it) may print, ask, refuse or disconnect: `Reader`
says who reads what is typed at that moment.  `run` is the pair of counters that
the probes of one command share, `NewRun` the next command.  `typed` and
`refusals` are history.

### 2.8 LabQueries

`selected` is `settings.yaml`, `stored` the definitions, `commit` a commit in
progress, `session` where the terminal of the device leads.  A call of a thread
takes the snapshot of the settings (`ReadSettings`) and reads each definition that
they select (`ReadPart`); terminal calls then go on to the lock (`Acquire`) and act
(`Act`) with what they found before they waited.

`get_execution_instructions()` is one call with five sections in its answer: what
is active, the two catalogs and the two lists of inspected definitions.  After the
active definitions it lists the names of scenarios and of references (`List`) and
then goes through the remaining sections name by name, with the check that the
definition is there (`Check`) and the read of its file (`Load`) as two steps, so a
file can change or go between them.  A name that is gone at the check is left out
of a catalog, one that is gone at the read is listed without a description
(`Blank`), and an inspection fails in both cases (`NextSection` puts the sections
together).  The same file is thus read up to three times by one call.
`principles.yaml`, which no commit writes, is left out, and at most one reference is
active.

`Begin`, `CommitStep` and `CommitEnds` are a commit: at most one definition and
the settings, a deletion after the settings and anything else before them, each
write one step, and an end between two of them.  `moments` is history: the lab at
each moment since the call began, for a call that has met at most one commit;
`met` counts the commits.  What each section would have been at a moment is an
operator (`SectionAt`).

### 2.9 NeighborLinks and DiscoveryRun

`NeighborLinks` has no state.  A line of a table is a record of what the parsers
tell apart (a row, a word alone, its continuation, a row with a blank column, a
total, a prompt, ...); `ParseLldp` and `ParseCdp` read sequences of them with the
code's rules for headers, ends, wrapped rows and declared totals, or fail.
`CdpLine` is one line of a CDP table: any word alone on its line pends as a Device
ID, also the prompt of IOS XR; a line with a hold time uses it up even if it is
skipped for its missing interface or Port ID; and if nothing pends, its first word
is the Device ID, which takes half of an interface of two words (`Spaced`).  A
prompt is one of IOS XR, since those of IOS are cut off with the output of the
command; IOS XR refuses a message that only resembles the one it should be
("like"), as the other protocol's.  `Observation` resolves a neighbor by its exact name, its name without
case and its short name, and gives up on a name that is not unique.  `Links`
reconciles all observations and applies the ambiguity rules; like the parsers it
goes through its list by recursion, and speaks of observations by their places in
it (`Managed`, `At`), since the first one of an end decides what it faces.

`DiscoveryRun` has the command (`main`), the thread pool (`future`), the
bootstrap sessions on the tmux server (`session`) and the candidate.  `Prepare`,
`Collected`, `Close`, `Closed`, `Rebuild` and `Recover` are the command; `Start`,
`Open`, `Login`, `Collect` and `Fail` a collector.  `Interrupt` is Ctrl-C at any
point, after which the interpreter still waits for the pool (`Exit`);
`CloseFails` is the clean-up that stops at a session it cannot close.

### 2.10 TerminalLogs

`logs` are files named by device, second and suffix; a session (of any process)
is made, gets its directory, chooses a name that is free and starts a `cat` that
creates the file later, even if the session is gone by then (`orphans`).  The
delete command goes through devices one by one (`ListLogs`, `CheckEntries`,
`CheckActive`), asks, builds the plan again, compares the two and applies it file
by file, then directory by directory.  `appeared` is history: the devices whose
directory got an entry since it was last listed.

## 3. What TLC checks

Each run is one question.  "Fails" means that TLC finds the documented sentence
violated and a finding in `PROJECT.json` quotes it.

| Run (configuration) | Instance | Shows |
|---|---|---|
| `commit_one_writer` (`CommitOneWriter`) | one process; two topologies that differ by case, a scenario, a reference; three contents, one invalid; three initial labs; 379k states | `TypeOK`, `OnlyValidStored`, `NoNewDangling`, `KeptCandidateCommits`, `SuccessMeansPersisted`, `ImplementsCommittedLab` |
| `commit_two_writers` (`CommitTwoWriters`) | two processes; either both create references that differ by case, or one edits and discovers two topologies while the other one changes the selected access-info; 73k states | `NoAliasedPair`, `CreateNeverOverwrites`, `DiscoveryKeepsManualEdits` |
| `reference_lists` (`ReferenceLists`) | four references, all 65 committed orders and settings without the key, an unknown name; 1.3k states | `NetZero` |
| `lab_queries` (`LabQueries`) | two names of each kind, two addresses of the device; a thread that serves every tool and one that only opens; two calls, two commits; a call for the instructions inspects both scenarios and a reference; 3.7M states | `AnswersAreCurrent`, `DrivenOnlyIfActive` |
| `terminal_operations` (`TerminalOperations`) | two threads, a production and a Discovery session, three calls, three initial servers; 277k states | `InputReachesItsSession`, `PasswordMeetsItsPrompt`, `SessionsAreReady`, `CallsReturn` |
| `terminal_name_prefix` (`TerminalNamePrefix`) | devices R1 and R10 | fails: closing R1 kills the session of R10 |
| `telnet_session` (`TelnetSession`) | a production and a Discovery device, two ports, two attempts, two threads, two calls, one restart; no session at first, or one of an earlier process; 285k states | `CredentialsStayInTheTunnel`, `PairsAreWhole`, `InputGoesToProvenSession`, `ImplementsLogicalSession`, `CallsReturn` |
| `managed_auth` (`ManagedAuth`) | all four flows, with and without a jump host, with and without the secrets that are asked for; three calls, two refusals before a disconnect, one unrelated line, one input by hand; 191k states | `SecretsMeetTheirHop`, `JumpRefusesOnce`, `RefusalIsReported`, `LoginEnds` |
| `hostkeys_shared` (`HostKeysShared`) | two terminals and a CLI; a device behind a jump host; two keys; any initial file with at most one key of each host; one change of a key, one review; five kinds of failure; 1.9M states | `OneEntryEach`, `TrustedHopsAreRegistered`, `ChangesNeedApproval`, `RemovesWhatWasShown`, `RestoredKeepsOld` |
| `hostkeys_failures` (`HostKeysFailures`) | a terminal and a CLI; a device and an unrelated host in the file; failures of every operation that writes or verifies, crashes included; one edit by others; 228k states | `HolderIsLocked`, `WritesOneHostUnderLock`, `ReplacementIsExact`, `CallsEnd` |
| `discovery_run` (`DiscoveryRun`) | four devices, three of them targets; two workers; one command, two changed keys, one interrupt or failed close; 7 × 4 × 3 combinations of tables; 84k states | `NothingLeftOpen`, `CandidateIsOneAttempt`, `LinksAreStated`, `DiscoverEnds` |
| `terminal_logs` (`TerminalLogs`) | two devices, one of them with two kinds of sessions; two starts, two seconds, three logs of one second; one command of any kind; 3.2M states | `LiveLogsStay`, `DeletionIsWhole` |

**What the properties assume.** `OneEntryEach`, `TrustedHopsAreRegistered`,
`RemovesWhatWasShown` and `RestoredKeepsOld` are checked with failures that have
no lasting effect and without edits by others; an edit can of course add a line
or remove one, a crash between the removal and the append leaves a host unknown,
and a failed fsync of the new line is followed by the old line beside it.
`HolderIsLocked`, `WritesOneHostUnderLock`, `ReplacementIsExact` and `CallsEnd`
hold with all of them, and are checked so.  `PairsAreWhole` and
`InputGoesToProvenSession` speak of the time before the first restart of the
server process: one that ends between creating the tunnel and the telnet session
leaves the tunnel, which the next open refuses with a message that says how to
close it.  `NothingLeftOpen` excepts a clean-up that Ctrl-C or a failure stops,
which does leave sessions behind (below): it shows that nothing else does.

`AnswersAreCurrent` and `DrivenOnlyIfActive` allow one commit during a call; two
commits can give a call the selection of one and the content of the other, which
nothing in the code prevents.  With one, every section is right for one moment of
the call, no section is older than the one before it, and a catalog may lack the
description of a definition that was being deleted.  A topology, a device, or the
active scenario with its references is one section and mixes nothing.  The
instructions as a whole can: a commit of the active scenario after it was read
leaves its old body beside its new description, and with the inspected ones beside
its new body.  The repository promises a single snapshot for `get_device()` only.  `SecretsMeetTheirHop` is about
sessions that the login created; a reused one may show anything (below).

**Bounds.** Four definitions are the fewest with a definition of every role the
validation distinguishes (a required topology and scenario, an optional entry,
a case variant).  Two valid contents tell an edit from its reversal, the third is
invalid.  `Selectable` and `Describable` bound what an operator selects and
describes in the run with two processes, and `OneJob` gives those different
jobs: two creations that race, or a Discovery whose target changes.  Two writers
and two threads are enough for every race between a check and its use; a third
adds only another copy of the second.  `MaxCalls = 3` lets two terminal calls
race while a third changes the server under them, or fails before them; more
calls than threads are needed for a lock that is never given back to be noticed.

One jump host and one device behind it are the smallest chain, two keys the
fewest that can differ.  Two terminals race for one unknown host while a review
goes on; the review needs a change of a key, so `MaxRekeys = 1`, and
`MaxRecoveries = 1` already distinguishes the review that is offered from the
one that is not.  In `hostkeys_failures` a second host is in the file only to be
left alone.

In `telnet_session` two ports allow a conflict and a second attempt.
`OneDeviceAtATime` makes a behaviour be about one device of either kind: devices
share nothing but ports, and other tunnels are among the processes that take
those.  In `managed_auth` one login follows another in the same session or in a
new one, and the third shows whether a probe repeats a refused password; the
budget of two sends is below the number of calls.  `lab_queries` needs two names
for a selection that can change and two commits for the second to be outside of
the properties; its threads meet only at the lock, so one of them need not serve
more than `terminal_open`.  `discovery_run` has a cable, a second cable that one end
reports, and contradicting, damaged and disabled tables, among them half a row of a
lost neighbor, a name that the next one replaces and one that is used up by a line
without a Port ID; two workers for three
targets make one of them wait for the pool.  `terminal_logs` needs three suffixes
for two sessions in one second beside a log that is already there; what happens
after the last command is not followed (`UntilTheLastPrompt`).

Threads, terminals and devices that are interchangeable are reduced by `SYMMETRY`
only in `hostkeys_shared`, which checks no liveness.

**Deadlock** is checked in the runs of `CandidateCommit`, where an operator can
always do something, and of `HostKeys`, where a call can always be made.  The
other systems stop after the calls or commands their bounds allow.

**Fairness.** Every `FairSpec` is weak fairness of the program's own next step:
of each thread in `TerminalSessions` and `TelnetTunnel`, of each actor in
`HostKeys`, of the login in `ManagedAuth`, of the command and its pool taken
together in `DiscoveryRun`.  The operating system schedules every thread, and
every wait in the code (for output, for a port, for ssh, `ssh-keygen` and `lsof`,
for the lock, for the operator's answer) has a deadline, which is one of the
outcomes of the step.  Nothing is assumed of devices, other programs or the
operator: transports may stay silent for ever.  It is not assumed that the
`known_hosts` lock is ever obtained, and since the number of calls is bounded
nothing is assumed of the order in which waiting threads obtain a session lock.

**History variables.** `kept`, `manual`, `handed`, `typed`, `refusals`, `met`,
`moments`, `attempt`, `left` and `appeared` are not in the code; they only
remember what the properties are about and guard no action.

**Met while modelling, without a run of their own.**  Each of these follows from
the models or from reading the code for them, and most disagree with a sentence
of the repository.

*Commits and the lab*

* `commit()` prunes descriptions only when the settings are dirty (`config.py`
  990), so one whose entry was selected, described and unselected before a
  definition-only commit stays in the candidate and comes back when the name is
  selected again; `config.py` 218-220: "a description can never outlive its
  running entry (and is never resurrected on re-select)".
* `check_discovery_allowed()` rejects differing revisions only if the definition
  is also dirty (`config.py` 558), so an edit that was reverted by hand does not
  count; `config.py` 286-288 says that it does.
* `add_reference()` and `remove_reference()` put an empty list in place of a
  missing key before they check anything (`config.py` 764): the session is dirty
  after a refused command, with nothing in its delta (hence the condition of
  `NetZero`).
* Two CLI processes that commit settings write whole files from their own
  snapshots (`config.py` 996), so the later one undoes the earlier one.  The
  repository excludes it (`lab.py` 1014: "the CLI is the single writer of lab
  definitions").
* `get_execution_instructions()` reads the files of scenarios and references up to
  three times (`lab.py` 855-872), so one commit of the active scenario during the
  call gives an answer with its old body and its new description; and a definition
  that is deleted between `_stored_definition_is_deletable()` and the read of
  `_catalog()` (813-819) is listed with the description `None`.
* A session that was opened before the access-info changed is still driven, at
  its old address: the topology, which the calls verify, has not changed
  (`docs/mcp_tools.md` 427-430 speaks of the topology only).

*Terminals*

* `_ensure_server()` creates the bootstrap session before it sets the history
  limit (`terminal.py` 481, 489).  Between the two another thread can create its
  own session, whose pane keeps tmux's default limit; and if the server ends
  between the check and the creation, the new server is never tuned.
* Session locks belong to one process (`terminal.py` 262).  A second server
  process on the same tmux server is not serialized with the first.
* `terminal_list` reaps the tunnel of a telnet process that ended some time after
  it looked (`terminal.py` 1641); by then an open can have built the pair anew,
  and its new tunnel is closed.  `terminal.py` 1977 calls it "a read-only
  enumeration".  No secret is misdirected (`CredentialsStayInTheTunnel`), but the
  session just reported is unusable.
* An authentication failure of an earlier login that is still within the lines
  that are looked at makes the next login in the same session report failure
  (`terminal.py` 1399).
* In a reused session whose password prompt is answered by hand between the look
  and the send, the password is typed to whoever reads next; the docstring of
  `_authenticate_managed_ssh_session` promises a send only while the prompt is
  showing.
* Any change of the pane settles a managed login as successful unless a denial or
  a prompt is in what is seen; a line of output before the refusal is enough.  `RefusalIsReported` counts the refusals that were printed
  by then.

*Host keys*

* `append_entry()` writes the line before the two fsyncs (`hostkey_tofu.py`
  606-610); if one fails, `register_unknown()` raises with the host registered;
  its docstring (682): "Raises HostKeyError (nothing registered, nothing sent)".
* `recover_changed()` looks up the old keys before it takes the signature that a
  later comparison uses (`hostkey_flow.py` 218, 228), so an edit between the two
  passes for none and the keys removed are not the ones displayed; 250:
  "known_hosts changed during review; nothing was modified". The same holds of an
  edit between the two signatures of `remove_host()` (`hostkey_store.py` 317,
  319), on which TLC refutes `RemovesWhatWasShown` if `hostkeys_shared` has an
  edit. A second CLI that replaces a key in between does the same, which is why
  `ShownIsRemoved` needs a single one.
* When a second key turns out to be changed and is not replaced, the command ends
  with "No host key was changed." (`main.py` 2008) after the first one was.
* `HostKeyStoreError` (a backup that cannot be made, a lock that times out) is no
  `DiscoveryError`; it passes `_run_discover_topology` (`main.py` 2003) and ends
  the CLI with a traceback.

*Discovery*

* The target is resolved by the preflight and again by the run (`main.py` 1988).
  If the selected access-info changes in between, a candidate that was made for
  one target is dropped for the result of another.
* Ctrl-C during the collection leaves `executor.__exit__` with threads still
  running; the clean-up closes sessions that a collector opens again afterwards,
  and those stay on the tmux server.  `discovery.py` 1335-1338: "every bootstrap
  session below is either fully collected or has already failed, never still in
  flight".  The interrupt then ends the CLI, whose loop handles it only at the
  prompt (`main.py` 2688).
* The clean-up stops at the first session that cannot be closed (`discovery.py`
  1341) and its error replaces the result.
* Two devices with one host name are silently taken for no device at all, so
  their links are missing rather than an error.  A stray line of one word before
  a row of a CDP table is taken for a wrapped identifier, and a wrapped row whose
  identifier was lost gives its interface, or half of it, as one.  Which of two
  contradictions is reported depends on the order of the observations.
* Two CLI processes share the names of the bootstrap sessions and close each
  other's.

*Logs*

* A session that starts between the second plan and the removal of the directory
  makes `rmdir` fail after the logs were unlinked; the `OSError` ends the CLI and
  with it the candidate.  `docs/architecture.md` 645-647: "an unexpected directory
  content can only ever block a plan at build time, never cause a partial deletion
  at apply time".  `DeletionIsWhole` excepts exactly this.
* If the directory is removed between `mkdir` and the start of `cat`, the session
  runs without a log; 608-609: "Every device session ... is logged".
* Two processes, or a tunnel and its telnet session, can choose one file name in
  the same second, since the file is created later; `terminal.py` 697-701: "rather
  than silently overwriting/appending to the earlier session's log".
* Two CLIs that delete the logs of one device, with a session that starts between
  the unlinks of the two in the second of a log that both plans name, could remove
  a log in use; the model has one CLI.

*Text, not modelled*

* `terminal monitor` finds what is new by comparing whole lines, so an unfinished
  prompt line that grows counts as a new session: each typed command prints
  "resumed" and up to `DEFAULT_READ_LINES` old lines (`main.py` 1451);
  `docs/cli_reference.md` 216 and 232: markers "never on every ordinary poll",
  "New output is appended exactly once".
* `delete logging a...` with a device whose name is a prefix of "all", whatever
  the case, is read as the keyword.

## 4. What is proved

Each theorem holds for every value of the constants that meets the assumptions
of its module, for any number of processes, threads, devices and calls.

| Module | Theorem | Assumes | Says |
|---|---|---|---|
| `CandidateCommitProofs` | `TypeCorrect` | - | `TypeOK`, including that no session has a slot open on nothing |
| | `StoredLabSafe` | - | only valid contents are stored; no two spellings of a name on a folding filesystem |
| | `CreationIsExclusive` | - | `CreateNeverOverwrites` |
| | `SessionTracksLab` | `SingleWriter` | the inductive invariant `Tracking` |
| | `RetrySucceeds` | `SingleWriter` | `KeptCandidateCommits` |
| | `CliImplementsCommittedLab` | `SingleWriter` | `ImplementsCommittedLab` |
| | `NothingDangles` | `SingleWriter` | `NoNewDangling` |
| | `SuccessIsPersisted` | `SingleWriter` | `SuccessMeansPersisted` |
| | `ManualEditsAreKept` | - | `DiscoveryKeepsManualEdits` |
| | `NoAliases` | - | `NoAliasedPair` |
| | `ReferencesAreNetZero` | - | `NetZero` of `ReferenceOrder`, for lists of any length, also with duplicates |
| | `CommandsActOnTheSet` | `OnceEach` | every command of `ReferenceOrder` does to the names on its list what the command of `CandidateCommit` does to its set |
| `HostKeysProofs` | `LockIsExclusive` | - | `HolderIsLocked` |
| | `WritesAreLocked` | - | `WritesOneHostUnderLock` |
| | `TypeCorrect` | - | `TypeOK`, and that no step works without a hop or a key in hand |
| | `ReplacementsAreExact` | - | `ReplacementIsExact` |
| | `OneKeyPerHost` | `Careful` | `OneEntryEach` |
| | `RegisteredKeysChangeByApproval` | `Careful` | `ChangesNeedApproval` |
| | `TrustedStayRegistered` | `Steady` | `TrustedHopsAreRegistered` |
| | `ShownIsRemoved`, `ShownIsRestored` | `Alone` | `RemovesWhatWasShown`, `RestoredKeepsOld` |
| `TelnetTunnelProofs` | `TypeCorrect` | - | `TypeOK` |
| | `CredentialsAreSafe` | - | `CredentialsStayInTheTunnel` |
| | `NoHalfSessions` | - | `PairsAreWhole` |
| | `InputIsForProvenSessions` | - | `InputGoesToProvenSession` |
| | `Refinement` | - | `ImplementsLogicalSession` |
| `TerminalSessionsProofs` | `TypeCorrect` | `NoPrefixes` | `TypeOK` |
| | `InputIsDelivered` | `NoPrefixes` | `InputReachesItsSession` |
| | `PasswordsMeetTheirPrompts` | `NoPrefixes` | `PasswordMeetsItsPrompt` |
| | `SessionsAreComplete` | `NoPrefixes` | `SessionsAreReady` |
| `ManagedAuthProofs` | `TypeCorrect` | - | `TypeOK` |
| | `SecretsAreMet` | - | `SecretsMeetTheirHop` |
| | `JumpRefusesOnceOnly` | - | `JumpRefusesOnce` |
| | `RefusalsAreReported` | - | `RefusalIsReported` |
| `DiscoveryRunProofs` | `TypeCorrect` | - | `TypeOK` |
| | `NoSessionLeft` | - | `NothingLeftOpen` |
| | `CandidateFromOneAttempt` | - | `CandidateIsOneAttempt` |
| | `LinksAreExact` | - | the links of any list of observations are those that face a managed device, or Discovery fails |
| | `RowsAreExact` | - | the rows that are read are those that the tables tell, of any lines |
| | `IdentitiesAreExact` | - | a neighbor is resolved to a device only by a name that no other device has, and to the only device that has the name |
| | `CandidateIsExact` | - | a new candidate has the links that the tables of all targets, answered in one attempt, tell of managed devices, and no others: the step theorem that rests on `RowsAreExact` and `LinksAreExact` |
| `TerminalLogsProofs` | `TypeCorrect` | - | `TypeOK` |
| | `LiveLogsAreKept` | - | `LiveLogsStay` |
| | `DeletionsAreWhole` | - | `DeletionIsWhole` |
| `LabQueriesProofs` | `TypeCorrect` | - | `TypeOK` |
| | `AnswersAreRight` | - | `AnswersAreCurrent` |
| | `DrivingIsActive` | - | `DrivenOnlyIfActive` |

The conditions in the third column:

* `SingleWriter`: at most one CLI process.  It is the repository's own assumption
  ("the CLI is the single writer of lab definitions", `lab.py` 1014) and it is
  needed: with two writers a definition that another session is about to select
  can be deleted, and a kept candidate can stop being valid.
* `OnceEach`: no settings file lists a reference twice.  No command writes such a
  list (`add_reference()` refuses a name that is there), only a hand can; with a
  duplicate, a removal takes one of the two away and the name stays selected.
* `Careful`: nobody edits the files by hand, no fsync fails after its write, no
  answer of `ssh-keygen` is wrong, and the file lists at most one key of a host at
  first.  `Steady`: also neither the clean-up nor the restoration of a replacement
  fails and nobody crashes.  `Alone`: `Careful`, and at most one CLI; section 3
  says what a second one, or an edit, does during a review.
* `NoPrefixes`: no session name begins another one.  `terminal_name_prefix` shows
  what happens otherwise.

**The arguments.**  None of the properties is inductive; each depends on what an
actor knows between two operations.

* *Commits.*  `Tracking` states what a session believes about the files, stage by
  stage: what was loaded is what is stored; a commit that has begun is still
  valid; after the settings write of a deletion the definition is unselected on
  disk; after the definition write of a creation the definition exists and the
  original is the candidate; a kept candidate is dirty and valid.  The refinement
  maps every step to `Save`, `Delete`, `Reselect` or no change; the lemma
  `LabStep` reduces the whole next-state relation to those three writes, and
  `StoredLabSafe` and `CreationIsExclusive` use it without `SingleWriter`.
  `SettingsFirst` adds that a file is removed only after the settings were
  written, which is what a successful deletion rests on; `Unharmed`, that every
  change of the operator counts as an edit and that the preflight of a Discovery
  lets no dirty, edited definition through, whichever its target will be.
* *Host keys.*  `LockInv`: being at a locked step is the same as being the holder.
  Three lemmas cover the ways a step can move an actor (stay on its side of the
  lock, release and go on, end).  `WorkInv` says that who handles a hop or a key
  has one.  `KnowledgeInv` is what the holder knows at each step, since nobody
  else writes: no line of the host before the append and after the removal, the
  key in hand alone before the second check, one line in the backup, and the
  other hosts' lines as they were.  `GrantInv` keeps the approval until its use,
  `TrustInv` allows a trusted host to be missing only within its replacement
  (`Gap`), and `SeenInv` carries what was shown to the removal.
* *Telnet.*  For each thread at each step: what it knows of the pair it works on
  (`Known`), which pairs are sane whoever looks (`Sane`), and that every half
  session is accounted for by the thread that holds its lock (`Accounted`); a
  listing, which has no lock, can take only the tunnel away, and `Owned` is then
  false.  The refinement is a case distinction over the stages of
  `LogicalSession`.
* *Terminals.*  A name that is no prefix resolves to its own session or to none;
  pane identities are never given twice while the server lives, so one that was
  verified is the pane of its session or of nobody (`Distinct`); the creator's
  lock covers everything that is half made (`Known`, `Settled`).
* *Login.*  The difficulty is that the step that types acts on a screen that was
  read before.  `HopInv` says where the hop must be: a prompt that is on the screen
  and whose secret has not been typed can only be the present one, since a hop
  leaves it by being answered or by disconnecting.  `TextInv` says what the login
  had read when it decided to type, and what it has read is a beginning of what the
  screen shows; so the prompt it answers is still the one it saw.  `StepInv` says
  which secrets cannot have been typed yet at each step, which gives that none is
  typed twice.  `DenialInv` keeps a refusal among the lines that have come since the
  password, so that the settling meets it.  `ProbeInv` counts: the refusals of a
  command are those of probes that ended before they read the answer, of the one
  under way, and at most one that was read, which stops the others (`run.failed`).
* *Discovery.*  A future that is done does not come back without a new attempt,
  and all of an attempt are submitted together (`SameAttempt`); a session is open
  only for a target in flight or still to be closed, or was given up
  (`SessionInv`).
* *Links.*  `SumInv` says what `reconcile_links()` knows after some of the
  observations: every link so far is an end that was observed, always with the same
  neighbor, and that neighbor; and unless there is a conflict, every end observed so
  far has a link that agrees with it.  A second link on an interface, an end linked
  to itself and an unmanaged neighbor on a linked interface are what
  `_fail_on_link_ambiguity()` refuses, so what is left is exact.  `CandidateIsExact`
  adds that the observations are those of all targets in any order (`ObservedIs`)
  and that what was collected is an answer of its device (`Answered`).
* *Tables.* The parsers go line by line with a state; what a table tells is said
  of the places of its lines. `InTable` are the lines after the first header up to
  the first line that ends it, and `LldpTold` has a neighbor for each of them that
  is a row. In `CdpTold` a line with a hold time takes the word alone on the last
  line above it (`Above`), if no other line with a hold time is between them, and
  its own first word otherwise; it tells nothing if that leaves no interface or
  there is no Port ID. `CdpIsTold` goes through the lines once: after each of them
  the rows are those told so far, and the pending identifier is the one above the
  next line.
* *References.*  The order of `Stabilized` depends on the committed list and on what
  was added since; without an addition or removal the selection picks every
  committed reference and nothing else (`Selecting`), which is the list itself, so a
  list that differs from the committed one differs as a set (`NetZero`).  While no
  list has a name twice (`Distinct`), putting one at the end or taking one away adds
  it to the set or removes it, and sorting changes nothing.  The two theorems stand
  in `CandidateCommitProofs`, since they are why `CandidateCommit` may keep the
  selection as a set.
* *Lists.*  The lists of the code are of any length, and the library's induction
  theorems cannot be instantiated here.  `Induction` and `Recursion` (in
  `HostKeysProofs` and `DiscoveryRunProofs`; the first also in
  `CandidateCommitProofs`) say the same without an operator as a
  parameter: of the set of places at which something holds, and of a function for
  the next value, from the well-foundedness of `<`.  With them the recursive
  functions of the models (`AllVisits`, `Picked`, `ParseCdp`, `Reconcile`,
  `Observed`, `Selected`) are shown to exist, to have the expected types and to
  return what the code means.
* *Logs.*  A log in use was either created after the plan listed its directory, so
  the plan does not have it, or belongs to a session that was seen as active; a
  confirmed plan is the same as the one built after the answer.
* *Readers.* `FollowInv` says of every call that has met at most one commit what
  it knows. `Traced`: the moments end with the lab as it is now, and the
  definitions in them are those of the beginning or those of now. `Reading`: what
  was read of the active definitions, and what is still to be read, are of one
  moment with the settings of the snapshot; only what a deletion has removed may
  be missing. A commit that writes a definition not read yet moves that moment to
  the present, and this needs that the settings are still those of the snapshot
  (`Untouched`, `Pristine`): the order of the writes of `commit()` gives it, since
  a definition is written before the settings that select it and removed after
  those that no longer do. `Collecting`: for some threshold, the sections of the
  instructions up to it are of the first definitions and the later ones, as far as
  they can still be read, of those there now; in the section in progress
  (`InProgress`) the one name between its check and its read may be gone. The one
  write decides where the threshold is: behind the section in progress if that has
  passed the name, before it if not, and at the end if no section can see the
  change any more. `Settled` is the property itself, kept while the call waits for
  its session. A second commit would break all of it, so the theorems speak of
  calls that overlap at most one.

**Assumptions about data.**  The constants are assumed to be what the instances
define them as: `IdentityAssumption`, `BodyAssumption` and
`InitialLabsAssumption` (the initial labs are labs the commands could have left,
except that they may select missing definitions), `ShapeAssumption` (a device has
at least one hop, terminals and CLIs differ), `InitialSessionsAssumption` and
`InitialServersAssumption` (what an earlier process left is complete),
`LabsAssumption` (the labs found at the start are settings and files of the
model, and no definition is mistaken for its absence).
`OutputsAssumption` (a device answers with lines), `LinksAssumption` (a canonical
interface name is its own canonical name; lower case and short names are names)
and `SelectionAssumption` (a loaded selection is a list of references, or absent).
That the hops of all targets and the order of the targets are what they should be
is proved (`AllVisitsAreVisits`, `TargetOrderIs`).
TLC evaluates all of them in the runs.

**Only model-checked.**  Liveness (`CallsReturn`, `CallsEnd`, `LoginEnds`,
`DiscoverEnds`), which is out of the proof system's reach, and `LinksAreStated`: it
compares a candidate with what an instance says that its texts mean, so for every
text it would be an assumption about texts.  What can be said without one is
proved: from lines to rows (`RowsAreExact`), from names to devices
(`IdentitiesAreExact`), from rows to links (`CandidateIsExact`).

## 5. Plan

Done, in this order: `CandidateCommit` with `CommittedLab`; `ReferenceOrder`;
`TerminalSessions`; `HostKeys`; `TelnetTunnel` with `LogicalSession`;
`ManagedAuth`; `LabQueries`; `NeighborLinks` and `DiscoveryRun`; `TerminalLogs`;
and the proofs of section 4.

What would come next:

1. A second MCP process in `TerminalSessions`, with locks of its own: which of the
   properties survive, and which the code never promised.
2. `terminal monitor` as a cursor over a history that grows, is evicted and is
   recreated.  It is worth the effort once lines are compared as something else
   than text (section 3).

## 6. Not modelled

* The command grammar with completion and paste handling, rendering, locale
  selection and SSH isolation: they transform text in one call without shared
  state, or run once at the start, and the repository's tests exercise them with
  examples.  `terminal monitor`: what it does wrong, it does to text.
* The columns of a line of a table, the interface and routing tables of the L3
  part of a Discovery, and the syntax of what `lsof` and `ssh-keygen` print.
* Duplicate references and other contents only a hand-written `settings.yaml` can
  have; definitions edited by hand while the CLI runs; two CLI processes that
  write the settings at once, which the repository excludes; symbolic links; the
  shared temporary name of two simultaneous replacements.
* Of the host keys: the format of `known_hosts` lines (hashed names, patterns,
  markers, which only make a state unclear or a removal refused), an `ssh-keygen`
  that hangs, reading `/dev/tty`, and the lifetime of an approval.
* A second server process on the same tmux server, and the sessions of the
  repository's own device tests.
