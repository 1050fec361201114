-------------------------- MODULE LabQueriesProofs --------------------------
(***************************************************************************)
(* For any number of threads, names, definitions and commits: a call whose *)
(* reads meet at most one commit answers section by section for moments of *)
(* the lab that never go back, and a session is used only for a device     *)
(* that was active at such a moment.                                       *)
(***************************************************************************)
EXTENDS LabQueries, SequenceTheorems, TLAPS

PartOps == {"get_topology", "get_instructions", "open", "drive"}

-----------------------------------------------------------------------------
(* Types.                                                                  *)

CommitInv ==
  /\ commit \in [at : {"none", "settings", "file"}, kind : Kind \cup {None},
                 name : Name \cup {None}, new : {None} \cup Definition,
                 select : {None} \cup Selection]
  /\ commit.at = "none" => commit = NoCommit
  /\ commit.at # "none" => commit.select \in Selection
  /\ commit.at = "file" \/ commit.kind # None => commit.kind \in Kind /\ commit.name \in Name

(* What a call has at each of its steps.                                   *)
Shape(r) ==
  /\ r.at # "idle" => r.op \in Ops
  /\ r.at \in {"settings", "part"} => r.op \in PartOps /\ r.result = << >> /\ r.listed = << >>
  /\ r.at = "settings" => r.got = << >>
  /\ r.at = "part" => r.snap \in Selection /\ Len(r.got) < Len(Parts(r.op))
  /\ r.at \in {"list", "check", "load"} => r.op = "get_instructions"
  /\ r.at = "list" => Len(r.result) = 1 /\ Len(r.listed) \in {0, 1}
  /\ r.at \in {"check", "load"} => Len(r.result) \in 1..4 /\ Len(r.listed) = 2
  /\ r.at = "load" => r.todo # {}
  /\ r.at \in {"waiting", "holding"} => r.op \in {"open", "drive", "close"}
  /\ r.at \in {"waiting", "holding"} /\ r.op = "open" => Len(r.got) = 2
  /\ r.at \in {"waiting", "holding"} /\ r.op # "close" => Len(r.result) = 1 /\ r.result # Error
  /\ r.op = "close" => r.result = << >>

TypeInv ==
  /\ selected \in Selection /\ stored \in Files
  /\ CommitInv
  /\ session \in Address \cup {None} /\ lock \in Worker \cup {None}
  /\ worker \in [Worker -> CallState]
  /\ \A w \in Worker : Shape(worker[w]) /\ (worker[w].at = "holding" <=> lock = w)
  /\ met \in [Worker -> Nat] /\ moments \in [Worker -> Seq(Lab)]
  /\ calls \in 0..MaxCalls /\ commits \in 0..MaxCommits

LEMMA NobodyIsNone == None \notin Worker
BY QueriesAssumption

LEMMA PartsOfOps ==
  /\ \A op \in PartOps : /\ Parts(op) \in Seq(Kind)
                         /\ Len(Parts(op)) \in {1, 2} /\ 0 < Len(Parts(op))
                         /\ \A i, j \in 1..Len(Parts(op)) : Parts(op)[i] = Parts(op)[j] => i = j
  /\ Len(Parts("open")) = 2
BY DEF PartOps, Parts, Kind

LEMMA FoundTypes ==
  ASSUME NEW kind \in Kind, NEW selection \in Selection, NEW files \in Files
  PROVE  Found(kind, selection, files) \in Definition \cup {None}
BY DEF Found, Selection, Files, Definition, Blank

LEMMA NoCommitTypes == NoCommit \in [at : {"none", "settings", "file"}, kind : Kind \cup {None},
                                     name : Name \cup {None}, new : {None} \cup Definition,
                                     select : {None} \cup Selection]
BY DEF NoCommit

LEMMA IdleTypes == Idle \in CallState /\ Shape(Idle) /\ Idle.at = "idle"
<1>1. NoRequest \in [{"scenario", "reference"} -> SUBSET Name] /\ {} \in Sections
  BY DEF NoRequest, Sections
<1>2. Idle \in CallState /\ Idle.at = "idle" /\ Idle.op = "none" /\ Idle.result = << >>
  BY <1>1 DEF Idle, CallState
<1> QED BY <1>2 DEF Shape

LEMMA ErrorTypes == /\ Failed \in Sections /\ Error \in Seq(Sections) /\ Error # << >>
                    /\ Len(Error) = 1 /\ Error[1] = Failed /\ Blank \in Definition
<1>1. Blank \in Definition
  BY DEF Blank, Definition
<1>2. Failed \in Sections
  BY <1>1 DEF Failed, Sections
<1> QED BY <1>1, <1>2 DEF Error

LEMMA AnswerTypes ==
  ASSUME NEW op \in PartOps, NEW got \in Seq(Definition), Len(got) = Len(Parts(op))
  PROVE  Answer(op, got) \in Sections
<1>1. got[1] \in Definition /\ (op \in {"get_instructions", "open"} => got[2] \in Definition)
  BY DEF PartOps, Parts
<1>2. CASE op = "get_topology"
  BY <1>1, <1>2 DEF Answer, Sections
<1>3. CASE op = "get_instructions"
  BY <1>1, <1>3 DEF Answer, Sections
<1>4. CASE op = "drive"
  BY <1>4, ErrorTypes DEF Answer, Sections
<1>5. CASE op = "open"
  BY <1>1, <1>5, ErrorTypes DEF Answer, Resolved, Sections
<1> QED BY <1>2, <1>3, <1>4, <1>5 DEF PartOps

LEMMA EntryTypes ==
  ASSUME NEW entries \in Sections, NEW n \in Name, NEW says \in Definition
  PROVE  entries \cup {<<n, says>>} \in Sections
BY DEF Sections

(* A call moves, everything that the others depend on stays.               *)
LEMMA CallMoves ==
  ASSUME TypeInv, NEW w \in Worker, NEW r \in CallState, Shape(r),
         worker' = [worker EXCEPT ![w] = r],
         r.at # "holding", worker[w].at # "holding",
         UNCHANGED <<disk, commit, session, lock, commits>>, calls' \in 0..MaxCalls,
         met' \in [Worker -> Nat], moments' \in [Worker -> Seq(Lab)]
  PROVE  TypeInv'
<1>1. worker' \in [Worker -> CallState]
  BY DEF TypeInv
<1>2. \A v \in Worker : Shape(worker'[v]) /\ (worker'[v].at = "holding" <=> lock = v)
  BY DEF TypeInv
<1> QED BY <1>1, <1>2 DEF TypeInv, disk, CommitInv

Ended(r, result) == [Idle EXCEPT !.op = r.op, !.asked = r.asked, !.at = "done", !.result = result]

LEMMA EndedTypes ==
  ASSUME NEW r \in CallState, Shape(r), r.op \in Ops, NEW result \in Seq(Sections),
         r.op = "close" => result = << >>
  PROVE  /\ Ended(r, result) \in CallState /\ Shape(Ended(r, result))
         /\ Ended(r, result).at = "done" /\ Ended(r, result).op = r.op
         /\ Ended(r, result).asked = r.asked /\ Ended(r, result).result = result
<1> DEFINE s == Ended(r, result)
<1>1. s \in CallState /\ s.op = r.op /\ s.asked = r.asked /\ s.at = "done" /\ s.result = result
  BY IdleTypes DEF Ended, Idle, CallState
<1> HIDE DEF s
<1>2. Shape(s)
  BY <1>1 DEF Shape
<1> QED BY <1>1, <1>2 DEF s

LEMMA ReturnTypes ==
  ASSUME TypeInv, NEW w \in Worker, worker[w].at \notin {"idle", "holding"},
         NEW result \in Seq(Sections), worker[w].op # "close", Return(w, result), Reads
  PROVE  TypeInv'
<1>1. /\ worker' = [worker EXCEPT ![w] = Ended(worker[w], result)]
      /\ worker[w] \in CallState /\ Shape(worker[w]) /\ worker[w].op \in Ops
  BY DEF Return, Ended, TypeInv, Shape
<1>2. met' \in [Worker -> Nat] /\ moments' \in [Worker -> Seq(Lab)] /\ calls' \in 0..MaxCalls
  BY DEF Reads, TypeInv
<1> QED BY <1>1, <1>2, EndedTypes, CallMoves DEF Reads

LEMMA BeginCommits ==
  ASSUME TypeInv, Begin
  PROVE  CommitInv' /\ commit'.at # "none"
<1>1. ASSUME NEW sel \in Selections, commit' = [NoCommit EXCEPT !.at = "settings", !.select = sel]
      PROVE  CommitInv' /\ commit'.at # "none"
  <2>1. sel \in Selection
    BY QueriesAssumption DEF Selection
  <2> QED BY <1>1, <2>1 DEF CommitInv, NoCommit
<1>2. ASSUME NEW sel \in Selections, NEW k \in Kind, NEW n \in Name, NEW new \in Content[k] \cup {None},
             NEW step \in {"settings", "file"},
             commit' = [at |-> step, kind |-> k, name |-> n, new |-> new, select |-> sel]
      PROVE  CommitInv' /\ commit'.at # "none"
  <2>1. sel \in Selection
    BY QueriesAssumption DEF Selection
  <2>2. new \in {None} \cup Definition
    BY QueriesAssumption DEF Definition
  <2> QED BY <1>2, <2>1, <2>2 DEF CommitInv
<1>3. ASSUME NEW sel \in Selections, NEW k \in Kind, NEW n \in Name, NEW new \in Content[k] \cup {None},
             commit' = [at |-> IF new = None /\ sel # selected THEN "settings" ELSE "file",
                        kind |-> k, name |-> n, new |-> new, select |-> sel]
      PROVE  CommitInv' /\ commit'.at # "none"
  BY <1>2, <1>3
<1> QED BY <1>1, <1>3 DEF Begin

LEMMA BeginTypes ==
  ASSUME TypeInv, Begin
  PROVE  TypeInv'
<1>1. met' \in [Worker -> Nat]
  BY DEF Begin, TypeInv
<1>2. moments' \in [Worker -> Seq(Lab)]
  BY DEF Begin, TypeInv
<1>3. UNCHANGED <<disk, session, lock, worker, calls>> /\ commits' \in 0..MaxCommits
  BY QueriesAssumption DEF Begin, TypeInv
<1> QED BY <1>1, <1>2, <1>3, BeginCommits DEF TypeInv, disk

(* The file operation of a commit changes one definition.                  *)
LEMMA Written ==
  ASSUME TypeInv, CommitStep, commit.at = "file"
  PROVE  /\ commit.kind \in Kind /\ commit.name \in Name /\ commit.new \in Definition \cup {None}
         /\ selected' = selected /\ stored' \in Files
         /\ \A k \in Kind, n \in Name : stored'[k][n] = IF k = commit.kind /\ n = commit.name
                                                      THEN commit.new ELSE stored[k][n]
<1>1. commit.kind \in Kind /\ commit.name \in Name /\ commit.new \in Definition \cup {None}
  BY DEF TypeInv, CommitInv
<1>2. stored' = [stored EXCEPT ![commit.kind][commit.name] = commit.new] /\ selected' = selected
  BY DEF CommitStep
<1>3. stored[commit.kind] \in [Name -> Definition \cup {None}]
  BY <1>1 DEF TypeInv, Files
<1>4. [stored[commit.kind] EXCEPT ![commit.name] = commit.new] \in [Name -> Definition \cup {None}]
  BY <1>1, <1>3
<1>5. stored' = [stored EXCEPT ![commit.kind] = [stored[commit.kind] EXCEPT ![commit.name] = commit.new]]
  BY <1>1, <1>2 DEF TypeInv, Files
<1>6. stored' \in Files
  BY <1>1, <1>4, <1>5 DEF TypeInv, Files
<1> QED BY <1>1, <1>2, <1>6 DEF TypeInv, Files

LEMMA CommitStepTypes ==
  ASSUME TypeInv, CommitStep
  PROVE  TypeInv'
<1>c. CommitInv
  BY DEF TypeInv
<1>1. selected' \in Selection /\ stored' \in Files /\ CommitInv'
  <2>1. CASE commit.at = "settings"
    <3>1. selected' \in Selection /\ stored' \in Files
      BY <2>1, <1>c DEF CommitStep, TypeInv, CommitInv
    <3>2. CommitInv'
      BY <2>1, <1>c, NoCommitTypes DEF CommitStep, CommitInv, FileFollows, NoCommit
    <3> QED BY <3>1, <3>2
  <2>2. CASE commit.at = "file"
    <3>1. selected' \in Selection /\ stored' \in Files
      BY <2>2, Written DEF TypeInv
    <3>2. CommitInv'
      BY <2>2, <1>c, NoCommitTypes DEF CommitStep, CommitInv, NoCommit
    <3> QED BY <3>1, <3>2
  <2> QED BY <2>1, <2>2 DEF CommitStep
<1>2. moments' \in [Worker -> Seq(Lab)]
  <2> DEFINE now == [selected |-> selected', stored |-> stored']
  <2>1. now \in Lab
    BY <1>1 DEF Lab
  <2>2. moments' = [w \in Worker |-> IF Recorded(w) THEN Append(moments[w], now) ELSE moments[w]]
    BY DEF CommitStep
  <2> HIDE DEF now
  <2> QED BY <2>1, <2>2 DEF TypeInv
<1> QED BY <1>1, <1>2 DEF CommitStep, TypeInv

LEMMA CallTypesKept ==
  ASSUME TypeInv, NEW w \in Worker, NEW op \in Ops,
         NEW asked \in [{"scenario", "reference"} -> SUBSET Name], Call(w, op, asked)
  PROVE  TypeInv'
<1> DEFINE r == [Idle EXCEPT !.op = op, !.asked = asked, !.at = FirstStep(op)]
<1>1. worker' = [worker EXCEPT ![w] = r] /\ worker[w].at = "idle"
  BY DEF Call, Busy
<1>2. FirstStep(op) \in {"waiting", "settings"} /\ (FirstStep(op) = "waiting" <=> op = "close")
      /\ (FirstStep(op) = "settings" => op \in PartOps)
  BY DEF FirstStep, Ops, PartOps
<1>3. r \in CallState /\ Shape(r) /\ r.at # "holding"
  <2>1. /\ r \in CallState /\ r.op = op /\ r.at = FirstStep(op)
        /\ r.result = << >> /\ r.got = << >> /\ r.listed = << >>
    BY <1>2, IdleTypes DEF Idle, CallState
  <2> HIDE DEF r
  <2> QED BY <1>2, <2>1 DEF Shape
<1> HIDE DEF r
<1>4. met' \in [Worker -> Nat]
  BY DEF Call, TypeInv
<1>5. moments' \in [Worker -> Seq(Lab)]
  <2>1. [selected |-> selected, stored |-> stored] \in Lab
    BY DEF TypeInv, Lab
  <2> QED BY <2>1 DEF Call, TypeInv
<1>6. calls' \in 0..MaxCalls
  BY QueriesAssumption DEF Call, TypeInv
<1> QED BY <1>1, <1>3, <1>4, <1>5, <1>6, CallMoves DEF Call

(* One lemma for each step: what it makes of the call.                     *)
LEMMA PartShape ==
  ASSUME NEW s, s.at = "part", s.op \in PartOps, s.snap \in Selection, Len(s.got) < Len(Parts(s.op)),
         s.result = << >>, s.listed = << >>
  PROVE  Shape(s)
BY DEF Shape, PartOps, Ops

LEMMA ReadSettingsMoves ==
  ASSUME TypeInv, NEW w \in Worker, ReadSettings(w)
  PROVE  LET r == worker[w]
             s == [r EXCEPT !.at = "part", !.snap = selected]
         IN /\ r.at = "settings" /\ r.op \in PartOps /\ r.got = << >>
            /\ worker' = [worker EXCEPT ![w] = s] /\ Reads
            /\ s \in CallState /\ Shape(s)
            /\ s.at = "part" /\ s.op = r.op /\ s.snap = selected /\ s.got = << >>
            /\ s.entries = r.entries
<1> DEFINE r == worker[w]
           s == [r EXCEPT !.at = "part", !.snap = selected]
<1>1. r \in CallState /\ Shape(r) /\ r.at = "settings" /\ Reads /\ worker' = [worker EXCEPT ![w] = s]
  BY DEF ReadSettings, TypeInv
<1>2. r.op \in PartOps /\ r.got = << >> /\ r.result = << >> /\ r.listed = << >>
  BY <1>1 DEF Shape
<1>3. /\ s \in CallState /\ s.op = r.op /\ s.at = "part" /\ s.snap = selected /\ s.got = r.got
      /\ s.result = r.result /\ s.listed = r.listed /\ s.entries = r.entries /\ selected \in Selection
  BY <1>1 DEF CallState, TypeInv
<1> HIDE DEF s
<1>4. Len(s.got) < Len(Parts(s.op))
  <2>1. Len(s.got) = 0
    <3>1. s.got = << >>
      BY <1>2, <1>3
    <3> QED BY <3>1
  <2>2. 0 < Len(Parts(s.op))
    BY <1>2, <1>3, PartsOfOps
  <2> QED BY <2>1, <2>2
<1>5. Shape(s)
  BY <1>2, <1>3, <1>4, PartShape
<1> QED BY <1>1, <1>2, <1>3, <1>5 DEF s

Read(r, got, step, result) == [r EXCEPT !.got = got, !.at = step, !.result = result]

LEMMA ReadPartMoves ==
  ASSUME TypeInv, NEW w \in Worker, ReadPart(w)
  PROVE  LET r == worker[w]
             part == Found(Parts(r.op)[Len(r.got) + 1], r.snap, stored)
             got == Append(r.got, part)
             all == Len(got) = Len(Parts(r.op))
             answer == Answer(r.op, got)
         IN /\ r.at = "part" /\ r.op \in PartOps /\ Reads
            /\ part # None => got \in Seq(Definition) /\ Len(got) = Len(r.got) + 1
            /\ \/ part = None /\ Return(w, Error)
               \/ /\ part # None /\ Len(got) < Len(Parts(r.op))
                  /\ worker' = [worker EXCEPT ![w] = Read(r, got, "part", << >>)]
               \/ /\ part # None /\ all /\ (r.op = "get_topology" \/ answer = Failed)
                  /\ Return(w, <<answer>>)
               \/ \E step \in {"list", "waiting"} :
                    /\ part # None /\ all /\ answer # Failed
                    /\ r.op \in IF step = "list" THEN {"get_instructions"} ELSE {"open", "drive"}
                    /\ worker' = [worker EXCEPT ![w] = Read(r, got, step, <<answer>>)]
<1> DEFINE r == worker[w]
           part == Found(Parts(r.op)[Len(r.got) + 1], r.snap, stored)
           got == Append(r.got, part)
           answer == Answer(r.op, got)
<1>1. r \in CallState /\ Shape(r) /\ r.at = "part" /\ Reads /\ r.op \in PartOps
      /\ r.snap \in Selection /\ Len(r.got) < Len(Parts(r.op)) /\ r.got \in Seq(Definition)
  BY DEF ReadPart, TypeInv, Shape, CallState
<1>2. part \in Definition \cup {None}
  <2>1. Parts(r.op)[Len(r.got) + 1] \in Kind
    BY <1>1, PartsOfOps
  <2> QED BY <1>1, <2>1, FoundTypes DEF TypeInv
<1>3. part # None => got \in Seq(Definition) /\ Len(got) = Len(r.got) + 1
  BY <1>1, <1>2
<1>4. ASSUME NEW step \in {"part", "list", "waiting"},
             worker' = [worker EXCEPT ![w].got = got, ![w].at = step,
                          ![w].result = IF step = "part" THEN << >> ELSE <<answer>>]
      PROVE  worker' = [worker EXCEPT ![w] = Read(r, got, step, IF step = "part" THEN << >> ELSE <<answer>>)]
  BY <1>4 DEF Read, TypeInv
<1> DEFINE goes(step) == worker' = [worker EXCEPT ![w].got = got, ![w].at = step,
                                     ![w].result = IF step = "part" THEN << >> ELSE <<answer>>]
<1>5. \/ part = None /\ Return(w, Error)
      \/ part # None /\ Len(got) < Len(Parts(r.op)) /\ goes("part")
      \/ /\ part # None /\ Len(got) = Len(Parts(r.op))
         /\ IF r.op = "get_topology" \/ answer = Failed
            THEN Return(w, <<answer>>)
            ELSE goes(IF r.op = "get_instructions" THEN "list" ELSE "waiting")
  BY DEF ReadPart, Snapshot
<1>6. goes("part") => worker' = [worker EXCEPT ![w] = Read(r, got, "part", << >>)]
  BY <1>4
<1>7. \A step \in {"list", "waiting"} :
        goes(step) => worker' = [worker EXCEPT ![w] = Read(r, got, step, <<answer>>)]
  BY <1>4
<1>8. r.op # "get_topology" /\ r.op # "get_instructions" => r.op \in {"open", "drive"}
  BY <1>1 DEF PartOps
<1> HIDE DEF part, got, answer, goes, r
<1>9. \/ part = None /\ Return(w, Error)
      \/ /\ part # None /\ Len(got) < Len(Parts(r.op))
         /\ worker' = [worker EXCEPT ![w] = Read(r, got, "part", << >>)]
      \/ /\ part # None /\ Len(got) = Len(Parts(r.op)) /\ (r.op = "get_topology" \/ answer = Failed)
         /\ Return(w, <<answer>>)
      \/ \E step \in {"list", "waiting"} :
           /\ part # None /\ Len(got) = Len(Parts(r.op)) /\ answer # Failed
           /\ r.op \in IF step = "list" THEN {"get_instructions"} ELSE {"open", "drive"}
           /\ worker' = [worker EXCEPT ![w] = Read(r, got, step, <<answer>>)]
  BY <1>5, <1>6, <1>7, <1>8
<1> QED BY <1>1, <1>3, <1>9 DEF part, got, answer, r

LEMMA PartReadTypes ==
  ASSUME NEW r \in CallState, Shape(r), r.at = "part",
         NEW got \in Seq(Definition), Len(got) < Len(Parts(r.op))
  PROVE  /\ Read(r, got, "part", << >>) \in CallState /\ Shape(Read(r, got, "part", << >>))
         /\ Read(r, got, "part", << >>).op = r.op /\ Read(r, got, "part", << >>).at = "part"
         /\ Read(r, got, "part", << >>).snap = r.snap /\ Read(r, got, "part", << >>).got = got
         /\ Read(r, got, "part", << >>).entries = r.entries
<1> DEFINE none == << >>
           step == "part"
           s == Read(r, got, step, none)
<1>0. /\ none \in Seq(Sections) /\ step \in {"part", "list"} /\ step = "part" /\ none = << >>
      /\ s = [r EXCEPT !.got = got, !.at = step, !.result = none]
  BY DEF Read
<1> HIDE DEF none, step, s
<1>1. /\ s \in CallState /\ s.op = r.op /\ s.snap = r.snap
      /\ s.got = got /\ s.at = step /\ s.result = none /\ s.listed = r.listed /\ s.entries = r.entries
  BY <1>0 DEF CallState
<1>2. r.op \in PartOps /\ r.listed = << >> /\ r.snap \in Selection
  BY DEF Shape
<1>3. Shape(s)
  BY <1>0, <1>1, <1>2, PartShape
<1>4. s = Read(r, got, "part", << >>)
  BY DEF s, step, none
<1>5. s.at = "part"
  BY <1>0, <1>1
<1> QED BY <1>1, <1>3, <1>4, <1>5

LEMMA ReadTypes ==
  ASSUME NEW r \in CallState, Shape(r), r.at = "part",
         NEW got \in Seq(Definition), NEW step \in {"list", "waiting"}, NEW result \in Seq(Sections),
         Len(result) = 1, result # Error, Len(got) = Len(Parts(r.op)),
         r.op \in IF step = "list" THEN {"get_instructions"} ELSE {"open", "drive"}
  PROVE  /\ Read(r, got, step, result) \in CallState /\ Shape(Read(r, got, step, result))
         /\ Read(r, got, step, result).op = r.op /\ Read(r, got, step, result).asked = r.asked
         /\ Read(r, got, step, result).listed = << >> /\ Read(r, got, step, result).entries = r.entries
         /\ Read(r, got, step, result).at = step /\ Read(r, got, step, result).result = result
<1> DEFINE s == Read(r, got, step, result)
<1>1. /\ s \in CallState /\ s.op = r.op /\ s.asked = r.asked
      /\ s.got = got /\ s.at = step /\ s.result = result /\ s.listed = r.listed /\ s.entries = r.entries
  BY DEF Read, CallState
<1>2. r.op \in PartOps /\ r.listed = << >>
  BY DEF Shape
<1> HIDE DEF s
<1>3. Shape(s)
  <2>1. CASE step = "list"
    <3>1. Len(s.listed) = 0 /\ Len(s.result) = 1
      <4>1. s.listed = << >>
        BY <1>1, <1>2
      <4> QED BY <1>1, <4>1
    <3> QED BY <1>1, <2>1, <3>1 DEF Shape, Ops
  <2>2. CASE step = "waiting"
    <3>1. s.op = "open" => Len(s.got) = 2
      BY <1>1, <2>2, PartsOfOps
    <3>2. Len(s.result) = 1 /\ s.result # Error /\ s.op \in {"open", "drive"}
      BY <1>1, <2>2
    <3> QED BY <1>1, <2>2, <3>1, <3>2 DEF Shape, Ops
  <2> QED BY <2>1, <2>2
<1> QED BY <1>1, <1>2, <1>3 DEF s

(* The names of one kind are listed.                                       *)
Lists(r, names) ==
  LET listed == Append(r.listed, names)
  IN [r EXCEPT !.listed = listed, !.at = IF Len(listed) = 2 THEN "check" ELSE "list",
               !.todo = IF Len(listed) = 2 THEN listed[1] ELSE {}]

LEMMA ListTypes ==
  ASSUME NEW r \in CallState, Shape(r), r.at = "list", NEW names \in SUBSET Name
  PROVE  /\ Lists(r, names) \in CallState /\ Shape(Lists(r, names))
         /\ Lists(r, names).op = r.op /\ Lists(r, names).asked = r.asked
         /\ Lists(r, names).result = r.result /\ Lists(r, names).entries = r.entries
         /\ Len(r.listed) = 0 => /\ Lists(r, names).at = "list" /\ Len(Lists(r, names).listed) = 1
                                /\ Lists(r, names).listed[1] = names
         /\ Len(r.listed) = 1 => /\ Lists(r, names).at = "check" /\ Len(Lists(r, names).listed) = 2
                                /\ Lists(r, names).listed[1] = r.listed[1]
                                /\ Lists(r, names).listed[2] = names
                                /\ Lists(r, names).todo = r.listed[1]
<1> DEFINE listed == Append(r.listed, names)
           s == Lists(r, names)
<1>1. r.op = "get_instructions" /\ Len(r.result) = 1 /\ Len(r.listed) \in {0, 1}
      /\ r.listed \in Seq(SUBSET Name) /\ r.result \in Seq(Sections)
  BY DEF Shape, CallState
<1>2. listed \in Seq(SUBSET Name) /\ Len(listed) = Len(r.listed) + 1
  BY <1>1
<1>3. Len(listed) = 2 => listed[1] \in SUBSET Name
  BY <1>2
<1>4. /\ Len(r.listed) = 0 => Len(listed) = 1 /\ listed[1] = names
      /\ Len(r.listed) = 1 => Len(listed) = 2 /\ listed[1] = r.listed[1] /\ listed[2] = names
  <2>1. /\ listed[Len(r.listed) + 1] = names
        /\ \A i \in 1..Len(r.listed) : listed[i] = r.listed[i]
    BY <1>1, AppendProperties
  <2> QED BY <1>2, <2>1
<1> HIDE DEF listed
<1>5. s = [r EXCEPT !.listed = listed, !.at = IF Len(listed) = 2 THEN "check" ELSE "list",
                    !.todo = IF Len(listed) = 2 THEN listed[1] ELSE {}]
  BY DEF Lists, listed
<1>6. /\ s \in CallState /\ s.op = r.op /\ s.asked = r.asked /\ s.result = r.result /\ s.entries = r.entries
      /\ s.listed = listed /\ s.at = (IF Len(listed) = 2 THEN "check" ELSE "list")
      /\ s.todo = IF Len(listed) = 2 THEN listed[1] ELSE {}
  BY <1>2, <1>3, <1>5 DEF CallState
<1> HIDE DEF s
<1>7. Shape(s)
  <2>1. s.at \in {"list", "check"} /\ s.op = "get_instructions" /\ Len(s.result) = 1 /\ Len(s.listed) = Len(listed)
    BY <1>1, <1>6
  <2>2. CASE Len(r.listed) = 0
    <3>1. Len(s.listed) = 1 /\ s.at = "list"
      BY <1>4, <1>6, <2>2
    <3> QED BY <2>1, <3>1 DEF Shape, Ops
  <2>3. CASE Len(r.listed) = 1
    <3>1. Len(s.listed) = 2 /\ s.at = "check"
      BY <1>4, <1>6, <2>3
    <3> QED BY <2>1, <3>1 DEF Shape, Ops
  <2> QED BY <1>1, <2>2, <2>3
<1> QED BY <1>4, <1>6, <1>7 DEF s

LEMMA ListMoves ==
  ASSUME TypeInv, NEW w \in Worker, List(w)
  PROVE  LET r == worker[w]
             names == Existing(stored[KindOf(Len(r.listed) + 2)])
         IN /\ r.at = "list" /\ Reads /\ names \in SUBSET Name
            /\ worker' = [worker EXCEPT ![w] = Lists(r, names)]
BY DEF List, TypeInv, Existing, Lists

(* A section is being read.                                                *)
LEMMA SectionTypes ==
  ASSUME NEW r \in CallState, Shape(r), r.at \in {"check", "load"}
  PROVE  /\ r.op = "get_instructions" /\ Current(r) \in 2..5 /\ Current(r) = Len(r.result) + 1
         /\ r.result \in Seq(Sections) /\ r.entries \in Sections /\ r.todo \in SUBSET Name
         /\ \A s : /\ Listed(r, s) \in SUBSET Name /\ r.asked[KindOf(s)] \in SUBSET Name
                   /\ KindOf(s) \in {"scenario", "reference"} /\ KindOf(s) \in Kind
         /\ r.todo # {} => NextName(r) \in r.todo
<1>1. /\ r.op = "get_instructions" /\ Len(r.result) \in 1..4 /\ Len(r.listed) = 2
      /\ r.listed \in Seq(SUBSET Name) /\ r.asked \in [{"scenario", "reference"} -> SUBSET Name]
      /\ r.result \in Seq(Sections) /\ r.entries \in Sections /\ r.todo \in SUBSET Name
  BY DEF Shape, CallState
<1>2. r.listed[1] \in SUBSET Name /\ r.listed[2] \in SUBSET Name
  BY <1>1
<1>3. Current(r) \in 2..5 /\ Current(r) = Len(r.result) + 1
  <2>1. \A l \in 1..4 : l + 1 \in 2..5
    OBVIOUS
  <2>2. Len(r.result) \in 1..4
    BY <1>1
  <2> QED BY <2>1, <2>2, Zenon DEF Current
<1>4. \A s : Listed(r, s) \in SUBSET Name /\ KindOf(s) \in {"scenario", "reference"} /\ KindOf(s) \in Kind
  BY <1>2 DEF Listed, KindOf, Kind
<1>5. r.todo # {} => NextName(r) \in r.todo
  BY DEF NextName
<1> QED BY <1>1, <1>3, <1>4, <1>5

Loads(r) == [r EXCEPT !.at = "load"]
Skips(r, n) == [r EXCEPT !.todo = @ \ {n}]
Adds(r, n, says) == [r EXCEPT !.at = "check", !.todo = @ \ {n}, !.entries = @ \cup {<<n, says>>}]
Begins(r, result, names) == [r EXCEPT !.result = result, !.todo = names, !.entries = {}]

LEMMA SectionShape ==
  ASSUME NEW s, s.at = "check" \/ (s.at = "load" /\ s.todo # {}), s.op = "get_instructions",
         Len(s.result) \in 1..4, Len(s.listed) = 2
  PROVE  Shape(s)
BY DEF Shape, Ops

LEMMA SectionMoves ==
  ASSUME NEW r \in CallState, Shape(r), r.at \in {"check", "load"}
  PROVE  /\ r.todo # {} => /\ Loads(r) \in CallState /\ Shape(Loads(r))
                           /\ Loads(r) = [op |-> r.op, at |-> "load", asked |-> r.asked, snap |-> r.snap,
                                got |-> r.got, listed |-> r.listed, todo |-> r.todo,
                                entries |-> r.entries, result |-> r.result]
         /\ \A n : r.at = "check" =>
                  /\ Skips(r, n) \in CallState /\ Shape(Skips(r, n))
                  /\ Skips(r, n) = [op |-> r.op, at |-> "check", asked |-> r.asked, snap |-> r.snap,
                       got |-> r.got, listed |-> r.listed, todo |-> r.todo \ {n},
                       entries |-> r.entries, result |-> r.result]
         /\ \A n \in Name, says \in Definition :
                  /\ Adds(r, n, says) \in CallState /\ Shape(Adds(r, n, says))
                  /\ Adds(r, n, says) = [op |-> r.op, at |-> "check", asked |-> r.asked, snap |-> r.snap,
                       got |-> r.got, listed |-> r.listed, todo |-> r.todo \ {n},
                       entries |-> r.entries \cup {<<n, says>>}, result |-> r.result]
         /\ \A result \in Seq(Sections), names \in SUBSET Name :
                  r.at = "check" /\ Len(result) \in 1..4 =>
                    /\ Begins(r, result, names) \in CallState /\ Shape(Begins(r, result, names))
                    /\ Begins(r, result, names) = [op |-> r.op, at |-> "check", asked |-> r.asked,
                         snap |-> r.snap, got |-> r.got, listed |-> r.listed, todo |-> names,
                         entries |-> {}, result |-> result]
<1>1. /\ r.op = "get_instructions" /\ Len(r.result) \in 1..4 /\ Len(r.listed) = 2
      /\ r.todo \in SUBSET Name /\ r.entries \in Sections /\ {} \in Sections
  BY DEF Shape, CallState, Sections
<1>2. ASSUME r.todo # {}
      PROVE  /\ Loads(r) \in CallState /\ Shape(Loads(r))
             /\ Loads(r) = [op |-> r.op, at |-> "load", asked |-> r.asked, snap |-> r.snap,
                  got |-> r.got, listed |-> r.listed, todo |-> r.todo,
                  entries |-> r.entries, result |-> r.result]
  <2> DEFINE s == Loads(r)
  <2>1. s \in CallState /\ s = [op |-> r.op, at |-> "load", asked |-> r.asked, snap |-> r.snap,
                  got |-> r.got, listed |-> r.listed, todo |-> r.todo,
                  entries |-> r.entries, result |-> r.result]
    BY DEF Loads, CallState
  <2>2. s.at = "load" /\ s.todo # {} /\ s.op = "get_instructions" /\ s.result = r.result /\ s.listed = r.listed
    BY <1>1, <1>2, <2>1
  <2> HIDE DEF s
  <2>3. Shape(s)
    BY <1>1, <2>2, SectionShape
  <2> QED BY <2>1, <2>3 DEF s
<1>3. ASSUME NEW n, r.at = "check"
      PROVE  /\ Skips(r, n) \in CallState /\ Shape(Skips(r, n))
             /\ Skips(r, n) = [op |-> r.op, at |-> "check", asked |-> r.asked, snap |-> r.snap,
                       got |-> r.got, listed |-> r.listed, todo |-> r.todo \ {n},
                       entries |-> r.entries, result |-> r.result]
  <2> DEFINE s == Skips(r, n)
             todo == r.todo \ {n}
  <2>0. todo \in SUBSET Name
    BY <1>1
  <2>3. s = [r EXCEPT !.todo = todo]
    BY DEF Skips, CallState
  <2> HIDE DEF todo, s
  <2>1. s \in CallState /\ s = [op |-> r.op, at |-> "check", asked |-> r.asked, snap |-> r.snap,
                  got |-> r.got, listed |-> r.listed, todo |-> todo,
                  entries |-> r.entries, result |-> r.result]
    BY <1>3, <2>0, <2>3 DEF CallState
  <2>2. s.at = "check" /\ s.op = "get_instructions" /\ s.result = r.result /\ s.listed = r.listed
    BY <1>1, <2>1
  <2>4. Shape(s)
    BY <1>1, <2>2, SectionShape
  <2> QED BY <2>1, <2>4 DEF s, todo
<1>4. ASSUME NEW n \in Name, NEW says \in Definition
      PROVE  /\ Adds(r, n, says) \in CallState /\ Shape(Adds(r, n, says))
             /\ Adds(r, n, says) = [op |-> r.op, at |-> "check", asked |-> r.asked, snap |-> r.snap,
                       got |-> r.got, listed |-> r.listed, todo |-> r.todo \ {n},
                       entries |-> r.entries \cup {<<n, says>>}, result |-> r.result]
  <2> DEFINE s == Adds(r, n, says)
             todo == r.todo \ {n}
             entries == r.entries \cup {<<n, says>>}
  <2>0. todo \in SUBSET Name /\ entries \in Sections
    BY <1>1, EntryTypes
  <2>1. s = [r EXCEPT !.at = "check", !.todo = todo, !.entries = entries]
    BY DEF Adds, CallState
  <2> HIDE DEF todo, entries, s
  <2>2. s \in CallState /\ s = [op |-> r.op, at |-> "check", asked |-> r.asked, snap |-> r.snap,
                  got |-> r.got, listed |-> r.listed, todo |-> todo,
                  entries |-> entries, result |-> r.result]
    BY <2>0, <2>1 DEF CallState
  <2>3. s.at = "check" /\ s.op = "get_instructions" /\ s.result = r.result /\ s.listed = r.listed
    BY <1>1, <2>2
  <2>4. Shape(s)
    BY <1>1, <2>3, SectionShape
  <2> QED BY <2>2, <2>4 DEF s, todo, entries
<1>5. ASSUME NEW result \in Seq(Sections), NEW names \in SUBSET Name, r.at = "check", Len(result) \in 1..4
      PROVE  /\ Begins(r, result, names) \in CallState /\ Shape(Begins(r, result, names))
             /\ Begins(r, result, names) = [op |-> r.op, at |-> "check", asked |-> r.asked,
                         snap |-> r.snap, got |-> r.got, listed |-> r.listed, todo |-> names,
                         entries |-> {}, result |-> result]
  <2> DEFINE s == Begins(r, result, names)
             none == {}
  <2>0. none \in Sections
    BY <1>1
  <2>3. s = [r EXCEPT !.result = result, !.todo = names, !.entries = none]
    BY DEF Begins
  <2> HIDE DEF s, none
  <2>1. s \in CallState /\ s = [op |-> r.op, at |-> "check", asked |-> r.asked, snap |-> r.snap,
                  got |-> r.got, listed |-> r.listed, todo |-> names, entries |-> none, result |-> result]
    BY <1>5, <2>0, <2>3 DEF CallState
  <2>2. s.at = "check" /\ s.op = "get_instructions" /\ s.result = result /\ s.listed = r.listed
    BY <1>1, <2>1
  <2>4. Shape(s)
    BY <1>1, <1>5, <2>2, SectionShape
  <2> QED BY <2>1, <2>4 DEF s, none
<1> QED BY <1>2, <1>3, <1>4, <1>5

LEMMA CheckMoves ==
  ASSUME TypeInv, NEW w \in Worker, Check(w)
  PROVE  LET r == worker[w]
             s == Current(r)
             n == NextName(r)
             there == n \in Listed(r, s) /\ stored[KindOf(s)][n] # None
         IN /\ r.at = "check" /\ r.todo # {} /\ Reads
            /\ \/ there /\ worker' = [worker EXCEPT ![w] = Loads(r)]
               \/ ~there /\ IsCatalog(s) /\ worker' = [worker EXCEPT ![w] = Skips(r, n)]
               \/ ~there /\ ~IsCatalog(s) /\ Return(w, Error)
BY DEF Check, TypeInv, Loads, Skips

LEMMA LoadMoves ==
  ASSUME TypeInv, NEW w \in Worker, Load(w)
  PROVE  LET r == worker[w]
             s == Current(r)
             n == NextName(r)
             file == stored[KindOf(s)][n]
         IN /\ r.at = "load" /\ r.todo # {} /\ n \in Name /\ file \in Definition \cup {None} /\ Reads
            /\ \/ file # None /\ worker' = [worker EXCEPT ![w] = Adds(r, n, file)]
               \/ file = None /\ IsCatalog(s) /\ worker' = [worker EXCEPT ![w] = Adds(r, n, Blank)]
               \/ file = None /\ ~IsCatalog(s) /\ Return(w, Error)
<1> DEFINE r == worker[w]
           s == Current(r)
           n == NextName(r)
           file == stored[KindOf(s)][n]
<1>1. r \in CallState /\ Shape(r) /\ r.at = "load" /\ Reads /\ r.todo # {}
  BY DEF Load, TypeInv, Shape
<1>2. n \in Name /\ KindOf(s) \in Kind
  BY <1>1, SectionTypes
<1>3. file \in Definition \cup {None}
  BY <1>2 DEF TypeInv, Files
<1>4. \A says : [worker EXCEPT ![w].at = "check", ![w].todo = @ \ {n}, ![w].entries = @ \cup {<<n, says>>}]
                = [worker EXCEPT ![w] = Adds(r, n, says)]
  BY DEF TypeInv, Adds
<1>5. \/ file # None
         /\ worker' = [worker EXCEPT ![w].at = "check", ![w].todo = @ \ {n},
                                     ![w].entries = @ \cup {<<n, file>>}]
      \/ file = None /\ IsCatalog(s)
         /\ worker' = [worker EXCEPT ![w].at = "check", ![w].todo = @ \ {n},
                                     ![w].entries = @ \cup {<<n, Blank>>}]
      \/ file = None /\ ~IsCatalog(s) /\ Return(w, Error)
  BY Zenon DEF Load
<1> HIDE DEF file, n, s, r
<1>6. \/ file # None /\ worker' = [worker EXCEPT ![w] = Adds(r, n, file)]
      \/ file = None /\ IsCatalog(s) /\ worker' = [worker EXCEPT ![w] = Adds(r, n, Blank)]
      \/ file = None /\ ~IsCatalog(s) /\ Return(w, Error)
  BY <1>4, <1>5
<1> QED BY <1>1, <1>2, <1>3, <1>6 DEF file, n, s, r

LEMMA NextSectionMoves ==
  ASSUME TypeInv, NEW w \in Worker, NextSection(w)
  PROVE  LET r == worker[w]
             result == Append(r.result, r.entries)
             s == Len(result) + 1
             names == IF IsCatalog(s) THEN Listed(r, s) ELSE r.asked[KindOf(s)]
         IN /\ r.at = "check" /\ r.todo = {} /\ Reads
            /\ result \in Seq(Sections) /\ Len(result) = Current(r) /\ names \in SUBSET Name
            /\ \/ Current(r) = 5 /\ Return(w, result)
               \/ Current(r) \in 2..4 /\ worker' = [worker EXCEPT ![w] = Begins(r, result, names)]
<1> DEFINE r == worker[w]
           result == Append(r.result, r.entries)
           s == Len(result) + 1
           names == IF IsCatalog(s) THEN Listed(r, s) ELSE r.asked[KindOf(s)]
<1>1. r \in CallState /\ Shape(r) /\ r.at = "check" /\ r.todo = {} /\ Reads
  BY DEF NextSection, TypeInv
<1>2. result \in Seq(Sections) /\ Len(result) = Current(r) /\ Current(r) \in 2..5
  BY <1>1, SectionTypes, AppendProperties
<1>3. names \in SUBSET Name
  BY <1>1, SectionTypes
<1>4. IF s = 6 THEN Return(w, result)
      ELSE worker' = [worker EXCEPT ![w].result = result, ![w].todo = names, ![w].entries = {}]
  BY DEF NextSection
<1> HIDE DEF names
<1>5. [worker EXCEPT ![w].result = result, ![w].todo = names, ![w].entries = {}]
        = [worker EXCEPT ![w] = Begins(r, result, names)]
  BY DEF TypeInv, Begins
<1>6. s = Current(r) + 1
  BY <1>2
<1>7. \/ Current(r) = 5 /\ s = 6
      \/ Current(r) \in 2..4 /\ s # 6
  BY <1>2, <1>6
<1> HIDE DEF result, s
<1>8. \/ Current(r) = 5 /\ Return(w, result)
      \/ Current(r) \in 2..4 /\ worker' = [worker EXCEPT ![w] = Begins(r, result, names)]
  BY <1>4, <1>5, <1>7
<1> QED BY <1>1, <1>2, <1>3, <1>8 DEF names, result, s

LEMMA HoldTypes ==
  ASSUME TypeInv, NEW w \in Worker, Acquire(w)
  PROVE  LET r == worker[w]
             s == [r EXCEPT !.at = "holding"]
         IN /\ r.at = "waiting" /\ lock = None /\ lock' = w /\ worker' = [worker EXCEPT ![w] = s]
            /\ UNCHANGED <<disk, commit, session, met, moments, calls, commits>>
            /\ s \in CallState /\ Shape(s) /\ s.at = "holding"
            /\ s.op = r.op /\ s.asked = r.asked /\ s.result = r.result
<1> DEFINE r == worker[w]
           s == [r EXCEPT !.at = "holding"]
<1>1. /\ r.at = "waiting" /\ lock = None /\ lock' = w /\ worker' = [worker EXCEPT ![w] = s]
      /\ UNCHANGED <<disk, commit, session, met, moments, calls, commits>>
      /\ r \in CallState /\ Shape(r)
  BY DEF Acquire, TypeInv
<1>2. /\ s \in CallState /\ s.at = "holding" /\ s.op = r.op /\ s.asked = r.asked
      /\ s.result = r.result /\ s.got = r.got
  BY <1>1 DEF CallState
<1> HIDE DEF s
<1>3. Shape(s)
  BY <1>1, <1>2 DEF Shape
<1> QED BY <1>1, <1>2, <1>3 DEF s

LEMMA ActMoves ==
  ASSUME TypeInv, NEW w \in Worker, Act(w)
  PROVE  LET r == worker[w] IN
         /\ r.at = "holding" /\ lock' = None /\ worker' = [worker EXCEPT ![w] = Ended(r, r.result)]
         /\ Return(w, r.result) /\ UNCHANGED <<disk, commit, met, moments, calls, commits>>
         /\ r.op \in {"open", "drive", "close"} /\ lock = w /\ r.result \in Seq(Sections)
         /\ Ended(r, r.result) \in CallState /\ Shape(Ended(r, r.result)) /\ Ended(r, r.result).at = "done"
         /\ Ended(r, r.result).op = r.op /\ Ended(r, r.result).asked = r.asked
         /\ Ended(r, r.result).result = r.result
<1> DEFINE r == worker[w]
<1>1. /\ r.at = "holding" /\ lock' = None /\ worker' = [worker EXCEPT ![w] = Ended(r, r.result)]
      /\ Return(w, r.result) /\ UNCHANGED <<disk, commit, met, moments, calls, commits>>
  BY DEF Act, Return, Ended
<1>2. /\ r \in CallState /\ Shape(r) /\ r.op \in {"open", "drive", "close"} /\ lock = w
      /\ (r.op = "close" => r.result = << >>) /\ r.result \in Seq(Sections) /\ r.op \in Ops
  BY <1>1 DEF Shape, TypeInv, CallState
<1> QED BY <1>1, <1>2, EndedTypes

LEMMA StepTypes ==
  ASSUME TypeInv, NEW w \in Worker, Step(w)
  PROVE  TypeInv'
<1> DEFINE r == worker[w]
<1>t. r \in CallState /\ Shape(r)
  BY DEF TypeInv
<1>m. ASSUME Reads, NEW s \in CallState, Shape(s), s.at # "holding", r.at # "holding",
             worker' = [worker EXCEPT ![w] = s]
      PROVE  TypeInv'
  <2>1. /\ UNCHANGED <<disk, commit, session, lock, commits>> /\ calls' \in 0..MaxCalls
        /\ met' \in [Worker -> Nat] /\ moments' \in [Worker -> Seq(Lab)]
    BY <1>m DEF Reads, TypeInv
  <2> QED BY <1>m, <2>1, CallMoves
<1>1. CASE ReadSettings(w)
  BY <1>1, <1>m, ReadSettingsMoves
<1>2. CASE ReadPart(w)
  <2> DEFINE part == Found(Parts(r.op)[Len(r.got) + 1], r.snap, stored)
             got == Append(r.got, part)
             answer == Answer(r.op, got)
  <2>1. /\ r.at = "part" /\ r.op \in PartOps /\ Reads
        /\ part # None => got \in Seq(Definition) /\ Len(got) = Len(r.got) + 1
        /\ \/ part = None /\ Return(w, Error)
           \/ /\ part # None /\ Len(got) < Len(Parts(r.op))
              /\ worker' = [worker EXCEPT ![w] = Read(r, got, "part", << >>)]
           \/ /\ part # None /\ Len(got) = Len(Parts(r.op)) /\ (r.op = "get_topology" \/ answer = Failed)
              /\ Return(w, <<answer>>)
           \/ \E step \in {"list", "waiting"} :
                /\ part # None /\ Len(got) = Len(Parts(r.op)) /\ answer # Failed
                /\ r.op \in IF step = "list" THEN {"get_instructions"} ELSE {"open", "drive"}
                /\ worker' = [worker EXCEPT ![w] = Read(r, got, step, <<answer>>)]
    BY <1>2, ReadPartMoves
  <2>2. r.op # "close"
    BY <2>1 DEF PartOps
  <2>3. ASSUME part # None, Len(got) = Len(Parts(r.op))
        PROVE  <<answer>> \in Seq(Sections) /\ Len(<<answer>>) = 1 /\ <<answer>>[1] = answer
    <3>1. answer \in Sections
      BY <2>1, <2>3, AnswerTypes
    <3> QED BY <3>1
  <2> HIDE DEF part, got, answer
  <2>4. CASE part = None /\ Return(w, Error)
    BY <2>1, <2>2, <2>4, ErrorTypes, ReturnTypes
  <2>5. CASE part # None /\ Len(got) = Len(Parts(r.op)) /\ Return(w, <<answer>>)
    BY <2>1, <2>2, <2>3, <2>5, ReturnTypes
  <2>6. CASE /\ part # None /\ Len(got) < Len(Parts(r.op))
             /\ worker' = [worker EXCEPT ![w] = Read(r, got, "part", << >>)]
    <3>1. got \in Seq(Definition) /\ Len(got) < Len(Parts(r.op))
      BY <2>1, <2>6
    <3>2. /\ Read(r, got, "part", << >>) \in CallState /\ Shape(Read(r, got, "part", << >>))
          /\ Read(r, got, "part", << >>).at = "part"
      BY <1>t, <2>1, <3>1, PartReadTypes
    <3> DEFINE s == Read(r, got, "part", << >>)
    <3>3. worker' = [worker EXCEPT ![w] = s] /\ s \in CallState /\ Shape(s) /\ s.at = "part"
      BY <2>6, <3>2
    <3> HIDE DEF s
    <3> QED BY <2>1, <3>3, <1>m
  <2>7. ASSUME NEW step \in {"list", "waiting"},
               part # None, Len(got) = Len(Parts(r.op)), answer # Failed,
               r.op \in IF step = "list" THEN {"get_instructions"} ELSE {"open", "drive"},
               worker' = [worker EXCEPT ![w] = Read(r, got, step, <<answer>>)]
        PROVE  TypeInv'
    <3> DEFINE result == <<answer>>
    <3>1. result # Error /\ result \in Seq(Sections) /\ Len(result) = 1
      BY <2>3, <2>7, ErrorTypes
    <3>3. worker' = [worker EXCEPT ![w] = Read(r, got, step, result)]
      BY <2>7
    <3> HIDE DEF result
    <3>2. /\ Read(r, got, step, result) \in CallState /\ Shape(Read(r, got, step, result))
          /\ Read(r, got, step, result).at = step
      BY <1>t, <2>1, <2>7, <3>1, ReadTypes
    <3> QED BY <2>1, <3>2, <3>3, <1>m
  <2> QED BY <2>1, <2>4, <2>5, <2>6, <2>7
<1>3. CASE List(w)
  <2> DEFINE names == Existing(stored[KindOf(Len(r.listed) + 2)])
             s == Lists(r, names)
  <2>1. /\ r.at = "list" /\ Reads /\ names \in SUBSET Name /\ worker' = [worker EXCEPT ![w] = s]
    BY <1>3, ListMoves
  <2> HIDE DEF names
  <2>2. s \in CallState /\ Shape(s) /\ s.at \in {"list", "check"}
    <3>1. Len(r.listed) \in {0, 1}
      BY <1>t, <2>1 DEF Shape
    <3> QED BY <1>t, <2>1, <3>1, ListTypes
  <2> HIDE DEF s
  <2> QED BY <2>1, <2>2, <1>m
<1>4. CASE Check(w) \/ Load(w) \/ NextSection(w)
  <2>1. r.at \in {"check", "load"} /\ Reads
    BY <1>4 DEF Check, Load, NextSection
  <2>2. r.op # "close"
    BY <1>t, <2>1, SectionTypes
  <2>3. ASSUME NEW result \in Seq(Sections), Return(w, result) PROVE TypeInv'
    BY <2>1, <2>2, <2>3, ReturnTypes
  <2>4. CASE Check(w)
    <3>1. \/ r.todo # {} /\ worker' = [worker EXCEPT ![w] = Loads(r)]
          \/ \E n : r.at = "check" /\ worker' = [worker EXCEPT ![w] = Skips(r, n)]
          \/ Return(w, Error)
      BY <2>4, CheckMoves
    <3>2. CASE r.todo # {} /\ worker' = [worker EXCEPT ![w] = Loads(r)]
      <4>1. Loads(r) \in CallState /\ Shape(Loads(r)) /\ Loads(r).at = "load"
        BY <1>t, <2>1, <3>2, SectionMoves
      <4> QED BY <2>1, <3>2, <4>1, <1>m
    <3>3. ASSUME NEW n, r.at = "check", worker' = [worker EXCEPT ![w] = Skips(r, n)] PROVE TypeInv'
      <4>1. Skips(r, n) \in CallState /\ Shape(Skips(r, n)) /\ Skips(r, n).at = "check"
        BY <1>t, <2>1, <3>3, SectionMoves
      <4> QED BY <2>1, <3>3, <4>1, <1>m
    <3> QED BY <3>1, <3>2, <3>3, <2>3, ErrorTypes
  <2>5. CASE Load(w)
    <3>1. \/ \E n \in Name, says \in Definition : worker' = [worker EXCEPT ![w] = Adds(r, n, says)]
          \/ Return(w, Error)
      BY <2>5, LoadMoves, ErrorTypes
    <3>2. ASSUME NEW n \in Name, NEW says \in Definition, worker' = [worker EXCEPT ![w] = Adds(r, n, says)]
          PROVE  TypeInv'
      <4>1. Adds(r, n, says) \in CallState /\ Shape(Adds(r, n, says)) /\ Adds(r, n, says).at = "check"
        BY <1>t, <2>1, SectionMoves
      <4> QED BY <2>1, <3>2, <4>1, <1>m
    <3> QED BY <3>1, <3>2, <2>3, ErrorTypes
  <2>6. CASE NextSection(w)
    <3> DEFINE all == Append(r.result, r.entries)
               next == IF IsCatalog(Len(all) + 1) THEN Listed(r, Len(all) + 1)
                       ELSE r.asked[KindOf(Len(all) + 1)]
    <3>0. /\ r.at = "check" /\ all \in Seq(Sections) /\ Len(all) = Current(r) /\ next \in SUBSET Name
          /\ \/ Return(w, all)
             \/ Current(r) \in 2..4 /\ worker' = [worker EXCEPT ![w] = Begins(r, all, next)]
      BY <2>6, NextSectionMoves
    <3> HIDE DEF all, next
    <3>1. \E result \in Seq(Sections), names \in SUBSET Name :
            \/ Return(w, result)
            \/ /\ r.at = "check" /\ Len(result) \in 2..4
               /\ worker' = [worker EXCEPT ![w] = Begins(r, result, names)]
      BY <3>0
    <3>2. ASSUME NEW result \in Seq(Sections), NEW names \in SUBSET Name, r.at = "check",
                 Len(result) \in 2..4, worker' = [worker EXCEPT ![w] = Begins(r, result, names)]
          PROVE  TypeInv'
      <4>0. Len(result) \in 1..4
        BY <3>2
      <4>1. /\ Begins(r, result, names) \in CallState /\ Shape(Begins(r, result, names))
            /\ Begins(r, result, names).at = "check"
        BY <1>t, <2>1, <3>2, <4>0, SectionMoves
      <4> QED BY <2>1, <3>2, <4>1, <1>m
    <3> QED BY <3>1, <3>2, <2>3
  <2> QED BY <1>4, <2>4, <2>5, <2>6
<1>5. CASE Acquire(w)
  <2> DEFINE s == [r EXCEPT !.at = "holding"]
  <2>1. /\ lock = None /\ lock' = w /\ worker' = [worker EXCEPT ![w] = s]
        /\ UNCHANGED <<disk, commit, session, met, moments, calls, commits>>
        /\ s \in CallState /\ Shape(s) /\ s.at = "holding"
    BY <1>5, HoldTypes
  <2> HIDE DEF s
  <2>2. \A v \in Worker : Shape(worker'[v]) /\ (worker'[v].at = "holding" <=> lock' = v)
    BY <2>1, NobodyIsNone DEF TypeInv
  <2> QED BY <2>1, <2>2 DEF TypeInv, disk, CommitInv
<1>6. CASE Act(w)
  <2> DEFINE s == Ended(r, r.result)
  <2>1. /\ r.at = "holding" /\ lock' = None /\ lock = w /\ worker' = [worker EXCEPT ![w] = s]
        /\ UNCHANGED <<disk, commit, met, moments, calls, commits>> /\ r.op \in {"open", "drive", "close"}
        /\ s \in CallState /\ Shape(s) /\ s.at = "done"
    BY <1>6, ActMoves
  <2> HIDE DEF s
  <2>2. \A v \in Worker : Shape(worker'[v]) /\ (worker'[v].at = "holding" <=> lock' = v)
    BY <2>1, NobodyIsNone DEF TypeInv
  <2>3. session' \in Address \cup {None}
    <3>1. CASE r.op = "open"
      <4>1. r.got \in Seq(Definition) /\ Len(r.got) = 2
        BY <2>1, <3>1, <1>t DEF Shape, CallState
      <4>2. r.got[2] \in Definition
        BY <4>1
      <4> QED BY <1>6, <3>1, <4>2 DEF Act, TypeInv, Definition
    <3>2. CASE r.op # "open"
      BY <1>6, <2>1, <3>2 DEF Act, TypeInv
    <3> QED BY <3>1, <3>2
  <2> QED BY <2>1, <2>2, <2>3 DEF TypeInv, disk, CommitInv
<1>7. CASE Reply(w)
  <2>1. /\ r.at = "done" /\ worker' = [worker EXCEPT ![w] = Idle]
        /\ UNCHANGED <<disk, commit, session, lock, calls, commits>>
    BY <1>7 DEF Reply
  <2>2. met' \in [Worker -> Nat] /\ moments' \in [Worker -> Seq(Lab)] /\ calls' \in 0..MaxCalls
    BY <1>7 DEF Reply, TypeInv
  <2> QED BY <2>1, <2>2, IdleTypes, CallMoves
<1> QED BY <1>1, <1>2, <1>3, <1>4, <1>5, <1>6, <1>7 DEF Step

(* The calls that a thread may serve.                                      *)
LEMMA CallsServed ==
  ASSUME NEW w \in Worker, NEW op \in Serves[w],
         NEW asked \in IF op = "get_instructions" THEN Requests ELSE {NoRequest}
  PROVE  op \in Ops /\ asked \in [{"scenario", "reference"} -> SUBSET Name]
BY QueriesAssumption DEF NoRequest

LEMMA NextTypes == TypeInv /\ [Next]_vars => TypeInv'
<1> SUFFICES ASSUME TypeInv, [Next]_vars PROVE TypeInv'
  OBVIOUS
<1>1. CASE Begin \/ CommitStep
  BY <1>1, BeginTypes, CommitStepTypes
<1>2. CASE CommitEnds
  BY <1>2, NoCommitTypes DEF CommitEnds, TypeInv, CommitInv, disk, NoCommit
<1>3. CASE SessionEnds
  BY <1>3 DEF SessionEnds, TypeInv, CommitInv, disk
<1>4. ASSUME NEW w \in Worker, Step(w) PROVE TypeInv'
  BY <1>4, StepTypes
<1>5. ASSUME NEW w \in Worker, NEW op \in Serves[w],
             NEW asked \in IF op = "get_instructions" THEN Requests ELSE {NoRequest}, Call(w, op, asked)
      PROVE  TypeInv'
  BY <1>5, CallsServed, CallTypesKept
<1>6. CASE UNCHANGED vars
  BY <1>6 DEF vars, disk, TypeInv, CommitInv
<1> QED BY <1>1, <1>2, <1>3, <1>4, <1>5, <1>6 DEF Next

LEMMA InitTypes == Init => TypeInv
<1> SUFFICES ASSUME Init PROVE TypeInv
  OBVIOUS
<1>1. selected \in Selection /\ stored \in Files
  BY LabsAssumption DEF Init
<1>2. CommitInv
  BY NoCommitTypes DEF Init, CommitInv, NoCommit
<1>3. worker = [w \in Worker |-> Idle] /\ lock = None
  BY DEF Init
<1>4. worker \in [Worker -> CallState]
      /\ \A w \in Worker : Shape(worker[w]) /\ (worker[w].at = "holding" <=> lock = w)
  BY <1>3, IdleTypes, NobodyIsNone
<1>5. met \in [Worker -> Nat] /\ moments \in [Worker -> Seq(Lab)]
  BY DEF Init
<1> QED BY <1>1, <1>2, <1>4, <1>5, QueriesAssumption DEF Init, TypeInv

LEMMA TypesHold == Spec => []TypeInv
BY InitTypes, NextTypes, PTL DEF Spec

(* The disk, the commit, the session and its lock, and what every call has *)
(* read so far keep their types (the readers of lab.py, commit()).         *)
THEOREM TypeCorrect == Spec => []TypeOK
<1>1. TypeInv => TypeOK
  <2> SUFFICES ASSUME TypeInv PROVE TypeOK
    OBVIOUS
  <2>1. \A w \in Worker : worker[w].at = "part" => Len(worker[w].got) < 2
    <3> SUFFICES ASSUME NEW w \in Worker, worker[w].at = "part" PROVE Len(worker[w].got) < 2
      OBVIOUS
    <3>1. /\ worker[w].op \in PartOps /\ Len(worker[w].got) < Len(Parts(worker[w].op))
          /\ Len(worker[w].got) \in Nat
      BY DEF TypeInv, Shape, CallState
    <3>2. \A k \in {1, 2} : \A l \in Nat : l < k => l < 2
      OBVIOUS
    <3>3. Len(Parts(worker[w].op)) \in {1, 2}
      BY <3>1, PartsOfOps
    <3> QED BY <3>1, <3>2, <3>3, Zenon
  <2> QED BY <2>1 DEF TypeInv, TypeOK, CommitInv
<1> QED BY <1>1, TypesHold, PTL


-----------------------------------------------------------------------------
(* What a call knows.                                                      *)

(* The call has met no commit, or one that has written nothing: the        *)
(* settings come before the file only in a deletion.                       *)
Pristine(w) == met[w] = 0 \/ (commit.at = "file" /\ ~FileFollows)

(* The definitions are those of the beginning of the call.                 *)
Unwritten(w) == met[w] = 0 \/ commit.at = "file" \/ FileFollows

Counted(w) == /\ Recorded(w) <=> met[w] <= 1
              /\ met[w] = 0 => commit.at = "none"

(* The moments seen end now, and the definitions changed once at most.     *)
Traced(w) ==
  LET seen == moments[w] IN
  /\ seen[Len(seen)] = [selected |-> selected, stored |-> stored]
  /\ \A i \in DOMAIN seen : seen[i].stored \in {seen[1].stored, stored}
  /\ Unwritten(w) => \A i \in DOMAIN seen : seen[i].stored = stored

GotFrom(r, files) ==
  \A i \in 1..Len(r.got) : r.got[i] = Found(Parts(r.op)[i], r.snap, files)

RestFrom(r, files, now) ==
  \A i \in (Len(r.got) + 1)..Len(Parts(r.op)) :
    Found(Parts(r.op)[i], r.snap, now) \in {Found(Parts(r.op)[i], r.snap, files), None}

(* What was read and what is still to be read are of one moment.           *)
Reading(r, seen, now) ==
  \E i \in DOMAIN seen : /\ seen[i].selected = r.snap
                         /\ GotFrom(r, seen[i].stored) /\ RestFrom(r, seen[i].stored, now)

Wrote(files, names) == {<<n, files[n]>> : n \in names \cap Existing(files)}

(* A definition that was there and is deleted now has no description.      *)
Undescribed(section, files, names, now) ==
  \E g \in names : /\ files[g] # None /\ now[g] = None
                   /\ section = (Wrote(files, names) \ {<<g, files[g]>>}) \cup {<<g, Blank>>}

(* The sections up to the t-th are of the first definitions, the others of *)
(* those that are there now.                                               *)
Aim(first, now, t, s) == IF s <= t THEN first ELSE now

Finished(r, seen, now, t, s) ==
  LET files == Aim(seen[1].stored, now, t, s) IN
  IF s = 1 THEN \E i \in DOMAIN seen : seen[i].stored = files /\ r.result[1] = ActiveAt(r.op, seen[i])
  ELSE \/ r.result[s] = IF IsCatalog(s) THEN Catalog(files[KindOf(s)])
                        ELSE Inspected(files[KindOf(s)], r.asked[KindOf(s)])
       \/ IsCatalog(s) /\ Undescribed(r.result[s], files[KindOf(s)], Name, now[KindOf(s)])

HasListed(r, s) == (IF KindOf(s) = "scenario" THEN 1 ELSE 2) <= Len(r.listed)

(* A section that is still to be read, of one kind.                        *)
Ahead(r, files, now, s) ==
  \A n \in Name : IF HasListed(r, s) /\ n \notin Listed(r, s)
                  THEN files[n] = None ELSE files[n] = now[n]

Wanted(r, s) == IF IsCatalog(s) THEN Listed(r, s) ELSE r.asked[KindOf(s)]

(* The section that is being read, of one kind.                            *)
InProgress(r, files, now, s) ==
  LET done == Wanted(r, s) \ r.todo
      next == NextName(r)
  IN /\ r.todo \subseteq Wanted(r, s)
     /\ \A n \in Name \ Listed(r, s) : files[n] = None
     /\ \A n \in r.todo \cap Listed(r, s) : (r.at = "load" /\ n = next) \/ files[n] = now[n]
     /\ r.at = "load" =>
          /\ next \in Listed(r, s) /\ files[next] # None
          /\ files[next] = now[next] \/ (now[next] = None /\ r.entries = Wrote(files, done))
     /\ ~IsCatalog(s) => done \subseteq Existing(files)
     /\ \/ r.entries = Wrote(files, done)
        \/ IsCatalog(s) /\ Undescribed(r.entries, files, done, now)

Section(r, seen, now, t, s) ==
  LET files == Aim(seen[1].stored, now, t, s)[KindOf(s)] IN
  IF r.at # "list" /\ s = Current(r) THEN InProgress(r, files, now[KindOf(s)], s)
  ELSE Ahead(r, files, now[KindOf(s)], s)

Collecting(r, seen, now) ==
  \E t \in 0..5 : /\ \A s \in 1..Len(r.result) : Finished(r, seen, now, t, s)
                  /\ \A s \in (Len(r.result) + 1)..5 : Section(r, seen, now, t, s)

Settled(r, seen) == IF r.result = Error THEN MayFail(r, seen) ELSE InOrder(r, seen)

Progress(r, seen, now) ==
  /\ r.at \in {"settings", "part", "list"} => r.entries = {}
  /\ r.at = "part" => Reading(r, seen, now)
  /\ r.at \in {"list", "check", "load"} => Collecting(r, seen, now)
  /\ r.at \in {"waiting", "holding", "done"} /\ r.op # "close" => Settled(r, seen)

(* Nothing is written yet: what was read is still there.                   *)
Untouched(w) ==
  worker[w].at = "part" /\ Pristine(w) => worker[w].snap = selected /\ GotFrom(worker[w], stored)

Follows(w) ==
  worker[w].at # "idle" =>
    Counted(w) /\ (Recorded(w) => Traced(w) /\ Progress(worker[w], moments[w], stored) /\ Untouched(w))

FollowInv == \A w \in Worker : Follows(w)

-----------------------------------------------------------------------------
(* The moments of a call.                                                  *)

LEMMA Grows ==
  ASSUME NEW seen \in Seq(Lab), NEW lab \in Lab
  PROVE  LET more == Append(seen, lab)
         IN /\ more \in Seq(Lab) /\ Len(more) = Len(seen) + 1 /\ more[Len(more)] = lab
            /\ DOMAIN seen \subseteq DOMAIN more /\ DOMAIN more = DOMAIN seen \cup {Len(more)}
            /\ \A i \in DOMAIN seen : more[i] = seen[i] /\ i < Len(more) /\ i \in Nat
BY AppendProperties

LEMMA MayStillFail ==
  ASSUME NEW r, NEW seen \in Seq(Lab), NEW lab \in Lab, MayFail(r, seen)
  PROVE  MayFail(r, Append(seen, lab))
<1> DEFINE more == Append(seen, lab)
<1>1. DOMAIN seen \subseteq DOMAIN more /\ \A i \in DOMAIN seen : more[i] = seen[i]
  BY Grows
<1> HIDE DEF more
<1>2. ASSUME \E i \in DOMAIN seen, s \in SectionsOf(r.op) : SectionAt(r, s, seen[i]) = Failed
      PROVE  MayFail(r, more)
  BY <1>1, <1>2 DEF MayFail
<1>3. ASSUME NEW i \in DOMAIN seen, NEW j \in DOMAIN seen, NEW p \in DOMAIN Parts(r.op),
             i < j, seen[i].selected[Parts(r.op)[p]] # None,
             seen[i].stored[Parts(r.op)[p]][seen[i].selected[Parts(r.op)[p]]] # None,
             seen[j].stored[Parts(r.op)[p]][seen[i].selected[Parts(r.op)[p]]] = None
      PROVE  MayFail(r, more)
  <2>1. i \in DOMAIN more /\ j \in DOMAIN more /\ more[i] = seen[i] /\ more[j] = seen[j]
    BY <1>1
  <2> QED BY <1>3, <2>1 DEF MayFail
<1>4. MayFail(r, more)
  BY <1>2, <1>3 DEF MayFail
<1> QED BY <1>4 DEF more

LEMMA StillOf ==
  ASSUME NEW r, NEW seen \in Seq(Lab), NEW lab \in Lab, NEW s, NEW i \in DOMAIN seen, IsOf(r, seen, s, i)
  PROVE  IsOf(r, Append(seen, lab), s, i)
<1> DEFINE more == Append(seen, lab)
<1>1. DOMAIN seen \subseteq DOMAIN more /\ \A j \in DOMAIN seen : more[j] = seen[j]
  BY Grows
<1> HIDE DEF more
<1>2. IsOf(r, more, s, i)
  BY <1>1 DEF IsOf
<1> QED BY <1>2 DEF more

LEMMA StillSettled ==
  ASSUME NEW r, NEW seen \in Seq(Lab), NEW lab \in Lab, Settled(r, seen)
  PROVE  Settled(r, Append(seen, lab))
<1> DEFINE more == Append(seen, lab)
<1>1. DOMAIN seen \subseteq DOMAIN more
  BY Grows
<1>2. ASSUME InOrder(r, seen) PROVE InOrder(r, more)
  <2>1. PICK when \in [SectionsOf(r.op) -> DOMAIN seen] :
          /\ \A s, t \in SectionsOf(r.op) : s < t => when[s] <= when[t]
          /\ \A s \in SectionsOf(r.op) : IsOf(r, seen, s, when[s])
    BY <1>2 DEF InOrder
  <2>2. \A s \in SectionsOf(r.op) : IsOf(r, more, s, when[s])
    BY <2>1, StillOf
  <2>3. when \in [SectionsOf(r.op) -> DOMAIN more]
    BY <1>1, <2>1
  <2> HIDE DEF more
  <2> QED BY <2>1, <2>2, <2>3 DEF InOrder
<1> QED BY <1>2, MayStillFail DEF Settled

(* What is settled depends on the call's tool, request and result alone.   *)
LEMMA SettledSame ==
  ASSUME NEW r, NEW q, NEW seen, q.op = r.op, q.asked = r.asked, q.result = r.result, Settled(r, seen)
  PROVE  Settled(q, seen)
<1>1. \A s, lab : SectionAt(q, s, lab) = SectionAt(r, s, lab)
  BY DEF SectionAt
<1>2. MayFail(r, seen) => MayFail(q, seen)
  BY <1>1 DEF MayFail
<1>3. \A s, i : IsOf(r, seen, s, i) => IsOf(q, seen, s, i)
  BY <1>1 DEF IsOf
<1>4. InOrder(r, seen) => InOrder(q, seen)
  BY <1>3 DEF InOrder
<1> QED BY <1>2, <1>4 DEF Settled

(* The section on what is active.                                          *)
LEMMA ActiveRead ==
  ASSUME NEW op \in PartOps, NEW got \in Seq(Definition), Len(got) = Len(Parts(op)), NEW lab,
         \A i \in 1..Len(got) : got[i] = Found(Parts(op)[i], lab.selected, lab.stored)
  PROVE  ActiveAt(op, lab) = Answer(op, got)
<1> DEFINE found == [i \in 1..Len(Parts(op)) |-> Found(Parts(op)[i], lab.selected, lab.stored)]
<1>1. Len(Parts(op)) \in Nat /\ Len(found) = Len(Parts(op))
  BY PartsOfOps
<1>2. \A i \in 1..Len(Parts(op)) : found[i] = got[i] /\ got[i] \in Definition
  OBVIOUS
<1>3. found = got
  <2>1. got = [i \in 1..Len(Parts(op)) |-> got[i]]
    OBVIOUS
  <2>2. [i \in 1..Len(Parts(op)) |-> got[i]] = found
    BY <1>2
  <2> QED BY <2>1, <2>2
<1>4. ~\E i \in 1..Len(found) : found[i] = None
  BY <1>1, <1>2, LabsAssumption
<1>5. ActiveAt(op, lab) = IF \E i \in 1..Len(found) : found[i] = None THEN Failed ELSE Answer(op, found)
  BY DEF ActiveAt
<1> HIDE DEF found
<1> QED BY <1>3, <1>4, <1>5

LEMMA ActiveFails ==
  ASSUME NEW op \in PartOps, NEW lab, NEW i \in 1..Len(Parts(op)),
         Found(Parts(op)[i], lab.selected, lab.stored) = None
  PROVE  ActiveAt(op, lab) = Failed
<1> DEFINE found == [j \in 1..Len(Parts(op)) |-> Found(Parts(op)[j], lab.selected, lab.stored)]
<1>1. Len(found) = Len(Parts(op)) /\ found[i] = None
  BY PartsOfOps
<1>2. ActiveAt(op, lab) = IF \E j \in 1..Len(found) : found[j] = None THEN Failed ELSE Answer(op, found)
  BY DEF ActiveAt
<1> HIDE DEF found
<1> QED BY <1>1, <1>2

LEMMA SectionOne == \A r, lab : SectionAt(r, 1, lab) = ActiveAt(r.op, lab)
BY DEF SectionAt, IsCatalog

LEMMA FirstSection ==
  ASSUME NEW op \in PartOps
  PROVE  /\ 1 \in SectionsOf(op)
         /\ op # "get_instructions" => SectionsOf(op) = {1}
         /\ op = "get_instructions" => SectionsOf(op) = 1..5
BY DEF SectionsOf, PartOps

(* A call with the one section on what was active at a moment.             *)
LEMMA OneSection ==
  ASSUME NEW r, r.op \in PartOps, NEW seen \in Seq(Lab), NEW i \in DOMAIN seen,
         r.result = <<ActiveAt(r.op, seen[i])>>, r.op # "get_instructions" \/ r.result = Error
  PROVE  Settled(r, seen)
<1>1. SectionAt(r, 1, seen[i]) = ActiveAt(r.op, seen[i]) /\ r.result[1] = ActiveAt(r.op, seen[i])
  BY SectionOne
<1>2. CASE r.result = Error
  <2>1. ActiveAt(r.op, seen[i]) = Failed
    BY <1>1, <1>2, ErrorTypes
  <2>2. MayFail(r, seen)
    BY <1>1, <2>1, FirstSection DEF MayFail
  <2> QED BY <1>2, <2>2 DEF Settled
<1>3. CASE r.result # Error
  <2>1. SectionsOf(r.op) = {1}
    BY <1>3, FirstSection
  <2>2. IsOf(r, seen, 1, i)
    BY <1>1 DEF IsOf
  <2> DEFINE when == [s \in {1} |-> i]
  <2>3. when \in [SectionsOf(r.op) -> DOMAIN seen]
    BY <2>1
  <2>4. \A s, t \in SectionsOf(r.op) : s < t => when[s] <= when[t]
    <3>1. ~(1 < 1)
      OBVIOUS
    <3> QED BY <2>1, <3>1, Zenon
  <2>5. \A s \in SectionsOf(r.op) : IsOf(r, seen, s, when[s])
    BY <2>1, <2>2
  <2> HIDE DEF when
  <2>6. InOrder(r, seen)
    BY <2>3, <2>4, <2>5 DEF InOrder
  <2> QED BY <1>3, <2>6 DEF Settled
<1> QED BY <1>2, <1>3

(* What a call reads first is not there: it was not, or was deleted.       *)
LEMMA PartGone ==
  ASSUME NEW r \in CallState, r.op \in PartOps, r.snap \in Selection, Len(r.got) < Len(Parts(r.op)),
         NEW seen \in Seq(Lab), NEW now, Reading(r, seen, now), seen[Len(seen)].stored = now,
         Found(Parts(r.op)[Len(r.got) + 1], r.snap, now) = None
  PROVE  MayFail(r, seen)
<1> DEFINE p == Len(r.got) + 1
           kind == Parts(r.op)[p]
<1>1. p \in 1..Len(Parts(r.op)) /\ p \in DOMAIN Parts(r.op) /\ kind \in Kind
  <2>1. Len(r.got) \in Nat /\ Parts(r.op) \in Seq(Kind) /\ Len(Parts(r.op)) \in Nat
    BY PartsOfOps DEF CallState
  <2> QED BY <2>1
<1>0. Found(kind, r.snap, now) = None
  OBVIOUS
<1>2. PICK i \in DOMAIN seen : seen[i].selected = r.snap
  BY DEF Reading
<1> HIDE DEF p, kind
<1>3. CASE Found(kind, r.snap, seen[i].stored) = None
  <2>1. ActiveAt(r.op, seen[i]) = Failed
    BY <1>1, <1>2, <1>3, ActiveFails DEF kind
  <2>2. SectionAt(r, 1, seen[i]) = Failed
    BY <2>1, SectionOne
  <2> QED BY <1>2, <2>2, FirstSection DEF MayFail
<1>4. CASE Found(kind, r.snap, seen[i].stored) # None
  <2> DEFINE j == Len(seen)
             name == r.snap[kind]
  <2>1. /\ name # None /\ seen[i].stored[kind][name] # None /\ now[kind][name] = None
    <3> DEFINE files == seen[i].stored
    <3>1. Found(kind, r.snap, files) # None
      BY <1>4
    <3> HIDE DEF files
    <3>2. /\ r.snap[kind] # None /\ files[kind][r.snap[kind]] # None
          /\ now[kind][r.snap[kind]] = None
      <4>1. Blank # None
        BY LabsAssumption, ErrorTypes
      <4> QED BY <1>0, <3>1, <4>1 DEF Found
    <3> QED BY <3>2 DEF files
  <2>2. seen[i].stored # now
    BY <2>1
  <2>3. j \in DOMAIN seen /\ i < j
    BY <2>2
  <2> HIDE DEF j
  <2>4. /\ seen[i].selected[kind] = name /\ seen[j].stored = now
    BY <1>2 DEF j
  <2> QED BY <1>1, <1>2, <2>1, <2>3, <2>4 DEF MayFail, kind
<1> QED BY <1>3, <1>4

(* One more definition is read of the same moment.                         *)
LEMMA GotMore ==
  ASSUME NEW r, NEW q, r.op \in PartOps, r.got \in Seq(Definition), Len(r.got) < Len(Parts(r.op)),
         NEW files, q.op = r.op, q.snap = r.snap,
         NEW part, part = Found(Parts(r.op)[Len(r.got) + 1], r.snap, files),
         q.got = Append(r.got, part), q.got \in Seq(Definition), GotFrom(r, files)
  PROVE  GotFrom(q, files) /\ Len(q.got) = Len(r.got) + 1
<1>1. /\ Len(q.got) = Len(r.got) + 1 /\ Len(r.got) \in Nat /\ q.got[Len(r.got) + 1] = part
      /\ \A i \in 1..Len(r.got) : q.got[i] = r.got[i]
  BY AppendProperties
<1>2. ASSUME NEW i \in 1..Len(q.got)
      PROVE  q.got[i] = Found(Parts(q.op)[i], q.snap, files)
  <2>1. CASE i \in 1..Len(r.got)
    BY <1>1, <2>1 DEF GotFrom
  <2>2. CASE i = Len(r.got) + 1
    BY <1>1, <2>2
  <2> QED BY <1>1, <1>2, <2>1, <2>2
<1> QED BY <1>1, <1>2 DEF GotFrom

ReadsMore(q, r, part) == q.op = r.op /\ q.snap = r.snap /\ q.got = Append(r.got, part)

LEMMA PartRead ==
  ASSUME NEW r \in CallState, NEW q, r.op \in PartOps, Len(r.got) < Len(Parts(r.op)),
         NEW seen \in Seq(Lab), NEW now, Reading(r, seen, now), NEW part, ReadsMore(q, r, part),
         part = Found(Parts(r.op)[Len(r.got) + 1], r.snap, now), part # None, q.got \in Seq(Definition)
  PROVE  /\ Reading(q, seen, now) /\ Len(q.got) = Len(r.got) + 1
         /\ Len(q.got) = Len(Parts(q.op)) => \E i \in DOMAIN seen : ActiveAt(q.op, seen[i]) = Answer(q.op, q.got)
<1>q. q.op = r.op /\ q.snap = r.snap /\ q.got = Append(r.got, part)
  BY DEF ReadsMore
<1>0. r.got \in Seq(Definition) /\ Len(r.got) \in Nat /\ Len(Parts(r.op)) \in Nat
  BY PartsOfOps DEF CallState
<1>1. PICK i \in DOMAIN seen : /\ seen[i].selected = r.snap
                               /\ GotFrom(r, seen[i].stored) /\ RestFrom(r, seen[i].stored, now)
  BY DEF Reading
<1> DEFINE files == seen[i].stored
<1>2. part = Found(Parts(r.op)[Len(r.got) + 1], r.snap, files)
  <2>1. Len(r.got) + 1 \in (Len(r.got) + 1)..Len(Parts(r.op))
    BY <1>0
  <2> QED BY <1>1, <2>1 DEF RestFrom
<1>3. GotFrom(q, files) /\ Len(q.got) = Len(r.got) + 1
  BY <1>0, <1>1, <1>2, <1>q, GotMore
<1>4. RestFrom(q, files, now)
  <2>1. (Len(q.got) + 1)..Len(Parts(q.op)) \subseteq (Len(r.got) + 1)..Len(Parts(r.op))
    BY <1>0, <1>3, <1>q
  <2> QED BY <1>1, <2>1, <1>q DEF RestFrom
<1>5. Reading(q, seen, now)
  BY <1>1, <1>3, <1>4, <1>q DEF Reading
<1>6. ASSUME Len(q.got) = Len(Parts(q.op)) PROVE ActiveAt(q.op, seen[i]) = Answer(q.op, q.got)
  <2>1. \A j \in 1..Len(q.got) : q.got[j] = Found(Parts(q.op)[j], seen[i].selected, seen[i].stored)
    BY <1>1, <1>3, <1>q DEF GotFrom
  <2> QED BY <1>6, <1>q, <2>1, ActiveRead
<1> QED BY <1>3, <1>5, <1>6

(* A reading goes on when the lab changes elsewhere.                       *)
LEMMA ReadingGrows ==
  ASSUME NEW r, NEW seen \in Seq(Lab), NEW lab \in Lab, NEW now, Reading(r, seen, now)
  PROVE  Reading(r, Append(seen, lab), now)
<1> DEFINE more == Append(seen, lab)
<1>1. DOMAIN seen \subseteq DOMAIN more /\ \A i \in DOMAIN seen : more[i] = seen[i]
  BY Grows
<1> HIDE DEF more
<1>2. Reading(r, more, now)
  BY <1>1 DEF Reading
<1> QED BY <1>2 DEF more

LEMMA FoundWritten ==
  ASSUME TypeInv, CommitStep, commit.at = "file", NEW k \in Kind, NEW selection \in Selection
  PROVE  Found(k, selection, stored') = IF k = commit.kind /\ selection[k] = commit.name
                                        THEN commit.new ELSE Found(k, selection, stored)
<1>1. selection[k] \in Name \cup {None} /\ commit.name # None
  BY Written, QueriesAssumption DEF Selection
<1> QED BY <1>1, Written DEF Found

(* A definition is written that the call is still to read: from now on it  *)
(* reads the new state, of which everything before it was.  Or one that it *)
(* has read or does not ask for.                                           *)
LEMMA ReadingWritten ==
  ASSUME TypeInv, CommitStep, commit.at = "file", NEW w \in Worker, worker[w].at = "part",
         Reading(worker[w], moments[w], stored), Untouched(w), Recorded(w)
  PROVE  Reading(worker[w], moments'[w], stored')
<1> DEFINE r == worker[w]
           seen == moments[w]
           lab == [selected |-> selected', stored |-> stored']
           more == Append(seen, lab)
<1>t. /\ selected' = selected /\ r \in CallState /\ r.op \in PartOps
      /\ r.snap \in Selection /\ r.got \in Seq(Definition) /\ Len(r.got) < Len(Parts(r.op))
      /\ seen \in Seq(Lab) /\ lab \in Lab /\ moments'[w] = more
      /\ lab.selected = selected /\ lab.stored = stored'
  <2>1. selected' = selected /\ stored' \in Files /\ selected \in Selection
    BY Written DEF TypeInv
  <2>2. lab \in Lab /\ lab.selected = selected /\ lab.stored = stored'
    BY <2>1 DEF Lab
  <2>3. moments' = [v \in Worker |-> IF Recorded(v) THEN Append(moments[v], lab) ELSE moments[v]]
    BY DEF CommitStep
  <2> HIDE DEF lab
  <2>4. r \in CallState /\ Shape(r) /\ seen \in Seq(Lab)
    BY DEF TypeInv
  <2> QED BY <2>1, <2>2, <2>3, <2>4 DEF Shape, CallState
<1> HIDE DEF lab
<1>p. \A i \in 1..Len(Parts(r.op)) : Parts(r.op)[i] \in Kind
  BY <1>t, PartsOfOps
<1>l. Len(r.got) \in Nat /\ Len(Parts(r.op)) \in Nat
  BY <1>t, PartsOfOps
<1>f. \A i \in 1..Len(Parts(r.op)) :
        Found(Parts(r.op)[i], r.snap, stored')
          = IF Parts(r.op)[i] = commit.kind /\ r.snap[Parts(r.op)[i]] = commit.name
            THEN commit.new ELSE Found(Parts(r.op)[i], r.snap, stored)
  BY <1>t, <1>p, FoundWritten
<1>m. /\ DOMAIN seen \subseteq DOMAIN more /\ \A i \in DOMAIN seen : more[i] = seen[i]
      /\ Len(more) \in DOMAIN more /\ more[Len(more)] = lab
  BY <1>t, Grows
<1> HIDE DEF more
<1>1. PICK i \in DOMAIN seen : /\ seen[i].selected = r.snap
                               /\ GotFrom(r, seen[i].stored) /\ RestFrom(r, seen[i].stored, stored)
  BY DEF Reading
<1>k. ASSUME RestFrom(r, seen[i].stored, stored') PROVE Reading(r, more, stored')
  BY <1>1, <1>m, <1>k DEF Reading
<1>2. CASE commit.new = None
  <2>2. RestFrom(r, seen[i].stored, stored')
    <3> SUFFICES ASSUME NEW j \in (Len(r.got) + 1)..Len(Parts(r.op))
                 PROVE  Found(Parts(r.op)[j], r.snap, stored')
                          \in {Found(Parts(r.op)[j], r.snap, seen[i].stored), None}
      BY DEF RestFrom
    <3>1. j \in 1..Len(Parts(r.op))
      BY <1>l
    <3>2. Found(Parts(r.op)[j], r.snap, stored) \in {Found(Parts(r.op)[j], r.snap, seen[i].stored), None}
      BY <1>1 DEF RestFrom
    <3> QED BY <1>2, <1>f, <3>1, <3>2
  <2> QED BY <1>t, <1>k, <2>2
<1>3. CASE commit.new # None
  <2>0. r.snap = selected /\ GotFrom(r, stored)
    BY <1>3 DEF Pristine, FileFollows, Untouched
  <2>1. CASE \E j \in (Len(r.got) + 1)..Len(Parts(r.op)) :
               Parts(r.op)[j] = commit.kind /\ r.snap[commit.kind] = commit.name
    <3>1. PICK j \in (Len(r.got) + 1)..Len(Parts(r.op)) :
                 Parts(r.op)[j] = commit.kind /\ r.snap[commit.kind] = commit.name
      BY <2>1
    <3>3. \A h \in 1..Len(r.got) : h \in 1..Len(Parts(r.op)) /\ Parts(r.op)[h] # commit.kind
      <4> SUFFICES ASSUME NEW h \in 1..Len(r.got)
                   PROVE  h \in 1..Len(Parts(r.op)) /\ Parts(r.op)[h] # commit.kind
        OBVIOUS
      <4>1. h \in 1..Len(Parts(r.op)) /\ j \in 1..Len(Parts(r.op)) /\ h # j
        BY <1>t, <1>l
      <4> QED BY <1>t, <3>1, <4>1, PartsOfOps
    <3>4. GotFrom(r, stored')
      BY <1>f, <2>0, <3>3 DEF GotFrom
    <3>5. RestFrom(r, stored', stored')
      BY DEF RestFrom
    <3>6. Reading(r, more, stored')
      BY <1>m, <1>t, <2>0, <3>4, <3>5 DEF Reading
    <3> QED BY <1>t, <3>6
  <2>2. CASE ~\E j \in (Len(r.got) + 1)..Len(Parts(r.op)) :
               Parts(r.op)[j] = commit.kind /\ r.snap[commit.kind] = commit.name
    <3>1. ASSUME NEW j \in (Len(r.got) + 1)..Len(Parts(r.op))
          PROVE  Found(Parts(r.op)[j], r.snap, stored') \in {Found(Parts(r.op)[j], r.snap, seen[i].stored), None}
      <4>1. j \in 1..Len(Parts(r.op))
        BY <1>l
      <4>2. Found(Parts(r.op)[j], r.snap, stored') = Found(Parts(r.op)[j], r.snap, stored)
        BY <1>f, <2>2, <4>1
      <4> QED BY <1>1, <4>2 DEF RestFrom
    <3>2. RestFrom(r, seen[i].stored, stored')
      BY <3>1 DEF RestFrom
    <3> QED BY <1>t, <1>k, <3>2
  <2> QED BY <2>1, <2>2
<1> QED BY <1>2, <1>3

-----------------------------------------------------------------------------
(* The sections of the instructions.                                       *)

LEMMA WroteIs ==
  ASSUME NEW files, NEW names
  PROVE  \A c : c \in Wrote(files, names) <=>
                  \E n \in names : n \in Name /\ files[n] # None /\ c = <<n, files[n]>>
BY DEF Wrote, Existing

LEMMA WroteMore ==
  ASSUME NEW files, NEW names, NEW n \in Name
  PROVE  /\ files[n] = None => Wrote(files, names \cup {n}) = Wrote(files, names)
         /\ files[n] # None => Wrote(files, names \cup {n}) = Wrote(files, names) \cup {<<n, files[n]>>}
<1>1. \A c : c \in Wrote(files, names) <=>
               \E m \in names : m \in Name /\ files[m] # None /\ c = <<m, files[m]>>
  BY WroteIs
<1>2. \A c : c \in Wrote(files, names \cup {n}) <=>
               \E m \in names \cup {n} : m \in Name /\ files[m] # None /\ c = <<m, files[m]>>
  BY WroteIs
<1>3. \A c : c \in Wrote(files, names \cup {n}) <=>
               c \in Wrote(files, names) \/ (files[n] # None /\ c = <<n, files[n]>>)
  BY <1>1, <1>2
<1> QED BY <1>3

LEMMA WroteLess ==
  ASSUME NEW files, NEW names, NEW n \in Name, n \notin names
  PROVE  (Wrote(files, names) \cup {<<n, files[n]>>}) \ {<<n, files[n]>>} = Wrote(files, names)
<1>1. <<n, files[n]>> \notin Wrote(files, names)
  <2>1. \A m : <<m, files[m]>> = <<n, files[n]>> => m = n
    OBVIOUS
  <2> QED BY <2>1, WroteIs
<1> QED BY <1>1

LEMMA WroteSame ==
  ASSUME NEW files, NEW others, NEW names, \A n \in names \cap Name : files[n] = others[n]
  PROVE  Wrote(files, names) = Wrote(others, names)
<1>1. \A c : c \in Wrote(files, names) <=>
               \E m \in names : m \in Name /\ files[m] # None /\ c = <<m, files[m]>>
  BY WroteIs
<1>2. \A c : c \in Wrote(others, names) <=>
               \E m \in names : m \in Name /\ others[m] # None /\ c = <<m, others[m]>>
  BY WroteIs
<1> QED BY <1>1, <1>2

LEMMA WroteAll ==
  ASSUME NEW files
  PROVE  /\ \A names : (\A n \in Name \ names : files[n] = None) => Wrote(files, names) = Catalog(files)
         /\ \A names : names \subseteq Existing(files) => Wrote(files, names) = Inspected(files, names)
         /\ Wrote(files, {}) = {}
<1>1. ASSUME NEW names, \A n \in Name \ names : files[n] = None
      PROVE  Wrote(files, names) = Catalog(files)
  <2>1. names \cap Existing(files) = Existing(files)
    BY <1>1 DEF Existing
  <2> QED BY <2>1 DEF Wrote, Catalog
<1>2. ASSUME NEW names, names \subseteq Existing(files)
      PROVE  Wrote(files, names) = Inspected(files, names)
  <2>1. names \cap Existing(files) = names
    BY <1>2
  <2> QED BY <1>2, <2>1 DEF Wrote, Inspected
<1>3. Wrote(files, {}) = {}
  BY WroteIs
<1> QED BY <1>1, <1>2, <1>3

(* A step within the section that is being read.                           *)
LEMMA InSection ==
  ASSUME NEW r, NEW q, NEW seen, NEW now, r.at # "list", q.at # "list",
         q.op = r.op, q.asked = r.asked, q.listed = r.listed, q.result = r.result,
         Collecting(r, seen, now),
         \A files : InProgress(r, files, now[KindOf(Current(r))], Current(r))
                      => InProgress(q, files, now[KindOf(Current(r))], Current(r))
  PROVE  Collecting(q, seen, now)
<1>1. PICK t \in 0..5 : /\ \A s \in 1..Len(r.result) : Finished(r, seen, now, t, s)
                        /\ \A s \in (Len(r.result) + 1)..5 : Section(r, seen, now, t, s)
  BY DEF Collecting
<1>2. \A s : Finished(r, seen, now, t, s) => Finished(q, seen, now, t, s)
  BY DEF Finished
<1>3. \A s : Listed(q, s) = Listed(r, s) /\ (HasListed(q, s) <=> HasListed(r, s)) /\ Current(q) = Current(r)
  BY DEF Listed, HasListed, Current
<1>4. \A s, files, others : Ahead(r, files, others, s) => Ahead(q, files, others, s)
  BY <1>3 DEF Ahead
<1>5. ASSUME NEW s, Section(r, seen, now, t, s) PROVE Section(q, seen, now, t, s)
  BY <1>3, <1>4, <1>5 DEF Section
<1> QED BY <1>1, <1>2, <1>5 DEF Collecting

LEMMA CheckThere ==
  ASSUME NEW r, NEW q, NEW files, NEW now, NEW s, r.at = "check", q.at = "load",
         q.asked = r.asked, q.listed = r.listed, q.todo = r.todo, q.entries = r.entries,
         NextName(r) \in r.todo, NextName(r) \in Listed(r, s), now[NextName(r)] # None,
         InProgress(r, files, now, s)
  PROVE  InProgress(q, files, now, s)
<1>1. /\ Listed(q, s) = Listed(r, s) /\ Wanted(q, s) = Wanted(r, s) /\ NextName(q) = NextName(r)
  BY DEF Listed, Wanted, NextName
<1>2. files[NextName(r)] = now[NextName(r)]
  BY DEF InProgress
<1> QED BY <1>1, <1>2 DEF InProgress

LEMMA CheckGone ==
  ASSUME NEW r, NEW q, NEW files, NEW now, NEW s, r.at = "check", q.at = "check", IsCatalog(s),
         q.asked = r.asked, q.listed = r.listed, q.entries = r.entries,
         NEW n \in r.todo, n \in Name, q.todo = r.todo \ {n}, ~(n \in Listed(r, s) /\ now[n] # None),
         InProgress(r, files, now, s)
  PROVE  InProgress(q, files, now, s)
<1> DEFINE done == Wanted(r, s) \ r.todo
<1>1. /\ Listed(q, s) = Listed(r, s) /\ Wanted(q, s) = Wanted(r, s) /\ Wanted(r, s) = Listed(r, s)
      /\ r.todo \subseteq Wanted(r, s)
  BY DEF Listed, Wanted, InProgress
<1>2. now[n] = None /\ files[n] = now[n]
  BY <1>1 DEF InProgress
<1>3. Wanted(q, s) \ q.todo = done \cup {n}
  BY <1>1
<1>4. Wrote(files, done \cup {n}) = Wrote(files, done)
  BY <1>2, WroteMore
<1>5. r.entries = Wrote(files, done) \/ Undescribed(r.entries, files, done, now)
  BY DEF InProgress
<1> HIDE DEF done
<1>6. q.entries = Wrote(files, done \cup {n}) \/ Undescribed(q.entries, files, done \cup {n}, now)
  BY <1>4, <1>5 DEF Undescribed
<1>7. /\ q.todo \subseteq Wanted(q, s)
      /\ \A m \in Name \ Listed(q, s) : files[m] = None
      /\ \A m \in q.todo \cap Listed(q, s) : files[m] = now[m]
  BY <1>1 DEF InProgress
<1> QED BY <1>3, <1>6, <1>7 DEF InProgress

LEMMA LoadThere ==
  ASSUME NEW r, NEW q, NEW files, NEW now, NEW s, r.at = "load", q.at = "check",
         q.asked = r.asked, q.listed = r.listed,
         NEW n \in r.todo, n = NextName(r), n \in Name, now[n] # None,
         q.todo = r.todo \ {n}, q.entries = r.entries \cup {<<n, now[n]>>},
         InProgress(r, files, now, s)
  PROVE  InProgress(q, files, now, s)
<1> DEFINE done == Wanted(r, s) \ r.todo
<1>1. /\ Listed(q, s) = Listed(r, s) /\ Wanted(q, s) = Wanted(r, s)
      /\ r.todo \subseteq Wanted(r, s) /\ n \in Listed(r, s)
  BY DEF Listed, Wanted, InProgress
<1>2. files[n] = now[n] /\ files[n] # None
  BY DEF InProgress
<1>3. Wanted(q, s) \ q.todo = done \cup {n} /\ n \notin done
  BY <1>1
<1>4. Wrote(files, done \cup {n}) = Wrote(files, done) \cup {<<n, files[n]>>}
  BY <1>2, WroteMore
<1>5. /\ r.entries = Wrote(files, done) \/ (IsCatalog(s) /\ Undescribed(r.entries, files, done, now))
      /\ ~IsCatalog(s) => done \subseteq Existing(files)
  BY DEF InProgress
<1> HIDE DEF done
<1>6. ASSUME Undescribed(r.entries, files, done, now)
      PROVE  Undescribed(q.entries, files, done \cup {n}, now)
  <2>1. PICK g \in done : /\ files[g] # None /\ now[g] = None
                          /\ r.entries = (Wrote(files, done) \ {<<g, files[g]>>}) \cup {<<g, Blank>>}
    BY <1>6 DEF Undescribed
  <2>2. <<n, files[n]>> # <<g, files[g]>>
    BY <2>1, <1>3
  <2>3. q.entries = (Wrote(files, done \cup {n}) \ {<<g, files[g]>>}) \cup {<<g, Blank>>}
    BY <1>2, <1>4, <2>1, <2>2
  <2> QED BY <2>1, <2>3 DEF Undescribed
<1>7. \/ q.entries = Wrote(files, done \cup {n})
      \/ IsCatalog(s) /\ Undescribed(q.entries, files, done \cup {n}, now)
  BY <1>2, <1>4, <1>5, <1>6
<1>8. ~IsCatalog(s) => done \cup {n} \subseteq Existing(files)
  BY <1>2, <1>5 DEF Existing
<1>9. /\ q.todo \subseteq Wanted(q, s)
      /\ \A m \in Name \ Listed(q, s) : files[m] = None
      /\ \A m \in q.todo \cap Listed(q, s) : files[m] = now[m]
  BY <1>1 DEF InProgress
<1> QED BY <1>3, <1>7, <1>8, <1>9 DEF InProgress

LEMMA LoadGone ==
  ASSUME NEW r, NEW q, NEW files, NEW now, NEW s, r.at = "load", q.at = "check", IsCatalog(s),
         q.asked = r.asked, q.listed = r.listed,
         NEW n \in r.todo, n = NextName(r), n \in Name, now[n] = None,
         q.todo = r.todo \ {n}, q.entries = r.entries \cup {<<n, Blank>>},
         InProgress(r, files, now, s)
  PROVE  InProgress(q, files, now, s)
<1> DEFINE done == Wanted(r, s) \ r.todo
<1>1. /\ Listed(q, s) = Listed(r, s) /\ Wanted(q, s) = Wanted(r, s)
      /\ r.todo \subseteq Wanted(r, s) /\ n \in Listed(r, s)
  BY DEF Listed, Wanted, InProgress
<1>2. files[n] # None /\ r.entries = Wrote(files, done)
  BY DEF InProgress
<1>3. Wanted(q, s) \ q.todo = done \cup {n} /\ n \notin done
  BY <1>1
<1>4. Wrote(files, done \cup {n}) \ {<<n, files[n]>>} = Wrote(files, done)
  BY <1>2, <1>3, WroteMore, WroteLess
<1> HIDE DEF done
<1>5. Undescribed(q.entries, files, done \cup {n}, now)
  BY <1>2, <1>4 DEF Undescribed
<1>6. /\ q.todo \subseteq Wanted(q, s)
      /\ \A m \in Name \ Listed(q, s) : files[m] = None
      /\ \A m \in q.todo \cap Listed(q, s) : files[m] = now[m]
  BY <1>1 DEF InProgress
<1> QED BY <1>3, <1>5, <1>6 DEF InProgress

(* The section is complete, or begins.                                     *)
LEMMA SectionDone ==
  ASSUME NEW r, NEW files, NEW now, NEW s, r.at = "check", r.todo = {},
         Listed(r, s) \subseteq Name, InProgress(r, files, now, s)
  PROVE  \/ r.entries = IF IsCatalog(s) THEN Catalog(files) ELSE Inspected(files, r.asked[KindOf(s)])
         \/ IsCatalog(s) /\ Undescribed(r.entries, files, Name, now)
<1> DEFINE names == Wanted(r, s)
<1>1. /\ \A n \in Name \ Listed(r, s) : files[n] = None
      /\ ~IsCatalog(s) => names \subseteq Existing(files)
      /\ r.entries = Wrote(files, names) \/ (IsCatalog(s) /\ Undescribed(r.entries, files, names, now))
  BY DEF InProgress
<1>2. CASE ~IsCatalog(s)
  BY <1>1, <1>2, WroteAll DEF Wanted
<1>3. CASE IsCatalog(s)
  <2>1. names = Listed(r, s) /\ names \subseteq Name
    BY <1>3 DEF Wanted
  <2> HIDE DEF names
  <2>2. Wrote(files, names) = Catalog(files) /\ Wrote(files, Name) = Catalog(files)
    BY <1>1, <2>1, WroteAll
  <2>3. Undescribed(r.entries, files, names, now) => Undescribed(r.entries, files, Name, now)
    BY <2>1, <2>2 DEF Undescribed
  <2> QED BY <1>1, <1>3, <2>2, <2>3
<1> QED BY <1>2, <1>3

LEMMA SectionBegins ==
  ASSUME NEW r, NEW q, NEW files, NEW now, NEW s, Ahead(r, files, now, s), HasListed(r, s),
         Listed(q, s) = Listed(r, s), Listed(r, s) \subseteq Name, q.at = "check", q.todo = Wanted(q, s),
         q.entries = {}
  PROVE  InProgress(q, files, now, s)
<1>1. /\ \A n \in Name \ Listed(q, s) : files[n] = None
      /\ \A n \in q.todo \cap Listed(q, s) : files[n] = now[n]
  BY DEF Ahead
<1>2. Wanted(q, s) \ q.todo = {} /\ q.entries = Wrote(files, {}) /\ {} \subseteq Existing(files)
  BY WroteAll
<1> QED BY <1>1, <1>2 DEF InProgress

(* The same names of the kind are asked for, whatever the section.         *)
LEMMA OfOneKind ==
  ASSUME NEW r, NEW s, NEW u, KindOf(s) = KindOf(u)
  PROVE  Listed(r, s) = Listed(r, u) /\ (HasListed(r, s) <=> HasListed(r, u))
BY DEF Listed, HasListed

(* A definition of the kind is written while the section is being read: it *)
(* belongs to the first definitions, or to those that are there now.       *)
LEMMA WrittenInSection ==
  ASSUME NEW r, NEW first, NEW now, NEW s, NEW n, \A m \in Name : m # n => now[m] = first[m],
         r.todo \subseteq Name, Listed(r, s) \subseteq Name, Wanted(r, s) \subseteq Name,
         r.at = "load" => NextName(r) \in r.todo,
         InProgress(r, first, first, s)
  PROVE  InProgress(r, first, now, s) \/ (n \in Listed(r, s) /\ InProgress(r, now, now, s))
<1> DEFINE done == Wanted(r, s) \ r.todo
           next == NextName(r)
<1>1. /\ r.todo \subseteq Wanted(r, s)
      /\ \A m \in Name \ Listed(r, s) : first[m] = None
      /\ r.at = "load" => next \in Listed(r, s) /\ first[next] # None
      /\ ~IsCatalog(s) => done \subseteq Existing(first)
  BY DEF InProgress
<1>2. r.entries = Wrote(first, done)
  BY DEF InProgress, Undescribed
<1>3. done \subseteq Name /\ next \in r.todo \cup {next}
  OBVIOUS
<1>4. CASE n \notin Listed(r, s) \/ n \notin r.todo \/ (r.at = "load" /\ n = next /\ now[n] = None)
  <2>1. \A m \in r.todo \cap Listed(r, s) : (r.at = "load" /\ m = next) \/ first[m] = now[m]
    BY <1>4
  <2>2. r.at = "load" =>
          /\ next \in Listed(r, s) /\ first[next] # None
          /\ first[next] = now[next] \/ (now[next] = None /\ r.entries = Wrote(first, done))
    BY <1>1, <1>2, <1>4
  <2> QED BY <1>1, <1>2, <2>1, <2>2 DEF InProgress
<1>5. CASE n \in Listed(r, s) /\ n \in r.todo /\ ~(r.at = "load" /\ n = next /\ now[n] = None)
  <2>1. \A m \in Name \ Listed(r, s) : now[m] = None
    BY <1>1, <1>5
  <2>2. r.at = "load" => next \in Listed(r, s) /\ now[next] # None
    BY <1>1, <1>5
  <2>3. ~IsCatalog(s) => done \subseteq Existing(now)
    BY <1>1, <1>5 DEF Existing
  <2>4. r.entries = Wrote(now, done)
    <3>1. \A m \in done \cap Name : first[m] = now[m]
      BY <1>5
    <3> HIDE DEF done
    <3> QED BY <1>2, <3>1, WroteSame
  <2>5. InProgress(r, now, now, s)
    BY <1>1, <2>1, <2>2, <2>3, <2>4 DEF InProgress
  <2> QED BY <1>5, <2>5
<1> QED BY <1>4, <1>5

LEMMA WrittenAhead ==
  ASSUME NEW r, NEW first, NEW now, NEW s, NEW n, \A m \in Name : m # n => now[m] = first[m],
         Ahead(r, first, first, s)
  PROVE  IF HasListed(r, s) /\ n \notin Listed(r, s) THEN Ahead(r, first, now, s) ELSE Ahead(r, now, now, s)
BY DEF Ahead

OneChange(first, now, k, n) == \A j \in Kind, m \in Name : j # k \/ m # n => now[j][m] = first[j][m]

LEMMA CollectingWritten ==
  ASSUME NEW r, NEW seen \in Seq(Lab), NEW lab \in Lab, NEW first \in Files, NEW now \in Files,
         lab.stored = now, 1 \in DOMAIN seen, \A i \in DOMAIN seen : seen[i].stored = first,
         NEW k, NEW n, OneChange(first, now, k, n),
         r.at \in {"list", "check", "load"}, Len(r.result) \in 1..4, r.at = "list" => Len(r.result) = 1,
         r.todo \subseteq Name, r.at = "load" => NextName(r) \in r.todo,
         \A s : r.at # "list" => /\ HasListed(r, s) /\ Listed(r, s) \subseteq Name
                                 /\ Wanted(r, s) \subseteq Name,
         Collecting(r, seen, first)
  PROVE  Collecting(r, Append(seen, lab), now)
<1> DEFINE more == Append(seen, lab)
           l == Len(r.result)
<1>0. /\ \A i \in DOMAIN seen : i \in DOMAIN more /\ more[i] = seen[i]
      /\ seen[1].stored = first /\ more[1].stored = first
  BY Grows
<1> HIDE DEF more
<1>k. \A s : /\ KindOf(s) \in Kind
             /\ \A m \in Name : m # n => now[KindOf(s)][m] = first[KindOf(s)][m]
             /\ KindOf(s) # k => now[KindOf(s)] = first[KindOf(s)]
  <2>1. \A s : KindOf(s) \in Kind
    BY DEF KindOf, Kind
  <2>2. \A j \in Kind : j # k => now[j] = first[j]
    <3> SUFFICES ASSUME NEW j \in Kind, j # k PROVE now[j] = first[j]
      OBVIOUS
    <3>1. now[j] \in [Name -> Definition \cup {None}] /\ first[j] \in [Name -> Definition \cup {None}]
      BY DEF Files
    <3>2. \A m \in Name : now[j][m] = first[j][m]
      BY DEF OneChange
    <3> QED BY <3>1, <3>2
  <2> QED BY <2>1, <2>2 DEF OneChange
<1>c. l \in 1..4 /\ Current(r) = l + 1 /\ Current(r) \in 2..5
  <2>1. \A m \in 1..4 : m + 1 \in 2..5
    OBVIOUS
  <2>2. Current(r) = l + 1
    BY Zenon DEF Current
  <2> QED BY <2>1, <2>2
<1>1. PICK t0 \in 0..5 : /\ \A s \in 1..l : Finished(r, seen, first, t0, s)
                         /\ \A s \in (l + 1)..5 : Section(r, seen, first, t0, s)
  BY DEF Collecting
<1>a. \A t, s : Aim(first, first, t, s) = first
  BY DEF Aim
<1>2. ASSUME NEW t \in 0..5, l <= t, NEW s \in 1..l PROVE Finished(r, more, now, t, s)
  <2>1. s <= t /\ Aim(more[1].stored, now, t, s) = first
    BY <1>0, <1>2 DEF Aim
  <2>2. Finished(r, seen, first, t0, s)
    BY <1>1
  <2>3. Aim(seen[1].stored, first, t0, s) = first
    BY <1>0, <1>a
  <2>4. CASE s = 1
    <3>1. \E i \in DOMAIN seen : seen[i].stored = first /\ r.result[1] = ActiveAt(r.op, seen[i])
      BY <2>2, <2>3, <2>4 DEF Finished
    <3>2. \E i \in DOMAIN more : more[i].stored = first /\ r.result[1] = ActiveAt(r.op, more[i])
      BY <1>0, <3>1
    <3> QED BY <2>1, <2>4, <3>2 DEF Finished
  <2>5. CASE s # 1
    <3>1. r.result[s] = IF IsCatalog(s) THEN Catalog(first[KindOf(s)])
                        ELSE Inspected(first[KindOf(s)], r.asked[KindOf(s)])
      BY <2>2, <2>3, <2>5 DEF Finished, Undescribed
    <3> QED BY <2>1, <2>5, <3>1 DEF Finished
  <2> QED BY <2>4, <2>5
<1>3. \A s \in (l + 1)..5 : ~(r.at # "list" /\ s = Current(r)) =>
        Ahead(r, first[KindOf(s)], first[KindOf(s)], s)
  BY <1>0, <1>1, <1>a DEF Section
<1>4. r.at # "list" => InProgress(r, first[KindOf(l + 1)], first[KindOf(l + 1)], l + 1)
  <2>1. l + 1 \in (l + 1)..5
    BY <1>c
  <2> QED BY <1>0, <1>1, <1>a, <1>c, <2>1 DEF Section
<1>5. ASSUME NEW t \in 0..5, l <= t,
             \A s \in (l + 1)..5 :
               LET files == IF s <= t THEN first[KindOf(s)] ELSE now[KindOf(s)] IN
               IF r.at # "list" /\ s = l + 1 THEN InProgress(r, files, now[KindOf(s)], s)
               ELSE Ahead(r, files, now[KindOf(s)], s)
      PROVE  Collecting(r, more, now)
  <2>1. \A s \in 1..l : Finished(r, more, now, t, s)
    BY <1>2, <1>5
  <2>2. \A s : Aim(more[1].stored, now, t, s)[KindOf(s)] = IF s <= t THEN first[KindOf(s)] ELSE now[KindOf(s)]
    BY <1>0 DEF Aim
  <2>3. \A s \in (l + 1)..5 : Section(r, more, now, t, s)
    BY <1>5, <1>c, <2>2 DEF Section
  <2> QED BY <2>1, <2>3 DEF Collecting
<1>6. \A s \in (l + 1)..5 : ~(r.at # "list" /\ s = l + 1) =>
        IF KindOf(s) # k \/ (HasListed(r, s) /\ n \notin Listed(r, s))
        THEN Ahead(r, first[KindOf(s)], now[KindOf(s)], s)
        ELSE Ahead(r, now[KindOf(s)], now[KindOf(s)], s)
  <2> SUFFICES ASSUME NEW s \in (l + 1)..5, ~(r.at # "list" /\ s = l + 1)
               PROVE  IF KindOf(s) # k \/ (HasListed(r, s) /\ n \notin Listed(r, s))
                      THEN Ahead(r, first[KindOf(s)], now[KindOf(s)], s)
                      ELSE Ahead(r, now[KindOf(s)], now[KindOf(s)], s)
    OBVIOUS
  <2> DEFINE before == first[KindOf(s)]
             after == now[KindOf(s)]
  <2>1. Ahead(r, before, before, s) /\ (KindOf(s) # k => after = before)
        /\ \A m \in Name : m # n => after[m] = before[m]
    BY <1>3, <1>c, <1>k
  <2> HIDE DEF before, after
  <2>2. IF HasListed(r, s) /\ n \notin Listed(r, s) THEN Ahead(r, before, after, s)
        ELSE Ahead(r, after, after, s)
    BY <2>1, WrittenAhead
  <2>3. IF KindOf(s) # k \/ (HasListed(r, s) /\ n \notin Listed(r, s)) THEN Ahead(r, before, after, s)
        ELSE Ahead(r, after, after, s)
    BY <2>1, <2>2
  <2> QED BY <2>3 DEF before, after
<1>7. r.at # "list" =>
        \/ InProgress(r, first[KindOf(l + 1)], now[KindOf(l + 1)], l + 1)
        \/ /\ KindOf(l + 1) = k /\ n \in Listed(r, l + 1)
           /\ InProgress(r, now[KindOf(l + 1)], now[KindOf(l + 1)], l + 1)
  <2> DEFINE s == l + 1
             before == first[KindOf(s)]
             after == now[KindOf(s)]
  <2> SUFFICES ASSUME r.at # "list"
               PROVE  \/ InProgress(r, before, after, s)
                      \/ KindOf(s) = k /\ n \in Listed(r, s) /\ InProgress(r, after, after, s)
    OBVIOUS
  <2>1. /\ InProgress(r, before, before, s) /\ (KindOf(s) # k => after = before)
        /\ \A m \in Name : m # n => after[m] = before[m]
        /\ Listed(r, s) \subseteq Name /\ Wanted(r, s) \subseteq Name
    BY <1>4, <1>k
  <2> HIDE DEF before, after, s
  <2>2. InProgress(r, before, after, s) \/ (n \in Listed(r, s) /\ InProgress(r, after, after, s))
    BY <2>1, WrittenInSection
  <2> QED BY <2>1, <2>2
<1> QED
  <2> DEFINE Inside(s) == KindOf(s) = k /\ ~(HasListed(r, s) /\ n \notin Listed(r, s))
  <2>i. \A s, u : KindOf(s) = KindOf(u) => (Inside(s) <=> Inside(u))
    BY OfOneKind
  <2>1. CASE \A s \in (l + 1)..5 : ~Inside(s)
    <3>1. r.at # "list" => InProgress(r, first[KindOf(l + 1)], now[KindOf(l + 1)], l + 1)
      <4>1. l + 1 \in (l + 1)..5
        BY <1>c
      <4> QED BY <1>7, <2>1, <4>1
    <3>2. \A s \in (l + 1)..5 : s <= 5
      OBVIOUS
    <3>3. 5 \in 0..5 /\ l <= 5
      BY <1>c
    <3>4. \A s \in (l + 1)..5 : ~(r.at # "list" /\ s = l + 1) => Ahead(r, first[KindOf(s)], now[KindOf(s)], s)
      BY <1>6, <2>1
    <3>5. Collecting(r, more, now)
      BY <1>5, <3>1, <3>2, <3>3, <3>4
    <3> QED BY <3>5 DEF more
  <2>2. CASE \E s \in (l + 1)..5 : Inside(s)
    <3>1. \A s \in (l + 1)..5 : ~(r.at # "list" /\ s = l + 1) => Ahead(r, now[KindOf(s)], now[KindOf(s)], s)
      <4> SUFFICES ASSUME NEW s \in (l + 1)..5, ~(r.at # "list" /\ s = l + 1)
                   PROVE  Ahead(r, now[KindOf(s)], now[KindOf(s)], s)
        OBVIOUS
      <4>1. CASE KindOf(s) # k
        <5>1. now[KindOf(s)] = first[KindOf(s)]
          BY <1>k, <4>1
        <5> QED BY <1>3, <1>c, <5>1
      <4>2. CASE KindOf(s) = k
        <5>1. Inside(s)
          BY <2>2, <2>i, <4>2
        <5> QED BY <1>6, <4>2, <5>1
      <4> QED BY <4>1, <4>2
    <3>2. CASE r.at = "list" \/ InProgress(r, now[KindOf(l + 1)], now[KindOf(l + 1)], l + 1)
      <4>1. l \in 0..5 /\ l <= l /\ \A s \in (l + 1)..5 : ~(s <= l)
        BY <1>c
      <4>2. Collecting(r, more, now)
        BY <1>5, <3>1, <3>2, <4>1
      <4> QED BY <4>2 DEF more
    <3>3. CASE r.at # "list" /\ InProgress(r, first[KindOf(l + 1)], now[KindOf(l + 1)], l + 1)
      <4>1. l + 1 \in 0..5 /\ l <= l + 1 /\ \A s \in (l + 1)..5 : s <= l + 1 <=> s = l + 1
        BY <1>c
      <4>2. Collecting(r, more, now)
        BY <1>5, <3>1, <3>3, <4>1
      <4> QED BY <4>2 DEF more
    <3> QED BY <1>7, <3>2, <3>3
  <2> QED BY <2>1, <2>2

(* A name is listed that was not: what is left out is not there now.       *)
LEMMA AheadListed ==
  ASSUME NEW r, NEW q, NEW files, NEW now, NEW s,
         HasListed(r, s) => HasListed(q, s) /\ Listed(q, s) = Listed(r, s),
         ~HasListed(r, s) /\ HasListed(q, s) => Listed(q, s) = Existing(now),
         Ahead(r, files, now, s)
  PROVE  Ahead(q, files, now, s)
BY DEF Ahead, Existing

LEMMA ListCollects ==
  ASSUME NEW r, NEW q, NEW seen, NEW now, r.at = "list", Len(r.result) = 1, Len(r.listed) \in {0, 1},
         r.entries = {}, Collecting(r, seen, now),
         q.op = r.op, q.asked = r.asked, q.result = r.result, q.entries = r.entries,
         NEW names, names = Existing(now[KindOf(Len(r.listed) + 2)]),
         Len(r.listed) = 0 => q.at = "list" /\ Len(q.listed) = 1 /\ q.listed[1] = names,
         Len(r.listed) = 1 => /\ q.at = "check" /\ Len(q.listed) = 2
                              /\ q.listed[1] = r.listed[1] /\ q.listed[2] = names /\ q.todo = r.listed[1],
         \A s : q.at # "list" => Listed(q, s) \subseteq Name
  PROVE  Collecting(q, seen, now)
<1>1. PICK t \in 0..5 : /\ \A s \in 1..Len(r.result) : Finished(r, seen, now, t, s)
                        /\ \A s \in (Len(r.result) + 1)..5 : Section(r, seen, now, t, s)
  BY DEF Collecting
<1>2. \A s : Finished(r, seen, now, t, s) => Finished(q, seen, now, t, s)
  BY DEF Finished
<1>3. /\ Current(q) = 2 /\ Current(r) = 2 /\ Len(q.result) = 1
      /\ Len(q.result) + 1 = 2 /\ Len(r.result) + 1 = 2
  <2>1. Len(q.result) = 1
    OBVIOUS
  <2>2. 1 + 1 = 2
    OBVIOUS
  <2>3. Len(q.result) + 1 = 2 /\ Len(r.result) + 1 = 2
    BY <2>1, <2>2, Zenon
  <2> QED BY <2>1, <2>3, Zenon DEF Current
<1>4. \A s \in 2..5 : Ahead(r, Aim(seen[1].stored, now, t, s)[KindOf(s)], now[KindOf(s)], s)
  BY <1>1 DEF Section
<1>5. ASSUME NEW s \in 2..5
      PROVE  Ahead(q, Aim(seen[1].stored, now, t, s)[KindOf(s)], now[KindOf(s)], s)
  <2> DEFINE files == Aim(seen[1].stored, now, t, s)[KindOf(s)]
  <2>1. HasListed(r, s) => HasListed(q, s) /\ Listed(q, s) = Listed(r, s)
    BY DEF HasListed, Listed
  <2>2. ~HasListed(r, s) /\ HasListed(q, s) => Listed(q, s) = Existing(now[KindOf(s)])
    <3>1. CASE Len(r.listed) = 0
      <4>1. names = Existing(now["scenario"])
        BY <3>1 DEF KindOf
      <4> QED BY <3>1, <4>1 DEF HasListed, Listed
    <3>2. CASE Len(r.listed) = 1
      <4>1. names = Existing(now["reference"])
        BY <3>2 DEF KindOf
      <4>2. KindOf(s) = "scenario" \/ KindOf(s) = "reference"
        BY DEF KindOf
      <4> QED BY <3>2, <4>1, <4>2 DEF HasListed, Listed
    <3> QED BY <3>1, <3>2
  <2>3. Ahead(r, files, now[KindOf(s)], s)
    BY <1>4
  <2> HIDE DEF files
  <2>4. Ahead(q, files, now[KindOf(s)], s)
    BY <2>1, <2>2, <2>3, AheadListed
  <2> QED BY <2>4 DEF files
<1>6. ASSUME q.at # "list"
      PROVE  InProgress(q, Aim(seen[1].stored, now, t, 2)[KindOf(2)], now[KindOf(2)], 2)
  <2>1. Len(r.listed) = 1 /\ q.at = "check" /\ Len(q.listed) = 2 /\ q.todo = q.listed[1] /\ q.entries = {}
    BY <1>6
  <2>2. HasListed(q, 2) /\ q.todo = Wanted(q, 2)
    BY <2>1 DEF HasListed, Wanted, IsCatalog, KindOf, Listed
  <2> DEFINE files == Aim(seen[1].stored, now, t, 2)[KindOf(2)]
  <2>3. Ahead(q, files, now[KindOf(2)], 2)
    BY <1>5
  <2> HIDE DEF files
  <2>4. InProgress(q, files, now[KindOf(2)], 2)
    BY <2>1, <2>2, <2>3, SectionBegins
  <2> QED BY <2>4 DEF files
<1>7. \A s \in 2..5 : Section(q, seen, now, t, s)
  BY <1>3, <1>5, <1>6 DEF Section
<1>8. \A s \in 1..Len(q.result) : Finished(q, seen, now, t, s)
  BY <1>1, <1>2
<1> QED BY <1>3, <1>7, <1>8 DEF Collecting

(* What is active is read: the listings come next.                         *)
LEMMA CollectingBegins ==
  ASSUME NEW q, NEW seen \in Seq(Lab), NEW now, q.at = "list", Len(q.result) = 1, Len(q.listed) = 0,
         NEW i \in DOMAIN seen, q.result[1] = ActiveAt(q.op, seen[i]),
         seen[i].stored \in {seen[1].stored, now}
  PROVE  Collecting(q, seen, now)
<1> DEFINE t == IF seen[i].stored = seen[1].stored THEN 1 ELSE 0
<1>0. t \in 0..1 /\ Aim(seen[1].stored, now, t, 1) = seen[i].stored
  BY DEF Aim
<1> HIDE DEF t
<1>1. Finished(q, seen, now, t, 1)
  BY <1>0 DEF Finished
<1>2. \A s \in 2..5 : ~(s <= t) /\ Aim(seen[1].stored, now, t, s) = now
  BY <1>0 DEF Aim
<1>3. \A s : ~HasListed(q, s)
  BY DEF HasListed
<1>4. \A s \in 2..5 : Section(q, seen, now, t, s)
  BY <1>2, <1>3 DEF Section, Ahead
<1>5. \A s \in 1..Len(q.result) : Finished(q, seen, now, t, s)
  BY <1>1
<1>6. t \in 0..5 /\ Len(q.result) + 1 = 2
  BY <1>0
<1> QED BY <1>4, <1>5, <1>6 DEF Collecting

(* The section is complete.                                                *)
LEMMA SectionFinished ==
  ASSUME NEW r, NEW q, NEW seen, NEW now, NEW t, NEW s, s \in 2..5, s = Current(r), r.at = "check", r.todo = {},
         Listed(r, s) \subseteq Name, Section(r, seen, now, t, s), q.asked = r.asked,
         q.result[s] = r.entries
  PROVE  Finished(q, seen, now, t, s)
<1> DEFINE files == Aim(seen[1].stored, now, t, s)
<1>1. InProgress(r, files[KindOf(s)], now[KindOf(s)], s) /\ s # 1
  BY DEF Section
<1> HIDE DEF files
<1>2. \/ r.entries = IF IsCatalog(s) THEN Catalog(files[KindOf(s)])
                     ELSE Inspected(files[KindOf(s)], r.asked[KindOf(s)])
      \/ IsCatalog(s) /\ Undescribed(r.entries, files[KindOf(s)], Name, now[KindOf(s)])
  BY <1>1, SectionDone
<1> QED BY <1>1, <1>2 DEF Finished, files

LEMMA SectionsFinished ==
  ASSUME NEW r, r.at = "check", r.todo = {}, r.result \in Seq(Sections), r.entries \in Sections,
         Len(r.result) \in 1..4, \A s : Listed(r, s) \subseteq Name,
         NEW seen, NEW now, NEW t,
         \A s \in 1..Len(r.result) : Finished(r, seen, now, t, s),
         \A s \in (Len(r.result) + 1)..5 : Section(r, seen, now, t, s),
         NEW q, q.op = r.op, q.asked = r.asked, q.result = Append(r.result, r.entries)
  PROVE  \A s \in 1..Len(q.result) : Finished(q, seen, now, t, s)
<1> DEFINE l == Len(r.result)
<1>1. /\ Len(q.result) = l + 1 /\ q.result[l + 1] = r.entries
      /\ \A s \in 1..l : q.result[s] = r.result[s]
  BY AppendProperties
<1>2. l + 1 \in 2..5 /\ l + 1 \in (l + 1)..5 /\ l + 1 = Current(r)
  <2>1. \A m \in 1..4 : m + 1 \in 2..5 /\ m + 1 \in (m + 1)..5
    OBVIOUS
  <2>2. Current(r) = l + 1
    BY Zenon DEF Current
  <2> QED BY <2>1, <2>2
<1>3. \A s \in 1..l : Finished(q, seen, now, t, s)
  <2>1. 1 \in 1..l
    OBVIOUS
  <2> QED BY <1>1, <2>1 DEF Finished
<1>4. Finished(q, seen, now, t, l + 1)
  <2> DEFINE s == l + 1
  <2>1. s \in 2..5 /\ s = Current(r) /\ q.result[s] = r.entries /\ Section(r, seen, now, t, s)
    BY <1>1, <1>2
  <2> HIDE DEF s
  <2>2. Finished(q, seen, now, t, s)
    BY <2>1, SectionFinished
  <2> QED BY <2>2 DEF s
<1>5. \A s \in 1..(l + 1) : s \in 1..l \/ s = l + 1
  OBVIOUS
<1> QED BY <1>1, <1>3, <1>4, <1>5

(* Five sections: none is older than the one before it.                    *)
LEMMA AllFinished ==
  ASSUME NEW q, q.op = "get_instructions", NEW seen \in Seq(Lab), seen # << >>, NEW now, NEW t \in 0..5,
         seen[Len(seen)].stored = now, \A s \in 1..5 : Finished(q, seen, now, t, s)
  PROVE  InOrder(q, seen)
<1> DEFINE last == Len(seen)
<1>0. last \in DOMAIN seen /\ 1 \in DOMAIN seen /\ seen[last].stored = now
      /\ DOMAIN seen \subseteq Nat /\ \A i \in DOMAIN seen : i <= last
  OBVIOUS
<1> HIDE DEF last
<1>1. PICK i \in DOMAIN seen : /\ seen[i].stored = Aim(seen[1].stored, now, t, 1)
                               /\ q.result[1] = ActiveAt(q.op, seen[i])
  BY DEF Finished
<1> DEFINE when == [s \in 1..5 |-> IF s = 1 \/ s <= t THEN i ELSE last]
<1>2. SectionsOf(q.op) = 1..5
  BY DEF SectionsOf
<1>3. when \in [1..5 -> DOMAIN seen]
  BY <1>0
<1>4. \A s, u \in 1..5 : s < u => when[s] <= when[u]
  BY <1>0
<1>5. ASSUME NEW s \in 1..5 PROVE IsOf(q, seen, s, when[s])
  <2>1. CASE s = 1
    BY <1>1, <2>1, SectionOne DEF IsOf
  <2>2. CASE s # 1
    <3> DEFINE files == Aim(seen[1].stored, now, t, s)
               j == when[s]
    <3>1. seen[j].stored = files /\ j \in DOMAIN seen
      BY <1>0, <1>1, <2>2 DEF Aim
    <3> HIDE DEF files, j, when
    <3>2. SectionAt(q, s, seen[j]) = IF IsCatalog(s) THEN Catalog(files[KindOf(s)])
                                     ELSE Inspected(files[KindOf(s)], q.asked[KindOf(s)])
      BY <2>2, <3>1 DEF SectionAt
    <3>3. \/ q.result[s] = SectionAt(q, s, seen[j])
          \/ IsCatalog(s) /\ Undescribed(q.result[s], files[KindOf(s)], Name, now[KindOf(s)])
      BY <2>2, <3>2 DEF Finished, files
    <3>4. ASSUME IsCatalog(s), Undescribed(q.result[s], files[KindOf(s)], Name, now[KindOf(s)])
          PROVE  IsOf(q, seen, s, j)
      <4>1. PICK n \in Name : /\ files[KindOf(s)][n] # None /\ now[KindOf(s)][n] = None
                              /\ q.result[s] = (Wrote(files[KindOf(s)], Name)
                                                  \ {<<n, files[KindOf(s)][n]>>}) \cup {<<n, Blank>>}
        BY <3>4 DEF Undescribed
      <4>2. j # last
        BY <1>0, <3>1, <4>1
      <4>3. j < last /\ last \in DOMAIN seen
        BY <1>0, <3>1, <4>2
      <4>4. Wrote(files[KindOf(s)], Name) = SectionAt(q, s, seen[j])
        BY <3>2, <3>4, WroteAll
      <4> QED BY <1>0, <3>1, <3>4, <4>1, <4>3, <4>4 DEF IsOf
    <3>5. IsOf(q, seen, s, j)
      BY <3>3, <3>4 DEF IsOf
    <3> QED BY <3>5 DEF j
  <2> QED BY <2>1, <2>2
<1> HIDE DEF when
<1> QED BY <1>2, <1>3, <1>4, <1>5 DEF InOrder

-----------------------------------------------------------------------------
(* The steps.                                                              *)

(* Nothing that the call depends on changes, or only by a commit that      *)
(* begins or ends.                                                         *)
LEMMA Stays ==
  ASSUME TypeInv, NEW w \in Worker, Follows(w), worker'[w] = worker[w], moments'[w] = moments[w],
         UNCHANGED disk, worker[w].at # "idle" => Counted(w)',
         Pristine(w)' => Pristine(w), Unwritten(w)' => Unwritten(w)
  PROVE  Follows(w)'
<1> SUFFICES ASSUME worker[w].at # "idle", Recorded(w)
             PROVE  Traced(w)' /\ Progress(worker[w], moments[w], stored) /\ Untouched(w)'
  BY DEF Follows, Recorded, disk
<1>1. Traced(w) /\ Progress(worker[w], moments[w], stored) /\ Untouched(w)
      /\ selected' = selected /\ stored' = stored
  BY DEF Follows, disk
<1>2. Traced(w)'
  BY <1>1 DEF Traced
<1>3. Untouched(w)'
  BY <1>1 DEF Untouched
<1> QED BY <1>1, <1>2, <1>3

LEMMA OthersStay ==
  ASSUME TypeInv, NEW w \in Worker, Follows(w), worker'[w] = worker[w], moments'[w] = moments[w],
         met'[w] = met[w], UNCHANGED <<disk, commit>>
  PROVE  Follows(w)'
<1>1. worker[w].at # "idle" => Counted(w)'
  BY DEF Follows, Counted, Recorded
<1>2. (Pristine(w)' => Pristine(w)) /\ (Unwritten(w)' => Unwritten(w))
  BY DEF Pristine, Unwritten, FileFollows
<1> QED BY <1>1, <1>2, Stays

LEMMA BeginFollows ==
  ASSUME TypeInv, FollowInv, Begin
  PROVE  FollowInv'
<1> SUFFICES ASSUME NEW w \in Worker PROVE Follows(w)'
  BY DEF FollowInv
<1>0. /\ Follows(w) /\ UNCHANGED <<disk, worker>> /\ commit.at = "none"
      /\ moments'[w] = IF met[w] = 0 THEN moments[w] ELSE << >>
  BY DEF FollowInv, Begin
<1>1. CASE worker[w].at = "idle"
  BY <1>0, <1>1 DEF Follows
<1>2. CASE worker[w].at # "idle"
  <2>1. met'[w] = met[w] + 1 /\ met[w] \in Nat
    BY <1>2 DEF Begin, Busy, TypeInv
  <2>2. Counted(w)
    BY <1>0, <1>2 DEF Follows
  <2>3. Counted(w)'
    BY <1>0, <2>1, <2>2 DEF Counted, Recorded
  <2>4. CASE met[w] = 0
    BY <1>0, <2>3, <2>4, Stays DEF Pristine, Unwritten
  <2>5. CASE met[w] # 0
    BY <1>0, <2>3, <2>5 DEF Follows, Recorded
  <2> QED BY <2>4, <2>5
<1> QED BY <1>1, <1>2

LEMMA EndFollows ==
  ASSUME TypeInv, FollowInv, CommitEnds
  PROVE  FollowInv'
<1> SUFFICES ASSUME NEW w \in Worker PROVE Follows(w)'
  BY DEF FollowInv
<1>0. Follows(w) /\ UNCHANGED <<disk, worker, met, moments>> /\ commit' = NoCommit
  BY DEF FollowInv, CommitEnds
<1>1. commit'.at = "none" /\ ~FileFollows'
  BY <1>0 DEF NoCommit, FileFollows
<1>2. worker[w].at # "idle" => Counted(w)'
  BY <1>0, <1>1 DEF Follows, Counted, Recorded
<1> QED BY <1>0, <1>1, <1>2, Stays DEF Pristine, Unwritten

(* A file operation adds a moment.                                         *)
LEMMA MomentAdded ==
  ASSUME TypeInv, CommitStep, NEW w \in Worker, Recorded(w)
  PROVE  LET lab == [selected |-> selected', stored |-> stored']
             seen == moments[w]
         IN /\ lab \in Lab /\ lab.selected = selected' /\ lab.stored = stored'
            /\ seen \in Seq(Lab) /\ 1 \in DOMAIN seen /\ Len(seen) \in DOMAIN seen
            /\ moments'[w] = Append(seen, lab)
            /\ stored \in Files /\ stored' \in Files
<1> DEFINE lab == [selected |-> selected', stored |-> stored']
<1>1. selected' \in Selection /\ stored' \in Files /\ stored \in Files
  BY CommitStepTypes DEF TypeInv
<1>2. lab \in Lab /\ lab.selected = selected' /\ lab.stored = stored'
  BY <1>1 DEF Lab
<1>3. moments' = [v \in Worker |-> IF Recorded(v) THEN Append(moments[v], lab) ELSE moments[v]]
  BY DEF CommitStep
<1> HIDE DEF lab
<1>4. moments[w] \in Seq(Lab) /\ moments[w] # << >>
  BY DEF TypeInv, Recorded
<1>5. 1 \in DOMAIN moments[w] /\ Len(moments[w]) \in DOMAIN moments[w]
  BY <1>4
<1>6. moments'[w] = Append(moments[w], lab)
  BY <1>3
<1> QED BY <1>1, <1>2, <1>4, <1>5, <1>6 DEF lab

(* After a file operation nothing is pristine, and the definitions are the *)
(* first ones only if a deletion is still to come.                         *)
LEMMA CommitMoves ==
  ASSUME TypeInv, CommitStep, NEW w \in Worker, met[w] # 0
  PROVE  ~Pristine(w)' /\ (Unwritten(w)' => commit.at = "settings" /\ FileFollows)
<1>1. CommitInv /\ met'[w] = met[w]
  BY DEF TypeInv, CommitStep
<1>2. CASE commit.at = "settings"
  <2>1. commit' = IF FileFollows THEN [commit EXCEPT !.at = "file"] ELSE NoCommit
    BY <1>2 DEF CommitStep
  <2>2. CASE FileFollows
    <3>1. commit'.at = "file" /\ commit'.kind = commit.kind /\ commit'.new = commit.new
      BY <1>1, <2>1, <2>2 DEF CommitInv
    <3> QED BY <1>1, <1>2, <2>2, <3>1 DEF Pristine, Unwritten, FileFollows
  <2>3. CASE ~FileFollows
    BY <1>1, <2>1, <2>3 DEF Pristine, Unwritten, FileFollows, NoCommit
  <2> QED BY <2>2, <2>3
<1>3. CASE commit.at = "file"
  <2>1. commit' = IF FileFollows \/ commit.select = selected THEN NoCommit
                  ELSE [commit EXCEPT !.at = "settings"]
    BY <1>3 DEF CommitStep
  <2>2. CASE FileFollows \/ commit.select = selected
    BY <1>1, <2>1, <2>2 DEF Pristine, Unwritten, FileFollows, NoCommit
  <2>3. CASE ~(FileFollows \/ commit.select = selected)
    <3>1. commit'.at = "settings" /\ commit'.kind = commit.kind /\ commit'.new = commit.new
      BY <1>1, <2>1, <2>3 DEF CommitInv
    <3> QED BY <1>1, <2>3, <3>1 DEF Pristine, Unwritten, FileFollows
  <2> QED BY <2>2, <2>3
<1> QED BY <1>2, <1>3 DEF CommitStep

LEMMA CollectingGrows ==
  ASSUME NEW r, NEW seen \in Seq(Lab), 1 \in DOMAIN seen, NEW lab \in Lab, NEW now, Collecting(r, seen, now)
  PROVE  Collecting(r, Append(seen, lab), now)
<1> DEFINE more == Append(seen, lab)
<1>1. DOMAIN seen \subseteq DOMAIN more /\ \A i \in DOMAIN seen : more[i] = seen[i]
  BY Grows
<1> HIDE DEF more
<1>2. more[1] = seen[1]
  BY <1>1
<1>3. \A t, s : Finished(r, seen, now, t, s) => Finished(r, more, now, t, s)
  BY <1>1, <1>2 DEF Finished
<1>4. \A t, s : Section(r, seen, now, t, s) => Section(r, more, now, t, s)
  BY <1>2 DEF Section
<1>5. Collecting(r, more, now)
  BY <1>3, <1>4 DEF Collecting
<1> QED BY <1>5 DEF more

(* What Shape says of a call that collects.                                *)
LEMMA CollectingShape ==
  ASSUME NEW r \in CallState, Shape(r), r.at \in {"list", "check", "load"}
  PROVE  /\ r.op = "get_instructions" /\ Len(r.result) \in 1..4 /\ (r.at = "list" => Len(r.result) = 1)
         /\ r.todo \subseteq Name /\ (r.at = "load" => NextName(r) \in r.todo)
         /\ \A s : r.at # "list" => /\ HasListed(r, s) /\ Listed(r, s) \subseteq Name
                                    /\ Wanted(r, s) \subseteq Name
<1>1. /\ r.op = "get_instructions" /\ Len(r.result) \in 1..4 /\ (r.at = "list" => Len(r.result) = 1)
      /\ r.todo \subseteq Name /\ (r.at # "list" => Len(r.listed) = 2) /\ (r.at = "load" => r.todo # {})
  BY DEF Shape, CallState
<1>2. r.at = "load" => NextName(r) \in r.todo
  BY <1>1 DEF NextName
<1>3. ASSUME r.at # "list", NEW s
      PROVE  HasListed(r, s) /\ Listed(r, s) \subseteq Name /\ Wanted(r, s) \subseteq Name
  <2>1. Listed(r, s) \in SUBSET Name /\ r.asked[KindOf(s)] \in SUBSET Name
    BY <1>3, SectionTypes
  <2>2. HasListed(r, s)
    <3>1. Len(r.listed) = 2
      BY <1>1, <1>3
    <3> QED BY <3>1 DEF HasListed
  <2> QED BY <2>1, <2>2 DEF Wanted
<1> QED BY <1>1, <1>2, <1>3

LEMMA CollectsOn ==
  ASSUME TypeInv, CommitStep, NEW w \in Worker, worker[w].at \in {"list", "check", "load"},
         Recorded(w), Traced(w), met[w] # 0, Collecting(worker[w], moments[w], stored)
  PROVE  Collecting(worker[w], moments'[w], stored')
<1> DEFINE r == worker[w]
           seen == moments[w]
           lab == [selected |-> selected', stored |-> stored']
<1>1. /\ lab \in Lab /\ lab.stored = stored' /\ seen \in Seq(Lab) /\ 1 \in DOMAIN seen
      /\ moments'[w] = Append(seen, lab) /\ stored \in Files /\ stored' \in Files
  BY MomentAdded
<1> HIDE DEF lab
<1>2. CASE commit.at = "settings"
  <2>1. stored' = stored
    BY <1>2 DEF CommitStep
  <2> QED BY <1>1, <2>1, CollectingGrows
<1>3. CASE commit.at = "file"
  <2>1. \A i \in DOMAIN seen : seen[i].stored = stored
    BY <1>3 DEF Traced, Unwritten
  <2>2. OneChange(stored, stored', commit.kind, commit.name)
    BY <1>3, Written DEF OneChange
  <2>3. r \in CallState /\ Shape(r)
    BY DEF TypeInv
  <2>4. /\ r.op = "get_instructions" /\ Len(r.result) \in 1..4 /\ (r.at = "list" => Len(r.result) = 1)
        /\ r.todo \subseteq Name /\ (r.at = "load" => NextName(r) \in r.todo)
        /\ \A s : r.at # "list" => /\ HasListed(r, s) /\ Listed(r, s) \subseteq Name
                                   /\ Wanted(r, s) \subseteq Name
    BY <2>3, CollectingShape
  <2> DEFINE first == stored
             now == stored'
  <2>5. /\ first \in Files /\ now \in Files /\ lab.stored = now /\ Collecting(r, seen, first)
        /\ \A i \in DOMAIN seen : seen[i].stored = first
        /\ OneChange(first, now, commit.kind, commit.name) /\ r.at \in {"list", "check", "load"}
    BY <1>1, <2>1, <2>2
  <2> HIDE DEF r, seen, first, now
  <2>6. Collecting(r, Append(seen, lab), now)
    BY <1>1, <2>4, <2>5, CollectingWritten
  <2> QED BY <1>1, <2>6 DEF r, seen, now
<1> QED BY <1>2, <1>3 DEF CommitStep

LEMMA ReadsOn ==
  ASSUME TypeInv, CommitStep, NEW w \in Worker, worker[w].at = "part", Recorded(w),
         Reading(worker[w], moments[w], stored), Untouched(w)
  PROVE  Reading(worker[w], moments'[w], stored')
<1>1. CASE commit.at = "settings"
  <2> DEFINE lab == [selected |-> selected', stored |-> stored']
  <2>1. stored' = stored
    BY <1>1 DEF CommitStep
  <2>2. lab \in Lab /\ moments[w] \in Seq(Lab) /\ moments'[w] = Append(moments[w], lab)
    BY MomentAdded
  <2> HIDE DEF lab
  <2> QED BY <2>1, <2>2, ReadingGrows
<1>2. CASE commit.at = "file"
  BY <1>2, ReadingWritten
<1> QED BY <1>1, <1>2 DEF CommitStep

LEMMA TracedOn ==
  ASSUME TypeInv, CommitStep, NEW w \in Worker, Recorded(w), Traced(w), met[w] # 0
  PROVE  Traced(w)'
<1> DEFINE seen == moments[w]
           lab == [selected |-> selected', stored |-> stored']
           more == Append(seen, lab)
<1>1. /\ lab \in Lab /\ lab.stored = stored' /\ seen \in Seq(Lab) /\ 1 \in DOMAIN seen
      /\ moments'[w] = more
  BY MomentAdded
<1>c. ~Pristine(w)' /\ (Unwritten(w)' => commit.at = "settings" /\ FileFollows)
  BY CommitMoves
<1>2. /\ Len(more) = Len(seen) + 1 /\ more[Len(more)] = lab /\ DOMAIN more = DOMAIN seen \cup {Len(more)}
      /\ \A i \in DOMAIN seen : more[i] = seen[i]
  BY <1>1, Grows
<1> HIDE DEF more
<1>3. more[1] = seen[1]
  BY <1>1, <1>2
<1>4. commit.at = "settings" => stored' = stored
  BY DEF CommitStep
<1>5. commit.at = "file" => \A i \in DOMAIN seen : seen[i].stored = stored
  BY DEF Traced, Unwritten
<1>6. commit.at \in {"settings", "file"}
  BY DEF CommitStep
<1>7. \A i \in DOMAIN seen : seen[i].stored \in {seen[1].stored, stored}
  BY DEF Traced
<1>8. \A i \in DOMAIN more : more[i].stored \in {more[1].stored, stored'}
  <2> SUFFICES ASSUME NEW i \in DOMAIN more PROVE more[i].stored \in {more[1].stored, stored'}
    OBVIOUS
  <2>1. CASE i = Len(more)
    BY <1>1, <1>2, <2>1
  <2>2. CASE i \in DOMAIN seen
    <3>1. CASE commit.at = "settings"
      BY <1>2, <1>3, <1>4, <1>7, <2>2, <3>1
    <3>2. CASE commit.at = "file"
      BY <1>1, <1>2, <1>3, <1>5, <2>2, <3>2
    <3> QED BY <1>6, <3>1, <3>2
  <2> QED BY <1>2, <2>1, <2>2
<1>9. Unwritten(w)' => \A i \in DOMAIN more : more[i].stored = stored'
  <2> SUFFICES ASSUME Unwritten(w)', NEW i \in DOMAIN more PROVE more[i].stored = stored'
    OBVIOUS
  <2>1. stored' = stored /\ \A j \in DOMAIN seen : seen[j].stored = stored
    BY <1>c, <1>4 DEF Traced, Unwritten
  <2> QED BY <1>1, <1>2, <2>1
<1> QED BY <1>1, <1>2, <1>8, <1>9 DEF Traced

LEMMA CommitFollows ==
  ASSUME TypeInv, FollowInv, CommitStep
  PROVE  FollowInv'
<1> SUFFICES ASSUME NEW w \in Worker, worker[w].at # "idle" PROVE Follows(w)'
  BY DEF FollowInv, Follows, CommitStep
<1> DEFINE r == worker[w]
<1>0. worker' = worker /\ met' = met /\ commit.at # "none"
  BY DEF CommitStep
<1>1. Counted(w) /\ met[w] # 0 /\ (Recorded(w) => Traced(w) /\ Progress(r, moments[w], stored) /\ Untouched(w))
  BY <1>0 DEF FollowInv, Follows, Counted
<1>2. CASE ~Recorded(w)
  <2>1. moments'[w] = moments[w]
    BY <1>2 DEF CommitStep
  <2> QED BY <1>0, <1>1, <1>2, <2>1 DEF Follows, Counted, Recorded
<1>3. CASE Recorded(w)
  <2> DEFINE lab == [selected |-> selected', stored |-> stored']
             seen == moments[w]
  <2>1. lab \in Lab /\ seen \in Seq(Lab) /\ moments'[w] = Append(seen, lab)
    BY <1>3, MomentAdded
  <2>2. moments'[w] # << >>
    <3>1. Len(Append(seen, lab)) # 0
      BY <2>1
    <3> HIDE DEF lab
    <3> QED BY <2>1, <3>1
  <2> HIDE DEF lab
  <2>3. Counted(w)'
    BY <1>0, <1>1, <1>3, <2>2 DEF Counted, Recorded
  <2>4. Traced(w)'
    BY <1>1, <1>3, TracedOn
  <2>5. Untouched(w)'
    BY <1>1, CommitMoves DEF Untouched
  <2>6. Progress(r, moments'[w], stored')
    <3>1. Progress(r, seen, stored)
      BY <1>1, <1>3
    <3>2. r.at = "part" => Reading(r, moments'[w], stored')
      BY <1>1, <1>3, <3>1, ReadsOn DEF Progress
    <3>3. r.at \in {"list", "check", "load"} => Collecting(r, moments'[w], stored')
      BY <1>1, <1>3, <3>1, CollectsOn DEF Progress
    <3>4. r.at \in {"waiting", "holding", "done"} /\ r.op # "close" => Settled(r, moments'[w])
      BY <2>1, <3>1, StillSettled DEF Progress
    <3> QED BY <3>1, <3>2, <3>3, <3>4 DEF Progress
  <2> QED BY <1>0, <2>3, <2>4, <2>5, <2>6 DEF Follows
<1> QED BY <1>2, <1>3

(* A call begins: it has seen one moment and read nothing.                 *)
LEMMA CallBegins ==
  ASSUME TypeInv, FollowInv, NEW w \in Worker, NEW op \in Ops,
         NEW asked \in [{"scenario", "reference"} -> SUBSET Name], Call(w, op, asked)
  PROVE  FollowInv'
<1> SUFFICES ASSUME NEW v \in Worker PROVE Follows(v)'
  BY DEF FollowInv
<1>0. Follows(v) /\ UNCHANGED <<disk, commit>> /\ worker[w].at = "idle"
  BY DEF FollowInv, Call, Busy
<1>1. CASE v # w
  <2>1. worker'[v] = worker[v] /\ met'[v] = met[v] /\ moments'[v] = moments[v]
    BY <1>1 DEF Call, TypeInv
  <2> QED BY <1>0, <2>1, OthersStay
<1>2. CASE v = w
  <2> DEFINE lab == [selected |-> selected, stored |-> stored]
             first == << lab >>
             s == [Idle EXCEPT !.op = op, !.asked = asked, !.at = FirstStep(op)]
  <2>1. /\ worker'[v] = s /\ moments'[v] = first
        /\ met'[v] = (IF commit.at = "none" THEN 0 ELSE 1) /\ commit' = commit
        /\ selected' = selected /\ stored' = stored
    BY <1>2 DEF Call, TypeInv, disk
  <2>2. s.at = FirstStep(op) /\ s.op = op /\ s.entries = {}
    BY DEF Idle
  <2>3. FirstStep(op) \in {"settings", "waiting"} /\ (FirstStep(op) = "waiting" => op = "close")
    BY DEF FirstStep
  <2>4. lab.stored = stored
    OBVIOUS
  <2>5. Len(first) = 1 /\ first[1] = lab /\ first # << >> /\ DOMAIN first = {1}
    <3>1. Len(first) = 1 /\ first[1] = lab /\ DOMAIN first = 1..1
      OBVIOUS
    <3> QED BY <3>1
  <2>l. lab = [selected |-> selected, stored |-> stored]
    OBVIOUS
  <2> HIDE DEF s, first, lab
  <2>6. Counted(v)'
    BY <2>1, <2>5 DEF Counted, Recorded
  <2>7. Traced(v)'
    <3>1. first[Len(first)] = lab /\ \A i \in DOMAIN first : first[i].stored = stored
      BY <2>4, <2>5
    <3> QED BY <2>1, <2>l, <3>1 DEF Traced
  <2>8. Progress(s, first, stored)
    BY <2>2, <2>3 DEF Progress
  <2>9. Untouched(v)'
    BY <2>1, <2>2, <2>3 DEF Untouched
  <2> QED BY <2>1, <2>6, <2>7, <2>8, <2>9 DEF Follows
<1> QED BY <1>1, <1>2

(* A step of a call that leaves the disk as it is.                         *)
LEMMA GoesOn ==
  ASSUME TypeInv, FollowInv, NEW w \in Worker, worker[w].at # "idle", NEW s,
         worker' = [worker EXCEPT ![w] = s], UNCHANGED <<disk, commit, met, moments>>,
         Recorded(w) => /\ Progress(s, moments[w], stored)
                        /\ s.at = "part" /\ Pristine(w) => s.snap = selected /\ GotFrom(s, stored)
  PROVE  FollowInv'
<1> SUFFICES ASSUME NEW v \in Worker PROVE Follows(v)'
  BY DEF FollowInv
<1>0. Follows(v)
  BY DEF FollowInv
<1>1. CASE v # w
  <2>1. worker'[v] = worker[v] /\ met'[v] = met[v] /\ moments'[v] = moments[v]
    BY <1>1 DEF TypeInv
  <2> QED BY <1>0, <2>1, OthersStay
<1>2. CASE v = w
  <2>1. worker'[v] = s /\ met' = met /\ moments' = moments /\ commit' = commit
        /\ selected' = selected /\ stored' = stored
    BY <1>2 DEF TypeInv, disk
  <2>2. Counted(v) /\ (Recorded(v) => Traced(v))
    BY <1>0, <1>2 DEF Follows
  <2>3. Counted(v)' /\ (Recorded(v) => Traced(v)') /\ (Recorded(v)' <=> Recorded(v))
        /\ (Pristine(v)' <=> Pristine(v))
    BY <2>1, <2>2 DEF Counted, Recorded, Traced, Unwritten, Pristine, FileFollows
  <2>4. ASSUME Recorded(v) PROVE Untouched(v)' /\ Progress(worker'[v], moments'[v], stored')
    BY <1>2, <2>1, <2>3, <2>4 DEF Untouched
  <2> QED BY <2>3, <2>4 DEF Follows
<1> QED BY <1>1, <1>2

(* A call returns what is settled, or an error that it may report.         *)
LEMMA Returns ==
  ASSUME TypeInv, FollowInv, NEW w \in Worker, worker[w].at \notin {"idle", "holding"},
         worker[w].op # "close", NEW result \in Seq(Sections), Return(w, result), Reads,
         Recorded(w) => \A q : q.op = worker[w].op /\ q.asked = worker[w].asked /\ q.result = result
                                 => Settled(q, moments[w])
  PROVE  FollowInv'
<1> DEFINE s == Ended(worker[w], result)
<1>1. worker' = [worker EXCEPT ![w] = s] /\ UNCHANGED <<disk, commit, met, moments>>
  BY DEF Return, Ended, Reads
<1>2. s.at = "done" /\ s.op = worker[w].op /\ s.asked = worker[w].asked /\ s.result = result
  <2>1. worker[w] \in CallState /\ Shape(worker[w]) /\ worker[w].op \in Ops
    BY DEF TypeInv, Shape
  <2> QED BY <2>1, EndedTypes
<1> HIDE DEF s
<1>3. Recorded(w) => Progress(s, moments[w], stored)
  BY <1>2 DEF Progress
<1> QED BY <1>1, <1>2, <1>3, GoesOn

LEMMA ReadPartFollows ==
  ASSUME TypeInv, FollowInv, NEW w \in Worker, ReadPart(w)
  PROVE  FollowInv'
<1> DEFINE r == worker[w]
           seen == moments[w]
           part == Found(Parts(r.op)[Len(r.got) + 1], r.snap, stored)
           got == Append(r.got, part)
           answer == Answer(r.op, got)
<1>0. /\ r.at = "part" /\ r.op \in PartOps /\ Reads
      /\ part # None => got \in Seq(Definition) /\ Len(got) = Len(r.got) + 1
      /\ \/ part = None /\ Return(w, Error)
         \/ /\ part # None /\ Len(got) < Len(Parts(r.op))
            /\ worker' = [worker EXCEPT ![w] = Read(r, got, "part", << >>)]
         \/ /\ part # None /\ Len(got) = Len(Parts(r.op)) /\ (r.op = "get_topology" \/ answer = Failed)
            /\ Return(w, <<answer>>)
         \/ \E step \in {"list", "waiting"} :
              /\ part # None /\ Len(got) = Len(Parts(r.op)) /\ answer # Failed
              /\ r.op \in IF step = "list" THEN {"get_instructions"} ELSE {"open", "drive"}
              /\ worker' = [worker EXCEPT ![w] = Read(r, got, step, <<answer>>)]
  BY ReadPartMoves
<1>t. /\ r \in CallState /\ Shape(r) /\ r.snap \in Selection /\ Len(r.got) < Len(Parts(r.op))
      /\ seen \in Seq(Lab) /\ r.op # "close" /\ r.got \in Seq(Definition)
      /\ UNCHANGED <<disk, commit, met, moments>>
  BY <1>0 DEF TypeInv, Shape, PartOps, CallState, Reads
<1>1. Recorded(w) => /\ Reading(r, seen, stored) /\ r.entries = {} /\ Untouched(w) /\ Traced(w)
                     /\ seen[Len(seen)].stored = stored
  <2>1. Recorded(w) => Progress(r, seen, stored) /\ Untouched(w) /\ Traced(w)
    BY <1>0 DEF FollowInv, Follows
  <2> QED BY <1>0, <2>1 DEF Progress, Traced
<1>f. part = Found(Parts(r.op)[Len(r.got) + 1], r.snap, stored)
  OBVIOUS
<1>g. got = Append(r.got, part) /\ answer = Answer(r.op, got)
  OBVIOUS
<1>h. ASSUME part # None, Len(got) = Len(Parts(r.op))
      PROVE  <<answer>> \in Seq(Sections) /\ Len(<<answer>>) = 1 /\ <<answer>>[1] = answer
  <2>1. answer \in Sections
    BY <1>0, <1>h, AnswerTypes
  <2> QED BY <2>1
<1> HIDE DEF part, got, answer
<1>m. ASSUME NEW q, q.op = r.op, q.snap = r.snap, q.got = got, part # None, Recorded(w)
      PROVE  /\ Reading(q, seen, stored)
             /\ Len(got) = Len(Parts(r.op)) => \E i \in DOMAIN seen : ActiveAt(r.op, seen[i]) = answer
             /\ Pristine(w) => q.snap = selected /\ GotFrom(q, stored)
  <2>0. /\ Reading(r, seen, stored) /\ q.op = r.op /\ q.snap = r.snap /\ part # None
        /\ q.got = Append(r.got, part) /\ q.got \in Seq(Definition) /\ ReadsMore(q, r, part)
    BY <1>0, <1>1, <1>g, <1>m DEF ReadsMore
  <2>1. /\ Reading(q, seen, stored)
        /\ Len(q.got) = Len(Parts(q.op)) =>
             \E i \in DOMAIN seen : ActiveAt(q.op, seen[i]) = Answer(q.op, q.got)
    <3> DEFINE now == stored
    <3>1. Reading(r, seen, now) /\ part = Found(Parts(r.op)[Len(r.got) + 1], r.snap, now)
      BY <2>0, <1>f
    <3> HIDE DEF now, r, seen
    <3>2. /\ Reading(q, seen, now)
          /\ Len(q.got) = Len(Parts(q.op)) =>
               \E i \in DOMAIN seen : ActiveAt(q.op, seen[i]) = Answer(q.op, q.got)
      BY <1>0, <1>t, <2>0, <3>1, PartRead
    <3> QED BY <3>2 DEF now
  <2>2. ASSUME Pristine(w) PROVE q.snap = selected /\ GotFrom(q, stored)
    <3>1. r.snap = selected /\ GotFrom(r, stored)
      BY <1>0, <1>1, <1>m, <2>2 DEF Untouched
    <3> QED BY <1>0, <1>f, <1>m, <1>t, <2>0, <3>1, GotMore
  <2> QED BY <1>g, <1>m, <2>1, <2>2
<1>2. CASE part = None /\ Return(w, Error)
  <2>1. ASSUME Recorded(w), NEW q, q.op = r.op, q.asked = r.asked, q.result = Error
        PROVE  Settled(q, seen)
    <3>1. MayFail(r, seen)
      BY <1>0, <1>1, <1>2, <1>f, <1>t, <2>1, PartGone
    <3>2. \A s, lab : SectionAt(q, s, lab) = SectionAt(r, s, lab)
      BY <2>1 DEF SectionAt
    <3> QED BY <2>1, <3>1, <3>2 DEF Settled, MayFail
  <2> QED BY <1>0, <1>2, <1>t, <2>1, ErrorTypes, Returns
<1>3. CASE /\ part # None /\ Len(got) < Len(Parts(r.op))
           /\ worker' = [worker EXCEPT ![w] = Read(r, got, "part", << >>)]
  <2> DEFINE s == Read(r, got, "part", << >>)
  <2>0. got \in Seq(Definition) /\ Len(got) < Len(Parts(r.op))
    BY <1>0, <1>3
  <2>1. s.op = r.op /\ s.at = "part" /\ s.snap = r.snap /\ s.got = got /\ s.entries = r.entries
    BY <1>0, <1>t, <2>0, PartReadTypes
  <2>2. worker' = [worker EXCEPT ![w] = s]
    BY <1>3
  <2> HIDE DEF s
  <2>3. Recorded(w) => /\ Progress(s, seen, stored)
                       /\ s.at = "part" /\ Pristine(w) => s.snap = selected /\ GotFrom(s, stored)
    BY <1>1, <1>3, <1>m, <2>1 DEF Progress
  <2> QED BY <1>0, <1>t, <2>2, <2>3, GoesOn
<1>4. CASE part # None /\ Len(got) = Len(Parts(r.op)) /\ (r.op = "get_topology" \/ answer = Failed)
           /\ Return(w, <<answer>>)
  <2> DEFINE result == <<answer>>
  <2>0. result \in Seq(Sections) /\ Return(w, result) /\ (answer = Failed => result = Error)
    BY <1>4, <1>h DEF Error
  <2>1. ASSUME Recorded(w), NEW q, q.op = r.op, q.asked = r.asked, q.result = result
        PROVE  Settled(q, seen)
    <3> DEFINE p == Read(r, got, "part", << >>)
    <3>1. p.op = r.op /\ p.snap = r.snap /\ p.got = got
      BY <1>t DEF Read, CallState
    <3> HIDE DEF p
    <3>2. PICK i \in DOMAIN seen : ActiveAt(r.op, seen[i]) = answer
      BY <1>4, <1>m, <2>1, <3>1
    <3>3. q.result = <<ActiveAt(q.op, seen[i])>>
      BY <2>1, <3>2
    <3>4. q.op # "get_instructions" \/ q.result = Error
      BY <1>4, <2>0, <2>1
    <3> QED BY <1>0, <1>t, <2>1, <3>2, <3>3, <3>4, OneSection
  <2> HIDE DEF result
  <2> QED BY <1>0, <1>t, <2>0, <2>1, Returns
<1>5. ASSUME NEW step \in {"list", "waiting"},
             part # None, Len(got) = Len(Parts(r.op)), answer # Failed,
             r.op \in IF step = "list" THEN {"get_instructions"} ELSE {"open", "drive"},
             worker' = [worker EXCEPT ![w] = Read(r, got, step, <<answer>>)]
      PROVE  FollowInv'
  <2> DEFINE result == <<answer>>
             s == Read(r, got, step, result)
  <2>0. /\ result \in Seq(Sections) /\ result # Error /\ Len(result) = 1 /\ result[1] = answer
        /\ got \in Seq(Definition)
    BY <1>0, <1>5, <1>h, ErrorTypes
  <2>1. result = <<answer>> /\ worker' = [worker EXCEPT ![w] = s]
    BY <1>5
  <2> HIDE DEF result
  <2>2. /\ s.op = r.op /\ s.asked = r.asked /\ s.listed = << >> /\ s.entries = r.entries
        /\ s.at = step /\ s.result = result
    BY <1>0, <1>5, <1>t, <2>0, ReadTypes
  <2>3. s.snap = r.snap /\ s.got = got
    BY <1>t DEF Read, CallState
  <2> HIDE DEF s
  <2>4. ASSUME Recorded(w)
        PROVE  Progress(s, seen, stored)
    <3>1. PICK i \in DOMAIN seen : ActiveAt(r.op, seen[i]) = answer
      BY <1>5, <1>m, <2>2, <2>3, <2>4
    <3>2. CASE step = "list"
      <4>1. seen[i].stored \in {seen[1].stored, stored}
        BY <1>1, <2>4, <3>1 DEF Traced
      <4>2. Len(s.listed) = 0
        BY <2>2
      <4>3. s.at = "list" /\ Len(s.result) = 1 /\ s.result[1] = ActiveAt(s.op, seen[i])
        BY <2>0, <2>2, <3>1, <3>2
      <4>4. Collecting(s, seen, stored)
        BY <1>t, <3>1, <4>1, <4>2, <4>3, CollectingBegins
      <4> QED BY <1>1, <2>2, <2>4, <3>2, <4>4 DEF Progress
    <3>3. CASE step = "waiting"
      <4>1. s.op \in PartOps /\ s.op # "get_instructions"
        BY <1>5, <2>2, <3>3 DEF PartOps
      <4>2. s.result = <<ActiveAt(s.op, seen[i])>>
        BY <2>1, <2>2, <3>1
      <4>3. Settled(s, seen)
        BY <1>t, <3>1, <4>1, <4>2, OneSection
      <4> QED BY <2>2, <3>3, <4>3 DEF Progress
    <3> QED BY <3>2, <3>3
  <2>5. s.at # "part"
    BY <2>2
  <2> QED BY <1>0, <1>t, <2>1, <2>4, <2>5, GoesOn
<1> QED BY <1>0, <1>2, <1>3, <1>4, <1>5

LEMMA ReadSettingsFollows ==
  ASSUME TypeInv, FollowInv, NEW w \in Worker, ReadSettings(w)
  PROVE  FollowInv'
<1> DEFINE r == worker[w]
           s == [r EXCEPT !.at = "part", !.snap = selected]
           seen == moments[w]
<1>1. /\ r.at = "settings" /\ worker' = [worker EXCEPT ![w] = s] /\ Reads
      /\ s.at = "part" /\ s.snap = selected /\ s.got = << >> /\ s.entries = r.entries
  BY ReadSettingsMoves
<1> HIDE DEF s
<1>2. Len(s.got) = 0
  BY <1>1
<1>3. \A files : GotFrom(s, files)
  BY <1>2 DEF GotFrom
<1>4. ASSUME Recorded(w) PROVE Progress(s, seen, stored)
  <2>1. Traced(w) /\ r.entries = {} /\ seen \in Seq(Lab) /\ seen # << >>
    BY <1>1, <1>4 DEF FollowInv, Follows, Progress, Recorded, TypeInv
  <2>2. Len(seen) \in DOMAIN seen
    BY <2>1
  <2>3. seen[Len(seen)].selected = selected /\ seen[Len(seen)].stored = stored
    BY <2>1 DEF Traced
  <2>4. Reading(s, seen, stored)
    BY <1>1, <1>3, <2>2, <2>3 DEF Reading, RestFrom
  <2> QED BY <1>1, <2>1, <2>4 DEF Progress
<1> QED BY <1>1, <1>3, <1>4, GoesOn DEF Reads

LEMMA ListFollows ==
  ASSUME TypeInv, FollowInv, NEW w \in Worker, List(w)
  PROVE  FollowInv'
<1> DEFINE r == worker[w]
           seen == moments[w]
           names == Existing(stored[KindOf(Len(r.listed) + 2)])
           s == Lists(r, names)
<1>1. r.at = "list" /\ Reads /\ names \in SUBSET Name /\ worker' = [worker EXCEPT ![w] = s]
  BY ListMoves
<1>2. /\ r \in CallState /\ Shape(r) /\ Len(r.result) = 1 /\ Len(r.listed) \in {0, 1}
  BY <1>1 DEF TypeInv, Shape
<1>f. names = Existing(stored[KindOf(Len(r.listed) + 2)])
  OBVIOUS
<1> HIDE DEF names
<1>3. /\ s \in CallState /\ Shape(s) /\ s.op = r.op /\ s.asked = r.asked /\ s.result = r.result
      /\ s.entries = r.entries
      /\ Len(r.listed) = 0 => s.at = "list" /\ Len(s.listed) = 1 /\ s.listed[1] = names
      /\ Len(r.listed) = 1 => /\ s.at = "check" /\ Len(s.listed) = 2
                              /\ s.listed[1] = r.listed[1] /\ s.listed[2] = names /\ s.todo = r.listed[1]
  BY <1>1, <1>2, ListTypes
<1> HIDE DEF s
<1>4. ASSUME Recorded(w) PROVE Progress(s, seen, stored)
  <2>1. Collecting(r, seen, stored) /\ r.entries = {}
    BY <1>1, <1>4 DEF FollowInv, Follows, Progress
  <2>2. \A u : s.at # "list" => Listed(s, u) \subseteq Name
    BY <1>2, <1>3, CollectingShape
  <2>3. Collecting(s, seen, stored)
    BY <1>1, <1>2, <1>3, <1>f, <2>1, <2>2, ListCollects
  <2> QED BY <1>2, <1>3, <2>1, <2>3 DEF Progress
<1>5. s.at # "part"
  BY <1>2, <1>3
<1> QED BY <1>1, <1>4, <1>5, GoesOn DEF Reads

(* What a call that is in a section may rely on.                           *)
LEMMA InSectionKnows ==
  ASSUME TypeInv, FollowInv, NEW w \in Worker, worker[w].at \in {"check", "load"}
  PROVE  LET r == worker[w]
             s == Current(r)
         IN /\ r \in CallState /\ Shape(r) /\ r.op = "get_instructions" /\ s \in 2..5 /\ s = Len(r.result) + 1
            /\ r.todo \subseteq Name /\ KindOf(s) \in Kind
            /\ Recorded(w) => /\ Collecting(r, moments[w], stored) /\ Traced(w)
                              /\ moments[w] \in Seq(Lab) /\ moments[w] # << >>
                              /\ moments[w][Len(moments[w])].stored = stored
<1> DEFINE r == worker[w]
<1>1. r \in CallState /\ Shape(r) /\ moments[w] \in Seq(Lab)
  BY DEF TypeInv
<1>2. Recorded(w) => /\ Collecting(r, moments[w], stored) /\ Traced(w)
                     /\ moments[w] # << >> /\ moments[w][Len(moments[w])].stored = stored
  BY DEF FollowInv, Follows, Progress, Recorded, Traced
<1> QED BY <1>1, <1>2, SectionTypes

(* An inspected definition that is not there: a failure at some moment.    *)
LEMMA InspectionFails ==
  ASSUME NEW r, r.op = "get_instructions", r.at \in {"check", "load"}, NEW seen \in Seq(Lab), seen # << >>,
         NEW now, seen[Len(seen)].stored = now, Collecting(r, seen, now),
         Current(r) \in 2..5, Current(r) = Len(r.result) + 1, ~IsCatalog(Current(r)),
         NEW n \in r.todo, n \in Name,
         n \notin Listed(r, Current(r)) \/ now[KindOf(Current(r))][n] = None
  PROVE  MayFail(r, seen)
<1> DEFINE s == Current(r)
           last == Len(seen)
<1>0. last \in DOMAIN seen /\ 1 \in DOMAIN seen /\ seen[last].stored = now /\ s # 1 /\ s \in SectionsOf(r.op)
  BY DEF SectionsOf
<1>1. PICK t \in 0..5 : Section(r, seen, now, t, s)
  <2>1. s \in (Len(r.result) + 1)..5
    OBVIOUS
  <2> QED BY <2>1 DEF Collecting
<1> DEFINE files == Aim(seen[1].stored, now, t, s)
<1>2. InProgress(r, files[KindOf(s)], now[KindOf(s)], s)
  BY <1>1 DEF Section
<1>3. files = seen[1].stored \/ files = seen[last].stored
  BY <1>0 DEF Aim
<1> HIDE DEF last, files, s
<1>4. n \in r.asked[KindOf(s)]
  BY <1>2 DEF InProgress, Wanted, s
<1>5. ASSUME NEW i \in DOMAIN seen, seen[i].stored[KindOf(s)][n] = None
      PROVE  MayFail(r, seen)
  <2>1. Inspected(seen[i].stored[KindOf(s)], r.asked[KindOf(s)]) = Failed
    BY <1>4, <1>5 DEF Inspected, Existing
  <2>2. ~IsCatalog(s)
    BY DEF s
  <2>3. SectionAt(r, s, seen[i]) = Failed
    BY <1>0, <2>1, <2>2 DEF SectionAt
  <2> QED BY <1>0, <2>3 DEF MayFail
<1>6. CASE now[KindOf(s)][n] = None
  BY <1>0, <1>5, <1>6
<1>7. CASE n \notin Listed(r, s)
  <2>1. files[KindOf(s)][n] = None
    BY <1>2, <1>7 DEF InProgress
  <2> QED BY <1>0, <1>3, <1>5, <2>1
<1> QED BY <1>6, <1>7 DEF s

LEMMA FailureSettled ==
  ASSUME NEW r, NEW seen, MayFail(r, seen)
  PROVE  \A q : q.op = r.op /\ q.asked = r.asked /\ q.result = Error => Settled(q, seen)
<1> SUFFICES ASSUME NEW q, q.op = r.op, q.asked = r.asked, q.result = Error PROVE Settled(q, seen)
  OBVIOUS
<1>1. \A s, lab : SectionAt(q, s, lab) = SectionAt(r, s, lab)
  BY DEF SectionAt
<1> QED BY <1>1 DEF Settled, MayFail

LEMMA CheckFollows ==
  ASSUME TypeInv, FollowInv, NEW w \in Worker, Check(w)
  PROVE  FollowInv'
<1> DEFINE r == worker[w]
           seen == moments[w]
           s == Current(r)
           n == NextName(r)
           now == stored[KindOf(s)]
           there == n \in Listed(r, s) /\ now[n] # None
<1>1. /\ r.at = "check" /\ r.todo # {} /\ Reads
      /\ \/ there /\ worker' = [worker EXCEPT ![w] = Loads(r)]
         \/ ~there /\ IsCatalog(s) /\ worker' = [worker EXCEPT ![w] = Skips(r, n)]
         \/ ~there /\ ~IsCatalog(s) /\ Return(w, Error)
  BY CheckMoves
<1>2. /\ r \in CallState /\ Shape(r) /\ r.op = "get_instructions" /\ s \in 2..5 /\ s = Len(r.result) + 1
      /\ r.todo \subseteq Name
      /\ Recorded(w) => /\ Collecting(r, seen, stored) /\ seen \in Seq(Lab) /\ seen # << >>
                        /\ seen[Len(seen)].stored = stored
  BY <1>1, InSectionKnows
<1>3. n \in r.todo /\ n \in Name
  BY <1>1, <1>2, SectionTypes
<1>u. UNCHANGED <<disk, commit, met, moments>> /\ r.at # "idle"
  BY <1>1 DEF Reads
<1>4. CASE there /\ worker' = [worker EXCEPT ![w] = Loads(r)]
  <2> DEFINE q == Loads(r)
  <2>1. q = [op |-> r.op, at |-> "load", asked |-> r.asked, snap |-> r.snap, got |-> r.got,
             listed |-> r.listed, todo |-> r.todo, entries |-> r.entries, result |-> r.result]
    BY <1>1, <1>2, SectionMoves
  <2>2. q.at = "load" /\ q.op = r.op /\ q.asked = r.asked /\ q.listed = r.listed /\ q.todo = r.todo
        /\ q.entries = r.entries /\ q.result = r.result
    BY <2>1
  <2> HIDE DEF q
  <2>3. \A files : InProgress(r, files, now, s) => InProgress(q, files, now, s)
    BY <1>1, <1>3, <1>4, <2>2, CheckThere
  <2>4. Recorded(w) => Progress(q, seen, stored)
    <3>1. Recorded(w) => Collecting(q, seen, stored)
      BY <1>1, <1>2, <2>2, <2>3, InSection
    <3> QED BY <2>2, <3>1 DEF Progress
  <2>5. worker' = [worker EXCEPT ![w] = q]
    BY <1>4 DEF q
  <2> QED BY <1>u, <2>2, <2>4, <2>5, GoesOn
<1>5. CASE ~there /\ IsCatalog(s) /\ worker' = [worker EXCEPT ![w] = Skips(r, n)]
  <2> DEFINE q == Skips(r, n)
  <2>1. q = [op |-> r.op, at |-> "check", asked |-> r.asked, snap |-> r.snap, got |-> r.got,
             listed |-> r.listed, todo |-> r.todo \ {n}, entries |-> r.entries, result |-> r.result]
    BY <1>1, <1>2, SectionMoves
  <2>2. q.at = "check" /\ q.op = r.op /\ q.asked = r.asked /\ q.listed = r.listed /\ q.todo = r.todo \ {n}
        /\ q.entries = r.entries /\ q.result = r.result
    BY <2>1
  <2>5. worker' = [worker EXCEPT ![w] = q]
    BY <1>5
  <2> HIDE DEF q, n
  <2>3. \A files : InProgress(r, files, now, s) => InProgress(q, files, now, s)
    BY <1>1, <1>3, <1>5, <2>2, CheckGone
  <2>4. Recorded(w) => Progress(q, seen, stored)
    <3>1. Recorded(w) => Collecting(q, seen, stored)
      BY <1>1, <1>2, <2>2, <2>3, InSection
    <3> QED BY <2>2, <3>1 DEF Progress
  <2> QED BY <1>u, <2>2, <2>4, <2>5, GoesOn
<1>6. CASE ~there /\ ~IsCatalog(s) /\ Return(w, Error)
  <2>1. Recorded(w) => MayFail(r, seen)
    BY <1>1, <1>2, <1>3, <1>6, InspectionFails
  <2>2. Recorded(w) => \A q : q.op = r.op /\ q.asked = r.asked /\ q.result = Error => Settled(q, seen)
    BY <2>1, FailureSettled
  <2> QED BY <1>1, <1>2, <1>6, <2>2, ErrorTypes, Returns
<1> QED BY <1>1, <1>4, <1>5, <1>6

LEMMA LoadFollows ==
  ASSUME TypeInv, FollowInv, NEW w \in Worker, Load(w)
  PROVE  FollowInv'
<1> DEFINE r == worker[w]
           seen == moments[w]
           s == Current(r)
           n == NextName(r)
           now == stored[KindOf(s)]
           file == now[n]
<1>1. /\ r.at = "load" /\ r.todo # {} /\ n \in Name /\ file \in Definition \cup {None} /\ Reads
      /\ \/ file # None /\ worker' = [worker EXCEPT ![w] = Adds(r, n, file)]
         \/ file = None /\ IsCatalog(s) /\ worker' = [worker EXCEPT ![w] = Adds(r, n, Blank)]
         \/ file = None /\ ~IsCatalog(s) /\ Return(w, Error)
  BY LoadMoves
<1>2. /\ r \in CallState /\ Shape(r) /\ r.op = "get_instructions" /\ s \in 2..5 /\ s = Len(r.result) + 1
      /\ r.todo \subseteq Name
      /\ Recorded(w) => /\ Collecting(r, seen, stored) /\ seen \in Seq(Lab) /\ seen # << >>
                        /\ seen[Len(seen)].stored = stored
  BY <1>1, InSectionKnows
<1>3. n \in r.todo
  BY <1>1, <1>2, SectionTypes
<1>u. UNCHANGED <<disk, commit, met, moments>> /\ r.at # "idle"
  BY <1>1 DEF Reads
<1>m. ASSUME NEW says \in Definition, worker' = [worker EXCEPT ![w] = Adds(r, n, says)],
             (file # None /\ says = file) \/ (file = None /\ IsCatalog(s) /\ says = Blank)
      PROVE  FollowInv'
  <2> DEFINE q == Adds(r, n, says)
  <2>1. q = [op |-> r.op, at |-> "check", asked |-> r.asked, snap |-> r.snap, got |-> r.got,
             listed |-> r.listed, todo |-> r.todo \ {n},
             entries |-> r.entries \cup {<<n, says>>}, result |-> r.result]
    BY <1>1, <1>2, SectionMoves
  <2>2. /\ q.at = "check" /\ q.op = r.op /\ q.asked = r.asked /\ q.listed = r.listed /\ q.todo = r.todo \ {n}
        /\ q.entries = r.entries \cup {<<n, says>>} /\ q.result = r.result
    BY <2>1
  <2>n. n = NextName(r) /\ file = now[n]
    OBVIOUS
  <2>5. worker' = [worker EXCEPT ![w] = q]
    BY <1>m
  <2> HIDE DEF q, n, file
  <2>3. ASSUME NEW files, InProgress(r, files, now, s) PROVE InProgress(q, files, now, s)
    <3>1. CASE file # None
      <4>1. q.entries = r.entries \cup {<<n, now[n]>>} /\ now[n] # None
        BY <1>m, <2>2, <2>n, <3>1
      <4> QED BY <1>1, <1>3, <2>2, <2>3, <2>n, <4>1, LoadThere
    <3>2. CASE file = None
      <4>1. q.entries = r.entries \cup {<<n, Blank>>} /\ now[n] = None /\ IsCatalog(s)
        BY <1>m, <2>2, <2>n, <3>2
      <4> QED BY <1>1, <1>3, <2>2, <2>3, <2>n, <4>1, LoadGone
    <3> QED BY <3>1, <3>2
  <2>4. Recorded(w) => Progress(q, seen, stored)
    <3>1. Recorded(w) => Collecting(q, seen, stored)
      BY <1>1, <1>2, <2>2, <2>3, InSection
    <3> QED BY <2>2, <3>1 DEF Progress
  <2> QED BY <1>u, <2>2, <2>4, <2>5, GoesOn
<1>4. CASE file # None /\ worker' = [worker EXCEPT ![w] = Adds(r, n, file)]
  BY <1>1, <1>4, <1>m
<1>5. CASE file = None /\ IsCatalog(s) /\ worker' = [worker EXCEPT ![w] = Adds(r, n, Blank)]
  BY <1>5, <1>m, ErrorTypes
<1>6. CASE file = None /\ ~IsCatalog(s) /\ Return(w, Error)
  <2>1. Recorded(w) => MayFail(r, seen)
    BY <1>1, <1>2, <1>3, <1>6, InspectionFails
  <2>2. Recorded(w) => \A q : q.op = r.op /\ q.asked = r.asked /\ q.result = Error => Settled(q, seen)
    BY <2>1, FailureSettled
  <2> QED BY <1>1, <1>2, <1>6, <2>2, ErrorTypes, Returns
<1> QED BY <1>1, <1>4, <1>5, <1>6

LEMMA NextBegins ==
  ASSUME NEW r \in CallState, Shape(r), r.at = "check", r.todo = {}, Current(r) \in 2..4,
         NEW seen, NEW now, Collecting(r, seen, now),
         NEW q, q.at = "check", q.op = r.op, q.asked = r.asked, q.listed = r.listed,
         q.result = Append(r.result, r.entries), q.entries = {}, q.todo = Wanted(r, Current(r) + 1)
  PROVE  Collecting(q, seen, now)
<1> DEFINE l == Len(r.result)
           u == Current(r) + 1
<1>0. /\ r.result \in Seq(Sections) /\ r.entries \in Sections /\ l \in 1..4 /\ Current(r) = l + 1
      /\ \A s : HasListed(r, s) /\ Listed(r, s) \subseteq Name
  BY CollectingShape, SectionTypes
<1>1. PICK t \in 0..5 : /\ \A s \in 1..l : Finished(r, seen, now, t, s)
                        /\ \A s \in (l + 1)..5 : Section(r, seen, now, t, s)
  BY DEF Collecting
<1>2. \A s \in 1..Len(q.result) : Finished(q, seen, now, t, s)
  BY <1>0, <1>1, SectionsFinished
<1>3. Len(q.result) = l + 1 /\ Len(q.result) + 1 = u
  <2>1. Len(q.result) = l + 1
    BY <1>0, AppendProperties
  <2> QED BY <1>0, <2>1
<1>4. Current(q) = u
  BY <1>3, Zenon DEF Current
<1>5. \A s : Listed(q, s) = Listed(r, s) /\ Wanted(q, s) = Wanted(r, s) /\ (HasListed(q, s) <=> HasListed(r, s))
  BY DEF Listed, Wanted, HasListed
<1>6. ASSUME NEW s \in u..5 PROVE Section(q, seen, now, t, s)
  <2> DEFINE files == Aim(seen[1].stored, now, t, s)[KindOf(s)]
             others == now[KindOf(s)]
  <2>1. s \in (l + 1)..5 /\ s # l + 1 /\ u = l + 2
    BY <1>0
  <2>2. Section(r, seen, now, t, s) /\ s # Current(r)
    BY <1>0, <1>1, <2>1
  <2>3. Ahead(r, files, others, s)
    BY <2>2 DEF Section
  <2> HIDE DEF files, others
  <2>4. CASE s = u
    <3>1. q.todo = Wanted(q, s) /\ HasListed(r, s) /\ Listed(r, s) \subseteq Name /\ Listed(q, s) = Listed(r, s)
      BY <1>0, <1>5, <2>4
    <3>2. InProgress(q, files, others, s)
      BY <2>3, <3>1, SectionBegins
    <3> QED BY <1>4, <2>4, <3>2 DEF Section, files, others
  <2>5. CASE s # u
    <3>1. Ahead(q, files, others, s)
      BY <1>5, <2>3 DEF Ahead
    <3> QED BY <1>4, <2>5, <3>1 DEF Section, files, others
  <2> QED BY <2>4, <2>5
<1> QED BY <1>2, <1>3, <1>6 DEF Collecting

LEMMA NextSectionFollows ==
  ASSUME TypeInv, FollowInv, NEW w \in Worker, NextSection(w)
  PROVE  FollowInv'
<1> DEFINE r == worker[w]
           seen == moments[w]
           all == Append(r.result, r.entries)
           s == Len(all) + 1
           names == IF IsCatalog(s) THEN Listed(r, s) ELSE r.asked[KindOf(s)]
<1>1. /\ r.at = "check" /\ r.todo = {} /\ Reads
      /\ all \in Seq(Sections) /\ Len(all) = Current(r) /\ names \in SUBSET Name
      /\ \/ Current(r) = 5 /\ Return(w, all)
         \/ Current(r) \in 2..4 /\ worker' = [worker EXCEPT ![w] = Begins(r, all, names)]
  BY NextSectionMoves
<1>2. /\ r \in CallState /\ Shape(r) /\ r.op = "get_instructions" /\ Current(r) \in 2..5
      /\ Current(r) = Len(r.result) + 1
      /\ Recorded(w) => /\ Collecting(r, seen, stored) /\ seen \in Seq(Lab) /\ seen # << >>
                        /\ seen[Len(seen)].stored = stored
  BY <1>1, InSectionKnows
<1>u. UNCHANGED <<disk, commit, met, moments>> /\ r.at # "idle"
  BY <1>1 DEF Reads
<1>a. all = Append(r.result, r.entries)
  OBVIOUS
<1>n. names = Wanted(r, Current(r) + 1)
  <2>1. s = Current(r) + 1
    BY <1>1
  <2> HIDE DEF s
  <2> QED BY <2>1 DEF Wanted
<1> HIDE DEF all, names
<1>3. CASE Current(r) = 5 /\ Return(w, all)
  <2>1. ASSUME Recorded(w), NEW q, q.op = r.op, q.asked = r.asked, q.result = all PROVE Settled(q, seen)
    <3> DEFINE now == stored
    <3>0. /\ Collecting(r, seen, now) /\ seen \in Seq(Lab) /\ seen # << >> /\ seen[Len(seen)].stored = now
      BY <1>2, <2>1
    <3> HIDE DEF now, seen
    <3>1. /\ r.result \in Seq(Sections) /\ r.entries \in Sections /\ Len(r.result) \in 1..4
          /\ \A u : Listed(r, u) \subseteq Name
      BY <1>1, <1>2, CollectingShape, SectionTypes
    <3>2. PICK t \in 0..5 : /\ \A u \in 1..Len(r.result) : Finished(r, seen, now, t, u)
                            /\ \A u \in (Len(r.result) + 1)..5 : Section(r, seen, now, t, u)
      BY <3>0 DEF Collecting
    <3>3. q.result = Append(r.result, r.entries)
      BY <2>1, <1>a
    <3>4. \A u \in 1..Len(q.result) : Finished(q, seen, now, t, u)
      BY <1>1, <2>1, <3>1, <3>2, <3>3, SectionsFinished
    <3>5. Len(q.result) = 5
      BY <1>1, <1>3, <2>1
    <3>6. InOrder(q, seen)
      BY <1>2, <2>1, <3>0, <3>4, <3>5, AllFinished
    <3>7. q.result # Error
      <4>1. Len(Error) = 1
        BY ErrorTypes
      <4> QED BY <3>5, <4>1
    <3> QED BY <3>6, <3>7 DEF Settled
  <2> QED BY <1>1, <1>2, <1>3, <2>1, Returns
<1>4. CASE Current(r) \in 2..4 /\ worker' = [worker EXCEPT ![w] = Begins(r, all, names)]
  <2> DEFINE q == Begins(r, all, names)
  <2>0. Len(all) \in 1..4
    BY <1>1, <1>4
  <2>1. q = [op |-> r.op, at |-> "check", asked |-> r.asked, snap |-> r.snap, got |-> r.got,
             listed |-> r.listed, todo |-> names, entries |-> {}, result |-> all]
    BY <1>1, <1>2, <2>0, SectionMoves
  <2>2. /\ q.at = "check" /\ q.op = r.op /\ q.asked = r.asked /\ q.listed = r.listed
        /\ q.todo = names /\ q.entries = {} /\ q.result = all
    BY <2>1
  <2>5. worker' = [worker EXCEPT ![w] = q]
    BY <1>4
  <2> HIDE DEF q
  <2>3. Recorded(w) => Collecting(q, seen, stored)
    BY <1>1, <1>2, <1>4, <1>a, <1>n, <2>2, NextBegins
  <2>4. Recorded(w) => Progress(q, seen, stored)
    BY <2>2, <2>3 DEF Progress
  <2> QED BY <1>u, <2>2, <2>4, <2>5, GoesOn
<1> QED BY <1>1, <1>3, <1>4

LEMMA SessionStepsFollow ==
  ASSUME TypeInv, FollowInv, NEW w \in Worker, Acquire(w) \/ Act(w)
  PROVE  FollowInv'
<1> DEFINE r == worker[w]
           seen == moments[w]
<1>1. \E s : /\ worker' = [worker EXCEPT ![w] = s] /\ r.at \in {"waiting", "holding"}
             /\ UNCHANGED <<disk, commit, met, moments>> /\ s.at \in {"holding", "done"}
             /\ s.op = r.op /\ s.asked = r.asked /\ s.result = r.result
  <2>1. CASE Acquire(w)
    BY <2>1, HoldTypes
  <2>2. CASE Act(w)
    BY <2>2, ActMoves
  <2> QED BY <2>1, <2>2
<1>2. PICK s : /\ worker' = [worker EXCEPT ![w] = s] /\ r.at \in {"waiting", "holding"}
               /\ UNCHANGED <<disk, commit, met, moments>> /\ s.at \in {"holding", "done"}
               /\ s.op = r.op /\ s.asked = r.asked /\ s.result = r.result
  BY <1>1
<1>3. Recorded(w) => Progress(s, seen, stored)
  <2>1. Recorded(w) /\ r.op # "close" => Settled(r, seen)
    BY <1>2 DEF FollowInv, Follows, Progress
  <2>2. Recorded(w) /\ s.op # "close" => Settled(s, seen)
    BY <1>2, <2>1, SettledSame
  <2> QED BY <1>2, <2>2 DEF Progress
<1> QED BY <1>2, <1>3, GoesOn

LEMMA ReplyFollows ==
  ASSUME TypeInv, FollowInv, NEW w \in Worker, Reply(w)
  PROVE  FollowInv'
<1> SUFFICES ASSUME NEW v \in Worker PROVE Follows(v)'
  BY DEF FollowInv
<1>0. Follows(v) /\ UNCHANGED <<disk, commit>>
  BY DEF FollowInv, Reply
<1>1. CASE v # w
  <2>1. worker'[v] = worker[v] /\ met'[v] = met[v] /\ moments'[v] = moments[v]
    BY <1>1 DEF Reply, TypeInv
  <2> QED BY <1>0, <2>1, OthersStay
<1>2. CASE v = w
  <2>1. worker'[v] = Idle /\ Idle.at = "idle"
    BY <1>2, IdleTypes DEF Reply, TypeInv
  <2> QED BY <2>1 DEF Follows
<1> QED BY <1>1, <1>2

LEMMA NextFollows == TypeInv /\ FollowInv /\ [Next]_vars => FollowInv'
<1> SUFFICES ASSUME TypeInv, FollowInv, [Next]_vars PROVE FollowInv'
  OBVIOUS
<1>1. CASE Begin \/ CommitStep \/ CommitEnds
  BY <1>1, BeginFollows, CommitFollows, EndFollows
<1>2. CASE SessionEnds \/ UNCHANGED vars
  <2>1. UNCHANGED <<disk, commit, worker, met, moments>>
    BY <1>2 DEF SessionEnds, vars
  <2>2. \A w \in Worker : Follows(w)'
    BY <2>1, OthersStay DEF FollowInv
  <2> QED BY <2>2 DEF FollowInv
<1>3. ASSUME NEW w \in Worker, Step(w) PROVE FollowInv'
  BY <1>3, ReadSettingsFollows, ReadPartFollows, ListFollows, CheckFollows, LoadFollows,
     NextSectionFollows, SessionStepsFollow, ReplyFollows DEF Step
<1>4. ASSUME NEW w \in Worker, NEW op \in Serves[w],
             NEW asked \in IF op = "get_instructions" THEN Requests ELSE {NoRequest}, Call(w, op, asked)
      PROVE  FollowInv'
  BY <1>4, CallsServed, CallBegins
<1> QED BY <1>1, <1>2, <1>3, <1>4 DEF Next

LEMMA FollowsHold == Spec => [](TypeInv /\ FollowInv)
<1>1. Init => FollowInv
  <2> SUFFICES ASSUME Init PROVE FollowInv
    OBVIOUS
  <2>1. \A w \in Worker : worker[w].at = "idle"
    BY IdleTypes DEF Init
  <2> QED BY <2>1 DEF FollowInv, Follows
<1> QED BY <1>1, NextFollows, InitTypes, NextTypes, PTL DEF Spec

(* Each section of an answer is right for a moment of the call, and no     *)
(* section is older than the one before it; a call fails only if it had    *)
(* to, or if what it reads is deleted (the order of the writes in          *)
(* commit(), get_device() and get_execution_instructions()).               *)
THEOREM AnswersAreRight == Spec => []AnswersAreCurrent
<1>1. TypeInv /\ FollowInv => AnswersAreCurrent
  <2> SUFFICES ASSUME TypeInv, FollowInv, NEW w \in Worker, Answered(w), met[w] <= 1
               PROVE  Settled(worker[w], moments[w])
    BY DEF AnswersAreCurrent, Settled
  <2>1. worker[w].at \in {"waiting", "holding", "done"} /\ worker[w].result # << >>
    BY DEF Answered
  <2>2. worker[w].op # "close"
    BY <2>1 DEF TypeInv, Shape
  <2>3. Progress(worker[w], moments[w], stored)
    BY <2>1 DEF FollowInv, Follows, Counted
  <2> QED BY <2>1, <2>2, <2>3 DEF Progress
<1> QED BY <1>1, FollowsHold, PTL

(* A device is driven, or its session opened, only by a call during which  *)
(* it was in the active topology (verify_device_in_active_topology(),      *)
(* get_device(), before the lock of the session is taken).                 *)
THEOREM DrivingIsActive == Spec => DrivenOnlyIfActive
<1> DEFINE Right == \A w \in Worker :
             /\ worker[w].at = "holding" /\ worker'[w].at = "done"
             /\ worker[w].op \in {"open", "drive"} /\ met[w] <= 1
             => \E i \in DOMAIN moments[w] : ActiveAt(worker[w].op, moments[w][i]) # Failed
<1>1. TypeInv /\ FollowInv => Right
  <2> SUFFICES ASSUME TypeInv, FollowInv, NEW w \in Worker, worker[w].at = "holding",
                      worker[w].op \in {"open", "drive"}, met[w] <= 1
               PROVE  \E i \in DOMAIN moments[w] : ActiveAt(worker[w].op, moments[w][i]) # Failed
    OBVIOUS
  <2> DEFINE r == worker[w]
             seen == moments[w]
  <2>1. /\ Len(r.result) = 1 /\ r.result # Error /\ r.result \in Seq(Sections)
    BY DEF TypeInv, Shape, CallState
  <2>2. Settled(r, seen)
    BY DEF FollowInv, Follows, Counted, Progress
  <2>3. SectionsOf(r.op) = {1}
    BY FirstSection DEF PartOps
  <2>4. PICK i \in DOMAIN seen : IsOf(r, seen, 1, i)
    BY <2>1, <2>2, <2>3 DEF Settled, InOrder
  <2>5. r.result[1] = ActiveAt(r.op, seen[i])
    BY <2>4, SectionOne DEF IsOf, IsCatalog
  <2>6. r.result[1] # Failed
    <3>1. r.result = <<r.result[1]>>
      BY <2>1
    <3> QED BY <2>1, <3>1 DEF Error
  <2> QED BY <2>5, <2>6
<1> HIDE DEF Right
<1>2. Spec => [][Right]_vars
  BY <1>1, FollowsHold, PTL
<1> QED BY <1>2 DEF DrivenOnlyIfActive, Right

=============================================================================
